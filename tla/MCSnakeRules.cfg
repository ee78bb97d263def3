SPECIFICATION Spec
CONSTANTS
  p1 = p1
  p2 = p2
  p3 = p3
  NoBody = NoBody
  Player = {p1, p2, p3}
  Self = p1
  Right = 6
  Bottom = 4
  N = 1
  MaxRounds = 3
  MaxLeavers = 1
INVARIANTS
  TypeOK
  Disjoint
  OrderIndifferent
PROPERTIES
  PlayedByTwo
  BoardHolds
CHECK_DEADLOCK FALSE
SYMMETRY OthersAlike
