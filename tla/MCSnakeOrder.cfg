SPECIFICATION Spec
CONSTANTS
  p1 = p1
  p2 = p2
  p3 = p3
  NoBody = NoBody
  Player = {p1, p2}
  Self = p1
  Right = 5
  Bottom = 4
  N = 1
  MaxRounds = 3
  MaxLeavers = 1
CHECK_DEADLOCK FALSE
INVARIANTS
  RoundDetermined
