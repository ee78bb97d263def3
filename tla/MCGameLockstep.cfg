SPECIFICATION SafetySpec
CONSTANTS
  a = a
  b = b
  c = c
  Player <- MCThree
  DiesIn <- MCNobodyDies
  AlwaysTimely = FALSE
  MaxRounds = 2
  FaultyRounds = 2
  MaxFaults = 0
  BufferSize = 5
  WireSize = 3
SYMMETRY PlayerSymmetry
INVARIANTS
  TypeOK
  RoomForOwnMove
  Agreement
  FreshMoves
PROPERTIES
  LockstepSpec
CHECK_DEADLOCK FALSE
