SPECIFICATION Spec
CONSTANTS
  a = a
  b = b
  c = c
  Player <- MCTwo
  DiesIn <- MCNobodyDies
  AlwaysTimely = TRUE
  MaxRounds = 3
  FaultyRounds = 1
  MaxFaults = 1
  BufferSize = 5
  WireSize = 3
INVARIANTS
  AliveIsCount
PROPERTIES
  GameGoesOn
  DepartureNoticed
CHECK_DEADLOCK FALSE
