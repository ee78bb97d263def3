SPECIFICATION Spec
CONSTANTS
  a = a
  b = b
  c = c
  Player <- MCTwo
  DiesIn <- MCNobodyDies
  AlwaysTimely = TRUE
  MaxRounds = 1
  FaultyRounds = 1
  MaxFaults = 1
  BufferSize = 5
  WireSize = 3
PROPERTIES
  GameFinishes
CHECK_DEADLOCK FALSE
