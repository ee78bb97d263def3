SPECIFICATION Spec
CONSTANTS
  f = f
  a = a
  b = b
  Player <- MCPlayers
  Dials <- MCOneWay
  MaxDials = 2
  MaxFaults = 1
INVARIANTS
  TypeOK
  StartAgreed
  SameStream
PROPERTIES
  EveryoneStarts
CHECK_DEADLOCK FALSE
