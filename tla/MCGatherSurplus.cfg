SPECIFICATION Spec
CONSTANTS
  f = f
  a = a
  b = b
  c = c
  Peer <- MCTwoSeekers
  Self = f
  None = None
  WordSize = 32
  MaxCap = 9
  unknown = unknown
  alive = alive
  dead = dead
  DesiredCount = 2
  MaxStreams = 1
  MaxFaults = 0
PROPERTIES
  PartyFinishes
CHECK_DEADLOCK FALSE
