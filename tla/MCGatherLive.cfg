SPECIFICATION CooperativeSpec
CONSTANTS
  f = f
  a = a
  b = b
  c = c
  Peer <- MCThreeSeekers
  Self = f
  None = None
  WordSize = 32
  MaxCap = 9
  unknown = unknown
  alive = alive
  dead = dead
  DesiredCount = 4
  MaxStreams = 1
  MaxFaults = 0
PROPERTIES
  Gathers
  PartyFinishes
CHECK_DEADLOCK FALSE
