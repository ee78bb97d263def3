SPECIFICATION Spec
CONSTANTS
  f = f
  a = a
  b = b
  c = c
  Peer <- MCPeer
  Required = f
  Counts <- MCCounts
  WordSize = 4
  MaxCap = 5
INVARIANTS
  TypeOK
  FoundIsClique
  NilMeansNone
  ResultAsAbstracted
CHECK_DEADLOCK FALSE
