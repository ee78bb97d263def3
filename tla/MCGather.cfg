SPECIFICATION SafetySpec
CONSTANTS
  f = f
  a = a
  b = b
  c = c
  Peer <- MCThreeSeekers
  Self = f
  None = None
  WordSize = 32
  MaxCap = 9
  unknown = unknown
  alive = alive
  dead = dead
  DesiredCount = 3
  MaxStreams = 1
  MaxFaults = 2
SYMMETRY SeekerSymmetry
INVARIANTS
  TypeOK
  MeshSymmetric
  GameMatchesMesh
  CliqueInGame
  EdgesReported
  PairsRequested
  ToldOnce
PROPERTIES
  MembersTold
CHECK_DEADLOCK FALSE
