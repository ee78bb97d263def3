SPECIFICATION Spec
CONSTANTS
  unknown = unknown
  alive = alive
  dead = dead
INVARIANTS
  TypeOK
PROPERTIES
  ReportsChangesOnly
  CloseTerminates
  LastingIsNoticed
