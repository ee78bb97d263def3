SPECIFICATION Spec
CONSTANTS
  f1 = f1
  f2 = f2
  s1 = s1
  s2 = s2
  unknown = unknown
  alive = alive
  dead = dead
  Facilitator <- MCFacilitators
  Seeker = {s1, s2}
  SeekersOf <- MCOneAtF1
  MaxRequests = 1
  MaxFaults = 1
INVARIANTS
  TypeOK
  ClaimsHold
  HeartbeatsEnd
  NoneLeft

  
CHECK_DEADLOCK FALSE
