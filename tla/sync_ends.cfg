SPECIFICATION FairSpec
CONSTANTS
  o1 = o1
  o2 = o2
  c1 = c1
  c2 = c2
  None = None
  Owners <- MCOwners
  Callers <- OneCaller
  Timed <- FirstOwner
  Once <- NoOwners
  Buffer = 1
PROPERTIES
  DeadlineEnds
  WaitsEnd
  WorkEnds
  ThreadFinishes
  ShutdownEnds
CHECK_DEADLOCK FALSE
