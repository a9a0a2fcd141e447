SPECIFICATION SecondSpec
CONSTANTS
  o1 = o1
  o2 = o2
  c1 = c1
  c2 = c2
  None = None
  Owners <- MCOwners
  Callers <- MCCallers
  Buffer = 1
PROPERTIES
  ShutdownEnds
  WaitersEnd
  SupervisorsEnd
  WorkerFinishes
CHECK_DEADLOCK FALSE
