CONSTANTS
  o1 = o1
  o2 = o2
  o3 = o3
  k1 = k1
  k2 = k2
  NoOwner = NoOwner
  Owners = {o1, o2}
  Keys = {k1, k2}
  Role <- MutexRole
  KeySeq <- MutexKeys
  Ttl <- MutexTtl
  RenewInterval <- MutexRenew
  RetryInterval <- MutexRetry
  Ms = 2
  MaxExact = 1000
  MaxClock = 6
SPECIFICATION Spec
INVARIANTS
  Exclusion
  ActiveIsBacked
  WakesInTime
PROPERTIES
  NoForeignRemoval
CHECK_DEADLOCK FALSE
