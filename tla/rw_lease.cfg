CONSTANTS
  o1 = o1
  o2 = o2
  o3 = o3
  k1 = k1
  k2 = k2
  NoOwner = NoOwner
  Owners = {o1, o2, o3}
  Keys = {k1, k2}
  Role <- RwRole
  KeySeq <- RwKeys
  Ttl <- RwTtl
  RenewInterval <- RwRenew
  RetryInterval <- RwRetry
  Ms = 2
  MaxExact = 1000
  MaxClock = 5
SPECIFICATION Spec
INVARIANTS
  LeaseBacked
  KeyOutlivesHolders
CHECK_DEADLOCK FALSE
