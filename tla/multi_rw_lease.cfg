CONSTANTS
  o1 = o1
  o2 = o2
  o3 = o3
  k1 = k1
  k2 = k2
  NoOwner = NoOwner
  Owners = {o1, o2}
  Keys = {k1, k2}
  Role <- MultiRwRole
  KeySeq <- MultiRwKeys
  Ttl <- MultiRwTtl
  RenewInterval <- MultiRwRenew
  RetryInterval <- MultiRwRetry
  Ms = 2
  MaxExact = 9
  MaxClock = 7
SPECIFICATION Spec
INVARIANTS
  AllOrNothing
  ReleasedMeansGone
PROPERTIES
  AbstractSpec
CHECK_DEADLOCK FALSE
