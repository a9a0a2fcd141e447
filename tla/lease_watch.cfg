SPECIFICATION FairSpec
CONSTANTS
  w1 = w1
  w2 = w2
  Waiters = {w1, w2}
  Ttl = 3
  Cap = 2
  MaxRenewals = 1
  MaxClock = 5
INVARIANTS
  ToldIsFinal
PROPERTIES
  WokenByChange
  WaitEnds
CHECK_DEADLOCK FALSE
