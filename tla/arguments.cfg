SPECIFICATION ArgumentsSpec
CONSTANTS
  Durations <- MCDurations
  PerMs = 4
  MaxTtlMillis = 3
  Word = 5
  DefaultRetry = 2
  DefaultTtl = 12
  Key = {"k1", "k2", "k3"}
  Lists <- MCLists
INVARIANTS
  BuildRight
  VerdictRight
CHECK_DEADLOCK FALSE
