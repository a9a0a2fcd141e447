SPECIFICATION Spec
CONSTANTS
  o1 = o1
  o2 = o2
  c1 = c1
  c2 = c2
  None = None
  Owners <- MCOwners
  Callers <- MCCallers
  Timed <- FirstOwner
  Once <- SecondOwner
  Buffer = 1
SYMMETRY CallerSymmetry
INVARIANTS
  TypeOK
  NoLeak
  NoReleaseUnderHolder
  BarrierDrains
  OneVerdict
  ThreadOutlivesGuards
  NoLostWakeup
CHECK_DEADLOCK FALSE
