SPECIFICATION Spec
CONSTANTS
  o1 = o1
  o2 = o2
  c1 = c1
  c2 = c2
  None = None
  Owners <- MCOwners
  Callers <- MCCallers
  Buffer = 1
SYMMETRY Symmetry
INVARIANTS
  NoLeak
  NoReleaseUnderHolder
  BarrierDrains
  OneVerdict
CHECK_DEADLOCK FALSE
