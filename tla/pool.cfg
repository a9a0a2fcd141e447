SPECIFICATION Spec
CONSTANTS
  u1 = u1
  u2 = u2
  u3 = u3
  Users <- MCUsers
  MaxIdle = 2
  MaxConns = 3
  MaxCommands = 2
SYMMETRY UserSymmetry
INVARIANTS
  OwnReply
  FailedIsGone
CHECK_DEADLOCK FALSE
