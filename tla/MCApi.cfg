CONSTANTS
  User = {u1, u2}
  MaxSid = 2
  MaxQid = 1
  MaxAsks = 1
  MaxLost = 1
  SslOnly = FALSE
  HasKey = FALSE
SPECIFICATION Spec
INVARIANTS
  OwnersHere
  NoOrphan
  OneMaster
  NotMixed
PROPERTIES
  LossIsTold
SYMMETRY Symmetry
CHECK_DEADLOCK FALSE
