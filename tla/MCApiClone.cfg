CONSTANTS
  User = {u1}
  MaxSid = 4
  MaxQid = 2
  MaxAsks = 0
  MaxLost = 0
  SslOnly = TRUE
  HasKey = TRUE
SPECIFICATION Spec
INVARIANTS
  MembersAgree
CHECK_DEADLOCK FALSE
