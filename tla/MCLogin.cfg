CONSTANTS
  MaxAsks = 2
SPECIFICATION FairSpec
INVARIANTS
  PasswordPrivate
  ToldWhenIn
PROPERTIES
  ToldInTheEnd
CHECK_DEADLOCK FALSE
