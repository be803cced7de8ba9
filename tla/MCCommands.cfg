CONSTANTS
  MaxAsks = 4
SPECIFICATION Spec
INVARIANTS
  RightFile
  AnsweredOnce
CHECK_DEADLOCK FALSE
