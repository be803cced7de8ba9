CONSTANTS
  MaxJobs = 3
SPECIFICATION FairSpec
INVARIANTS
  InStep
  CompleteIsReal
  TransferRight
PROPERTIES
  Answered
CHECK_DEADLOCK FALSE
