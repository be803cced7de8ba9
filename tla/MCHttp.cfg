CONSTANTS
  SslOnly = TRUE
  Sizes <- Limits
  MaxRequests = 2
  MaxFrames = 3
SPECIFICATION FairSpec
INVARIANTS
  
  RelaySecure
  FramesRight
  InOrder
PROPERTIES
  ReadInTheEnd
CHECK_DEADLOCK FALSE
