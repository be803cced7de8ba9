CONSTANTS
  Dirs = {"dir", "sub"}
  Parent = "parent"
  Root = "root"
  Refusals <- SizedRefusal
  SiteOf <- TlsSites
  FirstItems <- TwoFiles
  FirstRemote = {"part", "full"}
  NewItems = {}
  AtChoices = {}
  UserOps = {"GO", "DROP"}
  MaxItems = 2
  MaxKids = 0
  MaxMkd = 2
  MaxCmds = 2
  MaxLost = 1
  MaxBad = 2
SPECIFICATION Spec
INVARIANTS
  TypeOK
  AtMostTwice
  StorInPlace
  RestartAgrees
  DoneIsComplete
  CountsAgree
  SecureIfDemanded
CHECK_DEADLOCK FALSE
