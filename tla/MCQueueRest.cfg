CONSTANTS
  Dirs = {"dir"}
  Parent = "parent"
  Root = "root"
  Refusals <- CleanRefusal
  SiteOf <- PlainSites
  FirstItems <- Stoppable
  FirstRemote = {"part", "full"}
  NewItems = {}
  AtChoices = {}
  UserOps = {"GO", "STOP", "DROP"}
  MaxItems = 3
  MaxKids = 0
  MaxMkd = 2
  MaxCmds = 2
  MaxLost = 0
  MaxBad = 2
SPECIFICATION FairSpec
INVARIANTS
  NothingUnsent
PROPERTIES
  ComesToRest
  StopCompletes
  StopKept
CHECK_DEADLOCK FALSE
