CONSTANTS
  Dirs = {"dir", "sub"}
  Parent = "parent"
  Root = "root"
  Refusals <- InexactCwd
  SiteOf <- PlainSites
  FirstItems <- ThereAndBack
  FirstRemote = {}
  NewItems = {}
  AtChoices = {}
  UserOps = {"GO"}
  MaxItems = 3
  MaxKids = 0
  MaxMkd = 0
  MaxCmds = 1
  MaxLost = 0
  MaxBad = 1
SPECIFICATION Spec
INVARIANTS
  StorInPlace
CHECK_DEADLOCK FALSE
