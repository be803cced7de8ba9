CONSTANTS
  Dirs = {"dir"}
  Parent = "parent"
  Root = "root"
  Refusals <- NotSoft
  SiteOf <- PlainSites
  FirstItems <- OneFile
  FirstRemote = {"part"}
  NewItems <- NewFile
  AtChoices <- Places
  UserOps = {"GO", "REGO", "STOP", "DROP", "QADD", "QDEL", "QMOVE"}
  MaxItems = 3
  MaxKids = 0
  MaxMkd = 2
  MaxCmds = 3
  MaxLost = 0
  MaxBad = 1
SPECIFICATION Spec
INVARIANTS
  HeadPresent
PROPERTIES
  HeadStable
CHECK_DEADLOCK FALSE
