CONSTANTS
  Dirs = {"dir"}
  Parent = "parent"
  Root = "root"
  Refusals <- HardRefusal
  SiteOf <- ListSites
  FirstItems <- OneDirectory
  FirstRemote = {"part", "full"}
  NewItems <- Entries
  AtChoices <- Places
  UserOps = {"GO", "QADD", "QDEL", "QMOVE"}
  MaxItems = 3
  MaxKids = 2
  MaxMkd = 2
  MaxCmds = 2
  MaxLost = 0
  MaxBad = 1
SPECIFICATION Spec
INVARIANTS
  PrivacyAgrees
  AnswersAwaited
PROPERTIES
  KeepsLedger
CHECK_DEADLOCK FALSE
