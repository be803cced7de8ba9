CONSTANTS
  User = {"admin", "bob"}
  Admin = "admin"
  Key = {"a", "b"}
  Given <- Some
  MaxSites = 2
  MaxCmds = 3
  MaxStarts = 2
  MaxOdd = 1
SPECIFICATION Spec
INVARIANTS
  NothingForgotten
  DiskAgrees
  WarnedOfLoss
  ExtraIsMap
CHECK_DEADLOCK FALSE
