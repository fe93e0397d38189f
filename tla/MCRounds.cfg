SPECIFICATION RoundsSpec
CONSTANTS
  Branch = Branch
  Cluster = Cluster
  Instance = Instance
  Lanes = {Branch, Cluster}
  Sources = {Feed, Capture}
  Orders = {"checkout"}
  Parts = {Dms, Glue}
  Task = Dms
  MaxBout = 2
  MaxFaults = 1
  Attempts = 2
INVARIANTS
  ReadyLeavesNothing
  WorkIsFenced
  SettledLeavesNothing
PROPERTIES
  RingComesBack
  NoRaceIsParked
  EveryBellIsSettled
CHECK_DEADLOCK FALSE
