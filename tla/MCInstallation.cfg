SPECIFICATION CommandsSpec
CONSTANTS
  None = None
  Seal4 <- Twice
  MaxStops = 3
  KillsAt = {"verify", "receipt", "baseline", "forget"}
  Meanwhile = FALSE
  Advised = "setup"
  Shell = {s1, s2}
  Command = {c1, c2, c3}
  Prober = {v}
  Nobody = Nobody
INVARIANTS
  SealsAgree
  NothingBillsAfter
  OneOperationMutates
  HolderOnRecord
PROPERTIES
  SetupFinishes
  CleanupFinishes
  FreeMeansAbandoned
CHECK_DEADLOCK FALSE
