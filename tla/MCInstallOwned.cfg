SPECIFICATION Spec
CONSTANTS
  None = None
  Seal4 = {0}
  MaxStops = 1
  KillsAt = {"verify", "receipt", "baseline", "forget"}
  Meanwhile = FALSE
  Advised = "setup"
INVARIANT
  NothingOwnedAfter
CHECK_DEADLOCK FALSE
