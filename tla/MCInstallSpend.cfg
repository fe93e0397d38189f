SPECIFICATION Spec
CONSTANTS
  None = None
  Seal4 = {0}
  MaxStops = 1
  KillsAt = {"verify", "receipt", "baseline", "forget"}
  Meanwhile = FALSE
  Advised = "setup"
INVARIANT
  SpendCanBeStopped
CHECK_DEADLOCK FALSE
