SPECIFICATION Spec
CONSTANTS
  Process = {A, B}
  Lakebase = Lakebase
  Competitor = Competitor
  None = None
  MaxBout = 1
  MaxBells = 1
  MaxFaults = 0
INVARIANT RunLeavesOutcome
CHECK_DEADLOCK FALSE
