SPECIFICATION Spec
CONSTANTS
  Process = {A, B}
  Lakebase = Lakebase
  Competitor = Competitor
  None = None
  MaxBout = 1
  MaxBells = 1
  MaxFaults = 1
INVARIANT VerdictIsSealed
CHECK_DEADLOCK FALSE
