SPECIFICATION FairSpec
CONSTANTS
  Process = {A, B}
  Lakebase = Lakebase
  Competitor = Competitor
  None = None
  MaxBout = 2
  MaxBells = 1
  MaxFaults = 1
INVARIANT NoStrayJob
PROPERTY OutcomeStands
PROPERTY RingOutlastsCleanup
PROPERTY OthersClaimStands
PROPERTY EndedIsCleared
CHECK_DEADLOCK FALSE
