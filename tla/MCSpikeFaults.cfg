SPECIFICATION FairSpec
CONSTANTS
  Process = {A, B}
  Lakebase = Lakebase
  Competitor = Competitor
  None = None
  MaxBout = 1
  MaxBells = 1
  MaxFaults = 2
INVARIANT OwedIsAttended
INVARIANT NoStrayJob
PROPERTY VerdictIsProved
PROPERTY OutcomeStands
PROPERTY RingOutlastsCleanup
PROPERTY OthersClaimStands
PROPERTY EndedIsCleared
CHECK_DEADLOCK FALSE
