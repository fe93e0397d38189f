SPECIFICATION Spec
CONSTANTS
  Process = {p1, p2}
  Newer = {p2}
  Claim = {c1}
  None = None
  MaxGeneration = 2
  MaxFence = 3
CHECK_DEADLOCK FALSE
INVARIANT ClaimIsDebt
INVARIANT OneLauncher
INVARIANT NoStrandedResident
PROPERTY KeepsPromise
