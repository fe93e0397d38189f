SPECIFICATION FairSpec
CONSTANTS
  RoundRing = {"round5"}
  Round5 = "round5"
  Cleanup = "cleanup"
  Main = "main"
  Deployed = TRUE
  None = None
  MaxExpiry = 2
INVARIANTS
  HalfMovedIsJournaled
  NothingStranded
PROPERTY
  FenceFrees
CHECK_DEADLOCK FALSE
