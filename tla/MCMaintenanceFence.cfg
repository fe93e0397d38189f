SPECIFICATION Spec
CONSTANTS
  RoundRing <- MCRoundRing
  Round5 = "round5"
  Cleanup = "cleanup"
  Main = "main"
  Deployed = FALSE
  None = None
  MaxExpiry = 2
INVARIANT ExpiryStandsUnderBout
CHECK_DEADLOCK FALSE
