CONSTANTS
  checking = checking
  armed = armed
  Session = {s1, s2}
  Slot = {main}
  Phase = {checking, armed}
  ClaimPhase = {checking}
  Moves <- MCMoves
  Ttl <- MCTtl
  Vacant = Vacant
  NoCall = NoCall
  MaxNow = 3
  MaxClaims = 2
  MaxFaults = 1
SPECIFICATION Spec
SYMMETRY Symmetry
INVARIANTS
  FenceHasOneOwner
  StampHolds
  TrueReleaseIsUnbroken
PROPERTY
  RefinesFencedRing
CHECK_DEADLOCK FALSE
