CONSTANTS
  Session = {s1}
  Main = Main
  Beat = Beat
  Slot = {Main, Beat}
  Checking = Checking
  Armed = Armed
  RunCommitted = RunCommitted
  Phase = {Checking, Armed, RunCommitted}
  ClaimPhase = {Checking}
  Moves <- MCMoves
  Ttl <- MCTtl
  Replica <- OneProcess
  Heartbeat = 1
  Vacant = Vacant
  NoCall = NoCall
  MaxNow = 6
  MaxClaims = 1
  MaxFaults = 2
SPECIFICATION HolderSpec
INVARIANTS
  ProofHolds
  RunIsFenced
CHECK_DEADLOCK FALSE
