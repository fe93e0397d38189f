CONSTANTS
  Session = {s1, s2}
  Main = Main
  Beat = Beat
  Slot = {Main, Beat}
  Checking = Checking
  Armed = Armed
  RunCommitted = RunCommitted
  Phase = {Checking, Armed, RunCommitted}
  ClaimPhase = {Checking}
  Moves <- MCMoves
  Ttl <- MCTtl
  Replica <- OneProcess
  Heartbeat = 1
  Vacant = Vacant
  NoCall = NoCall
  MaxNow = 4
  MaxClaims = 2
  MaxFaults = 0
SPECIFICATION HolderSpec
SYMMETRY Symmetry
INVARIANTS
  OneWorkPerReplica
CHECK_DEADLOCK FALSE
