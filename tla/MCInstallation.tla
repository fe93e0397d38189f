--------------------------- MODULE MCInstallation ---------------------------
(* The commands of an installation, with a Round 4 that may be sealed twice *)
(* and a few accidents, or the lock that admits one of them at a time, with *)
(* two bootstrap shells, three commands and a probe, any of which may be    *)
(* killed: the first step says which.  Neither looks at the other's state.  *)
EXTENDS Installation, GenerationLock

Twice == 0..1

CommandsInit == Init /\ LockInit

CommandsNext ==
  \/ LockInit /\ Next /\ UNCHANGED lockVars
  \/ Init /\ LockNext /\ UNCHANGED vars

CommandsSpec == CommandsInit /\ [][CommandsNext]_<<vars, lockVars>> /\ Fairness
=============================================================================
