---------------------------- MODULE GenerationLock ----------------------------
(***************************************************************************)
(* The lock that keeps two commands from mutating one generation           *)
(* (server/generation_lock.py), taken by a bootstrap.sh shell on its       *)
(* descriptor 9, by mutating ./antidemo commands, some of them started by  *)
(* that shell, and for a moment by whoever only asks whether it is held.   *)
(*                                                                         *)
(* flock(2) belongs to an open file description and ends when the last     *)
(* descriptor of it is closed.  A process opens the lock file at most      *)
(* once, so a description is named by the process that opened it.  A       *)
(* process runs once; a second run of a command is another process.        *)
(***************************************************************************)
EXTENDS Naturals

CONSTANTS
  Shell, Command, Prober,   \* processes: bootstrap.sh, ./antidemo, a probe
  Nobody

Process == Shell \cup Command \cup Prober

ASSUME RoleAssumption ==
  Shell \cap Command = {} /\ Shell \cap Prober = {} /\ Command \cap Prober = {}
ASSUME NobodyAssumption == Nobody \notin Process

(* A token is minted by the holder whose record it is in: it is that       *)
(* process, as the pid is.                                                 *)
VARIABLES
  lock,      \* the open file description that is locked
  record,    \* whose record the lock file holds, Nobody when unreadable
  at,        \* at[p]: how far p is
  fd,        \* fd[p]: the descriptions p has a descriptor of
  env        \* env[p]: the token p was started with

lockVars == <<lock, record, at, fd, env>>

Stage ==
  {"absent", "starting", "busy", "locked", "mutating", "joined", "closing",
   "probing", "ended"}

LockTypeOK ==
  /\ lock \in Process \cup {Nobody}
  /\ record \in Process \cup {Nobody}
  /\ at \in [Process -> Stage]
  /\ fd \in [Process -> SUBSET Process]
  /\ env \in [Process -> Shell \cup {Nobody}]
  /\ \A p \in Shell : at[p] \notin {"joined", "probing"} /\ env[p] = Nobody
  /\ \A p \in Command : at[p] # "probing"
  /\ \A p \in Prober : at[p] \in {"absent", "probing", "ended"} /\ env[p] = Nobody

LockInit ==
  /\ lock = Nobody /\ record = Nobody
  /\ at = [p \in Process |-> "absent"]
  /\ fd = [p \in Process |-> {}]
  /\ env = [p \in Process |-> Nobody]

Move(p, from, to) == at[p] = from /\ at' = [at EXCEPT ![p] = to]

Alive(p) == at[p] \notin {"absent", "ended"}

(* The operation p is part of: its shell's, or its own.                    *)
Operation(p) == IF env[p] = Nobody THEN p ELSE env[p]

Working(p) == at[p] \in {"mutating", "joined"}

-----------------------------------------------------------------------------
(* The kernel's part.                                                      *)

(* _try_flock on a description of p's own.                                 *)
Take(p) ==
  /\ lock = Nobody
  /\ lock' = p
  /\ fd' = [fd EXCEPT ![p] = @ \cup {p}]

(* Mutant: a lock of the process, as fcntl's are, which ends with the      *)
(* first descriptor that is closed.                                        *)
LeavesAny(p) ==
  /\ fd' = [fd EXCEPT ![p] = {}]
  /\ lock' = IF lock \in fd[p] THEN Nobody ELSE lock

(* Every descriptor of p is closed; the last one of a description frees    *)
(* its lock.                                                               *)
Leaves(p) ==
  /\ fd' = [fd EXCEPT ![p] = {}]
  /\ lock' = IF \E q \in Process \ {p} : lock \in fd[q] THEN lock ELSE Nobody

-----------------------------------------------------------------------------
(* Started by an operator, in a terminal of its own.                       *)
Launch(p) ==
  /\ Move(p, "absent", "starting")
  /\ UNCHANGED <<lock, record, fd, env>>

(* Mutant: descriptor 9 closed on exec.                                    *)
InheritsNothing(s) == {}

(* A shell's descriptor 9 is inherited by what it runs.                    *)
Inherits(s) == fd[s]

(* bootstrap.sh, holding the lock, runs ./antidemo setup and waits for it; *)
(* the token it exported comes along.                                      *)
Spawn(s, c) ==
  /\ at[s] = "mutating"
  /\ \A x \in Command : env[x] = s => ~Alive(x)
  /\ Move(c, "absent", "starting")
  /\ env' = [env EXCEPT ![c] = s]
  /\ fd' = [fd EXCEPT ![c] = Inherits(s)]
  /\ UNCHANGED <<lock, record>>

(* hold_generation, and `acquire` for a shell: the lock is tried once.     *)
Locks(p) ==
  /\ Take(p)
  /\ Move(p, "starting", "locked")
  /\ UNCHANGED <<record, env>>

(* Mutant: whoever finds the lock held takes it for its parent's.          *)
FindsParent(p) ==
  /\ lock # Nobody
  /\ Move(p, "starting", "joined")
  /\ UNCHANGED <<lock, record, fd, env>>

FindsBusy(p) ==
  /\ lock # Nobody
  /\ Move(p, "starting", "busy")
  /\ UNCHANGED <<lock, record, fd, env>>

(* The holder on record is the one whose token p presents.                 *)
Presents(p) == env[p] # Nobody /\ env[p] = record

Joins(p) ==
  /\ Presents(p)
  /\ Move(p, "busy", "joined")
  /\ UNCHANGED <<lock, record, fd, env>>

(* Another holder, or none that can be read: a record is not replaced in   *)
(* one write.  `acquire` reads no token.                                   *)
TurnedAway(p) ==
  /\ ~Presents(p) \/ \E q \in Process : at[q] = "locked"
  /\ Move(p, "busy", "ended")
  /\ Leaves(p)
  /\ UNCHANGED <<record, env>>

Writes(p) ==
  /\ Move(p, "locked", "mutating")
  /\ record' = p
  /\ UNCHANGED <<lock, fd, env>>

(* A holder whose work is done clears its record first; bootstrap.sh does  *)
(* it in its EXIT trap, its descriptor still open.                         *)
Finishes(p) ==
  /\ \A x \in Command : env[x] = p => ~Alive(x)
  /\ Move(p, "mutating", "closing")
  /\ record' = Nobody
  /\ UNCHANGED <<lock, fd, env>>

(* Mutant: a command that had joined clears the record as it goes.         *)
ClosesCleared(p) ==
  /\ at[p] \in {"closing", "joined"}
  /\ Move(p, at[p], "ended")
  /\ Leaves(p)
  /\ record' = Nobody
  /\ UNCHANGED env

(* ...and then its descriptor is closed.                                   *)
Closes(p) ==
  /\ at[p] \in {"closing", "joined"}
  /\ Move(p, at[p], "ended")
  /\ Leaves(p)
  /\ UNCHANGED <<record, env>>

(* SIGKILL, a panic, a closed laptop: nothing of it runs any more.         *)
Dies(p) ==
  /\ Alive(p)
  /\ Move(p, at[p], "ended")
  /\ Leaves(p)
  /\ UNCHANGED <<record, env>>

-----------------------------------------------------------------------------
(* lock_is_held, by the server or by ./antidemo status.                    *)

ProbesFree(p) ==
  /\ Take(p)
  /\ Move(p, "absent", "probing")
  /\ UNCHANGED <<record, env>>

ProbesHeld(p) ==
  /\ lock # Nobody
  /\ Move(p, "absent", "ended")
  /\ UNCHANGED <<lock, record, fd, env>>

ProbeEnds(p) ==
  /\ Move(p, "probing", "ended")
  /\ Leaves(p)
  /\ UNCHANGED <<record, env>>

-----------------------------------------------------------------------------
Claims(p) ==
  \/ Launch(p) \/ Locks(p) \/ FindsBusy(p) \/ Joins(p) \/ TurnedAway(p)
  \/ Writes(p) \/ Finishes(p) \/ Closes(p)

LockNext ==
  \/ \E p \in Shell \cup Command : Claims(p)
  \/ \E s \in Shell, c \in Command : Spawn(s, c)
  \/ \E p \in Prober : ProbesFree(p) \/ ProbesHeld(p) \/ ProbeEnds(p)
  \/ \E p \in Process : Dies(p)

LockSpec == LockInit /\ [][LockNext]_lockVars

-----------------------------------------------------------------------------
(* Whatever is killed when, all that mutate the generation are part of one *)
(* operation: a shell and the command it runs, or one command.  A command  *)
(* that outlives its killed shell still excludes everyone else.            *)
OneOperationMutates ==
  \A p, q \in Process : Working(p) /\ Working(q) => Operation(p) = Operation(q)

(* A probe that finds the lock free finds nobody mutating: an unfinished   *)
(* status was left behind (transitional_status_recovery).                  *)
FreeMeansAbandoned ==
  [][\A p \in Prober : at[p] = "absent" /\ at'[p] = "probing" =>
       \A q \in Process : ~Working(q)]_lockVars

(* While a shell or a command holds the lock and mutates, the record names *)
(* it: nobody's late clearing or writing hides it from those it runs.      *)
HolderOnRecord ==
  \A p \in Process : at[p] = "mutating" => record = p

(* Only a mutation refuses a shell or a command, not somebody who merely   *)
(* asks (app.py, _mutation_lock_is_held: never blocked by the server).     *)
ProbeBlocksNobody ==
  [][\A p \in Process : at[p] = "starting" /\ at'[p] = "busy" => lock \notin Prober]_lockVars
=============================================================================
