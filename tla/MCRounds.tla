------------------------------- MODULE MCRounds -------------------------------
(* Two bouts of one installation, of the isolated rounds (Lakebase against  *)
(* an Aurora clone) or of Round 6: the first claim of the ring says which.  *)
(* The rounds share nothing but the ring, and no two hold it at once.       *)
EXTENDS IsolatedBout

CONSTANTS Sources, Orders, Parts, Task, Attempts

ASSUME RaceAssumption == Attempts \in Nat /\ "start" \notin Orders

VARIABLES holder, begun, bout, prior, rows, calls, part, slips

R6 == INSTANCE Round6Race WITH Lanes <- Sources

RoundsInit == Init /\ R6!Init

RoundsNext ==
  \/ begun = 0 /\ Next /\ UNCHANGED <<holder, begun, bout, prior, rows, calls, part, slips>>
  \/ bouts = 0 /\ R6!Next /\ UNCHANGED <<ring, token, bouts, card, lane, env, flight, faults>>

RoundsSpec ==
  RoundsInit /\ [][RoundsNext]_<<vars, R6!raceVars>> /\ Fairness /\ R6!Fairness

(* Round6Race's properties of a bout that rang.                             *)
SettledLeavesNothing == R6!SettledLeavesNothing
NoRaceIsParked == R6!NoRaceIsParked
EveryBellIsSettled == R6!EveryBellIsSettled
=============================================================================
