------------------------------- MODULE WarmSlot -------------------------------
(***************************************************************************)
(* What Round 5's warm slot promises to those who arm a bout on it,        *)
(* whichever server process leads it: a generation of prepared runners is  *)
(* lent to one claim at a time, is rung for at most one bout, and is not   *)
(* lent again after the bell, or after cleaning began: the next bout gets  *)
(* the next generation.                                                    *)
(***************************************************************************)
EXTENDS Naturals

CONSTANTS
  Claim,           \* claims, each made at most once
  None,
  MaxGeneration    \* bound on generations

VARIABLES
  generation,      \* of the runners that are warm or being warmed
  use,             \* what is done with it
  claim,           \* for whom
  spent            \* the claims made so far

slotVars == <<generation, use, claim, spent>>

SlotInit == generation = 1 /\ use = "idle" /\ claim = None /\ spent = {}

Lend(c) ==
  /\ use = "idle" /\ c \notin spent
  /\ use' = "claimed" /\ claim' = c /\ spent' = spent \cup {c}
  /\ UNCHANGED generation

GiveBack ==
  /\ use = "claimed"
  /\ use' = "idle" /\ claim' = None
  /\ UNCHANGED <<generation, spent>>

Ring ==
  /\ use = "claimed"
  /\ use' = "running"
  /\ UNCHANGED <<generation, claim, spent>>

Fence ==
  /\ use \in {"claimed", "running"}
  /\ use' = "cleaning"
  /\ UNCHANGED <<generation, claim, spent>>

Cleaned ==
  /\ use = "cleaning"
  /\ generation' = generation + 1
  /\ use' = "idle" /\ claim' = None
  /\ UNCHANGED spent

(* The runners of an idle generation are given up for a new contract.      *)
Replace ==
  /\ use = "idle"
  /\ generation' = generation + 1
  /\ UNCHANGED <<use, claim, spent>>

SlotNext ==
  \/ \E c \in Claim : Lend(c)
  \/ GiveBack \/ Ring \/ Fence \/ Cleaned \/ Replace

SlotSpec == SlotInit /\ [][SlotNext]_slotVars
=============================================================================
