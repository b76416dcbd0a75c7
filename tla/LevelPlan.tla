----------------------------- MODULE LevelPlan -----------------------------
(***************************************************************************)
(* What one Gate promises about its levels (LVs), whatever is retried,     *)
(* resumed, killed or refused: the levels are committed one at a time and  *)
(* in plan order, a level is committed only when every earlier one has     *)
(* been handed off, nothing that is committed or handed off is taken back, *)
(* and the Gate exits only when the last level has been handed off.        *)
(***************************************************************************)
EXTENDS Naturals

CONSTANT N

VARIABLES
  committed,  \* levels 1..committed have their checkpoint commit
  handed,     \* levels 1..handed have their HANDOFF event
  exited      \* the Gate has exited

levelVars == <<committed, handed, exited>>

Init == committed = 0 /\ handed = 0 /\ exited = FALSE

CommitLevel ==
  /\ committed = handed /\ committed < N
  /\ committed' = committed + 1
  /\ UNCHANGED <<handed, exited>>

HandOff ==
  /\ handed < committed
  /\ handed' = handed + 1
  /\ UNCHANGED <<committed, exited>>

Exit ==
  /\ handed = N
  /\ exited' = TRUE
  /\ UNCHANGED <<committed, handed>>

Next == CommitLevel \/ HandOff \/ Exit

Spec == Init /\ [][Next]_levelVars
=============================================================================
