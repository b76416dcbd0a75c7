------------------------- MODULE MCSuccessorStage -------------------------
(***************************************************************************)
(* Instances of SuccessorStage for TLC: a release of 0 -> 1 -> 2, and the  *)
(* requests to stage 2 from 1 and, once the workspace is there, from 2.    *)
(***************************************************************************)
EXTENDS SuccessorStage, TLC

CONSTANTS r1, r2

ThreeCommits == 0..2
Linear == {c \in ThreeCommits \X ThreeCommits : c[1] <= c[2]}
FromOne == [r \in Requests |-> IF r = r1 THEN 1 ELSE 2]
Budget(s, p, c, d) == [sends |-> s, polls |-> p, crashes |-> c, drifts |-> d]
Several == {Budget(5, 6, 0, 0), Budget(4, 5, 1, 0), Budget(4, 4, 0, 1)}
ToTwo == [r \in Requests |-> 2]
=============================================================================
