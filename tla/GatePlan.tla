------------------------------ MODULE GatePlan ------------------------------
(***************************************************************************)
(* What a FULL_PLAN run promises, whatever crashes, times out, waits or is *)
(* retried: one Gate process at a time, always for the first Gate that is  *)
(* not complete, and a Gate counts as complete only on the strength of the *)
(* successful result of its own latest process.                            *)
(***************************************************************************)
EXTENDS Naturals

CONSTANT N

VARIABLES
    done,     \* Gates 1..done are complete
    running,  \* the Gates being executed
    passed    \* a successful result is waiting to be recorded

planVars == <<done, running, passed>>

Init == done = 0 /\ running = {} /\ passed = FALSE

Begin ==
    /\ running = {} /\ done < N
    /\ running' = {done + 1}
    /\ passed' = FALSE
    /\ UNCHANGED done

End ==
    /\ running # {}
    /\ running' = {}
    /\ passed' \in BOOLEAN
    /\ UNCHANGED done

\* A result that is not recorded before a crash or a failure is lost.
Lose == passed /\ passed' = FALSE /\ UNCHANGED <<done, running>>

Complete ==
    /\ passed /\ running = {}
    /\ done' = done + 1
    /\ passed' = FALSE
    /\ UNCHANGED running

Next == Begin \/ End \/ Lose \/ Complete

Spec == Init /\ [][Next]_planVars
=============================================================================
