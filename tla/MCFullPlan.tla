----------------------------- MODULE MCFullPlan -----------------------------
(* TLC instances of FullPlan. *)
EXTENDS FullPlan, TLC

\* Supervisors are interchangeable, and so are the migrations of a run.
Symmetry == Permutations(Supervisors) \union Permutations(Migrations)
=============================================================================
