----------------------------- MODULE MCGateRun -----------------------------
(***************************************************************************)
(* Instances of GateRun for TLC.  The files of a level are interchangeable.*)
(***************************************************************************)
EXTENDS GateRun, TLC

FileSymmetry == Permutations(Files)
=============================================================================
