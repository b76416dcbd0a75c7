-------------------------- MODULE MCProviderAction --------------------------
(***************************************************************************)
(* Instances of ProviderAction for TLC.                                    *)
(***************************************************************************)
EXTENDS ProviderAction

TwoModels == <<"m1", "m2">>
=============================================================================
