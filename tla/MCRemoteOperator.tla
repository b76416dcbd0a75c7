-------------------------- MODULE MCRemoteOperator --------------------------
(* Small instances of RemoteOperator: what the comments ask for, and the     *)
(* sequence numbers of their envelopes.                                      *)
EXTENDS RemoteOperator

\* Rising sequence order.
Rising == [m \in Message |-> m]

\* A mutation, then a read-only directive that reuses its sequence number.
WithReadOnly == [m \in Message |-> IF m = 1 THEN "mutation" ELSE "readonly"]
Reused == [m \in Message |-> 1]

\* A mutation, an activation and a diagnostic.
Mixed == [m \in Message |-> CASE m = 1 -> "mutation" [] m = 2 -> "control" [] OTHER -> "diagnostic"]
=============================================================================
