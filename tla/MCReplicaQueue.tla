--------------------------- MODULE MCReplicaQueue ---------------------------
(* Instances of ReplicaQueue for TLC. *)
EXTENDS ReplicaQueue, TLC

\* A FULL and the incrementals on it.
OneChain == [p \in Points |-> p - 1]

\* The last point begins a second chain.
TwoChains == [p \in Points |-> IF p = MaxPoint THEN 0 ELSE p - 1]
=============================================================================
