------------------------- MODULE MCReplicaTransfer -------------------------
(* The metadata of a bundle, taken as one file, and one disk. *)
EXTENDS ReplicaTransfer

TwoFiles == <<"metadata", "vda">>
Sizes == [f \in {"metadata", "vda"} |-> IF f = "vda" THEN 3 ELSE 1]

\* Cells 1 and 2 are one comparison block, cell 3 is another.
OneSource == {[f \in {"metadata", "vda"} |-> IF f = "vda" THEN <<1, 0, 1>> ELSE <<1>>]}

\* The first block of the seed differs where the source has a hole.
OneSeed == {[f \in {"vda"} |-> <<1, 1, 1>>]}
=============================================================================
