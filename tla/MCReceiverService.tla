------------------------- MODULE MCReceiverService -------------------------
(* Instances of ReceiverService for TLC. *)
EXTENDS ReceiverService

\* A FULL and an incremental on it.
OneChain == [p \in Points |-> p - 1]

\* Two transfers of the FULL, one of the incremental, and a deletion of each.
SomeRequests ==
    [kind : {"PUBLISH"}, point : {1}, dest : Dests, id : Tasks]
        \cup [kind : {"PUBLISH"}, point : {2}, dest : Dests, id : {0}]
        \cup [kind : {"DELETE"}, point : Points, dest : Dests, id : {0}]
=============================================================================
