--------------------------- MODULE ReceiverService ---------------------------
(***************************************************************************)
(* The receiver with any sender: staging directories are filled in any     *)
(* order, any call may be made, repeated and given up, and the receiver    *)
(* dies as often as it likes.                                              *)
(***************************************************************************)
EXTENDS Receiver

CONSTANT Requests   \* bound: the calls senders make

ASSUME RequestsAssumption ==
    /\ Requests \subseteq Calls
    /\ \A c \in Requests : c.kind = "PUBLISH" => c.id \in Tasks

serviceVars == <<storeVars, queue, serving, call, answer>>

\* ReceiverStagingSession.prepare: a transfer id is staged once.
Prepare(t) ==
    /\ stage[t] = "NONE"
    /\ stage' = [stage EXCEPT ![t] = "RECEIVING"]
    /\ UNCHANGED <<bundle, marker, queue, serving, call, answer>>

\* ReceiverStagingSession.finish
Finish(t) ==
    /\ stage[t] = "RECEIVING"
    /\ stage' = [stage EXCEPT ![t] = "COMPLETE"]
    /\ UNCHANGED <<bundle, marker, queue, serving, call, answer>>

Request(c) ==
    /\ queue' = queue \cup {c}
    /\ call' = c
    /\ answer' = "none"
    /\ UNCHANGED <<storeVars, serving>>

GiveUp ==
    /\ call # NoCall
    /\ call' = NoCall
    /\ answer' = "none"
    /\ UNCHANGED <<storeVars, queue, serving>>

\* The transfers that are ever published.
Requested == {<<c.point, c.dest, c.id>> : c \in {r \in Requests : r.kind = "PUBLISH"}}

ServiceNext ==
    \/ \E t \in Requested : Prepare(t) \/ Finish(t)
    \/ \E c \in Requests : Request(c) \/ Serve(c)
    \/ GiveUp
    \/ Interrupted

ServiceSpec == ReceiverInit /\ [][ServiceNext]_serviceVars

-----------------------------------------------------------------------------
(* Properties *)

\* The variables hold values of their types.
ServiceTypeOK == ReceiverTypeOK

\* A bundle that is there without a PUBLISHED record, and on which no call
\* works, is whole and was moved by a transfer whose publication can be
\* repeated: no kill, error or deletion leaves remains that nothing lists.
UnlistedBundleResumable ==
    \A d \in Dests, p \in Points :
        bundle[d][p] # "NONE" /\ ~Published(d, p) /\ serving[d] = Idle =>
            /\ bundle[d][p] = "WHOLE"
            /\ \E n \in Tasks : stage[<<p, d, n>>] = "MOVED"

Heard(kind) == call \in Calls /\ call.kind = kind /\ answer = "none" /\ answer' = "ok"

\* A sender that hears that its replica is published finds it listed under its
\* transfer id; one that hears that it is deleted finds nothing of it.
AnswersAreTrue ==
    [][/\ Heard("PUBLISH") => marker'[call.dest][call.point] = call.id
       /\ Heard("DELETE")  => /\ marker'[call.dest][call.point] = NoTask
                              /\ bundle'[call.dest][call.point] = "NONE"]_serviceVars

Status(d, p) ==
    IF ~Published(d, p) THEN "absent"
    ELSE IF bundle[d][p] = "WHOLE" THEN "readable" ELSE "removing"

Catalog == INSTANCE RemoteCatalog WITH
    status <- [d \in Dests |-> [p \in Points |-> Status(d, p)]]

\* Publication and deletion implement the abstract catalog: a replica is listed
\* in one step, whole, and after its parent on the same storage.
ImplementsCatalog == Catalog!Spec
=============================================================================
