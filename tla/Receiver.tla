------------------------------ MODULE Receiver ------------------------------
(***************************************************************************)
(* The receiver of replicas: one storage per destination, on which a       *)
(* transfer is staged, published and, later, deleted.                      *)
(*                                                                         *)
(* A transfer session (receiver_transfer) fills the staging directory of   *)
(* its transfer id.  publish_staged_replica and delete_published_replica   *)
(* run in the resolver helper, each under the publish lock of its storage: *)
(* a call goes on when the sender has hung up, may fail at any step and    *)
(* dies with the receiver.                                                 *)
(*                                                                         *)
(* Abstractions.  A restore point is numbered by its creation, its bundle  *)
(* has the same canonical path whatever transfer brings it, and a complete *)
(* staging passes the checks of its metadata and disks.  Path, UUID and    *)
(* symbolic-link checks, capacity and seeding from an older replica end a  *)
(* call before it changes anything and are not told apart.                 *)
(***************************************************************************)
EXTENDS Integers

CONSTANTS
    MaxPoint,   \* restore points are 1 .. MaxPoint
    Parent,     \* direct parent of an incremental, 0 for a FULL
    Dests,      \* SSH destinations, each with its receiver storage
    MaxTask     \* bound: task ids of a replica are 0 .. MaxTask

Points == 1 .. MaxPoint
Tasks  == 0 .. MaxTask

ASSUME ReceiverAssumption ==
    /\ MaxPoint \in Nat
    /\ MaxTask \in Nat
    /\ Parent \in [Points -> 0 .. MaxPoint]
    /\ \A p \in Points : Parent[p] < p

VARIABLES
    stage,      \* staging directory of a transfer
    bundle,     \* canonical bundle of a point
    marker,     \* task in the PUBLISHED record of a point, NoTask without one
    queue,      \* calls waiting for the publish lock
    serving,    \* the call that holds the lock of a destination, and its step
    call,       \* the call whose answer the sender waits for
    answer      \* what it returned

storeVars == <<stage, bundle, marker>>

NoTask    == -1
Transfers == Points \X Dests \X Tasks
Calls     == [kind : {"PUBLISH", "DELETE"}, point : Points, dest : Dests, id : Nat]
NoCall    == [kind |-> "NONE"]
Idle      == [call |-> NoCall, step |-> "none"]
Stages    == {"NONE", "RECEIVING", "COMPLETE", "INTENT", "MOVED"}
Steps     == {"place", "move", "mark", "remove", "unlink"}

Published(d, p) == marker[d][p] # NoTask
Readable(d, p)  == Published(d, p) /\ bundle[d][p] = "WHOLE"

ReceiverInit ==
    /\ stage = [t \in Transfers |-> "NONE"]
    /\ bundle = [d \in Dests |-> [p \in Points |-> "NONE"]]
    /\ marker = [d \in Dests |-> [p \in Points |-> NoTask]]
    /\ queue = {}
    /\ serving = [d \in Dests |-> Idle]
    /\ call = NoCall
    /\ answer = "none"

ReceiverTypeOK ==
    /\ stage \in [Transfers -> Stages]
    /\ bundle \in [Dests -> [Points -> {"NONE", "WHOLE", "PARTIAL"}]]
    /\ marker \in [Dests -> [Points -> Tasks \cup {NoTask}]]
    /\ queue \subseteq Calls
    /\ serving \in [Dests -> [call : Calls, step : Steps] \cup {Idle}]
    /\ call \in Calls \cup {NoCall}
    /\ answer \in {"none", "ok", "error"}

-----------------------------------------------------------------------------
(* Calls *)

At(c, step) == serving[c.dest] = [call |-> c, step |-> step]

\* The call takes the publish lock and reads the PUBLISHED record.
Locks(c, kind) ==
    /\ c \in queue /\ c.kind = kind
    /\ serving[c.dest] = Idle
    /\ queue' = queue \ {c}
    /\ UNCHANGED call

Goes(c, step) ==
    /\ serving' = [serving EXCEPT ![c.dest] = [call |-> c, step |-> step]]
    /\ UNCHANGED answer

\* The call returns and releases the lock; only a waiting sender hears it.
Returns(c, result) ==
    /\ serving' = [serving EXCEPT ![c.dest] = Idle]
    /\ answer' = IF c = call THEN result ELSE answer

\* An error of the file system ends a call between two of its steps.
StepFails(c) ==
    /\ \E s \in Steps : At(c, s)
    /\ Returns(c, "error")
    /\ UNCHANGED <<storeVars, queue, call>>

-----------------------------------------------------------------------------
(* publish_staged_replica *)

Bundle(c)  == bundle[c.dest][c.point]
Stage(c)   == stage[<<c.point, c.dest, c.id>>]

Advance(c, s) == stage' = [stage EXCEPT ![<<c.point, c.dest, c.id>>] = s]
SetBundle(c, s) == bundle' = [bundle EXCEPT ![c.dest][c.point] = s]

\* Mutant: trusts the sender to have published the parent.
ParentUnchecked(c) == TRUE

\* _parent: the direct parent has a PUBLISHED record and a bundle directory.
ParentPublished(c) ==
    Parent[c.point] # 0 =>
        /\ Published(c.dest, Parent[c.point])
        /\ bundle[c.dest][Parent[c.point]] # "NONE"

\* The record answers a repeated call, and only one of the same transfer.
PublishAgain(c) ==
    /\ Locks(c, "PUBLISH") /\ Published(c.dest, c.point)
    /\ Returns(c, IF marker[c.dest][c.point] = c.id /\ Bundle(c) # "NONE"
                  THEN "ok" ELSE "error")
    /\ UNCHANGED storeVars

\* _declaration, _receipt and _parent
Publishable(c) == Stage(c) \in {"COMPLETE", "INTENT", "MOVED"} /\ ParentPublished(c)

PublishStarts(c) ==
    /\ Locks(c, "PUBLISH") /\ ~Published(c.dest, c.point)
    /\ IF Publishable(c) THEN Goes(c, "place") ELSE Returns(c, "error")
    /\ UNCHANGED storeVars

\* The staged bundle gets a publish intent.
WriteIntent(c) ==
    /\ At(c, "place") /\ Stage(c) \in {"COMPLETE", "INTENT"}
    /\ Advance(c, "INTENT")
    /\ Goes(c, "move")
    /\ UNCHANGED <<bundle, marker, queue, call>>

\* The bundle was moved by a call that did not end.
ResumeMoved(c) ==
    /\ At(c, "place") /\ Stage(c) = "MOVED"
    /\ IF Bundle(c) = "WHOLE" THEN Goes(c, "mark") ELSE Returns(c, "error")
    /\ UNCHANGED <<storeVars, queue, call>>

PathFree(c) == Bundle(c) = "NONE"

\* _move: one rename, refused when the canonical bundle exists.
Move(c) ==
    /\ At(c, "move")
    /\ IF PathFree(c)
       THEN SetBundle(c, "WHOLE") /\ Advance(c, "MOVED") /\ Goes(c, "mark")
       ELSE Returns(c, "error") /\ UNCHANGED <<bundle, stage>>
    /\ UNCHANGED <<marker, queue, call>>

WriteMarker(c) ==
    /\ At(c, "mark")
    /\ marker' = [marker EXCEPT ![c.dest][c.point] = c.id]
    /\ Returns(c, "ok")
    /\ UNCHANGED <<stage, bundle, queue, call>>

-----------------------------------------------------------------------------
(* delete_published_replica *)

\* Mutant: without a record there is nothing to delete.
UnlistedIsAbsent(c) == "ok"

\* already_absent, or RECLAIM_DELETE_STATE_MISSING
Unlisted(c) == IF Bundle(c) = "NONE" THEN "ok" ELSE "error"

\* Mutant: the record is unlinked before the bundle is removed.
DeleteUnlinksFirst(c) ==
    /\ Locks(c, "DELETE")
    /\ IF Published(c.dest, c.point) THEN Goes(c, "remove") ELSE Returns(c, Unlisted(c))
    /\ marker' = [marker EXCEPT ![c.dest][c.point] = NoTask]
    /\ UNCHANGED <<stage, bundle>>

DeleteStarts(c) ==
    /\ Locks(c, "DELETE")
    /\ IF Published(c.dest, c.point) THEN Goes(c, "remove") ELSE Returns(c, Unlisted(c))
    /\ UNCHANGED storeVars

\* rmtree removes file by file.
RemoveSome(c) ==
    /\ At(c, "remove") /\ Bundle(c) # "NONE"
    /\ SetBundle(c, "PARTIAL")
    /\ UNCHANGED <<stage, marker, queue, serving, call, answer>>

RemoveAll(c) ==
    /\ At(c, "remove")
    /\ SetBundle(c, "NONE")
    /\ Goes(c, "unlink")
    /\ UNCHANGED <<stage, marker, queue, call>>

Unlink(c) ==
    /\ At(c, "unlink")
    /\ marker' = [marker EXCEPT ![c.dest][c.point] = NoTask]
    /\ Returns(c, "ok")
    /\ UNCHANGED <<stage, bundle, queue, call>>

-----------------------------------------------------------------------------
Serve(c) ==
    \/ PublishAgain(c) \/ PublishStarts(c) \/ WriteIntent(c) \/ ResumeMoved(c)
    \/ Move(c) \/ WriteMarker(c)
    \/ DeleteStarts(c) \/ RemoveSome(c) \/ RemoveAll(c) \/ Unlink(c)
    \/ StepFails(c)

\* Calls the receiver knows of.
Pending == queue \cup {serving[d].call : d \in {e \in Dests : serving[e] # Idle}}

Reception == \E c \in Pending : Serve(c)

\* The receiver host or its resolver daemon dies: calls are gone, files stay.
Interrupted ==
    /\ queue' = {}
    /\ serving' = [d \in Dests |-> Idle]
    /\ UNCHANGED <<storeVars, call, answer>>
=============================================================================
