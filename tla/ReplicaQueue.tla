---------------------------- MODULE ReplicaQueue ----------------------------
(***************************************************************************)
(* Replication of restore points to SSH destinations: the replica entries  *)
(* in restore_points.metadata_json, the remote-delete tombstones in        *)
(* job_runs.context_json, the thread that works on both, and the Receiver. *)
(*                                                                         *)
(* Processes.                                                              *)
(*   sender   ReplicaWorkerV2: one remote deletion, then one replica, and  *)
(*            again.  Every metadata update reads the row and later writes *)
(*            the whole of it.                                             *)
(*   api      replica.retry, which reads the rows of a chain and then      *)
(*            writes them in a transaction.                                *)
(*   deleter  retention or a user deleting a restore point (one at a time; *)
(*            LocalBackup models how they meet).                           *)
(*   receiver the calls of module Receiver.                                *)
(*                                                                         *)
(* Abstractions.  Restore points are finalized in the order of their       *)
(* numbers, all for the same destinations, in the order of theirs.  Attempt*)
(* counters of replicas, byte counts and messages are left out.  A read    *)
(* and write of job_runs.context_json is one step: only the deleter and    *)
(* the sender write the tombstones of a point, and not at the same time.   *)
(* The identity of a destination and its configuration do not change.      *)
(***************************************************************************)
EXTENDS Receiver, FiniteSets

CONSTANTS
    MaxAttempts,    \* max_attempts of a remote deletion (3 in the code)
    Deletes,        \* may restore points be deleted?
    Overlap,        \* may a retry fall between a read and a write of the sender?
    AnswersLost,    \* may the connection break after a call has reached the receiver?
    MaxCrashes,     \* bound: how often the daemon dies
    MaxOutages      \* bound: how often the receiver dies

ASSUME ReplicaAssumption ==
    /\ Dests \subseteq Nat
    /\ MaxAttempts \in Nat \ {0}
    /\ Deletes \in BOOLEAN
    /\ Overlap \in BOOLEAN
    /\ AnswersLost \in BOOLEAN
    /\ MaxCrashes \in Nat
    /\ MaxOutages \in Nat

VARIABLES
    \* the sender's database and disk
    created,    \* restore points finalized so far
    points,     \* AVAILABLE restore-point rows
    local,      \* points whose LOCAL bundle is intact
    replica,    \* metadata.replicas
    tomb,       \* context.replica_delete_tasks of the point's run
    \* the sender thread
    spc,
    work,       \* point, destination and task of the claimed replica
    update,     \* metadata update in progress
    row,        \* the metadata it read
    doomed,     \* point, destination and attempt of the claimed deletion
    \* the api thread
    apc, adest, arows,
    \* the deleter
    dpc, dpoint, dfound,
    \* bounds
    retries, crashes, outages

dataVars    == <<created, points, local, replica, tomb>>
senderVars  == <<spc, work, update, row, doomed>>
apiVars     == <<apc, adest, arows>>
deleterVars == <<dpc, dpoint, dfound>>
bounds      == <<retries, crashes, outages>>
receiver    == <<storeVars, queue, serving, call, answer>>
vars == <<dataVars, senderVars, apiVars, deleterVars, bounds, receiver>>

States     == {"PENDING", "BLOCKED", "TRANSFERRING", "VERIFYING", "SUCCESS", "FAILED"}
Entries    == [state : States, task : Tasks]
Metadata   == [Dests -> Entries]
Working    == {"TRANSFERRING", "VERIFYING"}
NoEntry    == [state |-> "PENDING", task |-> 0]
NoMetadata == [d \in Dests |-> NoEntry]
Tombs      == [state : {"NONE", "PENDING", "RUNNING", "COMPLETED", "FAILED"},
               attempts : 0 .. MaxAttempts + MaxCrashes, due : BOOLEAN]
NoTomb     == [state |-> "NONE", attempts |-> 0, due |-> FALSE]
Works      == [point : Points, dest : Dests, id : Tasks]
Attempts   == [point : Points, dest : Dests, id : 1 .. MaxAttempts + MaxCrashes]
NoWork     == [point |-> 0, dest |-> 0, id |-> 0]
SenderPcs  == {"delete", "erase", "erasing", "replicate", "load", "read", "write",
               "transfer", "sending", "publish", "publishing", "dead"}
Updates    == {"none", "plan", "progress", "VERIFYING", "SUCCESS", "FAILED"}

Init ==
    /\ ReceiverInit
    /\ created = 0
    /\ points = {}
    /\ local = {}
    /\ replica = [p \in Points |-> NoMetadata]
    /\ tomb = [p \in Points |-> [d \in Dests |-> NoTomb]]
    /\ spc = "delete" /\ work = NoWork /\ update = "none" /\ row = NoMetadata
    /\ doomed = NoWork
    /\ apc = "idle" /\ adest = 0 /\ arows = [p \in {} |-> NoMetadata]
    /\ dpc = "idle" /\ dpoint = 0 /\ dfound = {}
    /\ retries = 0 /\ crashes = 0 /\ outages = 0

\* finalize_local_backup inserts the row with its replica entries.
Finalize ==
    /\ created < MaxPoint
    /\ created' = created + 1
    /\ points' = points \cup {created + 1}
    /\ local' = local \cup {created + 1}
    /\ UNCHANGED <<replica, tomb, senderVars, apiVars, deleterVars, bounds, receiver>>

-----------------------------------------------------------------------------
(* claim_next_replica_v2: one transaction *)

\* _replica_parent_state_v2
ParentSucceeded(p, d) ==
    Parent[p] # 0 => Parent[p] \in points /\ replica[Parent[p]][d].state = "SUCCESS"

Waiting(p, d)  == p \in points /\ replica[p][d].state \in {"PENDING", "BLOCKED"}
Runnable(p, d) == Waiting(p, d) /\ ParentSucceeded(p, d)

\* The order in which the claim visits entries.
Before(p, d, q, e) == p < q \/ (p = q /\ d < e)

\* Mutant: an entry that must wait holds up all that come after it.
NextWaiting(p, d) ==
    /\ Runnable(p, d)
    /\ \A q \in points, e \in Dests : Waiting(q, e) => ~Before(q, e, p, d)

NextRunnable(p, d) ==
    /\ Runnable(p, d)
    /\ \A q \in points, e \in Dests : Runnable(q, e) => ~Before(q, e, p, d)

\* Every entry visited before without success is BLOCKED.
Claimed(p, d) ==
    [q \in Points |-> [e \in Dests |->
        IF q = p /\ e = d THEN [replica[q][e] EXCEPT !.state = "TRANSFERRING"]
        ELSE IF Waiting(q, e) /\ Before(q, e, p, d)
             THEN [replica[q][e] EXCEPT !.state = "BLOCKED"]
        ELSE replica[q][e]]]

Serial == Overlap \/ apc = "idle"

ClaimReplica ==
    /\ spc = "replicate" /\ Serial
    /\ \E p \in points, d \in Dests :
        /\ NextRunnable(p, d)
        /\ replica' = Claimed(p, d)
        /\ work' = [point |-> p, dest |-> d, id |-> replica[p][d].task]
    /\ spc' = "load"
    /\ UNCHANGED <<created, points, local, tomb, update, row, doomed, apiVars,
                   deleterVars, bounds, receiver>>

ClaimNoReplica ==
    /\ spc = "replicate" /\ Serial
    /\ \A p \in points, d \in Dests : ~Runnable(p, d)
    /\ replica' = [q \in Points |-> [e \in Dests |->
                      IF Waiting(q, e) THEN [replica[q][e] EXCEPT !.state = "BLOCKED"]
                      ELSE replica[q][e]]]
    /\ spc' = "delete"
    /\ UNCHANGED <<created, points, local, tomb, work, update, row, doomed, apiVars,
                   deleterVars, bounds, receiver>>

-----------------------------------------------------------------------------
(* update_replica_v2, update_replica_transfer_plan_v2 and                   *)
(* update_replica_progress_v2: a read, and an UPDATE of the whole row       *)

Updating(u) == spc' = "read" /\ update' = u

UpdatedEntry(e) == IF update \in States THEN [e EXCEPT !.state = update] ELSE e

ReadRow ==
    /\ spc = "read" /\ Serial
    /\ work.point \in points
    /\ row' = [replica[work.point] EXCEPT ![work.dest] = UpdatedEntry(@)]
    /\ spc' = "write"
    /\ UNCHANGED <<dataVars, work, update, doomed, apiVars, deleterVars, bounds, receiver>>

\* The row is gone: KeyError.  run_once turns the first into a FAILED update,
\* whose own KeyError ends the thread.
RowGone ==
    /\ spc = "read"
    /\ work.point \notin points
    /\ IF update = "FAILED" THEN spc' = "dead" /\ UNCHANGED update ELSE Updating("FAILED")
    /\ UNCHANGED <<dataVars, work, row, doomed, apiVars, deleterVars, bounds, receiver>>

AfterWrite == CASE update = "plan"      -> "transfer"
                [] update = "progress"  -> "read"
                [] update = "VERIFYING" -> "publish"
                [] OTHER                -> "delete"

WriteRow ==
    /\ spc = "write"
    /\ replica' = IF work.point \in points
                  THEN [replica EXCEPT ![work.point] = row] ELSE replica
    /\ row' = NoMetadata
    /\ spc' = AfterWrite
    /\ update' = IF update = "progress" THEN "VERIFYING" ELSE "none"
    /\ work' = IF update \in {"SUCCESS", "FAILED"} THEN NoWork ELSE work
    /\ UNCHANGED <<created, points, local, tomb, doomed, apiVars, deleterVars, bounds, receiver>>

-----------------------------------------------------------------------------
(* CompactReplicaExecutor.run_once after the claim *)

Transfer == <<work.point, work.dest, work.id>>

\* _context and the transfer plan need the row and the LOCAL bundle.
LoadWork ==
    /\ spc = "load"
    /\ Updating(IF work.point \in points \cap local THEN "plan" ELSE "FAILED")
    /\ UNCHANGED <<dataVars, work, row, doomed, apiVars, deleterVars, bounds, receiver>>

\* BEGIN creates the staging directory of a transfer id once.
BeginTransfer ==
    /\ spc = "transfer"
    /\ IF stage[Transfer] = "NONE"
       THEN /\ stage' = [stage EXCEPT ![Transfer] = "RECEIVING"]
            /\ spc' = "sending" /\ UNCHANGED update
       ELSE Updating("FAILED") /\ UNCHANGED stage
    /\ UNCHANGED <<dataVars, work, row, doomed, apiVars, deleterVars, bounds,
                   bundle, marker, queue, serving, call, answer>>

\* FINISH is answered with STAGING_COMPLETE, and the last progress stored.
\* Earlier progress updates are like this one.
FinishTransfer ==
    /\ spc = "sending"
    /\ work.point \in local
    /\ stage' = [stage EXCEPT ![Transfer] = "COMPLETE"]
    /\ Updating("progress")
    /\ UNCHANGED <<dataVars, work, row, doomed, apiVars, deleterVars, bounds,
                   bundle, marker, queue, serving, call, answer>>

StartPublish ==
    /\ spc = "publish"
    /\ call' = [kind |-> "PUBLISH", point |-> work.point, dest |-> work.dest, id |-> work.id]
    /\ queue' = queue \cup {call'}
    /\ answer' = "none"
    /\ spc' = "publishing"
    /\ UNCHANGED <<dataVars, work, update, row, doomed, apiVars, deleterVars, bounds,
                   storeVars, serving>>

HangUp == call' = NoCall /\ answer' = "none" /\ UNCHANGED <<storeVars, queue, serving>>

\* Mutant: an error is an answer too.
AnyAnswer == answer \in {"ok", "error"}

Confirmed == answer = "ok"

PublishAnswered ==
    /\ spc = "publishing" /\ answer # "none"
    /\ Updating(IF Confirmed THEN "SUCCESS" ELSE "FAILED")
    /\ HangUp
    /\ UNCHANGED <<dataVars, work, row, doomed, apiVars, deleterVars, bounds>>

\* The connection breaks, or the receiver died with the call.
ConnectionLost ==
    \/ AnswersLost
    \/ answer = "none" /\ call \notin Pending

PublishUnanswered ==
    /\ spc = "publishing" /\ ConnectionLost
    /\ Updating("FAILED")
    /\ HangUp
    /\ UNCHANGED <<dataVars, work, row, doomed, apiVars, deleterVars, bounds>>

\* SSH, the transfer session or the daemon's stop event end the work.
WorkFails ==
    /\ spc \in {"load", "transfer", "sending", "publish"}
    /\ Updating("FAILED")
    /\ UNCHANGED <<dataVars, work, row, doomed, apiVars, deleterVars, bounds, receiver>>

-----------------------------------------------------------------------------
(* CompactReplicaDeleteExecutor *)

Depth[p \in Points] == IF Parent[p] = 0 THEN 0 ELSE Depth[Parent[p]] + 1

\* claim_next_replica_delete_v2: of the due tombstones one with the highest sequence.
Due(p, d) == tomb[p][d].state \in {"PENDING", "RUNNING"} /\ tomb[p][d].due
Doomed(p, d) ==
    /\ Due(p, d)
    /\ \A q \in Points, e \in Dests : Due(q, e) => Depth[q] <= Depth[p]

ClaimDelete ==
    /\ spc = "delete"
    /\ \E p \in Points, d \in Dests :
        /\ Doomed(p, d)
        /\ tomb' = [tomb EXCEPT ![p][d].state = "RUNNING", ![p][d].attempts = @ + 1]
        /\ doomed' = [point |-> p, dest |-> d, id |-> tomb[p][d].attempts + 1]
    /\ spc' = "erase"
    /\ UNCHANGED <<created, points, local, replica, work, update, row, apiVars,
                   deleterVars, bounds, receiver>>

ClaimNoDelete ==
    /\ spc = "delete"
    /\ \A p \in Points, d \in Dests : ~Due(p, d)
    /\ spc' = "replicate"
    /\ UNCHANGED <<dataVars, work, update, row, doomed, apiVars, deleterVars, bounds, receiver>>

StartErase ==
    /\ spc = "erase"
    /\ call' = [kind |-> "DELETE", point |-> doomed.point, dest |-> doomed.dest, id |-> doomed.id]
    /\ queue' = queue \cup {call'}
    /\ answer' = "none"
    /\ spc' = "erasing"
    /\ UNCHANGED <<dataVars, work, update, row, doomed, apiVars, deleterVars, bounds,
                   storeVars, serving>>

\* Mutant: the attempts are counted anew after a failure.
FailedUncounted(t) == [t EXCEPT !.state = "PENDING", !.due = FALSE, !.attempts = 0]

Failed(t) == IF t.attempts >= MaxAttempts THEN [t EXCEPT !.state = "FAILED"]
             ELSE [t EXCEPT !.state = "PENDING", !.due = FALSE]
Completed(t) == [t EXCEPT !.state = "COMPLETED"]

\* finish_replica_delete_v2
FinishDelete(success) ==
    /\ tomb' = [tomb EXCEPT ![doomed.point][doomed.dest] =
                    IF success THEN Completed(@) ELSE Failed(@)]
    /\ doomed' = NoWork
    /\ spc' = "replicate"
    /\ UNCHANGED <<created, points, local, replica, work, update, row, apiVars,
                   deleterVars, bounds>>

EraseAnswered ==
    /\ spc = "erasing" /\ answer # "none"
    /\ FinishDelete(Confirmed)
    /\ HangUp

EraseUnanswered ==
    /\ spc = "erasing" /\ ConnectionLost
    /\ FinishDelete(FALSE)
    /\ HangUp

EraseFails ==
    /\ spc = "erase"
    /\ FinishDelete(FALSE)
    /\ UNCHANGED receiver

\* retry_delay_seconds after a failure have passed.
DelayPasses(p, d) ==
    /\ tomb[p][d].state = "PENDING" /\ ~tomb[p][d].due
    /\ tomb' = [tomb EXCEPT ![p][d].due = TRUE]
    /\ UNCHANGED <<created, points, local, replica, senderVars, apiVars, deleterVars,
                   bounds, receiver>>

-----------------------------------------------------------------------------
(* retry_replica_chain_v2 *)

\* The rows connected to p through rows that exist: its oldest available
\* ancestor and that one's descendants.
Chain(p) ==
    LET root[q \in Points] == IF Parent[q] \in points THEN root[Parent[q]] ELSE q
    IN  {q \in points : root[q] = root[p]}

\* The rows are read before the transaction begins.
RetryReads(p, d) ==
    /\ apc = "idle" /\ p \in points
    /\ Overlap \/ spc # "write"
    /\ retries < MaxTask
    /\ retries' = retries + 1
    /\ apc' = "retry"
    /\ adest' = d
    /\ arows' = [q \in Chain(p) |-> replica[q]]
    /\ UNCHANGED <<dataVars, senderVars, deleterVars, crashes, outages, receiver>>

\* Mutant: a SUCCESS is sent again.
KeptWorking == Working

Kept == {"SUCCESS"} \cup Working

RetryWrites ==
    /\ apc = "retry"
    /\ replica' = [q \in Points |->
          IF q \in DOMAIN arows \cap points /\ arows[q][adest].state \notin Kept
          THEN [arows[q] EXCEPT ![adest] = [state |-> "PENDING", task |-> retries]]
          ELSE replica[q]]
    /\ apc' = "idle" /\ adest' = 0 /\ arows' = [q \in {} |-> NoMetadata]
    /\ UNCHANGED <<created, points, local, tomb, senderVars, deleterVars, bounds, receiver>>

-----------------------------------------------------------------------------
(* BackupCatalog.delete_restore_point *)

\* enqueue_replica_deletes_v2 reads the replica entries.
DeleteBegins(p) ==
    /\ Deletes /\ dpc = "idle" /\ p \in points
    /\ dpc' = "enqueue"
    /\ dpoint' = p
    /\ dfound' = {d \in Dests : replica[p][d].state = "SUCCESS"}
    /\ UNCHANGED <<dataVars, senderVars, apiVars, bounds, receiver>>

Unmarked(p, d) == tomb[p][d].state = "NONE"

Enqueue ==
    /\ dpc = "enqueue"
    /\ tomb' = [tomb EXCEPT ![dpoint] = [d \in Dests |->
          IF d \in dfound /\ Unmarked(dpoint, d)
          THEN [state |-> "PENDING", attempts |-> 0, due |-> TRUE] ELSE @[d]]]
    /\ dpc' = "remove"
    /\ UNCHANGED <<created, points, local, replica, senderVars, apiVars, dpoint, dfound,
                   bounds, receiver>>

\* An exception of it does not stop the deletion.
EnqueueFails ==
    /\ dpc = "enqueue"
    /\ dpc' = "remove"
    /\ UNCHANGED <<dataVars, senderVars, apiVars, dpoint, dfound, bounds, receiver>>

RemoveLocal ==
    /\ dpc = "remove"
    /\ local' = local \ {dpoint}
    /\ dpc' = "row"
    /\ UNCHANGED <<created, points, replica, tomb, senderVars, apiVars, dpoint, dfound,
                   bounds, receiver>>

DeleteEnds == dpc' = "idle" /\ dpoint' = 0 /\ dfound' = {}

RemoveFails ==
    /\ dpc \in {"remove", "row"}
    /\ local' = local \ {dpoint}
    /\ DeleteEnds
    /\ UNCHANGED <<created, points, replica, tomb, senderVars, apiVars, bounds, receiver>>

RemoveRow ==
    /\ dpc = "row"
    /\ points' = points \ {dpoint}
    /\ replica' = [replica EXCEPT ![dpoint] = NoMetadata]
    /\ DeleteEnds
    /\ UNCHANGED <<created, local, tomb, senderVars, apiVars, bounds, receiver>>

-----------------------------------------------------------------------------
(* Crashes *)

\* The daemon dies and is started again.
Crash ==
    /\ crashes < MaxCrashes
    /\ crashes' = crashes + 1
    /\ spc' = "delete" /\ work' = NoWork /\ update' = "none" /\ row' = NoMetadata
    /\ doomed' = NoWork
    /\ apc' = "idle" /\ adest' = 0 /\ arows' = [q \in {} |-> NoMetadata]
    /\ DeleteEnds
    /\ HangUp
    /\ UNCHANGED <<dataVars, retries, outages>>

Outage ==
    /\ outages < MaxOutages
    /\ outages' = outages + 1
    /\ Interrupted
    /\ UNCHANGED <<dataVars, senderVars, apiVars, deleterVars, retries, crashes>>

Receive ==
    /\ Reception
    /\ UNCHANGED <<dataVars, senderVars, apiVars, deleterVars, bounds>>

Sender ==
    \/ ClaimDelete \/ ClaimNoDelete \/ StartErase \/ EraseAnswered \/ EraseUnanswered
    \/ EraseFails
    \/ ClaimReplica \/ ClaimNoReplica \/ LoadWork \/ ReadRow \/ RowGone \/ WriteRow
    \/ BeginTransfer \/ FinishTransfer \/ StartPublish \/ PublishAnswered
    \/ PublishUnanswered \/ WorkFails

Deleter == Enqueue \/ EnqueueFails \/ RemoveLocal \/ RemoveFails \/ RemoveRow

Next ==
    \/ Finalize
    \/ Sender
    \/ \E p \in Points, d \in Dests : DelayPasses(p, d) \/ RetryReads(p, d)
    \/ RetryWrites
    \/ \E p \in Points : DeleteBegins(p)
    \/ Deleter
    \/ Receive
    \/ Crash
    \/ Outage

Spec == Init /\ [][Next]_vars

\* The threads run, the receiver serves its calls, and delays pass.
Fairness ==
    /\ WF_vars(Sender)
    /\ WF_vars(RetryWrites)
    /\ WF_vars(Deleter)
    /\ WF_vars(Receive)
    /\ \A p \in Points, d \in Dests : WF_vars(DelayPasses(p, d))
FairSpec == Spec /\ Fairness

-----------------------------------------------------------------------------
(* Properties *)

\* The variables hold values of their types.
TypeOK ==
    /\ ReceiverTypeOK
    /\ created \in 0 .. MaxPoint
    /\ points \subseteq 1 .. created /\ local \subseteq 1 .. created
    /\ replica \in [Points -> Metadata]
    /\ tomb \in [Points -> [Dests -> Tombs]]
    /\ spc \in SenderPcs /\ update \in Updates /\ row \in Metadata
    /\ work \in Works \cup {NoWork} /\ doomed \in Attempts \cup {NoWork}
    /\ apc \in {"idle", "retry"} /\ adest \in Dests \cup {0}
    /\ DOMAIN arows \subseteq Points /\ \A q \in DOMAIN arows : arows[q] \in Metadata
    /\ dpc \in {"idle", "enqueue", "remove", "row"} /\ dpoint \in 0 .. MaxPoint
    /\ dfound \subseteq Dests
    /\ retries \in 0 .. MaxTask /\ crashes \in 0 .. MaxCrashes /\ outages \in 0 .. MaxOutages

Untouched(p, d) == tomb[p][d].state = "NONE"

\* A replica reported as SUCCESS is on the receiver, listed and whole, as long
\* as its remote deletion has not been asked for.
SuccessIsPublished ==
    \A p \in points, d \in Dests :
        replica[p][d].state = "SUCCESS" /\ Untouched(p, d) => Readable(d, p)

\* A retry of the chain never takes a SUCCESS back.
SuccessRetained ==
    [][\A p \in points \cap points', d \in Dests :
          replica[p][d].state = "SUCCESS" => replica'[p][d].state = "SUCCESS"]_vars

\* When a tombstone is COMPLETED nothing of the replica is left on the receiver,
\* however many deletions were repeated.  (After a replica.retry the publish call
\* of the transfer it gave up may still wait for the publish lock, and publish
\* the point again.)
CompletedIsGone ==
    \A p \in Points, d \in Dests :
        tomb[p][d].state = "COMPLETED" /\ retries = 0
            => ~Published(d, p) /\ bundle[d][p] = "NONE"

\* Every remote deletion ends, COMPLETED or FAILED, unless the thread is dead.
TombstonesEnd ==
    \A p \in Points, d \in Dests :
        tomb[p][d].state \in {"PENDING", "RUNNING"}
            ~> tomb[p][d].state \in {"COMPLETED", "FAILED"} \/ spc = "dead"

Unsent(p, d) == p \in points /\ replica[p][d].state \in {"PENDING", "BLOCKED"}

\* A replica whose parent is there does not stay PENDING or BLOCKED, also when
\* it was BLOCKED by a parent that a retry has sent since, or when an older
\* replica waits for a parent that failed.
RunnableServed ==
    \A p \in Points, d \in Dests :
        Unsent(p, d) /\ ParentSucceeded(p, d) ~> ~Unsent(p, d) \/ spc = "dead"

-----------------------------------------------------------------------------
(* What the documentation or a comment says and the code does not keep:    *)
(* TLC finds a counterexample (README, section 6).                         *)

\* A replica that the receiver has published becomes a SUCCESS.
PublicationReconciled ==
    \A p \in Points, d \in Dests :
        p \in points /\ Published(d, p)
            ~> p \notin points \/ replica[p][d].state = "SUCCESS"
=============================================================================
