--------------------------- MODULE RecoveryTasks ---------------------------
(***************************************************************************)
(* The persistent recovery queue of the runtime worker and the reclaim     *)
(* workflow it drives.  A RECLAIM task goes START, SELECTING, PLAN_READY,  *)
(* PURGING, VERIFY, one phase per visit, and is saved after each; a visit  *)
(* in PURGING purges one restore point through the purge adapter: bundle   *)
(* directory, artifact row, restore point row.                             *)
(*                                                                         *)
(* The worker works through the tasks that were PENDING when it looked.    *)
(* The database is written by separate transactions, so the daemon may die *)
(* between any two of them; only `worker' is lost then.                    *)
(*                                                                         *)
(* Abstractions.  One storage.  Restore points are numbered by created_at. *)
(* Free space is the number of bundles that have been removed.  A plan is  *)
(* worked off in the order of created_at, which is how the repository      *)
(* lists candidates; the DONE marks are its list of deleted candidates.    *)
(* RESUMED stands for the types VERIFY and CLEANUP.                        *)
(***************************************************************************)
EXTENDS Integers, FiniteSets

CONSTANTS
    Tasks,          \* ids of recovery tasks
    Runs,           \* ids of backup runs
    MaxPoint,       \* restore points are 1 .. MaxPoint
    MaxRequired,    \* largest demand for space, in bundles
    MaxCrashes      \* bound: how often the daemon may die

ASSUME RecoveryAssumption ==
    /\ MaxPoint \in Nat
    /\ MaxRequired \in Nat
    /\ MaxCrashes \in Nat

Points == 1 .. MaxPoint

VARIABLES
    task,       \* recovery_tasks rows
    run,        \* state of a run
    point,      \* restore_points.status
    artifact,   \* points that have a BUNDLE artifact row
    disk,       \* bundle directory of a point
    inside,     \* points whose artifact path lies below the storage root
    worker,     \* where process_recovery_tasks is, and its locals
    crashes

vars == <<task, run, point, artifact, disk, inside, worker, crashes>>

Types     == {"RECLAIM", "RESUMED", "UNKNOWN"}
Phases    == {"START", "SELECTING", "PLAN_READY", "PURGING", "VERIFY"}
Marks     == {"no", "unmarked", "PENDING", "DONE"}
Plans     == [Points -> Marks]
Details   == [phase : Phases, plan : Plans, required : 0 .. MaxRequired]
RunStates == {"ACTIVE", "ENDED"}     \* SCHEDULED to FINALIZING, SUCCESS or FAILED
Statuses  == {"none", "CHECKPOINT_SAVED", "SPACE_AVAILABLE", "RESUMED"}
Steps     == {"next", "execute", "purge", "unlink", "artifact", "mark", "save", "close", "resume"}

NoTask   == [state |-> "NONE"]
TaskRows == [state : {"PENDING", "RUNNING", "COMPLETED", "FAILED"}, type : Types, run : Runs,
             details : Details]
NoPlan   == [p \in Points |-> "no"]
NoDetails == [phase |-> "START", plan |-> NoPlan, required |-> 0]

\* A worker outside process_recovery_tasks.
Away == [step |-> "away", todo |-> {}, cur |-> "none", victim |-> 0, details |-> NoDetails,
         status |-> "none"]

Workers == [step : Steps \cup {"away"}, todo : SUBSET Tasks, cur : Tasks \cup {"none"},
            victim : Points \cup {0}, details : Details, status : Statuses]

TypeOK ==
    /\ task \in [Tasks -> TaskRows \cup {NoTask}]
    /\ run \in [Runs -> RunStates]
    /\ point \in [Points -> {"AVAILABLE", "COMPLETED", "SUCCESS", "DELETED"}]
    /\ artifact \subseteq Points
    /\ disk \in [Points -> {"WHOLE", "PARTIAL", "GONE"}]
    /\ inside \subseteq Points
    /\ worker \in Workers
    /\ crashes \in 0 .. MaxCrashes

\* Rows of this table come from the local executor (AVAILABLE) and from callers
\* of the repository that finish a point as SUCCESS or COMPLETED.
Init ==
    /\ task = [t \in Tasks |-> NoTask]
    /\ run = [r \in Runs |-> "ACTIVE"]
    /\ point \in [Points -> {"AVAILABLE", "COMPLETED", "SUCCESS"}]
    /\ artifact = Points
    /\ disk = [p \in Points |-> "WHOLE"]
    /\ inside \in {Points, Points \ {1}}
    /\ worker = Away
    /\ crashes = 0

-----------------------------------------------------------------------------
(* Queue.  Requests are made in the worker's thread, whose connection the    *)
(* repository of the runtime holds, and so never inside a visit.             *)

\* request_reclaim_for_run: the workflow begins at START.
RequestReclaim(t, r, n) ==
    /\ worker.step = "away" /\ task[t] = NoTask
    /\ task' = [task EXCEPT ![t] =
         [state |-> "PENDING", type |-> "RECLAIM", run |-> r,
          details |-> [NoDetails EXCEPT !.required = n]]]
    /\ UNCHANGED <<run, point, artifact, disk, inside, worker, crashes>>

\* RecoveryQueueV2.enqueue with details of the caller: another type of task, or
\* a reclaim whose plan the caller has marked.
Enqueue(t, r, type, marked, n) ==
    /\ worker.step = "away" /\ task[t] = NoTask
    /\ task' = [task EXCEPT ![t] =
         [state |-> "PENDING", type |-> type, run |-> r,
          details |-> [phase |-> "PURGING", required |-> n,
                       plan |-> [p \in Points |-> IF p \in marked THEN "PENDING" ELSE "no"]]]]
    /\ UNCHANGED <<run, point, artifact, disk, inside, worker, crashes>>

PendingTasks == {t \in Tasks : task[t].state = "PENDING"}

ListTasks ==
    /\ worker.step = "away"
    /\ PendingTasks # {}
    /\ worker' = [worker EXCEPT !.step = "next", !.todo = PendingTasks]
    /\ UNCHANGED <<task, run, point, artifact, disk, inside, crashes>>

\* The task is marked RUNNING; execute works on the details read by ListTasks.
TakeTask(t) ==
    /\ worker.step = "next" /\ t \in worker.todo
    /\ task' = [task EXCEPT ![t].state = "RUNNING"]
    /\ worker' = [worker EXCEPT !.step = "execute", !.todo = @ \ {t}, !.cur = t,
                                !.details = task[t].details]
    /\ UNCHANGED <<run, point, artifact, disk, inside, crashes>>

TasksDone ==
    /\ worker.step = "next" /\ worker.todo = {}
    /\ worker' = Away
    /\ UNCHANGED <<task, run, point, artifact, disk, inside, crashes>>

-----------------------------------------------------------------------------
(* ReclaimRecoveryExecutor.execute, and the executors of the other types *)

Executing(type) == worker.step = "execute" /\ task[worker.cur].type = type

\* execute returns new details, which are saved next.
Checkpoint(details, status) ==
    /\ worker' = [worker EXCEPT !.step = "save", !.details = details, !.status = status]
    /\ UNCHANGED <<task, run, point, artifact, disk, inside, crashes>>

Start ==
    /\ Executing("RECLAIM") /\ worker.details.phase = "START"
    /\ Checkpoint([worker.details EXCEPT !.phase = "SELECTING", !.plan = NoPlan],
                  "CHECKPOINT_SAVED")

\* list_reclaim_candidates: COMPLETED points without the newest; they carry no mark.
ReclaimCandidates ==
    {p \in Points : point[p] = "COMPLETED" /\ \E q \in Points : q > p /\ point[q] = "COMPLETED"}

Select ==
    /\ Executing("RECLAIM") /\ worker.details.phase = "SELECTING"
    /\ Checkpoint([worker.details EXCEPT !.phase = "PLAN_READY",
                     !.plan = [p \in Points |-> IF p \in ReclaimCandidates THEN "unmarked" ELSE "no"]],
                  "CHECKPOINT_SAVED")

PlanReady ==
    /\ Executing("RECLAIM") /\ worker.details.phase = "PLAN_READY"
    /\ Checkpoint([worker.details EXCEPT !.phase = "PURGING"], "CHECKPOINT_SAVED")

Pending(details) == {p \in Points : details.plan[p] = "PENDING"}

PurgeNext(p) ==
    /\ Executing("RECLAIM") /\ worker.details.phase = "PURGING"
    /\ p \in Pending(worker.details)
    /\ \A q \in Pending(worker.details) : p <= q
    /\ worker' = [worker EXCEPT !.step = "purge", !.victim = p]
    /\ UNCHANGED <<task, run, point, artifact, disk, inside, crashes>>

NothingToPurge ==
    /\ Executing("RECLAIM") /\ worker.details.phase = "PURGING"
    /\ Pending(worker.details) = {}
    /\ Checkpoint([worker.details EXCEPT !.phase = "VERIFY"], "CHECKPOINT_SAVED")

FreeSpace == Cardinality({p \in Points : disk[p] = "GONE"})

Verify ==
    /\ Executing("RECLAIM") /\ worker.details.phase = "VERIFY"
    /\ IF FreeSpace >= worker.details.required
       THEN Checkpoint(worker.details, "SPACE_AVAILABLE")
       ELSE Checkpoint([worker.details EXCEPT !.phase = "PURGING"], "CHECKPOINT_SAVED")

\* VerifyRecoveryExecutor and CleanupRecoveryExecutor answer RESUMED without
\* details, so nothing is saved and the task is PENDING again.
ResumeOnly ==
    /\ Executing("RESUMED")
    /\ worker' = [worker EXCEPT !.step = "close", !.status = "RESUMED"]
    /\ UNCHANGED <<task, run, point, artifact, disk, inside, crashes>>

NoExecutor == Executing("UNKNOWN")

-----------------------------------------------------------------------------
(* PurgeAdapter.delete_restore_point *)

\* Mutant: a candidate that was worked off leaves the plan.
ProcessedForgets ==
    LET plan == [worker.details.plan EXCEPT ![worker.victim] = "no"]
    IN [worker.details EXCEPT !.plan = plan,
           !.phase = IF \E q \in Points : plan[q] = "PENDING" THEN @ ELSE "VERIFY"]

\* The candidate is DONE whatever the adapter answered, and listed as deleted.
\* The phase moves on to VERIFY with the last one.
Processed ==
    LET p    == worker.victim
        plan == [worker.details.plan EXCEPT ![p] = "DONE"]
    IN [worker.details EXCEPT !.plan = plan,
           !.phase = IF \E q \in Points : plan[q] = "PENDING" THEN @ ELSE "VERIFY"]

CountedSuccessful == {p \in Points : point[p] = "SUCCESS"}

\* Mutant: the last successful point may go.
PlanAllowsLast(p) == point[p] = "SUCCESS" /\ p \in artifact

PlanAllows(p) ==
    /\ point[p] = "SUCCESS"
    /\ Cardinality(CountedSuccessful) > 1
    /\ p \in artifact

PurgeRefused ==
    /\ worker.step = "purge"
    /\ ~(PlanAllows(worker.victim) /\ worker.victim \in inside)
    /\ Checkpoint(Processed, "CHECKPOINT_SAVED")

PurgeAllowed ==
    /\ worker.step = "purge"
    /\ PlanAllows(worker.victim) /\ worker.victim \in inside
    /\ worker' = [worker EXCEPT !.step = "unlink"]
    /\ UNCHANGED <<task, run, point, artifact, disk, inside, crashes>>

\* PhysicalDeleteAdapter.delete_path: rmtree removes some entries first.
RemoveSome ==
    /\ worker.step = "unlink" /\ disk[worker.victim] = "WHOLE"
    /\ disk' = [disk EXCEPT ![worker.victim] = "PARTIAL"]
    /\ UNCHANGED <<task, run, point, artifact, inside, worker, crashes>>

RemoveRest ==
    /\ worker.step = "unlink" /\ disk[worker.victim] = "PARTIAL"
    /\ disk' = [disk EXCEPT ![worker.victim] = "GONE"]
    /\ worker' = [worker EXCEPT !.step = "artifact"]
    /\ UNCHANGED <<task, run, point, artifact, inside, crashes>>

AlreadyGone ==
    /\ worker.step = "unlink" /\ disk[worker.victim] = "GONE"
    /\ worker' = [worker EXCEPT !.step = "artifact"]
    /\ UNCHANGED <<task, run, point, artifact, disk, inside, crashes>>

\* Mutant: a candidate whose removal failed stays in the plan.
RemoveFailsRetried ==
    /\ worker.step = "unlink" /\ disk[worker.victim] # "GONE"
    /\ Checkpoint(worker.details, "CHECKPOINT_SAVED")

\* rmtree raised: PURGE_FAILED.
RemoveFails ==
    /\ worker.step = "unlink" /\ disk[worker.victim] # "GONE"
    /\ Checkpoint(Processed, "CHECKPOINT_SAVED")

DeleteArtifact ==
    /\ worker.step = "artifact"
    /\ artifact' = artifact \ {worker.victim}
    /\ worker' = [worker EXCEPT !.step = "mark"]
    /\ UNCHANGED <<task, run, point, disk, inside, crashes>>

MarkDeleted ==
    /\ worker.step = "mark"
    /\ point' = [point EXCEPT ![worker.victim] = "DELETED"]
    /\ worker' = [worker EXCEPT !.step = "save", !.details = Processed,
                                !.status = "CHECKPOINT_SAVED"]
    /\ UNCHANGED <<task, run, artifact, disk, inside, crashes>>

-----------------------------------------------------------------------------
(* End of a visit *)

SaveDetails ==
    /\ worker.step = "save"
    /\ task' = [task EXCEPT ![worker.cur].details = worker.details]
    /\ worker' = [worker EXCEPT !.step = "close"]
    /\ UNCHANGED <<run, point, artifact, disk, inside, crashes>>

Leave(step) ==
    worker' = [Away EXCEPT !.step = step, !.todo = worker.todo,
                           !.cur = IF step = "resume" THEN worker.cur ELSE "none"]

Complete ==
    /\ worker.step = "close" /\ worker.status = "SPACE_AVAILABLE"
    /\ task' = [task EXCEPT ![worker.cur].state = "COMPLETED"]
    /\ Leave("resume")
    /\ UNCHANGED <<run, point, artifact, disk, inside, crashes>>

\* resume_run_after_recovery writes SCHEDULED over whatever the run's state is.
ResumeRun ==
    /\ worker.step = "resume"
    /\ run' = [run EXCEPT ![task[worker.cur].run] = "ACTIVE"]
    /\ Leave("next")
    /\ UNCHANGED <<task, point, artifact, disk, inside, crashes>>

Requeue ==
    /\ worker.step = "close" /\ worker.status # "SPACE_AVAILABLE"
    /\ task' = [task EXCEPT ![worker.cur].state = "PENDING"]
    /\ Leave("next")
    /\ UNCHANGED <<run, point, artifact, disk, inside, crashes>>

\* An exception after the task was taken: a missing executor, a storage whose
\* free space cannot be read, a locked database.
Fail ==
    /\ \/ NoExecutor
       \/ Executing("RECLAIM") /\ worker.details.phase = "VERIFY"
       \/ worker.step \in {"purge", "artifact", "mark", "save", "close", "resume"}
    /\ task' = [task EXCEPT ![worker.cur].state = "FAILED"]
    /\ Leave("next")
    /\ UNCHANGED <<run, point, artifact, disk, inside, crashes>>

-----------------------------------------------------------------------------
(* Runs *)

\* recover_runs follows process_recovery_tasks in a tick and hands every run that
\* has not ended to its executor (LocalBackup), which ends it sooner or later.
EndRun(r) ==
    /\ worker.step = "away" /\ run[r] = "ACTIVE"
    /\ run' = [run EXCEPT ![r] = "ENDED"]
    /\ UNCHANGED <<task, point, artifact, disk, inside, worker, crashes>>

Crash ==
    /\ worker # Away
    /\ crashes < MaxCrashes
    /\ crashes' = crashes + 1
    /\ worker' = Away
    /\ UNCHANGED <<task, run, point, artifact, disk, inside>>

WorkerStep ==
    \/ ListTasks \/ TasksDone
    \/ \E t \in Tasks : TakeTask(t)
    \/ Start \/ Select \/ PlanReady \/ NothingToPurge \/ Verify \/ ResumeOnly
    \/ \E p \in Points : PurgeNext(p)
    \/ PurgeRefused \/ PurgeAllowed
    \/ RemoveSome \/ RemoveRest \/ AlreadyGone \/ RemoveFails \/ DeleteArtifact \/ MarkDeleted
    \/ SaveDetails \/ Complete \/ ResumeRun \/ Requeue \/ Fail

Request ==
    \E t \in Tasks, r \in Runs, n \in 0 .. MaxRequired :
        \/ RequestReclaim(t, r, n)
        \/ \E marked \in SUBSET Points : Enqueue(t, r, "RECLAIM", marked, MaxRequired)
        \/ \E type \in {"RESUMED", "UNKNOWN"} : Enqueue(t, r, type, {}, 0)

Next ==
    \/ Request
    \/ WorkerStep
    \/ \E r \in Runs : EndRun(r)
    \/ Crash

Spec == Init /\ [][Next]_vars

\* The tick of the RuntimeWorker goes on whatever a task does, and visits every
\* task it has listed.
FairSpec ==
    /\ Spec
    /\ WF_vars(WorkerStep)

-----------------------------------------------------------------------------
(* Properties *)

\* Purging never takes the last restore point that counts as successful: once
\* a point is DELETED there is still one in SUCCESS (plan_delete).
LastSuccessKept ==
    (\E p \in Points : point[p] = "DELETED") => CountedSuccessful # {}

\* docs/recovery-model.md: "reclaim deletion is performed only from persisted
\* reclaim plan".  Whatever is missing on disk, also after a crash or a failed
\* rmtree, is a marked candidate in the saved details of a task.
PurgedFromSavedPlan ==
    \A p \in Points : disk[p] # "WHOLE" =>
        \E t \in Tasks : /\ task[t] # NoTask
                         /\ task[t].details.plan[p] \in {"PENDING", "DONE"}

\* The catalog calls a point DELETED only when neither its bundle nor its
\* artifact row is left, although the three go in separate steps.
DeletedLeavesNothing ==
    \A p \in Points : point[p] = "DELETED" => disk[p] = "GONE" /\ p \notin artifact

PlanOpen(t)    == task[t] # NoTask /\ Pending(task[t].details) # {}
Interrupted(t) == task[t].state = "RUNNING" /\ worker.cur # t

\* A plan that waits in the queue is worked off to the last candidate, unless
\* its task fails or the daemon dies on it: other tasks, refused candidates and
\* failed removals do not hold it up.
PlansWorkedOff ==
    \A t \in Tasks :
        PlanOpen(t) /\ task[t].state = "PENDING"
            ~> ~PlanOpen(t) \/ task[t].state = "FAILED" \/ Interrupted(t)

-----------------------------------------------------------------------------
(* What the documentation or a comment says and the code does not keep:    *)
(* TLC finds a counterexample (README, section 6).                         *)

\* docs/recovery-model.md:50 "interrupted purge resumes from last checkpoint".
\* The code leaves the task RUNNING, and only PENDING tasks are listed.
InterruptedPurgeResumes ==
    \A t \in Tasks :
        PlanOpen(t) /\ Interrupted(t) ~> ~PlanOpen(t) \/ task[t].state = "FAILED"
=============================================================================
