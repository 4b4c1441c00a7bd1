----------------------------- MODULE LocalBackup -----------------------------
(***************************************************************************)
(* The LOCAL backup pipeline of vmbackupd: job runs, the libvirt backup    *)
(* job they start, the staging directories and published bundles, the      *)
(* restore-point catalog with its full/incremental chains, FULL-chain      *)
(* retention, space reclamation and user deletions.                        *)
(*                                                                         *)
(* Processes.                                                              *)
(*   worker  the RuntimeWorker thread: each tick first lets the scheduler  *)
(*           create due runs, then advances every active run by one step   *)
(*           (CompactLocalBackupExecutor.advance_run).  The steps of one   *)
(*           advance are separate actions wherever the database, the disk  *)
(*           or libvirt is touched, so a crash or the API thread can come  *)
(*           in between.                                                   *)
(*   api     the asyncio thread: backup.run and restore-point deletion,    *)
(*           one request at a time, on its own SQLite connection.          *)
(*   host    libvirt, which ends an active backup job.                     *)
(*                                                                         *)
(* Abstractions.  A run is named before it exists and knows its job; its   *)
(* restore point has the run's name (a run publishes at most one).  Runs   *)
(* snapshot one LOCAL destination, the same for all jobs.  Free space,     *)
(* preflight findings other than an active backup, and disk or database    *)
(* errors are choices.  The order in which one tick visits its runs is a   *)
(* choice.  The clock that orders restore points never runs backwards.     *)
(* Replica tombstones written by a deletion belong to another component.   *)
(***************************************************************************)
EXTENDS Naturals, FiniteSets

CONSTANTS
    Runs,               \* run identities, each used at most once
    Manual,             \* those the API creates; the scheduler creates the others
    Jobs, VMs,
    JobOf,              \* the job of a run
    VMOf,               \* the VM of a job
    NoRun,
    MaxIncrementals,    \* BackupPolicy.max_incrementals_per_chain
    MinimumFullChains,  \* RetentionPolicy.minimum_full_chains
    FullChainsToRetain, \* RetentionPolicy.full_chains_to_retain
    SpaceOptimized,     \* RetentionPolicy.space_reclaim_mode = SPACE_OPTIMIZED
    UserDeletes,        \* may the API delete restore points?
    MaxCrashes          \* bound: how often the daemon dies

ASSUME ConstantsAssumption ==
    /\ IsFiniteSet(Runs)
    /\ Manual \subseteq Runs
    /\ NoRun \notin Runs
    /\ JobOf \in [Runs -> Jobs]
    /\ VMOf \in [Jobs -> VMs]
    /\ MaxIncrementals \in Nat
    /\ MinimumFullChains \in Nat \ {0}
    /\ FullChainsToRetain \in Nat
    /\ FullChainsToRetain >= MinimumFullChains
    /\ SpaceOptimized \in BOOLEAN
    /\ UserDeletes \in BOOLEAN
    /\ MaxCrashes \in Nat

VARIABLES
    \* job_runs rows
    state,      \* RunState, "NONE" before the row exists
    request,    \* context requested_backup_kind
    phase,      \* context local_execution.phase, "NONE" when absent
    plan,       \* context planned_kind, parent_restore_point_id, ...
    recovery,   \* context recovery_required
    \* restore_points rows and the disk
    points,     \* runs whose AVAILABLE restore point is in the catalog
    stamp,      \* created_at of the restore point
    clock,
    files,      \* the run's backup data: staged, published, removed
    control,    \* the run's control directory
    \* libvirt
    backup,     \* the backup job a run started
    evidence,   \* outcome of the domain's last completed backup job
    \* worker thread: where in advance_run it is, and its local variables
    wpc, wrun, wplan,
    wfulls,     \* FULL heads of the chains still to delete
    wchain,     \* points of the current chain still to delete
    \* api thread
    apc, arun,
    \* a deletion in progress, per thread
    dstep, dpoint,
    crashes

runVars    == <<state, request, phase, plan, recovery>>
storeVars  == <<points, stamp, clock, files, control>>
hostVars   == <<backup, evidence>>
workerVars == <<wpc, wrun, wplan, wfulls, wchain>>
apiVars    == <<apc, arun>>
deleteVars == <<dstep, dpoint>>
vars == <<runVars, storeVars, hostVars, workerVars, apiVars, deleteVars, crashes>>

RunStates == {"NONE", "SCHEDULED", "PREPARING", "BACKING_UP", "VERIFYING",
              "FINALIZING", "SUCCESS", "FAILED"}
Kinds     == {"AUTO", "FULL", "INCREMENTAL"}
Phases    == {"NONE", "START_REQUESTED", "START_REJECTED", "RUNNING"}
Plans     == [kind : {"NONE", "FULL", "INCREMENTAL"}, parent : Runs \cup {NoRun},
              sequence : Nat, chain : Runs \cup {NoRun}]
NoPlan    == [kind |-> "NONE", parent |-> NoRun, sequence |-> 0, chain |-> NoRun]
FileState == {"NONE", "INCOMING", "FINAL", "PARTIAL", "REMOVED"}
WorkerPcs == {"idle", "schedule", "capacity", "reclaim", "stage", "request",
              "begin", "started", "running", "finalizing", "publish",
              "finalize", "retention", "retain", "fail"}
Threads   == {"worker", "api"}

VM(r)     == VMOf[JobOf[r]]
Active(r) == state[r] \notin {"NONE", "SUCCESS", "FAILED"}
Busy(v)   == \E r \in Runs : VM(r) = v /\ Active(r)

\* libvirt runs at most one backup job per domain.
DomainBusy(v) == \E r \in Runs : VM(r) = v /\ backup[r] = "ACTIVE"

-----------------------------------------------------------------------------
(* The restore-point catalog *)

\* Mutant: restore points of every job.
PointsOfAnyJob(j) == points

PointsOf(j) == {p \in points : JobOf[p] = j}
FullsOf(j)  == {p \in PointsOf(j) : plan[p].kind = "FULL"}
IsLatest(p)    == p \in points /\ \A q \in PointsOf(JobOf[p]) : stamp[q] <= stamp[p]
IsOldest(p, S) == p \in S /\ \A q \in S : stamp[p] <= stamp[q]

\* The points met by following parent links from p, up to and including the
\* first one that is a FULL or is no longer in the catalog.
Ancestry(p) ==
    {a \in Runs : \A S \in SUBSET Runs :
        (/\ p \in S
         /\ \A x \in S \cap points : plan[x].kind = "INCREMENTAL" => plan[x].parent \in S)
        => a \in S}

\* resolve_local_restore_point_lineage finds a FULL base.
HasLineage(p) == Ancestry(p) \subseteq points

\* latest_local_restore_point_for_job reports the canonical position of a point.
SequenceOf(p) ==
    IF plan[p].kind = "INCREMENTAL" /\ HasLineage(p)
    THEN Cardinality(Ancestry(p)) - 1 ELSE plan[p].sequence

\* Mutant: keeps one FULL too few.
SurplusFullsOffByOne(j, keep) ==
    {f \in FullsOf(j) : Cardinality({g \in FullsOf(j) : stamp[g] >= stamp[f]}) >= keep}

\* Mutant: counts from the oldest.
SurplusFullsFromOldest(j, keep) ==
    {f \in FullsOf(j) : Cardinality({g \in FullsOf(j) : stamp[g] <= stamp[f]}) > keep}

\* All but the newest `keep` FULL points of a job.
SurplusFulls(j, keep) ==
    {f \in FullsOf(j) : Cardinality({g \in FullsOf(j) : stamp[g] >= stamp[f]}) > keep}

\* A FULL and everything that depends on it or carries its chain id.
ChainPoints(f) ==
    {p \in PointsOf(JobOf[f]) : f \in Ancestry(p) \/ plan[p].chain = plan[f].chain}

\* Mutant: the FULL first.
IsNextVictimFullFirst(p, S) ==
    p \in S /\ \A q \in S : plan[p].kind = "FULL" \/ plan[q].kind # "FULL"

\* Newest incremental first, the FULL last.
IsNextVictim(p, S) ==
    /\ p \in S
    /\ \A q \in S :
        \/ plan[q].kind = "FULL"
        \/ plan[q].sequence < plan[p].sequence
        \/ plan[q].sequence = plan[p].sequence /\ stamp[q] <= stamp[p]

-----------------------------------------------------------------------------
(* Kind and parent of a new backup *)

\* A point that a new incremental may follow.
Extendable(p) == MaxIncrementals > 0 /\ HasLineage(p) /\ SequenceOf(p) < MaxIncrementals

NeedsFull(j) == \A p \in PointsOf(j) : IsLatest(p) => ~Extendable(p)

\* A manual INCREMENTAL request is refused where a scheduled one becomes a FULL.
RefusesKind(r) == request[r] = "INCREMENTAL" /\ r \in Manual /\ NeedsFull(JobOf[r])

FullPlan(r) == [kind |-> "FULL", parent |-> NoRun, sequence |-> 0, chain |-> r]

\* The chain id is that of the FULL base b.
IncrementalPlan(p, b) ==
    [kind |-> "INCREMENTAL", parent |-> p, sequence |-> SequenceOf(p) + 1,
     chain |-> plan[b].chain]

ChoosePlan(r) ==
    \/ /\ request[r] = "FULL" \/ NeedsFull(JobOf[r])
       /\ wplan' = FullPlan(r)
    \/ /\ request[r] # "FULL"
       /\ \E p \in PointsOf(JobOf[r]) : \E b \in Ancestry(p) :
             /\ IsLatest(p) /\ Extendable(p)
             /\ plan[b].kind = "FULL"
             /\ wplan' = IncrementalPlan(p, b)

-----------------------------------------------------------------------------
Init ==
    /\ state    = [r \in Runs |-> "NONE"]
    /\ request  = [r \in Runs |-> "AUTO"]
    /\ phase    = [r \in Runs |-> "NONE"]
    /\ plan     = [r \in Runs |-> NoPlan]
    /\ recovery = [r \in Runs |-> FALSE]
    /\ points   = {}
    /\ stamp    = [r \in Runs |-> 0]
    /\ clock    = 0
    /\ files    = [r \in Runs |-> "NONE"]
    /\ control  = [r \in Runs |-> "NONE"]
    /\ backup   = [r \in Runs |-> "NONE"]
    /\ evidence = [v \in VMs |-> "NONE"]
    /\ wpc = "idle" /\ wrun = NoRun /\ wplan = NoPlan /\ wfulls = {} /\ wchain = {}
    /\ apc = "idle" /\ arun = NoRun
    /\ dstep  = [t \in Threads |-> "none"]
    /\ dpoint = [t \in Threads |-> NoRun]
    /\ crashes = 0

\* The worker moves on within the same advance_run, or is done with the run.
WorkerTo(pc) ==
    /\ wpc' = pc
    /\ wrun' = IF pc = "idle" THEN NoRun ELSE wrun

\* An exception leaves advance_run; the worker's locals are gone.
Raise == /\ wpc' = "fail" /\ wplan' = NoPlan /\ wfulls' = {} /\ wchain' = {}

-----------------------------------------------------------------------------
(* Creating runs *)

Insert(r, kinds) ==
    /\ state' = [state EXCEPT ![r] = "SCHEDULED"]
    /\ \E k \in kinds : request' = [request EXCEPT ![r] = k]
    /\ UNCHANGED <<phase, plan, recovery>>

\* backup.run reads that the VM is not busy ...
CreateManualRun(r) ==
    /\ apc = "idle" /\ dstep["api"] = "none"
    /\ r \in Manual /\ state[r] = "NONE"
    /\ ~Busy(VM(r))
    /\ apc' = "create" /\ arun' = r
    /\ UNCHANGED <<runVars, storeVars, hostVars, workerVars, deleteVars, crashes>>

\* ... and inserts the run with a separate statement.
CreateRun ==
    /\ apc = "create"
    /\ Insert(arun, Kinds)
    /\ apc' = "idle" /\ arun' = NoRun
    /\ UNCHANGED <<storeVars, hostVars, workerVars, deleteVars, crashes>>

\* The scheduler finds a due job whose VM is not busy (a busy VM only
\* advances the cursor, which is not modelled here) ...
ScheduleDueJob(r) ==
    /\ wpc = "idle"
    /\ r \in Runs \ Manual /\ state[r] = "NONE"
    /\ ~Busy(VM(r))
    /\ wpc' = "schedule" /\ wrun' = r
    /\ UNCHANGED <<runVars, storeVars, hostVars, wplan, wfulls, wchain, apiVars,
                   deleteVars, crashes>>

\* ... and inserts the run; a chain schedule asks for a kind, a plain one does not.
ScheduleInsert ==
    /\ wpc = "schedule"
    /\ Insert(wrun, Kinds)
    /\ WorkerTo("idle")
    /\ UNCHANGED <<storeVars, hostVars, wplan, wfulls, wchain, apiVars, deleteVars, crashes>>

-----------------------------------------------------------------------------
(* advance_run: SCHEDULED and PREPARING *)

AdoptRun(r) ==
    /\ wpc = "idle" /\ state[r] = "SCHEDULED"
    /\ state' = [state EXCEPT ![r] = "PREPARING"]
    /\ UNCHANGED <<request, phase, plan, recovery, storeVars, hostVars, workerVars,
                   apiVars, deleteVars, crashes>>

\* Kind, parent, interrupted-preparation check, domain checks and preflight.
\* The checks of the domain other than its active backup fail at will.
PrepareAndStart(r) ==
    /\ wpc = "idle" /\ state[r] = "PREPARING"
    /\ wrun' = r
    /\ \/ /\ ~RefusesKind(r)
          /\ phase[r] = "NONE"
          /\ ~DomainBusy(VM(r))
          /\ ChoosePlan(r)
          /\ wpc' = "capacity"
          /\ UNCHANGED <<wfulls, wchain>>
       \/ Raise
    /\ UNCHANGED <<runVars, storeVars, hostVars, apiVars, deleteVars, crashes>>

\* Start deleting the oldest of a set of chains.
PickChain(fulls) ==
    \E f \in fulls :
        /\ IsOldest(f, fulls)
        /\ wchain' = ChainPoints(f)
        /\ wfulls' = fulls \ {f}

\* Mutant: forgets the minimum.
ReclaimableToTheLast(j) == IF SpaceOptimized THEN FullsOf(j) ELSE {}

\* Heads of the chains that space reclamation may delete.
Reclaimable(j) == IF SpaceOptimized THEN SurplusFulls(j, MinimumFullChains) ELSE {}

\* _reclaim_for_space, first reading of the free space.
ReclaimForSpace ==
    /\ wpc = "capacity"
    /\ LET fulls == Reclaimable(JobOf[wrun])
       IN \/ WorkerTo("stage") /\ UNCHANGED <<wplan, wfulls, wchain>>
          \/ /\ fulls # {}
             /\ PickChain(fulls)
             /\ WorkerTo("reclaim")
             /\ UNCHANGED wplan
          \/ /\ fulls = {}
             /\ Raise /\ UNCHANGED wrun
    /\ UNCHANGED <<runVars, storeVars, hostVars, apiVars, deleteVars, crashes>>

ChainDeleted == wchain = {} /\ dstep["worker"] = "none"

\* Free space is read again after each deleted chain.
ReclaimNext ==
    /\ wpc = "reclaim" /\ ChainDeleted
    /\ \/ /\ WorkerTo("stage") /\ wfulls' = {} /\ UNCHANGED <<wplan, wchain>>
       \/ /\ wfulls # {}
          /\ PickChain(wfulls)
          /\ UNCHANGED <<wpc, wrun, wplan>>
       \/ /\ wfulls = {}
          /\ Raise /\ UNCHANGED wrun
    /\ UNCHANGED <<runVars, storeVars, hostVars, apiVars, deleteVars, crashes>>

\* Staging refuses a run directory that exists; the disk may also fail, before
\* or after the directories were made.
PrepareNewRun ==
    /\ wpc = "stage"
    /\ \/ Raise /\ UNCHANGED <<wrun, files, control>>
       \/ /\ control[wrun] = "NONE"
          /\ control' = [control EXCEPT ![wrun] = "PREPARED"]
          /\ files' = [files EXCEPT ![wrun] = "INCOMING"]
          /\ \/ WorkerTo("request") /\ UNCHANGED <<wplan, wfulls, wchain>>
             \/ Raise /\ UNCHANGED wrun
    /\ UNCHANGED <<runVars, points, stamp, clock, hostVars, apiVars, deleteVars, crashes>>

\* The plan and phase START_REQUESTED are persisted before libvirt is called.
RequestStart ==
    /\ wpc = "request"
    /\ phase' = [phase EXCEPT ![wrun] = "START_REQUESTED"]
    /\ plan' = [plan EXCEPT ![wrun] = wplan]
    /\ wplan' = NoPlan
    /\ WorkerTo("begin")
    /\ UNCHANGED <<state, request, recovery, storeVars, hostVars, wfulls, wchain,
                   apiVars, deleteVars, crashes>>

\* virsh backup-begin succeeds, is refused, or times out after libvirt has
\* accepted it.  Every exception records START_REJECTED.
BeginBackup ==
    /\ wpc = "begin"
    /\ \/ /\ ~DomainBusy(VM(wrun))
          /\ backup' = [backup EXCEPT ![wrun] = "ACTIVE"]
          /\ \/ /\ WorkerTo("started")
                /\ UNCHANGED <<phase, wplan, wfulls, wchain>>
             \/ /\ phase' = [phase EXCEPT ![wrun] = "START_REJECTED"]
                /\ Raise /\ UNCHANGED wrun
       \/ /\ phase' = [phase EXCEPT ![wrun] = "START_REJECTED"]
          /\ Raise /\ UNCHANGED <<wrun, backup>>
    /\ UNCHANGED <<state, request, plan, recovery, storeVars, evidence, apiVars,
                   deleteVars, crashes>>

MarkRunning ==
    /\ wpc = "started"
    /\ phase' = [phase EXCEPT ![wrun] = "RUNNING"]
    /\ WorkerTo("running")
    /\ UNCHANGED <<state, request, plan, recovery, storeVars, hostVars, wplan, wfulls,
                   wchain, apiVars, deleteVars, crashes>>

EnterBackingUp ==
    /\ wpc = "running"
    /\ state' = [state EXCEPT ![wrun] = "BACKING_UP"]
    /\ WorkerTo("idle")
    /\ UNCHANGED <<request, phase, plan, recovery, storeVars, hostVars, wplan, wfulls,
                   wchain, apiVars, deleteVars, crashes>>

-----------------------------------------------------------------------------
(* advance_run: BACKING_UP, VERIFYING, FINALIZING *)

\* Mutant: looks at the completion record only.
BackupCompletedByRecord(v) == evidence[v] = "SUCCESS"

\* The completion record names no run: it is the domain's last backup job.
BackupCompleted(v) == ~DomainBusy(v) /\ evidence[v] = "SUCCESS"

\* An active job with the run's own identity leaves the run as it is; anything
\* but a completed backup, a failing virsh included, is an exception.
Poll(r) ==
    /\ wpc = "idle" /\ state[r] = "BACKING_UP"
    /\ \/ /\ BackupCompleted(VM(r))
          /\ state' = [state EXCEPT ![r] = "VERIFYING"]
          /\ UNCHANGED workerVars
       \/ /\ wrun' = r /\ Raise
          /\ UNCHANGED state
    /\ UNCHANGED <<request, phase, plan, recovery, storeVars, hostVars, apiVars,
                   deleteVars, crashes>>

\* Disks are verified and the manifest is written; a manifest left behind by
\* an interrupted verification is refused.
VerifyAndPublish(r) ==
    /\ wpc = "idle" /\ state[r] = "VERIFYING"
    /\ wrun' = r
    /\ \/ /\ control[r] = "PREPARED"
          /\ control' = [control EXCEPT ![r] = "MANIFEST"]
          /\ wpc' = "finalizing"
          /\ UNCHANGED <<wplan, wfulls, wchain>>
       \/ Raise /\ UNCHANGED control
    /\ UNCHANGED <<runVars, points, stamp, clock, files, hostVars, apiVars, deleteVars,
                   crashes>>

EnterFinalizing ==
    /\ wpc = "finalizing"
    /\ state' = [state EXCEPT ![wrun] = "FINALIZING"]
    /\ WorkerTo("publish")
    /\ UNCHANGED <<request, phase, plan, recovery, storeVars, hostVars, wplan, wfulls,
                   wchain, apiVars, deleteVars, crashes>>

\* The rename of .incoming/<run> to its final name, or an error around it.
PublishBundle ==
    /\ wpc = "publish"
    /\ \/ Raise /\ UNCHANGED <<wrun, files>>
       \/ /\ files[wrun] = "INCOMING"
          /\ files' = [files EXCEPT ![wrun] = "FINAL"]
          /\ \/ WorkerTo("finalize") /\ UNCHANGED <<wplan, wfulls, wchain>>
             \/ Raise /\ UNCHANGED wrun
    /\ UNCHANGED <<runVars, points, stamp, clock, control, hostVars, apiVars, deleteVars,
                   crashes>>

\* Mutant: the restore point survives the error.
RollBackKeepingPoint == Raise /\ points' = points \cup {wrun} /\ UNCHANGED <<wrun, state, stamp, clock>>

RollBack == Raise /\ UNCHANGED <<wrun, state, points, stamp, clock>>

\* One transaction inserts the restore point and sets SUCCESS, or rolls back.
FinalizeLocalBackup ==
    /\ wpc = "finalize"
    /\ \/ /\ state[wrun] = "FINALIZING"
          /\ points' = points \cup {wrun}
          /\ clock' = clock + 1
          /\ stamp' = [stamp EXCEPT ![wrun] = clock + 1]
          /\ state' = [state EXCEPT ![wrun] = "SUCCESS"]
          /\ WorkerTo(IF plan[wrun].kind = "FULL" THEN "retention" ELSE "idle")
          /\ UNCHANGED <<wplan, wfulls, wchain>>
       \/ RollBack
    /\ UNCHANGED <<request, phase, plan, recovery, files, control, hostVars, apiVars,
                   deleteVars, crashes>>

\* A run found in FINALIZING was interrupted; its files are left alone.
FinalizationInterrupted(r) ==
    /\ wpc = "idle" /\ state[r] = "FINALIZING"
    /\ wrun' = r /\ Raise
    /\ UNCHANGED <<runVars, storeVars, hostVars, apiVars, deleteVars, crashes>>

EnforceFullRetention ==
    /\ wpc = "retention"
    /\ LET fulls == SurplusFulls(JobOf[wrun], FullChainsToRetain)
       IN IF fulls = {} THEN WorkerTo("idle") /\ UNCHANGED <<wfulls, wchain>>
                        ELSE WorkerTo("retain") /\ PickChain(fulls)
    /\ UNCHANGED <<runVars, storeVars, hostVars, wplan, apiVars, deleteVars, crashes>>

RetainNext ==
    /\ wpc = "retain" /\ ChainDeleted
    /\ IF wfulls = {} THEN WorkerTo("idle") /\ UNCHANGED <<wfulls, wchain>>
                      ELSE PickChain(wfulls) /\ UNCHANGED <<wpc, wrun>>
    /\ UNCHANGED <<runVars, storeVars, hostVars, wplan, apiVars, deleteVars, crashes>>

\* Mutant: only the start itself is uncertain.
UncertainStart(r) == phase[r] = "START_REQUESTED"

Uncertain(r) == phase[r] \in {"START_REQUESTED", "RUNNING"}

\* Mutant: flags the run but leaves its state.
RecoverRunsFlagOnly ==
    /\ wpc = "fail"
    /\ recovery' = [recovery EXCEPT ![wrun] = @ \/ Uncertain(wrun)]
    /\ WorkerTo("idle")
    /\ UNCHANGED <<state, request, phase, plan, storeVars, hostVars, wplan, wfulls, wchain,
                   apiVars, deleteVars, crashes>>

\* recover_runs: any exception of advance_run ends the run as FAILED.
RecoverRuns ==
    /\ wpc = "fail"
    /\ recovery' = [recovery EXCEPT ![wrun] = @ \/ Uncertain(wrun)]
    /\ state' = [state EXCEPT ![wrun] = "FAILED"]
    /\ WorkerTo("idle")
    /\ UNCHANGED <<request, phase, plan, storeVars, hostVars, wplan, wfulls, wchain,
                   apiVars, deleteVars, crashes>>

-----------------------------------------------------------------------------
(* Deleting a restore point: check, remove the files, remove the row *)

Deletable(p) == p \in points /\ state[p] = "SUCCESS"

StartDelete(t, p) ==
    /\ dstep' = [dstep EXCEPT ![t] = "rmtree"]
    /\ dpoint' = [dpoint EXCEPT ![t] = p]

EndDelete(t) ==
    /\ dstep' = [dstep EXCEPT ![t] = "none"]
    /\ dpoint' = [dpoint EXCEPT ![t] = NoRun]

\* Only the worker turns a failed deletion into an exception of its run.
DeleteFails(t) ==
    /\ EndDelete(t)
    /\ IF t = "worker" THEN Raise /\ UNCHANGED wrun ELSE UNCHANGED workerVars

DeleteChain ==
    /\ wpc \in {"reclaim", "retain"} /\ wchain # {} /\ dstep["worker"] = "none"
    /\ \E p \in wchain :
          /\ IsNextVictim(p, wchain)
          /\ IF Deletable(p)
             THEN /\ StartDelete("worker", p)
                  /\ wchain' = wchain \ {p}
                  /\ UNCHANGED <<wpc, wrun, wplan, wfulls>>
             ELSE Raise /\ UNCHANGED <<wrun, deleteVars>>
    /\ UNCHANGED <<runVars, storeVars, hostVars, apiVars, crashes>>

RestorePointDelete(p) ==
    /\ UserDeletes
    /\ apc = "idle" /\ dstep["api"] = "none"
    /\ Deletable(p)
    /\ StartDelete("api", p)
    /\ UNCHANGED <<runVars, storeVars, hostVars, workerVars, apiVars, crashes>>

\* Mutant: an error of rmtree is ignored.
RmtreeErrorIgnored(t) ==
    /\ files' = [files EXCEPT ![dpoint[t]] = "PARTIAL"]
    /\ dstep' = [dstep EXCEPT ![t] = "catalog"]
    /\ UNCHANGED <<dpoint, workerVars>>

RmtreeError(t) ==
    /\ files' = [files EXCEPT ![dpoint[t]] = "PARTIAL"]
    /\ DeleteFails(t)

\* shutil.rmtree; a missing directory is skipped, an error leaves a part of it.
RemoveFiles(t) ==
    /\ dstep[t] = "rmtree"
    /\ \/ /\ files' = [files EXCEPT ![dpoint[t]] = "REMOVED"]
          /\ dstep' = [dstep EXCEPT ![t] = "catalog"]
          /\ UNCHANGED <<dpoint, workerVars>>
       \/ /\ files[dpoint[t]] # "REMOVED"
          /\ RmtreeError(t)
    /\ UNCHANGED <<runVars, points, stamp, clock, control, hostVars, apiVars, crashes>>

\* delete_local_restore_point_catalog; a row another deletion took is a conflict.
RemoveRow(t) ==
    /\ dstep[t] = "catalog"
    /\ points' = points \ {dpoint[t]}
    /\ IF dpoint[t] \in points THEN EndDelete(t) /\ UNCHANGED workerVars
                               ELSE DeleteFails(t)
    /\ UNCHANGED <<runVars, stamp, clock, files, control, hostVars, apiVars, crashes>>

-----------------------------------------------------------------------------
(* Environment *)

BackupEnds(r) ==
    /\ backup[r] = "ACTIVE"
    /\ \E outcome \in {"SUCCESS", "FAILURE"} :
          /\ backup' = [backup EXCEPT ![r] = outcome]
          /\ evidence' = [evidence EXCEPT ![VM(r)] = outcome]
    /\ UNCHANGED <<runVars, storeVars, workerVars, apiVars, deleteVars, crashes>>

\* The daemon dies and is restarted: both threads lose what they were doing.
Crash ==
    /\ crashes < MaxCrashes
    /\ crashes' = crashes + 1
    /\ wpc' = "idle" /\ wrun' = NoRun /\ wplan' = NoPlan /\ wfulls' = {} /\ wchain' = {}
    /\ apc' = "idle" /\ arun' = NoRun
    /\ dstep' = [t \in Threads |-> "none"]
    /\ dpoint' = [t \in Threads |-> NoRun]
    /\ UNCHANGED <<runVars, storeVars, hostVars>>

\* A tick with nothing to do.
IdleTick ==
    /\ wpc = "idle"
    /\ \A r \in Runs : ~Active(r)
    /\ UNCHANGED vars

-----------------------------------------------------------------------------
\* What one tick does to a run it finds active, and how it carries on.
AdvanceRun(r) ==
    \/ AdoptRun(r) \/ PrepareAndStart(r) \/ Poll(r) \/ VerifyAndPublish(r)
    \/ FinalizationInterrupted(r)

ContinueRun ==
    \/ ScheduleInsert
    \/ ReclaimForSpace \/ ReclaimNext \/ PrepareNewRun \/ RequestStart \/ BeginBackup
    \/ MarkRunning \/ EnterBackingUp
    \/ EnterFinalizing \/ PublishBundle \/ FinalizeLocalBackup
    \/ EnforceFullRetention \/ RetainNext \/ RecoverRuns
    \/ DeleteChain \/ RemoveFiles("worker") \/ RemoveRow("worker")

Worker == (\E r \in Runs : ScheduleDueJob(r) \/ AdvanceRun(r)) \/ ContinueRun \/ IdleTick

Api ==
    \/ \E r \in Runs : CreateManualRun(r) \/ RestorePointDelete(r)
    \/ CreateRun \/ RemoveFiles("api") \/ RemoveRow("api")

Next == Worker \/ Api \/ (\E r \in Runs : BackupEnds(r)) \/ Crash

Spec == Init /\ [][Next]_vars

\* The worker loop never stops ticking and every tick visits every active run
\* (polling a run whose own job is still active need not change it); libvirt
\* ends every backup job.  Nothing forces a user to act.
FairSpec ==
    /\ Spec
    /\ WF_vars(ContinueRun)
    /\ \A r \in Runs : SF_vars(backup[r] # "ACTIVE" /\ AdvanceRun(r)) /\ WF_vars(BackupEnds(r))

-----------------------------------------------------------------------------
(* Type invariant *)

TypeOK ==
    /\ state \in [Runs -> RunStates]
    /\ request \in [Runs -> Kinds]
    /\ phase \in [Runs -> Phases]
    /\ plan \in [Runs -> Plans]
    /\ recovery \in [Runs -> BOOLEAN]
    /\ points \subseteq Runs
    /\ stamp \in [Runs -> Nat]
    /\ clock \in Nat
    /\ files \in [Runs -> FileState]
    /\ control \in [Runs -> {"NONE", "PREPARED", "MANIFEST"}]
    /\ backup \in [Runs -> {"NONE", "ACTIVE", "SUCCESS", "FAILURE"}]
    /\ evidence \in [VMs -> {"NONE", "SUCCESS", "FAILURE"}]
    /\ wpc \in WorkerPcs
    /\ wrun \in Runs \cup {NoRun}
    /\ (wpc = "idle") <=> (wrun = NoRun)
    /\ wplan \in Plans
    /\ wfulls \subseteq Runs
    /\ wchain \subseteq Runs
    /\ apc \in {"idle", "create"}
    /\ arun \in Runs \cup {NoRun}
    /\ (apc = "idle") <=> (arun = NoRun)
    /\ dstep \in [Threads -> {"none", "rmtree", "catalog"}]
    /\ dpoint \in [Threads -> Runs \cup {NoRun}]
    /\ \A t \in Threads : (dstep[t] = "none") <=> (dpoint[t] = NoRun)
    /\ crashes \in 0 .. MaxCrashes

-----------------------------------------------------------------------------
(* Properties of every behaviour *)

Published == {"FINAL", "PARTIAL", "REMOVED"}

\* The bundle of a run is never published while libvirt still writes its disks.
\* (_poll requires that the domain has no job; a lost or uncertain start, a
\* crash and a second run on the same VM must not get around it.)
PublishedDisksQuiet ==
    \A r \in Runs : files[r] \in Published => backup[r] # "ACTIVE"

\* Catalog and disk agree whatever deletions, crashes and errors interleave: a
\* restore point is only in the catalog after its bundle was renamed into
\* place, and a succeeded run whose point is gone has left no files behind.
\* (publish before finalize_local_backup; rmtree before the catalog row.)
CatalogMatchesDisk ==
    \A r \in Runs :
        /\ r \in points => files[r] \in Published
        /\ state[r] = "SUCCESS" /\ r \notin points => files[r] = "REMOVED"

\* An incremental in the catalog continues its parent: same job and chain, one
\* step further, within the chain limit, and published later.  (The kind and
\* parent decision of _prepare_and_start is made long before publication.)
ChainWellFormed ==
    \A p \in points : plan[p].kind = "INCREMENTAL" =>
        LET q == plan[p].parent IN
        /\ q \in Runs
        /\ JobOf[q] = JobOf[p]
        /\ plan[p].chain = plan[q].chain
        /\ plan[p].sequence = plan[q].sequence + 1
        /\ plan[p].sequence <= MaxIncrementals
        /\ stamp[q] < stamp[p]

\* A published bundle that no restore point names belongs to a run that is
\* still finalizing, to a deletion, or to a run flagged for recovery: no bundle
\* is forgotten when the daemon dies between the rename and the transaction.
OrphanBundleFlagged ==
    \A r \in Runs : files[r] = "FINAL" /\ r \notin points /\ state[r] = "FAILED"
        => recovery[r]

\* Every accepted run ends, whatever fails and whenever the daemon dies.
EveryRunEnds ==
    \A r \in Runs : (state[r] = "SCHEDULED") ~> (state[r] \in {"SUCCESS", "FAILED"})

\* The runs and their points implement the abstract restore-point store.
Outcome(r) ==
    IF state[r] \in {"NONE", "SUCCESS", "FAILED"} THEN state[r] ELSE "ACTIVE"

Store == INSTANCE RestorePoints
    WITH outcome <- [r \in Runs |-> Outcome(r)], available <- points

ImplementsStore == Store!Spec

-----------------------------------------------------------------------------
(* Properties of retention, when users delete nothing and no two runs of a *)
(* VM overlap                                                              *)

\* A restore point can be restored when its whole chain is there, on disk too.
Restorable(p) == \A a \in Ancestry(p) : a \in points /\ files[a] = "FINAL"

\* The newest restore point of a job is restorable at every moment, also while
\* older chains are being deleted, after a deletion failed and after a crash.
LatestRestorable ==
    \A p \in points : IsLatest(p) => Restorable(p)

\* Automatic deletion never leaves an incremental without its chain (newest
\* first, FULL last, in _delete_chain).
NoOrphanIncremental ==
    \A p \in points : HasLineage(p)

\* The files of a FULL are only touched while at least minimum_full_chains
\* newer complete FULL backups of the job remain.
RetentionKeepsMinimum ==
    [][\A f \in points :
          plan[f].kind = "FULL" /\ files'[f] # files[f] =>
              Cardinality({g \in FullsOf(JobOf[f]) : files[g] = "FINAL" /\ stamp[g] > stamp[f]})
                  >= MinimumFullChains]_vars

\* "NO NEW VALID RESTORE POINT => NO AUTOMATIC BACKUP DELETION" (SAFE mode): the
\* worker removes files only on behalf of a run of the same job, on the same
\* destination, that has published a FULL newer than what it deletes.
DeletionNeedsPublication ==
    [][\A p \in Runs : files'[p] # files[p] /\ p = dpoint["worker"] /\ p # dpoint["api"] =>
          /\ state[wrun] = "SUCCESS" /\ plan[wrun].kind = "FULL"
          /\ JobOf[wrun] = JobOf[p] /\ stamp[p] < stamp[wrun]]_vars

-----------------------------------------------------------------------------
(* What the documentation or a comment says and the code does not keep:    *)
(* TLC finds a counterexample (README, section 6).                         *)

\* A published restore point holds a backup that libvirt completed with
\* success; the completion evidence names no run (_poll).
PublishedBackupSucceeded ==
    \A p \in points : backup[p] = "SUCCESS"

\* The transition table gives SUCCESS no successor.
SuccessIsFinal ==
    [][\A r \in Runs : state[r] = "SUCCESS" => state'[r] = "SUCCESS"]_vars

=============================================================================
