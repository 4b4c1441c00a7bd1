------------------------- MODULE LocalBackup_proofs -------------------------
(***************************************************************************)
(* Theorems about the backup pipeline of LocalBackup, for every set of     *)
(* runs, jobs and VMs, every retention policy and any number of crashes.   *)
(***************************************************************************)
EXTENDS LocalBackup, FiniteSetTheorems, TLAPS

(***************************************************************************)
(* Type correctness.  A failed deletion of the worker becomes an exception *)
(* of the run it works for, so the worker must have one.                   *)
(***************************************************************************)
WorkerDeletes == dstep["worker"] # "none" => wpc \in {"reclaim", "retain"}

TypeInv == TypeOK /\ WorkerDeletes

\* A point belongs to its own ancestry, which is a finite set of runs.
LEMMA AncestryFinite ==
    ASSUME NEW p \in Runs
    PROVE  /\ p \in Ancestry(p)
           /\ Ancestry(p) \subseteq Runs
           /\ IsFiniteSet(Ancestry(p))
           /\ Cardinality(Ancestry(p)) \in Nat \ {0}
<1>1. p \in Ancestry(p) /\ Ancestry(p) \subseteq Runs  BY DEF Ancestry
<1>2. IsFiniteSet(Ancestry(p))
  BY <1>1, ConstantsAssumption, FS_Subset
<1>3. Cardinality(Ancestry(p)) \in Nat \ {0}
  BY <1>1, <1>2, FS_CardinalityType, FS_EmptySet
<1> QED  BY <1>1, <1>2, <1>3

LEMMA SequenceOfType ==
    ASSUME TypeOK, NEW p \in Runs
    PROVE  SequenceOf(p) \in Nat
<1>1. plan[p].sequence \in Nat  BY DEF TypeOK, Plans
<1>2. Cardinality(Ancestry(p)) - 1 \in Nat  BY AncestryFinite
<1> QED  BY <1>1, <1>2 DEF SequenceOf

\* Both kinds of plan are plans.
LEMMA ChoosePlanType ==
    ASSUME TypeOK, NEW r \in Runs, ChoosePlan(r)
    PROVE  wplan' \in Plans
<1>1. CASE wplan' = FullPlan(r)
  BY <1>1 DEF FullPlan, Plans
<1>2. ASSUME NEW p \in PointsOf(JobOf[r]), NEW b \in Ancestry(p),
             wplan' = IncrementalPlan(p, b)
      PROVE  wplan' \in Plans
  <2>1. p \in Runs /\ b \in Runs  BY AncestryFinite DEF TypeOK, PointsOf
  <2>2. SequenceOf(p) + 1 \in Nat  BY <2>1, SequenceOfType
  <2>3. plan[b].chain \in Runs \cup {NoRun}  BY <2>1 DEF TypeOK, Plans
  <2> QED  BY <1>2, <2>1, <2>2, <2>3 DEF IncrementalPlan, Plans
<1> QED  BY <1>1, <1>2 DEF ChoosePlan

LEMMA PickChainType ==
    ASSUME TypeOK, NEW S \in SUBSET Runs, PickChain(S)
    PROVE  wfulls' \subseteq Runs /\ wchain' \subseteq Runs
BY DEF PickChain, ChainPoints, PointsOf, TypeOK

LEMMA SurplusType ==
    ASSUME TypeOK, NEW j, NEW k
    PROVE  SurplusFulls(j, k) \subseteq Runs /\ Reclaimable(j) \subseteq Runs
BY DEF SurplusFulls, Reclaimable, FullsOf, PointsOf, TypeOK

LEMMA TypeInit == Init => TypeInv
BY ConstantsAssumption DEF Init, TypeInv, TypeOK, WorkerDeletes, RunStates, Kinds, Phases,
   Plans, NoPlan, FileState, WorkerPcs, Threads

LEMMA TypeStep == TypeInv /\ [Next]_vars => TypeInv'
<1> SUFFICES ASSUME TypeInv, [Next]_vars PROVE TypeInv'
  OBVIOUS
<1> USE ConstantsAssumption
<1> NoPlan \in Plans  BY DEF NoPlan, Plans
<1>s. CASE UNCHANGED vars
  BY <1>s DEF TypeInv, TypeOK, WorkerDeletes, vars, runVars, storeVars, hostVars, workerVars,
     apiVars, deleteVars
<1>1. ASSUME NEW r \in Runs, CreateManualRun(r) PROVE TypeInv'
  BY <1>1 DEF CreateManualRun, TypeInv, TypeOK, WorkerDeletes, runVars, storeVars, hostVars,
     workerVars, deleteVars
<1>2. CASE CreateRun
  BY <1>2 DEF CreateRun, Insert, TypeInv, TypeOK, WorkerDeletes, RunStates, storeVars, hostVars,
     workerVars, deleteVars
<1>3. ASSUME NEW r \in Runs, ScheduleDueJob(r) PROVE TypeInv'
  BY <1>3 DEF ScheduleDueJob, TypeInv, TypeOK, WorkerDeletes, WorkerPcs, runVars, storeVars,
     hostVars, apiVars, deleteVars
<1>4. CASE ScheduleInsert
  BY <1>4 DEF ScheduleInsert, Insert, WorkerTo, TypeInv, TypeOK, WorkerDeletes, WorkerPcs,
     RunStates, storeVars, hostVars, apiVars, deleteVars
<1>5. ASSUME NEW r \in Runs, AdoptRun(r) PROVE TypeInv'
  BY <1>5 DEF AdoptRun, TypeInv, TypeOK, WorkerDeletes, RunStates, storeVars, hostVars,
     workerVars, apiVars, deleteVars
<1>6. ASSUME NEW r \in Runs, PrepareAndStart(r) PROVE TypeInv'
  <2> wplan' \in Plans
    BY <1>6, ChoosePlanType DEF PrepareAndStart, Raise, TypeInv
  <2> QED
    BY <1>6 DEF PrepareAndStart, Raise, TypeInv, TypeOK, WorkerDeletes, WorkerPcs, runVars,
       storeVars, hostVars, apiVars, deleteVars
<1>7. CASE ReclaimForSpace
  <2> wfulls' \subseteq Runs /\ wchain' \subseteq Runs
    BY <1>7, SurplusType, PickChainType DEF ReclaimForSpace, Raise, TypeInv, TypeOK
  <2> QED
    BY <1>7 DEF ReclaimForSpace, WorkerTo, Raise, TypeInv, TypeOK, WorkerDeletes, WorkerPcs,
       runVars, storeVars, hostVars, apiVars, deleteVars
<1>8. CASE ReclaimNext
  <2> wfulls' \subseteq Runs /\ wchain' \subseteq Runs
    BY <1>8, PickChainType DEF ReclaimNext, Raise, TypeInv, TypeOK
  <2> QED
    BY <1>8 DEF ReclaimNext, ChainDeleted, WorkerTo, Raise, TypeInv, TypeOK, WorkerDeletes,
       WorkerPcs, runVars, storeVars, hostVars, apiVars, deleteVars
<1>9. CASE PrepareNewRun
  BY <1>9 DEF PrepareNewRun, WorkerTo, Raise, TypeInv, TypeOK, WorkerDeletes, WorkerPcs,
     FileState, runVars, hostVars, apiVars, deleteVars
<1>10. CASE RequestStart
  BY <1>10 DEF RequestStart, WorkerTo, TypeInv, TypeOK, WorkerDeletes, WorkerPcs, Phases,
     storeVars, hostVars, apiVars, deleteVars
<1>11. CASE BeginBackup
  BY <1>11 DEF BeginBackup, WorkerTo, Raise, TypeInv, TypeOK, WorkerDeletes, WorkerPcs, Phases,
     storeVars, apiVars, deleteVars
<1>12. CASE MarkRunning
  BY <1>12 DEF MarkRunning, WorkerTo, TypeInv, TypeOK, WorkerDeletes, WorkerPcs, Phases,
     storeVars, hostVars, apiVars, deleteVars
<1>13. CASE EnterBackingUp
  BY <1>13 DEF EnterBackingUp, WorkerTo, TypeInv, TypeOK, WorkerDeletes, WorkerPcs, RunStates,
     storeVars, hostVars, apiVars, deleteVars
<1>14. ASSUME NEW r \in Runs, Poll(r) PROVE TypeInv'
  BY <1>14 DEF Poll, Raise, TypeInv, TypeOK, WorkerDeletes, WorkerPcs, RunStates, storeVars,
     hostVars, workerVars, apiVars, deleteVars
<1>15. ASSUME NEW r \in Runs, VerifyAndPublish(r) PROVE TypeInv'
  BY <1>15 DEF VerifyAndPublish, Raise, TypeInv, TypeOK, WorkerDeletes, WorkerPcs, runVars,
     hostVars, apiVars, deleteVars
<1>16. CASE EnterFinalizing
  BY <1>16 DEF EnterFinalizing, WorkerTo, TypeInv, TypeOK, WorkerDeletes, WorkerPcs, RunStates,
     storeVars, hostVars, apiVars, deleteVars
<1>17. CASE PublishBundle
  BY <1>17 DEF PublishBundle, WorkerTo, Raise, TypeInv, TypeOK, WorkerDeletes, WorkerPcs,
     FileState, runVars, hostVars, apiVars, deleteVars
<1>18. CASE FinalizeLocalBackup
  BY <1>18 DEF FinalizeLocalBackup, RollBack, WorkerTo, Raise, TypeInv, TypeOK, WorkerDeletes,
     WorkerPcs, RunStates, hostVars, apiVars, deleteVars
<1>19. ASSUME NEW r \in Runs, FinalizationInterrupted(r) PROVE TypeInv'
  BY <1>19 DEF FinalizationInterrupted, Raise, TypeInv, TypeOK, WorkerDeletes, WorkerPcs,
     runVars, storeVars, hostVars, apiVars, deleteVars
<1>20. CASE EnforceFullRetention
  <2> wfulls' \subseteq Runs /\ wchain' \subseteq Runs
    BY <1>20, SurplusType, PickChainType DEF EnforceFullRetention, TypeInv, TypeOK
  <2> QED
    BY <1>20 DEF EnforceFullRetention, WorkerTo, TypeInv, TypeOK, WorkerDeletes, WorkerPcs,
       runVars, storeVars, hostVars, apiVars, deleteVars
<1>21. CASE RetainNext
  <2> wfulls' \subseteq Runs /\ wchain' \subseteq Runs
    BY <1>21, PickChainType DEF RetainNext, TypeInv, TypeOK
  <2> QED
    BY <1>21 DEF RetainNext, ChainDeleted, WorkerTo, TypeInv, TypeOK, WorkerDeletes, WorkerPcs,
       runVars, storeVars, hostVars, apiVars, deleteVars
<1>22. CASE RecoverRuns
  BY <1>22 DEF RecoverRuns, Uncertain, WorkerTo, TypeInv, TypeOK, WorkerDeletes, WorkerPcs,
     RunStates, storeVars, hostVars, apiVars, deleteVars
<1>23. CASE DeleteChain
  BY <1>23 DEF DeleteChain, StartDelete, Deletable, Raise, TypeInv, TypeOK, WorkerDeletes,
     WorkerPcs, Threads, runVars, storeVars, hostVars, apiVars, deleteVars
<1>24. ASSUME NEW r \in Runs, RestorePointDelete(r) PROVE TypeInv'
  BY <1>24 DEF RestorePointDelete, StartDelete, TypeInv, TypeOK, WorkerDeletes, Threads,
     runVars, storeVars, hostVars, workerVars, apiVars
<1>25. ASSUME NEW t \in Threads, RemoveFiles(t) PROVE TypeInv'
  BY <1>25 DEF RemoveFiles, RmtreeError, DeleteFails, EndDelete, Raise, TypeInv, TypeOK,
     WorkerDeletes, WorkerPcs, FileState, Threads, runVars, hostVars, workerVars, apiVars
<1>26. ASSUME NEW t \in Threads, RemoveRow(t) PROVE TypeInv'
  BY <1>26 DEF RemoveRow, DeleteFails, EndDelete, Raise, TypeInv, TypeOK, WorkerDeletes,
     WorkerPcs, Threads, runVars, hostVars, workerVars, apiVars
<1>27. ASSUME NEW r \in Runs, BackupEnds(r) PROVE TypeInv'
  BY <1>27 DEF BackupEnds, VM, TypeInv, TypeOK, WorkerDeletes, runVars, storeVars, workerVars,
     apiVars, deleteVars
<1>28. CASE Crash
  BY <1>28 DEF Crash, TypeInv, TypeOK, WorkerDeletes, WorkerPcs, Threads, runVars, storeVars,
     hostVars
<1>29. CASE IdleTick
  BY <1>29, <1>s DEF IdleTick
<1> QED
  BY <1>s, <1>1, <1>2, <1>3, <1>4, <1>5, <1>6, <1>7, <1>8, <1>9, <1>10, <1>11, <1>12, <1>13,
     <1>14, <1>15, <1>16, <1>17, <1>18, <1>19, <1>20, <1>21, <1>22, <1>23, <1>24, <1>25, <1>26,
     <1>27, <1>28, <1>29 DEF Next, Worker, Api, AdvanceRun, ContinueRun, Threads

LEMMA TypeInvariant == Spec => []TypeInv
BY TypeInit, TypeStep, PTL DEF Spec

\* Every variable keeps its type, and both threads hold a run or a restore
\* point exactly while they work on one.
THEOREM TypeCorrect == Spec => []TypeOK
BY TypeInvariant, PTL DEF TypeInv

(***************************************************************************)
(* The inductive invariant behind the agreement of job runs, bundles,      *)
(* backup jobs and catalog.  No clause of it is a guard of the code: the   *)
(* code never reads a run's state again after advance_run has dispatched   *)
(* on it, nor the disk before it writes the catalog.                       *)
(***************************************************************************)
Terminal == {"SUCCESS", "FAILED"}

\* The state a run has while a thread works on it.
WorkerRunState ==
    /\ wpc = "schedule" => wrun \notin Manual /\ state[wrun] = "NONE"
    /\ wpc \in {"capacity", "reclaim", "stage", "request", "begin", "started", "running"}
         => state[wrun] = "PREPARING"
    /\ wpc = "finalizing" => state[wrun] = "VERIFYING"
    /\ wpc \in {"publish", "finalize"} => state[wrun] = "FINALIZING"
    /\ wpc \in {"retention", "retain"} => state[wrun] = "SUCCESS"
    /\ wpc = "fail" => state[wrun] # "NONE"

ApiRunState == apc = "create" => arun \in Manual /\ state[arun] = "NONE"

\* A bundle is published by a run that finalizes, a restore point by one that ended.
PublishedLate == \A r \in Runs : files[r] \in Published => state[r] \in {"FINALIZING"} \cup Terminal
PointsEnded   == \A r \in points : state[r] \in Terminal
BundleFirst   == wpc = "finalize" => files[wrun] = "FINAL"

\* What a deletion works on stays a published, ended run, whose files are gone
\* once the deletion has come to the catalog.
DeletesPublished ==
    \A t \in Threads : dstep[t] # "none" =>
        /\ state[dpoint[t]] \in Terminal
        /\ files[dpoint[t]] \in Published
        /\ dstep[t] = "catalog" => files[dpoint[t]] = "REMOVED"

\* From VERIFYING on, libvirt has ended the run's backup job.
VerifiedQuiet ==
    \A r \in Runs : state[r] \in {"VERIFYING", "FINALIZING", "SUCCESS"} => backup[r] # "ACTIVE"

\* A run gets past PREPARING only with its start recorded as RUNNING.
StartRecorded ==
    /\ \A r \in Runs : state[r] \in {"BACKING_UP", "VERIFYING", "FINALIZING", "SUCCESS"}
                         => phase[r] = "RUNNING"
    /\ wpc = "running" => phase[wrun] = "RUNNING"

RunInv == WorkerRunState /\ ApiRunState
StoreInv == PublishedLate /\ PointsEnded /\ BundleFirst /\ DeletesPublished /\ CatalogMatchesDisk
StartInv == VerifiedQuiet /\ PublishedDisksQuiet /\ StartRecorded /\ OrphanBundleFlagged

IInv == TypeInv /\ RunInv /\ StoreInv /\ StartInv

\* A run is in the state that the thread working on it left it in: the other
\* thread and libvirt never move it.
LEMMA RunStep == TypeInv /\ RunInv /\ [Next]_vars => RunInv'
<1> SUFFICES ASSUME TypeInv, RunInv, [Next]_vars PROVE RunInv'
  OBVIOUS
<1> USE ConstantsAssumption DEF TypeInv, TypeOK, WorkerDeletes, RunInv, WorkerRunState,
       ApiRunState, runVars, storeVars, hostVars, workerVars, apiVars, deleteVars
<1>s. CASE UNCHANGED vars
  BY <1>s DEF vars
<1>1. ASSUME NEW r \in Runs, CreateManualRun(r) PROVE RunInv'
  BY <1>1 DEF CreateManualRun
<1>2. CASE CreateRun
  BY <1>2 DEF CreateRun, Insert
<1>3. ASSUME NEW r \in Runs, ScheduleDueJob(r) PROVE RunInv'
  BY <1>3 DEF ScheduleDueJob
<1>4. CASE ScheduleInsert
  BY <1>4 DEF ScheduleInsert, Insert, WorkerTo
<1>5. ASSUME NEW r \in Runs, AdoptRun(r) PROVE RunInv'
  BY <1>5 DEF AdoptRun
<1>6. ASSUME NEW r \in Runs, PrepareAndStart(r) PROVE RunInv'
  BY <1>6 DEF PrepareAndStart, Raise
<1>7. CASE ReclaimForSpace
  BY <1>7 DEF ReclaimForSpace, WorkerTo, Raise
<1>8. CASE ReclaimNext
  BY <1>8 DEF ReclaimNext, WorkerTo, Raise
<1>9. CASE PrepareNewRun
  BY <1>9 DEF PrepareNewRun, WorkerTo, Raise
<1>10. CASE RequestStart
  BY <1>10 DEF RequestStart, WorkerTo
<1>11. CASE BeginBackup
  BY <1>11 DEF BeginBackup, WorkerTo, Raise
<1>12. CASE MarkRunning
  BY <1>12 DEF MarkRunning, WorkerTo
<1>13. CASE EnterBackingUp
  BY <1>13 DEF EnterBackingUp, WorkerTo
<1>14. ASSUME NEW r \in Runs, Poll(r) PROVE RunInv'
  BY <1>14 DEF Poll, BackupCompleted, Raise
<1>15. ASSUME NEW r \in Runs, VerifyAndPublish(r) PROVE RunInv'
  BY <1>15 DEF VerifyAndPublish, Raise
<1>16. CASE EnterFinalizing
  BY <1>16 DEF EnterFinalizing, WorkerTo
<1>17. CASE PublishBundle
  BY <1>17 DEF PublishBundle, WorkerTo, Raise
<1>18. CASE FinalizeLocalBackup
  BY <1>18 DEF FinalizeLocalBackup, RollBack, WorkerTo, Raise
<1>19. ASSUME NEW r \in Runs, FinalizationInterrupted(r) PROVE RunInv'
  BY <1>19 DEF FinalizationInterrupted, Raise
<1>20. CASE EnforceFullRetention
  BY <1>20 DEF EnforceFullRetention, WorkerTo
<1>21. CASE RetainNext
  BY <1>21 DEF RetainNext, WorkerTo
<1>22. CASE RecoverRuns
  BY <1>22 DEF RecoverRuns, Uncertain, WorkerTo
<1>23. CASE DeleteChain
  BY <1>23 DEF DeleteChain, Deletable, StartDelete, Raise
<1>24. ASSUME NEW r \in Runs, RestorePointDelete(r) PROVE RunInv'
  BY <1>24 DEF RestorePointDelete, Deletable, StartDelete
<1>25. ASSUME NEW t \in Threads, RemoveFiles(t) PROVE RunInv'
  BY <1>25 DEF RemoveFiles, RmtreeError, DeleteFails, EndDelete, Raise
<1>26. ASSUME NEW t \in Threads, RemoveRow(t) PROVE RunInv'
  BY <1>26 DEF RemoveRow, DeleteFails, EndDelete, Raise
<1>27. ASSUME NEW r \in Runs, BackupEnds(r) PROVE RunInv'
  BY <1>27 DEF BackupEnds
<1>28. CASE Crash
  BY <1>28 DEF Crash
<1>29. CASE IdleTick
  BY <1>29, <1>s DEF IdleTick
<1> QED
  BY <1>s, <1>1, <1>2, <1>3, <1>4, <1>5, <1>6, <1>7, <1>8, <1>9, <1>10, <1>11, <1>12, <1>13,
     <1>14, <1>15, <1>16, <1>17, <1>18, <1>19, <1>20, <1>21, <1>22, <1>23, <1>24, <1>25, <1>26,
     <1>27, <1>28, <1>29 DEF Next, Worker, Api, AdvanceRun, ContinueRun, Threads

\* Bundles and catalog agree: files are written by a run that has no point yet
\* and deleted before their row.
LEMMA StoreStep == TypeInv /\ RunInv /\ StoreInv /\ [Next]_vars => StoreInv'
<1> SUFFICES ASSUME TypeInv, RunInv, StoreInv, [Next]_vars PROVE StoreInv'
  OBVIOUS
<1> USE ConstantsAssumption DEF TypeInv, TypeOK, WorkerDeletes, RunInv, WorkerRunState,
       ApiRunState, StoreInv, PublishedLate, PointsEnded, BundleFirst, DeletesPublished,
       CatalogMatchesDisk, Published, Terminal, runVars, storeVars, hostVars, workerVars, apiVars, deleteVars
<1>s. CASE UNCHANGED vars
  BY <1>s DEF vars
<1>1. ASSUME NEW r \in Runs, CreateManualRun(r) PROVE StoreInv'
  BY <1>1 DEF CreateManualRun
<1>2. CASE CreateRun
  BY <1>2 DEF CreateRun, Insert
<1>3. ASSUME NEW r \in Runs, ScheduleDueJob(r) PROVE StoreInv'
  BY <1>3 DEF ScheduleDueJob
<1>4. CASE ScheduleInsert
  BY <1>4 DEF ScheduleInsert, Insert, WorkerTo
<1>5. ASSUME NEW r \in Runs, AdoptRun(r) PROVE StoreInv'
  BY <1>5 DEF AdoptRun
<1>6. ASSUME NEW r \in Runs, PrepareAndStart(r) PROVE StoreInv'
  BY <1>6 DEF PrepareAndStart, Raise
<1>7. CASE ReclaimForSpace
  BY <1>7 DEF ReclaimForSpace, WorkerTo, Raise
<1>8. CASE ReclaimNext
  BY <1>8 DEF ReclaimNext, WorkerTo, Raise
<1>9. CASE PrepareNewRun
  BY <1>9 DEF PrepareNewRun, WorkerTo, Raise
<1>10. CASE RequestStart
  BY <1>10 DEF RequestStart, WorkerTo
<1>11. CASE BeginBackup
  BY <1>11 DEF BeginBackup, WorkerTo, Raise
<1>12. CASE MarkRunning
  BY <1>12 DEF MarkRunning, WorkerTo
<1>13. CASE EnterBackingUp
  BY <1>13 DEF EnterBackingUp, WorkerTo
<1>14. ASSUME NEW r \in Runs, Poll(r) PROVE StoreInv'
  BY <1>14 DEF Poll, BackupCompleted, Raise
<1>15. ASSUME NEW r \in Runs, VerifyAndPublish(r) PROVE StoreInv'
  BY <1>15 DEF VerifyAndPublish, Raise
<1>16. CASE EnterFinalizing
  BY <1>16 DEF EnterFinalizing, WorkerTo
<1>17. CASE PublishBundle
  BY <1>17 DEF PublishBundle, WorkerTo, Raise
<1>18. CASE FinalizeLocalBackup
  BY <1>18 DEF FinalizeLocalBackup, RollBack, WorkerTo, Raise
<1>19. ASSUME NEW r \in Runs, FinalizationInterrupted(r) PROVE StoreInv'
  BY <1>19 DEF FinalizationInterrupted, Raise
<1>20. CASE EnforceFullRetention
  BY <1>20 DEF EnforceFullRetention, WorkerTo
<1>21. CASE RetainNext
  BY <1>21 DEF RetainNext, WorkerTo
<1>22. CASE RecoverRuns
  BY <1>22 DEF RecoverRuns, Uncertain, WorkerTo
<1>23. CASE DeleteChain
  BY <1>23 DEF DeleteChain, Deletable, StartDelete, Raise
<1>24. ASSUME NEW r \in Runs, RestorePointDelete(r) PROVE StoreInv'
  BY <1>24 DEF RestorePointDelete, Deletable, StartDelete
<1>25. ASSUME NEW t \in Threads, RemoveFiles(t) PROVE StoreInv'
  BY <1>25 DEF RemoveFiles, RmtreeError, DeleteFails, EndDelete, Raise
<1>26. ASSUME NEW t \in Threads, RemoveRow(t) PROVE StoreInv'
  BY <1>26 DEF RemoveRow, DeleteFails, EndDelete, Raise
<1>27. ASSUME NEW r \in Runs, BackupEnds(r) PROVE StoreInv'
  BY <1>27 DEF BackupEnds
<1>28. CASE Crash
  BY <1>28 DEF Crash
<1>29. CASE IdleTick
  BY <1>29, <1>s DEF IdleTick
<1> QED
  BY <1>s, <1>1, <1>2, <1>3, <1>4, <1>5, <1>6, <1>7, <1>8, <1>9, <1>10, <1>11, <1>12, <1>13,
     <1>14, <1>15, <1>16, <1>17, <1>18, <1>19, <1>20, <1>21, <1>22, <1>23, <1>24, <1>25, <1>26,
     <1>27, <1>28, <1>29 DEF Next, Worker, Api, AdvanceRun, ContinueRun, Threads

\* No published bundle is written to, and its run's start is on record.
LEMMA StartStep == TypeInv /\ RunInv /\ StoreInv /\ StartInv /\ [Next]_vars => StartInv'
<1> SUFFICES ASSUME TypeInv, RunInv, StoreInv, StartInv, [Next]_vars PROVE StartInv'
  OBVIOUS
<1> USE ConstantsAssumption DEF TypeInv, TypeOK, WorkerDeletes, RunInv, WorkerRunState,
       ApiRunState, StoreInv, PublishedLate, PointsEnded, BundleFirst, DeletesPublished,
       StartInv, VerifiedQuiet, PublishedDisksQuiet, StartRecorded, OrphanBundleFlagged,
       Published, Terminal, runVars, storeVars, hostVars, workerVars, apiVars, deleteVars
<1>s. CASE UNCHANGED vars
  BY <1>s DEF vars
<1>1. ASSUME NEW r \in Runs, CreateManualRun(r) PROVE StartInv'
  BY <1>1 DEF CreateManualRun
<1>2. CASE CreateRun
  BY <1>2 DEF CreateRun, Insert
<1>3. ASSUME NEW r \in Runs, ScheduleDueJob(r) PROVE StartInv'
  BY <1>3 DEF ScheduleDueJob
<1>4. CASE ScheduleInsert
  BY <1>4 DEF ScheduleInsert, Insert, WorkerTo
<1>5. ASSUME NEW r \in Runs, AdoptRun(r) PROVE StartInv'
  BY <1>5 DEF AdoptRun
<1>6. ASSUME NEW r \in Runs, PrepareAndStart(r) PROVE StartInv'
  BY <1>6 DEF PrepareAndStart, Raise
<1>7. CASE ReclaimForSpace
  BY <1>7 DEF ReclaimForSpace, WorkerTo, Raise
<1>8. CASE ReclaimNext
  BY <1>8 DEF ReclaimNext, WorkerTo, Raise
<1>9. CASE PrepareNewRun
  BY <1>9 DEF PrepareNewRun, WorkerTo, Raise
<1>10. CASE RequestStart
  BY <1>10 DEF RequestStart, WorkerTo
<1>11. CASE BeginBackup
  BY <1>11 DEF BeginBackup, WorkerTo, Raise
<1>12. CASE MarkRunning
  BY <1>12 DEF MarkRunning, WorkerTo
<1>13. CASE EnterBackingUp
  BY <1>13 DEF EnterBackingUp, WorkerTo
<1>14. ASSUME NEW r \in Runs, Poll(r) PROVE StartInv'
  BY <1>14 DEF Poll, BackupCompleted, Raise, DomainBusy
<1>15. ASSUME NEW r \in Runs, VerifyAndPublish(r) PROVE StartInv'
  BY <1>15 DEF VerifyAndPublish, Raise
<1>16. CASE EnterFinalizing
  BY <1>16 DEF EnterFinalizing, WorkerTo
<1>17. CASE PublishBundle
  BY <1>17 DEF PublishBundle, WorkerTo, Raise
<1>18. CASE FinalizeLocalBackup
  BY <1>18 DEF FinalizeLocalBackup, RollBack, WorkerTo, Raise
<1>19. ASSUME NEW r \in Runs, FinalizationInterrupted(r) PROVE StartInv'
  BY <1>19 DEF FinalizationInterrupted, Raise
<1>20. CASE EnforceFullRetention
  BY <1>20 DEF EnforceFullRetention, WorkerTo
<1>21. CASE RetainNext
  BY <1>21 DEF RetainNext, WorkerTo
<1>22. CASE RecoverRuns
  <2>1. VerifiedQuiet' /\ PublishedDisksQuiet' /\ StartRecorded'
    BY <1>22 DEF RecoverRuns, WorkerTo
  <2>2. ASSUME NEW r \in Runs, files'[r] = "FINAL", r \notin points', state'[r] = "FAILED"
        PROVE  recovery'[r]
    <3>1. CASE r # wrun
      BY <1>22, <2>2, <3>1 DEF RecoverRuns
    <3>2. CASE r = wrun
      \* The bundle was published by this run, whose start is on record.
      <4>1. recovery'[r] = (recovery[r] \/ Uncertain(r))
        BY <1>22, <3>2 DEF RecoverRuns
      <4>2. state[r] = "FINALIZING" \/ state[r] = "FAILED"
        BY <1>22, <2>2, <3>2 DEF RecoverRuns, CatalogMatchesDisk
      <4>3. state[r] = "FINALIZING" => Uncertain(r)
        BY DEF Uncertain
      <4>4. state[r] = "FAILED" => recovery[r]
        BY <1>22, <2>2 DEF RecoverRuns
      <4> QED  BY <4>1, <4>2, <4>3, <4>4
    <3> QED  BY <3>1, <3>2
  <2> QED  BY <2>1, <2>2
<1>23. CASE DeleteChain
  BY <1>23 DEF DeleteChain, Deletable, StartDelete, Raise
<1>24. ASSUME NEW r \in Runs, RestorePointDelete(r) PROVE StartInv'
  BY <1>24 DEF RestorePointDelete, Deletable, StartDelete
<1>25. ASSUME NEW t \in Threads, RemoveFiles(t) PROVE StartInv'
  BY <1>25 DEF RemoveFiles, RmtreeError, DeleteFails, EndDelete, Raise
<1>26. ASSUME NEW t \in Threads, RemoveRow(t) PROVE StartInv'
  BY <1>26 DEF RemoveRow, DeleteFails, EndDelete, Raise
<1>27. ASSUME NEW r \in Runs, BackupEnds(r) PROVE StartInv'
  BY <1>27 DEF BackupEnds
<1>28. CASE Crash
  BY <1>28 DEF Crash
<1>29. CASE IdleTick
  BY <1>29, <1>s DEF IdleTick
<1> QED
  BY <1>s, <1>1, <1>2, <1>3, <1>4, <1>5, <1>6, <1>7, <1>8, <1>9, <1>10, <1>11, <1>12, <1>13,
     <1>14, <1>15, <1>16, <1>17, <1>18, <1>19, <1>20, <1>21, <1>22, <1>23, <1>24, <1>25, <1>26,
     <1>27, <1>28, <1>29 DEF Next, Worker, Api, AdvanceRun, ContinueRun, Threads

LEMMA InductiveInit == Init => IInv
<1> SUFFICES ASSUME Init PROVE IInv
  OBVIOUS
<1>1. TypeInv  BY TypeInit
<1>2. RunInv
  BY DEF Init, RunInv, WorkerRunState, ApiRunState
<1>3. StoreInv
  BY DEF Init, StoreInv, PublishedLate, PointsEnded, BundleFirst, DeletesPublished,
     CatalogMatchesDisk, Published
<1>4. StartInv
  BY DEF Init, StartInv, VerifiedQuiet, PublishedDisksQuiet, StartRecorded,
     OrphanBundleFlagged
<1> QED  BY <1>1, <1>2, <1>3, <1>4 DEF IInv

LEMMA InductiveInvariant == Spec => []IInv
<1>1. IInv /\ [Next]_vars => IInv'
  BY TypeStep, RunStep, StoreStep, StartStep DEF IInv
<1> QED  BY InductiveInit, <1>1, PTL DEF Spec

\* Whatever deletions, crashes and errors interleave, a restore point in the
\* catalog had its bundle renamed into place, and a succeeded run whose point
\* is gone has left no files (publish and delete order of the executor).
THEOREM CatalogMatchesDiskAlways == Spec => []CatalogMatchesDisk
<1>1. IInv => CatalogMatchesDisk  BY DEF IInv, StoreInv
<1> QED  BY InductiveInvariant, <1>1, PTL

\* No bundle is published while libvirt writes its disks, also when starts are
\* lost or runs of one VM overlap (_poll).
THEOREM PublishedDisksQuietAlways == Spec => []PublishedDisksQuiet
<1>1. IInv => PublishedDisksQuiet  BY DEF IInv, StartInv
<1> QED  BY InductiveInvariant, <1>1, PTL

\* A published bundle that lost its run before the catalog transaction is
\* flagged for recovery (recover_runs).
THEOREM OrphanBundleFlaggedAlways == Spec => []OrphanBundleFlagged
<1>1. IInv => OrphanBundleFlagged  BY DEF IInv, StartInv
<1> QED  BY InductiveInvariant, <1>1, PTL

(***************************************************************************)
(* Refinement: runs and catalog implement the restore-point store.         *)
(***************************************************************************)
\* A step that moves no run to another outcome and leaves the catalog alone.
LEMMA StutterStep ==
    ASSUME points' = points, \A r \in Runs : Outcome(r)' = Outcome(r)
    PROVE  UNCHANGED Store!abstractVars
BY DEF Store!abstractVars

\* A step that gives one run another outcome.
LEMMA OutcomeStep ==
    ASSUME NEW q \in Runs, NEW o, Outcome(q)' = o,
           \A r \in Runs \ {q} : Outcome(r)' = Outcome(r)
    PROVE  [r \in Runs |-> Outcome(r)]' = [[r \in Runs |-> Outcome(r)] EXCEPT ![q] = o]
OBVIOUS

\* Every step of the pipeline is a step of the store or leaves it unchanged.
LEMMA StoreRefined == IInv /\ [Next]_vars => [Store!Next]_Store!abstractVars
<1> SUFFICES ASSUME IInv, [Next]_vars PROVE [Store!Next]_Store!abstractVars
  OBVIOUS
<1> DEFINE Stutter == points' = points /\ \A r \in Runs : Outcome(r)' = Outcome(r)
<1> USE DEF IInv, TypeInv, TypeOK, RunInv, WorkerRunState, ApiRunState, runVars, storeVars,
       hostVars, workerVars, apiVars, deleteVars
<1>s. CASE UNCHANGED vars
  BY <1>s, StutterStep DEF vars, Outcome
<1>1. ASSUME NEW r \in Runs, CreateManualRun(r) PROVE Stutter
  BY <1>1 DEF CreateManualRun, Outcome
<1>2. CASE CreateRun
  <2> PICK q \in Runs : q = arun  BY <1>2 DEF CreateRun
  <2>1. Outcome(q) = "NONE" /\ Outcome(q)' = "ACTIVE"
    BY <1>2 DEF CreateRun, Insert, Outcome
  <2>2. points' = points /\ \A r \in Runs \ {q} : Outcome(r)' = Outcome(r)
    BY <1>2 DEF CreateRun, Insert, Outcome
  <2>3. Store!Accept(q)
    BY <2>1, <2>2, OutcomeStep DEF Store!Accept
  <2> QED  BY <2>3 DEF Store!Next
<1>3. ASSUME NEW r \in Runs, ScheduleDueJob(r) PROVE Stutter
  BY <1>3 DEF ScheduleDueJob, Outcome
<1>4. CASE ScheduleInsert
  <2> PICK q \in Runs : q = wrun  BY <1>4 DEF ScheduleInsert
  <2>1. Outcome(q) = "NONE" /\ Outcome(q)' = "ACTIVE"
    BY <1>4 DEF ScheduleInsert, Insert, Outcome
  <2>2. points' = points /\ \A r \in Runs \ {q} : Outcome(r)' = Outcome(r)
    BY <1>4 DEF ScheduleInsert, Insert, Outcome
  <2>3. Store!Accept(q)
    BY <2>1, <2>2, OutcomeStep DEF Store!Accept
  <2> QED  BY <2>3 DEF Store!Next
<1>5. ASSUME NEW r \in Runs, AdoptRun(r) PROVE Stutter
  BY <1>5 DEF AdoptRun, Outcome
<1>6. ASSUME NEW r \in Runs, PrepareAndStart(r) PROVE Stutter
  BY <1>6 DEF PrepareAndStart, Outcome
<1>7. ASSUME ReclaimForSpace PROVE Stutter
  BY <1>7 DEF ReclaimForSpace, Outcome
<1>8. ASSUME ReclaimNext PROVE Stutter
  BY <1>8 DEF ReclaimNext, Outcome
<1>9. ASSUME PrepareNewRun PROVE Stutter
  BY <1>9 DEF PrepareNewRun, Outcome
<1>10. ASSUME RequestStart PROVE Stutter
  BY <1>10 DEF RequestStart, Outcome
<1>11. ASSUME BeginBackup PROVE Stutter
  BY <1>11 DEF BeginBackup, Outcome
<1>12. ASSUME MarkRunning PROVE Stutter
  BY <1>12 DEF MarkRunning, Outcome
<1>13. ASSUME EnterBackingUp PROVE Stutter
  BY <1>13 DEF EnterBackingUp, Outcome
<1>14. ASSUME NEW r \in Runs, Poll(r) PROVE Stutter
  BY <1>14 DEF Poll, Outcome
<1>15. ASSUME NEW r \in Runs, VerifyAndPublish(r) PROVE Stutter
  BY <1>15 DEF VerifyAndPublish, Outcome
<1>16. ASSUME EnterFinalizing PROVE Stutter
  BY <1>16 DEF EnterFinalizing, Outcome
<1>17. ASSUME PublishBundle PROVE Stutter
  BY <1>17 DEF PublishBundle, Outcome
<1>18. CASE FinalizeLocalBackup
  <2> PICK q \in Runs : q = wrun  BY <1>18 DEF FinalizeLocalBackup
  <2>1. CASE state' = state /\ points' = points
    BY <2>1, StutterStep DEF Outcome
  <2>2. CASE state[q] = "FINALIZING" /\ state' = [state EXCEPT ![q] = "SUCCESS"]
             /\ points' = points \cup {q}
    <3>1. Outcome(q) = "ACTIVE" /\ Outcome(q)' = "SUCCESS"
      BY <2>2 DEF Outcome
    <3>2. \A r \in Runs \ {q} : Outcome(r)' = Outcome(r)
      BY <2>2 DEF Outcome
    <3>3. Store!Publish(q)
      BY <2>2, <3>1, <3>2, OutcomeStep DEF Store!Publish
    <3> QED  BY <3>3 DEF Store!Next
  <2> QED  BY <1>18, <2>1, <2>2 DEF FinalizeLocalBackup, RollBack
<1>19. ASSUME NEW r \in Runs, FinalizationInterrupted(r) PROVE Stutter
  BY <1>19 DEF FinalizationInterrupted, Outcome
<1>20. ASSUME EnforceFullRetention PROVE Stutter
  BY <1>20 DEF EnforceFullRetention, Outcome
<1>21. ASSUME RetainNext PROVE Stutter
  BY <1>21 DEF RetainNext, Outcome
<1>22. CASE RecoverRuns
  <2> PICK q \in Runs : q = wrun  BY <1>22 DEF RecoverRuns
  <2>1. Outcome(q) # "NONE" /\ Outcome(q)' = "FAILED"
        /\ Outcome(q) \in {"ACTIVE", "SUCCESS", "FAILED"}
    BY <1>22 DEF RecoverRuns, Outcome
  <2>2. points' = points /\ \A r \in Runs \ {q} : Outcome(r)' = Outcome(r)
    BY <1>22 DEF RecoverRuns, Outcome
  <2>3. CASE Outcome(q) = "ACTIVE"
    <3>1. Store!Fail(q)  BY <2>1, <2>2, <2>3, OutcomeStep DEF Store!Fail
    <3> QED  BY <3>1 DEF Store!Next
  <2>4. CASE Outcome(q) = "SUCCESS"
    <3>1. Store!RetentionFailed(q)
      BY <2>1, <2>2, <2>4, OutcomeStep DEF Store!RetentionFailed
    <3> QED  BY <3>1 DEF Store!Next
  <2>5. CASE Outcome(q) = "FAILED"
    <3>1. \A r \in Runs : Outcome(r)' = Outcome(r)  BY <2>1, <2>2, <2>5
    <3> QED  BY <2>2, <3>1, StutterStep
  <2> QED  BY <2>1, <2>3, <2>4, <2>5
<1>23. ASSUME DeleteChain PROVE Stutter
  BY <1>23 DEF DeleteChain, Outcome
<1>24. ASSUME NEW r \in Runs, RestorePointDelete(r) PROVE Stutter
  BY <1>24 DEF RestorePointDelete, Outcome
<1>25. ASSUME NEW t \in Threads, RemoveFiles(t) PROVE Stutter
  BY <1>25 DEF RemoveFiles, Outcome
<1>26. ASSUME NEW t \in Threads, RemoveRow(t) PROVE [Store!Next]_Store!abstractVars
  <2>1. state' = state  BY <1>26 DEF RemoveRow
  <2>2. \A r \in Runs : Outcome(r)' = Outcome(r)  BY <2>1 DEF Outcome
  <2>3. [r \in Runs |-> Outcome(r)]' = [r \in Runs |-> Outcome(r)]  BY <2>2
  <2>4. CASE dpoint[t] \in points
    <3>1. Store!Remove(dpoint[t])
      BY <1>26, <2>3, <2>4 DEF RemoveRow, Store!Remove
    <3> QED  BY <2>4, <3>1 DEF Store!Next
  <2>5. CASE dpoint[t] \notin points
    BY <1>26, <2>2, <2>5, StutterStep DEF RemoveRow
  <2> QED  BY <2>4, <2>5
<1>27. ASSUME NEW r \in Runs, BackupEnds(r) PROVE Stutter
  BY <1>27 DEF BackupEnds, Outcome
<1>28. ASSUME Crash PROVE Stutter
  BY <1>28 DEF Crash, Outcome
<1>29. ASSUME IdleTick PROVE Stutter
  BY <1>29 DEF IdleTick, Outcome, vars
<1>30. CASE Stutter  BY <1>30, StutterStep
<1> QED
  BY <1>s, <1>1, <1>2, <1>3, <1>4, <1>5, <1>6, <1>7, <1>8, <1>9, <1>10, <1>11, <1>12, <1>13,
     <1>14, <1>15, <1>16, <1>17, <1>18, <1>19, <1>20, <1>21, <1>22, <1>23, <1>24, <1>25, <1>26,
     <1>27, <1>28, <1>29, <1>30 DEF Next, Worker, Api, AdvanceRun, ContinueRun, Threads

\* Runs and restore points behave like the abstract store: a point appears only
\* in the step in which its run succeeds, and never comes back once removed.
THEOREM Refinement == Spec => ImplementsStore
<1>1. Init => Store!Init
  BY DEF Init, Store!Init, Outcome
<1> QED
  BY InductiveInvariant, StoreRefined, <1>1, PTL DEF Spec, ImplementsStore, Store!Spec

-----------------------------------------------------------------------------
(***************************************************************************)
(* The full/incremental chains.  The kind, parent, chain and sequence of a *)
(* backup are decided long before its restore point is published, from a   *)
(* sequence that the catalog computes by walking parent links.  They are   *)
(* right although the chain may lose members in the meantime, because what *)
(* is published never changes and the walk agrees with the stored          *)
(* sequence.                                                               *)
(***************************************************************************)

(***************************************************************************)
(* The ancestry of a point as an operator of the catalog and the plans, so *)
(* that the catalogs before and after a step can be compared.              *)
(***************************************************************************)
ClosedUnderParent(S, pts, pl) ==
    \A x \in S \cap pts : pl[x].kind = "INCREMENTAL" => pl[x].parent \in S

AncestryIn(p, pts, pl) ==
    {a \in Runs : \A S \in SUBSET Runs : p \in S /\ ClosedUnderParent(S, pts, pl) => a \in S}

ParentsKnown(pts, pl) == \A x \in pts : pl[x].kind = "INCREMENTAL" => pl[x].parent \in Runs

LEMMA AncestryIsAncestryIn ==
    \A p \in Runs : /\ Ancestry(p) = AncestryIn(p, points, plan)
                    /\ Ancestry(p)' = AncestryIn(p, points', plan')
BY DEF Ancestry, AncestryIn, ClosedUnderParent

LEMMA AncestryLeast ==
    ASSUME NEW pts, NEW pl, NEW p \in Runs,
           NEW S \in SUBSET Runs, p \in S, ClosedUnderParent(S, pts, pl)
    PROVE  AncestryIn(p, pts, pl) \subseteq S
BY DEF AncestryIn

LEMMA AncestryClosed ==
    ASSUME NEW pts, NEW pl, NEW p \in Runs, ParentsKnown(pts, pl)
    PROVE  /\ p \in AncestryIn(p, pts, pl)
           /\ AncestryIn(p, pts, pl) \subseteq Runs
           /\ ClosedUnderParent(AncestryIn(p, pts, pl), pts, pl)
BY DEF AncestryIn, ClosedUnderParent, ParentsKnown

\* A FULL is its own ancestry; an incremental adds itself to its parent's.
LEMMA AncestryOfFull ==
    ASSUME NEW pts, NEW pl, NEW p \in Runs, ParentsKnown(pts, pl), pl[p].kind = "FULL"
    PROVE  AncestryIn(p, pts, pl) = {p}
<1>1. ClosedUnderParent({p}, pts, pl)  BY DEF ClosedUnderParent
<1> QED  BY <1>1, AncestryLeast, AncestryClosed

LEMMA AncestryOfIncremental ==
    ASSUME NEW pts, NEW pl, NEW p \in Runs, ParentsKnown(pts, pl),
           p \in pts, pl[p].kind = "INCREMENTAL"
    PROVE  AncestryIn(p, pts, pl) = {p} \cup AncestryIn(pl[p].parent, pts, pl)
<1> DEFINE q == pl[p].parent
           A == AncestryIn(p, pts, pl)
           B == AncestryIn(q, pts, pl)
<1>1. q \in Runs  BY DEF ParentsKnown
<1>2. q \in B /\ B \subseteq Runs /\ ClosedUnderParent(B, pts, pl)  BY <1>1, AncestryClosed
<1>3. p \in A /\ A \subseteq Runs /\ ClosedUnderParent(A, pts, pl)  BY AncestryClosed
<1>4. ClosedUnderParent({p} \cup B, pts, pl)  BY <1>2 DEF ClosedUnderParent
<1>5. A \subseteq {p} \cup B
  <2> {p} \cup B \in SUBSET Runs /\ p \in {p} \cup B  BY <1>2
  <2> QED  BY <1>4, AncestryLeast
<1>6. B \subseteq A
  <2> q \in A  BY <1>3 DEF ClosedUnderParent
  <2> QED  BY <1>1, <1>3, AncestryLeast
<1> QED  BY <1>3, <1>5, <1>6

\* A new point that is nobody's parent changes no other ancestry, and is in none.
LEMMA AncestryAfterPublish ==
    ASSUME NEW pts \in SUBSET Runs, NEW pl, NEW r \in Runs, NEW p \in Runs, p # r,
           ParentsKnown(pts, pl),
           \A x \in pts : pl[x].kind = "INCREMENTAL" => pl[x].parent # r
    PROVE  /\ AncestryIn(p, pts \cup {r}, pl) = AncestryIn(p, pts, pl)
           /\ r \notin AncestryIn(p, pts, pl)
<1> DEFINE A == AncestryIn(p, pts, pl)
           B == AncestryIn(p, pts \cup {r}, pl)
<1>1. p \in A /\ A \subseteq Runs /\ ClosedUnderParent(A, pts, pl)  BY AncestryClosed
<1>2. ClosedUnderParent(A \ {r}, pts \cup {r}, pl)
  BY <1>1 DEF ClosedUnderParent
<1>3. B \subseteq A \ {r}  BY <1>1, <1>2, AncestryLeast
<1>4. \A S \in SUBSET Runs : ClosedUnderParent(S, pts \cup {r}, pl) => ClosedUnderParent(S, pts, pl)
  BY DEF ClosedUnderParent
<1>5. A \subseteq B  BY <1>4 DEF AncestryIn
<1> QED  BY <1>3, <1>5

\* A point whose whole lineage survives a deletion keeps its ancestry.
LEMMA AncestryAfterRemoval ==
    ASSUME NEW pts \in SUBSET Runs, NEW pl, NEW x, NEW p \in Runs,
           ParentsKnown(pts, pl), AncestryIn(p, pts \ {x}, pl) \subseteq pts \ {x}
    PROVE  AncestryIn(p, pts, pl) = AncestryIn(p, pts \ {x}, pl)
<1> DEFINE A == AncestryIn(p, pts, pl)
           B == AncestryIn(p, pts \ {x}, pl)
<1>1. ParentsKnown(pts \ {x}, pl)  BY DEF ParentsKnown
<1>2. p \in B /\ B \subseteq Runs /\ ClosedUnderParent(B, pts \ {x}, pl)  BY <1>1, AncestryClosed
<1>3. ClosedUnderParent(B, pts, pl)  BY <1>2 DEF ClosedUnderParent
<1>4. A \subseteq B  BY <1>2, <1>3, AncestryLeast
<1>5. \A S \in SUBSET Runs : ClosedUnderParent(S, pts, pl) => ClosedUnderParent(S, pts \ {x}, pl)
  BY DEF ClosedUnderParent
<1>6. B \subseteq A  BY <1>5 DEF AncestryIn
<1> QED  BY <1>4, <1>6

\* Plans of runs outside the catalog do not matter for those inside.
LEMMA AncestryAfterPlan ==
    ASSUME NEW pts \in SUBSET Runs, NEW pl, NEW pm, NEW p \in Runs,
           \A x \in pts : pm[x] = pl[x]
    PROVE  AncestryIn(p, pts, pm) = AncestryIn(p, pts, pl)
<1>1. \A S \in SUBSET Runs : ClosedUnderParent(S, pts, pm) <=> ClosedUnderParent(S, pts, pl)
  BY DEF ClosedUnderParent
<1> QED  BY <1>1 DEF AncestryIn

(***************************************************************************)
(* The inductive invariant.                                                *)
(***************************************************************************)

\* What a run with plan pl was told about its place in the chain is true of
\* its parent, which has ended.
PlanSound(pl, r) ==
    /\ pl.kind = "FULL" => pl.sequence = 0
    /\ pl.kind = "INCREMENTAL" =>
          /\ pl.parent \in Runs
          /\ state[pl.parent] \in Terminal
          /\ JobOf[pl.parent] = JobOf[r]
          /\ plan[pl.parent].kind # "NONE"
          /\ pl.chain = plan[pl.parent].chain
          /\ pl.sequence = plan[pl.parent].sequence + 1
          /\ pl.sequence <= MaxIncrementals

PlansSound == \A r \in Runs : PlanSound(plan[r], r)
WorkerPlanSound ==
    wpc \in {"capacity", "reclaim", "stage", "request"}
        => wplan.kind # "NONE" /\ PlanSound(wplan, wrun)

\* Past PREPARING, and already at the start request, the plan is on record.
PlanRecorded ==
    /\ \A r \in Runs : state[r] \in {"BACKING_UP", "VERIFYING", "FINALIZING", "SUCCESS"}
                         => plan[r].kind # "NONE"
    /\ wpc \in {"begin", "started", "running"} => plan[wrun].kind # "NONE"
    /\ \A p \in points : plan[p].kind # "NONE"

StampsPast == \A r \in Runs : stamp[r] <= clock

\* The walk over parent links agrees with the stored sequence.
DepthIsSequence ==
    \A p \in points : HasLineage(p) => Cardinality(Ancestry(p)) = plan[p].sequence + 1

ChainInv ==
    PlansSound /\ WorkerPlanSound /\ PlanRecorded /\ StampsPast /\ DepthIsSequence /\ ChainWellFormed

(***************************************************************************)
(* Steps.  A run that has ended stays ended, the catalog changes in three  *)
(* actions only.                                                           *)
(***************************************************************************)
LEMMA TerminalStays ==
    ASSUME TypeInv, RunInv, [Next]_vars
    PROVE  \A r \in Runs : state[r] \in Terminal => state'[r] \in Terminal
<1> DEFINE Stays == \A r \in Runs : state[r] \in Terminal => state'[r] \in Terminal
<1> USE ConstantsAssumption DEF TypeInv, TypeOK, RunInv, WorkerRunState, ApiRunState, Terminal,
        runVars, storeVars, hostVars, workerVars, apiVars, deleteVars
<1>s. CASE UNCHANGED vars
  BY <1>s DEF vars
<1>1. ASSUME NEW r \in Runs, CreateManualRun(r) PROVE Stays
  BY <1>1 DEF CreateManualRun
<1>2. ASSUME CreateRun PROVE Stays
  BY <1>2 DEF CreateRun, Insert
<1>3. ASSUME NEW r \in Runs, ScheduleDueJob(r) PROVE Stays
  BY <1>3 DEF ScheduleDueJob
<1>4. ASSUME ScheduleInsert PROVE Stays
  BY <1>4 DEF ScheduleInsert, Insert, WorkerTo
<1>5. ASSUME NEW r \in Runs, AdoptRun(r) PROVE Stays
  BY <1>5 DEF AdoptRun
<1>6. ASSUME NEW r \in Runs, PrepareAndStart(r) PROVE Stays
  BY <1>6 DEF PrepareAndStart, Raise
<1>7. ASSUME ReclaimForSpace PROVE Stays
  BY <1>7 DEF ReclaimForSpace, WorkerTo, Raise
<1>8. ASSUME ReclaimNext PROVE Stays
  BY <1>8 DEF ReclaimNext, WorkerTo, Raise
<1>9. ASSUME PrepareNewRun PROVE Stays
  BY <1>9 DEF PrepareNewRun, WorkerTo, Raise
<1>10. ASSUME RequestStart PROVE Stays
  BY <1>10 DEF RequestStart, WorkerTo
<1>11. ASSUME BeginBackup PROVE Stays
  BY <1>11 DEF BeginBackup, WorkerTo, Raise
<1>12. ASSUME MarkRunning PROVE Stays
  BY <1>12 DEF MarkRunning, WorkerTo
<1>13. ASSUME EnterBackingUp PROVE Stays
  BY <1>13 DEF EnterBackingUp, WorkerTo
<1>14. ASSUME NEW r \in Runs, Poll(r) PROVE Stays
  BY <1>14 DEF Poll, BackupCompleted, Raise
<1>15. ASSUME NEW r \in Runs, VerifyAndPublish(r) PROVE Stays
  BY <1>15 DEF VerifyAndPublish, Raise
<1>16. ASSUME EnterFinalizing PROVE Stays
  BY <1>16 DEF EnterFinalizing, WorkerTo
<1>17. ASSUME PublishBundle PROVE Stays
  BY <1>17 DEF PublishBundle, WorkerTo, Raise
<1>18. ASSUME FinalizeLocalBackup PROVE Stays
  BY <1>18 DEF FinalizeLocalBackup, RollBack, WorkerTo, Raise
<1>19. ASSUME NEW r \in Runs, FinalizationInterrupted(r) PROVE Stays
  BY <1>19 DEF FinalizationInterrupted, Raise
<1>20. ASSUME EnforceFullRetention PROVE Stays
  BY <1>20 DEF EnforceFullRetention, WorkerTo
<1>21. ASSUME RetainNext PROVE Stays
  BY <1>21 DEF RetainNext, WorkerTo
<1>22. ASSUME RecoverRuns PROVE Stays
  BY <1>22 DEF RecoverRuns, Uncertain, WorkerTo
<1>23. ASSUME DeleteChain PROVE Stays
  BY <1>23 DEF DeleteChain, Deletable, StartDelete, Raise
<1>24. ASSUME NEW r \in Runs, RestorePointDelete(r) PROVE Stays
  BY <1>24 DEF RestorePointDelete, Deletable, StartDelete
<1>25. ASSUME NEW t \in Threads, RemoveFiles(t) PROVE Stays
  BY <1>25 DEF RemoveFiles, RmtreeError, DeleteFails, EndDelete, Raise
<1>26. ASSUME NEW t \in Threads, RemoveRow(t) PROVE Stays
  BY <1>26 DEF RemoveRow, DeleteFails, EndDelete, Raise
<1>27. ASSUME NEW r \in Runs, BackupEnds(r) PROVE Stays
  BY <1>27 DEF BackupEnds
<1>28. ASSUME Crash PROVE Stays
  BY <1>28 DEF Crash
<1>29. ASSUME IdleTick PROVE Stays
  BY <1>29 DEF IdleTick, vars
<1> QED
  BY <1>s, <1>1, <1>2, <1>3, <1>4, <1>5, <1>6, <1>7, <1>8, <1>9, <1>10, <1>11, <1>12, <1>13,
     <1>14, <1>15, <1>16, <1>17, <1>18, <1>19, <1>20, <1>21, <1>22, <1>23, <1>24, <1>25, <1>26,
     <1>27, <1>28, <1>29 DEF Next, Worker, Api, AdvanceRun, ContinueRun, Threads

LEMMA CatalogFrame ==
    ASSUME [Next]_vars
    PROVE  \/ RequestStart \/ FinalizeLocalBackup \/ \E t \in Threads : RemoveRow(t)
           \/ UNCHANGED <<points, plan, stamp, clock>>
<1> DEFINE Kept == UNCHANGED <<points, plan, stamp, clock>>
<1> USE DEF runVars, storeVars, hostVars, workerVars, apiVars, deleteVars
<1>s. CASE UNCHANGED vars
  BY <1>s DEF vars
<1>1. ASSUME NEW r \in Runs, CreateManualRun(r) PROVE Kept
  BY <1>1 DEF CreateManualRun
<1>2. ASSUME CreateRun PROVE Kept
  BY <1>2 DEF CreateRun, Insert
<1>3. ASSUME NEW r \in Runs, ScheduleDueJob(r) PROVE Kept
  BY <1>3 DEF ScheduleDueJob
<1>4. ASSUME ScheduleInsert PROVE Kept
  BY <1>4 DEF ScheduleInsert, Insert, WorkerTo
<1>5. ASSUME NEW r \in Runs, AdoptRun(r) PROVE Kept
  BY <1>5 DEF AdoptRun
<1>6. ASSUME NEW r \in Runs, PrepareAndStart(r) PROVE Kept
  BY <1>6 DEF PrepareAndStart, Raise
<1>7. ASSUME ReclaimForSpace PROVE Kept
  BY <1>7 DEF ReclaimForSpace, WorkerTo, Raise
<1>8. ASSUME ReclaimNext PROVE Kept
  BY <1>8 DEF ReclaimNext, WorkerTo, Raise
<1>9. ASSUME PrepareNewRun PROVE Kept
  BY <1>9 DEF PrepareNewRun, WorkerTo, Raise
<1>10. ASSUME BeginBackup PROVE Kept
  BY <1>10 DEF BeginBackup, WorkerTo, Raise
<1>11. ASSUME MarkRunning PROVE Kept
  BY <1>11 DEF MarkRunning, WorkerTo
<1>12. ASSUME EnterBackingUp PROVE Kept
  BY <1>12 DEF EnterBackingUp, WorkerTo
<1>13. ASSUME NEW r \in Runs, Poll(r) PROVE Kept
  BY <1>13 DEF Poll, BackupCompleted, Raise
<1>14. ASSUME NEW r \in Runs, VerifyAndPublish(r) PROVE Kept
  BY <1>14 DEF VerifyAndPublish, Raise
<1>15. ASSUME EnterFinalizing PROVE Kept
  BY <1>15 DEF EnterFinalizing, WorkerTo
<1>16. ASSUME PublishBundle PROVE Kept
  BY <1>16 DEF PublishBundle, WorkerTo, Raise
<1>17. ASSUME NEW r \in Runs, FinalizationInterrupted(r) PROVE Kept
  BY <1>17 DEF FinalizationInterrupted, Raise
<1>18. ASSUME EnforceFullRetention PROVE Kept
  BY <1>18 DEF EnforceFullRetention, WorkerTo
<1>19. ASSUME RetainNext PROVE Kept
  BY <1>19 DEF RetainNext, WorkerTo
<1>20. ASSUME RecoverRuns PROVE Kept
  BY <1>20 DEF RecoverRuns, Uncertain, WorkerTo
<1>21. ASSUME DeleteChain PROVE Kept
  BY <1>21 DEF DeleteChain, Deletable, StartDelete, Raise
<1>22. ASSUME NEW r \in Runs, RestorePointDelete(r) PROVE Kept
  BY <1>22 DEF RestorePointDelete, Deletable, StartDelete
<1>23. ASSUME NEW t \in Threads, RemoveFiles(t) PROVE Kept
  BY <1>23 DEF RemoveFiles, RmtreeError, DeleteFails, EndDelete, Raise
<1>24. ASSUME NEW r \in Runs, BackupEnds(r) PROVE Kept
  BY <1>24 DEF BackupEnds
<1>25. ASSUME Crash PROVE Kept
  BY <1>25 DEF Crash
<1>26. ASSUME IdleTick PROVE Kept
  BY <1>26 DEF IdleTick, vars
<1> QED
  BY <1>s, <1>1, <1>2, <1>3, <1>4, <1>5, <1>6, <1>7, <1>8, <1>9, <1>10, <1>11, <1>12, <1>13,
     <1>14, <1>15, <1>16, <1>17, <1>18, <1>19, <1>20, <1>21, <1>22, <1>23, <1>24, <1>25, <1>26
     DEF Next, Worker, Api, AdvanceRun, ContinueRun, Threads

\* All members of a lineage carry one chain id.
LEMMA ChainOfLineage ==
    ASSUME PlansSound, NEW p \in Runs, NEW b \in Ancestry(p)
    PROVE  plan[b].chain = plan[p].chain
<1> DEFINE S == {a \in Runs : plan[a].chain = plan[p].chain}
<1>1. ClosedUnderParent(S, points, plan)
  <2> SUFFICES ASSUME NEW x \in S \cap points, plan[x].kind = "INCREMENTAL"
               PROVE  plan[x].parent \in S
    BY DEF ClosedUnderParent
  <2> QED  BY DEF PlansSound, PlanSound
<1>2. AncestryIn(p, points, plan) \subseteq S  BY <1>1, AncestryLeast
<1> QED  BY <1>2, AncestryIsAncestryIn

LEMMA ParentsOfPoints ==
    ASSUME TypeOK, PlansSound
    PROVE  ParentsKnown(points, plan)
BY DEF TypeOK, PlansSound, PlanSound, ParentsKnown

\* Whatever kind the run chooses, its plan is sound.
LEMMA SoundChoice ==
    ASSUME IInv, ChainInv, NEW r \in Runs, ChoosePlan(r)
    PROVE  wplan'.kind # "NONE" /\ PlanSound(wplan', r)
<1>1. CASE wplan' = FullPlan(r)
  BY <1>1 DEF FullPlan, PlanSound
<1>2. ASSUME NEW p \in PointsOf(JobOf[r]), NEW b \in Ancestry(p), Extendable(p),
             wplan' = IncrementalPlan(p, b)
      PROVE  wplan'.kind # "NONE" /\ PlanSound(wplan', r)
  <2>1. p \in Runs /\ p \in points /\ JobOf[p] = JobOf[r]
    BY DEF PointsOf, IInv, TypeInv, TypeOK
  <2>2. HasLineage(p) /\ SequenceOf(p) < MaxIncrementals  BY <1>2 DEF Extendable
  <2>3. SequenceOf(p) = plan[p].sequence
    <3>1. Cardinality(Ancestry(p)) = plan[p].sequence + 1
      BY <2>1, <2>2 DEF ChainInv, DepthIsSequence
    <3>2. plan[p].sequence \in Nat  BY <2>1 DEF IInv, TypeInv, TypeOK, Plans
    <3> QED  BY <3>1, <3>2 DEF SequenceOf
  <2>4. plan[b].chain = plan[p].chain  BY <2>1, ChainOfLineage DEF ChainInv
  <2>5. state[p] \in Terminal  BY <2>1 DEF IInv, StoreInv, PointsEnded
  <2>6. plan[p].kind # "NONE"  BY <2>1 DEF ChainInv, PlanRecorded
  <2>7. plan[p].sequence + 1 <= MaxIncrementals
    <3>1. plan[p].sequence \in Nat  BY <2>1 DEF IInv, TypeInv, TypeOK, Plans
    <3> QED  BY <2>2, <2>3, <3>1, ConstantsAssumption
  <2> QED  BY <1>2, <2>1, <2>3, <2>4, <2>5, <2>6, <2>7 DEF IncrementalPlan, PlanSound
<1> QED  BY <1>1, <1>2 DEF ChoosePlan

LEMMA PlansStep == IInv /\ ChainInv /\ [Next]_vars => PlansSound'
<1> SUFFICES ASSUME IInv, ChainInv, [Next]_vars PROVE PlansSound'
  OBVIOUS
<1>1. \A r \in Runs : state[r] \in Terminal => state'[r] \in Terminal
  BY TerminalStays DEF IInv
<1>2. CASE plan' = plan
  BY <1>1, <1>2 DEF ChainInv, PlansSound, PlanSound
<1>3. CASE RequestStart
  <2>1. wrun \in Runs /\ state[wrun] = "PREPARING" /\ state' = state
    BY <1>3 DEF RequestStart, IInv, TypeInv, TypeOK, RunInv, WorkerRunState
  <2>2. PlanSound(wplan, wrun)
    BY <1>3 DEF RequestStart, ChainInv, WorkerPlanSound
  <2>3. plan' = [plan EXCEPT ![wrun] = wplan]  BY <1>3 DEF RequestStart
  <2>4. \A r \in Runs : state[r] \in Terminal => plan'[r] = plan[r]
    BY <2>1, <2>3 DEF Terminal, IInv, TypeInv, TypeOK
  <2>5. ASSUME NEW r \in Runs PROVE PlanSound(plan'[r], r)
    BY <2>1, <2>2, <2>3 DEF ChainInv, PlansSound, IInv, TypeInv, TypeOK
  <2> QED  BY <2>1, <2>4, <2>5 DEF PlansSound, PlanSound
<1> QED
  BY <1>2, <1>3, CatalogFrame DEF FinalizeLocalBackup, RemoveRow, runVars

\* Once chosen, the plan and its run stay as they are until the start request.
Planned == {"capacity", "reclaim", "stage", "request"}

LEMMA WorkerPlanFrame ==
    ASSUME [Next]_vars
    PROVE  \/ \E r \in Runs : PrepareAndStart(r)
           \/ wpc' \in Planned => /\ wpc \in Planned
                                  /\ wplan' = wplan /\ wrun' = wrun /\ plan' = plan
<1> DEFINE Kept == wpc' \in Planned => /\ wpc \in Planned
                                       /\ wplan' = wplan /\ wrun' = wrun /\ plan' = plan
<1> USE DEF Planned, runVars, storeVars, hostVars, workerVars, apiVars, deleteVars
<1>s. CASE UNCHANGED vars
  BY <1>s DEF vars
<1>1. ASSUME NEW r \in Runs, CreateManualRun(r) PROVE Kept
  BY <1>1 DEF CreateManualRun
<1>2. ASSUME CreateRun PROVE Kept
  BY <1>2 DEF CreateRun, Insert
<1>3. ASSUME NEW r \in Runs, ScheduleDueJob(r) PROVE Kept
  BY <1>3 DEF ScheduleDueJob
<1>4. ASSUME ScheduleInsert PROVE Kept
  BY <1>4 DEF ScheduleInsert, Insert, WorkerTo
<1>5. ASSUME NEW r \in Runs, AdoptRun(r) PROVE Kept
  BY <1>5 DEF AdoptRun
<1>6. ASSUME ReclaimForSpace PROVE Kept
  BY <1>6 DEF ReclaimForSpace, WorkerTo, Raise
<1>7. ASSUME ReclaimNext PROVE Kept
  BY <1>7 DEF ReclaimNext, WorkerTo, Raise
<1>8. ASSUME PrepareNewRun PROVE Kept
  BY <1>8 DEF PrepareNewRun, WorkerTo, Raise
<1>9. ASSUME RequestStart PROVE Kept
  BY <1>9 DEF RequestStart, WorkerTo
<1>10. ASSUME BeginBackup PROVE Kept
  BY <1>10 DEF BeginBackup, WorkerTo, Raise
<1>11. ASSUME MarkRunning PROVE Kept
  BY <1>11 DEF MarkRunning, WorkerTo
<1>12. ASSUME EnterBackingUp PROVE Kept
  BY <1>12 DEF EnterBackingUp, WorkerTo
<1>13. ASSUME NEW r \in Runs, Poll(r) PROVE Kept
  BY <1>13 DEF Poll, BackupCompleted, Raise
<1>14. ASSUME NEW r \in Runs, VerifyAndPublish(r) PROVE Kept
  BY <1>14 DEF VerifyAndPublish, Raise
<1>15. ASSUME EnterFinalizing PROVE Kept
  BY <1>15 DEF EnterFinalizing, WorkerTo
<1>16. ASSUME PublishBundle PROVE Kept
  BY <1>16 DEF PublishBundle, WorkerTo, Raise
<1>17. ASSUME FinalizeLocalBackup PROVE Kept
  BY <1>17 DEF FinalizeLocalBackup, RollBack, WorkerTo, Raise
<1>18. ASSUME NEW r \in Runs, FinalizationInterrupted(r) PROVE Kept
  BY <1>18 DEF FinalizationInterrupted, Raise
<1>19. ASSUME EnforceFullRetention PROVE Kept
  BY <1>19 DEF EnforceFullRetention, WorkerTo
<1>20. ASSUME RetainNext PROVE Kept
  BY <1>20 DEF RetainNext, WorkerTo
<1>21. ASSUME RecoverRuns PROVE Kept
  BY <1>21 DEF RecoverRuns, Uncertain, WorkerTo
<1>22. ASSUME DeleteChain PROVE Kept
  BY <1>22 DEF DeleteChain, Deletable, StartDelete, Raise
<1>23. ASSUME NEW r \in Runs, RestorePointDelete(r) PROVE Kept
  BY <1>23 DEF RestorePointDelete, Deletable, StartDelete
<1>24. ASSUME NEW t \in Threads, RemoveFiles(t) PROVE Kept
  BY <1>24 DEF RemoveFiles, RmtreeError, DeleteFails, EndDelete, Raise
<1>25. ASSUME NEW t \in Threads, RemoveRow(t) PROVE Kept
  BY <1>25 DEF RemoveRow, DeleteFails, EndDelete, Raise
<1>26. ASSUME NEW r \in Runs, BackupEnds(r) PROVE Kept
  BY <1>26 DEF BackupEnds
<1>27. ASSUME Crash PROVE Kept
  BY <1>27 DEF Crash
<1>28. ASSUME IdleTick PROVE Kept
  BY <1>28 DEF IdleTick, vars
<1> QED
  BY <1>s, <1>1, <1>2, <1>3, <1>4, <1>5, <1>6, <1>7, <1>8, <1>9, <1>10, <1>11,
     <1>12, <1>13, <1>14, <1>15, <1>16, <1>17, <1>18, <1>19, <1>20, <1>21, <1>22, <1>23, <1>24,
     <1>25, <1>26, <1>27, <1>28 DEF Next, Worker, Api, AdvanceRun, ContinueRun, Threads

LEMMA WorkerPlanStep == IInv /\ ChainInv /\ [Next]_vars => WorkerPlanSound'
<1> SUFFICES ASSUME IInv, ChainInv, [Next]_vars PROVE WorkerPlanSound'
  OBVIOUS
<1>t. \A r \in Runs : state[r] \in Terminal => state'[r] \in Terminal
  BY TerminalStays DEF IInv
<1>1. ASSUME NEW r \in Runs, PrepareAndStart(r) PROVE WorkerPlanSound'
  <2>1. CASE wpc' = "fail"  BY <2>1 DEF WorkerPlanSound
  <2>2. CASE ChoosePlan(r)
    <3>1. wplan'.kind # "NONE" /\ PlanSound(wplan', r)  BY <2>2, SoundChoice
    <3>2. wrun' = r /\ state' = state /\ plan' = plan  BY <1>1 DEF PrepareAndStart, runVars
    <3> QED  BY <3>1, <3>2 DEF WorkerPlanSound, PlanSound
  <2> QED  BY <1>1, <2>1, <2>2 DEF PrepareAndStart, Raise
<1>2. CASE wpc' \in Planned => /\ wpc \in Planned
                               /\ wplan' = wplan /\ wrun' = wrun /\ plan' = plan
  <2> SUFFICES ASSUME wpc' \in Planned PROVE wplan'.kind # "NONE" /\ PlanSound(wplan, wrun)'
    BY DEF WorkerPlanSound, Planned
  <2>1. wplan.kind # "NONE" /\ PlanSound(wplan, wrun)
    BY <1>2 DEF ChainInv, WorkerPlanSound, Planned
  <2>2. wplan' = wplan /\ wrun' = wrun /\ plan' = plan  BY <1>2
  <2> QED  BY <1>t, <2>1, <2>2 DEF PlanSound
<1> QED  BY <1>1, <1>2, WorkerPlanFrame

LEMMA RecordedStep == IInv /\ ChainInv /\ [Next]_vars => PlanRecorded'
<1> SUFFICES ASSUME IInv, ChainInv, [Next]_vars PROVE PlanRecorded'
  OBVIOUS
<1> USE DEF IInv, TypeInv, TypeOK, RunInv, WorkerRunState, ApiRunState, ChainInv, PlanRecorded,
        runVars, storeVars, hostVars, workerVars, apiVars, deleteVars
<1>s. CASE UNCHANGED vars
  BY <1>s DEF vars
<1>1. ASSUME NEW r \in Runs, CreateManualRun(r) PROVE PlanRecorded'
  BY <1>1 DEF CreateManualRun
<1>2. ASSUME CreateRun PROVE PlanRecorded'
  BY <1>2 DEF CreateRun, Insert
<1>3. ASSUME NEW r \in Runs, ScheduleDueJob(r) PROVE PlanRecorded'
  BY <1>3 DEF ScheduleDueJob
<1>4. ASSUME ScheduleInsert PROVE PlanRecorded'
  BY <1>4 DEF ScheduleInsert, Insert, WorkerTo
<1>5. ASSUME NEW r \in Runs, AdoptRun(r) PROVE PlanRecorded'
  BY <1>5 DEF AdoptRun
<1>6. ASSUME NEW r \in Runs, PrepareAndStart(r) PROVE PlanRecorded'
  BY <1>6 DEF PrepareAndStart, Raise
<1>7. ASSUME ReclaimForSpace PROVE PlanRecorded'
  BY <1>7 DEF ReclaimForSpace, WorkerTo, Raise
<1>8. ASSUME ReclaimNext PROVE PlanRecorded'
  BY <1>8 DEF ReclaimNext, WorkerTo, Raise
<1>9. ASSUME PrepareNewRun PROVE PlanRecorded'
  BY <1>9 DEF PrepareNewRun, WorkerTo, Raise
<1>10. ASSUME RequestStart PROVE PlanRecorded'
  BY <1>10 DEF RequestStart, WorkerTo, WorkerPlanSound, StoreInv, PointsEnded, Terminal
<1>11. ASSUME BeginBackup PROVE PlanRecorded'
  BY <1>11 DEF BeginBackup, WorkerTo, Raise
<1>12. ASSUME MarkRunning PROVE PlanRecorded'
  BY <1>12 DEF MarkRunning, WorkerTo
<1>13. ASSUME EnterBackingUp PROVE PlanRecorded'
  BY <1>13 DEF EnterBackingUp, WorkerTo
<1>14. ASSUME NEW r \in Runs, Poll(r) PROVE PlanRecorded'
  BY <1>14 DEF Poll, BackupCompleted, Raise
<1>15. ASSUME NEW r \in Runs, VerifyAndPublish(r) PROVE PlanRecorded'
  BY <1>15 DEF VerifyAndPublish, Raise
<1>16. ASSUME EnterFinalizing PROVE PlanRecorded'
  BY <1>16 DEF EnterFinalizing, WorkerTo
<1>17. ASSUME PublishBundle PROVE PlanRecorded'
  BY <1>17 DEF PublishBundle, WorkerTo, Raise
<1>18. ASSUME FinalizeLocalBackup PROVE PlanRecorded'
  BY <1>18 DEF FinalizeLocalBackup, RollBack, WorkerTo, Raise
<1>19. ASSUME NEW r \in Runs, FinalizationInterrupted(r) PROVE PlanRecorded'
  BY <1>19 DEF FinalizationInterrupted, Raise
<1>20. ASSUME EnforceFullRetention PROVE PlanRecorded'
  BY <1>20 DEF EnforceFullRetention, WorkerTo
<1>21. ASSUME RetainNext PROVE PlanRecorded'
  BY <1>21 DEF RetainNext, WorkerTo
<1>22. ASSUME RecoverRuns PROVE PlanRecorded'
  BY <1>22 DEF RecoverRuns, Uncertain, WorkerTo
<1>23. ASSUME DeleteChain PROVE PlanRecorded'
  BY <1>23 DEF DeleteChain, Deletable, StartDelete, Raise
<1>24. ASSUME NEW r \in Runs, RestorePointDelete(r) PROVE PlanRecorded'
  BY <1>24 DEF RestorePointDelete, Deletable, StartDelete
<1>25. ASSUME NEW t \in Threads, RemoveFiles(t) PROVE PlanRecorded'
  BY <1>25 DEF RemoveFiles, RmtreeError, DeleteFails, EndDelete, Raise
<1>26. ASSUME NEW t \in Threads, RemoveRow(t) PROVE PlanRecorded'
  BY <1>26 DEF RemoveRow, DeleteFails, EndDelete, Raise
<1>27. ASSUME NEW r \in Runs, BackupEnds(r) PROVE PlanRecorded'
  BY <1>27 DEF BackupEnds
<1>28. ASSUME Crash PROVE PlanRecorded'
  BY <1>28 DEF Crash
<1>29. ASSUME IdleTick PROVE PlanRecorded'
  BY <1>29 DEF IdleTick, vars
<1> QED
  BY <1>s, <1>1, <1>2, <1>3, <1>4, <1>5, <1>6, <1>7, <1>8, <1>9, <1>10, <1>11, <1>12, <1>13,
     <1>14, <1>15, <1>16, <1>17, <1>18, <1>19, <1>20, <1>21, <1>22, <1>23, <1>24, <1>25, <1>26,
     <1>27, <1>28, <1>29 DEF Next, Worker, Api, AdvanceRun, ContinueRun, Threads

LEMMA StampStep == IInv /\ ChainInv /\ [Next]_vars => StampsPast' /\ ChainWellFormed'
<1> SUFFICES ASSUME IInv, ChainInv, [Next]_vars PROVE StampsPast' /\ ChainWellFormed'
  OBVIOUS
<1> USE DEF IInv, TypeInv, TypeOK
<1>1. CASE RequestStart
  \* The plan of a run outside the catalog changes, and that run is no parent.
  <2>1. wrun \in Runs /\ state[wrun] = "PREPARING" /\ plan' = [plan EXCEPT ![wrun] = wplan]
    BY <1>1 DEF RequestStart, RunInv, WorkerRunState
  <2>2. points' = points /\ stamp' = stamp /\ clock' = clock
    BY <1>1 DEF RequestStart, storeVars
  <2>3. \A p \in points : plan'[p] = plan[p]
    BY <2>1 DEF StoreInv, PointsEnded, Terminal
  <2>4. \A p \in points : plan[p].kind = "INCREMENTAL" => plan'[plan[p].parent] = plan[plan[p].parent]
    BY <2>1 DEF ChainInv, PlansSound, PlanSound, Terminal
  <2> QED  BY <2>2, <2>3, <2>4 DEF ChainInv, StampsPast, ChainWellFormed
<1>2. CASE FinalizeLocalBackup
  <2>1. CASE points' = points /\ stamp' = stamp /\ clock' = clock
    BY <1>2, <2>1 DEF FinalizeLocalBackup, ChainInv, StampsPast, ChainWellFormed
  <2>2. CASE /\ state[wrun] = "FINALIZING" /\ points' = points \cup {wrun}
             /\ clock' = clock + 1 /\ stamp' = [stamp EXCEPT ![wrun] = clock + 1]
    <3>1. wrun \in Runs /\ plan' = plan  BY <1>2 DEF FinalizeLocalBackup
    <3>2. StampsPast'  BY <2>2, <3>1 DEF ChainInv, StampsPast
    <3>3. ASSUME NEW p \in points', plan[p].kind = "INCREMENTAL"
          PROVE  LET q == plan[p].parent IN
                 /\ q \in Runs /\ JobOf[q] = JobOf[p] /\ plan[p].chain = plan[q].chain
                 /\ plan[p].sequence = plan[q].sequence + 1
                 /\ plan[p].sequence <= MaxIncrementals
                 /\ stamp'[q] < stamp'[p]
      <4> DEFINE q == plan[p].parent
      <4>1. p \in Runs  BY <2>2, <3>1
      <4>2. /\ q \in Runs /\ state[q] \in Terminal /\ JobOf[q] = JobOf[p]
            /\ plan[p].chain = plan[q].chain /\ plan[p].sequence = plan[q].sequence + 1
            /\ plan[p].sequence <= MaxIncrementals
        BY <3>3, <4>1 DEF ChainInv, PlansSound, PlanSound
      <4>3. q # wrun  BY <2>2, <4>2 DEF Terminal
      <4>4. stamp'[q] = stamp[q] /\ stamp[q] <= clock
        BY <2>2, <4>2, <4>3 DEF ChainInv, StampsPast
      <4>5. CASE p = wrun
        BY <2>2, <3>1, <4>2, <4>4, <4>5
      <4>6. CASE p # wrun
        <5>1. p \in points /\ stamp'[p] = stamp[p]  BY <2>2, <4>1, <4>6
        <5>2. stamp[q] < stamp[p]  BY <3>3, <5>1 DEF ChainInv, ChainWellFormed
        <5> QED  BY <4>2, <4>4, <5>1, <5>2
      <4> QED  BY <4>5, <4>6
    <3> QED  BY <3>1, <3>2, <3>3 DEF ChainWellFormed
  <2> QED  BY <1>2, <2>1, <2>2 DEF FinalizeLocalBackup, RollBack
<1>3. ASSUME NEW t \in Threads, RemoveRow(t) PROVE StampsPast' /\ ChainWellFormed'
  BY <1>3 DEF RemoveRow, runVars, ChainInv, StampsPast, ChainWellFormed
<1>4. CASE UNCHANGED <<points, plan, stamp, clock>>
  BY <1>4 DEF ChainInv, StampsPast, ChainWellFormed
<1> QED  BY <1>1, <1>2, <1>3, <1>4, CatalogFrame

LEMMA DepthStep == IInv /\ ChainInv /\ [Next]_vars => DepthIsSequence'
<1> SUFFICES ASSUME IInv, ChainInv, [Next]_vars,
                    NEW p \in points', HasLineage(p)'
             PROVE  Cardinality(Ancestry(p))' = plan'[p].sequence + 1
  BY DEF DepthIsSequence
<1>t. TypeOK /\ TypeOK'  BY TypeStep DEF IInv, TypeInv
<1>r. p \in Runs  BY <1>t DEF TypeOK
<1>a. /\ \A x \in Runs : Ancestry(x) = AncestryIn(x, points, plan)
      /\ Ancestry(p)' = AncestryIn(p, points', plan')
  BY <1>r, AncestryIsAncestryIn
<1>k. ParentsKnown(points, plan)  BY <1>t, ParentsOfPoints DEF ChainInv
<1>d. \A x \in points : AncestryIn(x, points, plan) \subseteq points
                          => Cardinality(AncestryIn(x, points, plan)) = plan[x].sequence + 1
  BY <1>t, <1>a DEF ChainInv, DepthIsSequence, HasLineage, TypeOK
<1>h. AncestryIn(p, points', plan') \subseteq points'  BY <1>a DEF HasLineage
<1>1. CASE points' = points /\ \A x \in points : plan'[x] = plan[x]
  <2>1. AncestryIn(p, points', plan') = AncestryIn(p, points, plan)
    BY <1>t, <1>r, <1>1, AncestryAfterPlan DEF TypeOK
  <2> QED  BY <1>1, <1>a, <1>d, <1>h, <2>1
<1>2. CASE RequestStart
  <2>1. wrun \in Runs /\ state[wrun] = "PREPARING" /\ plan' = [plan EXCEPT ![wrun] = wplan]
        /\ points' = points
    BY <1>2 DEF RequestStart, storeVars, IInv, TypeInv, TypeOK, RunInv, WorkerRunState
  <2>2. \A x \in points : plan'[x] = plan[x]
    BY <1>t, <2>1 DEF IInv, StoreInv, PointsEnded, Terminal, TypeOK
  <2> QED  BY <1>1, <2>1, <2>2
<1>3. CASE FinalizeLocalBackup
  <2>1. plan' = plan  BY <1>3 DEF FinalizeLocalBackup
  <2> PICK r \in Runs : r = wrun  BY <1>t, <1>3 DEF FinalizeLocalBackup, TypeOK
  <2>2. CASE points' = points  BY <1>1, <2>1, <2>2
  <2>3. CASE state[r] = "FINALIZING" /\ points' = points \cup {r}
    <3>1. points \in SUBSET Runs  BY <1>t DEF TypeOK
    <3>2. \A x \in points : plan[x].kind = "INCREMENTAL" => plan[x].parent # r
      BY <2>3, <3>1 DEF ChainInv, PlansSound, PlanSound, Terminal
    <3>3. ASSUME NEW x \in Runs, x # r
          PROVE  /\ AncestryIn(x, points', plan') = AncestryIn(x, points, plan)
                 /\ r \notin AncestryIn(x, points, plan)
      <4>1. /\ AncestryIn(x, points \cup {r}, plan) = AncestryIn(x, points, plan)
            /\ r \notin AncestryIn(x, points, plan)
        BY <1>k, <3>1, <3>2, <3>3, AncestryAfterPublish
      <4> QED  BY <2>1, <2>3, <4>1
    <3>4. CASE p # r
      <4>1. AncestryIn(p, points, plan) \subseteq points
        BY <1>r, <1>h, <2>3, <3>3, <3>4
      <4>2. p \in points  BY <2>3, <3>4
      <4> QED  BY <1>r, <1>a, <1>d, <2>1, <3>3, <3>4, <4>1, <4>2
    <3>5. CASE p = r
      <4>1. PlanSound(plan[r], r)  BY DEF ChainInv, PlansSound
      <4>2. plan[r].kind \in {"FULL", "INCREMENTAL"}
        BY <1>t, <2>3 DEF ChainInv, PlanRecorded, TypeOK, Plans
      <4>3. ParentsKnown(points', plan')
        BY <1>k, <2>1, <2>3, <4>1 DEF ParentsKnown, PlanSound
      <4>4. CASE plan[r].kind = "FULL"
        <5>1. AncestryIn(r, points', plan') = {r}  BY <2>1, <4>3, <4>4, AncestryOfFull
        <5>2. Cardinality({r}) = 1  BY FS_Singleton
        <5> QED  BY <1>a, <2>1, <3>5, <4>1, <4>4, <5>1, <5>2 DEF PlanSound
      <4>5. CASE plan[r].kind = "INCREMENTAL"
        <5> DEFINE q == plan[r].parent
                   Q == AncestryIn(q, points, plan)
        <5>1. q \in Runs /\ q # r /\ plan[r].sequence = plan[q].sequence + 1
          BY <2>3, <4>1, <4>5 DEF PlanSound, Terminal
        <5>2. AncestryIn(r, points', plan') = {r} \cup Q /\ r \notin Q
          BY <2>1, <2>3, <3>3, <4>3, <4>5, <5>1, AncestryOfIncremental
        <5>3. Q \subseteq points /\ q \in Q
          BY <1>h, <1>k, <2>3, <3>5, <5>1, <5>2, AncestryClosed
        <5>4. Cardinality(Q) = plan[q].sequence + 1  BY <1>d, <5>3
        <5>5. IsFiniteSet(Q)  BY <3>1, <5>3, ConstantsAssumption, FS_Subset
        <5>6. Cardinality(Q \cup {r}) = Cardinality(Q) + 1  BY <5>2, <5>5, FS_AddElement
        <5>7. {r} \cup Q = Q \cup {r}  OBVIOUS
        <5>8. plan[q].sequence \in Nat  BY <1>t, <5>1 DEF TypeOK, Plans
        <5> QED  BY <1>a, <2>1, <3>5, <5>1, <5>2, <5>4, <5>6, <5>7, <5>8
      <4> QED  BY <4>2, <4>4, <4>5
    <3> QED  BY <3>4, <3>5
  <2> QED  BY <1>3, <2>2, <2>3 DEF FinalizeLocalBackup, RollBack
<1>4. ASSUME NEW t \in Threads, RemoveRow(t)
      PROVE  Cardinality(Ancestry(p))' = plan'[p].sequence + 1
  <2>1. points' = points \ {dpoint[t]} /\ plan' = plan  BY <1>4 DEF RemoveRow, runVars
  <2>2. AncestryIn(p, points', plan') = AncestryIn(p, points, plan)
    <3> DEFINE x == dpoint[t]
    <3>1. points \in SUBSET Runs  BY <1>t DEF TypeOK
    <3>2. AncestryIn(p, points \ {x}, plan) \subseteq points \ {x}  BY <1>h, <2>1
    <3> HIDE DEF x
    <3>3. AncestryIn(p, points, plan) = AncestryIn(p, points \ {x}, plan)
      BY <1>r, <1>k, <3>1, <3>2, AncestryAfterRemoval
    <3> QED  BY <2>1, <3>3 DEF x
  <2>3. AncestryIn(p, points, plan) \subseteq points /\ p \in points
    BY <1>h, <2>1, <2>2
  <2> QED  BY <1>a, <1>d, <2>1, <2>2, <2>3
<1>5. CASE UNCHANGED <<points, plan, stamp, clock>>
  BY <1>1, <1>5
<1> QED  BY <1>2, <1>3, <1>4, <1>5, CatalogFrame

LEMMA ChainInit == Init => ChainInv
<1> SUFFICES ASSUME Init PROVE ChainInv
  OBVIOUS
<1>1. points = {} /\ plan = [r \in Runs |-> NoPlan] /\ wpc = "idle"
      /\ stamp = [r \in Runs |-> 0] /\ clock = 0 /\ state = [r \in Runs |-> "NONE"]
  BY DEF Init
<1> QED
  BY <1>1 DEF ChainInv, PlansSound, PlanSound, WorkerPlanSound, PlanRecorded, StampsPast,
     DepthIsSequence, ChainWellFormed, NoPlan

\* An incremental in the catalog continues its parent, for every number of
\* runs and every chain limit: same job and chain, one step further, published
\* later (the kind decision of _prepare_and_start survives concurrent
\* publications, retention and deletions).
THEOREM ChainWellFormedAlways == Spec => []ChainWellFormed
<1>1. IInv /\ ChainInv /\ [Next]_vars => ChainInv'
  BY PlansStep, WorkerPlanStep, RecordedStep, StampStep, DepthStep DEF ChainInv
<1>2. ChainInv => ChainWellFormed  BY DEF ChainInv
<1> QED  BY InductiveInvariant, ChainInit, <1>1, <1>2, PTL DEF Spec

\* latest_local_restore_point_for_job walks the parent links to find a point's
\* position; the walk gives the sequence that was stored with the point.
THEOREM WalkAgreesWithSequence == Spec => []DepthIsSequence
<1>1. IInv /\ ChainInv /\ [Next]_vars => ChainInv'
  BY PlansStep, WorkerPlanStep, RecordedStep, StampStep, DepthStep DEF ChainInv
<1>2. ChainInv => DepthIsSequence  BY DEF ChainInv
<1> QED  BY InductiveInvariant, ChainInit, <1>1, <1>2, PTL DEF Spec

-----------------------------------------------------------------------------
(***************************************************************************)
(* Retention and reclamation.  What the worker deletes was chosen from the *)
(* catalog as it was some steps ago; the chains of the other runs, and the *)
(* files, may have changed since.                                          *)
(***************************************************************************)

\* Restore points are told apart by their stamps, which only grow.
StampsDistinct ==
    /\ \A p, q \in Runs : stamp[p] = stamp[q] => p = q \/ stamp[p] = 0
    /\ \A p \in points : stamp[p] # 0

\* Retention runs for the FULL that was published last.
RetentionAfterFull ==
    wpc \in {"retention", "retain"} => stamp[wrun] = clock /\ plan[wrun].kind = "FULL"

\* A FULL names its chain after itself, and a run plans nothing before it exists.
ChainsNamed ==
    /\ \A r \in Runs : plan[r].kind = "FULL" => plan[r].chain = r
    /\ wpc \in {"capacity", "reclaim", "stage", "request"} /\ wplan.kind = "FULL"
         => wplan.chain = wrun
    /\ \A r \in Runs : state[r] = "NONE" => plan[r].kind = "NONE"

OrderInv == StampsDistinct /\ RetentionAfterFull /\ ChainsNamed

LEMMA OrderStep == IInv /\ ChainInv /\ OrderInv /\ [Next]_vars => OrderInv'
<1> SUFFICES ASSUME IInv, ChainInv, OrderInv, [Next]_vars PROVE OrderInv'
  OBVIOUS
<1> USE DEF IInv, TypeInv, TypeOK, RunInv, WorkerRunState, ApiRunState, ChainInv, OrderInv,
        StampsDistinct, RetentionAfterFull, ChainsNamed, runVars, storeVars, hostVars,
        workerVars, apiVars, deleteVars
<1>s. CASE UNCHANGED vars
  BY <1>s DEF vars
<1>1. ASSUME NEW r \in Runs, CreateManualRun(r) PROVE OrderInv'
  BY <1>1 DEF CreateManualRun
<1>2. ASSUME CreateRun PROVE OrderInv'
  BY <1>2 DEF CreateRun, Insert
<1>3. ASSUME NEW r \in Runs, ScheduleDueJob(r) PROVE OrderInv'
  BY <1>3 DEF ScheduleDueJob
<1>4. ASSUME ScheduleInsert PROVE OrderInv'
  BY <1>4 DEF ScheduleInsert, Insert, WorkerTo
<1>5. ASSUME NEW r \in Runs, AdoptRun(r) PROVE OrderInv'
  BY <1>5 DEF AdoptRun
<1>6. ASSUME NEW r \in Runs, PrepareAndStart(r) PROVE OrderInv'
  <2>1. ChoosePlan(r) => (wplan'.kind = "FULL" => wplan'.chain = r)
    BY DEF ChoosePlan, FullPlan, IncrementalPlan
  <2> QED  BY <1>6, <2>1 DEF PrepareAndStart, Raise
<1>7. ASSUME ReclaimForSpace PROVE OrderInv'
  BY <1>7 DEF ReclaimForSpace, WorkerTo, Raise
<1>8. ASSUME ReclaimNext PROVE OrderInv'
  BY <1>8 DEF ReclaimNext, WorkerTo, Raise
<1>9. ASSUME PrepareNewRun PROVE OrderInv'
  BY <1>9 DEF PrepareNewRun, WorkerTo, Raise
<1>10. ASSUME RequestStart PROVE OrderInv'
  BY <1>10 DEF RequestStart, WorkerTo
<1>11. ASSUME BeginBackup PROVE OrderInv'
  BY <1>11 DEF BeginBackup, WorkerTo, Raise
<1>12. ASSUME MarkRunning PROVE OrderInv'
  BY <1>12 DEF MarkRunning, WorkerTo
<1>13. ASSUME EnterBackingUp PROVE OrderInv'
  BY <1>13 DEF EnterBackingUp, WorkerTo
<1>14. ASSUME NEW r \in Runs, Poll(r) PROVE OrderInv'
  BY <1>14 DEF Poll, BackupCompleted, Raise
<1>15. ASSUME NEW r \in Runs, VerifyAndPublish(r) PROVE OrderInv'
  BY <1>15 DEF VerifyAndPublish, Raise
<1>16. ASSUME EnterFinalizing PROVE OrderInv'
  BY <1>16 DEF EnterFinalizing, WorkerTo
<1>17. ASSUME PublishBundle PROVE OrderInv'
  BY <1>17 DEF PublishBundle, WorkerTo, Raise
<1>18. ASSUME FinalizeLocalBackup PROVE OrderInv'
  <2>1. CASE /\ state[wrun] = "FINALIZING" /\ points' = points \cup {wrun}
             /\ clock' = clock + 1 /\ stamp' = [stamp EXCEPT ![wrun] = clock + 1]
    <3>1. /\ wrun \in Runs /\ plan' = plan /\ wrun' \in {wrun, NoRun} /\ wplan' = wplan /\ (wpc' = "idle" \/ wrun' = wrun)
          /\ wpc' = (IF plan[wrun].kind = "FULL" THEN "retention" ELSE "idle")
          /\ state' = [state EXCEPT ![wrun] = "SUCCESS"]
      BY <1>18, <2>1 DEF FinalizeLocalBackup, RollBack, Raise, WorkerTo
    <3>2. \A r \in Runs : stamp[r] <= clock /\ stamp[r] \in Nat  BY DEF StampsPast
    <3>3. StampsDistinct'
      <4>1. \A r \in Runs : stamp'[r] = IF r = wrun THEN clock + 1 ELSE stamp[r]  BY <2>1, <3>1
      <4>2. ASSUME NEW p \in Runs, NEW q \in Runs, stamp'[p] = stamp'[q]
            PROVE  p = q \/ stamp'[p] = 0
        <5>1. stamp[p] <= clock /\ stamp[p] \in Nat /\ stamp[q] <= clock /\ stamp[q] \in Nat
          BY <3>2
        <5> QED  BY <4>1, <4>2, <5>1
      <4>3. ASSUME NEW p \in points' PROVE stamp'[p] # 0
        BY <2>1, <3>1, <4>1
      <4> QED  BY <4>2, <4>3
    <3>4. RetentionAfterFull'
      BY <2>1, <3>1
    <3> QED  BY <2>1, <3>1, <3>3, <3>4
  <2>2. CASE RollBack /\ plan' = plan
    BY <2>2 DEF RollBack, Raise
  <2> QED  BY <1>18, <2>1, <2>2 DEF FinalizeLocalBackup
<1>19. ASSUME NEW r \in Runs, FinalizationInterrupted(r) PROVE OrderInv'
  BY <1>19 DEF FinalizationInterrupted, Raise
<1>20. ASSUME EnforceFullRetention PROVE OrderInv'
  BY <1>20 DEF EnforceFullRetention, WorkerTo
<1>21. ASSUME RetainNext PROVE OrderInv'
  BY <1>21 DEF RetainNext, WorkerTo
<1>22. ASSUME RecoverRuns PROVE OrderInv'
  BY <1>22 DEF RecoverRuns, Uncertain, WorkerTo
<1>23. ASSUME DeleteChain PROVE OrderInv'
  BY <1>23 DEF DeleteChain, Deletable, StartDelete, Raise
<1>24. ASSUME NEW r \in Runs, RestorePointDelete(r) PROVE OrderInv'
  BY <1>24 DEF RestorePointDelete, Deletable, StartDelete
<1>25. ASSUME NEW t \in Threads, RemoveFiles(t) PROVE OrderInv'
  BY <1>25 DEF RemoveFiles, RmtreeError, DeleteFails, EndDelete, Raise
<1>26. ASSUME NEW t \in Threads, RemoveRow(t) PROVE OrderInv'
  BY <1>26 DEF RemoveRow, DeleteFails, EndDelete, Raise
<1>27. ASSUME NEW r \in Runs, BackupEnds(r) PROVE OrderInv'
  BY <1>27 DEF BackupEnds
<1>28. ASSUME Crash PROVE OrderInv'
  BY <1>28 DEF Crash
<1>29. ASSUME IdleTick PROVE OrderInv'
  BY <1>29 DEF IdleTick, vars
<1> QED
  BY <1>s, <1>1, <1>2, <1>3, <1>4, <1>5, <1>6, <1>7, <1>8, <1>9, <1>10, <1>11, <1>12,
     <1>13, <1>14, <1>15, <1>16, <1>17, <1>18, <1>19, <1>20, <1>21, <1>22, <1>23, <1>24,
     <1>25, <1>26, <1>27, <1>28, <1>29
     DEF Next, Worker, Api, AdvanceRun, ContinueRun, Threads

LEMMA OrderInit == Init => OrderInv
BY DEF Init, OrderInv, StampsDistinct, RetentionAfterFull, ChainsNamed, NoPlan

LEMMA OrderedInvariant == Spec => [](IInv /\ ChainInv /\ OrderInv)
<1>1. IInv /\ ChainInv /\ [Next]_vars => ChainInv'
  BY PlansStep, WorkerPlanStep, RecordedStep, StampStep, DepthStep DEF ChainInv
<1> QED  BY InductiveInvariant, ChainInit, OrderInit, <1>1, OrderStep, PTL DEF Spec

\* Apart from its own deletions, nothing changes what the worker deletes.
Deleting == {"reclaim", "retain"}
WorkerUntouched ==
    /\ UNCHANGED <<workerVars, dstep["worker"], dpoint["worker"], plan, stamp, clock>>
    /\ state'[wrun] = state[wrun] \/ wpc = "idle"

LEMMA WorkerFrame ==
    ASSUME TypeInv, RunInv, [Next]_vars
    PROVE  \/ ReclaimForSpace \/ ReclaimNext \/ EnforceFullRetention \/ RetainNext
           \/ DeleteChain \/ RemoveFiles("worker") \/ RemoveRow("worker")
           \/ wpc' \notin Deleting
           \/ /\ WorkerUntouched
              /\ \/ UNCHANGED <<points, files>>
                 \/ RemoveFiles("api") \/ RemoveRow("api")
<1> DEFINE Goal == \/ wpc' \notin Deleting
                   \/ WorkerUntouched /\ UNCHANGED <<points, files>>
<1> USE DEF TypeInv, TypeOK, RunInv, WorkerRunState, ApiRunState, Deleting, WorkerUntouched,
        runVars, storeVars, hostVars, workerVars, apiVars, deleteVars
<1>s. CASE UNCHANGED vars
  BY <1>s DEF vars
<1>1. ASSUME NEW r \in Runs, CreateManualRun(r) PROVE Goal
  BY <1>1 DEF CreateManualRun
<1>2. ASSUME CreateRun PROVE Goal
  BY <1>2 DEF CreateRun, Insert
<1>3. ASSUME NEW r \in Runs, ScheduleDueJob(r) PROVE Goal
  BY <1>3 DEF ScheduleDueJob
<1>4. ASSUME ScheduleInsert PROVE Goal
  BY <1>4 DEF ScheduleInsert, Insert, WorkerTo
<1>5. ASSUME NEW r \in Runs, AdoptRun(r) PROVE Goal
  BY <1>5 DEF AdoptRun
<1>6. ASSUME NEW r \in Runs, PrepareAndStart(r) PROVE Goal
  BY <1>6 DEF PrepareAndStart, Raise
<1>7. ASSUME PrepareNewRun PROVE Goal
  BY <1>7 DEF PrepareNewRun, WorkerTo, Raise
<1>8. ASSUME RequestStart PROVE Goal
  BY <1>8 DEF RequestStart, WorkerTo
<1>9. ASSUME BeginBackup PROVE Goal
  BY <1>9 DEF BeginBackup, WorkerTo, Raise
<1>10. ASSUME MarkRunning PROVE Goal
  BY <1>10 DEF MarkRunning, WorkerTo
<1>11. ASSUME EnterBackingUp PROVE Goal
  BY <1>11 DEF EnterBackingUp, WorkerTo
<1>12. ASSUME NEW r \in Runs, Poll(r) PROVE Goal
  BY <1>12 DEF Poll, BackupCompleted, Raise
<1>13. ASSUME NEW r \in Runs, VerifyAndPublish(r) PROVE Goal
  BY <1>13 DEF VerifyAndPublish, Raise
<1>14. ASSUME EnterFinalizing PROVE Goal
  BY <1>14 DEF EnterFinalizing, WorkerTo
<1>15. ASSUME PublishBundle PROVE Goal
  BY <1>15 DEF PublishBundle, WorkerTo, Raise
<1>16. ASSUME FinalizeLocalBackup PROVE Goal
  BY <1>16 DEF FinalizeLocalBackup, RollBack, WorkerTo, Raise
<1>17. ASSUME NEW r \in Runs, FinalizationInterrupted(r) PROVE Goal
  BY <1>17 DEF FinalizationInterrupted, Raise
<1>18. ASSUME RecoverRuns PROVE Goal
  BY <1>18 DEF RecoverRuns, Uncertain, WorkerTo
<1>19. ASSUME NEW r \in Runs, RestorePointDelete(r) PROVE Goal
  BY <1>19 DEF RestorePointDelete, Deletable, StartDelete
<1>20. ASSUME NEW r \in Runs, BackupEnds(r) PROVE Goal
  BY <1>20 DEF BackupEnds
<1>21. ASSUME Crash PROVE Goal
  BY <1>21 DEF Crash
<1>22. ASSUME IdleTick PROVE Goal
  BY <1>22 DEF IdleTick, vars
<1>a. ASSUME RemoveFiles("api") \/ RemoveRow("api") PROVE WorkerUntouched
  BY <1>a DEF RemoveFiles, RmtreeError, RemoveRow, DeleteFails, EndDelete, Threads
<1> QED
  BY <1>s, <1>a, <1>1, <1>2, <1>3, <1>4, <1>5, <1>6, <1>7, <1>8, <1>9, <1>10, <1>11, <1>12,
     <1>13, <1>14, <1>15, <1>16, <1>17, <1>18, <1>19, <1>20, <1>21, <1>22
     DEF Next, Worker, Api, AdvanceRun, ContinueRun, Threads

\* What the worker has picked to delete and not yet taken from the catalog.
Doomed == wchain \cup ({dpoint["worker"]} \ {NoRun})

\* Files of a run change when they are staged, published or removed.
LEMMA FilesFrame ==
    ASSUME TypeInv, [Next]_vars, NEW p \in Runs, files'[p] # files[p]
    PROVE  \/ p = wrun /\ wpc \in {"stage", "publish"}
           \/ \E t \in Threads : RemoveFiles(t) /\ dstep[t] = "rmtree" /\ p = dpoint[t]
<1> DEFINE Kept == \/ files'[p] = files[p]
                   \/ p = wrun /\ wpc \in {"stage", "publish"}
<1> USE DEF TypeInv, TypeOK, runVars, storeVars, hostVars, workerVars, apiVars, deleteVars
<1>s. CASE UNCHANGED vars
  BY <1>s DEF vars
<1>1. ASSUME NEW r \in Runs, CreateManualRun(r) PROVE Kept
  BY <1>1 DEF CreateManualRun
<1>2. ASSUME CreateRun PROVE Kept
  BY <1>2 DEF CreateRun, Insert
<1>3. ASSUME NEW r \in Runs, ScheduleDueJob(r) PROVE Kept
  BY <1>3 DEF ScheduleDueJob
<1>4. ASSUME ScheduleInsert PROVE Kept
  BY <1>4 DEF ScheduleInsert, Insert, WorkerTo
<1>5. ASSUME NEW r \in Runs, AdoptRun(r) PROVE Kept
  BY <1>5 DEF AdoptRun
<1>6. ASSUME NEW r \in Runs, PrepareAndStart(r) PROVE Kept
  BY <1>6 DEF PrepareAndStart, Raise
<1>7. ASSUME ReclaimForSpace PROVE Kept
  BY <1>7 DEF ReclaimForSpace, WorkerTo, Raise
<1>8. ASSUME ReclaimNext PROVE Kept
  BY <1>8 DEF ReclaimNext, WorkerTo, Raise
<1>9. ASSUME PrepareNewRun PROVE Kept
  BY <1>9 DEF PrepareNewRun, WorkerTo, Raise
<1>10. ASSUME RequestStart PROVE Kept
  BY <1>10 DEF RequestStart, WorkerTo
<1>11. ASSUME BeginBackup PROVE Kept
  BY <1>11 DEF BeginBackup, WorkerTo, Raise
<1>12. ASSUME MarkRunning PROVE Kept
  BY <1>12 DEF MarkRunning, WorkerTo
<1>13. ASSUME EnterBackingUp PROVE Kept
  BY <1>13 DEF EnterBackingUp, WorkerTo
<1>14. ASSUME NEW r \in Runs, Poll(r) PROVE Kept
  BY <1>14 DEF Poll, BackupCompleted, Raise
<1>15. ASSUME NEW r \in Runs, VerifyAndPublish(r) PROVE Kept
  BY <1>15 DEF VerifyAndPublish, Raise
<1>16. ASSUME EnterFinalizing PROVE Kept
  BY <1>16 DEF EnterFinalizing, WorkerTo
<1>17. ASSUME PublishBundle PROVE Kept
  BY <1>17 DEF PublishBundle, WorkerTo, Raise
<1>18. ASSUME FinalizeLocalBackup PROVE Kept
  BY <1>18 DEF FinalizeLocalBackup, RollBack, WorkerTo, Raise
<1>19. ASSUME NEW r \in Runs, FinalizationInterrupted(r) PROVE Kept
  BY <1>19 DEF FinalizationInterrupted, Raise
<1>20. ASSUME EnforceFullRetention PROVE Kept
  BY <1>20 DEF EnforceFullRetention, WorkerTo
<1>21. ASSUME RetainNext PROVE Kept
  BY <1>21 DEF RetainNext, WorkerTo
<1>22. ASSUME RecoverRuns PROVE Kept
  BY <1>22 DEF RecoverRuns, Uncertain, WorkerTo
<1>23. ASSUME DeleteChain PROVE Kept
  BY <1>23 DEF DeleteChain, Deletable, StartDelete, Raise
<1>24. ASSUME NEW r \in Runs, RestorePointDelete(r) PROVE Kept
  BY <1>24 DEF RestorePointDelete, Deletable, StartDelete
<1>25. ASSUME NEW t \in Threads, RemoveRow(t) PROVE Kept
  BY <1>25 DEF RemoveRow, DeleteFails, EndDelete, Raise
<1>26. ASSUME NEW r \in Runs, BackupEnds(r) PROVE Kept
  BY <1>26 DEF BackupEnds
<1>27. ASSUME Crash PROVE Kept
  BY <1>27 DEF Crash
<1>28. ASSUME IdleTick PROVE Kept
  BY <1>28 DEF IdleTick, vars
<1>d. ASSUME NEW t \in Threads, RemoveFiles(t)
      PROVE  dstep[t] = "rmtree" /\ p = dpoint[t]
  BY <1>d DEF RemoveFiles, RmtreeError
<1> QED
  BY <1>s, <1>d, <1>1, <1>2, <1>3, <1>4, <1>5, <1>6, <1>7, <1>8, <1>9, <1>10, <1>11, <1>12,
     <1>13, <1>14, <1>15, <1>16, <1>17, <1>18, <1>19, <1>20, <1>21, <1>22, <1>23, <1>24,
     <1>25, <1>26, <1>27, <1>28
     DEF Next, Worker, Api, AdvanceRun, ContinueRun, Threads

(***************************************************************************)
(* SAFE mode: only retention deletes, on behalf of a FULL just published.  *)
(***************************************************************************)
Older(p) == p \in Runs /\ JobOf[p] = JobOf[wrun] /\ stamp[p] < stamp[wrun]

DeletesOlder ==
    /\ wpc # "reclaim"
    /\ wpc = "retain" => /\ \A p \in Doomed : Older(p)
                         /\ \A f \in wfulls : Older(f) /\ plan[f].kind = "FULL"

\* The published FULL is the newest point and belongs to no other chain.
LEMMA PointsOlder ==
    ASSUME IInv, ChainInv, OrderInv, wpc \in {"retention", "retain"},
           NEW p \in PointsOf(JobOf[wrun]), p # wrun
    PROVE  Older(p)
<1>1. p \in points /\ p \in Runs /\ wrun \in Runs /\ JobOf[p] = JobOf[wrun]
  BY DEF PointsOf, IInv, TypeInv, TypeOK
<1>2. stamp[wrun] = clock  BY DEF OrderInv, RetentionAfterFull
<1>3. stamp[p] <= clock  BY <1>1 DEF ChainInv, StampsPast
<1>4. stamp[p] # stamp[wrun]  BY <1>1 DEF OrderInv, StampsDistinct
<1>5. stamp[p] \in Nat /\ clock \in Nat  BY <1>1 DEF IInv, TypeInv, TypeOK
<1> QED  BY <1>1, <1>2, <1>3, <1>4, <1>5 DEF Older

LEMMA ChainOlder ==
    ASSUME IInv, ChainInv, OrderInv, wpc \in {"retention", "retain"},
           NEW f, Older(f), plan[f].kind = "FULL"
    PROVE  \A p \in ChainPoints(f) : Older(p)
<1>1. f \in Runs /\ wrun \in Runs /\ JobOf[f] = JobOf[wrun] /\ f # wrun
  BY DEF Older, IInv, TypeInv, TypeOK
<1>2. plan[wrun].kind = "FULL" /\ plan[wrun].chain = wrun /\ plan[f].chain = f
  BY <1>1 DEF OrderInv, RetentionAfterFull, ChainsNamed
<1>3. Ancestry(wrun) = {wrun}
  BY <1>1, <1>2, AncestryOfFull, AncestryIsAncestryIn, ParentsOfPoints DEF IInv, TypeInv, ChainInv
<1>4. wrun \notin ChainPoints(f)  BY <1>1, <1>2, <1>3 DEF ChainPoints
<1>5. \A p \in ChainPoints(f) : p \in PointsOf(JobOf[wrun])  BY <1>1 DEF ChainPoints
<1> QED  BY <1>4, <1>5, PointsOlder

\* Retention keeps the FULL it runs for.
LEMMA SurplusOlder ==
    ASSUME IInv, ChainInv, OrderInv, wpc = "retention",
           NEW f \in SurplusFulls(JobOf[wrun], FullChainsToRetain)
    PROVE  Older(f) /\ plan[f].kind = "FULL"
<1> DEFINE Newer == {g \in FullsOf(JobOf[wrun]) : stamp[g] >= stamp[f]}
<1>1. f \in PointsOf(JobOf[wrun]) /\ plan[f].kind = "FULL" /\ Cardinality(Newer) > FullChainsToRetain
  BY DEF SurplusFulls, FullsOf
<1>2. f # wrun
  <2> SUFFICES ASSUME f = wrun PROVE FALSE
    OBVIOUS
  <2>1. Newer \subseteq {wrun}
    <3> SUFFICES ASSUME NEW g \in Newer, g # wrun PROVE FALSE
      OBVIOUS
    <3>1. g \in PointsOf(JobOf[wrun]) /\ stamp[g] >= stamp[wrun]  BY DEF FullsOf
    <3>2. Older(g)  BY <3>1, PointsOlder
    <3>3. stamp[g] \in Nat /\ stamp[wrun] \in Nat  BY <3>2 DEF Older, IInv, TypeInv, TypeOK
    <3> QED  BY <3>1, <3>2, <3>3 DEF Older
  <2> HIDE DEF Newer
  <2>2. IsFiniteSet({wrun}) /\ Cardinality({wrun}) = 1  BY FS_Singleton
  <2>3. Cardinality(Newer) \in Nat /\ Cardinality(Newer) <= 1
    BY <2>1, <2>2, FS_Subset, FS_CardinalityType
  <2>4. FullChainsToRetain \in Nat /\ FullChainsToRetain >= 1  BY ConstantsAssumption
  <2> QED  BY <1>1, <2>3, <2>4
<1> QED  BY <1>1, <1>2, PointsOlder

LEMMA OlderPicked ==
    ASSUME IInv, ChainInv, OrderInv, wpc \in {"retention", "retain"},
           NEW S, \A f \in S : Older(f) /\ plan[f].kind = "FULL", PickChain(S)
    PROVE  /\ \A p \in wchain' : Older(p)
           /\ \A f \in wfulls' : Older(f) /\ plan[f].kind = "FULL"
BY ChainOlder DEF PickChain

LEMMA DeletesOlderStep ==
    ASSUME ~SpaceOptimized, IInv, ChainInv, OrderInv, DeletesOlder, [Next]_vars
    PROVE  DeletesOlder'
<1> USE DEF DeletesOlder, Doomed
<1>1. CASE wpc' \notin Deleting
  BY <1>1 DEF Deleting
<1>2. CASE ReclaimForSpace
  BY <1>2 DEF ReclaimForSpace, Reclaimable, WorkerTo, Raise
<1>3. CASE ReclaimNext
  BY <1>3 DEF ReclaimNext
<1> DEFINE Still == /\ \A p \in wchain' : Older(p)
                    /\ \A f \in wfulls' : Older(f) /\ plan[f].kind = "FULL"
<1>f. ASSUME wpc' = "retain", dpoint'["worker"] \in wchain \cup {NoRun, dpoint["worker"]},
             wpc = "retain" \/ dpoint'["worker"] = NoRun,
             UNCHANGED <<wrun, stamp, plan>>, Still
      PROVE  DeletesOlder'
  BY <1>f DEF Older
<1>4. CASE EnforceFullRetention
  <2>1. CASE wpc' = "retain"
    <3>1. PickChain(SurplusFulls(JobOf[wrun], FullChainsToRetain)) /\ wpc = "retention"
          /\ UNCHANGED <<wrun, stamp, plan>> /\ dpoint' = dpoint
      BY <1>4, <2>1 DEF EnforceFullRetention, WorkerTo, runVars, storeVars, deleteVars
    <3>2. Still  BY <3>1, SurplusOlder, OlderPicked
    <3>3. dpoint["worker"] = NoRun
      BY <3>1 DEF IInv, TypeInv, TypeOK, WorkerDeletes, Threads
    <3> QED  BY <1>f, <2>1, <3>1, <3>2, <3>3
  <2> QED  BY <1>1, <1>4, <2>1 DEF EnforceFullRetention, WorkerTo, Deleting
<1>5. CASE RetainNext
  <2>1. CASE wpc' = "retain"
    <3>1. PickChain(wfulls) /\ wpc = "retain" /\ UNCHANGED <<wrun, stamp, plan>> /\ dpoint' = dpoint
      BY <1>5, <2>1 DEF RetainNext, WorkerTo, runVars, storeVars, deleteVars
    <3>2. Still  BY <3>1, OlderPicked
    <3> QED  BY <1>f, <2>1, <3>1, <3>2
  <2> QED  BY <1>1, <1>5, <2>1 DEF RetainNext, WorkerTo, Deleting
<1>6. CASE DeleteChain
  <2>1. CASE wpc' = "retain"
    <3>1. /\ wpc = "retain" /\ UNCHANGED <<wrun, stamp, plan, wfulls>> /\ wchain' \subseteq wchain
          /\ dpoint'["worker"] \in wchain
      BY <1>6, <2>1 DEF DeleteChain, StartDelete, Raise, Threads, runVars, storeVars, IInv,
         TypeInv, TypeOK
    <3> QED  BY <1>f, <2>1, <3>1
  <2> QED  BY <1>1, <1>6, <2>1 DEF DeleteChain, Raise, Deleting
<1>7. CASE RemoveFiles("worker") \/ RemoveRow("worker")
  <2>1. CASE wpc' = "retain"
    <3>1. /\ wpc = "retain" /\ UNCHANGED <<wrun, stamp, plan, wfulls, wchain>>
          /\ dpoint'["worker"] \in {NoRun, dpoint["worker"]}
      BY <1>7, <2>1 DEF RemoveFiles, RmtreeError, RemoveRow, DeleteFails, EndDelete, Raise, Threads,
         runVars, workerVars, IInv, TypeInv, TypeOK
    <3> QED  BY <1>f, <2>1, <3>1
  <2>2. wpc' \in {wpc, "fail"}
    BY <1>7 DEF RemoveFiles, RmtreeError, RemoveRow, DeleteFails, Raise, workerVars
  <2> QED  BY <1>1, <2>1, <2>2 DEF Deleting
<1>8. CASE WorkerUntouched
  BY <1>8 DEF WorkerUntouched, workerVars, Older
<1> QED  BY <1>1, <1>2, <1>3, <1>4, <1>5, <1>6, <1>7, <1>8, WorkerFrame DEF IInv

\* "No new valid restore point, no automatic deletion": in SAFE mode the worker
\* removes files only for a run of the same job that has published a FULL newer
\* than what it removes, although the chains were picked some steps before and
\* users may be deleting from the same catalog (enforce_full_retention runs
\* after finalize_local_backup only).
THEOREM DeletionNeedsPublicationAlways ==
    ASSUME ~SpaceOptimized
    PROVE  Spec => DeletionNeedsPublication
<1> DEFINE Changed(p) == files'[p] # files[p] /\ p = dpoint["worker"] /\ p # dpoint["api"]
           Newer(p) == /\ state[wrun] = "SUCCESS" /\ plan[wrun].kind = "FULL"
                       /\ JobOf[wrun] = JobOf[p] /\ stamp[p] < stamp[wrun]
           Promise == \A p \in Runs : Changed(p) => Newer(p)
<1>1. Init => DeletesOlder  BY DEF Init, DeletesOlder
<1>2. IInv /\ ChainInv /\ OrderInv /\ DeletesOlder /\ [Next]_vars => Promise
  <2> SUFFICES ASSUME IInv, ChainInv, OrderInv, DeletesOlder, [Next]_vars,
                      NEW p \in Runs, Changed(p)
               PROVE  Newer(p)
    OBVIOUS
  <2>1. dpoint["worker"] = p /\ dstep["worker"] # "none" /\ p # NoRun
    BY ConstantsAssumption DEF IInv, TypeInv, TypeOK, Threads
  <2>2. wpc = "retain"
    BY <2>1 DEF IInv, TypeInv, WorkerDeletes, DeletesOlder
  <2>3. p \in Doomed  BY <2>1 DEF Doomed
  <2>4. state[wrun] = "SUCCESS"  BY <2>2 DEF IInv, RunInv, WorkerRunState
  <2> QED  BY <2>2, <2>3, <2>4 DEF DeletesOlder, Older, OrderInv, RetentionAfterFull
<1>3. OrderInv /\ ChainInv /\ IInv /\ DeletesOlder /\ [Next]_vars => DeletesOlder'
  BY DeletesOlderStep
<1>4. IInv /\ ChainInv /\ OrderInv /\ DeletesOlder /\ [Next]_vars => [Promise]_vars
  BY <1>2
<1>5. Spec => [][Promise]_vars
  BY OrderedInvariant, <1>1, <1>3, <1>4, PTL DEF Spec
<1> QED  BY <1>5 DEF DeletionNeedsPublication

(***************************************************************************)
(* Retention and reclamation without user deletions and without two runs   *)
(* of one VM: one of the two threads creates all the runs.                 *)
(***************************************************************************)
Serial == ~UserDeletes /\ (Manual = Runs \/ Manual = {})

\* The test that the VM is idle is still true when the run is inserted.
OneRunPerVM ==
    /\ \A r, s \in Runs : Active(r) /\ Active(s) /\ VM(r) = VM(s) => r = s
    /\ apc = "create" => ~Busy(VM(arun))
    /\ wpc = "schedule" => ~Busy(VM(wrun))
    /\ dstep["api"] = "none"

\* A new backup extends the newest point of its job.
ParentLatest ==
    /\ \A r \in Runs : Active(r) /\ plan[r].kind = "INCREMENTAL" => IsLatest(plan[r].parent)
    /\ wpc \in Planned /\ wplan.kind = "INCREMENTAL" => IsLatest(wplan.parent)

\* The FULL that a point depends on.
Base(p) == plan[p].chain

\* A FULL that the minimum can spare: enough FULL points are newer.
From(f) == {g \in FullsOf(JobOf[f]) : stamp[g] >= stamp[f]}
Crowded(f) == Cardinality(From(f)) > MinimumFullChains

\* A point has its base and its parent, depends on the newest FULL there was,
\* and lost files only when a newer FULL exists; a damaged FULL is the oldest.
PointKept(p) ==
    /\ Base(p) \in FullsOf(JobOf[p])
    /\ plan[p].kind = "INCREMENTAL" => plan[p].parent \in points
    /\ \A g \in FullsOf(JobOf[p]) : stamp[g] <= stamp[p] => stamp[g] <= stamp[Base(p)]
    /\ files[p] # "FINAL" => \E g \in FullsOf(JobOf[p]) : stamp[g] > stamp[Base(p)]
    /\ plan[p].kind = "FULL" /\ files[p] # "FINAL"
         => \A g \in FullsOf(JobOf[p]) : stamp[p] <= stamp[g]

CatalogKept == \A p \in points : PointKept(p)

\* The worker deletes whole chains, the oldest first, which the minimum can spare.
ChainsPicked ==
    LET j == JobOf[wrun] IN
    /\ \A p \in Doomed :
          /\ p \in PointsOf(j)
          /\ \A q \in PointsOf(j) : Base(q) = Base(p) => q \in Doomed
          /\ Crowded(Base(p))
          /\ \A g \in FullsOf(j) : stamp[Base(p)] <= stamp[g]
    /\ \A f \in wfulls :
          /\ f \in FullsOf(j) \ Doomed
          /\ Crowded(f)
          /\ \A g \in FullsOf(j) : stamp[g] < stamp[f] => g \in wfulls \cup Doomed

\* Nothing depends on the point that is being deleted.
VictimFree ==
    /\ dpoint["worker"] \notin wchain
    /\ \A q \in points : q # dpoint["worker"] =>
          /\ Base(q) # dpoint["worker"]
          /\ plan[q].kind = "INCREMENTAL" => plan[q].parent # dpoint["worker"]

WorkInv == wpc \in Deleting => ChainsPicked /\ VictimFree

RetentionInv == OneRunPerVM /\ ParentLatest /\ CatalogKept /\ WorkInv
BaseInv == IInv /\ ChainInv /\ OrderInv

LEMMA FullPoint ==
    ASSUME BaseInv, NEW j, NEW f \in FullsOf(j)
    PROVE  f \in Runs /\ f \in points /\ JobOf[f] = j /\ plan[f].kind = "FULL" /\ Base(f) = f
BY DEF BaseInv, IInv, TypeInv, TypeOK, OrderInv, ChainsNamed, FullsOf, PointsOf, Base

LEMMA StampsOrdered ==
    ASSUME BaseInv, NEW p \in points, NEW q \in points
    PROVE  /\ stamp[p] \in Nat /\ stamp[q] \in Nat
           /\ p # q => stamp[p] # stamp[q]
BY DEF BaseInv, IInv, TypeInv, TypeOK, OrderInv, StampsDistinct

\* Sets of points are finite, and smaller ones have fewer members.
LEMMA PointsFinite ==
    ASSUME BaseInv, NEW S, S \subseteq points
    PROVE  /\ IsFiniteSet(S) /\ Cardinality(S) \in Nat
           /\ \A T \in SUBSET S : Cardinality(T) \in Nat /\ Cardinality(T) <= Cardinality(S)
<1>1. S \subseteq Runs  BY DEF BaseInv, IInv, TypeInv, TypeOK
<1>2. IsFiniteSet(S)  BY <1>1, ConstantsAssumption, FS_Subset
<1>3. Cardinality(S) \in Nat  BY <1>2, FS_CardinalityType
<1>4. ASSUME NEW T \in SUBSET S PROVE Cardinality(T) \in Nat /\ Cardinality(T) <= Cardinality(S)
  BY <1>2, FS_Subset, FS_CardinalityType
<1> QED  BY <1>2, <1>3, <1>4

LEMMA CrowdedNewer ==
    ASSUME BaseInv, NEW j, NEW f \in FullsOf(j), Crowded(f)
    PROVE  \E g \in FullsOf(j) : stamp[g] > stamp[f]
<1> SUFFICES ASSUME \A g \in FullsOf(j) : ~(stamp[g] > stamp[f]) PROVE FALSE
  OBVIOUS
<1>1. f \in points /\ JobOf[f] = j  BY FullPoint
<1>2. From(f) \subseteq {f}
  <2> SUFFICES ASSUME NEW g \in From(f), g # f PROVE FALSE
    OBVIOUS
  <2>1. g \in FullsOf(j) /\ stamp[g] >= stamp[f]  BY <1>1 DEF From
  <2>2. g \in points  BY <2>1, FullPoint
  <2>3. stamp[g] \in Nat /\ stamp[f] \in Nat /\ stamp[g] # stamp[f]
    BY <1>1, <2>2, StampsOrdered
  <2> QED  BY <2>1, <2>3
<1>3. Cardinality({f}) = 1  BY FS_Singleton
<1>4. {f} \subseteq points /\ From(f) \in SUBSET {f}  BY <1>1, <1>2
<1>5. Cardinality(From(f)) \in Nat /\ Cardinality(From(f)) <= 1
  BY <1>3, <1>4, PointsFinite
<1>6. MinimumFullChains \in Nat /\ MinimumFullChains >= 1  BY ConstantsAssumption
<1> QED  BY <1>5, <1>6 DEF Crowded

\* A chain is the points with one base.
LEMMA ChainIsBase ==
    ASSUME BaseInv, NEW j, NEW f \in FullsOf(j)
    PROVE  ChainPoints(f) = {p \in PointsOf(j) : Base(p) = f}
<1>1. f \in Runs /\ JobOf[f] = j /\ plan[f].chain = f  BY FullPoint DEF Base
<1>2. ASSUME NEW p \in PointsOf(j), f \in Ancestry(p) PROVE plan[p].chain = f
  <2>1. p \in Runs  BY DEF PointsOf, BaseInv, IInv, TypeInv, TypeOK
  <2> QED  BY <1>1, <1>2, <2>1, ChainOfLineage DEF BaseInv, ChainInv
<1> QED  BY <1>1, <1>2 DEF ChainPoints, Base

\* A point whose chain the minimum can spare is not the newest.
LEMMA SparedNotLatest ==
    ASSUME BaseInv, NEW p \in points, PointKept(p), Crowded(Base(p))
    PROVE  ~IsLatest(p)
<1> SUFFICES ASSUME IsLatest(p) PROVE FALSE
  OBVIOUS
<1>1. Base(p) \in FullsOf(JobOf[p])  BY DEF PointKept
<1>2. PICK g \in FullsOf(JobOf[p]) : stamp[g] > stamp[Base(p)]  BY <1>1, CrowdedNewer
<1>3. g \in points /\ Base(p) \in points /\ g \in PointsOf(JobOf[p])
  BY <1>1, FullPoint DEF FullsOf
<1>4. stamp[g] <= stamp[p]  BY <1>3 DEF IsLatest
<1>5. stamp[g] <= stamp[Base(p)]  BY <1>2, <1>4 DEF PointKept
<1>6. stamp[g] \in Nat /\ stamp[Base(p)] \in Nat  BY <1>3, StampsOrdered
<1> QED  BY <1>2, <1>5, <1>6

\* What retention and reclamation pick: the oldest FULL points, all spared.
Sparable(S, j) ==
    /\ S \subseteq FullsOf(j)
    /\ \A f \in S : Crowded(f) /\ \A g \in FullsOf(j) : stamp[g] < stamp[f] => g \in S

LEMMA SurplusSparable ==
    ASSUME BaseInv, NEW j, NEW keep \in Nat, keep >= MinimumFullChains
    PROVE  Sparable(SurplusFulls(j, keep), j)
<1> DEFINE Up(f) == {g \in FullsOf(j) : stamp[g] >= stamp[f]}
<1>0. SurplusFulls(j, keep) = {f \in FullsOf(j) : Cardinality(Up(f)) > keep}  BY DEF SurplusFulls
<1>u. \A f \in FullsOf(j) : From(f) = Up(f) /\ Up(f) \subseteq points
  BY FullPoint DEF From
<1>c. \A f \in FullsOf(j) : /\ Cardinality(Up(f)) \in Nat
                            /\ \A T \in SUBSET Up(f) : Cardinality(T) <= Cardinality(Up(f))
  BY <1>u, PointsFinite
<1>m. keep \in Nat /\ MinimumFullChains \in Nat  BY ConstantsAssumption
<1>1. ASSUME NEW f \in SurplusFulls(j, keep) PROVE f \in FullsOf(j) /\ Crowded(f)
  <2>1. f \in FullsOf(j) /\ Cardinality(Up(f)) > keep  BY <1>0
  <2> HIDE DEF Up
  <2> QED  BY <2>1, <1>c, <1>u, <1>m DEF Crowded
<1>2. ASSUME NEW f \in SurplusFulls(j, keep), NEW g \in FullsOf(j), stamp[g] < stamp[f]
      PROVE  g \in SurplusFulls(j, keep)
  <2>1. f \in FullsOf(j) /\ Cardinality(Up(f)) > keep  BY <1>0
  <2>2. Up(f) \subseteq Up(g)
    <3> SUFFICES ASSUME NEW h \in FullsOf(j), stamp[h] >= stamp[f] PROVE stamp[h] >= stamp[g]
      OBVIOUS
    <3>1. stamp[f] \in Nat /\ stamp[g] \in Nat /\ stamp[h] \in Nat
      BY <2>1, FullPoint, StampsOrdered
    <3> QED  BY <1>2, <3>1
  <2> HIDE DEF Up
  <2>3. Cardinality(Up(f)) <= Cardinality(Up(g))  BY <1>c, <2>2
  <2>4. Cardinality(Up(g)) > keep  BY <1>c, <1>m, <2>1, <2>3
  <2> QED  BY <1>0, <2>4
<1> QED  BY <1>1, <1>2 DEF Sparable

\* The oldest of them starts a whole chain that nothing else needs.
LEMMA PickedChain ==
    ASSUME BaseInv, CatalogKept, NEW S, Sparable(S, JobOf[wrun]), PickChain(S),
           dpoint["worker"] = NoRun, UNCHANGED <<wrun, points, plan, stamp, dpoint>>
    PROVE  (ChainsPicked /\ VictimFree)'
<1> DEFINE j == JobOf[wrun]
<1>1. PICK f \in S : IsOldest(f, S) /\ wchain' = ChainPoints(f) /\ wfulls' = S \ {f}
  BY DEF PickChain
<1>2. f \in FullsOf(j) /\ f \in PointsOf(j) /\ f \in points /\ Base(f) = f /\ Crowded(f)
  <2>1. f \in FullsOf(j) /\ Crowded(f)  BY DEF Sparable
  <2> QED  BY <2>1, FullPoint DEF FullsOf
<1>3. wchain' = {p \in PointsOf(j) : Base(p) = f}  BY <1>1, <1>2, ChainIsBase
<1>4. Doomed' = wchain'  BY DEF Doomed
<1>5. \A g \in FullsOf(j) : stamp[f] <= stamp[g]
  <2> SUFFICES ASSUME NEW g \in FullsOf(j), ~(stamp[f] <= stamp[g]) PROVE FALSE
    OBVIOUS
  <2>1. stamp[f] \in Nat /\ stamp[g] \in Nat  BY <1>2, FullPoint, StampsOrdered
  <2>2. g \in S  BY <2>1 DEF Sparable
  <2> QED  BY <1>1, <2>2 DEF IsOldest
<1>u. /\ PointsOf(j)' = PointsOf(j) /\ FullsOf(j)' = FullsOf(j) /\ JobOf[wrun]' = j
      /\ \A p : /\ Base(p)' = Base(p) /\ Crowded(p)' = Crowded(p)
               /\ Crowded(Base(p))' = Crowded(Base(p))
  BY DEF PointsOf, FullsOf, Base, Crowded, From
<1>6. ASSUME NEW p \in Doomed'
      PROVE  /\ p \in PointsOf(j)
             /\ \A q \in PointsOf(j) : Base(q) = Base(p) => q \in Doomed'
             /\ Crowded(Base(p))
             /\ \A g \in FullsOf(j) : stamp[Base(p)] <= stamp[g]
  BY <1>2, <1>3, <1>4, <1>5
<1>7. ASSUME NEW h \in wfulls'
      PROVE  /\ h \in FullsOf(j) \ Doomed'
             /\ Crowded(h)
             /\ \A g \in FullsOf(j) : stamp[g] < stamp[h] => g \in wfulls' \cup Doomed'
  <2>1. h \in S /\ h # f  BY <1>1
  <2>2. h \in FullsOf(j) /\ Crowded(h) /\ \A g \in FullsOf(j) : stamp[g] < stamp[h] => g \in S
    BY <2>1 DEF Sparable
  <2>3. Base(h) = h  BY <2>2, FullPoint
  <2> QED  BY <1>1, <1>2, <1>3, <1>4, <2>1, <2>2, <2>3
<1>8. ChainsPicked'
  BY <1>6, <1>7, <1>u DEF ChainsPicked
<1>9. VictimFree'
  <2>1. ASSUME NEW q \in points
        PROVE  Base(q) # NoRun /\ (plan[q].kind = "INCREMENTAL" => plan[q].parent # NoRun)
    <3>1. Base(q) \in FullsOf(JobOf[q]) /\ (plan[q].kind = "INCREMENTAL" => plan[q].parent \in points)
      BY DEF CatalogKept, PointKept
    <3> QED  BY <3>1, FullPoint, ConstantsAssumption DEF BaseInv, IInv, TypeInv, TypeOK
  <2>2. NoRun \notin wchain'
    BY <1>3, ConstantsAssumption DEF PointsOf, BaseInv, IInv, TypeInv, TypeOK
  <2> QED  BY <2>1, <2>2 DEF VictimFree, Base
<1> QED  BY <1>8, <1>9

\* A run starts by being inserted, after its VM was found idle.
LEMMA ActiveFrame ==
    ASSUME TypeInv, RunInv, [Next]_vars
    PROVE  /\ \A r \in Runs : Active(r)' =>
                \/ Active(r)
                \/ state[r] = "NONE" /\ plan'[r] = plan[r] /\ apc = "create" /\ r = arun /\ apc' = "idle"
                \/ state[r] = "NONE" /\ plan'[r] = plan[r] /\ wpc = "schedule" /\ r = wrun /\ wpc' = "idle"
           /\ apc' = "create" => \/ apc = "create" /\ arun' = arun
                                 \/ state' = state /\ ~Busy(VM(arun'))
           /\ wpc' = "schedule" => \/ wpc = "schedule" /\ wrun' = wrun
                                   \/ state' = state /\ ~Busy(VM(wrun'))
           /\ dstep'["api"] = "none" \/ dstep["api"] # "none" \/ UserDeletes
<1> DEFINE Goal ==
             /\ \A r \in Runs : Active(r)' =>
                  \/ Active(r)
                  \/ state[r] = "NONE" /\ plan'[r] = plan[r] /\ apc = "create" /\ r = arun /\ apc' = "idle"
                  \/ state[r] = "NONE" /\ plan'[r] = plan[r] /\ wpc = "schedule" /\ r = wrun /\ wpc' = "idle"
             /\ apc' = "create" => \/ apc = "create" /\ arun' = arun
                                   \/ state' = state /\ ~Busy(VM(arun'))
             /\ wpc' = "schedule" => \/ wpc = "schedule" /\ wrun' = wrun
                                     \/ state' = state /\ ~Busy(VM(wrun'))
             /\ dstep'["api"] = "none" \/ dstep["api"] # "none" \/ UserDeletes
<1> USE DEF TypeInv, TypeOK, RunInv, WorkerRunState, ApiRunState, Active, Threads, runVars, storeVars,
        hostVars, workerVars, apiVars, deleteVars
<1>s. CASE UNCHANGED vars
  BY <1>s DEF vars
<1>1. ASSUME NEW r \in Runs, CreateManualRun(r) PROVE Goal
  BY <1>1 DEF CreateManualRun
<1>2. ASSUME CreateRun PROVE Goal
  BY <1>2 DEF CreateRun, Insert
<1>3. ASSUME NEW r \in Runs, ScheduleDueJob(r) PROVE Goal
  BY <1>3 DEF ScheduleDueJob
<1>4. ASSUME ScheduleInsert PROVE Goal
  BY <1>4 DEF ScheduleInsert, Insert, WorkerTo
<1>5. ASSUME NEW r \in Runs, AdoptRun(r) PROVE Goal
  BY <1>5 DEF AdoptRun
<1>6. ASSUME NEW r \in Runs, PrepareAndStart(r) PROVE Goal
  BY <1>6 DEF PrepareAndStart, Raise
<1>7. ASSUME ReclaimForSpace PROVE Goal
  BY <1>7 DEF ReclaimForSpace, WorkerTo, Raise
<1>8. ASSUME ReclaimNext PROVE Goal
  BY <1>8 DEF ReclaimNext, WorkerTo, Raise
<1>9. ASSUME PrepareNewRun PROVE Goal
  BY <1>9 DEF PrepareNewRun, WorkerTo, Raise
<1>10. ASSUME RequestStart PROVE Goal
  BY <1>10 DEF RequestStart, WorkerTo
<1>11. ASSUME BeginBackup PROVE Goal
  BY <1>11 DEF BeginBackup, WorkerTo, Raise
<1>12. ASSUME MarkRunning PROVE Goal
  BY <1>12 DEF MarkRunning, WorkerTo
<1>13. ASSUME EnterBackingUp PROVE Goal
  BY <1>13 DEF EnterBackingUp, WorkerTo
<1>14. ASSUME NEW r \in Runs, Poll(r) PROVE Goal
  BY <1>14 DEF Poll, BackupCompleted, Raise
<1>15. ASSUME NEW r \in Runs, VerifyAndPublish(r) PROVE Goal
  BY <1>15 DEF VerifyAndPublish, Raise
<1>16. ASSUME EnterFinalizing PROVE Goal
  BY <1>16 DEF EnterFinalizing, WorkerTo
<1>17. ASSUME PublishBundle PROVE Goal
  BY <1>17 DEF PublishBundle, WorkerTo, Raise
<1>18. ASSUME FinalizeLocalBackup PROVE Goal
  BY <1>18 DEF FinalizeLocalBackup, RollBack, WorkerTo, Raise, RollBack, Raise, WorkerTo
<1>19. ASSUME NEW r \in Runs, FinalizationInterrupted(r) PROVE Goal
  BY <1>19 DEF FinalizationInterrupted, Raise
<1>20. ASSUME EnforceFullRetention PROVE Goal
  BY <1>20 DEF EnforceFullRetention, WorkerTo
<1>21. ASSUME RetainNext PROVE Goal
  BY <1>21 DEF RetainNext, WorkerTo
<1>22. ASSUME RecoverRuns PROVE Goal
  BY <1>22 DEF RecoverRuns, Uncertain, WorkerTo
<1>23. ASSUME DeleteChain PROVE Goal
  BY <1>23 DEF DeleteChain, Deletable, StartDelete, Raise
<1>24. ASSUME NEW r \in Runs, RestorePointDelete(r) PROVE Goal
  BY <1>24 DEF RestorePointDelete, Deletable, StartDelete
<1>25. ASSUME NEW t \in Threads, RemoveFiles(t) PROVE Goal
  BY <1>25 DEF RemoveFiles, RmtreeError, DeleteFails, EndDelete, Raise
<1>26. ASSUME NEW t \in Threads, RemoveRow(t) PROVE Goal
  BY <1>26 DEF RemoveRow, DeleteFails, EndDelete, Raise
<1>27. ASSUME NEW r \in Runs, BackupEnds(r) PROVE Goal
  BY <1>27 DEF BackupEnds
<1>28. ASSUME Crash PROVE Goal
  BY <1>28 DEF Crash
<1>29. ASSUME IdleTick PROVE Goal
  BY <1>29 DEF IdleTick, vars
<1> QED
  BY <1>s, <1>1, <1>2, <1>3, <1>4, <1>5, <1>6, <1>7, <1>8, <1>9, <1>10, <1>11, <1>12,
     <1>13, <1>14, <1>15, <1>16, <1>17, <1>18, <1>19, <1>20, <1>21, <1>22, <1>23, <1>24,
     <1>25, <1>26, <1>27, <1>28, <1>29
     DEF Next, Worker, Api, AdvanceRun, ContinueRun, Threads

LEMMA SerialStep ==
    ASSUME Serial, BaseInv, OneRunPerVM, [Next]_vars
    PROVE  OneRunPerVM'
<1> USE DEF OneRunPerVM
<1>a. TypeInv /\ RunInv  BY DEF BaseInv, IInv
<1>t. /\ wpc = "schedule" => wrun \in Runs
      /\ apc = "create" => arun \in Runs
      /\ wpc' = "schedule" => wrun' \in Runs
      /\ apc' = "create" => arun' \in Runs
  BY <1>a, TypeStep DEF TypeInv, TypeOK
<1>1. ~(apc = "create" /\ wpc = "schedule") /\ ~(apc' = "create" /\ wpc' = "schedule")
  <2>1. RunInv'  BY <1>a, RunStep
  <2> QED  BY <1>a, <1>t, <2>1 DEF Serial, RunInv, WorkerRunState, ApiRunState
<1>2. dstep'["api"] = "none"  BY <1>a, ActiveFrame DEF Serial
<1>3. \/ \A r \in Runs : Active(r)' => Active(r)
      \/ /\ apc = "create" /\ apc' = "idle"
         /\ \A r \in Runs : Active(r)' => Active(r) \/ r = arun
      \/ /\ wpc = "schedule" /\ wpc' = "idle"
         /\ \A r \in Runs : Active(r)' => Active(r) \/ r = wrun
  BY <1>a, <1>1, ActiveFrame
<1>v. \A r \in Runs : VM(r)' = VM(r)  BY DEF VM
<1>4. ASSUME NEW r \in Runs, NEW s \in Runs, Active(r)', Active(s)', VM(r) = VM(s) PROVE r = s
  BY <1>3, <1>4, <1>t DEF Busy
<1>5. apc' = "create" => ~Busy(VM(arun))'
  <2> SUFFICES ASSUME apc' = "create" PROVE ~Busy(VM(arun))'
    OBVIOUS
  <2>1. CASE apc = "create" /\ arun' = arun
    <3>1. \A r \in Runs : Active(r)' => Active(r)
      BY <1>1, <1>3, <2>1
    <3> QED  BY <1>t, <2>1, <3>1 DEF Busy, VM
  <2>2. CASE state' = state /\ ~Busy(VM(arun'))
    BY <2>2 DEF Busy, VM, Active
  <2> QED  BY <1>a, <2>1, <2>2, ActiveFrame
<1>6. wpc' = "schedule" => ~Busy(VM(wrun))'
  <2> SUFFICES ASSUME wpc' = "schedule" PROVE ~Busy(VM(wrun))'
    OBVIOUS
  <2>1. CASE wpc = "schedule" /\ wrun' = wrun
    <3>1. \A r \in Runs : Active(r)' => Active(r)
      BY <1>1, <1>3, <2>1
    <3> QED  BY <1>t, <2>1, <3>1 DEF Busy, VM
  <2>2. CASE state' = state /\ ~Busy(VM(wrun'))
    BY <2>2 DEF Busy, VM, Active
  <2> QED  BY <1>a, <2>1, <2>2, ActiveFrame
<1> QED  BY <1>2, <1>4, <1>5, <1>6, <1>v

\* Without user deletions only the worker takes points from the catalog, and
\* only while it reclaims or retains.
LEMMA WorkerRemoves ==
    ASSUME BaseInv, OneRunPerVM, NEW t \in Threads, RemoveRow(t) \/ RemoveFiles(t)
    PROVE  /\ t = "worker" /\ dstep["worker"] # "none" /\ wpc \in Deleting
           /\ dpoint["worker"] \in Runs /\ dpoint["worker"] \in Doomed
<1>1. dstep[t] # "none"  BY DEF RemoveRow, RemoveFiles
<1>2. t = "worker"  BY <1>1 DEF OneRunPerVM, Threads
<1>3. wpc \in Deleting /\ dpoint["worker"] # NoRun /\ dpoint["worker"] \in Runs \cup {NoRun}
  BY <1>1, <1>2 DEF BaseInv, IInv, TypeInv, TypeOK, WorkerDeletes, Deleting, Threads
<1> QED  BY <1>1, <1>2, <1>3 DEF Doomed

\* What is being deleted is not the newest point of its job.
LEMMA DoomedNotLatest ==
    ASSUME BaseInv, RetentionInv, wpc \in Deleting, NEW p \in Doomed
    PROVE  p \in points /\ JobOf[p] = JobOf[wrun] /\ PointKept(p) /\ ~IsLatest(p)
<1>1. p \in PointsOf(JobOf[wrun]) /\ Crowded(Base(p))
  BY DEF RetentionInv, WorkInv, ChainsPicked
<1>2. p \in points /\ JobOf[p] = JobOf[wrun]  BY <1>1 DEF PointsOf
<1>3. PointKept(p)  BY <1>2 DEF RetentionInv, CatalogKept
<1> QED  BY <1>1, <1>2, <1>3, SparedNotLatest

LEMMA LatestFrame ==
    ASSUME BaseInv, RetentionInv, [Next]_vars, NEW q, IsLatest(q),
           ~FinalizeLocalBackup \/ UNCHANGED <<points, stamp>> \/ JobOf[q] # JobOf[wrun]
    PROVE  q \in points' /\ \A x \in points' : JobOf[x] = JobOf[q] => stamp'[x] <= stamp'[q]
<1> DEFINE Goal == q \in points' /\ \A x \in points' : JobOf[x] = JobOf[q] => stamp'[x] <= stamp'[q]
<1>1. q \in points /\ \A p \in PointsOf(JobOf[q]) : stamp[p] <= stamp[q]  BY DEF IsLatest
<1>t. points \subseteq Runs  BY DEF BaseInv, IInv, TypeInv, TypeOK
<1>2. CASE points' = points /\ stamp' = stamp
  BY <1>1, <1>2 DEF IsLatest, PointsOf
<1>3. CASE FinalizeLocalBackup /\ JobOf[q] # JobOf[wrun]
  <2>1. JobOf[q] # JobOf[wrun]  BY <1>3
  <2>2. wrun \in Runs /\ q # wrun
    BY <1>3, <2>1 DEF FinalizeLocalBackup, BaseInv, IInv, TypeInv, TypeOK
  <2>3. points' \subseteq points \cup {wrun} /\ points \subseteq points'
    BY <1>3 DEF FinalizeLocalBackup, RollBack
  <2>4. \A p \in Runs : p # wrun => stamp'[p] = stamp[p]
    BY <1>3 DEF FinalizeLocalBackup, RollBack, BaseInv, IInv, TypeInv, TypeOK
  <2>5. \A p \in points' : JobOf[p] = JobOf[q] => p \in points /\ stamp'[p] = stamp[p]
    BY <1>t, <2>1, <2>3, <2>4
  <2>6. q \in points' /\ stamp'[q] = stamp[q]  BY <1>1, <1>t, <2>2, <2>3, <2>4
  <2> QED  BY <1>1, <2>5, <2>6 DEF IsLatest, PointsOf
<1>4. ASSUME NEW t \in Threads, RemoveRow(t) PROVE Goal
  <2>1. t = "worker" /\ wpc \in Deleting /\ dpoint["worker"] \in Doomed
    BY <1>4, WorkerRemoves DEF RetentionInv
  <2>2. q # dpoint["worker"]  BY <2>1, DoomedNotLatest
  <2>3. points' = points \ {dpoint["worker"]} /\ stamp' = stamp  BY <1>4, <2>1 DEF RemoveRow
  <2> QED  BY <1>1, <2>2, <2>3 DEF IsLatest, PointsOf
<1>5. CASE RequestStart
  BY <1>2, <1>5 DEF RequestStart, storeVars
<1> QED  BY <1>2, <1>3, <1>4, <1>5, CatalogFrame

LEMMA ParentLatestStep ==
    ASSUME BaseInv, RetentionInv, [Next]_vars
    PROVE  ParentLatest'
<1>i. TypeInv /\ RunInv /\ OneRunPerVM /\ ParentLatest  BY DEF BaseInv, IInv, RetentionInv
<1>1. ASSUME NEW r \in Runs, Active(r)', plan'[r].kind = "INCREMENTAL"
      PROVE  IsLatest(plan[r].parent)'
  <2>1. CASE Active(r) /\ plan'[r] = plan[r]
    <3>0. PICK q : q = plan[r].parent  OBVIOUS
    <3>1. IsLatest(q)  BY <1>i, <1>1, <2>1, <3>0 DEF ParentLatest
    <3>2. JobOf[q] = JobOf[r]  BY <1>1, <2>1, <3>0 DEF BaseInv, ChainInv, PlansSound, PlanSound
    <3>3. ASSUME FinalizeLocalBackup, ~(points' = points /\ stamp' = stamp) PROVE JobOf[r] # JobOf[wrun]
      <4>1. wrun \in Runs /\ state[wrun] = "FINALIZING" /\ state' = [state EXCEPT ![wrun] = "SUCCESS"]
        BY <1>i, <3>3 DEF FinalizeLocalBackup, RollBack, TypeInv, TypeOK
      <4>2. r # wrun  BY <1>i, <1>1, <4>1 DEF Active, TypeInv, TypeOK
      <4>3. Active(wrun)  BY <4>1 DEF Active
      <4> QED  BY <1>i, <2>1, <4>1, <4>2, <4>3 DEF OneRunPerVM, VM
    <3>5. q \in points' /\ \A x \in points' : JobOf[x] = JobOf[q] => stamp'[x] <= stamp'[q]
      BY <3>1, <3>2, <3>3, LatestFrame
    <3>6. plan'[r].parent = q  BY <2>1, <3>0
    <3> QED  BY <3>5, <3>6 DEF IsLatest, PointsOf
  <2>2. CASE RequestStart
    <3>1. wrun \in Runs /\ plan' = [plan EXCEPT ![wrun] = wplan] /\ points' = points /\ stamp' = stamp
          /\ state' = state /\ wpc \in Planned
      BY <1>i, <2>2 DEF RequestStart, storeVars, TypeInv, TypeOK, Planned
    <3>2. CASE r = wrun
      <4>1. plan'[r] = wplan  BY <1>i, <3>1, <3>2 DEF TypeInv, TypeOK
      <4>2. IsLatest(wplan.parent)  BY <1>i, <1>1, <3>1, <4>1 DEF ParentLatest
      <4> QED  BY <3>1, <4>1, <4>2 DEF IsLatest, PointsOf
    <3>3. CASE r # wrun
      BY <1>i, <1>1, <2>1, <3>1, <3>3 DEF Active, TypeInv, TypeOK
    <3> QED  BY <3>2, <3>3
  <2>3. CASE ~RequestStart
    <3>1. plan' = plan
      BY <2>3, CatalogFrame DEF FinalizeLocalBackup, RemoveRow, runVars
    <3>2. CASE Active(r)  BY <2>1, <3>1, <3>2
    <3>3. CASE state[r] = "NONE"
      <4>1. plan[r].kind = "NONE"  BY <3>3 DEF BaseInv, OrderInv, ChainsNamed
      <4> QED  BY <1>1, <3>1, <4>1
    <3> QED  BY <1>i, <1>1, <3>2, <3>3, ActiveFrame
  <2> QED  BY <2>2, <2>3
<1>2. ASSUME wpc' \in Planned, wplan'.kind = "INCREMENTAL" PROVE IsLatest(wplan.parent)'
  <2>1. ASSUME NEW r \in Runs, PrepareAndStart(r) PROVE IsLatest(wplan.parent)'
    <3>1. ChoosePlan(r) /\ points' = points /\ stamp' = stamp
      BY <1>2, <2>1 DEF PrepareAndStart, Raise, Planned, storeVars
    <3>2. PICK p \in PointsOf(JobOf[r]) : IsLatest(p) /\ wplan'.parent = p
      BY <1>2, <3>1 DEF ChoosePlan, FullPlan, IncrementalPlan
    <3> QED  BY <3>1, <3>2 DEF IsLatest, PointsOf
  <2>2. CASE wpc \in Planned /\ wplan' = wplan
    <3>0. PICK q : q = wplan.parent  OBVIOUS
    <3>1. IsLatest(q)  BY <3>0, <1>i, <1>2, <2>2 DEF ParentLatest
    <3>2. ~FinalizeLocalBackup  BY <2>2 DEF FinalizeLocalBackup, Planned
    <3>4. q \in points' /\ \A x \in points' : JobOf[x] = JobOf[q] => stamp'[x] <= stamp'[q]
      BY <3>1, <3>2, LatestFrame
    <3> QED  BY <2>2, <3>0, <3>4 DEF IsLatest, PointsOf
  <2> QED  BY <1>2, <2>1, <2>2, WorkerPlanFrame
<1> QED
  BY <1>1, <1>2 DEF ParentLatest, IsLatest, PointsOf

LEMMA CatalogKeptStep ==
    ASSUME BaseInv, RetentionInv, [Next]_vars
    PROVE  CatalogKept'
<1>i. /\ TypeInv /\ RunInv /\ OneRunPerVM /\ ParentLatest /\ CatalogKept /\ WorkInv
      /\ points \subseteq Runs /\ wrun \in Runs \cup {NoRun}
  BY DEF BaseInv, IInv, TypeInv, TypeOK, RetentionInv
<1>e. \A p \in points : state[p] \in Terminal  BY DEF BaseInv, IInv, StoreInv, PointsEnded
<1> SUFFICES ASSUME NEW p \in points' PROVE PointKept(p)'
  BY DEF CatalogKept
<1>1. CASE UNCHANGED <<points, plan, stamp>>
  <2>1. p \in points /\ PointKept(p)  BY <1>1, <1>i DEF CatalogKept
  <2>2. /\ FullsOf(JobOf[p])' = FullsOf(JobOf[p]) /\ Base(p)' = Base(p)
    BY <1>1 DEF FullsOf, PointsOf, Base
  <2>3. CASE files'[p] = files[p]
    BY <1>1, <2>1, <2>2, <2>3 DEF PointKept
  <2>4. CASE files'[p] # files[p]
    <3>1. ~(p = wrun /\ wpc \in {"stage", "publish"})
      BY <1>i, <1>e, <2>1 DEF RunInv, WorkerRunState, Terminal
    <3>2. PICK t \in Threads : RemoveFiles(t) /\ p = dpoint[t]
      BY <1>i, <2>1, <2>4, <3>1, FilesFrame
    <3>3. wpc \in Deleting /\ p \in Doomed  BY <1>i, <3>2, WorkerRemoves
    <3>4. /\ JobOf[p] = JobOf[wrun] /\ Crowded(Base(p))
          /\ \A g \in FullsOf(JobOf[p]) : stamp[Base(p)] <= stamp[g]
      BY <1>i, <3>3, DoomedNotLatest DEF WorkInv, ChainsPicked
    <3>5. Base(p) \in FullsOf(JobOf[p])  BY <2>1 DEF PointKept
    <3>6. \E g \in FullsOf(JobOf[p]) : stamp[g] > stamp[Base(p)]
      BY <3>4, <3>5, CrowdedNewer
    <3>7. plan[p].kind = "FULL" => Base(p) = p
      BY <1>i, <2>1 DEF BaseInv, OrderInv, ChainsNamed, Base
    <3> QED  BY <1>1, <2>1, <2>2, <3>4, <3>6, <3>7 DEF PointKept
  <2> QED  BY <2>3, <2>4
<1>2. CASE RequestStart
  <2>1. /\ wrun \in Runs /\ state[wrun] = "PREPARING" /\ plan' = [plan EXCEPT ![wrun] = wplan]
        /\ points' = points /\ stamp' = stamp /\ files' = files
    BY <1>2, <1>i DEF RequestStart, storeVars, TypeInv, TypeOK, RunInv, WorkerRunState
  <2>2. \A x \in points : plan'[x] = plan[x]
    BY <1>i, <1>e, <2>1 DEF Terminal, TypeInv, TypeOK
  <2>3. p \in points /\ PointKept(p)  BY <1>i, <2>1 DEF CatalogKept
  <2>4. FullsOf(JobOf[p])' = FullsOf(JobOf[p]) /\ Base(p)' = Base(p)
    BY <2>1, <2>2, <2>3 DEF FullsOf, PointsOf, Base
  <2> QED  BY <2>1, <2>2, <2>3, <2>4 DEF PointKept
<1>3. CASE FinalizeLocalBackup /\ ~UNCHANGED <<points, plan, stamp>>
  <2>1. /\ wrun \in Runs /\ state[wrun] = "FINALIZING" /\ files[wrun] = "FINAL"
        /\ points' = points \cup {wrun} /\ plan' = plan /\ files' = files
        /\ stamp' = [stamp EXCEPT ![wrun] = clock + 1]
    BY <1>3, <1>i DEF FinalizeLocalBackup, RollBack, BaseInv, IInv, TypeInv, TypeOK, StoreInv,
       BundleFirst
  <2>2. wrun \notin points  BY <1>e, <2>1 DEF Terminal
  <2>3. /\ \A x \in Runs : stamp'[x] = IF x = wrun THEN clock + 1 ELSE stamp[x]
        /\ \A x \in Runs : stamp[x] \in Nat /\ stamp[x] <= clock
        /\ clock \in Nat
    BY <1>i, <2>1 DEF TypeInv, TypeOK, BaseInv, ChainInv, StampsPast
  <2>4. \A j : /\ FullsOf(j)' = FullsOf(j) \cup
                     (IF JobOf[wrun] = j /\ plan[wrun].kind = "FULL" THEN {wrun} ELSE {})
               /\ FullsOf(j) \subseteq points
    BY <2>1 DEF FullsOf, PointsOf
  <2>5. FullsOf(JobOf[p])' = FullsOf(JobOf[p]) \cup
             (IF JobOf[wrun] = JobOf[p] /\ plan[wrun].kind = "FULL" THEN {wrun} ELSE {})
    BY <2>1 DEF FullsOf, PointsOf
  <2>6. Base(p)' = Base(p) /\ p \in Runs  BY <1>i, <2>1 DEF Base
  <2>7. CASE p # wrun
    <3>1. p \in points /\ PointKept(p)  BY <1>i, <2>1, <2>7 DEF CatalogKept
    <3>2. Base(p) \in points /\ Base(p) # wrun /\ Base(p) \in Runs
      BY <1>i, <2>2, <2>4, <3>1 DEF PointKept
    <3>3. ASSUME NEW g \in FullsOf(JobOf[p])', stamp'[g] <= stamp'[p]
          PROVE  stamp'[g] <= stamp'[Base(p)]
      <4>1. g # wrun
        BY <2>1, <2>3, <2>6, <2>7, <3>3
      <4>2. g \in FullsOf(JobOf[p]) /\ g \in Runs  BY <1>i, <2>4, <2>5, <4>1
      <4> QED  BY <2>3, <2>6, <2>7, <3>1, <3>2, <3>3, <4>1, <4>2 DEF PointKept
    <3>4. ASSUME files[p] # "FINAL"
          PROVE  \E g \in FullsOf(JobOf[p])' : stamp'[g] > stamp'[Base(p)]
      <4>1. PICK g \in FullsOf(JobOf[p]) : stamp[g] > stamp[Base(p)]
        BY <3>1, <3>4 DEF PointKept
      <4>2. g \in Runs /\ g # wrun  BY <1>i, <2>2, <2>4
      <4> QED  BY <2>3, <2>5, <3>2, <4>1, <4>2
    <3>5. ASSUME plan[p].kind = "FULL", files[p] # "FINAL", NEW g \in FullsOf(JobOf[p])'
          PROVE  stamp'[p] <= stamp'[g]
      <4>1. CASE g = wrun
        <5>1. stamp[p] <= clock /\ stamp[p] \in Nat /\ stamp'[p] = stamp[p] /\ stamp'[g] = clock + 1
          BY <2>1, <2>3, <2>6, <2>7, <4>1
        <5> QED  BY <2>3, <5>1
      <4>2. CASE g # wrun
        <5>1. g \in FullsOf(JobOf[p]) /\ g \in Runs  BY <1>i, <2>4, <2>5, <4>2
        <5> QED  BY <2>3, <2>6, <2>7, <3>1, <3>5, <4>2, <5>1 DEF PointKept
      <4> QED  BY <4>1, <4>2
    <3>6. plan[p].kind = "INCREMENTAL" => plan[p].parent \in points
      BY <3>1 DEF PointKept
    <3>7. Base(p) \in FullsOf(JobOf[p])'
      BY <2>5, <3>1 DEF PointKept
    <3> QED  BY <2>1, <2>6, <3>3, <3>4, <3>5, <3>6, <3>7 DEF PointKept
  <2>8. CASE p = wrun
    <3>1. plan[p].kind \in {"FULL", "INCREMENTAL"}
      <4>1. plan[wrun].kind # "NONE"
        BY <2>1 DEF BaseInv, ChainInv, PlanRecorded
      <4> QED  BY <1>i, <2>1, <2>8, <4>1 DEF TypeInv, TypeOK, Plans
    <3>2. CASE plan[p].kind = "FULL"
      <4>1. Base(p) = p  BY <2>1, <2>8, <3>2 DEF BaseInv, OrderInv, ChainsNamed, Base
      <4>2. p \in FullsOf(JobOf[p])'  BY <2>5, <2>8, <3>2
      <4> QED  BY <2>1, <2>6, <2>8, <3>2, <4>1, <4>2 DEF PointKept
    <3>3. CASE plan[p].kind = "INCREMENTAL"
      <4> DEFINE q == plan[p].parent
      <4>1. IsLatest(q)
        BY <1>i, <2>1, <2>8, <3>3 DEF ParentLatest, Active
      <4>2. q \in points /\ PointKept(q) /\ \A x \in PointsOf(JobOf[q]) : stamp[x] <= stamp[q]
        BY <1>i, <4>1 DEF IsLatest, CatalogKept
      <4>3. JobOf[q] = JobOf[p] /\ Base(p) = Base(q)
        BY <2>1, <2>8, <3>3 DEF BaseInv, ChainInv, PlansSound, PlanSound, Base
      <4>4. FullsOf(JobOf[p])' = FullsOf(JobOf[p])  BY <2>5, <2>8, <3>3
      <4>5. Base(p) \in FullsOf(JobOf[p])  BY <4>2, <4>3 DEF PointKept
      <4>6. ASSUME NEW g \in FullsOf(JobOf[p]) PROVE stamp'[g] <= stamp'[Base(p)]
        <5>1. g \in PointsOf(JobOf[q])  BY <4>3 DEF FullsOf
        <5>2. stamp[g] <= stamp[Base(p)]  BY <4>2, <4>3, <5>1 DEF PointKept
        <5>3. g # wrun /\ Base(p) # wrun /\ g \in Runs /\ Base(p) \in Runs
          BY <1>i, <2>2, <2>4, <4>5
        <5> QED  BY <2>3, <5>2, <5>3
      <4>7. q \in points'  BY <2>1, <4>2
      <4> QED  BY <2>1, <2>6, <2>8, <3>3, <4>4, <4>5, <4>6, <4>7 DEF PointKept
    <3> QED  BY <3>1, <3>2, <3>3
  <2> QED  BY <2>7, <2>8
<1>4. ASSUME NEW t \in Threads, RemoveRow(t) PROVE PointKept(p)'
  <2> DEFINE d == dpoint["worker"]
  <2>1. t = "worker" /\ wpc \in Deleting /\ d \in Doomed
    BY <1>i, <1>4, WorkerRemoves
  <2>2. points' = points \ {d} /\ plan' = plan /\ stamp' = stamp /\ files' = files
    BY <1>4, <2>1 DEF RemoveRow, runVars
  <2>3. p \in points /\ p # d /\ PointKept(p)  BY <1>i, <2>2 DEF CatalogKept
  <2>4. /\ FullsOf(JobOf[p])' = FullsOf(JobOf[p]) \ {d} /\ Base(p)' = Base(p)
    BY <2>2 DEF FullsOf, PointsOf, Base
  <2>5. Base(p) # d /\ (plan[p].kind = "INCREMENTAL" => plan[p].parent # d)
    BY <1>i, <2>1, <2>3 DEF WorkInv, VictimFree
  <2>6. ASSUME files[p] # "FINAL"
        PROVE  \E g \in FullsOf(JobOf[p]) \ {d} : stamp[g] > stamp[Base(p)]
    <3>1. PICK g \in FullsOf(JobOf[p]) : stamp[g] > stamp[Base(p)]
      BY <2>3, <2>6 DEF PointKept
    <3>2. g # d
      <4> SUFFICES ASSUME g = d PROVE FALSE
        OBVIOUS
      <4>1. Base(d) = d /\ JobOf[d] = JobOf[p] /\ d \in points  BY FullPoint
      <4>2. JobOf[d] = JobOf[wrun] /\ \A h \in FullsOf(JobOf[wrun]) : stamp[Base(d)] <= stamp[h]
        BY <1>i, <2>1, DoomedNotLatest DEF WorkInv, ChainsPicked
      <4>3. Base(p) \in FullsOf(JobOf[p])  BY <2>3 DEF PointKept
      <4>4. Base(p) \in points  BY <4>3, FullPoint
      <4>5. stamp[d] <= stamp[Base(p)]  BY <4>1, <4>2, <4>3
      <4>6. stamp[d] \in Nat /\ stamp[Base(p)] \in Nat  BY <4>1, <4>4, StampsOrdered
      <4> QED  BY <3>1, <4>5, <4>6
    <3> QED  BY <3>1, <3>2
  <2> HIDE DEF d
  <2> QED  BY <2>2, <2>3, <2>4, <2>5, <2>6 DEF PointKept
<1> QED  BY <1>1, <1>2, <1>3, <1>4, CatalogFrame

\* What the deletions rely on, as long as they go on with what they picked.
LEMMA PickedFrame ==
    ASSUME ChainsPicked, UNCHANGED <<wrun, points, plan, stamp, wfulls>>, Doomed' = Doomed
    PROVE  ChainsPicked'
<1>1. /\ PointsOf(JobOf[wrun])' = PointsOf(JobOf[wrun])
      /\ FullsOf(JobOf[wrun])' = FullsOf(JobOf[wrun])
      /\ \A p : /\ Base(p)' = Base(p) /\ Crowded(p)' = Crowded(p)
                /\ Crowded(Base(p))' = Crowded(Base(p))
  BY DEF PointsOf, FullsOf, Base, Crowded, From
<1> QED  BY <1>1 DEF ChainsPicked

LEMMA WorkStep ==
    ASSUME BaseInv, RetentionInv, [Next]_vars
    PROVE  WorkInv'
<1>i. /\ TypeInv /\ RunInv /\ OneRunPerVM /\ CatalogKept /\ WorkInv
      /\ points \subseteq Runs /\ dpoint["worker"] \in Runs \cup {NoRun} /\ NoRun \notin Runs
  BY ConstantsAssumption DEF BaseInv, IInv, TypeInv, TypeOK, RetentionInv, Threads
<1>d. dstep["worker"] = "none" <=> dpoint["worker"] = NoRun
  BY DEF BaseInv, IInv, TypeInv, TypeOK, Threads
<1>1. CASE wpc' \notin Deleting
  BY <1>1 DEF WorkInv
<1>2. ASSUME NEW S, Sparable(S, JobOf[wrun]), PickChain(S), dpoint["worker"] = NoRun,
             UNCHANGED <<wrun, points, plan, stamp, dpoint>>
      PROVE  WorkInv'
  BY <1>2, <1>i, PickedChain DEF WorkInv
<1>3. CASE ReclaimForSpace
  <2>1. CASE wpc' = "reclaim"
    <3>1. /\ PickChain(Reclaimable(JobOf[wrun])) /\ Reclaimable(JobOf[wrun]) # {}
          /\ wpc = "capacity" /\ UNCHANGED <<wrun, points, plan, stamp, dpoint>>
      BY <1>3, <2>1 DEF ReclaimForSpace, WorkerTo, Raise, runVars, storeVars, deleteVars
    <3>2. Reclaimable(JobOf[wrun]) = SurplusFulls(JobOf[wrun], MinimumFullChains)
      BY <3>1 DEF Reclaimable
    <3>3. Sparable(Reclaimable(JobOf[wrun]), JobOf[wrun])
      BY <3>2, SurplusSparable, ConstantsAssumption
    <3>4. dpoint["worker"] = NoRun
      BY <1>i, <1>d, <3>1 DEF TypeInv, WorkerDeletes
    <3> QED  BY <1>2, <3>1, <3>3, <3>4
  <2> QED  BY <1>1, <1>3, <2>1 DEF ReclaimForSpace, WorkerTo, Raise, Deleting
<1>4. CASE EnforceFullRetention
  <2>1. CASE wpc' = "retain"
    <3>1. /\ PickChain(SurplusFulls(JobOf[wrun], FullChainsToRetain))
          /\ wpc = "retention" /\ UNCHANGED <<wrun, points, plan, stamp, dpoint>>
      BY <1>4, <2>1 DEF EnforceFullRetention, WorkerTo, runVars, storeVars, deleteVars
    <3>2. Sparable(SurplusFulls(JobOf[wrun], FullChainsToRetain), JobOf[wrun])
      BY SurplusSparable, ConstantsAssumption
    <3>3. dpoint["worker"] = NoRun
      BY <1>i, <1>d, <3>1 DEF TypeInv, WorkerDeletes
    <3> QED  BY <1>2, <3>1, <3>2, <3>3
  <2> QED  BY <1>1, <1>4, <2>1 DEF EnforceFullRetention, WorkerTo, Deleting
<1>5. CASE ReclaimNext \/ RetainNext
  <2>1. CASE wpc' \in Deleting
    <3>1. /\ PickChain(wfulls) /\ wpc \in Deleting /\ wchain = {} /\ dstep["worker"] = "none"
          /\ UNCHANGED <<wrun, points, plan, stamp, dpoint>>
      BY <1>5, <2>1 DEF ReclaimNext, RetainNext, ChainDeleted, WorkerTo, Raise, Deleting, runVars,
         storeVars, deleteVars
    <3>2. dpoint["worker"] = NoRun /\ Doomed = {}  BY <1>d, <3>1 DEF Doomed
    <3>3. Sparable(wfulls, JobOf[wrun])
      BY <1>i, <3>1, <3>2 DEF WorkInv, ChainsPicked, Sparable
    <3> QED  BY <1>2, <3>1, <3>2, <3>3
  <2> QED  BY <1>1, <2>1
<1>6. CASE DeleteChain
  <2>1. CASE wpc' \in Deleting
    <3>1. PICK d \in wchain :
             /\ IsNextVictim(d, wchain) /\ wchain' = wchain \ {d} /\ dpoint'["worker"] = d
             /\ wpc \in Deleting /\ dstep["worker"] = "none"
             /\ UNCHANGED <<wrun, points, plan, stamp, wfulls>>
      BY <1>6, <2>1 DEF DeleteChain, StartDelete, Raise, Deleting, Threads, runVars, storeVars,
         BaseInv, IInv, TypeInv, TypeOK
    <3>2. ChainsPicked /\ dpoint["worker"] = NoRun /\ d \in Doomed /\ NoRun \notin wchain
      BY <1>i, <1>d, <3>1 DEF WorkInv, Doomed, BaseInv, IInv, TypeInv, TypeOK
    <3>3. Doomed' = Doomed  BY <3>1, <3>2 DEF Doomed
    <3>4. ChainsPicked'  BY <3>1, <3>2, <3>3, PickedFrame
    <3>5. d \in points /\ d \in Runs /\ JobOf[d] = JobOf[wrun]
      BY <1>i, <3>1, <3>2, DoomedNotLatest DEF RetentionInv
    <3>6. ASSUME NEW q \in points, q # d, JobOf[q] = JobOf[d], Base(q) = Base(d)
          PROVE  \/ plan[q].kind = "FULL"
                 \/ plan[q].sequence <= plan[d].sequence
      <4>1. q \in Doomed  BY <3>2, <3>5, <3>6 DEF ChainsPicked, PointsOf
      <4>2. q \in wchain  BY <3>2, <4>1 DEF Doomed
      <4>3. plan[q].sequence \in Nat /\ plan[d].sequence \in Nat
        BY <1>i, <3>5 DEF TypeInv, TypeOK, Plans
      <4> QED  BY <3>1, <4>2, <4>3 DEF IsNextVictim
    <3>7. ASSUME NEW q \in points, q # d
          PROVE  Base(q) # d /\ (plan[q].kind = "INCREMENTAL" => plan[q].parent # d)
      <4>1. Base(q) \in FullsOf(JobOf[q])  BY <1>i DEF CatalogKept, PointKept
      <4>2. q \in Runs /\ plan[q].kind \in {"FULL", "INCREMENTAL"}
        BY <1>i DEF TypeInv, TypeOK, Plans, BaseInv, ChainInv, PlanRecorded
      <4>3. plan[q].sequence \in Nat /\ plan[d].sequence \in Nat
        BY <1>i, <3>5, <4>2 DEF TypeInv, TypeOK, Plans
      <4>4. Base(q) # d
        <5> SUFFICES ASSUME Base(q) = d PROVE FALSE
          OBVIOUS
        <5>1. Base(d) = d /\ JobOf[d] = JobOf[q] /\ plan[d].kind = "FULL"  BY <4>1, FullPoint
        <5>2. plan[q].kind = "INCREMENTAL"
          BY <3>7, <4>2 DEF BaseInv, OrderInv, ChainsNamed, Base
        <5>3. plan[d].sequence = 0  BY <3>5, <5>1 DEF BaseInv, ChainInv, PlansSound, PlanSound
        <5>4. plan[q].sequence > 0
          <6>1. plan[q].parent \in Runs /\ plan[q].sequence = plan[plan[q].parent].sequence + 1
            BY <4>2, <5>2 DEF BaseInv, ChainInv, PlansSound, PlanSound
          <6>2. plan[plan[q].parent].sequence \in Nat
            BY <1>i, <6>1 DEF TypeInv, TypeOK, Plans
          <6> QED  BY <6>1, <6>2
        <5> QED  BY <3>6, <3>7, <4>3, <5>1, <5>2, <5>3, <5>4
      <4>5. ASSUME plan[q].kind = "INCREMENTAL", plan[q].parent = d PROVE FALSE
        <5>1. JobOf[d] = JobOf[q] /\ Base(q) = Base(d) /\ plan[q].sequence = plan[d].sequence + 1
          BY <4>2, <4>5 DEF BaseInv, ChainInv, PlansSound, PlanSound, Base
        <5> QED  BY <3>6, <3>7, <4>3, <4>5, <5>1
      <4> QED  BY <4>4, <4>5
    <3>8. VictimFree'  BY <3>1, <3>7 DEF VictimFree, Base
    <3> QED  BY <3>4, <3>8 DEF WorkInv
  <2> QED  BY <1>1, <2>1
<1>7. CASE RemoveFiles("worker")
  <2>1. CASE wpc' \in Deleting
    <3>1. wpc \in Deleting /\ UNCHANGED <<wrun, points, plan, stamp, wfulls, wchain, dpoint>>
      BY <1>7, <2>1 DEF RemoveFiles, RmtreeError, DeleteFails, Raise, Deleting, runVars, workerVars
    <3>2. ChainsPicked'  BY <1>i, <3>1, PickedFrame DEF WorkInv, Doomed
    <3>3. VictimFree'  BY <1>i, <3>1 DEF WorkInv, VictimFree, Base
    <3> QED  BY <3>2, <3>3 DEF WorkInv
  <2> QED  BY <1>1, <2>1
<1>8. CASE RemoveRow("worker")
  <2>1. CASE wpc' \in Deleting
    <3>0. PICK d : d = dpoint["worker"]  OBVIOUS
    <3>1. d \in Runs /\ d \in Doomed /\ wpc \in Deleting
      BY <1>i, <1>8, <3>0, WorkerRemoves DEF Threads
    <3>2. /\ d \in points /\ JobOf[d] = JobOf[wrun] /\ ChainsPicked /\ VictimFree
      BY <1>i, <3>1, DoomedNotLatest DEF WorkInv
    <3>3. /\ points' = points \ {d} /\ dpoint'["worker"] = NoRun
          /\ UNCHANGED <<wrun, plan, stamp, wfulls, wchain>>
      BY <1>8, <2>1, <3>0, <3>2 DEF RemoveRow, EndDelete, DeleteFails, Raise, Deleting, runVars,
         workerVars, Threads, BaseInv, IInv, TypeInv, TypeOK
    <3>4. Doomed' = Doomed \ {d} /\ d \notin wchain /\ NoRun \notin wchain
      BY <1>i, <3>0, <3>2, <3>3 DEF Doomed, VictimFree, BaseInv, IInv, TypeInv, TypeOK
    <3> DEFINE j == JobOf[wrun]
    <3>5. /\ PointsOf(j)' = PointsOf(j) \ {d} /\ FullsOf(j)' = FullsOf(j) \ {d} /\ JobOf[wrun]' = j
          /\ \A p : Base(p)' = Base(p)
      BY <3>3 DEF PointsOf, FullsOf, Base
    <3>o. ASSUME d \in FullsOf(j), NEW f \in FullsOf(j), f # d PROVE stamp[d] < stamp[f]
      <4>1. Base(d) = d /\ f \in points  BY <3>o, FullPoint
      <4>2. stamp[d] <= stamp[f]  BY <3>1, <3>2, <4>1 DEF ChainsPicked
      <4>3. stamp[d] \in Nat /\ stamp[f] \in Nat /\ stamp[d] # stamp[f]
        BY <3>2, <3>o, <4>1, StampsOrdered
      <4> QED  BY <4>2, <4>3
    <3>c. ASSUME NEW f \in FullsOf(j), f # d, Crowded(f) PROVE Crowded(f)'
      <4>1. JobOf[f] = j /\ f \in points  BY FullPoint
      <4>2. d \notin From(f)
        <5> SUFFICES ASSUME d \in FullsOf(j), stamp[d] >= stamp[f] PROVE FALSE
          BY <4>1 DEF From
        <5>1. stamp[d] < stamp[f] /\ stamp[d] \in Nat /\ stamp[f] \in Nat
          BY <3>2, <3>c, <3>o, <4>1, StampsOrdered
        <5> QED  BY <5>1
      <4>3. From(f)' = From(f)
        BY <3>3, <4>1, <4>2 DEF From, FullsOf, PointsOf
      <4> QED  BY <3>c, <4>3 DEF Crowded
    <3>6. ASSUME NEW p \in Doomed'
          PROVE  /\ p \in PointsOf(j)'
                 /\ \A q \in PointsOf(j)' : Base(q) = Base(p) => q \in Doomed'
                 /\ Crowded(Base(p))'
                 /\ \A g \in FullsOf(j)' : stamp[Base(p)] <= stamp[g]
      <4>1. p \in Doomed /\ p # d  BY <3>4
      <4>2. /\ p \in PointsOf(j) /\ Crowded(Base(p))
            /\ \A q \in PointsOf(j) : Base(q) = Base(p) => q \in Doomed
            /\ \A g \in FullsOf(j) : stamp[Base(p)] <= stamp[g]
        BY <3>2, <4>1 DEF ChainsPicked
      <4>3. p \in points /\ JobOf[p] = j  BY <4>2 DEF PointsOf
      <4>4. Base(p) # d  BY <3>0, <3>2, <4>1, <4>3 DEF VictimFree
      <4>5. Base(p) \in FullsOf(j)  BY <1>i, <4>3 DEF CatalogKept, PointKept
      <4>6. PICK f : f = Base(p)  OBVIOUS
      <4>7. Crowded(f)'  BY <3>c, <4>2, <4>4, <4>5, <4>6
      <4>8. Crowded(Base(p))'
        BY <3>3, <4>6, <4>7 DEF Crowded, From, FullsOf, PointsOf, Base
      <4> QED  BY <3>4, <3>5, <4>1, <4>2, <4>8
    <3>7. ASSUME NEW h \in wfulls'
          PROVE  /\ h \in FullsOf(j)' \ Doomed'
                 /\ Crowded(h)'
                 /\ \A g \in FullsOf(j)' : stamp[g] < stamp[h] => g \in wfulls' \cup Doomed'
      <4>1. /\ h \in wfulls /\ h \in FullsOf(j) \ Doomed /\ Crowded(h)
            /\ \A g \in FullsOf(j) : stamp[g] < stamp[h] => g \in wfulls \cup Doomed
        BY <3>2, <3>3 DEF ChainsPicked
      <4>2. h # d  BY <3>1, <4>1
      <4>3. Crowded(h)'  BY <3>c, <4>1, <4>2
      <4> QED  BY <3>3, <3>4, <3>5, <4>1, <4>2, <4>3
    <3>8. ChainsPicked'
      BY <3>3, <3>5, <3>6, <3>7 DEF ChainsPicked
    <3>9. VictimFree'
      <4>1. ASSUME NEW q \in points
            PROVE  Base(q) # NoRun /\ (plan[q].kind = "INCREMENTAL" => plan[q].parent # NoRun)
        <5>1. Base(q) \in FullsOf(JobOf[q]) /\ (plan[q].kind = "INCREMENTAL" => plan[q].parent \in points)
          BY <1>i DEF CatalogKept, PointKept
        <5> QED  BY <1>i, <5>1, FullPoint
      <4> QED  BY <3>3, <3>4, <4>1 DEF VictimFree, Base
    <3> QED  BY <3>8, <3>9 DEF WorkInv
  <2> QED  BY <1>1, <2>1
<1>9. CASE WorkerUntouched /\ (UNCHANGED <<points, files>> \/ RemoveFiles("api") \/ RemoveRow("api"))
  <2>1. ~RemoveFiles("api") /\ ~RemoveRow("api")
    BY <1>i, WorkerRemoves DEF Threads
  <2>2. UNCHANGED <<wpc, wrun, points, plan, stamp, wfulls, wchain>> /\ dpoint'["worker"] = dpoint["worker"]
    BY <1>9, <2>1 DEF WorkerUntouched, workerVars
  <2>3. CASE wpc \in Deleting
    <3>1. ChainsPicked'  BY <1>i, <2>2, <2>3, PickedFrame DEF WorkInv, Doomed
    <3>2. VictimFree'  BY <1>i, <2>2, <2>3 DEF WorkInv, VictimFree, Base
    <3> QED  BY <3>1, <3>2 DEF WorkInv
  <2> QED  BY <1>1, <2>2, <2>3
<1> QED  BY <1>i, <1>1, <1>3, <1>4, <1>5, <1>6, <1>7, <1>8, <1>9, WorkerFrame

LEMMA RetentionInit == ~UserDeletes /\ Init => RetentionInv
BY DEF Init, RetentionInv, OneRunPerVM, ParentLatest, CatalogKept, WorkInv, Active, Planned, Deleting,
   Threads

LEMMA RetentionInvariant ==
    ASSUME Serial
    PROVE  Spec => [](BaseInv /\ RetentionInv)
<1>1. BaseInv /\ RetentionInv /\ [Next]_vars => RetentionInv'
  BY SerialStep, ParentLatestStep, CatalogKeptStep, WorkStep DEF RetentionInv
<1>2. Init => RetentionInv  BY RetentionInit DEF Serial
<1>3. IInv /\ ChainInv /\ OrderInv => BaseInv  BY DEF BaseInv
<1> QED  BY OrderedInvariant, <1>1, <1>2, <1>3, PTL DEF Spec

LEMMA LineageKept ==
    ASSUME BaseInv, CatalogKept, NEW p \in points
    PROVE  \A a \in Ancestry(p) : a \in points /\ JobOf[a] = JobOf[p] /\ Base(a) = Base(p)
<1>t. TypeOK /\ PlansSound /\ p \in Runs /\ points \subseteq Runs
  BY DEF BaseInv, IInv, TypeInv, TypeOK, ChainInv
<1> DEFINE S == {a \in points : JobOf[a] = JobOf[p]}
<1>1. S \in SUBSET Runs /\ p \in S  BY <1>t
<1>2. ClosedUnderParent(S, points, plan)
  <2> SUFFICES ASSUME NEW x \in S, plan[x].kind = "INCREMENTAL" PROVE plan[x].parent \in S
    BY DEF ClosedUnderParent
  <2>1. plan[x].parent \in points  BY DEF CatalogKept, PointKept
  <2>2. JobOf[plan[x].parent] = JobOf[x]  BY <1>t DEF PlansSound, PlanSound
  <2> QED  BY <2>1, <2>2
<1>3. AncestryIn(p, points, plan) \subseteq S  BY <1>t, <1>1, <1>2, AncestryLeast
<1>4. Ancestry(p) \subseteq S  BY <1>t, <1>3, AncestryIsAncestryIn
<1> QED  BY <1>t, <1>4, ChainOfLineage DEF Base

\* Automatic deletion never leaves an incremental without its chain, for every
\* number of runs and chains and whenever a deletion fails or the daemon dies
\* in the middle of a chain (newest first, FULL last, in _delete_chain; a new
\* incremental extends the newest point only).
THEOREM NoOrphanAlways ==
    ASSUME Serial
    PROVE  Spec => []NoOrphanIncremental
<1>1. BaseInv /\ RetentionInv => NoOrphanIncremental
  BY LineageKept DEF RetentionInv, NoOrphanIncremental, HasLineage
<1> QED  BY <1>1, RetentionInvariant, PTL

\* The newest restore point of a job is restorable at every moment, catalog and
\* files, for every retention policy: also while older chains are deleted, after
\* a deletion failed half-way and after a crash.
THEOREM LatestRestorableAlways ==
    ASSUME Serial
    PROVE  Spec => []LatestRestorable
<1>1. BaseInv /\ RetentionInv => LatestRestorable
  <2> SUFFICES ASSUME BaseInv, CatalogKept, NEW p \in points, IsLatest(p),
                      NEW a \in Ancestry(p), files[a] # "FINAL"
               PROVE  FALSE
    BY LineageKept DEF RetentionInv, LatestRestorable, Restorable
  <2>1. a \in points /\ JobOf[a] = JobOf[p] /\ Base(a) = Base(p)  BY LineageKept
  <2>2. PointKept(a) /\ PointKept(p)  BY <2>1 DEF CatalogKept
  <2>3. PICK g \in FullsOf(JobOf[p]) : stamp[g] > stamp[Base(p)]  BY <2>1, <2>2 DEF PointKept
  <2>4. Base(p) \in FullsOf(JobOf[p])  BY <2>2 DEF PointKept
  <2>5. g \in points /\ Base(p) \in points  BY <2>4, FullPoint
  <2>6. stamp[g] <= stamp[p]  BY <2>3 DEF IsLatest, FullsOf
  <2>7. stamp[g] <= stamp[Base(p)]  BY <2>2, <2>3, <2>6 DEF PointKept
  <2>8. stamp[g] \in Nat /\ stamp[Base(p)] \in Nat  BY <2>5, StampsOrdered
  <2> QED  BY <2>3, <2>7, <2>8
<1> QED  BY <1>1, RetentionInvariant, PTL

\* The files of a FULL are only touched while at least minimum_full_chains newer
\* complete FULL backups of the job remain, for every policy of retention and of
\* space reclamation (_reclaimable_fulls and enforce_full_retention count
\* catalog rows, not bundles; the damaged ones are always the oldest).
THEOREM RetentionKeepsMinimumAlways ==
    ASSUME Serial
    PROVE  Spec => RetentionKeepsMinimum
<1> DEFINE Complete(f) == {g \in FullsOf(JobOf[f]) : files[g] = "FINAL" /\ stamp[g] > stamp[f]}
           Promise == \A f \in points : plan[f].kind = "FULL" /\ files'[f] # files[f]
                        => Cardinality({g \in FullsOf(JobOf[f]) :
                                           files[g] = "FINAL" /\ stamp[g] > stamp[f]})
                             >= MinimumFullChains
<1>1. ASSUME BaseInv, RetentionInv, [Next]_vars, NEW f \in points, plan[f].kind = "FULL",
             files'[f] # files[f]
      PROVE  Cardinality(Complete(f)) >= MinimumFullChains
  <2>1. /\ TypeInv /\ RunInv /\ OneRunPerVM /\ WorkInv /\ CatalogKept
        /\ points \subseteq Runs /\ f \in Runs /\ state[f] \in Terminal
    BY <1>1 DEF BaseInv, IInv, TypeInv, TypeOK, RetentionInv, StoreInv, PointsEnded
  <2>2. ~(f = wrun /\ wpc \in {"stage", "publish"})
    BY <2>1 DEF RunInv, WorkerRunState, Terminal
  <2>3. PICK t \in Threads : RemoveFiles(t) /\ f = dpoint[t]
    BY <1>1, <2>1, <2>2, FilesFrame
  <2>4. wpc \in Deleting /\ f \in Doomed  BY <1>1, <2>1, <2>3, WorkerRemoves
  <2>5. /\ JobOf[f] = JobOf[wrun] /\ Crowded(Base(f))
        /\ \A g \in FullsOf(JobOf[f]) : stamp[Base(f)] <= stamp[g]
    BY <1>1, <2>1, <2>4, DoomedNotLatest DEF WorkInv, ChainsPicked
  <2>6. f \in FullsOf(JobOf[f]) /\ Base(f) = f
    <3>1. f \in FullsOf(JobOf[f])  BY <1>1 DEF FullsOf, PointsOf
    <3> QED  BY <1>1, <3>1, FullPoint
  <2>7. From(f) \subseteq points /\ f \in From(f) /\ stamp[f] \in Nat
    <3>1. \A g \in FullsOf(JobOf[f]) : g \in points  BY <1>1, FullPoint
    <3>2. stamp[f] \in Nat  BY <1>1, StampsOrdered
    <3> QED  BY <2>6, <3>1, <3>2 DEF From
  <2>8. From(f) \ {f} \subseteq Complete(f)
    <3> SUFFICES ASSUME NEW g \in From(f), g # f PROVE files[g] = "FINAL" /\ stamp[g] > stamp[f]
      BY DEF From
    <3>1. g \in FullsOf(JobOf[f]) /\ stamp[g] >= stamp[f] /\ g \in points  BY <2>7 DEF From
    <3>2. stamp[g] \in Nat /\ stamp[g] # stamp[f]  BY <1>1, <3>1, StampsOrdered
    <3>3. stamp[g] > stamp[f]  BY <2>7, <3>1, <3>2
    <3>4. JobOf[g] = JobOf[f] /\ plan[g].kind = "FULL"  BY <1>1, <3>1, FullPoint
    <3>5. PointKept(g)  BY <2>1, <3>1 DEF CatalogKept
    <3>6. files[g] # "FINAL" => stamp[g] <= stamp[f]
      BY <2>6, <3>4, <3>5 DEF PointKept
    <3> QED  BY <2>7, <3>2, <3>3, <3>6
  <2>9. Complete(f) \subseteq points
    <3>1. \A g \in FullsOf(JobOf[f]) : g \in points  BY <1>1, FullPoint
    <3> QED  BY <3>1
  <2> HIDE DEF Complete
  <2>10. IsFiniteSet(From(f)) /\ Cardinality(From(f)) \in Nat  BY <1>1, <2>7, PointsFinite
  <2>11. Cardinality(From(f) \ {f}) = Cardinality(From(f)) - 1
    BY <2>7, <2>10, FS_RemoveElement
  <2>12. Cardinality(Complete(f)) \in Nat /\ Cardinality(From(f) \ {f}) <= Cardinality(Complete(f))
    BY <1>1, <2>8, <2>9, PointsFinite
  <2>13. Cardinality(From(f)) > MinimumFullChains  BY <2>5, <2>6 DEF Crowded
  <2> QED  BY <2>10, <2>11, <2>12, <2>13, ConstantsAssumption
<1>2. BaseInv /\ RetentionInv /\ [Next]_vars => [Promise]_vars
  BY <1>1
<1>3. Spec => [][Promise]_vars
  BY <1>2, RetentionInvariant, PTL DEF Spec
<1> HIDE DEF Complete
<1> QED  BY <1>3, PTL DEF RetentionKeepsMinimum

=============================================================================
