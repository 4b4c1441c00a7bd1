------------------------ MODULE RecoveryTasks_proofs ------------------------
(***************************************************************************)
(* Theorems about the recovery queue, for any number of tasks, runs and    *)
(* restore points, any plans and any crashes.                              *)
(*                                                                         *)
(* The worker keeps a copy of the details of its task between two          *)
(* transactions.  RInv says what ties the copy to the row (PlanKept), what *)
(* the guard of the purge established and nobody can undo before the rows  *)
(* go (VictimSound), and that a plan is only marked when it is complete.   *)
(***************************************************************************)
EXTENDS RecoveryTasks, FiniteSetTheorems, TLAPS

Marked(details, p) == details.plan[p] \in {"PENDING", "DONE"}

\* Marks are only in plans of a phase that keeps its plan.
MarksSound(details) ==
    details.phase \in {"START", "SELECTING"} => \A p \in Points : ~Marked(details, p)

Purging == worker.step \in {"purge", "unlink", "artifact", "mark"}
Holding == worker.step \in Steps \ {"next"}

TasksSound ==
    /\ \A t \in worker.todo : task[t] # NoTask
    /\ Holding => worker.cur \in Tasks /\ task[worker.cur] # NoTask
    /\ \A t \in Tasks : task[t] # NoTask => MarksSound(task[t].details)
    /\ MarksSound(worker.details)

\* The copy of the worker has the marks of the row.
PlanKept ==
    /\ worker.step = "execute" \/ Purging => worker.details = task[worker.cur].details
    /\ worker.step = "save" =>
          \A p \in Points : Marked(task[worker.cur].details, p) => Marked(worker.details, p)
    /\ Purging => /\ worker.victim \in Points
                  /\ worker.details.plan[worker.victim] = "PENDING"
                  /\ worker.details.phase = "PURGING"

OtherSuccess(p) == \E q \in Points : q # p /\ point[q] = "SUCCESS"

VictimSound ==
    /\ worker.step \in {"unlink", "artifact", "mark"} =>
          point[worker.victim] = "SUCCESS" /\ OtherSuccess(worker.victim)
    /\ worker.step \in {"artifact", "mark"} => disk[worker.victim] = "GONE"
    /\ worker.step = "mark" => worker.victim \notin artifact

RInv ==
    /\ TypeOK /\ TasksSound /\ PlanKept /\ VictimSound
    /\ LastSuccessKept /\ PurgedFromSavedPlan /\ DeletedLeavesNothing

\* A second successful point is one besides the victim.
LEMMA TwoSuccesses ==
    ASSUME NEW p \in Points, Cardinality(CountedSuccessful) > 1
    PROVE  OtherSuccess(p)
<1>1. IsFiniteSet(Points) /\ CountedSuccessful \subseteq Points
  BY FS_Interval, RecoveryAssumption DEF Points, CountedSuccessful
<1>2. IsFiniteSet(CountedSuccessful)
  BY <1>1, FS_Subset
<1>3. SUFFICES ASSUME ~OtherSuccess(p) PROVE FALSE
  OBVIOUS
<1>4. CountedSuccessful \subseteq {p}
  BY <1>3 DEF OtherSuccess, CountedSuccessful
<1>5. Cardinality(CountedSuccessful) <= Cardinality({p})
  BY <1>4, FS_Singleton, FS_Subset
<1>6. Cardinality({p}) = 1 /\ Cardinality(CountedSuccessful) \in Nat
  BY FS_Singleton, <1>2, FS_CardinalityType
<1> QED BY <1>5, <1>6

LEMMA DetailsTyped ==
    NoPlan \in Plans /\ NoDetails \in Details /\ Away \in Workers
BY RecoveryAssumption DEF NoPlan, NoDetails, Away, Plans, Marks, Details, Phases, Workers,
                          Statuses

LEMMA InitRInv == Init => RInv
<1> SUFFICES ASSUME Init PROVE RInv
  OBVIOUS
<1>1. TypeOK
  BY DetailsTyped, RecoveryAssumption DEF Init, TypeOK, RunStates, Points
<1>2. TasksSound
  BY DEF Init, TasksSound, Away, NoDetails, NoPlan, MarksSound, Marked, Holding, Steps
<1>3. PlanKept /\ VictimSound
  BY DEF Init, PlanKept, VictimSound, Away, Purging
<1>4. LastSuccessKept /\ PurgedFromSavedPlan /\ DeletedLeavesNothing
  BY DEF Init, LastSuccessKept, PurgedFromSavedPlan, DeletedLeavesNothing
<1> QED BY <1>1, <1>2, <1>3, <1>4 DEF RInv

\* The parts of RInv about the points hold on when only the worker moves.
LEMMA StoreKept ==
    ASSUME RInv, UNCHANGED <<task, point, artifact, disk>>
    PROVE  LastSuccessKept' /\ PurgedFromSavedPlan' /\ DeletedLeavesNothing'
BY DEF RInv, LastSuccessKept, PurgedFromSavedPlan, DeletedLeavesNothing, CountedSuccessful

\* What execute returns may be saved when it keeps the marks of the row.
LEMMA CheckpointKeeps ==
    ASSUME RInv, NEW details \in Details, NEW status \in Statuses, Holding,
           Checkpoint(details, status), MarksSound(details),
           \A p \in Points : Marked(task[worker.cur].details, p) => Marked(details, p)
    PROVE  RInv'
<1>1. worker' = [worker EXCEPT !.step = "save", !.details = details, !.status = status]
      /\ UNCHANGED <<task, run, point, artifact, disk, inside, crashes>>
  BY DEF Checkpoint
<1>2. worker' \in Workers
  BY <1>1 DEF RInv, TypeOK, Workers, Steps
<1>3. TypeOK'
  BY <1>1, <1>2 DEF RInv, TypeOK
<1>4. /\ worker'.step = "save" /\ worker'.cur = worker.cur
      /\ worker'.todo = worker.todo /\ worker'.details = details
  BY <1>1 DEF RInv, TypeOK, Workers
<1>5. TasksSound'
  BY <1>1, <1>4 DEF RInv, TasksSound, Holding, Steps, MarksSound, Marked
<1>6. PlanKept' /\ VictimSound'
  BY <1>1, <1>4 DEF PlanKept, VictimSound, Purging, Marked
<1> QED BY <1>1, <1>3, <1>5, <1>6, StoreKept DEF RInv

\* The worker goes on with the same task, details and victim.
LEMMA MoveKeeps ==
    ASSUME RInv, UNCHANGED <<task, run, point, artifact, disk, inside, crashes>>,
           NEW step \in Steps \ {"next"}, NEW v \in Points \cup {0}, NEW st \in Statuses,
           worker' = [worker EXCEPT !.step = step, !.victim = v, !.status = st],
           Holding, PlanKept', VictimSound'
    PROVE  RInv'
<1>1. worker' \in Workers /\ worker'.step = step /\ worker'.cur = worker.cur
      /\ worker'.todo = worker.todo /\ worker'.details = worker.details
  BY DEF RInv, TypeOK, Workers
<1>2. TypeOK'
  BY <1>1 DEF RInv, TypeOK
<1>3. TasksSound'
  BY <1>1 DEF RInv, TasksSound, Holding, MarksSound, Marked
<1> QED BY <1>2, <1>3, StoreKept DEF RInv

LEMMA ExecuteKeeps ==
    ASSUME RInv, Start \/ Select \/ PlanReady \/ NothingToPurge \/ Verify
    PROVE  RInv'
<1> DEFINE d == worker.details
<1>1. worker.step = "execute" /\ Holding /\ d = task[worker.cur].details
  BY DEF Start, Select, PlanReady, NothingToPurge, Verify, Executing, RInv, PlanKept, Holding, Steps
<1>2. d \in Details /\ MarksSound(d)
  BY DEF RInv, TypeOK, Workers, TasksSound
<1>3. CASE Start
  <2>1. [d EXCEPT !.phase = "SELECTING", !.plan = NoPlan] \in Details
    BY <1>2, DetailsTyped DEF Details, Phases
  <2>2. MarksSound([d EXCEPT !.phase = "SELECTING", !.plan = NoPlan])
    BY <1>2 DEF MarksSound, Marked, NoPlan, Details
  <2>3. \A p \in Points : ~Marked(task[worker.cur].details, p)
    BY <1>1, <1>2, <1>3 DEF Start, MarksSound
  <2> QED BY <1>1, <1>3, <2>1, <2>2, <2>3, CheckpointKeeps DEF Start, Statuses
<1>4. CASE Select
  <2> DEFINE e == [d EXCEPT !.phase = "PLAN_READY",
                     !.plan = [p \in Points |-> IF p \in ReclaimCandidates THEN "unmarked" ELSE "no"]]
  <2>1. e \in Details /\ MarksSound(e)
    BY <1>2 DEF Details, Phases, Plans, Marks, MarksSound
  <2>3. \A p \in Points : ~Marked(task[worker.cur].details, p)
    BY <1>1, <1>2, <1>4 DEF Select, MarksSound
  <2>4. Checkpoint(e, "CHECKPOINT_SAVED")
    BY <1>4 DEF Select
  <2> QED BY <1>1, <2>1, <2>3, <2>4, CheckpointKeeps DEF Statuses
<1>5. ASSUME NEW ph \in Phases \ {"START", "SELECTING"}, NEW st \in Statuses,
             Checkpoint([d EXCEPT !.phase = ph], st)
      PROVE  RInv'
  <2>1. [d EXCEPT !.phase = ph] \in Details /\ MarksSound([d EXCEPT !.phase = ph])
    BY <1>2, <1>5 DEF Details, MarksSound
  <2>2. \A p \in Points : Marked(task[worker.cur].details, p) => Marked([d EXCEPT !.phase = ph], p)
    BY <1>1, <1>2 DEF Marked, Details
  <2> QED BY <1>1, <1>5, <2>1, <2>2, CheckpointKeeps
<1>6. CASE PlanReady \/ NothingToPurge
  BY <1>5, <1>6 DEF PlanReady, NothingToPurge, Phases, Statuses
<1>7. CASE Verify
  <2>1. CASE Checkpoint(d, "SPACE_AVAILABLE")
    BY <1>1, <1>2, <2>1, CheckpointKeeps DEF Statuses
  <2>2. CASE Checkpoint([d EXCEPT !.phase = "PURGING"], "CHECKPOINT_SAVED")
    BY <1>5, <2>2 DEF Phases, Statuses
  <2> QED BY <1>7, <2>1, <2>2 DEF Verify
<1> QED BY <1>3, <1>4, <1>6, <1>7

LEMMA ProcessedSound ==
    ASSUME RInv, Purging
    PROVE  /\ Processed \in Details /\ MarksSound(Processed)
           /\ \A p \in Points : Marked(task[worker.cur].details, p) => Marked(Processed, p)
<1>1. worker.details \in Details /\ worker.victim \in Points /\ worker.details.phase = "PURGING"
      /\ worker.details = task[worker.cur].details
  BY DEF RInv, TypeOK, Workers, PlanKept
<1> DEFINE plan == [worker.details.plan EXCEPT ![worker.victim] = "DONE"]
<1>2. plan \in Plans
  BY <1>1 DEF Details, Plans, Marks
<1>3. Processed.plan = plan /\ Processed.phase \in {"PURGING", "VERIFY"} /\ Processed \in Details
  BY <1>1, <1>2 DEF Processed, Details, Phases
<1>4. \A p \in Points : Marked(worker.details, p) => Marked(Processed, p)
  BY <1>1, <1>3 DEF Marked, Details, Plans
<1> QED BY <1>1, <1>3, <1>4 DEF MarksSound

LEMMA PurgeKeeps ==
    ASSUME RInv, (\E p \in Points : PurgeNext(p)) \/ PurgeRefused \/ PurgeAllowed \/ RemoveFails
                 \/ AlreadyGone
    PROVE  RInv'
<1>1. worker \in Workers
  BY DEF RInv, TypeOK
<1>2. ASSUME NEW p \in Points, PurgeNext(p) PROVE RInv'
  <2>1. worker' = [worker EXCEPT !.step = "purge", !.victim = p, !.status = worker.status]
        /\ UNCHANGED <<task, run, point, artifact, disk, inside, crashes>>
    BY <1>1, <1>2 DEF PurgeNext, Workers
  <2>2. Holding /\ worker.details = task[worker.cur].details
    BY <1>2 DEF PurgeNext, Executing, Holding, Steps, RInv, PlanKept
  <2>3. PlanKept'
    BY <1>1, <1>2, <2>1, <2>2 DEF PlanKept, Purging, PurgeNext, Executing, Pending, Workers
  <2>4. VictimSound'
    BY <1>1, <2>1 DEF VictimSound, Workers
  <2>5. worker.status \in Statuses
    BY <1>1 DEF Workers
  <2> QED BY <2>1, <2>2, <2>3, <2>4, <2>5, MoveKeeps DEF Steps
<1>3. CASE PurgeRefused \/ RemoveFails
  <2>1. Purging /\ Holding /\ Checkpoint(Processed, "CHECKPOINT_SAVED")
    BY <1>3 DEF PurgeRefused, RemoveFails, Purging, Holding, Steps
  <2> QED BY <2>1, ProcessedSound, CheckpointKeeps DEF Statuses
<1>4. CASE PurgeAllowed
  <2>1. worker' = [worker EXCEPT !.step = "unlink", !.victim = worker.victim,
                                 !.status = worker.status]
        /\ UNCHANGED <<task, run, point, artifact, disk, inside, crashes>>
    BY <1>1, <1>4 DEF PurgeAllowed, Workers
  <2>2. Holding /\ Purging /\ worker.victim \in Points /\ worker.status \in Statuses
    BY <1>1, <1>4 DEF PurgeAllowed, Holding, Steps, RInv, PlanKept, Purging, Workers
  <2>3. PlanKept'
    BY <1>1, <2>1, <2>2 DEF RInv, PlanKept, Purging, Workers
  <2>4. point[worker.victim] = "SUCCESS" /\ OtherSuccess(worker.victim)
    BY <1>4, <2>2, TwoSuccesses DEF PurgeAllowed, PlanAllows
  <2>5. VictimSound'
    BY <1>1, <2>1, <2>4 DEF VictimSound, Workers, OtherSuccess
  <2> QED BY <2>1, <2>2, <2>3, <2>5, MoveKeeps DEF Steps
<1>5. CASE AlreadyGone
  <2>1. worker' = [worker EXCEPT !.step = "artifact", !.victim = worker.victim,
                                 !.status = worker.status]
        /\ UNCHANGED <<task, run, point, artifact, disk, inside, crashes>>
    BY <1>1, <1>5 DEF AlreadyGone, Workers
  <2>2. Holding /\ Purging /\ worker.victim \in Points /\ worker.status \in Statuses
    BY <1>1, <1>5 DEF AlreadyGone, Holding, Steps, RInv, PlanKept, Purging, Workers
  <2>3. PlanKept'
    BY <1>1, <2>1, <2>2 DEF RInv, PlanKept, Purging, Workers
  <2>4. VictimSound'
    BY <1>1, <1>5, <2>1 DEF VictimSound, Workers, OtherSuccess, RInv, AlreadyGone
  <2> QED BY <2>1, <2>2, <2>3, <2>4, MoveKeeps DEF Steps
<1> QED BY <1>2, <1>3, <1>4, <1>5

\* The files, the artifact row and the row of the victim go, one after the other.
LEMMA RemovalKeeps ==
    ASSUME RInv, RemoveSome \/ RemoveRest \/ DeleteArtifact \/ MarkDeleted
    PROVE  RInv'
<1> DEFINE v == worker.victim
<1>1. /\ worker \in Workers /\ Purging /\ Holding /\ v \in Points
      /\ worker.details = task[worker.cur].details
      /\ worker.details.plan[v] = "PENDING" /\ worker.details.phase = "PURGING"
      /\ worker.cur \in Tasks /\ task[worker.cur] # NoTask
      /\ UNCHANGED <<task, run, inside, crashes>>
  BY DEF RInv, TypeOK, RemoveSome, RemoveRest, DeleteArtifact, MarkDeleted, Purging, Holding,
         Steps, PlanKept, TasksSound
<1>2. point[v] = "SUCCESS" /\ OtherSuccess(v)
  BY DEF RInv, VictimSound, RemoveSome, RemoveRest, DeleteArtifact, MarkDeleted
<1>3. PurgedFromSavedPlan'
  BY <1>1 DEF RInv, PurgedFromSavedPlan, RemoveSome, RemoveRest, DeleteArtifact, MarkDeleted,
              TypeOK
<1>4. CASE RemoveSome
  <2>1. worker.step = "unlink" /\ UNCHANGED <<worker, point, artifact>>
        /\ disk' = [disk EXCEPT ![v] = "PARTIAL"]
    BY <1>4 DEF RemoveSome
  <2>2. TypeOK' /\ TasksSound' /\ PlanKept' /\ VictimSound' /\ LastSuccessKept'
    BY <1>1, <2>1 DEF RInv, TypeOK, TasksSound, PlanKept, VictimSound, LastSuccessKept,
                      CountedSuccessful, MarksSound, Marked, Holding, Purging, OtherSuccess
  <2>3. DeletedLeavesNothing'
    BY <1>1, <1>2, <2>1 DEF RInv, TypeOK, DeletedLeavesNothing
  <2> QED BY <1>3, <2>2, <2>3 DEF RInv
<1>5. CASE RemoveRest \/ DeleteArtifact
  <2>1. PICK step \in {"artifact", "mark"} :
            worker' = [worker EXCEPT !.step = step] /\ point' = point
            /\ disk' \in {disk, [disk EXCEPT ![v] = "GONE"]} /\ artifact' \in {artifact, artifact \ {v}}
            /\ disk'[v] = "GONE" /\ (step = "mark" => v \notin artifact')
    BY <1>1, <1>5 DEF RemoveRest, DeleteArtifact, RInv, VictimSound, TypeOK
  <2>2. worker' \in Workers /\ worker'.step = step /\ worker'.cur = worker.cur
        /\ worker'.todo = worker.todo /\ worker'.details = worker.details /\ worker'.victim = v
    BY <1>1, <2>1 DEF Workers, Steps
  <2>3. TypeOK'
    BY <1>1, <2>1, <2>2 DEF RInv, TypeOK
  <2>4. TasksSound' /\ PlanKept'
    BY <1>1, <2>1, <2>2 DEF RInv, TasksSound, PlanKept, MarksSound, Marked, Holding, Purging
  <2>5. VictimSound' /\ LastSuccessKept'
    BY <1>1, <1>2, <2>1, <2>2 DEF RInv, VictimSound, LastSuccessKept, CountedSuccessful, OtherSuccess
  <2>6. DeletedLeavesNothing'
    BY <1>1, <1>2, <2>1 DEF RInv, TypeOK, DeletedLeavesNothing
  <2> QED BY <1>3, <2>3, <2>4, <2>5, <2>6 DEF RInv
<1>6. CASE MarkDeleted
  <2>1. /\ point' = [point EXCEPT ![v] = "DELETED"] /\ UNCHANGED <<artifact, disk>>
        /\ worker' = [worker EXCEPT !.step = "save", !.details = Processed,
                                    !.status = "CHECKPOINT_SAVED"]
        /\ disk[v] = "GONE" /\ v \notin artifact
    BY <1>6 DEF MarkDeleted, RInv, VictimSound
  <2>2. /\ Processed \in Details /\ MarksSound(Processed)
        /\ \A p \in Points : Marked(task[worker.cur].details, p) => Marked(Processed, p)
    BY <1>1, ProcessedSound
  <2>3. worker' \in Workers /\ worker'.step = "save" /\ worker'.cur = worker.cur
        /\ worker'.todo = worker.todo /\ worker'.details = Processed
    BY <1>1, <2>1, <2>2 DEF Workers, Steps, Statuses
  <2>4. TypeOK'
    BY <1>1, <2>1, <2>3 DEF RInv, TypeOK
  <2>5. TasksSound' /\ PlanKept' /\ VictimSound'
    BY <1>1, <2>2, <2>3 DEF RInv, TasksSound, PlanKept, VictimSound, MarksSound, Marked, Holding,
                            Purging
  <2>6. LastSuccessKept'
    BY <1>1, <1>2, <2>1 DEF RInv, TypeOK, LastSuccessKept, CountedSuccessful, OtherSuccess
  <2>7. DeletedLeavesNothing'
    BY <1>1, <2>1 DEF RInv, TypeOK, DeletedLeavesNothing
  <2> QED BY <1>3, <2>4, <2>5, <2>6, <2>7 DEF RInv
<1> QED BY <1>4, <1>5, <1>6

\* The worker leaves its task: nothing is tied to a row any more.
LEMMA LeaveKeeps ==
    ASSUME RInv, UNCHANGED <<point, artifact, disk, inside, crashes>>,
           run' \in [Runs -> RunStates], task' \in [Tasks -> TaskRows \cup {NoTask}],
           \A t \in Tasks : /\ task[t] # NoTask => task'[t] # NoTask
                            /\ task'[t] # NoTask => task[t] # NoTask /\ task'[t].details = task[t].details,
           worker' \in Workers, worker'.step \in {"away", "next", "resume"},
           worker'.details = NoDetails, worker'.todo \subseteq worker.todo,
           worker'.step = "resume" => worker'.cur \in Tasks /\ task[worker'.cur] # NoTask
    PROVE  RInv'
<1>1. TypeOK' /\ LastSuccessKept' /\ DeletedLeavesNothing'
  BY DEF RInv, TypeOK, LastSuccessKept, CountedSuccessful, DeletedLeavesNothing
<1>2. PurgedFromSavedPlan'
  BY DEF RInv, PurgedFromSavedPlan
<1>3. PlanKept' /\ VictimSound'
  BY DEF PlanKept, VictimSound, Purging
<1>4. MarksSound(worker'.details)
  BY DEF MarksSound, Marked, NoDetails, NoPlan
<1>5. TasksSound'
  <2>1. \A t \in worker'.todo : task'[t] # NoTask
    BY DEF RInv, TypeOK, TasksSound, Workers
  <2>2. Holding' => worker'.cur \in Tasks /\ task'[worker'.cur] # NoTask
    BY DEF Holding, Steps
  <2>3. \A t \in Tasks : task'[t] # NoTask => MarksSound(task'[t].details)
    BY DEF RInv, TasksSound, MarksSound, Marked
  <2> QED BY <1>4, <2>1, <2>2, <2>3 DEF TasksSound, MarksSound, Marked
<1> QED BY <1>1, <1>2, <1>3, <1>5 DEF RInv

LEMMA LeaveTyped ==
    ASSUME RInv, Holding, NEW step \in {"next", "resume"}, Leave(step)
    PROVE  /\ worker' \in Workers /\ worker'.step = step /\ worker'.details = NoDetails
           /\ worker'.todo = worker.todo
           /\ step = "resume" => worker'.cur = worker.cur
           /\ worker.cur \in Tasks /\ task[worker.cur] # NoTask
BY DetailsTyped DEF RInv, TypeOK, TasksSound, Leave, Away, Workers, Steps

LEMMA EndsKeep ==
    ASSUME RInv, Complete \/ ResumeRun \/ Requeue \/ Fail \/ TasksDone \/ Crash
    PROVE  RInv'
<1>1. task \in [Tasks -> TaskRows \cup {NoTask}] /\ run \in [Runs -> RunStates]
      /\ worker \in Workers
  BY DEF RInv, TypeOK
<1>2. ASSUME NEW st \in {"COMPLETED", "PENDING", "FAILED"}, NEW step \in {"next", "resume"},
             Holding, Leave(step), task' = [task EXCEPT ![worker.cur].state = st],
             UNCHANGED <<run, point, artifact, disk, inside, crashes>>
      PROVE  RInv'
  <2>1. worker.cur \in Tasks /\ task[worker.cur] # NoTask
    BY <1>2, LeaveTyped
  <2>2. task[worker.cur] \in TaskRows
    BY <1>1, <2>1
  <2>3. [task[worker.cur] EXCEPT !.state = st] \in TaskRows
    BY <2>2 DEF TaskRows
  <2>4. [task[worker.cur] EXCEPT !.state = st] # NoTask
    BY <2>2 DEF TaskRows, NoTask
  <2>5. task' \in [Tasks -> TaskRows \cup {NoTask}]
    BY <1>1, <1>2, <2>3
  <2>6. \A t \in Tasks : /\ task[t] # NoTask => task'[t] # NoTask
                         /\ task'[t] # NoTask => task[t] # NoTask /\ task'[t].details = task[t].details
    BY <1>1, <1>2, <2>1, <2>2, <2>4 DEF TaskRows
  <2> QED BY <1>1, <1>2, <2>5, <2>6, LeaveTyped, LeaveKeeps
<1>3. CASE Complete
  BY <1>2, <1>3 DEF Complete, Holding, Steps
<1>4. CASE Requeue
  BY <1>2, <1>4 DEF Requeue, Holding, Steps
<1>5. CASE Fail
  BY <1>2, <1>5 DEF Fail, NoExecutor, Executing, Holding, Steps
<1>6. CASE ResumeRun
  <2>1. Holding /\ Leave("next")
    BY <1>6 DEF ResumeRun, Holding, Steps
  <2>2. task[worker.cur] \in TaskRows
    BY <1>1, <2>1, LeaveTyped
  <2>3. run' \in [Runs -> RunStates]
    BY <1>1, <1>6, <2>2 DEF ResumeRun, TaskRows, RunStates
  <2> QED BY <1>1, <1>6, <2>1, <2>3, LeaveTyped, LeaveKeeps DEF ResumeRun
<1>7. CASE TasksDone
  <2>1. worker' = Away /\ UNCHANGED <<task, run, point, artifact, disk, inside, crashes>>
    BY <1>7 DEF TasksDone
  <2> QED BY <1>1, <2>1, DetailsTyped, LeaveKeeps DEF Away
<1>8. CASE Crash
  <2>1. worker' = Away /\ UNCHANGED <<task, run, point, artifact, disk, inside>>
        /\ crashes' \in 0 .. MaxCrashes
    BY <1>8, RecoveryAssumption DEF Crash, RInv, TypeOK
  <2>2. TypeOK'
    BY <2>1, DetailsTyped DEF RInv, TypeOK
  <2>3. TasksSound' /\ PlanKept' /\ VictimSound'
    BY <2>1 DEF RInv, TasksSound, PlanKept, VictimSound, Holding, Purging, Steps, Away, MarksSound,
                Marked, NoDetails, NoPlan
  <2> QED BY <2>1, <2>2, <2>3, StoreKept DEF RInv
<1> QED BY <1>3, <1>4, <1>5, <1>6, <1>7, <1>8

LEMMA QueueKeeps ==
    ASSUME RInv, ListTasks \/ (\E t \in Tasks : TakeTask(t)) \/ SaveDetails \/ ResumeOnly
    PROVE  RInv'
<1>1. task \in [Tasks -> TaskRows \cup {NoTask}] /\ worker \in Workers
  BY DEF RInv, TypeOK
<1>2. CASE ListTasks
  <2>1. worker' = [worker EXCEPT !.step = "next", !.todo = PendingTasks]
        /\ UNCHANGED <<task, run, point, artifact, disk, inside, crashes>>
    BY <1>2 DEF ListTasks
  <2>2. PendingTasks \subseteq Tasks /\ \A t \in PendingTasks : task[t] # NoTask
    BY <1>1 DEF PendingTasks, NoTask, TaskRows
  <2>3. TypeOK'
    BY <1>1, <2>1, <2>2 DEF RInv, TypeOK, Workers, Steps
  <2>4. TasksSound' /\ PlanKept' /\ VictimSound'
    BY <1>1, <2>1, <2>2 DEF RInv, TasksSound, PlanKept, VictimSound, Holding, Purging, Steps,
                            Workers, MarksSound, Marked
  <2> QED BY <2>1, <2>3, <2>4, StoreKept DEF RInv
<1>3. ASSUME NEW t \in Tasks, TakeTask(t) PROVE RInv'
  <2>1. /\ t \in worker.todo /\ task' = [task EXCEPT ![t].state = "RUNNING"]
        /\ worker' = [worker EXCEPT !.step = "execute", !.todo = @ \ {t}, !.cur = t,
                                    !.details = task[t].details]
        /\ UNCHANGED <<run, point, artifact, disk, inside, crashes>>
    BY <1>3 DEF TakeTask
  <2>2. task[t] # NoTask /\ task[t] \in TaskRows
    BY <1>1, <2>1 DEF RInv, TasksSound
  <2>3. /\ [task[t] EXCEPT !.state = "RUNNING"] \in TaskRows
        /\ [task[t] EXCEPT !.state = "RUNNING"] # NoTask
        /\ [task[t] EXCEPT !.state = "RUNNING"].details = task[t].details
        /\ task[t].details \in Details
    BY <2>2 DEF TaskRows, NoTask
  <2>4. /\ task' \in [Tasks -> TaskRows \cup {NoTask}] /\ task'[t].details = task[t].details
        /\ task'[t] # NoTask
        /\ \A u \in Tasks : u # t => task'[u] = task[u]
    BY <1>1, <2>1, <2>3
  <2>5. /\ worker' \in Workers /\ worker'.step = "execute" /\ worker'.cur = t
        /\ worker'.details = task[t].details /\ worker'.todo \subseteq worker.todo
    BY <1>1, <2>1, <2>3 DEF Workers, Steps
  <2>6. TypeOK'
    BY <2>1, <2>4, <2>5 DEF RInv, TypeOK
  <2>7. TasksSound'
    <3>1. \A u \in worker'.todo : task'[u] # NoTask
      BY <1>1, <2>4, <2>5 DEF RInv, TasksSound, Workers
    <3>2. MarksSound(task[t].details)
      BY <2>2 DEF RInv, TasksSound
    <3>3. \A u \in Tasks : task'[u] # NoTask => MarksSound(task'[u].details)
      BY <2>4, <3>2 DEF RInv, TasksSound, MarksSound, Marked
    <3> QED BY <2>4, <2>5, <3>1, <3>2, <3>3 DEF TasksSound, MarksSound, Marked
  <2>8. PlanKept' /\ VictimSound'
    BY <2>4, <2>5 DEF PlanKept, VictimSound, Purging
  <2>9. LastSuccessKept' /\ DeletedLeavesNothing'
    BY <2>1 DEF RInv, LastSuccessKept, CountedSuccessful, DeletedLeavesNothing
  <2>10. PurgedFromSavedPlan'
    BY <2>1, <2>4 DEF RInv, PurgedFromSavedPlan
  <2> QED BY <2>6, <2>7, <2>8, <2>9, <2>10 DEF RInv
<1>4. CASE SaveDetails
  <2> DEFINE c == worker.cur
  <2>1. /\ worker.step = "save" /\ task' = [task EXCEPT ![c].details = worker.details]
        /\ worker' = [worker EXCEPT !.step = "close"]
        /\ UNCHANGED <<run, point, artifact, disk, inside, crashes>>
    BY <1>4 DEF SaveDetails
  <2>2. c \in Tasks /\ task[c] # NoTask /\ task[c] \in TaskRows
    BY <1>1, <2>1 DEF RInv, TasksSound, Holding, Steps
  <2>3. /\ [task[c] EXCEPT !.details = worker.details] \in TaskRows
        /\ [task[c] EXCEPT !.details = worker.details] # NoTask
        /\ [task[c] EXCEPT !.details = worker.details].details = worker.details
    BY <1>1, <2>2 DEF TaskRows, NoTask, Workers
  <2>4. /\ task' \in [Tasks -> TaskRows \cup {NoTask}] /\ task'[c].details = worker.details
        /\ task'[c] # NoTask
        /\ \A u \in Tasks : u # c => task'[u] = task[u]
    BY <1>1, <2>1, <2>2, <2>3
  <2>5. /\ worker' \in Workers /\ worker'.step = "close" /\ worker'.cur = c
        /\ worker'.details = worker.details /\ worker'.todo = worker.todo
    BY <1>1, <2>1 DEF Workers, Steps
  <2>6. TypeOK'
    BY <2>1, <2>4, <2>5 DEF RInv, TypeOK
  <2>7. TasksSound'
    <3>1. \A u \in worker'.todo : task'[u] # NoTask
      BY <1>1, <2>4, <2>5 DEF RInv, TasksSound, Workers
    <3>2. MarksSound(worker.details)
      BY DEF RInv, TasksSound
    <3>3. \A u \in Tasks : task'[u] # NoTask => MarksSound(task'[u].details)
      BY <2>4, <3>2 DEF RInv, TasksSound, MarksSound, Marked
    <3> QED BY <2>2, <2>4, <2>5, <3>1, <3>2, <3>3 DEF TasksSound, MarksSound, Marked
  <2>8. PlanKept' /\ VictimSound'
    BY <2>5 DEF PlanKept, VictimSound, Purging
  <2>9. LastSuccessKept' /\ DeletedLeavesNothing'
    BY <2>1 DEF RInv, LastSuccessKept, CountedSuccessful, DeletedLeavesNothing
  <2>10. PurgedFromSavedPlan'
    <3> SUFFICES ASSUME NEW p \in Points, disk[p] # "WHOLE"
                 PROVE  \E t \in Tasks : task'[t] # NoTask /\ Marked(task'[t].details, p)
      BY <2>1 DEF PurgedFromSavedPlan, Marked
    <3>1. PICK t \in Tasks : task[t] # NoTask /\ Marked(task[t].details, p)
      BY DEF RInv, PurgedFromSavedPlan, Marked
    <3>2. CASE t = c
      BY <2>1, <2>2, <2>4, <3>1, <3>2 DEF RInv, PlanKept
    <3> QED BY <2>4, <3>1, <3>2
  <2> QED BY <2>6, <2>7, <2>8, <2>9, <2>10 DEF RInv
<1>5. CASE ResumeOnly
  <2>1. worker' = [worker EXCEPT !.step = "close", !.victim = worker.victim, !.status = "RESUMED"]
        /\ UNCHANGED <<task, run, point, artifact, disk, inside, crashes>>
    BY <1>1, <1>5 DEF ResumeOnly, Workers
  <2>2. Holding /\ worker.victim \in Points \cup {0}
    BY <1>1, <1>5 DEF ResumeOnly, Executing, Holding, Steps, Workers
  <2>3. PlanKept' /\ VictimSound'
    BY <1>1, <2>1 DEF PlanKept, VictimSound, Purging, Workers
  <2> QED BY <2>1, <2>2, <2>3, MoveKeeps DEF Steps, Statuses
<1> QED BY <1>2, <1>3, <1>4, <1>5

LEMMA RequestKeeps ==
    ASSUME RInv, Request
    PROVE  RInv'
<1>1. task \in [Tasks -> TaskRows \cup {NoTask}] /\ worker \in Workers
  BY DEF RInv, TypeOK
<1>2. PICK t \in Tasks, r \in Runs, n \in 0 .. MaxRequired :
          \/ RequestReclaim(t, r, n)
          \/ \E marked \in SUBSET Points : Enqueue(t, r, "RECLAIM", marked, MaxRequired)
          \/ \E type \in {"RESUMED", "UNKNOWN"} : Enqueue(t, r, type, {}, 0)
  BY DEF Request
<1>3. PICK row \in TaskRows : /\ task' = [task EXCEPT ![t] = row] /\ MarksSound(row.details)
                              /\ task[t] = NoTask /\ worker.step = "away"
                              /\ UNCHANGED <<run, point, artifact, disk, inside, worker, crashes>>
  <2>1. CASE RequestReclaim(t, r, n)
    <3> DEFINE row == [state |-> "PENDING", type |-> "RECLAIM", run |-> r,
                       details |-> [NoDetails EXCEPT !.required = n]]
    <3>1. [NoDetails EXCEPT !.required = n] \in Details
      BY DetailsTyped DEF Details
    <3>2. row \in TaskRows
      BY <3>1 DEF TaskRows, Types
    <3>3. MarksSound(row.details)
      BY DEF MarksSound, Marked, NoDetails, NoPlan
    <3> QED BY <2>1, <3>2, <3>3 DEF RequestReclaim
  <2>2. ASSUME NEW type \in Types, NEW marked \in SUBSET Points, NEW m \in 0 .. MaxRequired,
               Enqueue(t, r, type, marked, m)
        PROVE  \E row \in TaskRows : /\ task' = [task EXCEPT ![t] = row] /\ MarksSound(row.details)
                              /\ task[t] = NoTask /\ worker.step = "away"
                              /\ UNCHANGED <<run, point, artifact, disk, inside, worker, crashes>>
    <3> DEFINE det == [phase |-> "PURGING", required |-> m,
                       plan |-> [p \in Points |-> IF p \in marked THEN "PENDING" ELSE "no"]]
               row == [state |-> "PENDING", type |-> type, run |-> r, details |-> det]
    <3>1. det \in Details
      BY DEF Details, Phases, Plans, Marks
    <3>2. row \in TaskRows
      BY <3>1 DEF TaskRows
    <3>3. MarksSound(row.details)
      BY DEF MarksSound
    <3> QED BY <2>2, <3>2, <3>3 DEF Enqueue
  <2>3. MaxRequired \in 0 .. MaxRequired /\ 0 \in 0 .. MaxRequired
    BY RecoveryAssumption
  <2> QED BY <1>2, <2>1, <2>2, <2>3 DEF Types
<1>4. row # NoTask
  BY DEF TaskRows, NoTask
<1>5. /\ task' \in [Tasks -> TaskRows \cup {NoTask}] /\ task'[t] = row
      /\ \A u \in Tasks : u # t => task'[u] = task[u]
  BY <1>1, <1>3
<1>6. TypeOK'
  BY <1>3, <1>5 DEF RInv, TypeOK
<1>7. TasksSound'
  BY <1>1, <1>3, <1>4, <1>5 DEF RInv, TasksSound, Holding, Steps, Workers, MarksSound, Marked
<1>8. PlanKept' /\ VictimSound'
  BY <1>3 DEF PlanKept, VictimSound, Purging
<1>9. LastSuccessKept' /\ DeletedLeavesNothing'
  BY <1>3 DEF RInv, LastSuccessKept, CountedSuccessful, DeletedLeavesNothing
<1>10. PurgedFromSavedPlan'
  BY <1>3, <1>5 DEF RInv, PurgedFromSavedPlan
<1> QED BY <1>6, <1>7, <1>8, <1>9, <1>10 DEF RInv

\* RInv is inductive.
LEMMA StepRInv == RInv /\ [Next]_vars => RInv'
<1> SUFFICES ASSUME RInv, [Next]_vars PROVE RInv'
  OBVIOUS
<1>1. CASE Request
  BY <1>1, RequestKeeps
<1>2. CASE WorkerStep
  BY <1>2, QueueKeeps, EndsKeep, ExecuteKeeps, PurgeKeeps, RemovalKeeps DEF WorkerStep
<1>3. ASSUME NEW r \in Runs, EndRun(r) PROVE RInv'
  <2>1. UNCHANGED <<task, point, artifact, disk, inside, worker, crashes>>
        /\ run' \in [Runs -> RunStates]
    BY <1>3 DEF EndRun, RInv, TypeOK, RunStates
  <2>2. TypeOK' /\ TasksSound' /\ PlanKept' /\ VictimSound'
    BY <2>1 DEF RInv, TypeOK, TasksSound, PlanKept, VictimSound, MarksSound, Marked, Holding,
                Purging, OtherSuccess
  <2> QED BY <2>1, <2>2, StoreKept DEF RInv
<1>4. CASE Crash
  BY <1>4, EndsKeep
<1>5. CASE UNCHANGED vars
  <2>1. TypeOK' /\ TasksSound' /\ PlanKept' /\ VictimSound'
    BY <1>5 DEF vars, RInv, TypeOK, TasksSound, PlanKept, VictimSound, MarksSound, Marked, Holding,
                Purging, OtherSuccess
  <2> QED BY <1>5, <2>1, StoreKept DEF RInv, vars
<1> QED BY <1>1, <1>2, <1>3, <1>4, <1>5 DEF Next

\* Every step of the queue, the workflow and the purge keeps the rows, the saved
\* plans and the locals of the worker well typed.
THEOREM RecoveryTypeCorrect == Spec => []TypeOK
<1>1. RInv => TypeOK
  BY DEF RInv
<1> QED BY <1>1, InitRInv, StepRInv, PTL DEF Spec

\* plan_delete: purging never takes the last point that counts as successful,
\* for any plans, made and marked at any time.
THEOREM LastSuccessKeptAlways == Spec => []LastSuccessKept
<1>1. RInv => LastSuccessKept
  BY DEF RInv
<1> QED BY <1>1, InitRInv, StepRInv, PTL DEF Spec

\* update_details, execute: nothing is missing on disk that no saved plan names.
THEOREM PurgedFromSavedPlanAlways == Spec => []PurgedFromSavedPlan
<1>1. RInv => PurgedFromSavedPlan
  BY DEF RInv
<1> QED BY <1>1, InitRInv, StepRInv, PTL DEF Spec

\* PurgeAdapter.delete_restore_point: bundle, artifact row and restore-point row go
\* in this order, so a DELETED point has neither of the others left.
THEOREM DeletedLeavesNothingAlways == Spec => []DeletedLeavesNothing
<1>1. RInv => DeletedLeavesNothing
  BY DEF RInv
<1> QED BY <1>1, InitRInv, StepRInv, PTL DEF Spec
=============================================================================
