------------------------- MODULE LocalRestore_proofs -------------------------
(***************************************************************************)
(* Theorems about the LOCAL restore pipeline, for any number of            *)
(* operations, files, names and directories, and any edits, faults and     *)
(* kills.                                                                  *)
(*                                                                         *)
(* LInv ties the thread to the state that is stored for its operation      *)
(* (ThreadSound), and says which side effects that state still excludes    *)
(* (StageSound): it is the reason why a state that is stored before the    *)
(* effect is enough to fence it after a kill.                              *)
(***************************************************************************)
EXTENDS LocalRestore, TLAPS

Working == {"snapshot", "validate"}
Copying == {"stage", "copy", "opened", "publish", "advance"}
Definer == {"preflight", "prepare", "define", "verify"}
Starter == {"identity", "start", "confirm"}

ThreadSound ==
    /\ task.at # "idle" => task.op \in Ops
    /\ task.at = "idle" => task.op = NoOp
    /\ task.at \in Working => State(task.op) = "VERIFYING"
    /\ task.at \in Copying => State(task.op) = "MATERIALIZING"
    /\ task.at \in Definer => State(task.op) = "DEFINING"
    /\ task.at \in Starter => State(task.op) = "STARTING"
    /\ task.at \in {"copy", "opened", "publish"} => staging[task.op] # NoDir
    /\ task.at = "opened" => task.file \in Files
    /\ task.at = "start" => domains[Name] # NoDomain /\ domains[Name].owner = task.op

\* An operation that has done nothing yet.
Owns(o) ==
    \/ \E r \in Roots : target[r] # NoDir /\ target[r].owner = o
    \/ \E n \in Names : domains[n] # NoDomain /\ domains[n].owner = o

Clean(o) ==
    /\ \A e \in Effects : begun[o][e] = 0
    /\ staging[o] = NoDir
    /\ ~Owns(o)

Untouched(o) == State(o) \in {"ABSENT", "PLANNED", "VERIFYING", "FAILED"}
Undefined(o) == State(o) = "MATERIALIZING" \/ (State(o) = "DEFINING"
                    /\ (task.op = o => task.at \in {"preflight", "prepare"}))

StageSound(o) ==
    /\ \A e \in Effects : begun[o][e] <= 1
    /\ Untouched(o) => Clean(o)
    /\ Undefined(o) => begun[o]["define"] = 0
    /\ State(o) \in {"MATERIALIZING", "DEFINING", "READY"} => begun[o]["start"] = 0

LInv == TypeOK /\ ThreadSound /\ \A o \in Ops : StageSound(o)

LEMMA IdleTyped == Idle \in Tasks /\ NoFiles \in Copies
BY DEF Idle, Tasks, NoFiles, Copies, Steps

LEMMA InitLInv == Init => LInv
<1> SUFFICES ASSUME Init PROVE LInv
  OBVIOUS
<1>1. TypeOK
  BY IdleTyped DEF Init, TypeOK, Contents, Effects
<1>2. ThreadSound
  BY DEF Init, ThreadSound, Idle, Working, Copying, Definer, Starter
<1>3. \A o \in Ops : StageSound(o)
  BY DEF Init, StageSound, Untouched, Clean, Owns, Undefined, Effects, State
<1> QED BY <1>1, <1>2, <1>3 DEF LInv

\* The operation of the thread ends and the thread rests.
LEMMA EndKeeps ==
    ASSUME LInv, task.op \in Ops, NEW s \in Terminal, To(task.op, s), Rest,
           s = "FAILED" => State(task.op) = "VERIFYING",
           UNCHANGED <<disk, outside, todo, begun, verified>>,
           ops[task.op] \in Operations
    PROVE  LInv'
<1>1. ops' = [ops EXCEPT ![task.op] = [ops[task.op] EXCEPT !.state = s]] /\ task' = Idle
      /\ UNCHANGED <<source, staging, target, domains, vms, todo, begun, verified>>
  BY DEF To, Rest, disk, outside
<1>2. [ops[task.op] EXCEPT !.state = s] \in Operations
  BY DEF Operations, Terminal, States
<1>3. TypeOK'
  BY <1>1, <1>2, IdleTyped DEF LInv, TypeOK
<1>4. ThreadSound'
  BY <1>1 DEF ThreadSound, Idle, Working, Copying, Definer, Starter
<1>5. ASSUME NEW o \in Ops PROVE StageSound(o)'
  <2>1. State(o)' = IF o = task.op THEN s ELSE State(o)
    BY <1>1 DEF LInv, TypeOK, State, Operations
  <2>2. Undefined(o)' => Undefined(o)
    BY <1>1, <2>1 DEF Undefined, Terminal, Idle
  <2>3. StageSound(o) /\ (Clean(o) => Clean(o)')
    BY <1>1 DEF LInv, Clean, Owns
  <2> QED BY <1>1, <2>1, <2>2, <2>3 DEF StageSound, Untouched, Terminal
<1> QED BY <1>3, <1>4, <1>5 DEF LInv

\* Whoever works has an operation that was planned.
LEMMA OperationTyped ==
    ASSUME LInv, task.at # "idle"
    PROVE  /\ task.op \in Ops /\ ops[task.op] \in Operations /\ task \in Tasks
           /\ task.at \in Steps \ {"idle"}
           /\ Root \in Roots /\ Name \in Names
<1>1. task.op \in Ops /\ task \in Tasks /\ task.at \in Steps
  BY DEF LInv, TypeOK, ThreadSound, Tasks
<1>2. State(task.op) # "ABSENT"
  BY <1>1 DEF LInv, ThreadSound, Working, Copying, Definer, Starter, Steps
<1>3. ops[task.op] \in Operations
  BY <1>1, <1>2 DEF LInv, TypeOK, State
<1> QED BY <1>1, <1>3 DEF Operations, Root, Name

Giving ==
    \/ SnapshotRefused \/ ValidateRefused \/ StagingRefused \/ OpenRefused \/ RecheckRefused
    \/ RenameRefused \/ PreflightRefused \/ PrepareRefused \/ DefineRefused \/ VerifyRefused
    \/ IdentityRefused \/ StartRefused \/ ConfirmRefused

LEMMA GivingKeeps ==
    ASSUME LInv, Giving \/ CallFails
    PROVE  LInv'
<1>1. task.at # "idle"
  BY DEF Giving, CallFails, At, SnapshotRefused, ValidateRefused, StagingRefused, OpenRefused,
         RecheckRefused, RenameRefused, PreflightRefused, PrepareRefused, DefineRefused,
         VerifyRefused, IdentityRefused, StartRefused, ConfirmRefused
<1>2. /\ To(task.op, IF State(task.op) = "VERIFYING" THEN "FAILED" ELSE "RECOVERY_REQUIRED")
      /\ Rest
      /\ UNCHANGED <<disk, outside, todo, begun, verified>>
  BY DEF Giving, CallFails, GiveUp, SnapshotRefused, ValidateRefused, StagingRefused, OpenRefused,
         RecheckRefused, RenameRefused, PreflightRefused, PrepareRefused, DefineRefused,
         VerifyRefused, IdentityRefused, StartRefused, ConfirmRefused
<1>3. task.op \in Ops /\ ops[task.op] \in Operations
  BY <1>1, OperationTyped
<1>4. CASE State(task.op) = "VERIFYING"
  BY <1>2, <1>3, <1>4, EndKeeps DEF Terminal
<1>5. CASE State(task.op) # "VERIFYING"
  BY <1>2, <1>3, <1>5, EndKeeps DEF Terminal
<1> QED BY <1>4, <1>5

\* Only the thread moves on, within one stage.
LEMMA MoveKeeps ==
    ASSUME LInv, SnapshotFiles \/ (\E f \in Files : OpenVerified(f)) \/ Preflight \/ CheckIdentity
    PROVE  LInv'
<1>1. task.at # "idle" /\ UNCHANGED <<ops, source, staging, target, domains, vms, todo, begun, verified>>
  BY DEF SnapshotFiles, OpenVerified, Preflight, CheckIdentity, At, disk, outside
<1>2. /\ task' \in Tasks /\ task'.op = task.op
      /\ \/ task.at = "snapshot" /\ task'.at = "validate"
         \/ task.at = "copy" /\ task'.at = "opened" /\ task'.file \in Files
         \/ task.at = "preflight" /\ task'.at = "prepare"
         \/ task.at = "identity" /\ task'.at = "start" /\ Frozen(task.op)
  <2>1. CASE SnapshotFiles
    <3>1. [f \in Files |-> Identity(f)] \in Copies
      BY DEF LInv, TypeOK, Copies, Identity
    <3> QED BY <1>1, <2>1, <3>1, OperationTyped DEF SnapshotFiles, At, Tasks, Steps
  <2>2. CASE \E f \in Files : OpenVerified(f)
    BY <1>1, <2>2, OperationTyped DEF OpenVerified, At, Tasks, Steps
  <2>3. CASE Preflight \/ CheckIdentity
    BY <1>1, <2>3, OperationTyped DEF Preflight, CheckIdentity, At, Goto, Tasks, Steps
  <2> QED BY <2>1, <2>2, <2>3
<1>3. TypeOK'
  BY <1>1, <1>2 DEF LInv, TypeOK
<1>4. ThreadSound'
  <2>1. task.at \in Steps /\ task.op \in Ops
    BY <1>1, OperationTyped
  <2> QED BY <1>1, <1>2, <2>1 DEF LInv, ThreadSound, Working, Copying, Definer, Starter, State,
                                  Frozen, Visible, Name
<1>5. \A o \in Ops : StageSound(o)'
  BY <1>1, <1>2 DEF LInv, StageSound, Untouched, Clean, Owns, Undefined, State
<1> QED BY <1>3, <1>4, <1>5 DEF LInv

\* Files are copied or published; nothing of the database moves.
LEMMA CopyKeeps ==
    ASSUME LInv, MakeStaging \/ CopyAndRecheck \/ WriteMarker \/ RenameNoReplace
    PROVE  LInv'
<1> DEFINE o == task.op
<1>1. /\ task.at \in Copying /\ task.at # "idle" /\ task' = [task EXCEPT !.at = task'.at, !.file = task'.file]
      /\ task'.at \in Copying /\ task'.file \in Files \cup {NoFile}
      /\ UNCHANGED <<ops, source, domains, vms, todo, begun, verified>>
  <2>1. task \in Tasks
    BY DEF LInv, TypeOK
  <2> QED BY <2>1 DEF MakeStaging, CopyAndRecheck, WriteMarker, RenameNoReplace, At, Goto, Copying,
                      outside, Tasks
<1>2. o \in Ops /\ ops[o] \in Operations /\ task \in Tasks /\ Root \in Roots /\ State(o) = "MATERIALIZING"
  BY <1>1, OperationTyped DEF LInv, ThreadSound
<1>3. task' \in Tasks /\ task'.op = o
  BY <1>1, <1>2 DEF Tasks, Copying, Steps
<1>4. /\ staging' \in [Ops -> Stagings \cup {NoDir}]
      /\ \A p \in Ops : p # o => staging'[p] = staging[p]
      /\ task'.at \in {"copy", "publish"} => staging'[o] # NoDir
      /\ task'.at # "opened"
  <2>0. staging \in [Ops -> Stagings \cup {NoDir}]
    BY DEF LInv, TypeOK
  <2>1. CASE MakeStaging
    <3>1. [files |-> NoFiles, marker |-> FALSE] \in Stagings
      BY IdleTyped DEF Stagings
    <3> QED BY <1>1, <1>2, <2>0, <2>1, <3>1, NothingApart DEF MakeStaging, Goto, Tasks
  <2>2. CASE CopyAndRecheck
    <3>1. staging[o] \in Stagings /\ task.file \in Files
      BY <1>2, <2>0, <2>2 DEF CopyAndRecheck, At, LInv, ThreadSound
    <3>2. task.snap \in Copies /\ source \in [Files -> Contents]
      BY <1>2 DEF LInv, TypeOK, Tasks
    <3>3. Content(task.file) \in Contents \cup {NoFile}
      BY <3>1, <3>2 DEF Content, Copies
    <3>4. [staging[o] EXCEPT !.files[task.file] = Content(task.file)] \in Stagings
      BY <3>1, <3>3 DEF Stagings, Copies
    <3>5. staging' = [staging EXCEPT ![o] = [staging[o] EXCEPT !.files[task.file] = Content(task.file)]]
      BY <2>2 DEF CopyAndRecheck
    <3> QED BY <1>2, <2>0, <2>2, <3>4, <3>5, NothingApart DEF CopyAndRecheck, Tasks
  <2>3. CASE WriteMarker
    <3>1. staging[o] \in Stagings
      BY <1>2, <2>0, <2>3 DEF WriteMarker, At, LInv, ThreadSound
    <3>2. [staging[o] EXCEPT !.marker = TRUE] \in Stagings
      BY <3>1 DEF Stagings
    <3> QED BY <1>2, <2>0, <2>3, <3>2, NothingApart DEF WriteMarker, Goto, Tasks
  <2>4. CASE RenameNoReplace
    BY <1>2, <2>0, <2>4 DEF RenameNoReplace, Goto, Tasks
  <2> QED BY <2>1, <2>2, <2>3, <2>4
<1>5. /\ target' \in [Roots -> Directories \cup {NoDir}]
      /\ \A r \in Roots : target'[r] = target[r] \/ target'[r].owner = o
  <2>1. CASE MakeStaging \/ CopyAndRecheck \/ WriteMarker
    BY <2>1 DEF MakeStaging, CopyAndRecheck, WriteMarker, LInv, TypeOK
  <2>2. CASE RenameNoReplace
    <3>1. staging[o] \in Stagings
      BY <1>2, <2>2 DEF RenameNoReplace, At, LInv, TypeOK, ThreadSound
    <3>2. Published \in Directories /\ Published.owner = o
      BY <1>2, <3>1 DEF Published, Stagings, Directories
    <3> QED BY <1>2, <2>2, <3>2 DEF RenameNoReplace, LInv, TypeOK
  <2> QED BY <2>1, <2>2
<1>6. TypeOK'
  BY <1>1, <1>3, <1>4, <1>5 DEF LInv, TypeOK
<1>7. ThreadSound'
  BY <1>1, <1>2, <1>3, <1>4 DEF LInv, ThreadSound, Working, Copying, Definer, Starter, State
<1>8. ASSUME NEW p \in Ops PROVE StageSound(p)'
  <2>1. Untouched(p)' => Untouched(p) /\ p # o
    BY <1>1, <1>2 DEF Untouched, State
  <2>2. p # o /\ Clean(p) => Clean(p)'
    BY <1>1, <1>2, <1>4, <1>5 DEF Clean, Owns
  <2>3. Undefined(p)' => Undefined(p)
    BY <1>1, <1>2, <1>3 DEF Undefined, State, Copying
  <2> QED BY <1>1, <2>1, <2>2, <2>3 DEF LInv, StageSound, State
<1> QED BY <1>6, <1>7, <1>8 DEF LInv

\* The state of the thread's operation changes; what exists is left alone.
LEMMA StateKeeps ==
    ASSUME LInv, Validate \/ MarkDefining \/ MarkReady \/ Confirm
    PROVE  LInv'
<1> DEFINE o == task.op
<1>1. task.at # "idle" /\ UNCHANGED <<source, staging, target, domains, vms, todo>>
  BY DEF Validate, MarkDefining, MarkReady, Confirm, At, disk, outside
<1>2. o \in Ops /\ ops[o] \in Operations /\ task \in Tasks
  BY <1>1, OperationTyped
<1>3. CASE Confirm
  BY <1>2, <1>3, EndKeeps DEF Confirm, Terminal, At
<1>4. ASSUME NEW s \in {"MATERIALIZING", "DEFINING", "READY"}, To(o, s)
      PROVE  /\ ops' \in [Ops -> Operations \cup {[state |-> "ABSENT"]}]
             /\ \A p \in Ops : State(p)' = IF p = o THEN s ELSE State(p)
  <2>1. [ops[o] EXCEPT !.state = s] \in Operations
    BY <1>2 DEF Operations, States, Unsafe
  <2> QED BY <1>2, <1>4, <2>1 DEF To, LInv, TypeOK, State, Operations
<1>5. CASE Validate
  <2>1. State(o) = "VERIFYING" /\ Clean(o) /\ StageSound(o)
    BY <1>2, <1>5 DEF Validate, At, LInv, ThreadSound, Working, StageSound, Untouched
  <2>2. begun' = [begun EXCEPT ![o]["copy"] = @ + 1] /\ begun' \in [Ops -> [Effects -> Nat]]
    <3>1. begun[o] \in [Effects -> Nat] /\ "copy" \in Effects
      BY <1>2 DEF LInv, TypeOK, Effects
    <3>2. begun' = [begun EXCEPT ![o]["copy"] = begun[o]["copy"] + 1]
      BY <1>5 DEF Validate, Begin
    <3> QED BY <1>2, <3>1, <3>2 DEF LInv, TypeOK
  <2>3. verified' \in [Ops -> Copies]
    BY <1>2, <1>5 DEF Validate, LInv, TypeOK, Copies
  <2>4. task' \in Tasks /\ task'.op = o /\ task'.at = "stage"
    BY <1>2, <1>5 DEF Validate, Goto, Tasks, Steps
  <2>5. TypeOK'
    BY <1>1, <1>4, <1>5, <2>2, <2>3, <2>4 DEF Validate, LInv, TypeOK
  <2>6. ThreadSound'
    BY <1>2, <1>4, <1>5, <2>4 DEF Validate, ThreadSound, Working, Copying, Definer, Starter
  <2>7. ASSUME NEW p \in Ops PROVE StageSound(p)'
    <3>1. \A e \in Effects : begun'[p][e] = IF p = o /\ e = "copy" THEN 1 ELSE begun[p][e]
      BY <1>2, <2>1, <2>2 DEF LInv, TypeOK, Clean, Effects
    <3>2. State(p)' = IF p = o THEN "MATERIALIZING" ELSE State(p)
      BY <1>4, <1>5 DEF Validate
    <3>3. p # o /\ Clean(p) => Clean(p)'
      BY <1>1, <3>1 DEF Clean, Owns
    <3>4. p # o /\ Undefined(p)' => Undefined(p)
      BY <2>4, <3>2 DEF Undefined
    <3> QED BY <2>1, <3>1, <3>2, <3>3, <3>4 DEF LInv, StageSound, Untouched, Clean, Effects
  <2> QED BY <2>5, <2>6, <2>7 DEF LInv
<1>6. ASSUME NEW s \in {"DEFINING", "READY"}, To(o, s), Rest, UNCHANGED <<begun, verified>>,
             State(o) = "MATERIALIZING" \/ (State(o) = "DEFINING" /\ s = "READY")
      PROVE  LInv'
  <2>1. TypeOK'
    BY <1>1, <1>4, <1>6, IdleTyped DEF Rest, LInv, TypeOK
  <2>2. ThreadSound'
    BY <1>6 DEF Rest, Idle, ThreadSound, Working, Copying, Definer, Starter
  <2>3. ASSUME NEW p \in Ops PROVE StageSound(p)'
    <3>1. State(p)' = IF p = o THEN s ELSE State(p)
      BY <1>4, <1>6
    <3>2. Clean(p) => Clean(p)'
      BY <1>1, <1>6 DEF Clean, Owns
    <3>3. Undefined(p)' => Undefined(p)
      BY <1>6, <3>1 DEF Undefined, Rest, Idle
    <3> QED BY <1>6, <3>1, <3>2, <3>3 DEF LInv, StageSound, Untouched
  <2> QED BY <2>1, <2>2, <2>3 DEF LInv
<1>7. CASE MarkDefining
  <2>1. State(o) = "MATERIALIZING"
    BY <1>7 DEF MarkDefining, At, LInv, ThreadSound, Copying
  <2> QED BY <1>6, <1>7, <2>1 DEF MarkDefining
<1>8. CASE MarkReady
  <2>1. State(o) = "DEFINING"
    BY <1>8 DEF MarkReady, At, LInv, ThreadSound, Definer
  <2> QED BY <1>6, <1>8, <2>1 DEF MarkReady
<1> QED BY <1>3, <1>5, <1>7, <1>8

\* The new definition is written, libvirt gets it, the domain is started.
LEMMA DomainKeeps ==
    ASSUME LInv, Prepare \/ Define \/ Start
    PROVE  LInv'
<1> DEFINE o == task.op
<1>1. task.at # "idle" /\ UNCHANGED <<ops, source, staging, vms, todo, verified>>
  BY DEF Prepare, Define, Start, At, disk, outside
<1>2. /\ o \in Ops /\ task \in Tasks /\ Root \in Roots /\ Name \in Names
      /\ State(o) \in {"DEFINING", "STARTING"}
  BY <1>1, OperationTyped DEF LInv, ThreadSound, Prepare, Define, Start, At, Definer, Starter
<1>3. /\ task' \in Tasks /\ task'.op = o
      /\ \/ Prepare /\ task.at = "prepare" /\ task'.at = "define"
         \/ Define /\ task.at = "define" /\ task'.at = "verify"
         \/ Start /\ task.at = "start" /\ task'.at = "confirm"
  BY <1>2 DEF Prepare, Define, Start, At, Goto, Tasks, Steps
<1>4. /\ target' \in [Roots -> Directories \cup {NoDir}]
      /\ \A r \in Roots : target'[r] = target[r] \/ target'[r].owner = o
  <2>1. CASE Prepare
    <3>1. target[Root] \in Directories
          /\ target[Root].owner = o
      BY <1>2, <2>1 DEF Prepare, Evidence, Stands, MarkerNames, Root, LInv, TypeOK
    <3>2. [target[Root] EXCEPT !.xml = TRUE] \in Directories
          /\ [target[Root] EXCEPT !.xml = TRUE].owner = o
      BY <3>1 DEF Directories
    <3>3. target' = [target EXCEPT ![Root] = [target[Root] EXCEPT !.xml = TRUE]]
      BY <2>1 DEF Prepare
    <3> QED BY <1>2, <3>2, <3>3 DEF LInv, TypeOK
  <2>2. CASE Define \/ Start
    BY <2>2 DEF Define, Start, disk, LInv, TypeOK
  <2> QED BY <1>3, <2>1, <2>2
<1>5. /\ domains' \in [Names -> Domains \cup {NoDomain}]
      /\ \A n \in Names : domains'[n] = domains[n] \/ domains'[n].owner = o
  <2>1. CASE Prepare
    BY <1>3, <2>1 DEF Prepare, outside, LInv, TypeOK, At, Goto, Tasks
  <2>2. CASE Define
    <3>1. Definition(o) \in Domains /\ Definition(o).owner = o
      BY <1>2 DEF Definition, Domains
    <3> QED BY <1>2, <1>3, <2>2, <3>1 DEF Define, LInv, TypeOK, At, Goto, Tasks
  <2>3. CASE Start
    <3>1. domains[Name] \in Domains /\ domains[Name].owner = o
      BY <1>2, <2>3 DEF Start, At, LInv, TypeOK, ThreadSound
    <3>2. [domains[Name] EXCEPT !.running = TRUE] \in Domains
          /\ [domains[Name] EXCEPT !.running = TRUE].owner = o
      BY <3>1 DEF Domains
    <3>3. domains' = [domains EXCEPT ![Name] = [domains[Name] EXCEPT !.running = TRUE]]
      BY <2>3 DEF Start
    <3> QED BY <1>2, <3>2, <3>3 DEF LInv, TypeOK
  <2> QED BY <1>3, <2>1, <2>2, <2>3
<1>6. /\ begun' \in [Ops -> [Effects -> Nat]]
      /\ \A p \in Ops, e \in Effects :
            begun'[p][e] = IF Prepare /\ p = o /\ e = "define" THEN 1 ELSE begun[p][e]
  <2>1. CASE Prepare
    <3>1. begun[o]["define"] = 0
      BY <1>2, <1>3, <2>1 DEF Prepare, At, LInv, StageSound, Undefined, ThreadSound, Definer
    <3> QED BY <1>2, <2>1, <3>1 DEF Prepare, Begin, LInv, TypeOK, Effects
  <2>2. CASE ~Prepare
    BY <2>2 DEF Define, Start, LInv, TypeOK
  <2> QED BY <2>1, <2>2
<1>7. TypeOK'
  BY <1>1, <1>3, <1>4, <1>5, <1>6 DEF LInv, TypeOK
<1>8. ThreadSound'
  <2>1. Name' = Name /\ State(o)' = State(o)
    BY <1>1, <1>3 DEF Name, State
  <2> QED BY <1>2, <1>3, <2>1 DEF LInv, ThreadSound, Working, Copying, Definer, Starter
<1>9. ASSUME NEW p \in Ops PROVE StageSound(p)'
  <2>1. State(p)' = State(p) /\ (Untouched(p) => p # o)
    BY <1>1, <1>2 DEF State, Untouched
  <2>2. p # o /\ Clean(p) => Clean(p)'
    BY <1>1, <1>2, <1>4, <1>5, <1>6 DEF Clean, Owns
  <2>3. Undefined(p)' => Undefined(p) /\ p # o
    BY <1>2, <1>3, <2>1 DEF Undefined
  <2> QED BY <1>6, <2>1, <2>2, <2>3 DEF LInv, StageSound, Untouched, Effects
<1> QED BY <1>7, <1>8, <1>9 DEF LInv

\* The API plans an operation that has done nothing.
LEMMA CreateKeeps == ASSUME LInv, NEW q \in Ops, Create(q) PROVE LInv'
<1>1. UNCHANGED <<source, staging, target, domains, vms, task, todo, begun, verified>>
  BY DEF Create, disk, outside
<1>2. PICK n \in Names, r \in Roots, s \in BOOLEAN, k \in {"FULL", "INCREMENTAL"} :
         ops' = [ops EXCEPT ![q] = [state |-> "PLANNED", name |-> n, root |-> r,
                                    start |-> s, kind |-> k]]
  BY DEF Create
<1>3. State(q) = "ABSENT"
  BY DEF Create
<1>4. \A p \in Ops : State(p)' = (IF p = q THEN "PLANNED" ELSE State(p))
                    /\ (p # q => ops'[p] = ops[p])
  BY <1>2 DEF State, LInv, TypeOK
<1>5. TypeOK'
  <2>1. [state |-> "PLANNED", name |-> n, root |-> r, start |-> s, kind |-> k] \in Operations
    BY DEF Operations, States
  <2> QED BY <1>1, <1>2, <2>1 DEF LInv, TypeOK
<1>6. ThreadSound'
  <2>1. task.at # "idle" => task.op # q
    BY <1>3, OperationTyped DEF LInv, ThreadSound, Working, Copying, Definer, Starter, Steps
  <2>2. task.at # "idle" => /\ task.op \in Ops /\ State(task.op)' = State(task.op) /\ Name' = Name
    BY <1>1, <1>4, <2>1 DEF LInv, ThreadSound, Name
  <2> QED BY <1>1, <2>2 DEF LInv, ThreadSound, Working, Copying, Definer, Starter
<1>7. ASSUME NEW p \in Ops PROVE StageSound(p)'
  BY <1>1, <1>3, <1>4 DEF LInv, StageSound, Untouched, Undefined, Clean, Owns
<1> QED BY <1>5, <1>6, <1>7 DEF LInv

\* A tick starts; a state that cannot be stored stays.
LEMMA TickKeeps ==
    ASSUME LInv, Tick \/ (\E o \in Ops : StaysReady(o))
    PROVE  LInv'
<1>1. /\ UNCHANGED <<ops, source, staging, target, domains, vms, task, begun, verified>>
      /\ todo' \subseteq Ops
  BY DEF Tick, StaysReady, disk, outside, LInv, TypeOK
<1>2. TypeOK' /\ ThreadSound'
  BY <1>1 DEF LInv, TypeOK, ThreadSound, Name, State
<1>3. \A o \in Ops : StageSound(o)'
  BY <1>1 DEF LInv, StageSound, Untouched, Undefined, Clean, Owns, State
<1> QED BY <1>2, <1>3 DEF LInv

\* The controller visits an operation.
LEMMA VisitKeeps == ASSUME LInv, NEW q \in Ops, Visit(q) PROVE LInv'
<1>1. /\ task.at = "idle" /\ UNCHANGED <<source, staging, target, domains, vms, verified>>
      /\ todo' \subseteq Ops
      /\ FenceStray(q) \/ BeginVerifying(q) \/ BeginDefining(q) \/ BeginStarting(q) \/ Finalize(q)
  BY DEF Visit, Pipeline, At, disk, outside, LInv, TypeOK
<1>2. task.op = NoOp
  BY <1>1 DEF LInv, ThreadSound
<1>3. State(q) # "ABSENT" /\ ops[q] \in Operations
  <2>1. State(q) # "ABSENT"
    BY <1>1 DEF FenceStray, BeginVerifying, BeginDefining, BeginStarting, Finalize, Unsafe
  <2> QED BY <2>1 DEF LInv, TypeOK, State
<1>4. PICK s \in States \ {"ABSENT"} :
         /\ ops' = [ops EXCEPT ![q] = [ops[q] EXCEPT !.state = s]]
         /\ \/ s = "RECOVERY_REQUIRED" /\ State(q) \in {"MATERIALIZING", "STARTING"}
                  /\ UNCHANGED <<task, begun>>
            \/ s = "VERIFYING" /\ State(q) \in {"PLANNED", "VERIFYING"} /\ UNCHANGED begun
                  /\ task' = [Idle EXCEPT !.op = q, !.at = "snapshot"]
            \/ s = "DEFINING" /\ State(q) = "DEFINING" /\ UNCHANGED begun
                  /\ task' = [Idle EXCEPT !.op = q, !.at = "preflight"]
            \/ s = "STARTING" /\ State(q) = "READY"
                  /\ begun' = [begun EXCEPT ![q]["start"] = begun[q]["start"] + 1]
                  /\ task' = [Idle EXCEPT !.op = q, !.at = "identity"]
            \/ s = "SUCCESS" /\ State(q) = "READY" /\ UNCHANGED <<task, begun>>
  <2>1. CASE FenceStray(q)
    BY <2>1 DEF FenceStray, To, Unsafe, States, Terminal
  <2>2. CASE BeginVerifying(q)
    BY <2>2 DEF BeginVerifying, To, States
  <2>3. CASE BeginDefining(q)
    <3>1. ops = [ops EXCEPT ![q] = [ops[q] EXCEPT !.state = "DEFINING"]]
      BY <1>3, <2>3 DEF BeginDefining, State, Operations, LInv, TypeOK
    <3> QED BY <2>3, <3>1 DEF BeginDefining, States, Unsafe
  <2>4. CASE BeginStarting(q)
    BY <2>4 DEF BeginStarting, To, Begin, States, Unsafe
  <2>5. CASE Finalize(q)
    BY <2>5 DEF Finalize, To, States, Terminal
  <2> QED BY <1>1, <2>1, <2>2, <2>3, <2>4, <2>5
<1>5. [ops[q] EXCEPT !.state = s] \in Operations
  BY <1>3 DEF Operations
<1>6. \A p \in Ops : State(p)' = (IF p = q THEN s ELSE State(p))
  BY <1>3, <1>4 DEF State, LInv, TypeOK, Operations
<1>7. /\ begun' \in [Ops -> [Effects -> Nat]]
      /\ \A p \in Ops, e \in Effects : begun'[p][e] =
              IF p = q /\ s = "STARTING" /\ e = "start" THEN 1 ELSE begun[p][e]
  <2>1. begun[q] \in [Effects -> Nat] /\ "start" \in Effects
    BY DEF LInv, TypeOK, Effects
  <2>2. State(q) = "READY" => begun[q]["start"] = 0
    BY DEF LInv, StageSound
  <2>3. begun \in [Ops -> [Effects -> Nat]]
    BY DEF LInv, TypeOK
  <2>4. CASE s = "STARTING"
    <3>1. State(q) = "READY" /\ begun' = [begun EXCEPT ![q]["start"] = begun[q]["start"] + 1]
      BY <1>4, <2>4
    <3>2. /\ begun' \in [Ops -> [Effects -> Nat]]
          /\ \A p \in Ops : p # q => begun'[p] = begun[p]
          /\ \A e \in Effects : begun'[q][e] = IF e = "start" THEN begun[q][e] + 1 ELSE begun[q][e]
      BY <2>1, <2>3, <3>1
    <3>3. begun[q]["start"] + 1 = 1
      BY <2>2, <3>1
    <3> QED BY <2>4, <3>2, <3>3
  <2>5. CASE s # "STARTING"
    BY <1>4, <2>3, <2>5
  <2> QED BY <2>4, <2>5
<1>8. task' \in Tasks /\ task'.at \in {"idle", "snapshot", "preflight", "identity"}
      /\ (task'.at = "idle" => task'.op = NoOp) /\ (task'.at # "idle" => task'.op = q)
  <2>1. ASSUME NEW at \in Steps, task' = [Idle EXCEPT !.op = q, !.at = at]
        PROVE  task' \in Tasks /\ task'.at = at /\ task'.op = q
    BY <2>1, IdleTyped DEF Idle, Tasks
  <2>2. CASE UNCHANGED task
    BY <1>1, <1>2, <2>2 DEF LInv, TypeOK
  <2>3. CASE ~UNCHANGED task
    <3>1. PICK at \in {"snapshot", "preflight", "identity"} : task' = [Idle EXCEPT !.op = q, !.at = at]
      BY <1>4, <2>3
    <3> QED BY <2>1, <3>1 DEF Steps
  <2> QED BY <2>2, <2>3
<1>9. TypeOK'
  BY <1>1, <1>4, <1>5, <1>7, <1>8 DEF LInv, TypeOK
<1>10. ThreadSound'
  BY <1>1, <1>2, <1>4, <1>6, <1>8 DEF Idle, LInv, ThreadSound, Working, Copying, Definer, Starter
<1>11. ASSUME NEW p \in Ops PROVE StageSound(p)'
  <2>1. Clean(p) /\ (p = q => s # "STARTING") => Clean(p)'
    BY <1>1, <1>7 DEF Clean, Owns
  <2>2. Undefined(p)' => Undefined(p)
    BY <1>1, <1>2, <1>4, <1>6, <1>8, NamesApart DEF Undefined
  <2> QED BY <1>4, <1>6, <1>7, <2>1, <2>2 DEF LInv, StageSound, Untouched, Effects
<1> QED BY <1>9, <1>10, <1>11 DEF LInv

\* A kill forgets the thread and fences what may be half done.
LEMMA KillKeeps == ASSUME LInv, KillAndRestart PROVE LInv'
<1>1. /\ UNCHANGED <<source, staging, target, domains, vms, begun, verified>>
      /\ todo' = {} /\ task' = Idle
  BY DEF KillAndRestart, disk, outside, Rest
<1>2. \A p \in Ops :
         /\ ops'[p] \in Operations \cup {[state |-> "ABSENT"]}
         /\ State(p)' = IF State(p) \in Unsafe THEN "RECOVERY_REQUIRED" ELSE State(p)
  <2>1. ASSUME NEW p \in Ops, State(p) \in Unsafe
        PROVE  /\ ops'[p] \in Operations /\ ops'[p].state = "RECOVERY_REQUIRED"
    <3>1. ops[p] \in Operations
      BY <2>1 DEF LInv, TypeOK, State, Unsafe
    <3>2. ops'[p] = [ops[p] EXCEPT !.state = "RECOVERY_REQUIRED"]
      BY <2>1 DEF KillAndRestart
    <3> QED BY <3>1, <3>2 DEF Operations, States, Terminal
  <2>2. ASSUME NEW p \in Ops, State(p) \notin Unsafe PROVE ops'[p] = ops[p]
    BY <2>2 DEF KillAndRestart
  <2> QED BY <2>1, <2>2 DEF LInv, TypeOK, State
<1>3. TypeOK'
  <2>1. ops' \in [Ops -> Operations \cup {[state |-> "ABSENT"]}]
    BY <1>2 DEF KillAndRestart
  <2> QED BY <1>1, <2>1, IdleTyped DEF LInv, TypeOK
<1>4. ThreadSound'
  BY <1>1 DEF Idle, ThreadSound, Working, Copying, Definer, Starter
<1>5. ASSUME NEW p \in Ops PROVE StageSound(p)'
  <2>1. Clean(p) => Clean(p)'
    BY <1>1 DEF Clean, Owns
  <2>2. ~Undefined(p)' /\ (Untouched(p)' => Untouched(p)) /\ (State(p)' = "READY" => State(p) = "READY")
    BY <1>2 DEF Undefined, Untouched, Unsafe
  <2> QED BY <1>1, <1>2, <2>1, <2>2 DEF LInv, StageSound, Unsafe
<1> QED BY <1>3, <1>4, <1>5 DEF LInv

\* What is not of a restore changes around the daemon.
LEMMA AroundKeeps == ASSUME LInv, Around PROVE LInv'
<1>1. UNCHANGED <<ops, staging, task, todo, begun, verified>>
  BY DEF Around, SourceChanges, AdminMakesDir, AdminRemovesDir, AdminDefines, AdminUndefines, AdminStarts,
         Register, Edit
<1>2. /\ source' \in [Files -> Contents]
      /\ vms' \subseteq Names
  <2>1. CASE \E f \in Files : SourceChanges(f)
    <3>1. PICK f \in Files : SourceChanges(f)
      BY <2>1
    <3>2. PICK b \in BOOLEAN, c \in BOOLEAN :
             source' = [source EXCEPT ![f] = [rev |-> source[f].rev + 1, sound |-> b, here |-> c]]
      BY <3>1 DEF SourceChanges
    <3>3. [rev |-> source[f].rev + 1, sound |-> b, here |-> c] \in Contents
      BY DEF Contents, LInv, TypeOK
    <3> QED BY <3>1, <3>2, <3>3 DEF SourceChanges, outside, LInv, TypeOK
  <2>2. CASE ~\E f \in Files : SourceChanges(f)
    BY <2>2 DEF Around, AdminMakesDir, AdminRemovesDir, AdminDefines, AdminUndefines, AdminStarts, Register,
                LInv, TypeOK, outside
  <2> QED BY <2>1, <2>2
<1>3. /\ target' \in [Roots -> Directories \cup {NoDir}]
      /\ \A r \in Roots : target'[r] \in {target[r], NoDir} \/ target'[r].owner = Foreign
  <2>1. [owner |-> Foreign, files |-> NoFiles, xml |-> FALSE]
           \in Directories
    BY IdleTyped DEF Directories
  <2>2. CASE \E r \in Roots : AdminMakesDir(r)
    BY <2>1, <2>2 DEF AdminMakesDir, LInv, TypeOK
  <2>3. CASE \E r \in Roots : AdminRemovesDir(r)
    BY <2>3 DEF AdminRemovesDir, LInv, TypeOK
  <2>4. CASE ~\E r \in Roots : AdminMakesDir(r) \/ AdminRemovesDir(r)
    BY <2>4 DEF Around, SourceChanges, AdminDefines, AdminUndefines, AdminStarts, Register, LInv, TypeOK
  <2> QED BY <2>2, <2>3, <2>4
<1>4. /\ domains' \in [Names -> Domains \cup {NoDomain}]
      /\ \A n \in Names :
            \/ domains'[n] = domains[n]
            \/ domains[n] = NoDomain /\ domains'[n].owner = Foreign
            \/ /\ domains'[n] = NoDomain
               /\ task.at = "start" => n # Name
            \/ domains[n] # NoDomain /\ domains'[n] # NoDomain /\ domains'[n].owner = domains[n].owner
  <2>0. domains \in [Names -> Domains \cup {NoDomain}]
    BY DEF LInv, TypeOK
  <2>1. [owner |-> Foreign, running |-> FALSE] \in Domains
        /\ [owner |-> Foreign, running |-> FALSE].owner = Foreign
    BY DEF Domains
  <2>2. CASE \E n \in Names : AdminDefines(n)
    <3>1. PICK n \in Names : AdminDefines(n)
      BY <2>2
    <3>2. domains[n] = NoDomain /\ domains' = [domains EXCEPT ![n] = [owner |-> Foreign, running |-> FALSE]]
      BY <3>1 DEF AdminDefines
    <3> QED BY <2>0, <2>1, <3>2
  <2>3. CASE \E n \in Names : AdminUndefines(n)
    <3>1. PICK n \in Names : AdminUndefines(n)
      BY <2>3
    <3>2. domains' = [domains EXCEPT ![n] = NoDomain] /\ (task.at = "start" => n # Name)
      BY <3>1 DEF AdminUndefines, At
    <3> QED BY <2>0, <3>2
  <2>5. CASE \E n \in Names : AdminStarts(n)
    <3>1. PICK n \in Names : AdminStarts(n)
      BY <2>5
    <3>2. domains[n] \in Domains /\ domains[n] # NoDomain
          /\ domains' = [domains EXCEPT ![n] = [domains[n] EXCEPT !.running = TRUE]]
      BY <2>0, <3>1 DEF AdminStarts
    <3>3. [domains[n] EXCEPT !.running = TRUE] \in Domains
          /\ [domains[n] EXCEPT !.running = TRUE].owner = domains[n].owner
      BY <3>2 DEF Domains
    <3> QED BY <2>0, <3>2, <3>3, NothingApart
  <2>4. CASE ~\E n \in Names : AdminDefines(n) \/ AdminUndefines(n) \/ AdminStarts(n)
    <3>1. UNCHANGED domains
      BY <2>4 DEF Around, SourceChanges, AdminMakesDir, AdminRemovesDir, Register, outside
    <3> QED BY <2>0, <3>1
  <2> QED BY <2>2, <2>3, <2>4, <2>5
<1>5. TypeOK'
  BY <1>1, <1>2, <1>3, <1>4 DEF LInv, TypeOK
<1>6. ThreadSound'
  <2>1. ASSUME task.at = "start" PROVE domains'[Name] # NoDomain /\ domains'[Name].owner = domains[Name].owner
    <3>1. domains[Name] # NoDomain /\ Name \in Names
      BY <2>1, OperationTyped DEF LInv, ThreadSound
    <3> QED BY <1>4, <2>1, <3>1
  <2>2. Name' = Name /\ \A o \in Ops : State(o)' = State(o)
    BY <1>1 DEF Name, State
  <2> QED BY <1>1, <2>1, <2>2 DEF LInv, ThreadSound, Working, Copying, Definer, Starter
<1>7. ASSUME NEW p \in Ops PROVE StageSound(p)'
  <2>1. Owns(p)' => Owns(p)
    BY <1>3, <1>4, NamesApart DEF Owns
  <2> QED BY <1>1, <2>1 DEF LInv, StageSound, Untouched, Undefined, Clean, State
<1> QED BY <1>5, <1>6, <1>7 DEF LInv

LEMMA StepLInv == ASSUME LInv, [Next]_vars PROVE LInv'
<1>1. CASE \E o \in Ops : Create(o) \/ StaysReady(o)
  BY <1>1, CreateKeeps, TickKeeps
<1>2. CASE Tick \/ \E o \in Ops : Visit(o)
  BY <1>2, TickKeeps, VisitKeeps
<1>3. CASE Verifying
  BY <1>3, MoveKeeps, StateKeeps, GivingKeeps DEF Verifying, Giving
<1>4. CASE Materializing
  BY <1>4, MoveKeeps, StateKeeps, CopyKeeps, GivingKeeps DEF Materializing, Giving
<1>5. CASE Defining
  BY <1>5, MoveKeeps, StateKeeps, DomainKeeps, GivingKeeps DEF Defining, Giving
<1>6. CASE Starting
  BY <1>6, MoveKeeps, StateKeeps, DomainKeeps, GivingKeeps DEF Starting, Giving
<1>7. CASE CallFails
  BY <1>7, GivingKeeps
<1>8. CASE KillAndRestart
  BY <1>8, KillKeeps
<1>9. CASE Around
  BY <1>9, AroundKeeps
<1>10. CASE UNCHANGED vars
  BY <1>10 DEF vars, LInv, TypeOK, ThreadSound, StageSound, Untouched, Undefined, Clean, Owns, State,
               Name
<1> QED BY <1>1, <1>2, <1>3, <1>4, <1>5, <1>6, <1>7, <1>8, <1>9, <1>10 DEF Next, Controller

LEMMA LInvAlways == Spec => []LInv
<1>1. Init => LInv
  BY InitLInv
<1>2. LInv /\ [Next]_vars => LInv'
  BY StepLInv
<1> QED BY <1>1, <1>2, PTL DEF Spec

-----------------------------------------------------------------------------
(* TargetIsSource.  A revision never returns, so a file that is at its     *)
(* copy what it was in the snapshot was that at the verification as well.  *)

\* The file was x before it was y: the same revision is the same content.
Before(x, y) == x.rev <= y.rev /\ (x.rev = y.rev => x = y)

SnapshotSound ==
    task.at = "validate" =>
        \A f \in Files : task.snap[f] \in Contents /\ Before(task.snap[f], source[f])

CopiesSound ==
    /\ task.at \in Copying => \A f \in Files :
            /\ task.snap[f] \in Contents /\ Before(task.snap[f], verified[task.op][f])
            /\ verified[task.op][f] \in Contents /\ Before(verified[task.op][f], source[f])
            /\ verified[task.op][f].sound
    /\ task.at \in {"copy", "opened", "publish"} => \A f \in Files :
            staging[task.op].files[f] \in {NoFile, verified[task.op][f]}
    /\ task.at = "publish" => \A f \in Files : Copied(f)

SourceInv == SnapshotSound /\ CopiesSound /\ TargetIsSource

LEMMA SameRevision ==
    ASSUME NEW x \in Contents, NEW y \in Contents, NEW z \in Contents,
           Before(x, y), Before(y, z), x = z
    PROVE  x = y
BY DEF Before, Contents

\* While the directories and what was verified stay, so does the target.
LEMMA RestSourceInv ==
    ASSUME SourceInv, task'.at \notin Copying \cup {"validate"}, UNCHANGED <<target, verified>>
    PROVE  SourceInv'
BY DEF SourceInv, SnapshotSound, CopiesSound, TargetIsSource, Copying

LEMMA SnapshotKeepsSource == ASSUME LInv, SourceInv, SnapshotFiles PROVE SourceInv'
<1>1. task.at = "snapshot" /\ task \in Tasks /\ source \in [Files -> Contents]
      /\ task' = [task EXCEPT !.at = "validate", !.snap = [f \in Files |-> source[f]]]
      /\ UNCHANGED <<source, target, verified>>
  BY OperationTyped DEF SnapshotFiles, Identity, At, LInv, TypeOK, disk
<1>2. task'.at = "validate" /\ task'.snap = [f \in Files |-> source[f]]
  BY <1>1 DEF Tasks
<1>3. \A f \in Files : Before(source[f], source[f])
  BY <1>1 DEF Before, Contents
<1> QED BY <1>1, <1>2, <1>3 DEF SourceInv, SnapshotSound, CopiesSound, TargetIsSource, Copying

LEMMA ValidateKeepsSource == ASSUME LInv, SourceInv, Validate PROVE SourceInv'
<1>1. /\ task.at = "validate" /\ task.op \in Ops /\ task \in Tasks
      /\ source \in [Files -> Contents] /\ verified \in [Ops -> Copies]
      /\ task' = [task EXCEPT !.at = "stage"]
      /\ verified' = [verified EXCEPT ![task.op] = source]
      /\ UNCHANGED <<source, staging, target>>
  BY OperationTyped DEF Validate, Goto, At, LInv, TypeOK, disk
<1>2. task'.at = "stage" /\ task'.op = task.op /\ task'.snap = task.snap
  BY <1>1 DEF Tasks
<1>3. \A f \in Files : source[f].sound
  BY DEF Validate, Agrees, MetadataAgree, MetadataRead, ImageSound
<1>4. \A f \in Files : Before(source[f], source[f])
  BY <1>1 DEF Before, Contents
<1>5. CopiesSound' /\ SnapshotSound'
  BY <1>1, <1>2, <1>3, <1>4 DEF SourceInv, SnapshotSound, CopiesSound, Copying
<1>6. \A r \in Roots : target[r] # NoDir => target[r].owner # task.op
  <2>1. State(task.op) = "VERIFYING"
    BY <1>1 DEF LInv, ThreadSound, Working
  <2> QED BY <1>1, <2>1 DEF LInv, StageSound, Untouched, Clean, Owns
<1>7. TargetIsSource'
  <2>1. target \in [Roots -> Directories \cup {NoDir}]
    BY DEF LInv, TypeOK
  <2>2. \A r \in Roots : target[r] # NoDir /\ target[r].owner # Foreign => target[r].owner \in Ops
    BY <2>1 DEF Directories
  <2> QED BY <1>1, <1>6, <2>2 DEF SourceInv, TargetIsSource
<1> QED BY <1>5, <1>7 DEF SourceInv

\* The directory of the operation is there, and its files are as before.
LEMMA StageKeepsSource == ASSUME LInv, SourceInv, MakeStaging PROVE SourceInv'
<1>1. /\ task.at = "stage" /\ task.op \in Ops /\ task \in Tasks
      /\ staging \in [Ops -> Stagings \cup {NoDir}]
  BY OperationTyped DEF MakeStaging, At, LInv, TypeOK
<1>2. /\ staging' = [staging EXCEPT ![task.op] = [files |-> NoFiles, marker |-> FALSE]]
      /\ task' = [task EXCEPT !.at = "copy"]
      /\ UNCHANGED <<source, target, verified>>
  BY DEF MakeStaging, Goto
<1>3. task'.at = "copy" /\ task'.op = task.op /\ task'.snap = task.snap
  BY <1>1, <1>2 DEF Tasks
<1>4. staging'[task.op].files = NoFiles
  BY <1>1, <1>2
<1>5. CopiesSound' /\ SnapshotSound'
  BY <1>1, <1>2, <1>3, <1>4 DEF SourceInv, SnapshotSound, CopiesSound, Copying, NoFiles
<1>6. TargetIsSource'
  BY <1>2 DEF SourceInv, TargetIsSource
<1> QED BY <1>5, <1>6 DEF SourceInv

LEMMA OpenKeepsSource ==
    ASSUME LInv, SourceInv, NEW f \in Files, OpenVerified(f)
    PROVE  SourceInv'
<1>1. /\ task.at = "copy" /\ task \in Tasks
      /\ UNCHANGED <<source, staging, target, verified>>
      /\ task' = [task EXCEPT !.at = "opened", !.file = f]
  BY OperationTyped DEF OpenVerified, At, disk, LInv, TypeOK
<1>2. task'.at = "opened" /\ task'.op = task.op /\ task'.snap = task.snap
  BY <1>1 DEF Tasks
<1>3. CopiesSound' /\ SnapshotSound'
  BY <1>1, <1>2 DEF SourceInv, SnapshotSound, CopiesSound, Copying
<1>4. TargetIsSource'
  BY <1>1 DEF SourceInv, TargetIsSource
<1> QED BY <1>3, <1>4 DEF SourceInv

LEMMA MarkerKeepsSource == ASSUME LInv, SourceInv, WriteMarker PROVE SourceInv'
<1>1. /\ task.at = "copy" /\ task.op \in Ops /\ task \in Tasks
      /\ staging \in [Ops -> Stagings \cup {NoDir}] /\ staging[task.op] \in Stagings
      /\ \A f \in Files : Copied(f)
  BY OperationTyped DEF WriteMarker, At, LInv, TypeOK, ThreadSound
<1>2. /\ staging' = [staging EXCEPT ![task.op].marker = TRUE]
      /\ task' = [task EXCEPT !.at = "publish"]
      /\ UNCHANGED <<source, target, verified>>
  BY DEF WriteMarker, Goto
<1>3. task'.at = "publish" /\ task'.op = task.op /\ task'.snap = task.snap
  BY <1>1, <1>2 DEF Tasks
<1>4. staging'[task.op].files = staging[task.op].files
  BY <1>1, <1>2 DEF Stagings
<1>5. CopiesSound' /\ SnapshotSound'
  BY <1>1, <1>2, <1>3, <1>4 DEF SourceInv, SnapshotSound, CopiesSound, Copying, Copied
<1>6. TargetIsSource'
  BY <1>2 DEF SourceInv, TargetIsSource
<1> QED BY <1>5, <1>6 DEF SourceInv

\* Nothing happened to the file between snapshot, verification and copy.
LEMMA CopyKeepsSource == ASSUME LInv, SourceInv, CopyAndRecheck PROVE SourceInv'
<1>1. /\ task.at = "opened" /\ task.op \in Ops /\ task \in Tasks /\ task.file \in Files
      /\ staging \in [Ops -> Stagings \cup {NoDir}] /\ staging[task.op] # NoDir
      /\ source \in [Files -> Contents]
      /\ UNCHANGED <<source, target, verified>>
  BY OperationTyped DEF CopyAndRecheck, At, LInv, TypeOK, ThreadSound
<1>2. task'.at = "copy" /\ task'.op = task.op /\ task'.snap = task.snap
  BY <1>1 DEF CopyAndRecheck, Tasks
<1>3. Content(task.file) = source[task.file] /\ source[task.file] = task.snap[task.file]
  BY <1>1 DEF CopyAndRecheck, Unchanged, Identity, Content
<1>4. Content(task.file) = verified[task.op][task.file]
  <2>1. /\ task.snap[task.file] \in Contents
        /\ verified[task.op][task.file] \in Contents
        /\ source[task.file] \in Contents
        /\ Before(task.snap[task.file], verified[task.op][task.file])
        /\ Before(verified[task.op][task.file], source[task.file])
    BY <1>1 DEF SourceInv, CopiesSound, Copying
  <2> QED BY <1>3, <2>1, SameRevision
<1>5. \A f \in Files : staging'[task.op].files[f] \in {NoFile, verified[task.op][f]}
  <2>1. staging[task.op] \in Stagings /\ staging[task.op].files \in Copies
    BY <1>1 DEF Stagings
  <2>2. \A f \in Files : staging'[task.op].files[f]
            = IF f = task.file THEN verified[task.op][f] ELSE staging[task.op].files[f]
    BY <1>1, <1>4, <2>1 DEF CopyAndRecheck, Copies, Stagings
  <2> QED BY <1>1, <2>2 DEF SourceInv, CopiesSound
<1>6. CopiesSound' /\ SnapshotSound'
  BY <1>1, <1>2, <1>5 DEF SourceInv, SnapshotSound, CopiesSound, Copying
<1>7. TargetIsSource'
  BY <1>1 DEF SourceInv, TargetIsSource
<1> QED BY <1>6, <1>7 DEF SourceInv

LEMMA RenameKeepsSource == ASSUME LInv, SourceInv, RenameNoReplace PROVE SourceInv'
<1>1. /\ task.at = "publish" /\ task.op \in Ops /\ task \in Tasks /\ Root \in Roots
      /\ staging[task.op] \in Stagings /\ verified[task.op] \in Copies
      /\ target \in [Roots -> Directories \cup {NoDir}]
      /\ target' = [target EXCEPT ![Root] = Published]
      /\ UNCHANGED <<source, verified>>
  BY OperationTyped DEF RenameNoReplace, At, LInv, TypeOK, ThreadSound
<1>2. task'.at = "advance" /\ task'.op = task.op /\ task'.snap = task.snap
  BY <1>1 DEF RenameNoReplace, Goto, Tasks
<1>3. staging[task.op].files = verified[task.op]
  <2>1. staging[task.op].files \in Copies
    BY <1>1 DEF Stagings
  <2>2. \A f \in Files : staging[task.op].files[f] = verified[task.op][f]
    BY <1>1 DEF SourceInv, CopiesSound, Copied
  <2> QED BY <1>1, <2>1, <2>2 DEF Copies
<1>4. \A f \in Files : verified[task.op][f].sound
  BY <1>1 DEF SourceInv, CopiesSound, Copying
<1>5. CopiesSound' /\ SnapshotSound'
  BY <1>1, <1>2 DEF SourceInv, CopiesSound, SnapshotSound, Copying
<1>6. TargetIsSource'
  BY <1>1, <1>3, <1>4 DEF SourceInv, TargetIsSource, Published
<1> QED BY <1>5, <1>6 DEF SourceInv

LEMMA PrepareKeepsSource == ASSUME LInv, SourceInv, Prepare PROVE SourceInv'
<1>1. /\ target' = [target EXCEPT ![Root] = [target[Root] EXCEPT !.xml = TRUE]]
      /\ Root \in Roots /\ target[Root] \in Directories /\ task'.at = "define"
      /\ target \in [Roots -> Directories \cup {NoDir}]
      /\ UNCHANGED verified
  BY OperationTyped DEF Prepare, Evidence, Stands, Root, At, Goto, LInv, TypeOK, Tasks
<1>2. /\ [target[Root] EXCEPT !.xml = TRUE].owner = target[Root].owner
      /\ [target[Root] EXCEPT !.xml = TRUE].files = target[Root].files
  BY <1>1 DEF Directories
<1>3. TargetIsSource'
  BY <1>1, <1>2, NothingApart DEF SourceInv, TargetIsSource
<1> QED BY <1>1, <1>3 DEF SourceInv, SnapshotSound, CopiesSound, Copying

LEMMA AroundKeepsSource == ASSUME LInv, SourceInv, Around PROVE SourceInv'
<1>1. UNCHANGED <<ops, staging, task, verified>>
  BY DEF Around, SourceChanges, AdminMakesDir, AdminRemovesDir, AdminDefines, AdminUndefines,
         AdminStarts, Register, Edit
<1>2. TargetIsSource'
  <2>0. target \in [Roots -> Directories \cup {NoDir}]
    BY DEF LInv, TypeOK
  <2>1. CASE \E r \in Roots : AdminMakesDir(r) \/ AdminRemovesDir(r)
    BY <1>1, <2>0, <2>1 DEF AdminMakesDir, AdminRemovesDir, SourceInv, TargetIsSource
  <2>2. CASE ~\E r \in Roots : AdminMakesDir(r) \/ AdminRemovesDir(r)
    <3>1. UNCHANGED target
      BY <2>2 DEF Around, SourceChanges, AdminDefines, AdminUndefines, AdminStarts, Register
    <3> QED BY <1>1, <3>1 DEF SourceInv, TargetIsSource
  <2> QED BY <2>1, <2>2
<1>3. ASSUME NEW f \in Files, NEW x \in Contents, Before(x, source[f])
      PROVE  Before(x, source'[f])
  <2>0. source \in [Files -> Contents] /\ source[f] \in Contents
    BY DEF LInv, TypeOK
  <2>1. CASE \E g \in Files : SourceChanges(g)
    <3>1. PICK g \in Files, s \in BOOLEAN, h \in BOOLEAN :
              source' = [source EXCEPT ![g] = [rev |-> source[g].rev + 1, sound |-> s, here |-> h]]
      BY <2>1 DEF SourceChanges
    <3>2. CASE g = f
      BY <1>3, <2>0, <3>1, <3>2 DEF Before, Contents
    <3>3. CASE g # f
      BY <1>3, <2>0, <3>1, <3>3
    <3> QED BY <3>2, <3>3
  <2>2. CASE ~\E g \in Files : SourceChanges(g)
    <3>1. UNCHANGED source
      BY <2>2 DEF Around, AdminMakesDir, AdminRemovesDir, AdminDefines, AdminUndefines,
                  AdminStarts, Register
    <3> QED BY <1>3, <3>1
  <2> QED BY <2>1, <2>2
<1>4. SnapshotSound' /\ CopiesSound'
  BY <1>1, <1>3 DEF SourceInv, SnapshotSound, CopiesSound, Copied
<1> QED BY <1>2, <1>4 DEF SourceInv

\* Everything else leaves the files alone, and the thread outside the copy.
LEMMA OthersKeepSource ==
    ASSUME LInv, SourceInv,
           \/ Giving \/ CallFails \/ KillAndRestart \/ MarkDefining
           \/ Tick \/ (\E o \in Ops : Visit(o) \/ Create(o) \/ StaysReady(o))
           \/ Preflight \/ Define \/ MarkReady \/ Starting
    PROVE  SourceInv'
<1>1. UNCHANGED <<target, verified>>
  BY DEF Giving, CallFails, GiveUp, SnapshotRefused, ValidateRefused, StagingRefused, OpenRefused,
         RecheckRefused, RenameRefused, PreflightRefused, PrepareRefused, DefineRefused,
         VerifyRefused, IdentityRefused, StartRefused, ConfirmRefused, KillAndRestart, MarkDefining,
         Tick, Visit, Create, StaysReady, Preflight, Define, MarkReady, Starting, CheckIdentity, Start,
         Confirm, disk
<1>2. \/ task'.at \notin Copying \cup {"validate"}
      \/ UNCHANGED <<task, source, staging>>
  <2>1. CASE \E o \in Ops : Create(o) \/ StaysReady(o)
    BY <2>1 DEF Create, StaysReady, disk
  <2>2. CASE Tick
    BY <2>2 DEF Tick, disk
  <2>3. CASE \E o \in Ops : Visit(o)
    <3>1. PICK o \in Ops : Visit(o)
      BY <2>3
    <3>2. UNCHANGED <<source, staging>>
      BY <3>1 DEF Visit, disk
    <3>3. CASE FenceStray(o) \/ Finalize(o)
      BY <3>2, <3>3 DEF FenceStray, Finalize
    <3>4. CASE BeginVerifying(o)
      BY <3>4 DEF BeginVerifying, Idle, Copying
    <3>5. CASE BeginDefining(o)
      BY <3>5 DEF BeginDefining, Idle, Copying
    <3>6. CASE BeginStarting(o)
      BY <3>6 DEF BeginStarting, Idle, Copying
    <3> QED BY <3>1, <3>3, <3>4, <3>5, <3>6 DEF Visit, Pipeline
  <2>4. CASE Preflight \/ Define \/ CheckIdentity \/ Start
    BY <2>4, OperationTyped DEF Preflight, Define, CheckIdentity, Start, Goto, At, Tasks, Copying
  <2>5. CASE Giving \/ CallFails \/ KillAndRestart \/ MarkDefining \/ MarkReady \/ Confirm
    <3>1. Rest
      BY <2>5 DEF Giving, CallFails, GiveUp, SnapshotRefused, ValidateRefused, StagingRefused,
         OpenRefused, RecheckRefused, RenameRefused, PreflightRefused, PrepareRefused, DefineRefused,
         VerifyRefused, IdentityRefused, StartRefused, ConfirmRefused, KillAndRestart, MarkDefining,
         MarkReady, Confirm
    <3> QED BY <3>1 DEF Rest, Idle, Copying
  <2> QED BY <2>1, <2>2, <2>3, <2>4, <2>5 DEF Starting, Giving
<1>3. CASE UNCHANGED <<task, source, staging>>
  BY <1>1, <1>3 DEF SourceInv, SnapshotSound, CopiesSound, TargetIsSource, Copied
<1> QED BY <1>1, <1>2, <1>3, RestSourceInv

LEMMA SourceStep == ASSUME LInv, SourceInv, [Next]_vars PROVE SourceInv'
<1>1. CASE UNCHANGED vars
  BY <1>1 DEF vars, SourceInv, SnapshotSound, CopiesSound, TargetIsSource, Copied
<1>2. CASE Verifying
  BY <1>2, SnapshotKeepsSource, ValidateKeepsSource, OthersKeepSource DEF Verifying, Giving
<1>3. CASE Materializing
  BY <1>3, StageKeepsSource, OpenKeepsSource, MarkerKeepsSource, CopyKeepsSource, RenameKeepsSource, OthersKeepSource
  DEF Materializing, Giving
<1>4. CASE Defining
  BY <1>4, PrepareKeepsSource, OthersKeepSource DEF Defining, Giving
<1>5. CASE Starting \/ Tick \/ (\E o \in Ops : Visit(o) \/ Create(o) \/ StaysReady(o))
           \/ CallFails \/ KillAndRestart
  BY <1>5, OthersKeepSource
<1>6. CASE Around
  BY <1>6, AroundKeepsSource
<1> QED BY <1>1, <1>2, <1>3, <1>4, <1>5, <1>6 DEF Next, Controller

-----------------------------------------------------------------------------
\* The variables stay in their types, whatever changes, fails or is killed.
THEOREM RestoreTypeCorrect == Spec => []TypeOK
<1>1. LInv => TypeOK
  BY DEF LInv
<1> QED BY <1>1, LInvAlways, PTL

\* No side effect of an operation is begun twice, across any kills and
\* restarts (recover_startup and the controller's tick).
THEOREM EffectsOnceAlways == Spec => []EffectsOnce
<1>1. LInv => EffectsOnce
  BY DEF LInv, StageSound, EffectsOnce
<1> QED BY <1>1, LInvAlways, PTL

\* An operation that FAILED left nothing: no staging directory, no target
\* directory, no domain (LocalRestoreExecutor.advance).
THEOREM FailedLeftNothingAlways == Spec => []FailedLeftNothing
<1>1. LInv => FailedLeftNothing
  BY DEF LInv, StageSound, Untouched, Clean, Owns, FailedLeftNothing
<1> QED BY <1>1, LInvAlways, PTL

\* What stands under a target name is the source as it was verified, whatever
\* changed before, during or after the copy (inspect, _open_verified_source,
\* _recheck_source).
THEOREM TargetIsSourceAlways == Spec => []TargetIsSource
<1>1. Init => SourceInv
  BY DEF Init, SourceInv, SnapshotSound, CopiesSound, TargetIsSource, Copying, Idle
<1>2. LInv /\ SourceInv /\ [Next]_vars => SourceInv'
  BY SourceStep
<1>3. SourceInv => TargetIsSource
  BY DEF SourceInv
<1> QED BY <1>1, <1>2, <1>3, LInvAlways, PTL DEF Spec

\* No step touches what others made: a directory under a target name keeps
\* its owner and its files, a foreign domain is never changed or started
\* (renameat2 with RENAME_NOREPLACE, the define and start preflights).
THEOREM OthersUntouchedAlways == Spec => OthersUntouched
<1> DEFINE Kept == /\ \A r \in Roots : target[r] # NoDir =>
                        target'[r] # NoDir /\ target'[r].owner = target[r].owner
                        /\ target'[r].files = target[r].files
                   /\ \A n \in Names : domains[n] # NoDomain /\ domains[n].owner = Foreign =>
                        domains'[n] = domains[n]
<1>1. LInv /\ Controller => Kept
  <2> SUFFICES ASSUME LInv, Controller PROVE Kept
    OBVIOUS
  <2>0. /\ target \in [Roots -> Directories \cup {NoDir}]
        /\ domains \in [Names -> Domains \cup {NoDomain}]
    BY DEF LInv, TypeOK
  <2>1. CASE UNCHANGED <<target, domains>>
    BY <2>1
  <2>2. CASE RenameNoReplace
    BY <2>0, <2>2 DEF RenameNoReplace, Stands, outside
  <2>3. CASE Prepare
    <3>1. target' = [target EXCEPT ![Root] = [target[Root] EXCEPT !.xml = TRUE]] /\ UNCHANGED domains
      BY <2>3 DEF Prepare, outside
    <3>2. target[Root] # NoDir /\ Root \in Roots
      BY <2>3, OperationTyped DEF Prepare, Evidence, Stands, Root, At
    <3>3. target[Root] \in Directories
      BY <2>0, <3>2
    <3>4. /\ [target[Root] EXCEPT !.xml = TRUE].owner = target[Root].owner
          /\ [target[Root] EXCEPT !.xml = TRUE].files = target[Root].files
          /\ [target[Root] EXCEPT !.xml = TRUE] \in Directories
      BY <3>3 DEF Directories
    <3> QED BY <2>0, <3>1, <3>2, <3>4, NothingApart
  <2>4. CASE Define
    BY <2>0, <2>4 DEF Define, disk
  <2>5. CASE Start
    <3>1. domains[Name] # NoDomain /\ domains[Name].owner = task.op /\ task.op \in Ops
      BY <2>5, OperationTyped DEF Start, At, LInv, ThreadSound
    <3>2. domains[Name].owner # Foreign
      BY <3>1, NamesApart
    <3> QED BY <2>0, <2>5, <3>2 DEF Start, disk
  <2>6. \/ UNCHANGED <<target, domains>>
        \/ RenameNoReplace \/ Prepare \/ Define \/ Start
    <3>1. CASE Verifying \/ Materializing
      BY <3>1 DEF Verifying, Materializing, SnapshotFiles, SnapshotRefused, Validate, ValidateRefused,
                  MakeStaging, StagingRefused, OpenVerified, OpenRefused, CopyAndRecheck, RecheckRefused,
                  WriteMarker, RenameRefused, MarkDefining, GiveUp, disk, outside
    <3>2. CASE Defining \/ Starting
      BY <3>2 DEF Defining, Starting, Preflight, PreflightRefused, PrepareRefused, DefineRefused, MarkReady,
                  VerifyRefused, CheckIdentity, IdentityRefused, StartRefused, Confirm, ConfirmRefused,
                  GiveUp, disk, outside
    <3>3. CASE Tick \/ \E q \in Ops : Visit(q)
      BY <3>3 DEF Tick, Visit, disk, outside
    <3> QED BY <3>1, <3>2, <3>3 DEF Controller
  <2> QED BY <2>1, <2>2, <2>3, <2>4, <2>5, <2>6
<1>2. LInv /\ [Next]_vars => [Controller => Kept]_vars
  BY <1>1
<1> QED BY <1>2, LInvAlways, PTL DEF Spec, OthersUntouched
-----------------------------------------------------------------------------
(* ImplementsService.  Reached, Asked and Standing are the mapped state;   *)
(* each step of the pipeline changes them as one step of the abstract      *)
(* service, or leaves them alone.                                          *)

Reach(o) == LastEffect(State(o), Doing(o))
Mapped   == <<Reached, Asked, Standing, domains>>
Open     == {"PLANNED", "VERIFYING"}

LEMMA EffectTable ==
    ASSUME NEW at
    PROVE  /\ LastEffect("ABSENT", at) = "none" /\ LastEffect("SUCCESS", at) = "done"
           /\ \A s \in {"FAILED", "RECOVERY_REQUIRED"} : LastEffect(s, at) = "lost"
           /\ \A s \in Open : LastEffect(s, at) = "open"
           /\ LastEffect("MATERIALIZING", at) = IF at = "advance" THEN "placed" ELSE "open"
           /\ LastEffect("DEFINING", at) = IF at = "verify" THEN "bound" ELSE "placed"
           /\ LastEffect("READY", at) = "bound"
           /\ LastEffect("STARTING", at) = IF at = "confirm" THEN "run" ELSE "bound"
BY DEF LastEffect, Terminal, Open

\* An operation that is in none of the end states can be abandoned.
LEMMA UnfinishedEffect ==
    ASSUME NEW s \in States, NEW at
    PROVE  /\ s \notin Terminal \cup {"ABSENT"} => LastEffect(s, at) \in Service!Unfinished
           /\ s \in Unsafe \cup {"VERIFYING"} => LastEffect(s, at) \in Service!Unfinished
<1>1. CASE s \in Terminal \cup {"ABSENT"}
  BY <1>1 DEF Terminal, Unsafe
<1>2. CASE s \in Open
  BY <1>2, EffectTable DEF Open, Service!Unfinished
<1>3. CASE s \in Unsafe \cup {"READY"}
  BY <1>3, EffectTable DEF Unsafe, Service!Unfinished
<1> QED BY <1>1, <1>2, <1>3 DEF States, Open

\* A state is stored: the identity of every operation stays.
LEMMA Told ==
    ASSUME LInv, NEW o \in Ops, ops[o] \in Operations, NEW s \in States \ {"ABSENT"}, To(o, s)
    PROVE  /\ State(o)' = s /\ \A q \in Ops : q # o => State(q)' = State(q)
           /\ Asked' = Asked
<1>1. ops' = [ops EXCEPT ![o] = [ops[o] EXCEPT !.state = s]]
  BY DEF To
<1>2. ops'[o] = [ops[o] EXCEPT !.state = s] /\ \A q \in Ops : q # o => ops'[q] = ops[q]
  BY <1>1 DEF LInv, TypeOK
<1>3. /\ ops'[o].state = s /\ ops'[o].name = ops[o].name
      /\ ops'[o].root = ops[o].root /\ ops'[o].start = ops[o].start
      /\ ops[o].state # "ABSENT"
  BY <1>2 DEF Operations
<1>4. \A q \in Ops : (IF State(q) = "ABSENT" THEN NoOp ELSE Request(ops[q]))'
                     = IF State(q) = "ABSENT" THEN NoOp ELSE Request(ops[q])
  BY <1>2, <1>3 DEF State, Request
<1> QED BY <1>2, <1>3, <1>4 DEF State, Asked

\* The other operations are where the thread left them.
LEMMA OthersReach ==
    ASSUME NEW o \in Ops, task.op \in {o, NoOp}, task'.op \in {o, NoOp},
           \A q \in Ops : q # o => State(q)' = State(q)
    PROVE  \A q \in Ops : q # o => Reach(q)' = Reach(q)
<1> SUFFICES ASSUME NEW q \in Ops, q # o PROVE Reach(q)' = Reach(q)
  OBVIOUS
<1>1. Doing(q) = "idle" /\ Doing(q)' = "idle"
  BY NamesApart DEF Doing
<1> QED BY <1>1 DEF Reach

LEMMA ReachedSet ==
    ASSUME NEW o \in Ops, \A q \in Ops : q # o => Reach(q)' = Reach(q)
    PROVE  /\ Reached' = [Reached EXCEPT ![o] = Reach(o)']
           /\ Reach(o)' = Reach(o) => Reached' = Reached
           /\ Reached[o] = Reach(o)
BY DEF Reached, Reach

\* Nothing the service knows of has changed.
LEMMA SameStanding ==
    ASSUME UNCHANGED target
    PROVE  UNCHANGED Standing
BY DEF Standing

\* One operation, or several, are lost.
LEMMA Abandons ==
    ASSUME \A q \in Ops : \/ Reach(q)' = Reach(q)
                          \/ Reach(q) \in Service!Unfinished /\ Reach(q)' = "lost",
           UNCHANGED <<Asked, Standing, domains>>
    PROVE  Service!Abandon
<1> DEFINE lost == {o \in Ops : Reach(o)' # Reach(o)}
<1>1. lost \in SUBSET {o \in Ops : Reached[o] \in Service!Unfinished}
  BY DEF Reached, Reach
<1>2. \A q \in Ops : Reached'[q] = IF q \in lost THEN "lost" ELSE Reached[q]
  BY DEF Reached, Reach
<1>3. Reached' = [q \in Ops |-> IF q \in lost THEN "lost" ELSE Reached[q]]
  BY <1>2 DEF Reached
<1> QED BY <1>1, <1>3 DEF Service!Abandon

-----------------------------------------------------------------------------
\* A stage that gives up, or whose call fails, loses its operation.
LEMMA GivingServes ==
    ASSUME LInv, Giving \/ CallFails
    PROVE  Service!Abandon
<1>1. task.at # "idle"
  BY DEF Giving, CallFails, At, SnapshotRefused, ValidateRefused, StagingRefused, OpenRefused,
         RecheckRefused, RenameRefused, PreflightRefused, PrepareRefused, DefineRefused,
         VerifyRefused, IdentityRefused, StartRefused, ConfirmRefused
<1>0. PICK o \in Ops : o = task.op /\ ops[o] \in Operations /\ task.at \in Steps \ {"idle"}
  BY <1>1, OperationTyped
<1>2. PICK t \in {"FAILED", "RECOVERY_REQUIRED"} : To(o, t)
  BY <1>0 DEF Giving, CallFails, GiveUp, SnapshotRefused, ValidateRefused, StagingRefused,
         OpenRefused, RecheckRefused, RenameRefused, PreflightRefused, PrepareRefused, DefineRefused,
         VerifyRefused, IdentityRefused, StartRefused, ConfirmRefused
<1>3. task' = Idle /\ UNCHANGED <<target, domains>>
  BY DEF Giving, CallFails, GiveUp, Rest, disk, outside, SnapshotRefused, ValidateRefused, StagingRefused,
         OpenRefused, RecheckRefused, RenameRefused, PreflightRefused, PrepareRefused, DefineRefused,
         VerifyRefused, IdentityRefused, StartRefused, ConfirmRefused
<1>4. t \in States \ {"ABSENT"}
  BY DEF States, Terminal
<1>5. State(o) \in States /\ State(o) \in Unsafe \cup {"VERIFYING"}
  BY <1>0 DEF LInv, ThreadSound, Working, Copying, Definer, Starter, Steps, States, Unsafe
<1>6. Reach(o) \in Service!Unfinished
  BY <1>5, UnfinishedEffect DEF Reach
<1>7. State(o)' = t /\ (\A q \in Ops : q # o => State(q)' = State(q)) /\ Asked' = Asked
  BY <1>0, <1>2, <1>4, Told
<1>8. Reach(o)' = "lost"
  BY <1>7, EffectTable DEF Reach
<1>9. \A q \in Ops : q # o => Reach(q)' = Reach(q)
  BY <1>0, <1>3, <1>7, OthersReach DEF Idle
<1>10. UNCHANGED Standing
  BY <1>3, SameStanding
<1>11. \A q \in Ops : \/ Reach(q)' = Reach(q)
                      \/ Reach(q) \in Service!Unfinished /\ Reach(q)' = "lost"
  BY <1>6, <1>8, <1>9
<1> QED BY <1>3, <1>7, <1>10, <1>11, Abandons

\* The stages that only read, copy or prepare are no effects.
LEMMA StageServes ==
    ASSUME LInv,
           \/ SnapshotFiles \/ MakeStaging \/ (\E f \in Files : OpenVerified(f)) \/ CopyAndRecheck
           \/ WriteMarker \/ Preflight \/ Prepare \/ CheckIdentity
    PROVE  UNCHANGED Mapped
<1> DEFINE late == {"advance", "verify", "confirm"}
<1>1. /\ task.at # "idle" /\ task.at \notin late
      /\ task'.op = task.op /\ task'.at \notin late
      /\ UNCHANGED <<ops, domains>>
      /\ Prepare \/ UNCHANGED target
  <2>1. task \in Tasks
    BY DEF LInv, TypeOK
  <2> QED BY <2>1 DEF SnapshotFiles, MakeStaging, OpenVerified, CopyAndRecheck, WriteMarker, Preflight,
             Prepare, CheckIdentity, At, Goto, disk, outside, Tasks
<1>2. PICK o \in Ops : o = task.op
  BY <1>1, OperationTyped
<1>3. \A q \in Ops : State(q)' = State(q)
  BY <1>1 DEF State
<1>4. Reach(o)' = Reach(o)
  <2>1. Doing(o) \notin late /\ Doing(o)' \notin late
    BY <1>1, <1>2 DEF Doing
  <2>2. \A st, at, bt : at \notin late /\ bt \notin late => LastEffect(st, at) = LastEffect(st, bt)
    BY DEF LastEffect
  <2> QED BY <1>3, <2>1, <2>2 DEF Reach
<1>5. UNCHANGED Reached
  <2>1. \A q \in Ops : q # o => Reach(q)' = Reach(q)
    BY <1>1, <1>2, <1>3, OthersReach
  <2> QED BY <1>4, <2>1, ReachedSet
<1>6. UNCHANGED Asked
  BY <1>1 DEF Asked, State, Request
<1>7. CASE UNCHANGED target
  BY <1>1, <1>5, <1>6, <1>7, SameStanding DEF Mapped
<1>8. CASE Prepare
  <2>1. target' = [target EXCEPT ![Root] = [target[Root] EXCEPT !.xml = TRUE]]
    BY <1>8 DEF Prepare
  <2>2. Root \in Roots /\ target[Root] \in Directories
    <3>1. Root \in Roots
      BY <1>1, OperationTyped
    <3> QED BY <1>8, <3>1 DEF Prepare, Evidence, Stands, Root, LInv, TypeOK
  <2>3. /\ [target[Root] EXCEPT !.xml = TRUE] \in Directories
        /\ [target[Root] EXCEPT !.xml = TRUE].owner = target[Root].owner
    BY <2>2 DEF Directories
  <2>4. target'[Root] # NoDir /\ target[Root] # NoDir /\ target'[Root].owner = target[Root].owner
        /\ \A r \in Roots : r # Root => target'[r] = target[r]
    BY <2>1, <2>2, <2>3, NothingApart DEF LInv, TypeOK
  <2>5. UNCHANGED Standing
    BY <2>2, <2>4 DEF Standing
  <2> QED BY <1>1, <1>5, <1>6, <2>5 DEF Mapped
<1> QED BY <1>1, <1>7, <1>8

\* What the service sees of a state that is stored for one operation.
LEMMA TellServes ==
    ASSUME LInv, NEW o \in Ops, ops[o] \in Operations, NEW s \in States \ {"ABSENT"}, To(o, s),
           task.op \in {o, NoOp}, task'.op \in {o, NoOp}
    PROVE  /\ Reach(o)' = LastEffect(s, Doing(o)')
           /\ UNCHANGED Asked /\ Asked[o] = Request(ops[o])
           /\ \A q \in Ops : q # o => Reach(q)' = Reach(q)
           /\ Reached' = [Reached EXCEPT ![o] = Reach(o)'] /\ Reached[o] = Reach(o)
           /\ Reach(o)' = Reach(o) => UNCHANGED Reached
<1>1. State(o)' = s /\ (\A q \in Ops : q # o => State(q)' = State(q)) /\ UNCHANGED Asked
  BY Told
<1>2. \A q \in Ops : q # o => Reach(q)' = Reach(q)
  BY <1>1, OthersReach
<1>3. Reached' = [Reached EXCEPT ![o] = Reach(o)'] /\ Reached[o] = Reach(o)
      /\ (Reach(o)' = Reach(o) => UNCHANGED Reached)
  BY <1>2, ReachedSet
<1>4. Reach(o)' = LastEffect(s, Doing(o)')
  BY <1>1 DEF Reach
<1>5. Asked[o] = Request(ops[o])
  BY DEF Asked, State, Operations
<1> QED BY <1>1, <1>2, <1>3, <1>4, <1>5

\* To store that a stage is over is no effect.
LEMMA MarkServes ==
    ASSUME LInv, Validate \/ MarkDefining \/ MarkReady
    PROVE  UNCHANGED Mapped
<1>1. task.at # "idle" /\ UNCHANGED <<target, domains>>
  BY DEF Validate, MarkDefining, MarkReady, At, disk, outside
<1>2. PICK o \in Ops : o = task.op /\ ops[o] \in Operations
  BY <1>1, OperationTyped
<1>3. UNCHANGED Standing
  BY <1>1, SameStanding
<1>4. CASE Validate
  <2>1. To(o, "MATERIALIZING") /\ task' = [task EXCEPT !.at = "stage"] /\ State(o) = "VERIFYING"
    BY <1>2, <1>4 DEF Validate, Goto, At, LInv, ThreadSound, Working
  <2>2. task'.op = o /\ Doing(o)' = "stage"
    <3>1. task \in Tasks
      BY DEF LInv, TypeOK
    <3> QED BY <1>2, <2>1, <3>1 DEF Tasks, Doing
  <2>3. "MATERIALIZING" \in States \ {"ABSENT"}
    BY DEF States, Unsafe
  <2>4. /\ Reach(o)' = LastEffect("MATERIALIZING", Doing(o)')
        /\ UNCHANGED Asked /\ (Reach(o)' = Reach(o) => UNCHANGED Reached)
    BY <1>2, <2>1, <2>2, <2>3, TellServes
  <2>5. Reach(o)' = "open" /\ Reach(o) = "open"
    BY <2>1, <2>2, <2>4, EffectTable DEF Reach, Open
  <2> QED BY <1>1, <1>3, <2>4, <2>5 DEF Mapped
<1>5. ASSUME NEW s \in {"DEFINING", "READY"}, To(o, s), Rest,
             s = "DEFINING" => State(o) = "MATERIALIZING" /\ task.at = "advance",
             s = "READY" => State(o) = "DEFINING" /\ task.at = "verify"
      PROVE  UNCHANGED Mapped
  <2>1. task'.op = NoOp /\ Doing(o)' = "idle" /\ Doing(o) = task.at
    BY <1>2, <1>5, NamesApart DEF Rest, Idle, Doing
  <2>2. s \in States \ {"ABSENT"}
    BY DEF States, Unsafe
  <2>3. /\ Reach(o)' = LastEffect(s, Doing(o)')
        /\ UNCHANGED Asked /\ (Reach(o)' = Reach(o) => UNCHANGED Reached)
    BY <1>2, <1>5, <2>1, <2>2, TellServes
  <2>4. Reach(o)' = Reach(o)
    BY <1>5, <2>1, <2>3, EffectTable DEF Reach
  <2> QED BY <1>1, <1>3, <2>3, <2>4 DEF Mapped
<1>6. CASE MarkDefining
  BY <1>2, <1>5, <1>6 DEF MarkDefining, At, LInv, ThreadSound, Copying
<1>7. CASE MarkReady
  BY <1>2, <1>5, <1>7 DEF MarkReady, At, LInv, ThreadSound, Definer
<1> QED BY <1>4, <1>6, <1>7

\* The controller takes an operation up, fences it, or is done with it.
LEMMA VisitServes ==
    ASSUME LInv, NEW o \in Ops, Visit(o)
    PROVE  UNCHANGED Mapped \/ Service!Abandon \/ Service!Complete(o)
<1>1. task.at = "idle" /\ task.op = NoOp /\ Doing(o) = "idle" /\ UNCHANGED <<target, domains>>
  BY NamesApart DEF Visit, At, LInv, ThreadSound, Doing, disk, outside
<1>2. FenceStray(o) \/ BeginVerifying(o) \/ BeginDefining(o) \/ BeginStarting(o) \/ Finalize(o)
  BY DEF Visit, Pipeline
<1>3. ops[o] \in Operations
  BY <1>2 DEF FenceStray, BeginVerifying, BeginDefining, BeginStarting, Finalize, Unsafe, State, LInv, TypeOK
<1>4. UNCHANGED Standing
  BY <1>1, SameStanding
<1>5. CASE BeginDefining(o)
  <2>1. State(o) = "DEFINING" /\ UNCHANGED ops /\ task'.op = o /\ Doing(o)' = "preflight"
    BY <1>5 DEF BeginDefining, Idle, Doing
  <2>2. \A q \in Ops : State(q)' = State(q)
    BY <2>1 DEF State
  <2>3. \A q \in Ops : q # o => Reach(q)' = Reach(q)
    BY <1>1, <2>1, <2>2, OthersReach
  <2>4. Reach(o)' = Reach(o)
    BY <1>1, <2>1, <2>2, EffectTable DEF Reach
  <2>5. UNCHANGED Asked
    BY <2>1 DEF Asked, State, Request
  <2> QED BY <1>1, <1>4, <2>3, <2>4, <2>5, ReachedSet DEF Mapped
<1>6. ASSUME NEW s \in {"VERIFYING", "STARTING", "RECOVERY_REQUIRED", "SUCCESS"}, To(o, s),
             task'.op \in {o, NoOp}
      PROVE  /\ Reach(o)' = LastEffect(s, Doing(o)')
             /\ UNCHANGED Asked /\ Asked[o] = Request(ops[o])
             /\ \A q \in Ops : q # o => Reach(q)' = Reach(q)
             /\ Reached' = [Reached EXCEPT ![o] = Reach(o)'] /\ Reached[o] = Reach(o)
             /\ Reach(o)' = Reach(o) => UNCHANGED Reached
  <2>1. s \in States \ {"ABSENT"}
    BY DEF States, Unsafe, Terminal
  <2> QED BY <1>1, <1>3, <1>6, <2>1, TellServes
<1>7. CASE BeginVerifying(o)
  <2>1. To(o, "VERIFYING") /\ State(o) \in {"PLANNED", "VERIFYING"} /\ task'.op = o
    BY <1>7 DEF BeginVerifying, Idle
  <2>2. Reach(o)' = "open" /\ Reach(o) = "open"
    BY <1>6, <2>1, EffectTable DEF Reach, Open
  <2> QED BY <1>1, <1>4, <1>6, <2>1, <2>2 DEF Mapped
<1>8. CASE BeginStarting(o)
  <2>1. To(o, "STARTING") /\ State(o) = "READY" /\ task'.op = o /\ Doing(o)' = "identity"
    BY <1>8 DEF BeginStarting, Idle, Doing
  <2>2. Reach(o)' = "bound" /\ Reach(o) = "bound"
    BY <1>6, <2>1, EffectTable DEF Reach
  <2> QED BY <1>1, <1>4, <1>6, <2>1, <2>2 DEF Mapped
<1>9. CASE FenceStray(o)
  <2>1. To(o, "RECOVERY_REQUIRED") /\ State(o) \in Unsafe /\ task'.op = NoOp
    BY <1>1, <1>9 DEF FenceStray
  <2>2. Reach(o)' = "lost" /\ Reach(o) \in Service!Unfinished
    <3>1. State(o) \in States
      BY <2>1 DEF States
    <3>2. Reach(o)' = "lost"
      BY <1>6, <2>1, EffectTable
    <3> QED BY <2>1, <3>1, <3>2, UnfinishedEffect DEF Reach
  <2>3. \A q \in Ops : \/ Reach(q)' = Reach(q)
                       \/ Reach(q) \in Service!Unfinished /\ Reach(q)' = "lost"
    BY <1>6, <2>1, <2>2
  <2>4. UNCHANGED <<Asked, Standing, domains>>
    BY <1>1, <1>4, <1>6, <2>1
  <2> QED BY <2>3, <2>4, Abandons
<1>10. CASE Finalize(o)
  <2>1. To(o, "SUCCESS") /\ State(o) = "READY" /\ ~ops[o].start /\ task'.op = NoOp
    BY <1>1, <1>10 DEF Finalize
  <2>2. Reach(o)' = "done" /\ Reach(o) = "bound"
    BY <1>6, <2>1, EffectTable DEF Reach
  <2>3. ~Asked[o].start
    BY <1>6, <2>1 DEF Request
  <2> QED BY <1>1, <1>4, <1>6, <2>1, <2>2, <2>3 DEF Service!Complete, Service!To
<1> QED BY <1>2, <1>5, <1>7, <1>8, <1>9, <1>10

-----------------------------------------------------------------------------
\* Only an operation that was asked to start the domain is ever STARTING.
StartWanted == \A o \in Ops : State(o) = "STARTING" => ops[o].start

LEMMA StartWantedStep == ASSUME LInv, StartWanted, [Next]_vars PROVE StartWanted'
<1>1. ASSUME UNCHANGED ops PROVE StartWanted'
  BY <1>1 DEF StartWanted, State
<1>2. ASSUME NEW o \in Ops, ops[o] \in Operations, NEW s \in States \ {"ABSENT"}, To(o, s),
             s = "STARTING" => ops[o].start
      PROVE  StartWanted'
  <2>1. ops' = [ops EXCEPT ![o] = [ops[o] EXCEPT !.state = s]]
    BY <1>2 DEF To
  <2>2. ops'[o] = [ops[o] EXCEPT !.state = s] /\ \A q \in Ops : q # o => ops'[q] = ops[q]
    BY <2>1 DEF LInv, TypeOK
  <2>3. ops'[o].state = s /\ ops'[o].start = ops[o].start
    BY <1>2, <2>2 DEF Operations
  <2> QED BY <1>2, <2>2, <2>3 DEF StartWanted, State
<1>3. ASSUME task.at # "idle",
             NEW s \in {"FAILED", "RECOVERY_REQUIRED", "MATERIALIZING", "DEFINING", "READY", "SUCCESS"},
             To(task.op, s)
      PROVE  StartWanted'
  <2>1. PICK o \in Ops : o = task.op /\ ops[o] \in Operations
    BY <1>3, OperationTyped
  <2>2. s \in States \ {"ABSENT"} /\ s # "STARTING"
    BY DEF States, Unsafe, Terminal
  <2> QED BY <1>2, <1>3, <2>1, <2>2
<1>4. CASE Giving \/ CallFails
  <2>1. task.at # "idle"
    BY <1>4 DEF Giving, CallFails, At, SnapshotRefused, ValidateRefused, StagingRefused, OpenRefused,
           RecheckRefused, RenameRefused, PreflightRefused, PrepareRefused, DefineRefused,
           VerifyRefused, IdentityRefused, StartRefused, ConfirmRefused
  <2>2. PICK s \in {"FAILED", "RECOVERY_REQUIRED"} : To(task.op, s)
    BY <1>4 DEF Giving, CallFails, GiveUp, SnapshotRefused, ValidateRefused, StagingRefused,
           OpenRefused, RecheckRefused, RenameRefused, PreflightRefused, PrepareRefused, DefineRefused,
           VerifyRefused, IdentityRefused, StartRefused, ConfirmRefused
  <2> QED BY <1>3, <2>1, <2>2
<1>5. CASE Validate \/ MarkDefining \/ MarkReady \/ Confirm
  BY <1>3, <1>5 DEF Validate, MarkDefining, MarkReady, Confirm, At
<1>6. CASE \E o \in Ops : Visit(o)
  <2>1. PICK o \in Ops : Visit(o)
    BY <1>6
  <2>2. CASE BeginDefining(o)
    BY <1>1, <2>2 DEF BeginDefining
  <2>3. PICK s \in {"VERIFYING", "STARTING", "RECOVERY_REQUIRED", "SUCCESS"} :
           ~BeginDefining(o) => /\ To(o, s) /\ State(o) # "ABSENT"
                                /\ s = "STARTING" => ops[o].start
    BY <2>1 DEF Visit, Pipeline, FenceStray, BeginVerifying, BeginStarting, Finalize, Unsafe
  <2>4. s \in States \ {"ABSENT"}
    BY DEF States, Unsafe, Terminal
  <2>5. State(o) # "ABSENT" => ops[o] \in Operations
    BY DEF State, LInv, TypeOK
  <2> QED BY <1>2, <2>2, <2>3, <2>4, <2>5
<1>7. CASE \E o \in Ops : Create(o)
  <2>1. PICK o \in Ops : Create(o)
    BY <1>7
  <2>2. PICK n \in Names, r \in Roots, s \in BOOLEAN, k \in {"FULL", "INCREMENTAL"} :
           ops' = [ops EXCEPT ![o] = [state |-> "PLANNED", name |-> n, root |-> r,
                                      start |-> s, kind |-> k]]
    BY <2>1 DEF Create
  <2>3. ops'[o].state = "PLANNED" /\ \A q \in Ops : q # o => ops'[q] = ops[q]
    BY <2>2 DEF LInv, TypeOK
  <2> QED BY <2>3 DEF StartWanted, State
<1>8. CASE KillAndRestart
  <2>1. \A q \in Ops : ops'[q] = ops[q] \/ ops'[q] = [ops[q] EXCEPT !.state = "RECOVERY_REQUIRED"]
    BY <1>8 DEF KillAndRestart
  <2>2. \A q \in Ops : State(q)' = "STARTING" => ops'[q] = ops[q]
    <3> SUFFICES ASSUME NEW q \in Ops, ops'[q] # ops[q] PROVE State(q)' # "STARTING"
      OBVIOUS
    <3>1. State(q) \in Unsafe /\ ops[q] \in Operations
      BY <1>8 DEF KillAndRestart, LInv, TypeOK, State, Unsafe
    <3> QED BY <2>1, <3>1 DEF Operations, State
  <2> QED BY <2>2 DEF StartWanted, State
<1>9. \/ UNCHANGED ops \/ Giving \/ CallFails \/ Validate \/ MarkDefining \/ MarkReady \/ Confirm
      \/ (\E o \in Ops : Visit(o) \/ Create(o)) \/ KillAndRestart
  BY DEF Next, vars, Controller, Verifying, Materializing, Defining, Starting, Giving, Tick, StaysReady,
         SnapshotFiles, MakeStaging, OpenVerified, CopyAndRecheck, WriteMarker, RenameNoReplace,
         Preflight, Prepare, Define, CheckIdentity, Start, Around, Edit, SourceChanges, AdminMakesDir,
         AdminRemovesDir, AdminDefines, AdminUndefines, AdminStarts, Register
<1> QED BY <1>1, <1>4, <1>5, <1>6, <1>7, <1>8, <1>9

\* The rename places the directory, whole and on a free name.
LEMMA RenameServes == ASSUME LInv, RenameNoReplace PROVE \E o \in Ops : Service!Place(o)
<1>1. task.at = "publish"
  BY DEF RenameNoReplace, At
<1>2. PICK o \in Ops : o = task.op /\ ops[o] \in Operations /\ Root \in Roots /\ task \in Tasks
  BY <1>1, OperationTyped
<1>3. PICK r \in Roots : r = Root
  BY <1>2
<1>4. /\ target[r] = NoDir /\ target' = [target EXCEPT ![r] = Published]
      /\ UNCHANGED <<ops, domains>> /\ task' = [task EXCEPT !.at = "advance"]
      /\ State(o) = "MATERIALIZING"
  BY <1>1, <1>2, <1>3 DEF RenameNoReplace, Stands, Goto, outside, LInv, ThreadSound, Copying
<1>5. Published # NoDir /\ Published.owner = o
  <2>1. staging[o] \in Stagings
    BY <1>1, <1>2 DEF LInv, TypeOK, ThreadSound
  <2>2. Published \in Directories
    BY <1>2, <2>1 DEF Published, Directories, Stagings
  <2> QED BY <1>2, <2>2, NothingApart DEF Published
<1>6. task'.op = o /\ Doing(o)' = "advance" /\ Doing(o) = "publish"
  BY <1>1, <1>2, <1>4 DEF Doing, Tasks
<1>7. \A q \in Ops : State(q)' = State(q)
  BY <1>4 DEF State
<1>8. Reach(o)' = "placed" /\ Reach(o) = "open"
  BY <1>4, <1>6, <1>7, EffectTable DEF Reach
<1>9. \A q \in Ops : q # o => Reach(q)' = Reach(q)
  BY <1>2, <1>6, <1>7, OthersReach
<1>10. Reached' = [Reached EXCEPT ![o] = "placed"] /\ Reached[o] = "open"
  BY <1>8, <1>9, ReachedSet
<1>11. Standing[r] = NoDomain /\ Standing' = [Standing EXCEPT ![r] = o]
  <2>1. \A q \in Roots : target'[q] = IF q = r THEN Published ELSE target[q]
    BY <1>4 DEF LInv, TypeOK
  <2>2. PICK d : d = Published
    OBVIOUS
  <2>3. \A q \in Roots : (IF target[q] = NoDir THEN NoDomain ELSE target[q].owner)'
                         = IF q = r THEN o ELSE IF target[q] = NoDir THEN NoDomain ELSE target[q].owner
    BY <1>5, <2>1, <2>2
  <2> QED BY <1>4, <2>3 DEF Standing
<1>12. Asked[o].root = r /\ UNCHANGED Asked
  BY <1>2, <1>3, <1>4 DEF Asked, State, Request, Operations, Root
<1> QED BY <1>4, <1>10, <1>11, <1>12 DEF Service!Place, Service!To

LEMMA OwnIs ==
    ASSUME NEW d \in Domains, NEW o, d.owner = o
    PROVE  /\ ~d.running => d = Service!Own(o, FALSE)
           /\ d.running => d = Service!Own(o, TRUE)
<1>1. PICK w \in Ops \cup {Foreign} : d = [owner |-> w, running |-> TRUE] \/ d = [owner |-> w, running |-> FALSE]
  BY DEF Domains
<1>2. CASE d = [owner |-> w, running |-> TRUE]
  <2>1. d.running /\ w = o
    BY <1>2
  <2> QED BY <1>2, <2>1 DEF Service!Own
<1>3. CASE d = [owner |-> w, running |-> FALSE]
  <2>1. ~d.running /\ w = o
    BY <1>3
  <2> QED BY <1>3, <2>1 DEF Service!Own
<1> QED BY <1>1, <1>2, <1>3

\* virsh define binds the name, virsh start starts what the operation defined.
LEMMA DomainServes == ASSUME LInv, StartWanted, Define \/ Start PROVE \E o \in Ops : Service!Bind(o) \/ Service!Run(o)
<1>1. task.at \in {"define", "start"} /\ UNCHANGED <<ops, target>>
  BY DEF Define, Start, At, disk
<1>2. PICK o \in Ops : o = task.op /\ ops[o] \in Operations /\ Name \in Names /\ task \in Tasks
  BY <1>1, OperationTyped
<1>3. PICK n \in Names : n = Name
  BY <1>2
<1>4. \A q \in Ops : State(q)' = State(q)
  BY <1>1 DEF State
<1>5. Asked[o].name = n /\ Asked[o].start = ops[o].start /\ UNCHANGED Asked
  BY <1>1, <1>2, <1>3 DEF Asked, State, Request, Operations, Name
<1>6. UNCHANGED Standing
  BY <1>1, SameStanding
<1>7. ASSUME task'.op = o, NEW from, NEW to, Reach(o) = from, Reach(o)' = to
      PROVE  Reached' = [Reached EXCEPT ![o] = to] /\ Reached[o] = from
  <2>1. \A q \in Ops : q # o => Reach(q)' = Reach(q)
    BY <1>2, <1>4, <1>7, OthersReach
  <2> QED BY <1>7, <2>1, ReachedSet
<1>8. CASE Define
  <2>1. /\ domains[n] = NoDomain /\ domains' = [domains EXCEPT ![n] = [owner |-> o, running |-> FALSE]]
        /\ task.at = "define" /\ task' = [task EXCEPT !.at = "verify"]
    BY <1>2, <1>3, <1>8 DEF Define, Definition, At, Goto
  <2>2. task'.op = o /\ Doing(o)' = "verify" /\ Doing(o) = "define" /\ State(o) = "DEFINING"
    BY <1>2, <2>1 DEF Doing, Tasks, LInv, ThreadSound, Definer
  <2>3. Reach(o)' = "bound" /\ Reach(o) = "placed"
    BY <1>4, <2>2, EffectTable DEF Reach
  <2>4. Reached' = [Reached EXCEPT ![o] = "bound"] /\ Reached[o] = "placed"
    BY <1>7, <2>2, <2>3
  <2>5. Service!Bind(o)
    BY <1>5, <1>6, <2>1, <2>4 DEF Service!Bind, Service!To, Service!Own
  <2> QED BY <2>5
<1>9. CASE Start
  <2>1. /\ domains[n] # NoDomain /\ ~domains[n].running /\ domains[n].owner = o
        /\ domains' = [domains EXCEPT ![n] = [domains[n] EXCEPT !.running = TRUE]]
        /\ task.at = "start" /\ task' = [task EXCEPT !.at = "confirm"]
    BY <1>2, <1>3, <1>9 DEF Start, At, Goto, LInv, ThreadSound
  <2>2. task'.op = o /\ Doing(o)' = "confirm" /\ Doing(o) = "start" /\ State(o) = "STARTING"
    BY <1>2, <2>1 DEF Doing, Tasks, LInv, ThreadSound, Starter
  <2>3. Reach(o)' = "run" /\ Reach(o) = "bound"
    BY <1>4, <2>2, EffectTable DEF Reach
  <2>4. Reached' = [Reached EXCEPT ![o] = "run"] /\ Reached[o] = "bound"
    BY <1>7, <2>2, <2>3
  <2>5. domains[n] = Service!Own(o, FALSE)
    <3>1. domains[n] \in Domains
      BY <1>3, <2>1 DEF LInv, TypeOK
    <3> QED BY <2>1, <3>1, OwnIs
  <2>6. ops[o].start
    BY <1>2, <2>2 DEF StartWanted
  <2>7. Service!Run(o)
    BY <1>5, <1>6, <2>1, <2>4, <2>5, <2>6 DEF Service!Run, Service!To
  <2> QED BY <2>7
<1> QED BY <1>8, <1>9

\* The operation is done while its own domain runs.
LEMMA ConfirmServes == ASSUME LInv, Confirm PROVE \E o \in Ops : Service!Complete(o)
<1>1. task.at = "confirm" /\ task' = Idle /\ UNCHANGED <<target, domains>> /\ To(task.op, "SUCCESS")
      /\ domains[Name] # NoDomain /\ domains[Name].owner = task.op /\ domains[Name].running
  BY DEF Confirm, At, Rest, disk, outside, Frozen, Visible, Name
<1>2. PICK o \in Ops : o = task.op /\ ops[o] \in Operations /\ Name \in Names
  BY <1>1, OperationTyped
<1>3. PICK n \in Names : n = Name
  BY <1>2
<1>4. task'.op = NoOp /\ Doing(o) = "confirm" /\ State(o) = "STARTING"
  BY <1>1, <1>2 DEF Idle, Doing, LInv, ThreadSound, Starter
<1>5. /\ Reach(o)' = LastEffect("SUCCESS", Doing(o)')
      /\ UNCHANGED Asked /\ Asked[o] = Request(ops[o])
      /\ Reached' = [Reached EXCEPT ![o] = Reach(o)'] /\ Reached[o] = Reach(o)
  <2>1. "SUCCESS" \in States \ {"ABSENT"}
    BY DEF States, Terminal
  <2> QED BY <1>1, <1>2, <1>4, <2>1, TellServes
<1>6. Reach(o)' = "done" /\ Reach(o) = "run"
  BY <1>4, <1>5, EffectTable DEF Reach
<1>7. domains[n] = Service!Own(o, TRUE)
  <2>1. domains[n] \in Domains
    BY <1>1, <1>3 DEF LInv, TypeOK
  <2> QED BY <1>1, <1>2, <1>3, <2>1, OwnIs
<1>8. Asked[o].name = n
  BY <1>2, <1>3, <1>5 DEF Request, Name
<1>9. UNCHANGED Standing
  BY <1>1, SameStanding
<1> QED BY <1>1, <1>5, <1>6, <1>7, <1>8, <1>9 DEF Service!Complete, Service!To

\* A plan asks the service for a restore.
LEMMA CreateServes == ASSUME LInv, NEW o \in Ops, Create(o) PROVE Service!Ask(o)
<1>1. State(o) = "ABSENT" /\ UNCHANGED <<target, domains, task>>
  BY DEF Create, disk, outside
<1>2. PICK n \in Names, r \in Roots, s \in BOOLEAN, k \in {"FULL", "INCREMENTAL"} :
         ops' = [ops EXCEPT ![o] = [state |-> "PLANNED", name |-> n, root |-> r,
                                    start |-> s, kind |-> k]]
  BY DEF Create
<1>3. ops'[o] = [state |-> "PLANNED", name |-> n, root |-> r, start |-> s, kind |-> k]
      /\ \A q \in Ops : q # o => ops'[q] = ops[q]
  BY <1>2 DEF LInv, TypeOK
<1>4. State(o)' = "PLANNED" /\ \A q \in Ops : q # o => State(q)' = State(q)
  BY <1>3 DEF State
<1>5. \A q \in Ops : q # o => Reach(q)' = Reach(q)
  BY <1>1, <1>4 DEF Reach, Doing
<1>6. Reach(o)' = "open" /\ Reach(o) = "none"
  BY <1>1, <1>4, EffectTable DEF Reach, Open
<1>7. Reached' = [Reached EXCEPT ![o] = "open"] /\ Reached[o] = "none"
  BY <1>5, <1>6, ReachedSet
<1>8. PICK q \in Service!Requests : q = [name |-> n, root |-> r, start |-> s]
  BY DEF Service!Requests
<1>9. Asked' = [Asked EXCEPT ![o] = q]
  <2>1. \A p \in Ops : (IF State(p) = "ABSENT" THEN NoOp ELSE Request(ops[p]))'
                       = IF p = o THEN q ELSE IF State(p) = "ABSENT" THEN NoOp ELSE Request(ops[p])
    BY <1>3, <1>8 DEF State, Request
  <2> QED BY <2>1 DEF Asked
<1>10. UNCHANGED Standing
  BY <1>1, SameStanding
<1> QED BY <1>1, <1>7, <1>9, <1>10 DEF Service!Ask, Service!To

\* A kill loses what may be half done, and nothing else.
LEMMA KillServes == ASSUME LInv, KillAndRestart PROVE Service!Abandon
<1>1. UNCHANGED <<target, domains>> /\ task' = Idle
  BY DEF KillAndRestart, Rest, disk, outside
<1>2. ASSUME NEW q \in Ops
      PROVE  /\ State(q) \in Unsafe => State(q)' = "RECOVERY_REQUIRED" /\ ops[q] \in Operations
                                       /\ ops'[q] = [ops[q] EXCEPT !.state = "RECOVERY_REQUIRED"]
             /\ State(q) \notin Unsafe => ops'[q] = ops[q] /\ State(q)' = State(q)
  <2>1. CASE State(q) \in Unsafe
    <3>1. ops[q] \in Operations
      BY <2>1 DEF LInv, TypeOK, State, Unsafe
    <3>2. ops'[q] = [ops[q] EXCEPT !.state = "RECOVERY_REQUIRED"]
      BY <2>1 DEF KillAndRestart
    <3> QED BY <2>1, <3>1, <3>2 DEF Operations, State
  <2>2. CASE State(q) \notin Unsafe
    BY <2>2 DEF KillAndRestart, State
  <2> QED BY <2>1, <2>2
<1>3. ASSUME NEW q \in Ops
      PROVE  \/ Reach(q)' = Reach(q)
             \/ Reach(q) \in Service!Unfinished /\ Reach(q)' = "lost"
  <2>1. State(q) \in States
    <3>1. ops[q] \in Operations \/ ops[q].state = "ABSENT"
      BY DEF LInv, TypeOK
    <3> QED BY <3>1 DEF Operations, State, States
  <2>2. CASE State(q) \in Unsafe
    <3>1. LastEffect(State(q), Doing(q)) \in Service!Unfinished
      BY <2>1, <2>2, UnfinishedEffect
    <3>2. PICK at : at = Doing(q)'
      OBVIOUS
    <3>3. LastEffect("RECOVERY_REQUIRED", at) = "lost"
      BY EffectTable
    <3> QED BY <1>2, <2>2, <3>1, <3>2, <3>3 DEF Reach
  <2>3. CASE State(q) \notin Unsafe
    <3>1. \A at, bt : LastEffect(State(q), at) = LastEffect(State(q), bt)
      BY <2>3 DEF LastEffect, Unsafe
    <3> QED BY <1>2, <2>3, <3>1 DEF Reach
  <2> QED BY <2>2, <2>3
<1>4. UNCHANGED Asked
  <2>1. \A q \in Ops : (IF State(q) = "ABSENT" THEN NoOp ELSE Request(ops[q]))'
                       = IF State(q) = "ABSENT" THEN NoOp ELSE Request(ops[q])
    <3> SUFFICES ASSUME NEW q \in Ops
                 PROVE  (IF State(q) = "ABSENT" THEN NoOp ELSE Request(ops[q]))'
                        = IF State(q) = "ABSENT" THEN NoOp ELSE Request(ops[q])
      OBVIOUS
    <3>1. CASE State(q) \in Unsafe
      <4>1. /\ ops'[q].name = ops[q].name /\ ops'[q].root = ops[q].root /\ ops'[q].start = ops[q].start
            /\ State(q) # "ABSENT" /\ State(q)' # "ABSENT"
        BY <1>2, <3>1 DEF Operations, Unsafe
      <4> QED BY <4>1 DEF Request
    <3>2. CASE State(q) \notin Unsafe
      BY <1>2, <3>2 DEF Request
    <3> QED BY <3>1, <3>2
  <2> QED BY <2>1 DEF Asked
<1>5. UNCHANGED Standing
  BY <1>1, SameStanding
<1> QED BY <1>1, <1>3, <1>4, <1>5, Abandons

\* What happens around the daemon, the service sees as the work of others.
LEMMA AroundServes ==
    ASSUME LInv, Around
    PROVE  \/ UNCHANGED Mapped
           \/ \E r \in Roots : Service!OthersPlace(r)
           \/ \E n \in Names : Service!OthersDomain(n)
<1>1. UNCHANGED <<ops, task>>
  BY DEF Around, SourceChanges, AdminMakesDir, AdminRemovesDir, AdminDefines, AdminUndefines, AdminStarts,
         Register, Edit
<1>2. UNCHANGED <<Reached, Asked>>
  BY <1>1 DEF Reached, Asked, State, Doing, Request
<1>3. CASE (\E f \in Files : SourceChanges(f)) \/ \E n \in Names : Register(n)
  <2>1. UNCHANGED <<target, domains>>
    BY <1>3 DEF SourceChanges, Register, outside
  <2> QED BY <1>2, <2>1, SameStanding DEF Mapped
<1>4. CASE \E n \in Names : AdminDefines(n) \/ AdminUndefines(n) \/ AdminStarts(n)
  <2>1. PICK n \in Names : AdminDefines(n) \/ AdminUndefines(n) \/ AdminStarts(n)
    BY <1>4
  <2>2. UNCHANGED target
    BY <2>1 DEF AdminDefines, AdminUndefines, AdminStarts
  <2>3. \/ domains' = [domains EXCEPT ![n] = NoDomain]
        \/ domains[n] = NoDomain /\ domains' = [domains EXCEPT ![n] = Service!Own(Foreign, FALSE)]
        \/ domains[n] # NoDomain /\ domains' = [domains EXCEPT ![n].running = TRUE]
    BY <2>1 DEF AdminDefines, AdminUndefines, AdminStarts, Service!Own
  <2>4. Service!OthersDomain(n)
    BY <1>2, <2>2, <2>3, SameStanding DEF Service!OthersDomain
  <2> QED BY <2>4
<1>5. CASE \E r \in Roots : AdminMakesDir(r) \/ AdminRemovesDir(r)
  <2>1. PICK r \in Roots : AdminMakesDir(r) \/ AdminRemovesDir(r)
    BY <1>5
  <2>2. UNCHANGED domains
    BY <2>1 DEF AdminMakesDir, AdminRemovesDir, outside
  <2>4. CASE AdminRemovesDir(r)
    <3>1. \A q \in Roots : target'[q] = IF q = r THEN NoDir ELSE target[q]
      BY <2>4 DEF AdminRemovesDir, LInv, TypeOK
    <3>2. Standing' = [Standing EXCEPT ![r] = NoDomain]
      BY <3>1 DEF Standing
    <3>3. Service!OthersPlace(r)
      BY <1>2, <2>2, <3>2 DEF Service!OthersPlace
    <3> QED BY <3>3
  <2>5. CASE AdminMakesDir(r)
    <3>1. PICK e : e = [owner |-> Foreign, files |-> NoFiles, xml |-> FALSE]
      OBVIOUS
    <3>2. e # NoDir /\ e.owner = Foreign
      <4>1. e \in Directories
        BY <3>1, IdleTyped DEF Directories
      <4> QED BY <3>1, <4>1, NothingApart
    <3>3. target[r] = NoDir /\ \A q \in Roots : target'[q] = IF q = r THEN e ELSE target[q]
      BY <2>5, <3>1 DEF AdminMakesDir, LInv, TypeOK
    <3>4. Standing[r] = NoDomain /\ Standing' = [Standing EXCEPT ![r] = Foreign]
      <4>1. \A q \in Roots : (IF target[q] = NoDir THEN NoDomain ELSE target[q].owner)'
                             = IF q = r THEN Foreign ELSE IF target[q] = NoDir THEN NoDomain ELSE target[q].owner
        BY <3>2, <3>3
      <4> QED BY <3>3, <4>1 DEF Standing
    <3>5. Service!OthersPlace(r)
      BY <1>2, <2>2, <3>4 DEF Service!OthersPlace
    <3> QED BY <3>5
  <2> QED BY <2>1, <2>4, <2>5
<1> QED BY <1>3, <1>4, <1>5 DEF Around

-----------------------------------------------------------------------------
LEMMA InitServes == Init => Service!Init
<1> SUFFICES ASSUME Init PROVE Service!Init
  OBVIOUS
<1>1. \A o \in Ops : Reach(o) = "none" /\ State(o) = "ABSENT"
  BY EffectTable DEF Init, State, Reach
<1> QED BY <1>1 DEF Init, Service!Init, Reached, Reach, Asked, Standing

LEMMA StepServes ==
    ASSUME LInv, StartWanted, [Next]_vars
    PROVE  Service!Next \/ UNCHANGED Mapped
<1>1. CASE \E o \in Ops : Create(o)
  BY <1>1, CreateServes DEF Service!Next
<1>2. CASE Giving \/ CallFails \/ KillAndRestart
  BY <1>2, GivingServes, KillServes DEF Service!Next
<1>3. CASE \E o \in Ops : Visit(o)
  BY <1>3, VisitServes DEF Service!Next
<1>4. CASE RenameNoReplace \/ Define \/ Start \/ Confirm
  BY <1>4, RenameServes, DomainServes, ConfirmServes DEF Service!Next
<1>5. CASE Validate \/ MarkDefining \/ MarkReady
  BY <1>5, MarkServes
<1>6. CASE \/ SnapshotFiles \/ MakeStaging \/ (\E f \in Files : OpenVerified(f)) \/ CopyAndRecheck
           \/ WriteMarker \/ Preflight \/ Prepare \/ CheckIdentity
  BY <1>6, StageServes
<1>7. CASE Around
  BY <1>7, AroundServes DEF Service!Next
<1>8. CASE Tick \/ (\E o \in Ops : StaysReady(o)) \/ UNCHANGED vars
  <2>1. UNCHANGED <<ops, task, target, domains>>
    BY <1>8 DEF Tick, StaysReady, vars, disk, outside
  <2> QED BY <2>1 DEF Mapped, Reached, Asked, Standing, State, Doing, Request
<1> QED BY <1>1, <1>2, <1>3, <1>4, <1>5, <1>6, <1>7, <1>8
        DEF Next, Controller, Verifying, Materializing, Defining, Starting, Giving

\* The local restore implements the service both restores promise: whatever
\* fails, is killed or is done around it, each effect is taken at most once, in
\* order and on a free name, and success comes after the last one.
THEOREM LocalRestoreServes == Spec => ImplementsService
<1>1. Init => Service!Init
  BY InitServes
<1>2. Init => StartWanted
  BY DEF Init, StartWanted, State
<1>3. LInv /\ StartWanted /\ [Next]_vars => StartWanted'
  BY StartWantedStep
<1>4. LInv /\ StartWanted /\ [Next]_vars => [Service!Next]_(Service!serviceVars)
  BY StepServes DEF Mapped, Service!serviceVars
<1> QED BY <1>1, <1>2, <1>3, <1>4, LInvAlways, PTL DEF Spec, ImplementsService, Service!Spec, Service!serviceVars
=============================================================================
