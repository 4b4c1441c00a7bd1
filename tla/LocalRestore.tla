---------------------------- MODULE LocalRestore ----------------------------
(***************************************************************************)
(* The restore of a FULL point of this node (restore_local.py,             *)
(* restore_libvirt.py, restore_runtime.py): verify the published bundle,   *)
(* copy it into an own staging directory, publish that directory under the *)
(* target name, define the domain, and start it when that was asked for.   *)
(* One thread advances the operations, one stage per visit; around it      *)
(* files of the bundle change or vanish, an administrator makes            *)
(* directories and domains, any call may fail, and the daemon may be       *)
(* killed between any two steps.                                           *)
(***************************************************************************)
EXTENDS Naturals, FiniteSets

CONSTANTS
    Ops,        \* restore operations
    Names,      \* names of domains
    Roots,      \* target directories
    Files,      \* the files of the source bundle
    Disks,      \* those of them that are disk images
    Foreign,    \* the owner of what no restore made
    NoDir,      \* a path with nothing behind it
    NoFile,     \* a file that was not read or written yet
    NoDomain,   \* a name libvirt does not know
    NoOp,       \* the thread works on no operation
    MaxEdits,   \* bound: changes made around the daemon
    MaxFaults,  \* bound: calls that fail
    MaxKills    \* bound: kills of the daemon

ASSUME BoundsAssumption == MaxEdits \in Nat /\ MaxFaults \in Nat /\ MaxKills \in Nat
ASSUME DisksAssumption == Disks \subseteq Files
ASSUME NamesApart == Foreign \notin Ops /\ NoOp \notin Ops

\* The contents of a file: its revision, is it sound, is it there.
Contents == [rev : Nat, sound : BOOLEAN, here : BOOLEAN]
Copies   == [Files -> Contents \cup {NoFile}]
Stagings == [files : Copies, marker : BOOLEAN]

\* What may stand under a target name, and what libvirt may know.
Directories == [owner : Ops \cup {Foreign}, files : Copies, xml : BOOLEAN]
Domains     == [owner : Ops \cup {Foreign}, running : BOOLEAN]

ASSUME NothingApart ==
    NoDir \notin Stagings \cup Directories /\ NoFile \notin Files /\ NoDomain \notin Domains

VARIABLES
    ops,      \* restore_operations: what was asked for, and the state
    source,   \* the files of the source: [rev, sound], or gone
    staging,  \* per operation: the staging directory, files and marker
    target,   \* what stands under each target name
    domains,  \* libvirt: who defined the name, and whether it runs
    vms,      \* the VM catalog: registered names
    task,     \* the thread: operation, next step, snapshot, open file
    todo,     \* operations this tick has not visited
    begun,    \* per operation: how often each side effect was begun
    verified, \* per operation: the source at the moment it passed
    edits, faults, kills

vars == <<ops, source, staging, target, domains, vms, task, todo, begun,
          verified, edits, faults, kills>>

disk     == <<source, staging, target>>
outside  == <<domains, vms>>
counters == <<edits, faults, kills>>

Terminal == {"SUCCESS", "FAILED", "RECOVERY_REQUIRED"}
Unsafe   == {"MATERIALIZING", "DEFINING", "STARTING"}
States   == {"ABSENT", "PLANNED", "VERIFYING", "READY"} \cup Unsafe \cup Terminal
Effects  == {"copy", "define", "start"}
Steps    == {"idle", "snapshot", "validate", "stage", "copy", "opened", "publish", "advance",
             "preflight", "prepare", "define", "verify", "identity", "start", "confirm"}

NoFiles == [f \in Files |-> NoFile]
Idle    == [op |-> NoOp, at |-> "idle", snap |-> NoFiles, file |-> NoFile]

Init ==
    /\ ops = [o \in Ops |-> [state |-> "ABSENT"]]
    /\ source = [f \in Files |-> [rev |-> 0, sound |-> TRUE, here |-> TRUE]]
    /\ staging = [o \in Ops |-> NoDir]
    /\ target = [r \in Roots |-> NoDir]
    /\ domains = [n \in Names |-> NoDomain]
    /\ vms = {}
    /\ task = Idle
    /\ todo = {}
    /\ begun = [o \in Ops |-> [e \in Effects |-> 0]]
    /\ verified = [o \in Ops |-> NoFiles]
    /\ edits = 0 /\ faults = 0 /\ kills = 0

State(o)     == ops[o].state
To(o, state) == ops' = [ops EXCEPT ![o].state = state]
Begin(o, e)  == begun' = [begun EXCEPT ![o][e] = @ + 1]
At(step)     == task.at = step
Goto(step)   == task' = [task EXCEPT !.at = step]
Rest         == task' = Idle

\* The API plans an operation: its identity is frozen, its names are new to
\* the VM catalog.
Create(o) ==
    /\ State(o) = "ABSENT"
    /\ \E n \in Names \ vms, r \in Roots, s \in BOOLEAN, k \in {"FULL", "INCREMENTAL"} :
          ops' = [ops EXCEPT ![o] = [state |-> "PLANNED", name |-> n, root |-> r,
                                     start |-> s, kind |-> k]]
    /\ UNCHANGED <<disk, outside, task, todo, begun, verified, counters>>

-----------------------------------------------------------------------------
(* The controller and the pipeline: one stage of one operation per visit.  *)

Tick ==
    /\ At("idle") /\ todo = {}
    /\ todo' = {o \in Ops : State(o) \notin Terminal \cup {"ABSENT"}}
    /\ todo' # {}
    /\ UNCHANGED <<ops, disk, outside, task, begun, verified, counters>>

\* An operation that is unsafe although nobody works on it is fenced.
FenceStray(o) ==
    /\ State(o) \in Unsafe \ {"DEFINING"}
    /\ To(o, "RECOVERY_REQUIRED")
    /\ UNCHANGED <<task, begun>>

\* Mutant: what a kill left in VERIFYING is not taken up again.
BeginPlannedOnly(o) ==
    /\ State(o) = "PLANNED"
    /\ To(o, "VERIFYING")
    /\ task' = [Idle EXCEPT !.op = o, !.at = "snapshot"]
    /\ UNCHANGED begun

BeginVerifying(o) ==
    /\ State(o) \in {"PLANNED", "VERIFYING"}
    /\ To(o, "VERIFYING")
    /\ task' = [Idle EXCEPT !.op = o, !.at = "snapshot"]
    /\ UNCHANGED begun

BeginDefining(o) ==
    /\ State(o) = "DEFINING"
    /\ task' = [Idle EXCEPT !.op = o, !.at = "preflight"]
    /\ UNCHANGED <<ops, begun>>

\* STARTING is stored before anything that may start the domain.
BeginStarting(o) ==
    /\ State(o) = "READY" /\ ops[o].start
    /\ To(o, "STARTING")
    /\ Begin(o, "start")
    /\ task' = [Idle EXCEPT !.op = o, !.at = "identity"]

Finalize(o) ==
    /\ State(o) = "READY" /\ ~ops[o].start
    /\ To(o, "SUCCESS")
    /\ UNCHANGED <<task, begun>>

Pipeline(o) == BeginVerifying(o) \/ BeginDefining(o) \/ BeginStarting(o) \/ Finalize(o)

Visit(o) ==
    /\ At("idle") /\ o \in todo
    /\ todo' = todo \ {o}
    /\ FenceStray(o) \/ Pipeline(o)
    /\ UNCHANGED <<disk, outside, verified, counters>>

\* The state cannot be stored: what is READY stays READY for a later tick.
StaysReady(o) ==
    /\ At("idle") /\ o \in todo
    /\ State(o) = "READY"
    /\ faults < MaxFaults
    /\ faults' = faults + 1
    /\ todo' = todo \ {o}
    /\ UNCHANGED <<ops, disk, outside, task, begun, verified, edits, kills>>

-----------------------------------------------------------------------------
(* The stage that failed decides: before the first write the operation has *)
(* FAILED, after it only an operator can tell what is there.               *)

\* Mutant: an error before the domain exists is a plain failure.
GiveUpFails ==
    /\ To(task.op, IF State(task.op) \in {"VERIFYING", "MATERIALIZING"}
                   THEN "FAILED" ELSE "RECOVERY_REQUIRED")
    /\ Rest
    /\ UNCHANGED <<disk, outside, todo, begun, verified, counters>>

GiveUp ==
    /\ To(task.op, IF State(task.op) = "VERIFYING" THEN "FAILED" ELSE "RECOVERY_REQUIRED")
    /\ Rest
    /\ UNCHANGED <<disk, outside, todo, begun, verified, counters>>

\* Any call of a stage may fail: reading, writing, qemu-img, virsh.
CallFails ==
    /\ ~At("idle")
    /\ faults < MaxFaults
    /\ faults' = faults + 1
    /\ To(task.op, IF State(task.op) = "VERIFYING" THEN "FAILED" ELSE "RECOVERY_REQUIRED")
    /\ Rest
    /\ UNCHANGED <<disk, outside, todo, begun, verified, edits, kills>>

-----------------------------------------------------------------------------
(* VERIFYING: read the source, change nothing.                             *)

\* A file that can be opened, and what identifies it: device, inode, size,
\* time of change.
Readable(f) == source[f].here
Identity(f) == source[f]

SnapshotFiles ==
    /\ At("snapshot")
    /\ \A f \in Files : Readable(f)
    /\ task' = [task EXCEPT !.at = "validate", !.snap = [f \in Files |-> Identity(f)]]
    /\ UNCHANGED <<ops, disk, outside, todo, begun, verified, counters>>

SnapshotRefused ==
    /\ At("snapshot")
    /\ \E f \in Files : ~Readable(f)
    /\ GiveUp

\* The source is a FULL point of a LOCAL storage of this node.
FullPoint(o) == ops[o].kind = "FULL"

\* The three metadata files agree with the catalog and with each other.
MetadataRead(f) == Readable(f) /\ source[f].sound
MetadataAgree   == \A f \in Files \ Disks : MetadataRead(f)

\* Each described disk is there; qemu-img finds no error in its image.
DisksAgree    == \A d \in Disks : Readable(d)
ImageSound(d) == source[d].sound

Agrees(o) == FullPoint(o) /\ MetadataAgree /\ DisksAgree /\ \A d \in Disks : ImageSound(d)

Validate ==
    /\ At("validate")
    /\ Agrees(task.op)
    /\ verified' = [verified EXCEPT ![task.op] = source]
    /\ To(task.op, "MATERIALIZING")
    /\ Begin(task.op, "copy")
    /\ Goto("stage")
    /\ UNCHANGED <<disk, outside, todo, counters>>

ValidateRefused == At("validate") /\ ~Agrees(task.op) /\ GiveUp

-----------------------------------------------------------------------------
(* MATERIALIZING: copy into an own staging directory, then publish it.     *)

Root == ops[task.op].root
Name == ops[task.op].name

Stands(r) == target[r] # NoDir

\* A staging directory that exists belongs to an attempt nobody may repeat.
MakeStaging ==
    /\ At("stage")
    /\ ~Stands(Root) /\ staging[task.op] = NoDir
    /\ staging' = [staging EXCEPT ![task.op] = [files |-> NoFiles, marker |-> FALSE]]
    /\ Goto("copy")
    /\ UNCHANGED <<ops, source, target, outside, todo, begun, verified, counters>>

StagingRefused ==
    /\ At("stage")
    /\ Stands(Root) \/ staging[task.op] # NoDir
    /\ GiveUp

Unchanged(f) == Identity(f) = task.snap[f]
Copied(f)    == staging[task.op].files[f] # NoFile

OpenVerified(f) ==
    /\ At("copy") /\ ~Copied(f)
    /\ Unchanged(f)
    /\ task' = [task EXCEPT !.at = "opened", !.file = f]
    /\ UNCHANGED <<ops, disk, outside, todo, begun, verified, counters>>

OpenRefused ==
    /\ At("copy")
    /\ \E f \in Files : ~Copied(f) /\ ~Unchanged(f)
    /\ GiveUp

\* What is read is what the file holds now; an open file outlives its name.
\* The copy counts when the file is still the one that was verified.
Content(f) == IF Readable(f) THEN source[f] ELSE task.snap[f]

\* Mutant: the copy is not followed by a second look at the source.
CopyUnchecked ==
    /\ At("opened")
    /\ staging' = [staging EXCEPT ![task.op].files[task.file] = Content(task.file)]
    /\ task' = [task EXCEPT !.at = "copy", !.file = NoFile]
    /\ UNCHANGED <<ops, source, target, outside, todo, begun, verified, counters>>

CopyAndRecheck ==
    /\ At("opened")
    /\ Unchanged(task.file)
    /\ staging' = [staging EXCEPT ![task.op].files[task.file] = Content(task.file)]
    /\ task' = [task EXCEPT !.at = "copy", !.file = NoFile]
    /\ UNCHANGED <<ops, source, target, outside, todo, begun, verified, counters>>

RecheckRefused == At("opened") /\ ~Unchanged(task.file) /\ GiveUp

WriteMarker ==
    /\ At("copy")
    /\ \A f \in Files : Copied(f)
    /\ staging' = [staging EXCEPT ![task.op].marker = TRUE]
    /\ Goto("publish")
    /\ UNCHANGED <<ops, source, target, outside, todo, begun, verified, counters>>

Published == [owner |-> task.op, files |-> staging[task.op].files, xml |-> FALSE]

\* Mutant: the rename replaces what stands under the name.
RenameReplaces ==
    /\ At("publish")
    /\ target' = [target EXCEPT ![Root] = Published]
    /\ staging' = [staging EXCEPT ![task.op] = NoDir]
    /\ Goto("advance")
    /\ UNCHANGED <<ops, source, outside, todo, begun, verified, counters>>

RenameNoReplace ==
    /\ At("publish")
    /\ ~Stands(Root)
    /\ target' = [target EXCEPT ![Root] = Published]
    /\ staging' = [staging EXCEPT ![task.op] = NoDir]
    /\ Goto("advance")
    /\ UNCHANGED <<ops, source, outside, todo, begun, verified, counters>>

RenameRefused == At("publish") /\ Stands(Root) /\ GiveUp

\* Only after the directory stands under its name does the state say so.
MarkDefining ==
    /\ At("advance")
    /\ To(task.op, "DEFINING")
    /\ Rest
    /\ UNCHANGED <<disk, outside, todo, begun, verified, counters>>

-----------------------------------------------------------------------------
(* DEFINING: the domain gets the new name, the new uuid, the copied disks, *)
(* and its links down.                                                     *)

NameTaken == Name \in vms \/ domains[Name] # NoDomain

Preflight ==
    /\ At("preflight") /\ ~NameTaken
    /\ Goto("prepare")
    /\ UNCHANGED <<ops, disk, outside, todo, begun, verified, counters>>

PreflightRefused == At("preflight") /\ NameTaken /\ GiveUp

\* The marker in the directory names this operation and its source; the disks
\* are those of the domain.
MarkerNames(o) == target[ops[o].root].owner = o
DisksMatch(o)  == \A d \in Disks : target[ops[o].root].files[d] # NoFile
Evidence(o)    == Stands(ops[o].root) /\ MarkerNames(o) /\ DisksMatch(o)

\* The new definition is written once.
Unwritten == ~target[Root].xml

Prepare ==
    /\ At("prepare")
    /\ Evidence(task.op) /\ Unwritten
    /\ target' = [target EXCEPT ![Root].xml = TRUE]
    /\ Begin(task.op, "define")
    /\ Goto("define")
    /\ UNCHANGED <<ops, source, staging, outside, todo, verified, counters>>

PrepareRefused ==
    /\ At("prepare")
    /\ Evidence(task.op) => ~Unwritten
    /\ GiveUp

\* Name, uuid, own disks, links down: all of it bound to the operation.
Definition(o) == [owner |-> o, running |-> FALSE]

\* libvirt refuses a name that another uuid has.
Define ==
    /\ At("define")
    /\ domains[Name] = NoDomain
    /\ domains' = [domains EXCEPT ![Name] = Definition(task.op)]
    /\ Goto("verify")
    /\ UNCHANGED <<ops, disk, vms, todo, begun, verified, counters>>

DefineRefused == At("define") /\ domains[Name] # NoDomain /\ GiveUp

Visible(o) == domains[ops[o].name] # NoDomain
ReadBack(o) == domains[ops[o].name].owner = o

MarkReady ==
    /\ At("verify")
    /\ Visible(task.op) /\ ReadBack(task.op)
    /\ To(task.op, "READY")
    /\ Rest
    /\ UNCHANGED <<disk, outside, todo, begun, verified, counters>>

VerifyRefused == At("verify") /\ ~(Visible(task.op) /\ ReadBack(task.op)) /\ GiveUp

-----------------------------------------------------------------------------
(* STARTING: is it still our domain, start it, does it run, is it ours.    *)

\* The domain is still the frozen one, and disconnected.
Frozen(o) == Visible(o) /\ domains[ops[o].name].owner = o

CheckIdentity ==
    /\ At("identity")
    /\ Frozen(task.op)
    /\ Goto("start")
    /\ UNCHANGED <<ops, disk, outside, todo, begun, verified, counters>>

IdentityRefused == At("identity") /\ ~Frozen(task.op) /\ GiveUp

\* virsh starts what has the name; it refuses a domain that runs.
Start ==
    /\ At("start")
    /\ domains[Name] # NoDomain /\ ~domains[Name].running
    /\ domains' = [domains EXCEPT ![Name].running = TRUE]
    /\ Goto("confirm")
    /\ UNCHANGED <<ops, disk, vms, todo, begun, verified, counters>>

StartRefused ==
    /\ At("start")
    /\ domains[Name] # NoDomain => domains[Name].running
    /\ GiveUp

Confirm ==
    /\ At("confirm")
    /\ Frozen(task.op) /\ domains[Name].running
    /\ To(task.op, "SUCCESS")
    /\ Rest
    /\ UNCHANGED <<disk, outside, todo, begun, verified, counters>>

ConfirmRefused ==
    /\ At("confirm")
    /\ Frozen(task.op) => ~domains[Name].running
    /\ GiveUp

-----------------------------------------------------------------------------
(* A kill loses the thread; the next start fences what may be half done.   *)

KillAndRestart ==
    /\ kills < MaxKills
    /\ kills' = kills + 1
    /\ ops' = [o \in Ops |-> IF State(o) \in Unsafe
                             THEN [ops[o] EXCEPT !.state = "RECOVERY_REQUIRED"] ELSE ops[o]]
    /\ Rest
    /\ todo' = {}
    /\ UNCHANGED <<disk, outside, begun, verified, edits, faults>>

-----------------------------------------------------------------------------
(* Around the daemon.                                                      *)

Edit ==
    /\ edits < MaxEdits
    /\ edits' = edits + 1
    /\ UNCHANGED <<ops, staging, task, todo, begun, verified, faults, kills>>

\* A file of the source changes in place, noticeably or not, or vanishes.
SourceChanges(f) ==
    /\ Readable(f)
    /\ \E sound, here \in BOOLEAN :
          source' = [source EXCEPT ![f] = [rev |-> @.rev + 1, sound |-> sound, here |-> here]]
    /\ Edit
    /\ UNCHANGED <<target, outside>>

AdminMakesDir(r) ==
    /\ target[r] = NoDir
    /\ target' = [target EXCEPT ![r] = [owner |-> Foreign, files |-> NoFiles, xml |-> FALSE]]
    /\ Edit
    /\ UNCHANGED <<source, outside>>

AdminRemovesDir(r) ==
    /\ target[r] # NoDir
    /\ target' = [target EXCEPT ![r] = NoDir]
    /\ Edit
    /\ UNCHANGED <<source, outside>>

AdminDefines(n) ==
    /\ domains[n] = NoDomain
    /\ domains' = [domains EXCEPT ![n] = [owner |-> Foreign, running |-> FALSE]]
    /\ Edit
    /\ UNCHANGED <<source, target, vms>>

\* Nobody can stop an administrator.  Only the instant between the check of the
\* identity and virsh start is left out: the code starts what has the name.
AdminUndefines(n) ==
    /\ domains[n] # NoDomain
    /\ At("start") => n # Name
    /\ domains' = [domains EXCEPT ![n] = NoDomain]
    /\ Edit
    /\ UNCHANGED <<source, target, vms>>

AdminStarts(n) ==
    /\ domains[n] # NoDomain
    /\ domains' = [domains EXCEPT ![n].running = TRUE]
    /\ Edit
    /\ UNCHANGED <<source, target, vms>>

Register(n) ==
    /\ domains[n] # NoDomain /\ n \notin vms
    /\ vms' = vms \cup {n}
    /\ Edit
    /\ UNCHANGED <<source, target, domains>>

Around ==
    \/ \E f \in Files : SourceChanges(f)
    \/ \E r \in Roots : AdminMakesDir(r) \/ AdminRemovesDir(r)
    \/ \E n \in Names : AdminDefines(n) \/ AdminUndefines(n) \/ AdminStarts(n) \/ Register(n)

Verifying     == SnapshotFiles \/ SnapshotRefused \/ Validate \/ ValidateRefused
Materializing ==
    \/ MakeStaging \/ StagingRefused
    \/ (\E f \in Files : OpenVerified(f)) \/ OpenRefused
    \/ CopyAndRecheck \/ RecheckRefused
    \/ WriteMarker \/ RenameNoReplace \/ RenameRefused \/ MarkDefining
Defining ==
    \/ Preflight \/ PreflightRefused \/ Prepare \/ PrepareRefused
    \/ Define \/ DefineRefused \/ MarkReady \/ VerifyRefused
Starting ==
    \/ CheckIdentity \/ IdentityRefused \/ Start \/ StartRefused
    \/ Confirm \/ ConfirmRefused

Controller ==
    \/ Tick
    \/ \E o \in Ops : Visit(o)
    \/ Verifying \/ Materializing \/ Defining \/ Starting

Next ==
    \/ \E o \in Ops : Create(o) \/ StaysReady(o)
    \/ Controller \/ CallFails \/ KillAndRestart \/ Around

Spec     == Init /\ [][Next]_vars
FairSpec == Spec /\ WF_vars(Controller)

-----------------------------------------------------------------------------
Operations == [state : States \ {"ABSENT"}, name : Names, root : Roots, start : BOOLEAN,
               kind : {"FULL", "INCREMENTAL"}]
Tasks      == [op : Ops \cup {NoOp}, at : Steps, snap : Copies, file : Files \cup {NoFile}]

TypeOK ==
    /\ ops \in [Ops -> Operations \cup {[state |-> "ABSENT"]}]
    /\ source \in [Files -> Contents]
    /\ staging \in [Ops -> Stagings \cup {NoDir}]
    /\ target \in [Roots -> Directories \cup {NoDir}]
    /\ domains \in [Names -> Domains \cup {NoDomain}]
    /\ vms \subseteq Names /\ todo \subseteq Ops
    /\ task \in Tasks
    /\ begun \in [Ops -> [Effects -> Nat]]
    /\ verified \in [Ops -> Copies]

\* What stands under a target name is the whole source as it was at the one
\* moment it passed verification, whatever changed before, during or after
\* the copy (inspect, _open_verified_source, _recheck_source).
TargetIsSource ==
    \A r \in Roots : target[r] # NoDir /\ target[r].owner # Foreign =>
        /\ target[r].files = verified[target[r].owner]
        /\ \A f \in Files : target[r].files[f].sound

\* An operation that FAILED wrote nothing anywhere: what may have left
\* something behind is RECOVERY_REQUIRED (LocalRestoreExecutor.advance).
FailedLeftNothing ==
    \A o \in Ops : State(o) = "FAILED" =>
        /\ staging[o] = NoDir
        /\ \A r \in Roots : target[r] # NoDir => target[r].owner # o
        /\ \A n \in Names : domains[n] # NoDomain => domains[n].owner # o

\* Across kills, faults and restarts no side effect is begun a second time
\* (recover_startup, RestoreRuntimeController.tick).
EffectsOnce == \A o \in Ops, e \in Effects : begun[o][e] <= 1

\* What the daemon did not make it never changes: a directory under the
\* target name stays, a domain of somebody else is not redefined or started.
OthersUntouched ==
    [][Controller =>
        /\ \A r \in Roots : target[r] # NoDir =>
                target'[r] # NoDir /\ target'[r].owner = target[r].owner
                /\ target'[r].files = target[r].files
        /\ \A n \in Names : domains[n] # NoDomain /\ domains[n].owner = Foreign =>
                domains'[n] = domains[n] ]_vars

\* The last effect of an operation, by its stored state and by what the thread
\* has done for it since.
Doing(o) == IF task.op = o THEN task.at ELSE "idle"

LastEffect(state, at) ==
    CASE state = "ABSENT"                                       -> "none"
      [] state = "SUCCESS"                                      -> "done"
      [] state \in Terminal \ {"SUCCESS"}                       -> "lost"
      [] state = "STARTING" /\ at = "confirm"                   -> "run"
      [] \/ state = "READY" \/ (state = "STARTING" /\ at # "confirm")
         \/ state = "DEFINING" /\ at = "verify"                 -> "bound"
      [] \/ state = "DEFINING" /\ at # "verify"
         \/ state = "MATERIALIZING" /\ at = "advance"           -> "placed"
      [] OTHER                                                  -> "open"

Request(op) == [name |-> op.name, root |-> op.root, start |-> op.start]

Reached  == [o \in Ops |-> LastEffect(State(o), Doing(o))]
Asked    == [o \in Ops |-> IF State(o) = "ABSENT" THEN NoOp ELSE Request(ops[o])]
Standing == [r \in Roots |-> IF target[r] = NoDir THEN NoDomain ELSE target[r].owner]

Service == INSTANCE RestoreService WITH
    Free <- NoDomain, NoRequest <- NoOp,
    step <- Reached, asked <- Asked, place <- Standing, domain <- domains

\* The pipeline keeps the promise of both restores: each effect at most once,
\* in order, on a free name, and no success before the last one
\* (LocalRestorePipeline.advance, recover_startup).
ImplementsService == Service!Spec

\* Every planned operation ends (LocalRestorePipeline.advance, tick).
OperationsEnd == \A o \in Ops : State(o) = "PLANNED" ~> State(o) \in Terminal
=============================================================================
