--------------------------- MODULE ReceivedRestore ---------------------------
(***************************************************************************)
(* The restore of a replica this node received (received_restore_v2.py,    *)
(* received_catalog_v2.py): the runtime thread flattens the chain of the   *)
(* point into new images, publishes them under the target name, defines,   *)
(* registers and starts the domain, all within one visit.  Meanwhile the   *)
(* API plans further restores, lists and deletes received points, the      *)
(* receiver deletes and publishes them, an administrator makes directories *)
(* and domains, and the daemon may be killed between any two steps.  Every *)
(* pass of the thread ends with the tick of the other restore controller,  *)
(* which finds the same operations.                                        *)
(*                                                                         *)
(* The points form one chain: 1 is FULL, p is the parent of p + 1.         *)
(***************************************************************************)
EXTENDS Integers

CONSTANTS
    MaxOps,     \* bound: restores are numbered by their creation, 1 .. MaxOps
    MaxPoint,   \* received points are 1 .. MaxPoint
    Disks,      \* disks of the machine
    Meta,       \* the metadata directory of a bundle
    Names,      \* names of domains
    Roots,      \* target directories
    Foreign,    \* the owner of what no restore made
    NoDir, NoImage, NoDomain, NoDisk,
    MaxEdits,   \* bound: changes made around the runtime
    MaxFaults,  \* bound: calls that fail
    MaxKills    \* bound: kills and restarts of the daemon

Ops    == 1 .. MaxOps
NoOp   == 0
Points == 1 .. MaxPoint
Pieces == Disks \cup {Meta}

ASSUME BoundsAssumption ==
    MaxOps \in Nat /\ MaxPoint \in Nat /\ MaxEdits \in Nat /\ MaxFaults \in Nat /\ MaxKills \in Nat
ASSUME NamesApart == Foreign \notin Ops /\ Meta \notin Disks /\ NoDisk \notin Disks
ASSUME DisksAssumption == Disks # {}    \* "backup has no disks" is refused

\* The points whose data an image holds.
Images      == [Disks -> {NoImage} \cup SUBSET Points]
Directories == [owner : Ops \cup {Foreign}, images : Images]
Domains     == [owner : Ops \cup {Foreign}, running : BOOLEAN]

ASSUME NothingApart ==
    /\ \A points \in SUBSET Points : points # NoImage
    /\ NoDir \notin Images \cup Directories
    /\ NoDomain \notin Domains \cup Ops

VARIABLES
    ops,       \* restore_operations
    bundles,   \* per point: the pieces of its bundle on the disk
    markers,   \* points with a PUBLISHED record
    catalog,   \* per point: the received status in the database
    doomed,    \* points the deletion in progress has still to remove
    staging,   \* per operation: the images made so far
    target,    \* what stands under each target name
    domains,   \* libvirt: who defined the name, and whether it runs
    vms,       \* the VM catalog: who the name was registered for
    task,      \* the thread: operation, next step, disk, next point
    todo,      \* operations listed by this tick and not visited yet
    worker,    \* its loop: list, receiving, local (the other tick), FAILED
    edits, faults, kills

store    == <<bundles, markers, catalog, doomed>>
outside  == <<domains, vms>>
loop     == <<task, todo, worker>>
counters == <<edits, faults, kills>>
vars     == <<ops, store, staging, target, outside, loop, counters>>

Terminal == {"SUCCESS", "FAILED"}
Unsafe   == {"MATERIALIZING", "DEFINING", "STARTING"}
States   == {"ABSENT", "PLANNED", "VERIFYING", "READY"} \cup Unsafe \cup Terminal

Steps    == {"idle", "verify", "disk", "replace", "access", "define", "register", "ready",
             "start", "finish"}
Idle     == [op |-> NoOp, at |-> "idle", disk |-> NoDisk, next |-> 1]
NoImages == [d \in Disks |-> NoImage]

Init ==
    /\ ops = [o \in Ops |-> [state |-> "ABSENT"]]
    /\ bundles = [p \in Points |-> Pieces]
    /\ markers = Points
    /\ catalog = [p \in Points |-> "AVAILABLE"]
    /\ doomed = {}
    /\ staging = [o \in Ops |-> NoDir]
    /\ target = [r \in Roots |-> NoDir]
    /\ domains = [n \in Names |-> NoDomain]
    /\ vms = [n \in Names |-> NoDomain]
    /\ task = Idle
    /\ todo = {}
    /\ worker = "list"
    /\ edits = 0 /\ faults = 0 /\ kills = 0

State(o)     == ops[o].state
To(o, state) == ops' = [ops EXCEPT ![o].state = state]
At(step)     == worker = "receiving" /\ task.at = step
Goto(step)   == task' = [task EXCEPT !.at = step]
Rest         == task' = Idle
Edit         == edits < MaxEdits /\ edits' = edits + 1 /\ UNCHANGED <<faults, kills>>
Fault        == faults < MaxFaults /\ faults' = faults + 1 /\ UNCHANGED <<edits, kills>>

-----------------------------------------------------------------------------
(* The API.                                                                *)

Create(o) ==
    /\ State(o) = "ABSENT" /\ \A q \in 1 .. o - 1 : State(q) # "ABSENT"
    /\ \E p \in Points, n \in Names, r \in Roots, s \in BOOLEAN :
          /\ catalog[p] = "AVAILABLE"
          /\ vms[n] = NoDomain
          /\ ops' = [ops EXCEPT ![o] = [state |-> "PLANNED", point |-> p, name |-> n,
                                        root |-> r, start |-> s]]
    /\ UNCHANGED <<store, staging, target, outside, loop, counters>>

\* A record whose bundle can be read makes the point AVAILABLE; a known point
\* without one is MISSING.
Reconciled(bs, ms) ==
    [p \in Points |-> IF p \in ms /\ Meta \in bs[p] THEN "AVAILABLE" ELSE "MISSING"]

\* received.list
List ==
    /\ doomed = {}
    /\ catalog' = Reconciled(bundles, markers)
    /\ catalog' # catalog
    /\ UNCHANGED <<ops, bundles, markers, doomed, staging, target, outside, loop, counters>>

\* received.delete removes the point after its descendants; the sender's
\* retention removes one point at a time.
StartDelete(p) ==
    /\ doomed = {} /\ p \in markers
    /\ doomed' \in {{q \in markers : q >= p}, {p}}
    /\ Edit
    /\ UNCHANGED <<ops, bundles, markers, catalog, staging, target, outside, loop>>

Last(ps) == CHOOSE p \in ps : \A q \in ps : q <= p

RemovePiece(f) ==
    /\ doomed # {}
    /\ f \in bundles[Last(doomed)]
    /\ bundles' = [bundles EXCEPT ![Last(doomed)] = @ \ {f}]
    /\ UNCHANGED <<ops, markers, catalog, doomed, staging, target, outside, loop, counters>>

\* The record goes last; after the last point the catalog is reconciled.
Unlink ==
    /\ doomed # {}
    /\ bundles[Last(doomed)] = {}
    /\ markers' = markers \ {Last(doomed)}
    /\ doomed' = doomed \ {Last(doomed)}
    /\ catalog' = IF doomed' = {} THEN Reconciled(bundles, markers') ELSE catalog
    /\ UNCHANGED <<ops, bundles, staging, target, outside, loop, counters>>

DeleteFails ==
    /\ doomed # {}
    /\ doomed' = {}
    /\ Fault
    /\ UNCHANGED <<ops, bundles, markers, catalog, staging, target, outside, loop>>

\* The receiver publishes a replica again.
Publish(p) ==
    /\ p \notin markers /\ bundles[p] = {}
    /\ p = 1 \/ p - 1 \in markers
    /\ bundles' = [bundles EXCEPT ![p] = Pieces]
    /\ markers' = markers \cup {p}
    /\ UNCHANGED <<ops, catalog, doomed, staging, target, outside, loop, counters>>

-----------------------------------------------------------------------------
(* The runtime thread: list the operations, advance each to its end.       *)

Tick ==
    /\ worker = "list"
    /\ todo' = {o \in Ops : State(o) \notin Terminal \cup {"ABSENT"}}
    /\ worker' = "receiving"
    /\ UNCHANGED <<ops, store, staging, target, outside, task, counters>>

FirstListed(o) == o \in todo /\ \A q \in todo : o <= q

\* Mutant: what a kill left in VERIFYING is not taken up again.
VisitPlanned(o) ==
    /\ At("idle") /\ FirstListed(o)
    /\ todo' = todo \ {o}
    /\ \/ /\ State(o) = "PLANNED"
          /\ To(o, "VERIFYING")
          /\ task' = [Idle EXCEPT !.op = o, !.at = "verify"]
       \/ /\ State(o) = "READY"
          /\ task' = [Idle EXCEPT !.op = o, !.at = "ready"]
          /\ UNCHANGED ops
    /\ UNCHANGED <<store, staging, target, outside, worker, counters>>

\* What a kill left before its first write starts again, READY goes on.
Visit(o) ==
    /\ At("idle") /\ FirstListed(o)
    /\ todo' = todo \ {o}
    /\ \/ /\ State(o) \in {"PLANNED", "VERIFYING"}
          /\ To(o, "VERIFYING")
          /\ task' = [Idle EXCEPT !.op = o, !.at = "verify"]
       \/ /\ State(o) = "READY"
          /\ task' = [Idle EXCEPT !.op = o, !.at = "ready"]
          /\ UNCHANGED ops
    /\ UNCHANGED <<store, staging, target, outside, worker, counters>>

EndTick ==
    /\ At("idle") /\ todo = {}
    /\ worker' = "local"
    /\ UNCHANGED <<ops, store, staging, target, outside, task, todo, counters>>

\* RestoreRuntimeController.tick takes every replica for a remote one and
\* calls fail_restore in a way RepositoryV2 does not accept: the tick raises
\* and the worker ends.
Foreseen(o) == State(o) \in {"PLANNED", "VERIFYING"}

LocalTick ==
    /\ worker = "local"
    /\ worker' = IF \E o \in Ops : Foreseen(o) THEN "FAILED" ELSE "list"
    /\ UNCHANGED <<ops, store, staging, target, outside, task, todo, counters>>

-----------------------------------------------------------------------------
(* advance                                                                 *)

Op    == ops[task.op]
Chain == 1 .. Op.point

\* Whatever fails, the operation has FAILED; what it made stays.
GiveUp ==
    /\ To(task.op, "FAILED")
    /\ Rest
    /\ UNCHANGED <<store, staging, target, outside, todo, worker>>

CallFails == worker = "receiving" /\ task.op # NoOp /\ GiveUp /\ Fault

\* Every point of the chain is AVAILABLE and its metadata can be read.
ChainValid == \A p \in Chain : catalog[p] = "AVAILABLE" /\ Meta \in bundles[p]

\* Nothing stands under the target name, libvirt does not know the name.
TargetFree == target[Op.root] = NoDir /\ domains[Op.name] = NoDomain

Verify ==
    /\ At("verify")
    /\ ChainValid /\ TargetFree /\ staging[task.op] = NoDir
    /\ To(task.op, "MATERIALIZING")
    /\ staging' = [staging EXCEPT ![task.op] = NoImages]
    /\ Goto("disk")
    /\ UNCHANGED <<store, target, outside, todo, worker, counters>>

VerifyRefused ==
    /\ At("verify")
    /\ ~(ChainValid /\ TargetFree /\ staging[task.op] = NoDir)
    /\ GiveUp /\ UNCHANGED counters

Image(d) == staging[task.op][d]
Turn(d)    == IF task.disk = NoDisk THEN Image(d) = NoImage ELSE task.disk = d

\* Mutant: an increment that is gone is left out.
FlattenSkips(d) ==
    /\ At("disk") /\ Turn(d)
    /\ staging' = [staging EXCEPT ![task.op][d] = (IF @ = NoImage THEN {} ELSE @)
                      \cup (IF d \in bundles[task.next] THEN {task.next} ELSE {})]
    /\ task' = IF task.next = Op.point
               THEN [task EXCEPT !.disk = NoDisk, !.next = 1]
               ELSE [task EXCEPT !.disk = d, !.next = @ + 1]
    /\ UNCHANGED <<ops, store, target, outside, todo, worker, counters>>

\* qemu-img reads one bundle after the other: the FULL image, then each
\* increment on top of what is flat so far.
Flatten(d) ==
    /\ At("disk") /\ Turn(d)
    /\ d \in bundles[task.next]
    /\ staging' = [staging EXCEPT ![task.op][d] =
                      (IF @ = NoImage THEN {} ELSE @) \cup {task.next}]
    /\ task' = IF task.next = Op.point
               THEN [task EXCEPT !.disk = NoDisk, !.next = 1]
               ELSE [task EXCEPT !.disk = d, !.next = @ + 1]
    /\ UNCHANGED <<ops, store, target, outside, todo, worker, counters>>

FlattenRefused(d) ==
    /\ At("disk") /\ Turn(d)
    /\ d \notin bundles[task.next]
    /\ GiveUp /\ UNCHANGED counters

AllFlat == task.disk = NoDisk /\ \A d \in Disks : Image(d) # NoImage

\* The definition is that of the point itself, under the new name and uuid.
RewriteDomain ==
    /\ At("disk") /\ AllFlat
    /\ Meta \in bundles[Op.point]
    /\ Goto("replace")
    /\ UNCHANGED <<ops, store, staging, target, outside, todo, worker, counters>>

RewriteRefused ==
    /\ At("disk") /\ AllFlat
    /\ Meta \notin bundles[Op.point]
    /\ GiveUp /\ UNCHANGED counters

\* os.replace takes the place of an empty directory and of no other.
Replaceable(r) == target[r] # NoDir => target[r].images = NoImages

Replace ==
    /\ At("replace") /\ Replaceable(Op.root)
    /\ target' = [target EXCEPT ![Op.root] = [owner |-> task.op, images |-> staging[task.op]]]
    /\ staging' = [staging EXCEPT ![task.op] = NoDir]
    /\ Goto("access")
    /\ UNCHANGED <<ops, store, outside, todo, worker, counters>>

ReplaceRefused == At("replace") /\ ~Replaceable(Op.root) /\ GiveUp /\ UNCHANGED counters

GrantAccess ==
    /\ At("access")
    /\ To(task.op, "DEFINING")
    /\ Goto("define")
    /\ UNCHANGED <<store, staging, target, outside, todo, worker, counters>>

\* libvirt refuses a name that another uuid has.
Define ==
    /\ At("define") /\ domains[Op.name] = NoDomain
    /\ domains' = [domains EXCEPT ![Op.name] = [owner |-> task.op, running |-> FALSE]]
    /\ Goto("register")
    /\ UNCHANGED <<ops, store, staging, target, vms, todo, worker, counters>>

DefineRefused == At("define") /\ domains[Op.name] # NoDomain /\ GiveUp /\ UNCHANGED counters

\* register_vm: a name belongs to the uuid it was first registered with.
Registrable ==
    /\ domains[Op.name] # NoDomain /\ domains[Op.name].owner = task.op
    /\ vms[Op.name] \in {NoDomain, task.op}

\* Mutant: register_vm returns the row of the name, whoever it is for.
RegisterByName ==
    /\ At("register")
    /\ domains[Op.name] # NoDomain /\ domains[Op.name].owner = task.op
    /\ vms' = [vms EXCEPT ![Op.name] = IF @ = NoDomain THEN task.op ELSE @]
    /\ To(task.op, "READY")
    /\ Goto("ready")
    /\ UNCHANGED <<store, staging, target, domains, todo, worker, counters>>

RegisterReady ==
    /\ At("register") /\ Registrable
    /\ vms' = [vms EXCEPT ![Op.name] = task.op]
    /\ To(task.op, "READY")
    /\ Goto("ready")
    /\ UNCHANGED <<store, staging, target, domains, todo, worker, counters>>

RegisterRefused == At("register") /\ ~Registrable /\ GiveUp /\ UNCHANGED counters

MarkStarting ==
    /\ At("ready") /\ Op.start
    /\ To(task.op, "STARTING")
    /\ Goto("start")
    /\ UNCHANGED <<store, staging, target, outside, todo, worker, counters>>

\* virsh starts what has the name.
Start ==
    /\ At("start")
    /\ domains[Op.name] # NoDomain /\ ~domains[Op.name].running
    /\ domains' = [domains EXCEPT ![Op.name].running = TRUE]
    /\ Goto("finish")
    /\ UNCHANGED <<ops, store, staging, target, vms, todo, worker, counters>>

StartRefused ==
    /\ At("start")
    /\ domains[Op.name] # NoDomain => domains[Op.name].running
    /\ GiveUp /\ UNCHANGED counters

Finish ==
    /\ At("finish") \/ (At("ready") /\ ~Op.start)
    /\ To(task.op, "SUCCESS")
    /\ Rest
    /\ UNCHANGED <<store, staging, target, outside, todo, worker, counters>>

-----------------------------------------------------------------------------
\* The daemon is killed, or restarted after its worker FAILED: what was
\* past VERIFYING and not READY has FAILED.
Restart ==
    /\ kills < MaxKills
    /\ kills' = kills + 1
    /\ ops' = [o \in Ops |-> IF State(o) \in Unsafe
                             THEN [ops[o] EXCEPT !.state = "FAILED"] ELSE ops[o]]
    /\ Rest /\ todo' = {} /\ worker' = "list"
    /\ doomed' \in {doomed, {}}
    /\ UNCHANGED <<bundles, markers, catalog, staging, target, outside, edits, faults>>

AdminMakesDir(r) ==
    /\ target[r] = NoDir
    /\ \E i \in {NoImages, [d \in Disks |-> {}]} :
          target' = [target EXCEPT ![r] = [owner |-> Foreign, images |-> i]]
    /\ Edit
    /\ UNCHANGED <<ops, store, staging, outside, loop>>

AdminDefines(n) ==
    /\ domains[n] = NoDomain
    /\ domains' = [domains EXCEPT ![n] = [owner |-> Foreign, running |-> FALSE]]
    /\ Edit
    /\ UNCHANGED <<ops, store, staging, target, vms, loop>>

\* Administrators leave the definition of a restored domain alone until its
\* operation ended; starting it is what they may do.
AdminUndefines(n) ==
    /\ domains[n] # NoDomain
    /\ domains[n].owner \in {Foreign} \cup {o \in Ops : State(o) \in Terminal}
    /\ domains' = [domains EXCEPT ![n] = NoDomain]
    /\ Edit
    /\ UNCHANGED <<ops, store, staging, target, vms, loop>>

AdminStarts(n) ==
    /\ domains[n] # NoDomain
    /\ domains' = [domains EXCEPT ![n].running = TRUE]
    /\ Edit
    /\ UNCHANGED <<ops, store, staging, target, vms, loop>>

\* vm.register
Register(n) ==
    /\ domains[n] # NoDomain /\ vms[n] = NoDomain
    /\ vms' = [vms EXCEPT ![n] = domains[n].owner]
    /\ Edit
    /\ UNCHANGED <<ops, store, staging, target, domains, loop>>

Api ==
    \/ \E o \in Ops : Create(o)
    \/ List \/ Unlink \/ DeleteFails
    \/ \E p \in Points : StartDelete(p) \/ Publish(p)
    \/ \E f \in Pieces : RemovePiece(f)

Admin ==
    \/ \E r \in Roots : AdminMakesDir(r)
    \/ \E n \in Names : AdminDefines(n) \/ AdminUndefines(n) \/ AdminStarts(n) \/ Register(n)

Advance ==
    \/ Verify \/ VerifyRefused
    \/ \E d \in Disks : Flatten(d) \/ FlattenRefused(d)
    \/ RewriteDomain \/ RewriteRefused \/ Replace \/ ReplaceRefused \/ GrantAccess
    \/ Define \/ DefineRefused \/ RegisterReady \/ RegisterRefused
    \/ MarkStarting \/ Start \/ StartRefused \/ Finish

Runtime == Tick \/ (\E o \in Ops : Visit(o)) \/ Advance \/ EndTick \/ LocalTick

Next == Api \/ Runtime \/ CallFails \/ Restart \/ Admin

Spec     == Init /\ [][Next]_vars
FairSpec == Spec /\ WF_vars(Runtime)

-----------------------------------------------------------------------------
Owned(o)   == target[ops[o].root] # NoDir /\ target[ops[o].root].owner = o
Defined(o) == domains[ops[o].name] # NoDomain /\ domains[ops[o].name].owner = o

Restores == [state : States \ {"ABSENT"}, point : Points, name : Names, root : Roots,
             start : BOOLEAN]

TypeOK ==
    /\ ops \in [Ops -> Restores \cup {[state |-> "ABSENT"]}]
    /\ bundles \in [Points -> SUBSET Pieces]
    /\ catalog \in [Points -> {"AVAILABLE", "MISSING"}]
    /\ markers \subseteq Points /\ doomed \subseteq Points /\ todo \subseteq Ops
    /\ staging \in [Ops -> Images \cup {NoDir}]
    /\ target \in [Roots -> Directories \cup {NoDir}]
    /\ domains \in [Names -> Domains \cup {NoDomain}]
    /\ vms \in [Names -> Ops \cup {Foreign, NoDomain}]
    /\ task \in [op : Ops \cup {NoOp}, at : Steps, disk : Disks \cup {NoDisk}, next : Nat]
    /\ worker \in {"list", "receiving", "local", "FAILED"}

\* Every image a restore published holds the FULL base and every increment
\* up to the restored point, although points of the chain are deleted,
\* published and listed while it is made (_validate_chain, _materialize_disk).
ImagesAreChain ==
    \A r \in Roots : target[r] # NoDir /\ target[r].owner \in Ops =>
        \A d \in Disks : target[r].images[d] = 1 .. ops[target[r].owner].point

\* From DEFINING on the images of the operation stand under its target name,
\* and a domain that is READY or STARTING is its own, in libvirt and in the
\* catalog: no other restore, kill or administrator came between.
ReadyIsBound ==
    \A o \in Ops :
        /\ State(o) \in {"DEFINING", "READY", "STARTING", "SUCCESS"} => Owned(o)
        /\ State(o) \in {"READY", "STARTING"} => Defined(o) /\ vms[ops[o].name] = o

\* The last effect of an operation, by its stored state and by what the thread
\* has done for it since.
Doing(o) == IF task.op = o THEN task.at ELSE "idle"

LastEffect(state, at) ==
    CASE state = "ABSENT"                                       -> "none"
      [] state = "SUCCESS"                                      -> "done"
      [] state \in Terminal \ {"SUCCESS"}                       -> "lost"
      [] state = "STARTING" /\ at = "finish"                   -> "run"
      [] \/ state = "READY" \/ (state = "STARTING" /\ at # "finish")
         \/ state = "DEFINING" /\ at = "register"                 -> "bound"
      [] \/ state = "DEFINING" /\ at # "register"
         \/ state = "MATERIALIZING" /\ at = "access"           -> "placed"
      [] OTHER                                                  -> "open"

Request(op) == [name |-> op.name, root |-> op.root, start |-> op.start]

\* Nobody stands in an empty directory: os.replace takes it as a free name.
Reached  == [o \in Ops |-> LastEffect(State(o), Doing(o))]
Asked    == [o \in Ops |-> IF State(o) = "ABSENT" THEN NoDir ELSE Request(ops[o])]
Standing == [r \in Roots |-> IF Replaceable(r) THEN NoDomain ELSE target[r].owner]

Service == INSTANCE RestoreService WITH
    Free <- NoDomain, NoRequest <- NoDir,
    step <- Reached, asked <- Asked, place <- Standing, domain <- domains

\* The restore of a received point keeps the same promise as the local one
\* (ReceivedRestoreRuntimeV2.advance, recover_startup).
ImplementsService == Service!Spec

\* Every planned restore ends, unless the worker has ended before it.
RestoresEnd ==
    \A o \in Ops : State(o) = "PLANNED" ~> State(o) \in Terminal \/ worker = "FAILED"

\* A restore the controller takes for a remote one fails explicitly, it does
\* not stay pending (RestoreRuntimeController.tick).
RemoteFailsExplicitly ==
    worker = "FAILED" => \A o \in Ops : State(o) \notin {"PLANNED", "VERIFYING"}
=============================================================================
