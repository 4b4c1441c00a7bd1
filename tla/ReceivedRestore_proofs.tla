----------------------- MODULE ReceivedRestore_proofs -----------------------
(***************************************************************************)
(* Theorems about the restore of received chains, for any number of        *)
(* operations, points, disks, names and directories, and any deletions,    *)
(* edits, failures and kills.                                              *)
(*                                                                         *)
(* RInv ties the step of the thread to the stored state (StepSound), and   *)
(* says what the images in the staging directory hold while the chain is   *)
(* flattened (Flattening).  An operation keeps its identity from its plan  *)
(* on, and a directory with an owner has an operation (OwnersPlanned), so  *)
(* that what was published for it stays what it asked for.                 *)
(***************************************************************************)
EXTENDS ReceivedRestore, TLAPS

StepSound ==
    /\ worker # "receiving" => task.at = "idle"
    /\ task.at = "idle" => task.op = NoOp
    /\ task.at # "idle" => task.op \in Ops
    /\ task.at = "verify" => State(task.op) = "VERIFYING"
    /\ task.at \in {"disk", "replace", "access"} => State(task.op) = "MATERIALIZING"
    /\ task.at \in {"define", "register"} => State(task.op) = "DEFINING"
    /\ task.at = "ready" => State(task.op) = "READY"
    /\ task.at \in {"start", "finish"} => State(task.op) = "STARTING"

\* Of the disk in turn the image holds the points before the next one, of any
\* other disk nothing or the whole chain.
Flattening ==
    /\ staging[task.op] # NoDir
    /\ task.next \in Chain
    /\ \A d \in Disks : d # task.disk => Image(d) = NoImage \/ Image(d) = Chain
    /\ task.disk = NoDisk => task.next = 1
    /\ task.disk # NoDisk => task.next > 1 /\ Image(task.disk) = 1 .. task.next - 1

Materialized == staging[task.op] # NoDir /\ \A d \in Disks : Image(d) = Chain

ImagesSound ==
    /\ task.at = "verify" => task.disk = NoDisk /\ task.next = 1
    /\ task.at = "disk" => Flattening
    /\ task.at = "replace" => Materialized
    /\ task.at = "access" => Owned(task.op)

OwnersPlanned ==
    \A r \in Roots : target[r] # NoDir /\ target[r].owner \in Ops =>
        State(target[r].owner) # "ABSENT"

Bound(o) ==
    /\ State(o) \in {"DEFINING", "READY", "STARTING", "SUCCESS"} => Owned(o)
    /\ State(o) \in {"READY", "STARTING"} => Defined(o) /\ vms[ops[o].name] = o

RInv ==
    /\ TypeOK /\ StepSound /\ ImagesSound
    /\ OwnersPlanned /\ ImagesAreChain
    /\ \A o \in Ops : Bound(o)

-----------------------------------------------------------------------------
LEMMA IdleTyped ==
    /\ Idle \in [op : Ops \cup {NoOp}, at : Steps, disk : Disks \cup {NoDisk}, next : Nat]
    /\ Idle.at = "idle" /\ Idle.op = NoOp /\ Idle.disk = NoDisk /\ Idle.next = 1
    /\ NoOp \notin Ops
BY BoundsAssumption DEF Idle, Steps, NoOp, Ops

LEMMA InitRInv == Init => RInv
<1> SUFFICES ASSUME Init PROVE RInv
  OBVIOUS
<1>1. TypeOK
  BY IdleTyped DEF Init, TypeOK
<1>2. StepSound /\ ImagesSound
  BY IdleTyped DEF Init, StepSound, ImagesSound
<1>3. OwnersPlanned /\ ImagesAreChain
  BY DEF Init, OwnersPlanned, ImagesAreChain
<1>4. \A o \in Ops : Bound(o)
  BY DEF Init, Bound, State
<1> QED BY <1>1, <1>2, <1>3, <1>4 DEF RInv

\* An operation that is not ABSENT has an identity.
LEMMA PlannedTyped ==
    ASSUME TypeOK, NEW o \in Ops, State(o) # "ABSENT"
    PROVE  /\ ops[o] \in Restores
           /\ ops[o].root \in Roots /\ ops[o].name \in Names /\ ops[o].point \in Points
BY DEF TypeOK, State, Restores

\* Whoever works has an operation.
LEMMA Works ==
    ASSUME RInv, task.at # "idle"
    PROVE  /\ task.op \in Ops /\ State(task.op) # "ABSENT" /\ worker = "receiving"
           /\ Op \in Restores /\ Op.root \in Roots /\ Op.name \in Names /\ Op.point \in Points
           /\ Op.point >= 1
<1>1. task.op \in Ops /\ worker = "receiving" /\ task.at \in Steps
  BY DEF RInv, StepSound, TypeOK
<1>2. State(task.op) # "ABSENT"
  BY <1>1 DEF RInv, StepSound, Steps
<1>3. ops[task.op] \in Restores
  BY <1>1, <1>2, PlannedTyped DEF RInv
<1> QED BY <1>1, <1>2, <1>3, BoundsAssumption DEF Op, Restores, Points

\* An operation keeps what identifies it when its state changes.
Keeps(o) ==
    /\ State(o)' # "ABSENT"
    /\ ops'[o] \in Restores
    /\ ops'[o].point = ops[o].point /\ ops'[o].root = ops[o].root
    /\ ops'[o].name = ops[o].name /\ ops'[o].start = ops[o].start

LEMMA ToKeeps ==
    ASSUME TypeOK, NEW o \in Ops, State(o) # "ABSENT",
           NEW s \in States \ {"ABSENT"}, To(o, s)
    PROVE  /\ ops' \in [Ops -> Restores \cup {[state |-> "ABSENT"]}]
           /\ ops'[o].state = s
           /\ \A q \in Ops : q # o => ops'[q] = ops[q]
           /\ \A q \in Ops : State(q) # "ABSENT" => Keeps(q)
<1>1. ops[o] \in Restores
  BY PlannedTyped
<1>2. ops' = [ops EXCEPT ![o] = [ops[o] EXCEPT !.state = s]]
  BY DEF To
<1>3. [ops[o] EXCEPT !.state = s] \in Restores
      /\ [ops[o] EXCEPT !.state = s].state = s
      /\ [ops[o] EXCEPT !.state = s].point = ops[o].point
      /\ [ops[o] EXCEPT !.state = s].root = ops[o].root
      /\ [ops[o] EXCEPT !.state = s].name = ops[o].name
      /\ [ops[o] EXCEPT !.state = s].start = ops[o].start
  BY <1>1 DEF Restores
<1>4. ops'[o] = [ops[o] EXCEPT !.state = s] /\ \A q \in Ops : q # o => ops'[q] = ops[q]
  BY <1>2 DEF TypeOK
<1>5. ops' \in [Ops -> Restores \cup {[state |-> "ABSENT"]}]
  BY <1>2, <1>3 DEF TypeOK
<1>6. ASSUME NEW q \in Ops, State(q) # "ABSENT" PROVE Keeps(q)
  <2>1. CASE q = o
    BY <1>3, <1>4, <2>1 DEF Keeps, State
  <2>2. CASE q # o
    BY <1>4, <1>6, <2>2, PlannedTyped DEF Keeps, State
  <2> QED BY <2>1, <2>2
<1> QED BY <1>3, <1>4, <1>5, <1>6 DEF State

\* Then the directories stay what they are.
LEMMA TargetsKept ==
    ASSUME RInv, UNCHANGED target, \A q \in Ops : State(q) # "ABSENT" => Keeps(q)
    PROVE  OwnersPlanned' /\ ImagesAreChain'
BY DEF RInv, OwnersPlanned, ImagesAreChain, Keeps

\* An operation whose state stays is bound as before.
LEMMA BoundKept ==
    ASSUME RInv, NEW o \in Ops, ops'[o] = ops[o], UNCHANGED <<target, vms>>,
           \A n \in Names : domains[n] # NoDomain /\ domains[n].owner = o =>
               domains'[n] # NoDomain /\ domains'[n].owner = o
    PROVE  Bound(o)'
<1>1. CASE State(o) = "ABSENT"
  BY <1>1 DEF Bound, State
<1>2. CASE State(o) # "ABSENT"
  <2>1. ops[o].name \in Names
    BY <1>2, PlannedTyped DEF RInv
  <2> QED BY <2>1 DEF RInv, Bound, State, Owned, Defined
<1> QED BY <1>1, <1>2

-----------------------------------------------------------------------------
\* The operation fails, and the thread rests.
LEMMA GiveUpKeeps ==
    ASSUME RInv, task.at # "idle", GiveUp
    PROVE  RInv'
<1>1. /\ task.op \in Ops /\ State(task.op) # "ABSENT"
      /\ TypeOK /\ worker = "receiving"
  BY Works DEF RInv
<1>2. /\ To(task.op, "FAILED") /\ task' = Idle
      /\ UNCHANGED <<bundles, markers, catalog, doomed, staging, target, domains, vms, todo, worker>>
  BY DEF GiveUp, Rest, store, outside
<1>3. /\ ops' \in [Ops -> Restores \cup {[state |-> "ABSENT"]}]
      /\ ops'[task.op].state = "FAILED"
      /\ \A q \in Ops : q # task.op => ops'[q] = ops[q]
      /\ \A q \in Ops : State(q) # "ABSENT" => Keeps(q)
  <2>1. "FAILED" \in States \ {"ABSENT"}
    BY DEF States, Terminal
  <2> QED BY <1>1, <1>2, <2>1, ToKeeps
<1>4. TypeOK'
  BY <1>1, <1>2, <1>3, IdleTyped DEF TypeOK
<1>5. StepSound' /\ ImagesSound'
  BY <1>2, IdleTyped DEF StepSound, ImagesSound
<1>6. OwnersPlanned' /\ ImagesAreChain'
  BY <1>2, <1>3, TargetsKept
<1>7. ASSUME NEW o \in Ops PROVE Bound(o)'
  <2>1. CASE o = task.op
    BY <1>3, <2>1 DEF Bound, State
  <2>2. CASE o # task.op
    BY <1>2, <1>3, <2>2, BoundKept
  <2> QED BY <2>1, <2>2
<1> QED BY <1>4, <1>5, <1>6, <1>7 DEF RInv

Refused ==
    \/ VerifyRefused \/ (\E d \in Disks : FlattenRefused(d)) \/ RewriteRefused \/ ReplaceRefused
    \/ DefineRefused \/ RegisterRefused \/ StartRefused

LEMMA RefusedKeeps == ASSUME RInv, Refused \/ CallFails PROVE RInv'
<1>1. GiveUp
  BY DEF Refused, CallFails, VerifyRefused, FlattenRefused, RewriteRefused, ReplaceRefused, DefineRefused,
         RegisterRefused, StartRefused
<1>2. task.at # "idle"
  BY DEF Refused, CallFails, VerifyRefused, FlattenRefused, RewriteRefused, ReplaceRefused, DefineRefused,
         RegisterRefused, StartRefused, At, RInv, StepSound
<1> QED BY <1>1, <1>2, GiveUpKeeps

\* The API, the receiver and the deletion work on the store.
LEMMA StoreKeeps ==
    ASSUME RInv,
           \/ List \/ Unlink \/ DeleteFails
           \/ \E p \in Points : StartDelete(p) \/ Publish(p)
           \/ \E f \in Pieces : RemovePiece(f)
    PROVE  RInv'
<1>1. UNCHANGED <<ops, staging, target, domains, vms, task, todo, worker>>
  BY DEF List, Unlink, DeleteFails, StartDelete, Publish, RemovePiece, outside, loop
<1>2. /\ bundles' \in [Points -> SUBSET Pieces] /\ catalog' \in [Points -> {"AVAILABLE", "MISSING"}]
      /\ markers' \subseteq Points /\ doomed' \subseteq Points
  <2>0. TypeOK
    BY DEF RInv
  <2>1. CASE List \/ DeleteFails
    BY <2>0, <2>1 DEF TypeOK, List, DeleteFails, Reconciled
  <2>2. CASE Unlink
    BY <2>0, <2>2 DEF TypeOK, Unlink, Reconciled
  <2>3. CASE \E p \in Points : StartDelete(p)
    BY <2>0, <2>3 DEF TypeOK, StartDelete
  <2>4. CASE \E p \in Points : Publish(p)
    BY <2>0, <2>4 DEF TypeOK, Publish
  <2>5. CASE \E f \in Pieces : RemovePiece(f)
    <3>1. PICK f \in Pieces : RemovePiece(f)
      BY <2>5
    <3>2. bundles' = [bundles EXCEPT ![Last(doomed)] = bundles[Last(doomed)] \ {f}]
      BY <3>1 DEF RemovePiece
    <3>3. Last(doomed) \in Points => bundles[Last(doomed)] \ {f} \in SUBSET Pieces
      BY <2>0 DEF TypeOK
    <3>4. bundles' \in [Points -> SUBSET Pieces]
      BY <2>0, <3>2, <3>3 DEF TypeOK
    <3> QED BY <2>0, <3>1, <3>4 DEF TypeOK, RemovePiece
  <2> QED BY <2>1, <2>2, <2>3, <2>4, <2>5
<1>3. TypeOK'
  BY <1>1, <1>2 DEF RInv, TypeOK
<1> QED BY <1>1, <1>3 DEF RInv, StepSound, ImagesSound, Flattening, Materialized, Image, Chain, Op,
            OwnersPlanned, ImagesAreChain, Bound, Owned, Defined, State

LEMMA CreateKeeps == ASSUME RInv, NEW o \in Ops, Create(o) PROVE RInv'
<1>1. PICK p \in Points, n \in Names, r \in Roots, s \in BOOLEAN :
          ops' = [ops EXCEPT ![o] = [state |-> "PLANNED", point |-> p, name |-> n,
                                     root |-> r, start |-> s]]
  BY DEF Create
<1>2. State(o) = "ABSENT" /\ UNCHANGED <<bundles, markers, catalog, doomed, staging, target, domains, vms,
                                         task, todo, worker>>
  BY DEF Create, store, outside, loop
<1>3. TypeOK
  BY DEF RInv
<1>4. /\ ops'[o] = [state |-> "PLANNED", point |-> p, name |-> n, root |-> r, start |-> s]
      /\ \A q \in Ops : q # o => ops'[q] = ops[q]
      /\ State(o)' = "PLANNED"
  BY <1>1, <1>3 DEF TypeOK, State
<1>5. TypeOK'
  <2>1. [state |-> "PLANNED", point |-> p, name |-> n, root |-> r, start |-> s] \in Restores
    BY DEF Restores, States
  <2>2. ops' \in [Ops -> Restores \cup {[state |-> "ABSENT"]}]
    BY <1>1, <1>3, <2>1 DEF TypeOK
  <2> QED BY <1>2, <1>3, <2>2 DEF TypeOK
<1>6. task.at # "idle" => task.op # o
  BY <1>2, Works
<1>7. StepSound'
  BY <1>2, <1>4, <1>6 DEF RInv, StepSound, State
<1>8. ImagesSound'
  <2>1. CASE task.at = "idle"
    BY <1>2, <2>1 DEF ImagesSound
  <2>2. CASE task.at # "idle"
    <3>1. ops'[task.op] = ops[task.op]
      BY <1>4, <1>6, <2>2, Works
    <3> QED BY <1>2, <3>1 DEF RInv, ImagesSound, Flattening, Materialized, Image, Chain, Op, Owned
  <2> QED BY <2>1, <2>2
<1>9. OwnersPlanned' /\ ImagesAreChain'
  <2>1. \A q \in Ops : State(q) # "ABSENT" => Keeps(q)
    <3> SUFFICES ASSUME NEW q \in Ops, State(q) # "ABSENT" PROVE Keeps(q)
      OBVIOUS
    <3>1. ops'[q] = ops[q]
      BY <1>2, <1>4
    <3> QED BY <1>3, <3>1, PlannedTyped DEF Keeps, State
  <2> QED BY <1>2, <2>1, TargetsKept
<1>10. ASSUME NEW q \in Ops PROVE Bound(q)'
  <2>1. CASE q = o
    BY <1>4, <2>1 DEF Bound
  <2>2. CASE q # o
    BY <1>2, <1>4, <2>2, BoundKept
  <2> QED BY <2>1, <2>2
<1> QED BY <1>5, <1>7, <1>8, <1>9, <1>10 DEF RInv

\* The loop of the worker around an idle thread.
LEMMA LoopKeeps == ASSUME RInv, Tick \/ EndTick \/ LocalTick PROVE RInv'
<1>1. UNCHANGED <<ops, bundles, markers, catalog, doomed, staging, target, domains, vms, task>>
  BY DEF Tick, EndTick, LocalTick, store, outside
<1>2. /\ todo' \subseteq Ops /\ worker' \in {"list", "receiving", "local", "FAILED"}
      /\ worker' # "receiving" => task.at = "idle"
  BY DEF Tick, EndTick, LocalTick, At, RInv, TypeOK, StepSound
<1>3. TypeOK'
  BY <1>1, <1>2 DEF RInv, TypeOK
<1> QED BY <1>1, <1>2, <1>3 DEF RInv, StepSound, ImagesSound, Flattening, Materialized, Image, Chain, Op,
            OwnersPlanned, ImagesAreChain, Bound, Owned, Defined, State

\* The next operation of the list; only its state changes.
LEMMA VisitKeeps == ASSUME RInv, NEW o \in Ops, Visit(o) PROVE RInv'
<1>1. /\ TypeOK /\ task.at = "idle" /\ worker = "receiving"
      /\ UNCHANGED <<bundles, markers, catalog, doomed, staging, target, domains, vms, worker>>
      /\ todo' \subseteq Ops /\ State(o) \in {"PLANNED", "VERIFYING", "READY"}
  BY DEF Visit, At, RInv, TypeOK, store, outside
<1>2. CASE State(o) \in {"PLANNED", "VERIFYING"}
  <2>1. To(o, "VERIFYING") /\ task' = [Idle EXCEPT !.op = o, !.at = "verify"]
    BY <1>2 DEF Visit
  <2>2. "VERIFYING" \in States \ {"ABSENT"} /\ State(o) # "ABSENT"
    BY <1>2 DEF States
  <2>3. /\ ops' \in [Ops -> Restores \cup {[state |-> "ABSENT"]}]
        /\ ops'[o].state = "VERIFYING"
        /\ \A q \in Ops : q # o => ops'[q] = ops[q]
        /\ \A q \in Ops : State(q) # "ABSENT" => Keeps(q)
    BY <1>1, <2>1, <2>2, ToKeeps
  <2>4. /\ task' \in [op : Ops \cup {NoOp}, at : Steps, disk : Disks \cup {NoDisk}, next : Nat]
        /\ task'.op = o /\ task'.at = "verify" /\ task'.disk = NoDisk /\ task'.next = 1
    BY <2>1 DEF Idle, Steps
  <2>5. TypeOK'
    BY <1>1, <2>3, <2>4 DEF TypeOK
  <2>6. StepSound' /\ ImagesSound'
    BY <1>1, <2>3, <2>4 DEF StepSound, ImagesSound, State
  <2>7. OwnersPlanned' /\ ImagesAreChain'
    BY <1>1, <2>3, TargetsKept
  <2>8. ASSUME NEW q \in Ops PROVE Bound(q)'
    <3>1. CASE q = o
      BY <2>3, <3>1 DEF Bound, State
    <3>2. CASE q # o
      BY <1>1, <2>3, <3>2, BoundKept
    <3> QED BY <3>1, <3>2
  <2> QED BY <2>5, <2>6, <2>7, <2>8 DEF RInv
<1>3. CASE State(o) = "READY"
  <2>1. UNCHANGED ops /\ task' = [Idle EXCEPT !.op = o, !.at = "ready"]
    BY <1>3 DEF Visit
  <2>2. /\ task' \in [op : Ops \cup {NoOp}, at : Steps, disk : Disks \cup {NoDisk}, next : Nat]
        /\ task'.op = o /\ task'.at = "ready"
    BY <2>1 DEF Idle, Steps
  <2>3. TypeOK'
    BY <1>1, <2>1, <2>2 DEF TypeOK
  <2>4. StepSound' /\ ImagesSound'
    BY <1>1, <1>3, <2>1, <2>2 DEF StepSound, ImagesSound, State
  <2> QED BY <1>1, <2>1, <2>3, <2>4 DEF RInv, OwnersPlanned, ImagesAreChain, Bound, Owned, Defined, State
<1> QED BY <1>1, <1>2, <1>3

-----------------------------------------------------------------------------
(* The steps of advance.                                                   *)

LEMMA VerifyKeeps == ASSUME RInv, Verify PROVE RInv'
<1> DEFINE o == task.op
<1>1. /\ TypeOK /\ task.at = "verify" /\ worker = "receiving" /\ o \in Ops /\ State(o) # "ABSENT"
      /\ ops[o].point >= 1 /\ ops[o].point \in Points
      /\ task.disk = NoDisk /\ task.next = 1
  BY Works DEF Verify, At, RInv, ImagesSound, Op
<1>2. /\ UNCHANGED <<bundles, markers, catalog, doomed, target, domains, vms, todo, worker>>
      /\ To(o, "MATERIALIZING") /\ task' = [task EXCEPT !.at = "disk"]
      /\ staging' = [staging EXCEPT ![o] = NoImages]
  BY DEF Verify, Goto, store, outside
<1>3. /\ ops' \in [Ops -> Restores \cup {[state |-> "ABSENT"]}]
      /\ ops'[o].state = "MATERIALIZING"
      /\ \A q \in Ops : q # o => ops'[q] = ops[q]
      /\ \A q \in Ops : State(q) # "ABSENT" => Keeps(q)
  <2>1. "MATERIALIZING" \in States \ {"ABSENT"}
    BY DEF States, Unsafe
  <2> HIDE DEF o
  <2> QED BY <1>1, <1>2, <2>1, ToKeeps
<1>4. /\ task' \in [op : Ops \cup {NoOp}, at : Steps, disk : Disks \cup {NoDisk}, next : Nat]
      /\ task'.op = o /\ task'.at = "disk" /\ task'.disk = NoDisk /\ task'.next = 1
  BY <1>1, <1>2 DEF TypeOK, Steps
<1>5. NoImages \in Images /\ NoImages # NoDir
  BY NothingApart DEF NoImages, Images
<1>6. staging' \in [Ops -> Images \cup {NoDir}] /\ staging'[o] = NoImages
  BY <1>1, <1>2, <1>5 DEF TypeOK
<1>7. TypeOK'
  BY <1>1, <1>2, <1>3, <1>4, <1>6 DEF TypeOK
<1>8. StepSound'
  BY <1>1, <1>2, <1>3, <1>4 DEF StepSound, State
<1>9. ImagesSound'
  <2>1. ops'[o].point = ops[o].point
    BY <1>1, <1>3 DEF Keeps
  <2> HIDE DEF o
  <2> QED BY <1>1, <1>4, <1>5, <1>6, <2>1, BoundsAssumption
       DEF ImagesSound, Flattening, Chain, Op, Image, NoImages, Points
<1>10. OwnersPlanned' /\ ImagesAreChain'
  BY <1>2, <1>3, TargetsKept
<1>11. ASSUME NEW q \in Ops PROVE Bound(q)'
  <2>1. CASE q = o
    BY <1>3, <2>1 DEF Bound, State
  <2>2. CASE q # o
    BY <1>2, <1>3, <2>2, BoundKept
  <2> QED BY <2>1, <2>2
<1> QED BY <1>7, <1>8, <1>9, <1>10, <1>11 DEF RInv

\* The images are no sign that there is none.
LEMMA ImageApart ==
    ASSUME NEW m \in Nat, m <= MaxPoint
    PROVE  1 .. m \in SUBSET Points /\ 1 .. m # NoImage
BY NothingApart, BoundsAssumption DEF Points

LEMMA FlattenKeeps == ASSUME RInv, NEW d \in Disks, Flatten(d) PROVE RInv'
<1> DEFINE o == task.op
           k == task.next
           n == ops[o].point
<1>1. /\ TypeOK /\ task.at = "disk" /\ worker = "receiving" /\ o \in Ops /\ State(o) = "MATERIALIZING"
      /\ n \in Points /\ Flattening /\ Turn(d)
  BY Works DEF Flatten, At, RInv, StepSound, ImagesSound, Op
<1>2. k \in 1 .. n /\ n \in Nat /\ k \in Nat /\ n <= MaxPoint
  BY <1>1, BoundsAssumption DEF Flattening, Chain, Op, Points
<1> DEFINE flat == (IF staging[o][d] = NoImage THEN {} ELSE staging[o][d]) \cup {k}
<1>3. staging[o] \in Images
  BY <1>1 DEF Flattening, TypeOK
<1>4. /\ UNCHANGED <<ops, bundles, markers, catalog, doomed, target, domains, vms, todo, worker>>
      /\ staging' = [staging EXCEPT ![o] = [staging[o] EXCEPT ![d] = flat]]
      /\ task' = IF k = n THEN [task EXCEPT !.disk = NoDisk, !.next = 1]
                 ELSE [task EXCEPT !.disk = d, !.next = k + 1]
  BY DEF Flatten, store, outside, Op
<1>5. flat = 1 .. k
  <2>1. CASE task.disk = NoDisk
    <3>1. k = 1 /\ staging[o][d] = NoImage
      BY <1>1, <2>1 DEF Turn, Flattening, Image
    <3> QED BY <3>1
  <2>2. CASE task.disk # NoDisk
    <3>1. k > 1 /\ staging[o][d] = 1 .. k - 1
      BY <1>1, <2>2 DEF Turn, Flattening, Image
    <3>2. 1 .. k - 1 # NoImage
      <4> DEFINE m == k - 1
      <4>1. m \in Nat /\ m <= MaxPoint
        BY <1>2, <3>1, BoundsAssumption
      <4> HIDE DEF m
      <4>2. 1 .. m # NoImage
        BY <4>1, ImageApart
      <4> QED BY <4>2 DEF m
    <3> QED BY <1>2, <3>1, <3>2
  <2> QED BY <2>1, <2>2
<1>6. flat \in SUBSET Points
  <2>1. 1 .. k \in SUBSET Points
    BY <1>2, BoundsAssumption DEF Points
  <2> QED BY <1>5, <2>1
<1> HIDE DEF flat
<1>7. /\ staging' \in [Ops -> Images \cup {NoDir}] /\ staging'[o] \in Images
      /\ \A e \in Disks : staging'[o][e] = IF e = d THEN flat ELSE staging[o][e]
  <2>1. [staging[o] EXCEPT ![d] = flat] \in Images
    BY <1>3, <1>6 DEF Images
  <2>2. \A e \in Disks : [staging[o] EXCEPT ![d] = flat][e] = IF e = d THEN flat ELSE staging[o][e]
    <3> DEFINE image == staging[o]
    <3>1. image \in [Disks -> {NoImage} \cup SUBSET Points]
      BY <1>3 DEF Images
    <3> HIDE DEF image
    <3>2. \A e \in Disks : [image EXCEPT ![d] = flat][e] = IF e = d THEN flat ELSE image[e]
      BY <3>1
    <3> QED BY <3>2 DEF image
  <2>3. staging'[o] = [staging[o] EXCEPT ![d] = flat]
    BY <1>1, <1>4 DEF TypeOK
  <2> HIDE DEF o
  <2> QED BY <1>1, <1>4, <2>1, <2>2, <2>3 DEF TypeOK
<1>8. /\ task' \in [op : Ops \cup {NoOp}, at : Steps, disk : Disks \cup {NoDisk}, next : Nat]
      /\ task'.op = o /\ task'.at = "disk"
      /\ IF k = n THEN task'.disk = NoDisk /\ task'.next = 1 ELSE task'.disk = d /\ task'.next = k + 1
  <2>0. /\ task \in [op : Ops \cup {NoOp}, at : Steps, disk : Disks \cup {NoDisk}, next : Nat]
        /\ k + 1 \in Nat
    BY <1>1, <1>2 DEF TypeOK
  <2>1. CASE k = n
    BY <1>1, <1>4, <2>0, <2>1
  <2>2. CASE k # n
    BY <1>1, <1>4, <2>0, <2>2
  <2> QED BY <2>1, <2>2
<1>9. TypeOK'
  BY <1>1, <1>4, <1>7, <1>8 DEF TypeOK
<1>10. StepSound'
  BY <1>1, <1>4, <1>8 DEF StepSound, State
<1>11. Flattening'
  <2>1. staging'[o] # NoDir
    BY <1>7, NothingApart
  <2>2. \A e \in Disks : e # d => staging'[o][e] = NoImage \/ staging'[o][e] = 1 .. n
    <3>1. \A e \in Disks : e # d => staging[o][e] = NoImage \/ staging[o][e] = 1 .. n
      BY <1>1, NamesApart DEF Flattening, Image, Chain, Op, Turn
    <3> QED BY <1>7, <3>1
  <2>3. staging'[o][d] = 1 .. k
    BY <1>5, <1>7
  <2>4. d # NoDisk
    BY NamesApart
  <2>5. CASE k = n
    BY <1>2, <1>4, <1>8, <2>1, <2>2, <2>3, <2>5 DEF Flattening, Image, Chain, Op
  <2>6. CASE k # n
    <3>1. /\ task'.disk = d /\ task'.next = k + 1 /\ k + 1 \in 1 .. n /\ k + 1 > 1
          /\ (k + 1) - 1 = k
      BY <1>2, <1>8, <2>6
    <3> QED BY <1>2, <1>4, <1>8, <2>1, <2>2, <2>3, <2>4, <3>1 DEF Flattening, Image, Chain, Op
  <2> QED BY <2>5, <2>6
<1>12. ImagesSound'
  BY <1>8, <1>11 DEF ImagesSound
<1> QED BY <1>4, <1>9, <1>10, <1>12 DEF RInv, OwnersPlanned, ImagesAreChain, Bound, Owned, Defined, State

LEMMA RewriteKeeps == ASSUME RInv, RewriteDomain PROVE RInv'
<1>1. /\ TypeOK /\ task.at = "disk" /\ worker = "receiving" /\ State(task.op) = "MATERIALIZING"
      /\ Flattening /\ AllFlat
  BY DEF RewriteDomain, At, RInv, StepSound, ImagesSound
<1>2. /\ UNCHANGED <<ops, bundles, markers, catalog, doomed, staging, target, domains, vms, todo, worker>>
      /\ task' = [task EXCEPT !.at = "replace"]
  BY DEF RewriteDomain, Goto, store, outside
<1>3. /\ task' \in [op : Ops \cup {NoOp}, at : Steps, disk : Disks \cup {NoDisk}, next : Nat]
      /\ task'.op = task.op /\ task'.at = "replace"
  BY <1>1, <1>2 DEF TypeOK, Steps
<1>4. TypeOK'
  BY <1>1, <1>2, <1>3 DEF TypeOK
<1>5. StepSound'
  BY <1>1, <1>2, <1>3 DEF RInv, StepSound, State
<1>6. Materialized
  BY <1>1, NamesApart DEF Flattening, AllFlat, Materialized
<1>7. ImagesSound'
  BY <1>2, <1>3, <1>6 DEF ImagesSound, Materialized, Image, Chain, Op
<1> QED BY <1>2, <1>4, <1>5, <1>7 DEF RInv, OwnersPlanned, ImagesAreChain, Bound, Owned, Defined, State

\* An empty directory is no restore's: the images of a restore hold its chain.
LEMMA ReplaceableIsNobodys ==
    ASSUME RInv, NEW r \in Roots, Replaceable(r), target[r] # NoDir
    PROVE  target[r].owner \notin Ops
<1> SUFFICES ASSUME target[r].owner \in Ops PROVE FALSE
  OBVIOUS
<1> DEFINE q == target[r].owner
           n == ops[q].point
<1>1. PICK d \in Disks : TRUE
  BY DisksAssumption
<1>2. State(q) # "ABSENT" /\ target[r].images[d] = 1 .. n
  BY <1>1 DEF RInv, OwnersPlanned, ImagesAreChain
<1>3. n \in Nat /\ n <= MaxPoint
  <2>1. n \in Points
    BY <1>2, PlannedTyped DEF RInv
  <2> QED BY <2>1, BoundsAssumption DEF Points
<1>4. 1 .. n = NoImage
  BY <1>2, <1>1 DEF Replaceable, NoImages
<1> HIDE DEF n
<1> QED BY <1>3, <1>4, ImageApart

LEMMA ReplaceKeeps == ASSUME RInv, Replace PROVE RInv'
<1> DEFINE o == task.op
           r == ops[o].root
           made == [owner |-> o, images |-> staging[o]]
<1>1. /\ TypeOK /\ task.at = "replace" /\ worker = "receiving" /\ o \in Ops /\ r \in Roots
      /\ State(o) = "MATERIALIZING" /\ Materialized /\ Replaceable(r)
  BY Works DEF Replace, At, RInv, StepSound, ImagesSound, Op
<1>2. /\ UNCHANGED <<ops, bundles, markers, catalog, doomed, domains, vms, todo, worker>>
      /\ target' = [target EXCEPT ![r] = made]
      /\ staging' = [staging EXCEPT ![o] = NoDir]
      /\ task' = [task EXCEPT !.at = "access"]
  BY DEF Replace, Goto, store, outside, Op
<1>3. made \in Directories /\ made # NoDir /\ made.owner = o /\ made.images = staging[o]
  <2>1. staging[o] \in Images
    BY <1>1 DEF Materialized, TypeOK
  <2> QED BY <1>1, <2>1, NothingApart DEF Directories
<1>4. /\ task' \in [op : Ops \cup {NoOp}, at : Steps, disk : Disks \cup {NoDisk}, next : Nat]
      /\ task'.op = o /\ task'.at = "access"
  BY <1>1, <1>2 DEF TypeOK, Steps
<1>5. /\ target'[r] = made /\ \A s \in Roots : s # r => target'[s] = target[s]
      /\ target' \in [Roots -> Directories \cup {NoDir}]
      /\ staging' \in [Ops -> Images \cup {NoDir}]
  <2> HIDE DEF made, r, o
  <2> QED BY <1>1, <1>2, <1>3 DEF TypeOK
<1>6. TypeOK'
  BY <1>1, <1>2, <1>4, <1>5 DEF TypeOK
<1>7. StepSound'
  BY <1>1, <1>2, <1>4 DEF StepSound, State
<1>8. ImagesSound'
  BY <1>2, <1>3, <1>4, <1>5 DEF ImagesSound, Owned
<1>9. OwnersPlanned' /\ ImagesAreChain'
  <2>1. State(o) # "ABSENT" /\ \A d \in Disks : made.images[d] = 1 .. ops[o].point
    BY <1>1, <1>3 DEF Materialized, Image, Chain, Op
  <2> HIDE DEF made, r, o
  <2> QED BY <1>2, <1>3, <1>5, <2>1 DEF RInv, OwnersPlanned, ImagesAreChain, State
<1>10. ASSUME NEW q \in Ops PROVE Bound(q)'
  <2>1. CASE State(q) \in {"DEFINING", "READY", "STARTING", "SUCCESS"}
    <3>1. Owned(q) /\ ops[q].root \in Roots
      BY <1>1, <2>1, PlannedTyped DEF RInv, Bound
    <3>2. ops[q].root # r
      BY <1>1, <3>1, ReplaceableIsNobodys DEF Owned
    <3>3. target'[ops[q].root] = target[ops[q].root]
      BY <1>5, <3>1, <3>2
    <3> QED BY <1>2, <3>1, <3>3 DEF RInv, Bound, Owned, Defined, State
  <2>2. CASE State(q) \notin {"DEFINING", "READY", "STARTING", "SUCCESS"}
    BY <1>2, <2>2 DEF Bound, State
  <2> QED BY <2>1, <2>2
<1> QED BY <1>6, <1>7, <1>8, <1>9, <1>10 DEF RInv

LEMMA GrantKeeps == ASSUME RInv, GrantAccess PROVE RInv'
<1> DEFINE o == task.op
<1>1. /\ TypeOK /\ task.at = "access" /\ worker = "receiving" /\ o \in Ops /\ State(o) # "ABSENT"
      /\ Owned(o)
  BY Works DEF GrantAccess, At, RInv, ImagesSound
<1>2. /\ UNCHANGED <<bundles, markers, catalog, doomed, staging, target, domains, vms, todo, worker>>
      /\ To(o, "DEFINING") /\ task' = [task EXCEPT !.at = "define"]
  BY DEF GrantAccess, Goto, store, outside
<1>3. /\ ops' \in [Ops -> Restores \cup {[state |-> "ABSENT"]}]
      /\ ops'[o].state = "DEFINING"
      /\ \A q \in Ops : q # o => ops'[q] = ops[q]
      /\ \A q \in Ops : State(q) # "ABSENT" => Keeps(q)
  <2>1. "DEFINING" \in States \ {"ABSENT"}
    BY DEF States, Unsafe
  <2> HIDE DEF o
  <2> QED BY <1>1, <1>2, <2>1, ToKeeps
<1>4. /\ task' \in [op : Ops \cup {NoOp}, at : Steps, disk : Disks \cup {NoDisk}, next : Nat]
      /\ task'.op = o /\ task'.at = "define"
  BY <1>1, <1>2 DEF TypeOK, Steps
<1>5. TypeOK'
  BY <1>1, <1>2, <1>3, <1>4 DEF TypeOK
<1>6. StepSound' /\ ImagesSound'
  BY <1>1, <1>2, <1>3, <1>4 DEF StepSound, ImagesSound, State
<1>7. OwnersPlanned' /\ ImagesAreChain'
  BY <1>2, <1>3, TargetsKept
<1>8. ASSUME NEW q \in Ops PROVE Bound(q)'
  <2>1. CASE q = o
    BY <1>1, <1>2, <1>3, <2>1 DEF Bound, State, Keeps, Owned
  <2>2. CASE q # o
    BY <1>2, <1>3, <2>2, BoundKept
  <2> QED BY <2>1, <2>2
<1> QED BY <1>5, <1>6, <1>7, <1>8 DEF RInv

\* A new domain, or one that runs: what others own in libvirt stays theirs.
LEMMA DomainsKept ==
    ASSUME RInv, UNCHANGED <<ops, target, vms>>,
           \A n \in Names : domains[n] # NoDomain /\ domains[n].owner \in Ops =>
               domains'[n] # NoDomain /\ domains'[n].owner = domains[n].owner
    PROVE  \A o \in Ops : Bound(o)'
<1> SUFFICES ASSUME NEW o \in Ops PROVE Bound(o)'
  OBVIOUS
<1> QED BY BoundKept

LEMMA DefineKeeps == ASSUME RInv, Define PROVE RInv'
<1> DEFINE o == task.op
           n == ops[o].name
<1>1. /\ TypeOK /\ task.at = "define" /\ worker = "receiving" /\ o \in Ops /\ n \in Names
      /\ State(o) = "DEFINING" /\ domains[n] = NoDomain
  BY Works DEF Define, At, RInv, StepSound, Op
<1>2. /\ UNCHANGED <<ops, bundles, markers, catalog, doomed, staging, target, vms, todo, worker>>
      /\ domains' = [domains EXCEPT ![n] = [owner |-> o, running |-> FALSE]]
      /\ task' = [task EXCEPT !.at = "register"]
  BY DEF Define, Goto, store, Op
<1>3. /\ domains' \in [Names -> Domains \cup {NoDomain}]
      /\ \A m \in Names : m # n => domains'[m] = domains[m]
  <2> HIDE DEF n, o
  <2>1. [owner |-> o, running |-> FALSE] \in Domains
    BY <1>1 DEF Domains
  <2> QED BY <1>1, <1>2, <2>1 DEF TypeOK
<1>4. /\ task' \in [op : Ops \cup {NoOp}, at : Steps, disk : Disks \cup {NoDisk}, next : Nat]
      /\ task'.op = o /\ task'.at = "register"
  BY <1>1, <1>2 DEF TypeOK, Steps
<1>5. TypeOK'
  BY <1>1, <1>2, <1>3, <1>4 DEF TypeOK
<1>6. StepSound' /\ ImagesSound'
  BY <1>1, <1>2, <1>4 DEF StepSound, ImagesSound, State
<1>7. \A q \in Ops : Bound(q)'
  BY <1>1, <1>2, <1>3, DomainsKept
<1> QED BY <1>2, <1>5, <1>6, <1>7 DEF RInv, OwnersPlanned, ImagesAreChain, State

\* The name is this operation's in libvirt and in the catalog, so that no
\* other operation of that name is READY or STARTING.
LEMMA RegisterKeeps == ASSUME RInv, RegisterReady PROVE RInv'
<1> DEFINE o == task.op
           n == ops[o].name
<1>1. /\ TypeOK /\ task.at = "register" /\ worker = "receiving" /\ o \in Ops /\ n \in Names
      /\ State(o) = "DEFINING" /\ domains[n] # NoDomain /\ domains[n].owner = o
  BY Works DEF RegisterReady, Registrable, At, RInv, StepSound, Op
<1>2. /\ UNCHANGED <<bundles, markers, catalog, doomed, staging, target, domains, todo, worker>>
      /\ vms' = [vms EXCEPT ![n] = o]
      /\ To(o, "READY") /\ task' = [task EXCEPT !.at = "ready"]
  BY DEF RegisterReady, Goto, store, Op
<1>3. /\ ops' \in [Ops -> Restores \cup {[state |-> "ABSENT"]}]
      /\ ops'[o].state = "READY"
      /\ \A q \in Ops : q # o => ops'[q] = ops[q]
      /\ \A q \in Ops : State(q) # "ABSENT" => Keeps(q)
  <2>1. "READY" \in States \ {"ABSENT"} /\ State(o) # "ABSENT"
    BY <1>1 DEF States
  <2> HIDE DEF o
  <2> QED BY <1>1, <1>2, <2>1, ToKeeps
<1>4. /\ vms' \in [Names -> Ops \cup {Foreign, NoDomain}]
      /\ vms'[n] = o /\ \A m \in Names : m # n => vms'[m] = vms[m]
  <2> HIDE DEF n, o
  <2> QED BY <1>1, <1>2 DEF TypeOK
<1>5. /\ task' \in [op : Ops \cup {NoOp}, at : Steps, disk : Disks \cup {NoDisk}, next : Nat]
      /\ task'.op = o /\ task'.at = "ready"
  BY <1>1, <1>2 DEF TypeOK, Steps
<1>6. TypeOK'
  BY <1>1, <1>2, <1>3, <1>4, <1>5 DEF TypeOK
<1>7. StepSound' /\ ImagesSound'
  BY <1>1, <1>2, <1>3, <1>5 DEF StepSound, ImagesSound, State
<1>8. OwnersPlanned' /\ ImagesAreChain'
  BY <1>2, <1>3, TargetsKept
<1>9. ASSUME NEW q \in Ops PROVE Bound(q)'
  <2>1. CASE q = o
    <3>1. Owned(o) /\ State(o) # "ABSENT"
      BY <1>1 DEF RInv, Bound
    <3>2. ops'[o].root = ops[o].root /\ ops'[o].name = n
      BY <1>1, <1>3, <3>1 DEF Keeps
    <3> QED BY <1>1, <1>2, <1>4, <2>1, <3>1, <3>2 DEF Bound, Owned, Defined
  <2>2. CASE q # o
    <3>1. CASE State(q) \in {"READY", "STARTING"}
      <4>1. Bound(q) /\ Owned(q) /\ Defined(q) /\ vms[ops[q].name] = q /\ ops[q].name \in Names
        BY <1>1, <3>1, PlannedTyped DEF RInv, Bound
      <4>2. ops[q].name # n
        BY <1>1, <2>2, <4>1 DEF Defined
      <4> QED BY <1>2, <1>3, <1>4, <2>2, <4>1, <4>2 DEF Bound, Owned, Defined
    <3>2. CASE State(q) \notin {"READY", "STARTING"}
      BY <1>2, <1>3, <2>2, <3>2 DEF RInv, Bound, Owned, State
    <3> QED BY <3>1, <3>2
  <2> QED BY <2>1, <2>2
<1> QED BY <1>6, <1>7, <1>8, <1>9 DEF RInv

LEMMA MarkKeeps == ASSUME RInv, MarkStarting PROVE RInv'
<1> DEFINE o == task.op
<1>1. /\ TypeOK /\ task.at = "ready" /\ worker = "receiving" /\ o \in Ops /\ State(o) = "READY"
  BY Works DEF MarkStarting, At, RInv, StepSound
<1>2. /\ UNCHANGED <<bundles, markers, catalog, doomed, staging, target, domains, vms, todo, worker>>
      /\ To(o, "STARTING") /\ task' = [task EXCEPT !.at = "start"]
  BY DEF MarkStarting, Goto, store, outside
<1>3. /\ ops' \in [Ops -> Restores \cup {[state |-> "ABSENT"]}]
      /\ ops'[o].state = "STARTING"
      /\ \A q \in Ops : q # o => ops'[q] = ops[q]
      /\ \A q \in Ops : State(q) # "ABSENT" => Keeps(q)
  <2>1. "STARTING" \in States \ {"ABSENT"} /\ State(o) # "ABSENT"
    BY <1>1 DEF States, Unsafe
  <2> HIDE DEF o
  <2> QED BY <1>1, <1>2, <2>1, ToKeeps
<1>4. /\ task' \in [op : Ops \cup {NoOp}, at : Steps, disk : Disks \cup {NoDisk}, next : Nat]
      /\ task'.op = o /\ task'.at = "start"
  BY <1>1, <1>2 DEF TypeOK, Steps
<1>5. TypeOK'
  BY <1>1, <1>2, <1>3, <1>4 DEF TypeOK
<1>6. StepSound' /\ ImagesSound'
  BY <1>1, <1>2, <1>3, <1>4 DEF StepSound, ImagesSound, State
<1>7. OwnersPlanned' /\ ImagesAreChain'
  BY <1>2, <1>3, TargetsKept
<1>8. ASSUME NEW q \in Ops PROVE Bound(q)'
  <2>1. CASE q = o
    BY <1>1, <1>2, <1>3, <2>1 DEF RInv, Bound, State, Keeps, Owned, Defined
  <2>2. CASE q # o
    BY <1>2, <1>3, <2>2, BoundKept
  <2> QED BY <2>1, <2>2
<1> QED BY <1>5, <1>6, <1>7, <1>8 DEF RInv

\* A domain that runs is whose it was.
LEMMA RunsKept ==
    ASSUME TypeOK, NEW n \in Names, domains[n] # NoDomain,
           domains' = [domains EXCEPT ![n].running = TRUE]
    PROVE  /\ domains' \in [Names -> Domains \cup {NoDomain}]
           /\ \A m \in Names : domains[m] # NoDomain =>
                  domains'[m] # NoDomain /\ domains'[m].owner = domains[m].owner
<1> DEFINE d == [domains[n] EXCEPT !.running = TRUE]
<1>1. d \in Domains /\ d.owner = domains[n].owner
  BY DEF TypeOK, Domains
<1>2. domains' = [domains EXCEPT ![n] = d]
  OBVIOUS
<1> HIDE DEF d
<1>3. domains'[n] = d /\ \A m \in Names : m # n => domains'[m] = domains[m]
  BY <1>2 DEF TypeOK
<1>4. d # NoDomain
  BY <1>1, NothingApart
<1>5. domains' \in [Names -> Domains \cup {NoDomain}]
  BY <1>1, <1>2 DEF TypeOK
<1> QED BY <1>1, <1>3, <1>4, <1>5

LEMMA StartKeeps == ASSUME RInv, Start PROVE RInv'
<1> DEFINE o == task.op
           n == ops[o].name
<1>1. /\ TypeOK /\ task.at = "start" /\ worker = "receiving" /\ o \in Ops /\ n \in Names
      /\ State(o) = "STARTING" /\ domains[n] # NoDomain
  BY Works DEF Start, At, RInv, StepSound, Op
<1>2. /\ UNCHANGED <<ops, bundles, markers, catalog, doomed, staging, target, vms, todo, worker>>
      /\ domains' = [domains EXCEPT ![n].running = TRUE]
      /\ task' = [task EXCEPT !.at = "finish"]
  BY DEF Start, Goto, store, Op
<1>3. /\ domains' \in [Names -> Domains \cup {NoDomain}]
      /\ \A m \in Names : domains[m] # NoDomain =>
             domains'[m] # NoDomain /\ domains'[m].owner = domains[m].owner
  <2> HIDE DEF n, o
  <2> QED BY <1>1, <1>2, RunsKept
<1>4. /\ task' \in [op : Ops \cup {NoOp}, at : Steps, disk : Disks \cup {NoDisk}, next : Nat]
      /\ task'.op = o /\ task'.at = "finish"
  BY <1>1, <1>2 DEF TypeOK, Steps
<1>5. TypeOK'
  BY <1>1, <1>2, <1>3, <1>4 DEF TypeOK
<1>6. StepSound' /\ ImagesSound'
  BY <1>1, <1>2, <1>4 DEF StepSound, ImagesSound, State
<1>7. \A q \in Ops : Bound(q)'
  BY <1>2, <1>3, DomainsKept
<1> QED BY <1>2, <1>5, <1>6, <1>7 DEF RInv, OwnersPlanned, ImagesAreChain, State

LEMMA FinishKeeps == ASSUME RInv, Finish PROVE RInv'
<1> DEFINE o == task.op
<1>1. /\ TypeOK /\ worker = "receiving" /\ o \in Ops /\ State(o) \in {"READY", "STARTING"}
  BY Works DEF Finish, At, RInv, StepSound
<1>2. /\ UNCHANGED <<bundles, markers, catalog, doomed, staging, target, domains, vms, todo, worker>>
      /\ To(o, "SUCCESS") /\ task' = Idle
  BY DEF Finish, Rest, store, outside
<1>3. /\ ops' \in [Ops -> Restores \cup {[state |-> "ABSENT"]}]
      /\ ops'[o].state = "SUCCESS"
      /\ \A q \in Ops : q # o => ops'[q] = ops[q]
      /\ \A q \in Ops : State(q) # "ABSENT" => Keeps(q)
  <2>1. "SUCCESS" \in States \ {"ABSENT"} /\ State(o) # "ABSENT"
    BY <1>1 DEF States, Terminal
  <2> HIDE DEF o
  <2> QED BY <1>1, <1>2, <2>1, ToKeeps
<1>4. TypeOK'
  BY <1>1, <1>2, <1>3, IdleTyped DEF TypeOK
<1>5. StepSound' /\ ImagesSound'
  BY <1>2, IdleTyped DEF StepSound, ImagesSound
<1>6. OwnersPlanned' /\ ImagesAreChain'
  BY <1>2, <1>3, TargetsKept
<1>7. ASSUME NEW q \in Ops PROVE Bound(q)'
  <2>1. CASE q = o
    BY <1>1, <1>2, <1>3, <2>1 DEF RInv, Bound, State, Keeps, Owned, Defined
  <2>2. CASE q # o
    BY <1>2, <1>3, <2>2, BoundKept
  <2> QED BY <2>1, <2>2
<1> QED BY <1>4, <1>5, <1>6, <1>7 DEF RInv

-----------------------------------------------------------------------------
(* Around the thread.                                                      *)

\* What was past VERIFYING and not READY has FAILED; the rest stays.
LEMMA RestartKeeps == ASSUME RInv, Restart PROVE RInv'
<1>1. /\ TypeOK /\ task' = Idle /\ todo' = {} /\ worker' = "list" /\ doomed' \subseteq Points
      /\ UNCHANGED <<bundles, markers, catalog, staging, target, domains, vms>>
      /\ ops' = [o \in Ops |-> IF State(o) \in Unsafe
                               THEN [ops[o] EXCEPT !.state = "FAILED"] ELSE ops[o]]
  BY DEF Restart, Rest, outside, RInv, TypeOK
<1>2. ASSUME NEW o \in Ops
      PROVE  /\ ops'[o] \in Restores \cup {[state |-> "ABSENT"]}
             /\ State(o) # "ABSENT" => Keeps(o)
             /\ ops'[o] = ops[o] \/ ops'[o].state = "FAILED"
  <2>1. CASE State(o) \in Unsafe
    <3>1. ops[o] \in Restores
      BY <1>1, <2>1, PlannedTyped DEF Unsafe
    <3>2. ops'[o] = [ops[o] EXCEPT !.state = "FAILED"]
      BY <1>1, <2>1
    <3> QED BY <3>1, <3>2 DEF Restores, Keeps, State, States, Terminal
  <2>2. CASE State(o) \notin Unsafe
    BY <1>1, <2>2, PlannedTyped DEF Keeps, State, TypeOK
  <2> QED BY <2>1, <2>2
<1>3. ops' \in [Ops -> Restores \cup {[state |-> "ABSENT"]}]
  BY <1>1, <1>2
<1>4. TypeOK'
  BY <1>1, <1>3, IdleTyped DEF TypeOK
<1>5. StepSound' /\ ImagesSound'
  BY <1>1, IdleTyped DEF StepSound, ImagesSound
<1>6. OwnersPlanned' /\ ImagesAreChain'
  BY <1>1, <1>2, TargetsKept
<1>7. ASSUME NEW q \in Ops PROVE Bound(q)'
  <2>1. CASE ops'[q] = ops[q]
    BY <1>1, <2>1, BoundKept
  <2>2. CASE ops'[q].state = "FAILED"
    BY <2>2 DEF Bound, State
  <2> QED BY <1>2, <2>1, <2>2
<1> QED BY <1>4, <1>5, <1>6, <1>7 DEF RInv

\* A directory somebody makes where none is.
LEMMA AdminDirKeeps == ASSUME RInv, NEW r \in Roots, AdminMakesDir(r) PROVE RInv'
<1>1. PICK i \in {NoImages, [d \in Disks |-> {}]} :
          target' = [target EXCEPT ![r] = [owner |-> Foreign, images |-> i]]
  BY DEF AdminMakesDir
<1>2. /\ TypeOK /\ target[r] = NoDir
      /\ UNCHANGED <<ops, bundles, markers, catalog, doomed, staging, domains, vms, task, todo, worker>>
  BY DEF AdminMakesDir, RInv, store, outside, loop
<1> DEFINE made == [owner |-> Foreign, images |-> i]
<1>3. made \in Directories /\ made.owner \notin Ops
  <2>1. i \in Images
    BY DEF NoImages, Images
  <2> QED BY <2>1, NamesApart DEF Directories
<1>4. /\ target' \in [Roots -> Directories \cup {NoDir}]
      /\ target'[r] = made /\ \A s \in Roots : s # r => target'[s] = target[s]
  BY <1>1, <1>2, <1>3 DEF TypeOK
<1> HIDE DEF made
<1>5. TypeOK'
  BY <1>2, <1>4 DEF TypeOK
<1>6. \A o \in Ops : State(o) # "ABSENT" /\ Owned(o) => Owned(o)'
  BY <1>2, <1>4, PlannedTyped DEF Owned
<1>7. StepSound' /\ ImagesSound'
  <2>1. task.at = "access" => Owned(task.op)'
    <3> SUFFICES ASSUME task.at = "access" PROVE Owned(task.op)'
      OBVIOUS
    <3>1. task.op \in Ops /\ State(task.op) # "ABSENT" /\ Owned(task.op)
      BY Works DEF RInv, ImagesSound
    <3>2. target'[ops[task.op].root] = target[ops[task.op].root]
      BY <1>2, <1>4, <3>1, PlannedTyped DEF Owned
    <3> QED BY <1>2, <3>1, <3>2 DEF Owned
  <2> QED BY <1>2, <2>1 DEF RInv, StepSound, ImagesSound, Flattening, Materialized, Image, Chain, Op, State
<1>8. OwnersPlanned' /\ ImagesAreChain'
  BY <1>2, <1>3, <1>4 DEF RInv, OwnersPlanned, ImagesAreChain, State
<1>9. ASSUME NEW q \in Ops PROVE Bound(q)'
  BY <1>2, <1>6 DEF RInv, Bound, Defined, State
<1> QED BY <1>5, <1>7, <1>8, <1>9 DEF RInv

\* What is READY or STARTING has not ended, so nobody undefines its domain.
LEMMA AdminDomainKeeps ==
    ASSUME RInv, NEW n \in Names, AdminDefines(n) \/ AdminUndefines(n) \/ AdminStarts(n)
    PROVE  RInv'
<1>1. /\ TypeOK
      /\ UNCHANGED <<ops, bundles, markers, catalog, doomed, staging, target, vms, task, todo, worker>>
  BY DEF AdminDefines, AdminUndefines, AdminStarts, RInv, store, loop
<1>2. /\ domains' \in [Names -> Domains \cup {NoDomain}]
      /\ \A o \in Ops : State(o) \notin Terminal =>
             \A m \in Names : domains[m] # NoDomain /\ domains[m].owner = o =>
                 domains'[m] # NoDomain /\ domains'[m].owner = o
  <2>1. CASE AdminDefines(n)
    <3>1. domains[n] = NoDomain /\ domains' = [domains EXCEPT ![n] = [owner |-> Foreign, running |-> FALSE]]
      BY <2>1 DEF AdminDefines
    <3>2. [owner |-> Foreign, running |-> FALSE] \in Domains
      BY DEF Domains
    <3> QED BY <1>1, <3>1, <3>2 DEF TypeOK
  <2>2. CASE AdminUndefines(n)
    <3>1. /\ domains[n].owner \in {Foreign} \cup {o \in Ops : State(o) \in Terminal}
          /\ domains' = [domains EXCEPT ![n] = NoDomain]
      BY <2>2 DEF AdminUndefines
    <3> QED BY <1>1, <3>1, NamesApart DEF TypeOK
  <2>3. CASE AdminStarts(n)
    <3>1. domains[n] # NoDomain /\ domains' = [domains EXCEPT ![n].running = TRUE]
      BY <2>3 DEF AdminStarts
    <3> QED BY <1>1, <3>1, RunsKept
  <2> QED BY <2>1, <2>2, <2>3
<1>3. TypeOK'
  BY <1>1, <1>2 DEF TypeOK
<1>4. ASSUME NEW o \in Ops PROVE Bound(o)'
  <2>1. CASE State(o) \in Terminal
    BY <1>1, <2>1 DEF RInv, Bound, Owned, State, Terminal
  <2>2. CASE State(o) \notin Terminal
    BY <1>1, <1>2, <2>2, BoundKept
  <2> QED BY <2>1, <2>2
<1> QED BY <1>1, <1>3, <1>4 DEF RInv, StepSound, ImagesSound, Flattening, Materialized, Image, Chain, Op,
            OwnersPlanned, ImagesAreChain, Owned, State

\* Registering takes no name that is registered.
LEMMA AdminRegisterKeeps == ASSUME RInv, NEW n \in Names, Register(n) PROVE RInv'
<1>1. /\ TypeOK /\ domains[n] # NoDomain /\ vms[n] = NoDomain
      /\ vms' = [vms EXCEPT ![n] = domains[n].owner]
      /\ UNCHANGED <<ops, bundles, markers, catalog, doomed, staging, target, domains, task, todo, worker>>
  BY DEF Register, RInv, store, loop
<1>2. /\ vms' \in [Names -> Ops \cup {Foreign, NoDomain}]
      /\ \A m \in Names : m # n => vms'[m] = vms[m]
  <2>1. domains[n].owner \in Ops \cup {Foreign}
    BY <1>1 DEF TypeOK, Domains
  <2> QED BY <1>1, <2>1 DEF TypeOK
<1>3. TypeOK'
  BY <1>1, <1>2 DEF TypeOK
<1>4. ASSUME NEW o \in Ops PROVE Bound(o)'
  <2>1. CASE State(o) \in {"READY", "STARTING"}
    <3>1. Bound(o) /\ vms[ops[o].name] = o /\ ops[o].name \in Names
      BY <1>1, <2>1, PlannedTyped DEF RInv, Bound
    <3>2. ops[o].name # n
      BY <1>1, <3>1, NothingApart
    <3> QED BY <1>1, <1>2, <3>1, <3>2 DEF Bound, Owned, Defined, State
  <2>2. CASE State(o) \notin {"READY", "STARTING"}
    BY <1>1, <2>2 DEF RInv, Bound, Owned, State
  <2> QED BY <2>1, <2>2
<1> QED BY <1>1, <1>3, <1>4 DEF RInv, StepSound, ImagesSound, Flattening, Materialized, Image, Chain, Op,
            OwnersPlanned, ImagesAreChain, Owned, State

-----------------------------------------------------------------------------
LEMMA StepRInv == RInv /\ [Next]_vars => RInv'
<1> SUFFICES ASSUME RInv, [Next]_vars PROVE RInv'
  OBVIOUS
<1>1. CASE Api
  BY <1>1, CreateKeeps, StoreKeeps DEF Api
<1>2. CASE Runtime
  <2>1. CASE Tick \/ EndTick \/ LocalTick
    BY <2>1, LoopKeeps
  <2>2. CASE \E o \in Ops : Visit(o)
    BY <2>2, VisitKeeps
  <2>3. CASE Refused
    BY <2>3, RefusedKeeps
  <2>4. CASE Verify \/ (\E d \in Disks : Flatten(d)) \/ RewriteDomain \/ Replace \/ GrantAccess
    BY <2>4, VerifyKeeps, FlattenKeeps, RewriteKeeps, ReplaceKeeps, GrantKeeps
  <2>5. CASE Define \/ RegisterReady \/ MarkStarting \/ Start \/ Finish
    BY <2>5, DefineKeeps, RegisterKeeps, MarkKeeps, StartKeeps, FinishKeeps
  <2> QED BY <1>2, <2>1, <2>2, <2>3, <2>4, <2>5 DEF Runtime, Advance, Refused
<1>3. CASE CallFails
  BY <1>3, RefusedKeeps
<1>4. CASE Restart
  BY <1>4, RestartKeeps
<1>5. CASE Admin
  BY <1>5, AdminDirKeeps, AdminDomainKeeps, AdminRegisterKeeps DEF Admin
<1>6. CASE UNCHANGED vars
  BY <1>6 DEF vars, store, outside, loop, RInv, TypeOK, StepSound, ImagesSound, Flattening, Materialized,
              Image, Chain, Op, OwnersPlanned, ImagesAreChain, Bound, Owned, Defined, State
<1> QED BY <1>1, <1>2, <1>3, <1>4, <1>5, <1>6 DEF Next

LEMMA RInvAlways == Spec => []RInv
<1>1. Init => RInv
  BY InitRInv
<1>2. RInv /\ [Next]_vars => RInv'
  BY StepRInv
<1> QED BY <1>1, <1>2, PTL DEF Spec

-----------------------------------------------------------------------------
\* Every variable stays in its domain.
THEOREM ReceivedRestoreTypeCorrect == Spec => []TypeOK
<1>1. RInv => TypeOK
  BY DEF RInv
<1> QED BY <1>1, RInvAlways, PTL

\* Every image a restore published holds exactly the points of its chain,
\* whatever is deleted, published and listed while it is made.
THEOREM ImagesAreChainAlways == Spec => []ImagesAreChain
<1>1. RInv => ImagesAreChain
  BY DEF RInv
<1> QED BY <1>1, RInvAlways, PTL

\* From DEFINING on the images are the operation's own, and a READY or
\* STARTING operation owns the domain of its name and the name itself.
THEOREM ReadyIsBoundAlways == Spec => []ReadyIsBound
<1>1. RInv => ReadyIsBound
  BY DEF RInv, Bound, ReadyIsBound
<1> QED BY <1>1, RInvAlways, PTL
-----------------------------------------------------------------------------
(* ImplementsService.  Reached, Asked and Standing are the mapped state;   *)
(* each step of the system changes them as one step of the abstract        *)
(* service, or leaves them alone.                                          *)

Reach(o) == LastEffect(State(o), Doing(o))
Mapped   == <<Reached, Asked, Standing, domains>>
Open     == {"PLANNED", "VERIFYING"}

LEMMA EffectTable ==
    ASSUME NEW at
    PROVE  /\ LastEffect("ABSENT", at) = "none" /\ LastEffect("SUCCESS", at) = "done"
           /\ LastEffect("FAILED", at) = "lost"
           /\ \A s \in Open : LastEffect(s, at) = "open"
           /\ LastEffect("MATERIALIZING", at) = IF at = "access" THEN "placed" ELSE "open"
           /\ LastEffect("DEFINING", at) = IF at = "register" THEN "bound" ELSE "placed"
           /\ LastEffect("READY", at) = "bound"
           /\ LastEffect("STARTING", at) = IF at = "finish" THEN "run" ELSE "bound"
BY DEF LastEffect, Terminal, Open

\* What can fail, or be killed, can be abandoned.
LEMMA UnfinishedEffect ==
    ASSUME NEW s \in Unsafe \cup {"VERIFYING", "READY"}, NEW at
    PROVE  LastEffect(s, at) \in Service!Unfinished
<1>1. CASE s = "VERIFYING"
  BY <1>1, EffectTable DEF Open, Service!Unfinished
<1>2. CASE s \in Unsafe \cup {"READY"}
  BY <1>2, EffectTable DEF Unsafe, Service!Unfinished
<1> QED BY <1>1, <1>2

\* What identifies the operations stays when states change.
LEMMA AskedKept ==
    ASSUME TypeOK,
           \A q \in Ops : IF State(q) = "ABSENT" THEN State(q)' = "ABSENT" ELSE Keeps(q)
    PROVE  Asked' = Asked
<1>1. \A q \in Ops : (IF State(q) = "ABSENT" THEN NoDir ELSE Request(ops[q]))'
                     = IF State(q) = "ABSENT" THEN NoDir ELSE Request(ops[q])
  <2> SUFFICES ASSUME NEW q \in Ops
               PROVE  (IF State(q) = "ABSENT" THEN NoDir ELSE Request(ops[q]))'
                      = IF State(q) = "ABSENT" THEN NoDir ELSE Request(ops[q])
    OBVIOUS
  <2>1. CASE State(q) = "ABSENT"
    BY <2>1
  <2>2. CASE State(q) # "ABSENT"
    BY <2>2 DEF Keeps, Request
  <2> QED BY <2>1, <2>2
<1> QED BY <1>1 DEF Asked

\* The other operations are where the thread left them.
LEMMA OthersReach ==
    ASSUME NEW o \in Ops, task.op \in {o, NoOp}, task'.op \in {o, NoOp},
           \A q \in Ops : q # o => State(q)' = State(q)
    PROVE  \A q \in Ops : q # o => Reach(q)' = Reach(q)
<1> SUFFICES ASSUME NEW q \in Ops, q # o PROVE Reach(q)' = Reach(q)
  OBVIOUS
<1>1. Doing(q) = "idle" /\ Doing(q)' = "idle"
  BY IdleTyped DEF Doing
<1> QED BY <1>1 DEF Reach

LEMMA ReachedSet ==
    ASSUME NEW o \in Ops, \A q \in Ops : q # o => Reach(q)' = Reach(q)
    PROVE  /\ Reached' = [Reached EXCEPT ![o] = Reach(o)']
           /\ Reach(o)' = Reach(o) => Reached' = Reached
           /\ Reached[o] = Reach(o)
BY DEF Reached, Reach

LEMMA SameStanding == ASSUME UNCHANGED target PROVE UNCHANGED Standing
BY DEF Standing, Replaceable

\* One operation, or several, are lost.
LEMMA Abandons ==
    ASSUME \A q \in Ops : \/ Reach(q)' = Reach(q)
                          \/ Reach(q) \in Service!Unfinished /\ Reach(q)' = "lost",
           UNCHANGED <<Asked, Standing, domains>>
    PROVE  Service!Abandon
<1> DEFINE lost == {o \in Ops : Reach(o)' # Reach(o)}
<1>1. lost \in SUBSET {o \in Ops : Reached[o] \in Service!Unfinished}
  BY DEF Reached, Reach
<1>2. \A q \in Ops : Reached'[q] = IF q \in lost THEN "lost" ELSE Reached[q]
  BY DEF Reached, Reach
<1>3. Reached' = [q \in Ops |-> IF q \in lost THEN "lost" ELSE Reached[q]]
  BY <1>2 DEF Reached
<1> QED BY <1>1, <1>3 DEF Service!Abandon

\* What the service sees of a state that is stored for one operation.
LEMMA TellServes ==
    ASSUME RInv, NEW o \in Ops, State(o) # "ABSENT", NEW s \in States \ {"ABSENT"}, To(o, s),
           task.op \in {o, NoOp}, task'.op \in {o, NoOp}
    PROVE  /\ Reach(o)' = LastEffect(s, Doing(o)')
           /\ UNCHANGED Asked /\ Asked[o] = Request(ops[o])
           /\ \A q \in Ops : q # o => Reach(q)' = Reach(q)
           /\ Reached' = [Reached EXCEPT ![o] = Reach(o)'] /\ Reached[o] = Reach(o)
           /\ Reach(o)' = Reach(o) => UNCHANGED Reached
<1>0. TypeOK
  BY DEF RInv
<1>1. /\ ops'[o].state = s
      /\ \A q \in Ops : q # o => ops'[q] = ops[q]
      /\ \A q \in Ops : State(q) # "ABSENT" => Keeps(q)
  BY <1>0, ToKeeps
<1>2. State(o)' = s /\ \A q \in Ops : q # o => State(q)' = State(q)
  BY <1>1 DEF State
<1>3. UNCHANGED Asked
  BY <1>0, <1>1, <1>2, AskedKept
<1>4. \A q \in Ops : q # o => Reach(q)' = Reach(q)
  BY <1>2, OthersReach
<1>5. Reached' = [Reached EXCEPT ![o] = Reach(o)'] /\ Reached[o] = Reach(o)
      /\ (Reach(o)' = Reach(o) => UNCHANGED Reached)
  BY <1>4, ReachedSet
<1>6. Reach(o)' = LastEffect(s, Doing(o)')
  BY <1>2 DEF Reach
<1>7. Asked[o] = Request(ops[o])
  BY DEF Asked
<1> QED BY <1>3, <1>4, <1>5, <1>6, <1>7

-----------------------------------------------------------------------------
\* An operation that is refused, or whose call fails, is lost.
LEMMA RefusedServes == ASSUME RInv, Refused \/ CallFails PROVE Service!Abandon
<1>1. GiveUp /\ task.at # "idle"
  BY DEF Refused, CallFails, VerifyRefused, FlattenRefused, RewriteRefused, ReplaceRefused, DefineRefused,
         RegisterRefused, StartRefused, At, RInv, StepSound
<1>2. PICK o \in Ops : o = task.op /\ State(o) # "ABSENT"
  BY <1>1, Works
<1>3. /\ To(o, "FAILED") /\ task'.op = NoOp /\ UNCHANGED <<target, domains>>
  BY <1>1, <1>2, IdleTyped DEF GiveUp, Rest, outside
<1>4. State(o) \in Unsafe \cup {"VERIFYING", "READY"}
  BY <1>1, <1>2 DEF RInv, TypeOK, StepSound, Steps, Unsafe
<1>5. "FAILED" \in States \ {"ABSENT"}
  BY DEF States, Terminal
<1>6. /\ Reach(o)' = LastEffect("FAILED", Doing(o)') /\ UNCHANGED Asked
      /\ \A q \in Ops : q # o => Reach(q)' = Reach(q)
  BY <1>2, <1>3, <1>5, TellServes
<1>7. Reach(o)' = "lost" /\ Reach(o) \in Service!Unfinished
  BY <1>4, <1>6, EffectTable, UnfinishedEffect DEF Reach
<1>8. \A q \in Ops : \/ Reach(q)' = Reach(q)
                     \/ Reach(q) \in Service!Unfinished /\ Reach(q)' = "lost"
  BY <1>6, <1>7
<1>9. UNCHANGED Standing
  BY <1>3, SameStanding
<1> QED BY <1>3, <1>6, <1>8, <1>9, Abandons

\* To store that a stage begins or is over is no effect.
LEMMA MarkServes ==
    ASSUME RInv, Verify \/ GrantAccess \/ RegisterReady \/ MarkStarting
    PROVE  UNCHANGED Mapped
<1>1. task.at # "idle" /\ UNCHANGED <<target, domains>>
  BY DEF Verify, GrantAccess, RegisterReady, MarkStarting, At, outside
<1>2. PICK o \in Ops : o = task.op /\ State(o) # "ABSENT"
  BY <1>1, Works
<1>3. UNCHANGED Standing
  BY <1>1, SameStanding
<1>4. ASSUME NEW s \in {"MATERIALIZING", "DEFINING", "READY", "STARTING"},
             NEW at \in {"disk", "define", "ready", "start"},
             To(o, s), task' = [task EXCEPT !.at = at],
             Reach(o) = LastEffect(s, at)
      PROVE  UNCHANGED Mapped
  <2>1. task'.op = o /\ task'.at = at
    BY <1>2, <1>4 DEF RInv, TypeOK, Steps
  <2>2. Doing(o)' = at
    BY <2>1 DEF Doing
  <2>3. s \in States \ {"ABSENT"}
    BY DEF States, Unsafe
  <2>4. /\ Reach(o)' = LastEffect(s, Doing(o)')
        /\ UNCHANGED Asked /\ (Reach(o)' = Reach(o) => UNCHANGED Reached)
    BY <1>2, <1>4, <2>1, <2>3, TellServes
  <2> QED BY <1>1, <1>3, <1>4, <2>2, <2>4 DEF Mapped
<1>5. Doing(o) = task.at
  BY <1>2 DEF Doing
<1>6. CASE Verify
  <2>1. To(o, "MATERIALIZING") /\ task' = [task EXCEPT !.at = "disk"] /\ State(o) = "VERIFYING"
    BY <1>2, <1>6 DEF Verify, Goto, At, RInv, StepSound
  <2>2. Reach(o) = LastEffect("MATERIALIZING", "disk")
    BY <2>1, EffectTable DEF Reach, Open
  <2> QED BY <1>4, <2>1, <2>2
<1>7. CASE GrantAccess
  <2>1. /\ To(o, "DEFINING") /\ task' = [task EXCEPT !.at = "define"]
        /\ State(o) = "MATERIALIZING" /\ task.at = "access"
    BY <1>2, <1>7 DEF GrantAccess, Goto, At, RInv, StepSound
  <2>2. Reach(o) = LastEffect("DEFINING", "define")
    BY <1>5, <2>1, EffectTable DEF Reach
  <2> QED BY <1>4, <2>1, <2>2
<1>8. CASE RegisterReady
  <2>1. /\ To(o, "READY") /\ task' = [task EXCEPT !.at = "ready"]
        /\ State(o) = "DEFINING" /\ task.at = "register"
    BY <1>2, <1>8 DEF RegisterReady, Goto, At, RInv, StepSound
  <2>2. Reach(o) = LastEffect("READY", "ready")
    BY <1>5, <2>1, EffectTable DEF Reach
  <2> QED BY <1>4, <2>1, <2>2
<1>9. CASE MarkStarting
  <2>1. To(o, "STARTING") /\ task' = [task EXCEPT !.at = "start"] /\ State(o) = "READY"
    BY <1>2, <1>9 DEF MarkStarting, Goto, At, RInv, StepSound
  <2>2. Reach(o) = LastEffect("STARTING", "start")
    BY <2>1, EffectTable DEF Reach
  <2> QED BY <1>4, <2>1, <2>2
<1> QED BY <1>6, <1>7, <1>8, <1>9

\* Nor is it to read the chain and flatten it.
LEMMA StageServes ==
    ASSUME RInv, (\E d \in Disks : Flatten(d)) \/ RewriteDomain
    PROVE  UNCHANGED Mapped
<1>1. /\ task.at = "disk" /\ task'.at \in {"disk", "replace"} /\ task'.op = task.op
      /\ UNCHANGED <<ops, target, domains>>
  <2>1. task \in [op : Ops \cup {NoOp}, at : Steps, disk : Disks \cup {NoDisk}, next : Nat]
    BY DEF RInv, TypeOK
  <2>2. CASE RewriteDomain
    BY <2>1, <2>2 DEF RewriteDomain, At, Goto, outside
  <2>3. CASE \E d \in Disks : Flatten(d)
    <3>1. PICK d \in Disks : Flatten(d)
      BY <2>3
    <3>2. /\ task.at = "disk" /\ UNCHANGED <<ops, target, domains>>
          /\ \/ task' = [task EXCEPT !.disk = NoDisk, !.next = 1]
             \/ task' = [task EXCEPT !.disk = d, !.next = task.next + 1]
      BY <3>1 DEF Flatten, At, outside
    <3> QED BY <2>1, <3>2
  <2> QED BY <2>2, <2>3
<1>2. \A q \in Ops : Reach(q)' = Reach(q)
  <2> SUFFICES ASSUME NEW q \in Ops PROVE Reach(q)' = Reach(q)
    OBVIOUS
  <2>1. CASE q = task.op
    <3>1. State(q) = "MATERIALIZING" /\ State(q)' = "MATERIALIZING"
      BY <1>1, <2>1 DEF RInv, StepSound, State
    <3>2. Doing(q) # "access" /\ Doing(q)' # "access"
      BY <1>1, <2>1 DEF Doing
    <3> QED BY <3>1, <3>2, EffectTable DEF Reach
  <2>2. CASE q # task.op
    BY <1>1, <2>2 DEF Reach, State, Doing
  <2> QED BY <2>1, <2>2
<1>3. UNCHANGED Reached
  BY <1>2 DEF Reached, Reach
<1>4. UNCHANGED Asked
  BY <1>1 DEF Asked, State, Request
<1> QED BY <1>1, <1>3, <1>4, SameStanding DEF Mapped

\* The thread takes an operation up; nothing has happened for it yet.
LEMMA VisitServes == ASSUME RInv, NEW o \in Ops, Visit(o) PROVE UNCHANGED Mapped
<1>1. /\ task.op = NoOp /\ UNCHANGED <<target, domains>>
      /\ State(o) \in {"PLANNED", "VERIFYING", "READY"}
  BY DEF Visit, At, RInv, StepSound, outside
<1>2. UNCHANGED Standing
  BY <1>1, SameStanding
<1>3. CASE State(o) \in {"PLANNED", "VERIFYING"}
  <2>1. To(o, "VERIFYING") /\ task'.op = o /\ State(o) # "ABSENT"
    BY <1>3 DEF Visit, Idle
  <2>2. "VERIFYING" \in States \ {"ABSENT"}
    BY DEF States
  <2>3. /\ Reach(o)' = LastEffect("VERIFYING", Doing(o)')
        /\ UNCHANGED Asked /\ (Reach(o)' = Reach(o) => UNCHANGED Reached)
    BY <1>1, <2>1, <2>2, TellServes
  <2>4. Reach(o)' = "open" /\ Reach(o) = "open"
    BY <1>3, <2>3, EffectTable DEF Reach, Open
  <2> QED BY <1>1, <1>2, <2>3, <2>4 DEF Mapped
<1>4. CASE State(o) = "READY"
  <2>1. UNCHANGED ops /\ task'.op = o
    BY <1>4 DEF Visit, Idle
  <2>2. \A q \in Ops : State(q)' = State(q)
    BY <2>1 DEF State
  <2>3. \A q \in Ops : q # o => Reach(q)' = Reach(q)
    BY <1>1, <2>1, <2>2, OthersReach
  <2>4. Reach(o)' = "bound" /\ Reach(o) = "bound"
    BY <1>4, <2>2, EffectTable DEF Reach
  <2>5. UNCHANGED Asked
    BY <2>1 DEF Asked, State, Request
  <2> QED BY <1>1, <1>2, <2>3, <2>4, <2>5, ReachedSet DEF Mapped
<1> QED BY <1>1, <1>3, <1>4

-----------------------------------------------------------------------------
\* Only an operation that was asked to start its domain is STARTING, and after
\* the start the domain runs until the operation is done.
Wanted  == \A o \in Ops : State(o) = "STARTING" => ops[o].start
Running == task.at = "finish" => domains[Op.name].running

LEMMA WantedStep == ASSUME RInv, Wanted, [Next]_vars PROVE Wanted'
<1>0. TypeOK
  BY DEF RInv
<1>1. ASSUME UNCHANGED ops PROVE Wanted'
  BY <1>1 DEF Wanted, State
<1>2. ASSUME NEW o \in Ops, State(o) # "ABSENT", NEW s \in States \ {"ABSENT"}, To(o, s),
             s = "STARTING" => ops[o].start
      PROVE  Wanted'
  <2>1. /\ ops'[o].state = s
        /\ \A q \in Ops : q # o => ops'[q] = ops[q]
        /\ Keeps(o)
    BY <1>0, <1>2, ToKeeps
  <2> QED BY <1>2, <2>1 DEF Wanted, State, Keeps
<1>3. ASSUME task.at # "idle",
             NEW s \in {"FAILED", "MATERIALIZING", "DEFINING", "READY", "STARTING", "SUCCESS"},
             To(task.op, s), s = "STARTING" => Op.start
      PROVE  Wanted'
  <2>1. PICK o \in Ops : o = task.op /\ State(o) # "ABSENT"
    BY <1>3, Works
  <2>2. s \in States \ {"ABSENT"}
    BY DEF States, Unsafe, Terminal
  <2> QED BY <1>2, <1>3, <2>1, <2>2 DEF Op
<1>4. CASE Refused \/ CallFails
  <2>1. task.at # "idle" /\ To(task.op, "FAILED")
    BY <1>4 DEF Refused, CallFails, GiveUp, VerifyRefused, FlattenRefused, RewriteRefused, ReplaceRefused,
           DefineRefused, RegisterRefused, StartRefused, At, RInv, StepSound
  <2> QED BY <1>3, <2>1
<1>5. CASE Verify \/ GrantAccess \/ RegisterReady \/ MarkStarting \/ Finish
  <2>1. task.at # "idle"
    BY <1>5 DEF Verify, GrantAccess, RegisterReady, MarkStarting, Finish, At
  <2>2. PICK s \in {"MATERIALIZING", "DEFINING", "READY", "STARTING", "SUCCESS"} :
           To(task.op, s) /\ (s = "STARTING" => Op.start)
    BY <1>5 DEF Verify, GrantAccess, RegisterReady, MarkStarting, Finish
  <2> QED BY <1>3, <2>1, <2>2
<1>6. CASE \E o \in Ops : Visit(o)
  <2>1. PICK o \in Ops : Visit(o)
    BY <1>6
  <2>2. UNCHANGED ops \/ (To(o, "VERIFYING") /\ State(o) # "ABSENT")
    BY <2>1 DEF Visit
  <2>3. "VERIFYING" \in States \ {"ABSENT"}
    BY DEF States
  <2> QED BY <1>1, <1>2, <2>2, <2>3
<1>7. CASE \E o \in Ops : Create(o)
  <2>0. PICK o \in Ops : Create(o)
    BY <1>7
  <2>1. PICK p \in Points, n \in Names, r \in Roots, s \in BOOLEAN :
           ops' = [ops EXCEPT ![o] = [state |-> "PLANNED", point |-> p, name |-> n,
                                      root |-> r, start |-> s]]
    BY <2>0 DEF Create
  <2>2. ops'[o].state = "PLANNED" /\ \A q \in Ops : q # o => ops'[q] = ops[q]
    BY <1>0, <2>1 DEF TypeOK
  <2> QED BY <2>2 DEF Wanted, State
<1>8. CASE Restart
  <2>1. \A q \in Ops : State(q)' = "STARTING" => ops'[q] = ops[q]
    <3> SUFFICES ASSUME NEW q \in Ops, ops'[q] # ops[q] PROVE State(q)' # "STARTING"
      OBVIOUS
    <3>1. State(q) \in Unsafe /\ ops'[q] = [ops[q] EXCEPT !.state = "FAILED"]
      BY <1>8 DEF Restart
    <3>2. ops[q] \in Restores
      BY <1>0, <3>1, PlannedTyped DEF Unsafe
    <3> QED BY <3>1, <3>2 DEF Restores, State
  <2> QED BY <2>1 DEF Wanted, State
<1>9. \/ UNCHANGED ops \/ Refused \/ CallFails \/ Restart
      \/ Verify \/ GrantAccess \/ RegisterReady \/ MarkStarting \/ Finish
      \/ \E o \in Ops : Visit(o) \/ Create(o)
  BY DEF Next, vars, Api, Runtime, Advance, Admin, Refused, List, Unlink, DeleteFails, StartDelete, Publish,
         RemovePiece, Tick, EndTick, LocalTick, Flatten, RewriteDomain, Replace, Define, Start,
         AdminMakesDir, AdminDefines, AdminUndefines, AdminStarts, Register
<1> QED BY <1>1, <1>4, <1>5, <1>6, <1>7, <1>8, <1>9

\* Before it is done nobody takes its domain away, and nobody stops it.
LEMMA RunningStep == ASSUME RInv, Running, [Next]_vars PROVE Running'
<1> SUFFICES ASSUME task'.at = "finish" PROVE domains'[Op.name'].running
  BY DEF Running
<1>0. TypeOK /\ task \in [op : Ops \cup {NoOp}, at : Steps, disk : Disks \cup {NoDisk}, next : Nat]
  BY DEF RInv, TypeOK
<1>1. ASSUME task.at \in {"start", "finish"}
      PROVE  /\ task.op \in Ops /\ Op.name \in Names
             /\ domains[Op.name] \in Domains /\ domains[Op.name].owner = task.op
             /\ State(task.op) = "STARTING"
  <2>1. /\ task.op \in Ops /\ Op.name \in Names /\ State(task.op) = "STARTING"
        /\ Bound(task.op)
    BY <1>1, Works DEF RInv, StepSound
  <2> QED BY <1>0, <2>1 DEF Bound, Defined, Op, TypeOK
<1>2. CASE Start
  <2>1. PICK n \in Names : n = Op.name /\ domains[n] \in Domains
    BY <1>1, <1>2 DEF Start, At
  <2>2. domains' = [domains EXCEPT ![n] = [domains[n] EXCEPT !.running = TRUE]]
        /\ UNCHANGED ops /\ task' = [task EXCEPT !.at = "finish"]
    BY <1>2, <2>1 DEF Start, Goto
  <2>3. domains'[n].running
    <3>1. domains'[n] = [domains[n] EXCEPT !.running = TRUE]
      BY <1>0, <2>2 DEF TypeOK
    <3> QED BY <2>1, <3>1 DEF Domains
  <2>4. Op.name' = n
    BY <1>0, <2>1, <2>2 DEF Op
  <2> QED BY <2>3, <2>4
<1>3. ASSUME ~Start PROVE UNCHANGED task
  <2> SUFFICES ASSUME task' # task PROVE FALSE
    OBVIOUS
  <2>1. \/ (\E o \in Ops : Visit(o)) \/ Verify \/ (\E d \in Disks : Flatten(d)) \/ RewriteDomain
        \/ Replace \/ GrantAccess \/ Define \/ RegisterReady \/ MarkStarting
        \/ task' = Idle
    BY <1>3 DEF Next, vars, loop, Api, Runtime, Advance, Admin, List, Unlink, DeleteFails, StartDelete,
           Publish, RemovePiece, Tick, EndTick, LocalTick, VerifyRefused, FlattenRefused, RewriteRefused,
           ReplaceRefused, DefineRefused, RegisterRefused, StartRefused, Finish, GiveUp, Rest, CallFails,
           Restart, Create, AdminMakesDir, AdminDefines, AdminUndefines, AdminStarts, Register
  <2> QED BY <1>0, <2>1, IdleTyped DEF Visit, Idle, Verify, Flatten, RewriteDomain, Replace, GrantAccess,
           Define, RegisterReady, MarkStarting, Goto, At
<1>4. CASE ~Start
  <2>1. task' = task /\ task.at = "finish"
    BY <1>3, <1>4
  <2>2. PICK o \in Ops : o = task.op /\ State(o) = "STARTING"
    BY <1>1, <2>1
  <2>3. PICK n \in Names : /\ n = ops[o].name /\ domains[n] \in Domains /\ domains[n].owner = o
                           /\ domains[n].running
    BY <1>1, <2>1, <2>2 DEF Running, Op
  <2>4. Op.name' = n
    <3>1. ops'[o].name = ops[o].name
      <4>1. UNCHANGED ops \/ \E q \in Ops : Create(q)
        BY <1>4, <2>1, IdleTyped DEF Next, vars, Api, Runtime, Advance, Admin, List, Unlink, DeleteFails,
               StartDelete, Publish, RemovePiece, Tick, EndTick, LocalTick, Visit, Verify, VerifyRefused,
               Flatten, FlattenRefused, RewriteDomain, RewriteRefused, Replace, ReplaceRefused, GrantAccess,
               Define, DefineRefused, RegisterReady, RegisterRefused, MarkStarting, StartRefused, Finish,
               GiveUp, Rest, CallFails, Restart, At,
               AdminMakesDir, AdminDefines, AdminUndefines, AdminStarts, Register
      <4>2. CASE \E q \in Ops : Create(q)
        <5>1. PICK q \in Ops : q # o /\ \E v : ops' = [ops EXCEPT ![q] = v]
          BY <2>2, <4>2 DEF Create
        <5> QED BY <1>0, <5>1 DEF TypeOK
      <4> QED BY <4>1, <4>2
    <3> QED BY <2>1, <2>2, <2>3, <3>1 DEF Op
  <2>5. domains'[n] = domains[n] \/ \E m \in Names : AdminStarts(m) /\ m = n
    <3>1. UNCHANGED domains \/ \E m \in Names : AdminDefines(m) \/ AdminUndefines(m) \/ AdminStarts(m)
      BY <1>4, <2>1, IdleTyped DEF Next, vars, outside, Api, Runtime, Advance, Admin, List, Unlink,
             DeleteFails, StartDelete, Publish, RemovePiece, Tick, EndTick, LocalTick, Visit, Verify,
             VerifyRefused, Flatten, FlattenRefused, RewriteDomain, RewriteRefused, Replace, ReplaceRefused,
             GrantAccess, Define, DefineRefused, RegisterReady, RegisterRefused, MarkStarting, StartRefused,
             Finish, GiveUp, Rest, CallFails, Restart, At, Create, AdminMakesDir, Register
    <3>2. CASE \E m \in Names : AdminDefines(m) \/ AdminUndefines(m) \/ AdminStarts(m)
      <4>1. PICK m \in Names : AdminDefines(m) \/ AdminUndefines(m) \/ AdminStarts(m)
        BY <3>2
      <4>2. CASE m # n
        BY <1>0, <4>1, <4>2 DEF TypeOK, AdminDefines, AdminUndefines, AdminStarts
      <4>3. CASE m = n
        <5>1. domains[n] # NoDomain /\ domains[n].owner \notin {Foreign} \cup {q \in Ops : State(q) \in Terminal}
          BY <2>2, <2>3, NothingApart, NamesApart DEF Terminal
        <5> QED BY <4>1, <4>3, <5>1 DEF AdminDefines, AdminUndefines
      <4> QED BY <4>2, <4>3
    <3> QED BY <3>1, <3>2
  <2>6. domains'[n].running
    <3>1. CASE AdminStarts(n)
      <4>1. domains'[n] = [domains[n] EXCEPT !.running = TRUE]
        BY <1>0, <3>1 DEF AdminStarts, TypeOK
      <4> QED BY <2>3, <4>1 DEF Domains
    <3> QED BY <2>3, <2>5, <3>1
  <2> QED BY <2>4, <2>6
<1> QED BY <1>2, <1>4

-----------------------------------------------------------------------------
\* The publication places the images, whole and where nobody stands.
LEMMA ReplaceServes == ASSUME RInv, Replace PROVE \E o \in Ops : Service!Place(o)
<1>1. /\ TypeOK /\ task.at = "replace" /\ Materialized /\ task.op \in Ops /\ Op.root \in Roots
      /\ State(task.op) = "MATERIALIZING"
  BY Works DEF Replace, At, RInv, StepSound, ImagesSound
<1>2. PICK o \in Ops : o = task.op
  BY <1>1
<1>3. PICK r \in Roots : r = ops[o].root
  BY <1>1, <1>2 DEF Op
<1>4. PICK made : made = [owner |-> o, images |-> staging[o]]
  OBVIOUS
<1>5. /\ Replaceable(r) /\ target' = [target EXCEPT ![r] = made]
      /\ UNCHANGED <<ops, domains>> /\ task' = [task EXCEPT !.at = "access"]
  BY <1>2, <1>3, <1>4 DEF Replace, Goto, Op, outside
<1>6. made # NoDir /\ made.owner = o /\ made.images # NoImages
  <2>1. staging[o] \in Images
    BY <1>1, <1>2 DEF Materialized, TypeOK
  <2>2. made # NoDir
    BY <1>4, <2>1, NothingApart DEF Directories
  <2>3. PICK d \in Disks : staging[o][d] = 1 .. ops[o].point
    BY <1>1, <1>2, DisksAssumption DEF Materialized, Image, Chain, Op
  <2>4. PICK m \in Points : m = ops[o].point
    BY <1>1, <1>2, PlannedTyped
  <2>5. staging[o][d] # NoImage
    BY <2>3, <2>4, ImageApart, BoundsAssumption DEF Points
  <2> QED BY <1>4, <2>2, <2>5 DEF NoImages
<1>7. task'.op = o /\ Doing(o)' = "access" /\ Doing(o) = "replace"
  BY <1>1, <1>2, <1>5 DEF TypeOK, Doing
<1>8. \A q \in Ops : State(q)' = State(q)
  BY <1>5 DEF State
<1>9. Reach(o)' = "placed" /\ Reach(o) = "open"
  BY <1>1, <1>2, <1>7, <1>8, EffectTable DEF Reach
<1>10. \A q \in Ops : q # o => Reach(q)' = Reach(q)
  BY <1>2, <1>7, <1>8, OthersReach
<1>11. Reached' = [Reached EXCEPT ![o] = "placed"] /\ Reached[o] = "open"
  BY <1>9, <1>10, ReachedSet
<1>12. Standing[r] = NoDomain /\ Standing' = [Standing EXCEPT ![r] = o]
  <2>1. \A q \in Roots : target'[q] = IF q = r THEN made ELSE target[q]
    BY <1>1, <1>5 DEF TypeOK
  <2>2. \A q \in Roots : Standing'[q] = IF q = r THEN o ELSE Standing[q]
    BY <1>6, <2>1 DEF Standing, Replaceable, NoImages
  <2> QED BY <1>5, <2>2 DEF Standing
<1>13. Asked[o].root = r /\ UNCHANGED Asked
  BY <1>1, <1>2, <1>3, <1>5 DEF Asked, State, Request
<1> QED BY <1>5, <1>11, <1>12, <1>13 DEF Service!Place, Service!To

LEMMA OwnIs ==
    ASSUME NEW d \in Domains, NEW o, d.owner = o
    PROVE  /\ ~d.running => d = Service!Own(o, FALSE)
           /\ d.running => d = Service!Own(o, TRUE)
<1>1. PICK w \in Ops \cup {Foreign} : d = [owner |-> w, running |-> TRUE] \/ d = [owner |-> w, running |-> FALSE]
  BY DEF Domains
<1>2. CASE d = [owner |-> w, running |-> TRUE]
  <2>1. d.running /\ w = o
    BY <1>2
  <2> QED BY <1>2, <2>1 DEF Service!Own
<1>3. CASE d = [owner |-> w, running |-> FALSE]
  <2>1. ~d.running /\ w = o
    BY <1>3
  <2> QED BY <1>3, <2>1 DEF Service!Own
<1> QED BY <1>1, <1>2, <1>3

\* virsh define binds the name; virsh start starts whatever has the name, which
\* by then is the operation's own.
LEMMA DomainServes ==
    ASSUME RInv, Wanted, Define \/ Start
    PROVE  \E o \in Ops : Service!Bind(o) \/ Service!Run(o)
<1>1. task.at \in {"define", "start"} /\ UNCHANGED <<ops, target>> /\ TypeOK
  BY DEF Define, Start, At, RInv
<1>2. PICK o \in Ops : o = task.op /\ State(o) # "ABSENT" /\ Op = ops[o] /\ Op.name \in Names
  BY <1>1, Works DEF Op
<1>3. PICK n \in Names : n = Op.name
  BY <1>2
<1>4. \A q \in Ops : State(q)' = State(q)
  BY <1>1 DEF State
<1>5. Asked[o].name = n /\ Asked[o].start = ops[o].start /\ UNCHANGED Asked
  BY <1>1, <1>2, <1>3 DEF Asked, State, Request
<1>6. UNCHANGED Standing
  BY <1>1, SameStanding
<1>7. ASSUME task'.op = o, NEW from, NEW to, Reach(o) = from, Reach(o)' = to
      PROVE  Reached' = [Reached EXCEPT ![o] = to] /\ Reached[o] = from
  <2>1. \A q \in Ops : q # o => Reach(q)' = Reach(q)
    BY <1>2, <1>4, <1>7, OthersReach
  <2> QED BY <1>7, <2>1, ReachedSet
<1>8. CASE Define
  <2>1. /\ domains[n] = NoDomain /\ domains' = [domains EXCEPT ![n] = [owner |-> o, running |-> FALSE]]
        /\ task.at = "define" /\ task' = [task EXCEPT !.at = "register"]
    BY <1>2, <1>3, <1>8 DEF Define, At, Goto
  <2>2. task'.op = o /\ Doing(o)' = "register" /\ Doing(o) = "define" /\ State(o) = "DEFINING"
    BY <1>1, <1>2, <2>1 DEF Doing, TypeOK, RInv, StepSound
  <2>3. Reach(o)' = "bound" /\ Reach(o) = "placed"
    BY <1>4, <2>2, EffectTable DEF Reach
  <2>4. Reached' = [Reached EXCEPT ![o] = "bound"] /\ Reached[o] = "placed"
    BY <1>7, <2>2, <2>3
  <2>5. Service!Bind(o)
    BY <1>5, <1>6, <2>1, <2>4 DEF Service!Bind, Service!To, Service!Own
  <2> QED BY <2>5
<1>9. CASE Start
  <2>1. /\ domains[n] # NoDomain /\ ~domains[n].running
        /\ domains' = [domains EXCEPT ![n].running = TRUE]
        /\ task.at = "start" /\ task' = [task EXCEPT !.at = "finish"]
    BY <1>2, <1>3, <1>9 DEF Start, At, Goto
  <2>2. task'.op = o /\ Doing(o)' = "finish" /\ Doing(o) = "start" /\ State(o) = "STARTING"
    BY <1>1, <1>2, <2>1 DEF Doing, TypeOK, RInv, StepSound
  <2>3. Reach(o)' = "run" /\ Reach(o) = "bound"
    BY <1>4, <2>2, EffectTable DEF Reach
  <2>4. Reached' = [Reached EXCEPT ![o] = "run"] /\ Reached[o] = "bound"
    BY <1>7, <2>2, <2>3
  <2>5. domains[n] = Service!Own(o, FALSE)
    <3>1. domains[n] \in Domains
      BY <1>1, <1>3, <2>1 DEF TypeOK
    <3>2. domains[n].owner = o
      BY <1>2, <1>3, <2>2 DEF RInv, Bound, Defined
    <3> QED BY <2>1, <3>1, <3>2, OwnIs
  <2>6. ops[o].start
    BY <2>2 DEF Wanted
  <2>7. Service!Run(o)
    BY <1>5, <1>6, <2>1, <2>4, <2>5, <2>6 DEF Service!Run, Service!To
  <2> QED BY <2>7
<1> QED BY <1>8, <1>9

\* The operation is done after its last effect, while its own domain runs if it
\* was to be started.
LEMMA FinishServes == ASSUME RInv, Running, Finish PROVE \E o \in Ops : Service!Complete(o)
<1>1. /\ task.at \in {"ready", "finish"} /\ (task.at = "ready" => ~Op.start)
      /\ task'.op = NoOp /\ UNCHANGED <<target, domains>> /\ To(task.op, "SUCCESS") /\ TypeOK
  BY IdleTyped DEF Finish, At, Rest, outside, RInv
<1>2. PICK o \in Ops : o = task.op /\ State(o) # "ABSENT" /\ Op = ops[o] /\ Op.name \in Names
  BY <1>1, Works DEF Op
<1>3. PICK n \in Names : n = Op.name
  BY <1>2
<1>4. Doing(o) = task.at /\ State(o) = IF task.at = "ready" THEN "READY" ELSE "STARTING"
  BY <1>1, <1>2 DEF Doing, RInv, StepSound
<1>5. /\ Reach(o)' = LastEffect("SUCCESS", Doing(o)')
      /\ UNCHANGED Asked /\ Asked[o] = Request(ops[o])
      /\ Reached' = [Reached EXCEPT ![o] = Reach(o)'] /\ Reached[o] = Reach(o)
  <2>1. "SUCCESS" \in States \ {"ABSENT"}
    BY DEF States, Terminal
  <2> QED BY <1>1, <1>2, <2>1, TellServes
<1>6. Reach(o)' = "done" /\ Reach(o) = IF task.at = "ready" THEN "bound" ELSE "run"
  BY <1>1, <1>4, <1>5, EffectTable DEF Reach
<1>7. Asked[o].name = n /\ Asked[o].start = ops[o].start
  BY <1>2, <1>3, <1>5 DEF Request
<1>8. task.at = "finish" => domains[n] = Service!Own(o, TRUE)
  <2> SUFFICES ASSUME task.at = "finish" PROVE domains[n] = Service!Own(o, TRUE)
    OBVIOUS
  <2>1. domains[n] # NoDomain /\ domains[n].owner = o /\ domains[n].running
    BY <1>2, <1>3, <1>4 DEF RInv, Bound, Defined, Running
  <2>2. domains[n] \in Domains
    BY <1>1, <2>1 DEF TypeOK
  <2> QED BY <2>1, <2>2, OwnIs
<1>9. UNCHANGED Standing
  BY <1>1, SameStanding
<1> QED BY <1>1, <1>2, <1>5, <1>6, <1>7, <1>8, <1>9 DEF Service!Complete, Service!To

\* A plan asks the service for a restore.
LEMMA CreateServes == ASSUME RInv, NEW o \in Ops, Create(o) PROVE Service!Ask(o)
<1>1. State(o) = "ABSENT" /\ UNCHANGED <<target, domains, task>>
  BY DEF Create, outside, loop
<1>2. PICK p \in Points, n \in Names, r \in Roots, s \in BOOLEAN :
         ops' = [ops EXCEPT ![o] = [state |-> "PLANNED", point |-> p, name |-> n,
                                    root |-> r, start |-> s]]
  BY DEF Create
<1>3. ops'[o] = [state |-> "PLANNED", point |-> p, name |-> n, root |-> r, start |-> s]
      /\ \A q \in Ops : q # o => ops'[q] = ops[q]
  BY <1>2 DEF RInv, TypeOK
<1>4. State(o)' = "PLANNED" /\ \A q \in Ops : q # o => State(q)' = State(q)
  BY <1>3 DEF State
<1>5. \A q \in Ops : q # o => Reach(q)' = Reach(q)
  BY <1>1, <1>4 DEF Reach, Doing
<1>6. Reach(o)' = "open" /\ Reach(o) = "none"
  BY <1>1, <1>4, EffectTable DEF Reach, Open
<1>7. Reached' = [Reached EXCEPT ![o] = "open"] /\ Reached[o] = "none"
  BY <1>5, <1>6, ReachedSet
<1>8. PICK q \in Service!Requests : q = [name |-> n, root |-> r, start |-> s]
  BY DEF Service!Requests
<1>9. Asked' = [Asked EXCEPT ![o] = q]
  <2>1. \A t \in Ops : (IF State(t) = "ABSENT" THEN NoDir ELSE Request(ops[t]))'
                       = IF t = o THEN q ELSE IF State(t) = "ABSENT" THEN NoDir ELSE Request(ops[t])
    BY <1>3, <1>8 DEF State, Request
  <2> QED BY <2>1 DEF Asked
<1> QED BY <1>1, <1>7, <1>9, SameStanding DEF Service!Ask, Service!To

\* A kill loses what was past VERIFYING and not READY, and nothing else.
LEMMA RestartServes == ASSUME RInv, Restart PROVE Service!Abandon
<1>1. TypeOK /\ UNCHANGED <<target, domains>>
  BY DEF Restart, outside, RInv
<1>2. ASSUME NEW q \in Ops
      PROVE  /\ State(q) \in Unsafe => State(q)' = "FAILED" /\ Keeps(q)
             /\ State(q) \notin Unsafe => ops'[q] = ops[q] /\ State(q)' = State(q)
  <2>1. CASE State(q) \in Unsafe
    <3>1. ops[q] \in Restores
      BY <1>1, <2>1, PlannedTyped DEF Unsafe
    <3>2. ops'[q] = [ops[q] EXCEPT !.state = "FAILED"]
      BY <2>1 DEF Restart
    <3> QED BY <2>1, <3>1, <3>2 DEF Restores, Keeps, State, States, Terminal
  <2>2. CASE State(q) \notin Unsafe
    BY <2>2 DEF Restart, State
  <2> QED BY <2>1, <2>2
<1>3. ASSUME NEW q \in Ops
      PROVE  \/ Reach(q)' = Reach(q)
             \/ Reach(q) \in Service!Unfinished /\ Reach(q)' = "lost"
  <2>1. CASE State(q) \in Unsafe
    <3>1. Reach(q) \in Service!Unfinished
      BY <2>1, UnfinishedEffect DEF Reach
    <3>2. PICK at : at = Doing(q)'
      OBVIOUS
    <3>3. LastEffect("FAILED", at) = "lost"
      BY EffectTable
    <3> QED BY <1>2, <2>1, <3>1, <3>2, <3>3 DEF Reach
  <2>2. CASE State(q) \notin Unsafe
    <3>1. \A at, bt : LastEffect(State(q), at) = LastEffect(State(q), bt)
      BY <2>2 DEF LastEffect, Unsafe
    <3> QED BY <1>2, <2>2, <3>1 DEF Reach
  <2> QED BY <2>1, <2>2
<1>4. UNCHANGED Asked
  <2>1. \A q \in Ops : IF State(q) = "ABSENT" THEN State(q)' = "ABSENT" ELSE Keeps(q)
    <3> SUFFICES ASSUME NEW q \in Ops
                 PROVE  IF State(q) = "ABSENT" THEN State(q)' = "ABSENT" ELSE Keeps(q)
      OBVIOUS
    <3>1. CASE State(q) \in Unsafe
      BY <1>2, <3>1 DEF Unsafe
    <3>2. CASE State(q) \notin Unsafe
      BY <1>1, <1>2, <3>2, PlannedTyped DEF Keeps
    <3> QED BY <3>1, <3>2
  <2> QED BY <1>1, <2>1, AskedKept
<1> QED BY <1>1, <1>3, <1>4, SameStanding, Abandons

\* What administrators do, the service sees as the work of others; an empty
\* directory it does not see.
LEMMA AdminServes ==
    ASSUME RInv, Admin
    PROVE  \/ UNCHANGED Mapped
           \/ \E r \in Roots : Service!OthersPlace(r)
           \/ \E n \in Names : Service!OthersDomain(n)
<1>1. UNCHANGED <<ops, task>> /\ TypeOK
  BY DEF Admin, AdminMakesDir, AdminDefines, AdminUndefines, AdminStarts, Register, loop, RInv
<1>2. UNCHANGED <<Reached, Asked>>
  BY <1>1 DEF Reached, Asked, State, Doing, Request
<1>3. CASE \E n \in Names : Register(n)
  <2>1. UNCHANGED <<target, domains>>
    BY <1>3 DEF Register
  <2> QED BY <1>2, <2>1, SameStanding DEF Mapped
<1>4. CASE \E n \in Names : AdminDefines(n) \/ AdminUndefines(n) \/ AdminStarts(n)
  <2>1. PICK n \in Names : AdminDefines(n) \/ AdminUndefines(n) \/ AdminStarts(n)
    BY <1>4
  <2>2. UNCHANGED target
    BY <2>1 DEF AdminDefines, AdminUndefines, AdminStarts
  <2>3. \/ domains' = [domains EXCEPT ![n] = NoDomain]
        \/ domains[n] = NoDomain /\ domains' = [domains EXCEPT ![n] = Service!Own(Foreign, FALSE)]
        \/ domains[n] # NoDomain /\ domains' = [domains EXCEPT ![n].running = TRUE]
    BY <2>1 DEF AdminDefines, AdminUndefines, AdminStarts, Service!Own
  <2>4. Service!OthersDomain(n)
    BY <1>2, <2>2, <2>3, SameStanding DEF Service!OthersDomain
  <2> QED BY <2>4
<1>5. CASE \E r \in Roots : AdminMakesDir(r)
  <2>1. PICK r \in Roots : AdminMakesDir(r)
    BY <1>5
  <2>2. PICK i \in {NoImages, [d \in Disks |-> {}]} :
           target' = [target EXCEPT ![r] = [owner |-> Foreign, images |-> i]]
    BY <2>1 DEF AdminMakesDir
  <2>3. target[r] = NoDir /\ UNCHANGED domains
    BY <2>1 DEF AdminMakesDir, outside
  <2>4. PICK made : made = [owner |-> Foreign, images |-> i]
    OBVIOUS
  <2>5. \A q \in Roots : target'[q] = IF q = r THEN made ELSE target[q]
    BY <1>1, <2>2, <2>4 DEF TypeOK
  <2>6. CASE i = NoImages
    <3>1. \A q \in Roots : Standing'[q] = Standing[q]
      BY <2>3, <2>4, <2>5, <2>6 DEF Standing, Replaceable, NoImages
    <3>2. UNCHANGED Standing
      BY <3>1 DEF Standing
    <3> QED BY <1>2, <2>3, <3>2 DEF Mapped
  <2>7. CASE i # NoImages
    <3>1. made # NoDir /\ made.owner = Foreign /\ made.images # NoImages
      <4>1. i \in Images
        BY DEF Images, NoImages
      <4> QED BY <2>4, <2>7, <4>1, NothingApart DEF Directories
    <3>2. \A q \in Roots : Standing'[q] = IF q = r THEN Foreign ELSE Standing[q]
      BY <2>5, <3>1 DEF Standing, Replaceable, NoImages
    <3>3. Standing[r] = NoDomain /\ Standing' = [Standing EXCEPT ![r] = Foreign]
      BY <2>3, <3>2 DEF Standing, Replaceable
    <3>4. Service!OthersPlace(r)
      BY <1>2, <2>3, <3>3 DEF Service!OthersPlace
    <3> QED BY <3>4
  <2> QED BY <2>6, <2>7
<1> QED BY <1>3, <1>4, <1>5 DEF Admin

-----------------------------------------------------------------------------
LEMMA InitServes == Init => Service!Init
<1> SUFFICES ASSUME Init PROVE Service!Init
  OBVIOUS
<1>1. \A o \in Ops : Reach(o) = "none" /\ State(o) = "ABSENT"
  BY EffectTable DEF Init, State, Reach
<1>2. \A r \in Roots : Replaceable(r)
  BY DEF Init, Replaceable
<1> QED BY <1>1, <1>2 DEF Init, Service!Init, Reached, Reach, Asked, Standing

LEMMA StepServes ==
    ASSUME RInv, Wanted, Running, [Next]_vars
    PROVE  Service!Next \/ UNCHANGED Mapped
<1>1. CASE \E o \in Ops : Create(o)
  BY <1>1, CreateServes DEF Service!Next
<1>2. CASE Refused \/ CallFails \/ Restart
  BY <1>2, RefusedServes, RestartServes DEF Service!Next
<1>3. CASE \E o \in Ops : Visit(o)
  BY <1>3, VisitServes
<1>4. CASE Replace \/ Define \/ Start \/ Finish
  BY <1>4, ReplaceServes, DomainServes, FinishServes DEF Service!Next
<1>5. CASE Verify \/ GrantAccess \/ RegisterReady \/ MarkStarting
  BY <1>5, MarkServes
<1>6. CASE (\E d \in Disks : Flatten(d)) \/ RewriteDomain
  BY <1>6, StageServes
<1>7. CASE Admin
  BY <1>7, AdminServes DEF Service!Next
<1>8. CASE \/ List \/ Unlink \/ DeleteFails \/ Tick \/ EndTick \/ LocalTick \/ UNCHANGED vars
           \/ (\E p \in Points : StartDelete(p) \/ Publish(p)) \/ (\E f \in Pieces : RemovePiece(f))
  <2>1. UNCHANGED <<ops, task, target, domains>>
    BY <1>8 DEF List, Unlink, DeleteFails, Tick, EndTick, LocalTick, StartDelete, Publish, RemovePiece,
           vars, outside, loop
  <2> QED BY <2>1 DEF Mapped, Reached, Asked, Standing, Replaceable, State, Doing, Request
<1> QED BY <1>1, <1>2, <1>3, <1>4, <1>5, <1>6, <1>7, <1>8
        DEF Next, Api, Runtime, Advance, Refused

\* The restore of a received point keeps the promise of both restores: each
\* effect at most once, in order, where nobody stands and under a free name, and
\* success after the last one, whatever is refused, fails, is deleted or killed.
THEOREM ReceivedRestoreServes == Spec => ImplementsService
<1>1. Init => Service!Init
  BY InitServes
<1>2. Init => Wanted /\ Running
  BY IdleTyped DEF Init, Wanted, Running, State
<1>3. RInv /\ Wanted /\ Running /\ [Next]_vars => Wanted' /\ Running'
  BY WantedStep, RunningStep
<1>4. RInv /\ Wanted /\ Running /\ [Next]_vars => [Service!Next]_(Service!serviceVars)
  BY StepServes DEF Mapped, Service!serviceVars
<1> QED BY <1>1, <1>2, <1>3, <1>4, RInvAlways, PTL DEF Spec, ImplementsService, Service!Spec, Service!serviceVars
=============================================================================
