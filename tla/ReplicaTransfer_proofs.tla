----------------------- MODULE ReplicaTransfer_proofs -----------------------
(***************************************************************************)
(* Theorems about the transfer of a bundle, for any files and contents,    *)
(* seeds, transfer ids, attempts, rewrites and sizes of the pipes.         *)
(*                                                                         *)
(* TInv follows the bundle of a snapshot on its way.  A plan of the sender *)
(* fits the snapshot as long as the version of the file is the one that    *)
(* was inspected (PlanSound); what a file holds on the receiver before it  *)
(* is sent fits the plan (BaseSound); and applying the rest of a stream    *)
(* makes the file the one of the snapshot (StreamSound), which no longer   *)
(* depends on the sender when the end of the file, sent after the version  *)
(* has been checked again, is in the pipe.  So a session whose sender has  *)
(* given up may go on with what is left.                                   *)
(***************************************************************************)
EXTENDS ReplicaTransfer, FiniteSetTheorems, SequenceTheorems, WellFoundedInduction, TLAPS

\* Types.
AnyCells == (UNION {Contents[f] : f \in Files}) \cup {Absent}
Bundles  == {b \in [Files -> AnyCells] : \A f \in Files : b[f] \in Contents[f] \cup {Absent}}
Plans    == {p \in [Files -> [extents : SUBSET Nat, holes : SUBSET Nat, version : 0 .. MaxWrites]] :
                 \A f \in Files : p[f] \in PlanFile(f)}
Sourced  == {s \in [Files -> [cells : AnyCells, version : 0 .. MaxWrites]] :
                 \A f \in Files : s[f].cells \in Contents[f]}
Senders  == [pc : SenderPcs, id : Ids \cup {0}, attempt : 0 .. MaxAttempts, todo : Seq(Files),
             plan : Plans, delta : Plans, cells : SUBSET Nat, seeded : BOOLEAN]
Records  == [op : {"BEGIN"}, id : Ids, seeded : BOOLEAN, payload : [Files -> Nat]]
            \cup [op : {"FILE_BEGIN", "FILE_END"}, file : Files]
            \cup [op : {"EXTENT"}, cell : Nat, value : Values]
            \cup [op : {"HOLE"}, cell : Nat]
            \cup [op : {"FINISH"}]
Statuses == {"READY", "FILE_READY", "FILE_COMPLETE", "STAGING_COMPLETE", "ERROR"}
Sessions == [pc : {"none", "begin", "clone", "loop", "receipt", "ended"}, id : Ids \cup {0},
             seeded : BOOLEAN, payload : [Files -> Nat], current : Files \cup {"none"},
             got : SUBSET Nat, completed : SUBSET Files, error : Errors]
Stagings == [state : {"NONE", "MADE", "RECEIVING", "COMPLETE"}, files : Bundles]

SenderTyped  == sender \in Senders /\ (sender.pc \notin {"idle", "done"} => sender.id \in Ids /\ sender.attempt \in Attempts)
PipeTyped    == /\ pipe \in [Attempts -> Seq(Records)]
                /\ \A a \in Attempts : Len(pipe[a]) <= MaxInFlight
SessionTyped == session \in [Attempts -> Sessions] /\ \A a \in Attempts : Live(a) => session[a].id \in Ids
StoreTyped   == /\ source \in Sourced /\ gone \in BOOLEAN /\ seed \in Seeds \cup {NoSeed}
                /\ snapshot \in [Ids -> Bundles] /\ staging \in [Ids -> Stagings]

Typed ==
    /\ SenderTyped /\ PipeTyped /\ SessionTyped /\ StoreTyped
    /\ answers \in [Attempts -> Seq(Statuses)]
    /\ linked \subseteq Attempts

-----------------------------------------------------------------------------
LEMMA Sizes ==
    /\ Files # {} /\ "none" \notin Files /\ Disks \subseteq Files
    /\ Order \in Seq(Files)
    /\ MaxWrites \in Nat /\ MaxAttempts \in Nat /\ MaxId \in Nat /\ MaxInFlight \in Nat \ {0}
    /\ Hole \in Values /\ MaxValue \in Nat
BY TransferAssumption DEF Disks, Values, Hole

LEMMA ContentsTyped ==
    ASSUME NEW f \in Files
    PROVE  /\ Contents[f] = [CellsOf(f) -> Values]
           /\ CellsOf(f) # {} /\ CellsOf(f) \subseteq Nat
           /\ Absent \notin Contents[f]
<1>1. Contents[f] = [CellsOf(f) -> Values]
  BY DEF Contents
<1>2. Size[f] \in Nat \ {0}
  BY TransferAssumption
<1>3. 1 \in CellsOf(f) /\ CellsOf(f) \subseteq Nat
  BY <1>2 DEF CellsOf
<1>4. DOMAIN Absent = {}
  BY DEF Absent
<1> QED BY <1>1, <1>3, <1>4

LEMMA BundleTyped ==
    /\ \A b \in Bundles : DOMAIN b = Files /\ \A f \in Files : b[f] \in Contents[f] \cup {Absent}
    /\ \A b \in Bundles, f \in Files : \A v \in Contents[f] \cup {Absent} : [b EXCEPT ![f] = v] \in Bundles
    /\ \A b : /\ b = [f \in Files |-> b[f]]
              /\ \A f \in Files : b[f] \in Contents[f] \cup {Absent}
              => b \in Bundles
    /\ NoStaging.files \in Bundles /\ NoStaging \in Stagings
<1>0. \A f \in Files : Contents[f] \subseteq AnyCells /\ Absent \in AnyCells
  BY DEF AnyCells
<1>1. \A b : /\ b = [f \in Files |-> b[f]]
             /\ \A f \in Files : b[f] \in Contents[f] \cup {Absent}
             => b \in Bundles
  BY <1>0 DEF Bundles
<1>2. \A b \in Bundles : DOMAIN b = Files /\ b = [f \in Files |-> b[f]] /\ \A f \in Files : b[f] \in Contents[f] \cup {Absent}
  BY DEF Bundles
<1>3. ASSUME NEW b \in Bundles, NEW f \in Files, NEW v \in Contents[f] \cup {Absent}
      PROVE  [b EXCEPT ![f] = v] \in Bundles
  BY <1>0, <1>2 DEF Bundles
<1>4. NoStaging.files \in Bundles
  <2> DEFINE n == [f \in Files |-> Absent]
  <2>1. n = [f \in Files |-> n[f]] /\ \A f \in Files : n[f] \in Contents[f] \cup {Absent}
    OBVIOUS
  <2>2. n \in Bundles
    BY <2>1, <1>1
  <2> QED BY <2>2 DEF NoStaging
<1>5. NoStaging \in Stagings
  BY <1>4 DEF NoStaging, Stagings
<1> QED BY <1>1, <1>2, <1>3, <1>4, <1>5

LEMMA PlanTyped ==
    /\ \A p \in Plans : DOMAIN p = Files /\ \A f \in Files :
          /\ p[f].extents \subseteq CellsOf(f) /\ p[f].holes \subseteq CellsOf(f)
          /\ p[f].version \in 0 .. MaxWrites /\ p[f] \in PlanFile(f)
    /\ \A p \in Plans, f \in Files : \A q \in PlanFile(f) : [p EXCEPT ![f] = q] \in Plans
    /\ NoPlan \in Plans
<1>0. \A f \in Files : \A q \in PlanFile(f) :
          /\ q.extents \subseteq CellsOf(f) /\ q.holes \subseteq CellsOf(f) /\ q.version \in 0 .. MaxWrites
          /\ q \in [extents : SUBSET Nat, holes : SUBSET Nat, version : 0 .. MaxWrites]
  <2> TAKE f \in Files
  <2> TAKE q \in PlanFile(f)
  <2>1. CellsOf(f) \subseteq Nat
    BY ContentsTyped
  <2> QED BY <2>1 DEF PlanFile
<1>1. \A p \in Plans : DOMAIN p = Files /\ \A f \in Files : p[f] \in PlanFile(f)
  BY DEF Plans
<1>2. ASSUME NEW p \in Plans, NEW f \in Files, NEW q \in PlanFile(f)
      PROVE  [p EXCEPT ![f] = q] \in Plans
  BY <1>0, <1>1 DEF Plans
<1>3. NoPlan \in Plans
  <2>1. \A f \in Files : NoPlanFile \in PlanFile(f)
    BY Sizes DEF NoPlanFile, PlanFile
  <2>2. \A f \in Files : NoPlan[f] = NoPlanFile
    BY DEF NoPlan
  <2>3. NoPlan \in [Files -> [extents : SUBSET Nat, holes : SUBSET Nat, version : 0 .. MaxWrites]]
    BY <2>1, <1>0 DEF NoPlan
  <2> QED BY <2>1, <2>2, <2>3 DEF Plans
<1> QED BY <1>0, <1>1, <1>2, <1>3

LEMMA SourceTyped ==
    /\ \A s \in Sourced : DOMAIN s = Files /\ \A f \in Files :
          /\ s[f].cells \in Contents[f] /\ s[f].version \in 0 .. MaxWrites
          /\ s[f] = [cells |-> s[f].cells, version |-> s[f].version]
    /\ \A s \in Sourced, f \in Files : \A x \in Contents[f], v \in 0 .. MaxWrites :
          [s EXCEPT ![f] = [cells |-> x, version |-> v]] \in Sourced
<1>0. \A f \in Files : Contents[f] \subseteq AnyCells
  BY DEF AnyCells
<1>1. \A s \in Sourced : DOMAIN s = Files /\ \A f \in Files :
          /\ s[f].cells \in Contents[f] /\ s[f].version \in 0 .. MaxWrites
          /\ s[f] = [cells |-> s[f].cells, version |-> s[f].version]
  BY DEF Sourced
<1>2. ASSUME NEW s \in Sourced, NEW f \in Files, NEW x \in Contents[f], NEW v \in 0 .. MaxWrites
      PROVE  [s EXCEPT ![f] = [cells |-> x, version |-> v]] \in Sourced
  <2> DEFINE t == [s EXCEPT ![f] = [cells |-> x, version |-> v]]
  <2>1. t \in [Files -> [cells : AnyCells, version : 0 .. MaxWrites]]
    BY <1>0 DEF Sourced
  <2>2. \A g \in Files : t[g].cells \in Contents[g]
    BY <1>1
  <2> QED BY <2>1, <2>2 DEF Sourced
<1> QED BY <1>1, <1>2

LEMMA SeedTyped == \A b \in Seeds, f \in Disks : b[f] \in Contents[f]
BY TransferAssumption, Sizes, ContentsTyped DEF Values

LEMMA SessionConstants ==
    /\ Session \in Sessions /\ Session.pc = "none" /\ Session.id = 0 /\ Session.current = "none"
    /\ Idle \in Senders /\ Idle.pc = "idle" /\ Idle.todo = <<>> /\ ~Idle.seeded /\ Idle.plan = NoPlan
BY PlanTyped, Sizes DEF Session, Sessions, Errors, Idle, Senders, SenderPcs

\* The first cell of a set of cells is one of them.
LEMMA FirstIsIn ==
    ASSUME NEW cells \in SUBSET Nat, cells # {}
    PROVE  FirstOf(cells) \in cells
<1>1. \E c \in cells : \A e \in cells : ~(<<e, c>> \in OpToRel(<, Nat))
  BY WFMin, NatLessThanWellFounded, Zenon
<1>2. \A e, c : e \in Nat /\ c \in Nat /\ e < c => <<e, c>> \in OpToRel(<, Nat)
  BY Zenon DEF OpToRel
<1>3. \A c \in cells : c \in Nat
  OBVIOUS
<1>4. \E c \in cells : \A e \in cells : ~(e < c)
  BY <1>1, <1>2, <1>3, Zenon
<1>5. \E c \in cells : \A e \in cells : c <= e
  BY <1>3, <1>4
<1> QED BY <1>5, Zenon DEF FirstOf

-----------------------------------------------------------------------------
(* The invariant.                                                          *)

\* The elements of a sequence; all but the last record of a pipe carry cells.
Elems(s) == {s[i] : i \in 1 .. Len(s)}
CellOps  == {"EXTENT", "HOLE"}
Shape(s) == \A i \in 1 .. Len(s) : i # Len(s) => s[i].op \in CellOps

\* The sender prepares an attempt, and sends its files.
Preparing == {"inspect", "seed", "compare", "compared", "begin"}
Sending   == {"ready", "file", "open", "data", "holes", "close"}
Inspected == sender.pc \in (Preparing \ {"inspect"}) \cup Sending

Fresh(f) == source[f].version = sender.plan[f].version

SenderSound ==
    /\ sender.pc \in {"open", "data", "holes", "close"} => sender.todo # <<>>
    /\ sender.pc = "data" => sender.cells \subseteq sender.plan[File].extents
    /\ sender.pc = "holes" => sender.cells \subseteq sender.plan[File].holes
    /\ sender.pc \in Preparing \ {"begin"} => ~sender.seeded
    /\ \A f \in Files : sender.plan[f].version <= source[f].version
    /\ sender.pc = "compare" => \A f \in Files : sender.delta[f].version = sender.plan[f].version

\* What a plan leaves out is in the base it is applied to: nothing, or the seed.
FullPlan(f, p, cells)    == p.extents = {c \in CellsOf(f) : cells[c] # Hole} /\ p.holes = {}
LeftOut(f, p)            == CellsOf(f) \ (p.extents \cup p.holes)
Agree(f, p, base, cells) == \A c \in LeftOut(f, p) : base[c] = cells[c]
DeltaPlan(f, p, cells) ==
    /\ \A c \in p.holes : cells[c] = Hole
    /\ seed # NoSeed => Agree(f, p, seed[f], cells)
PlanFits(f, p, cells) ==
    IF sender.seeded /\ f \in Disks THEN DeltaPlan(f, p, cells) ELSE FullPlan(f, p, cells)

\* The bundle of the current attempt, when no other attempt stages it.
Target == snapshot[sender.id]
Mine   == staging[sender.id].state = "NONE" \/ Live(Attempt)

PlanSound ==
    /\ sender.pc = "inspect" => \A f \in Files \ Elems(sender.todo) :
           Fresh(f) => FullPlan(f, sender.plan[f], source[f].cells)
    /\ Inspected /\ Mine => \A f \in Files :
           Fresh(f) => source[f].cells = Target[f] /\ PlanFits(f, sender.plan[f], Target[f])
    /\ sender.pc = "compare" /\ Mine => \A f \in Files \ Elems(sender.todo) :
           Fresh(f) => IF f \in Disks THEN DeltaPlan(f, sender.delta[f], Target[f])
                       ELSE FullPlan(f, sender.delta[f], Target[f])

Ops(a)   == {m.op : m \in Elems(pipe[a])}
Quiet(a) == pipe[a] = <<>> /\ answers[a] = <<>>

\* What is in a pipe that a session still reads.
PipeSound(a) ==
    /\ session[a].pc \in {"begin", "loop"} => Shape(pipe[a])
    /\ session[a].pc = "begin" => Ops(a) \subseteq {"BEGIN"}
    /\ session[a].pc = "clone" => pipe[a] = <<>>

Sealed(a) == "FILE_END" \in Ops(a)

\* Where the session is when the sender waits for it or sends to it.
Handshake(a) ==
    LET s == session[a] IN
    /\ s.pc = "begin" =>
          /\ sender.pc = "ready" /\ answers[a] = <<>> /\ pipe[a] # <<>>
          /\ Head(pipe[a]).id = sender.id /\ Head(pipe[a]).seeded = sender.seeded
    /\ s.pc = "clone" => sender.pc = "ready" /\ answers[a] = <<>>
    /\ s.pc = "loop" =>
          /\ sender.pc = "ready" => pipe[a] = <<>> /\ answers[a] = <<"READY">> /\ s.current = "none"
          /\ sender.pc = "file" => Quiet(a) /\ s.current = "none"
          /\ sender.pc = "open" =>
                \/ /\ answers[a] = <<>> /\ s.current = "none" /\ pipe[a] # <<>>
                   /\ Head(pipe[a]).op = "FILE_BEGIN" /\ Head(pipe[a]).file = File
                \/ pipe[a] = <<>> /\ answers[a] = <<"FILE_READY">> /\ s.current = File
          /\ sender.pc \in {"data", "holes"} =>
                answers[a] = <<>> /\ s.current = File /\ Ops(a) \subseteq CellOps
          /\ sender.pc = "close" =>
                \/ Sealed(a) /\ answers[a] = <<>>
                \/ pipe[a] = <<>> /\ answers[a] = <<"FILE_COMPLETE">> /\ s.current = "none"

AttemptSound ==
    /\ \A a \in Attempts :
          a > sender.attempt \/ (a = sender.attempt /\ sender.pc \in Preparing) =>
              session[a] = Session /\ Quiet(a)
    /\ sender.pc \in Sending /\ (Live(Attempt) \/ session[Attempt].pc = "begin") =>
          /\ Attempt \in linked
          /\ Handshake(Attempt)
    /\ sender.pc \in Sending /\ Live(Attempt) =>
          session[Attempt].id = sender.id /\ session[Attempt].seeded = sender.seeded

StagedFiles(a) == Staged(a).files
Taken(t)  == \A f \in Files : snapshot[t][f] \in Contents[f]

SessionSound(a) ==
    LET s == session[a] IN
    Live(a) =>
        /\ Staged(a).state = IF s.pc = "clone" THEN "MADE" ELSE "RECEIVING"
        /\ s.current \notin s.completed
        /\ s.current # "none" => StagedFiles(a)[s.current] # Absent
        /\ s.pc = "clone" => s.current = "none" /\ s.completed = {}
        /\ s.pc = "receipt" => s.completed = Files
        /\ \A f \in s.completed : StagedFiles(a)[f] = snapshot[s.id][f]
        /\ \A b \in Attempts : Live(b) /\ session[b].id = s.id => a = b

\* A staging is of a snapshot, and begins with nothing.
StageSound ==
    /\ \A t \in Ids : IF staging[t].state = "NONE" THEN \A f \in Files : staging[t].files[f] = Absent
                      ELSE Taken(t)
    /\ Inspected => Taken(sender.id)
    /\ \A a \in Attempts : session[a].pc = "begin" /\ pipe[a] # <<>> => Taken(Head(pipe[a]).id)
    /\ StagedIsSnapshot

\* What a file holds before the plan is applied to it.
BaseFits(f) == Fresh(f) => Agree(f, sender.plan[f], StagedFiles(Attempt)[f], Target[f])

BaseSound ==
    LET s == session[Attempt] IN
    sender.pc \in Sending /\ Live(Attempt) =>
        /\ \A f \in Disks \ s.completed :
              f # s.current /\ s.seeded /\ StagedFiles(Attempt)[f] # Absent => BaseFits(f)
        /\ sender.pc = "open" /\ s.current = File => BaseFits(File)

\* The file in work will be that of the snapshot, whoever looks: the sender, as
\* long as its version is the inspected one, or anybody when its end is sent.
Streaming(a) == a = Attempt /\ sender.pc \in {"data", "holes"} /\ Fresh(File)
ToSend == IF sender.pc = "data" THEN sender.cells \cup sender.plan[File].holes ELSE sender.cells
Right(m, cells) ==
    /\ m.op = "EXTENT" => m.value = cells[m.cell]
    /\ m.op = "HOLE" => cells[m.cell] = Hole
Carries(a, c) == \E m \in Elems(pipe[a]) : m.op \in CellOps /\ m.cell = c

StreamSound(a) ==
    LET f     == session[a].current
        cells == snapshot[session[a].id][f]
    IN /\ session[a].pc = "loop" /\ f # "none"
       /\ Sealed(a) \/ Streaming(a)
       => /\ \A m \in Elems(pipe[a]) : Right(m, cells)
          /\ \A c \in CellsOf(f) : \/ StagedFiles(a)[f][c] = cells[c]
                                   \/ Carries(a, c)
                                   \/ Streaming(a) /\ c \in ToSend

TInv ==
    /\ Typed
    /\ SenderSound /\ PlanSound /\ AttemptSound /\ StageSound /\ BaseSound
    /\ \A a \in Attempts : PipeSound(a) /\ SessionSound(a) /\ StreamSound(a)

-----------------------------------------------------------------------------
(* Sequences.                                                              *)

LEMMA HeadElement ==
    ASSUME NEW S, NEW s \in Seq(S), s # <<>>
    PROVE  /\ Len(s) \in Nat \ {0} /\ Head(s) = s[1] /\ Head(s) \in S
           /\ Tail(s) \in Seq(S) /\ Len(Tail(s)) = Len(s) - 1
           /\ \A i \in 1 .. Len(s) - 1 : Tail(s)[i] = s[i + 1]
           /\ Elems(s) = {Head(s)} \cup Elems(Tail(s))
<1>1. Len(s) \in Nat \ {0} /\ Head(s) = s[1]
  BY EmptySeq
<1>2. /\ Head(s) \in S /\ Tail(s) \in Seq(S) /\ Len(Tail(s)) = Len(s) - 1
      /\ \A i \in 1 .. Len(s) - 1 : Tail(s)[i] = s[i + 1]
  BY HeadTailProperties
<1>3. ASSUME NEW e \in Elems(s) PROVE e \in {Head(s)} \cup Elems(Tail(s))
  <2>1. PICK i \in 1 .. Len(s) : e = s[i]
    BY DEF Elems
  <2>2. CASE i = 1
    BY <2>1, <2>2, <1>1
  <2>3. CASE i # 1
    <3>1. i - 1 \in 1 .. Len(Tail(s)) /\ Tail(s)[i - 1] = s[i]
      BY <2>3, <1>1, <1>2
    <3> QED BY <3>1, <2>1 DEF Elems
  <2> QED BY <2>2, <2>3
<1>4. ASSUME NEW e \in Elems(Tail(s)) PROVE e \in Elems(s)
  <2>1. PICK i \in 1 .. Len(Tail(s)) : e = Tail(s)[i]
    BY DEF Elems
  <2>2. i + 1 \in 1 .. Len(s) /\ s[i + 1] = e
    BY <2>1, <1>1, <1>2
  <2> QED BY <2>2 DEF Elems
<1>5. Head(s) \in Elems(s)
  BY <1>1 DEF Elems
<1> QED BY <1>1, <1>2, <1>3, <1>4, <1>5

LEMMA NoElement ==
    /\ Elems(<<>>) = {} /\ \A S : <<>> \in Seq(S)
    /\ \A S : \A s \in Seq(S) : Elems(s) \subseteq S /\ (Elems(s) = {} <=> s = <<>>)
<1>1. Elems(<<>>) = {} /\ \A S : <<>> \in Seq(S)
  BY DEF Elems
<1>2. ASSUME NEW S, NEW s \in Seq(S)
      PROVE  Elems(s) \subseteq S /\ (Elems(s) = {} <=> s = <<>>)
  <2>1. Elems(s) \subseteq S
    BY ElementOfSeq DEF Elems
  <2>2. s # <<>> => Head(s) \in Elems(s)
    BY HeadElement
  <2> QED BY <2>1, <2>2, <1>1
<1> QED BY <1>1, <1>2

LEMMA LastElement ==
    ASSUME NEW S, NEW s \in Seq(S), NEW e \in S
    PROVE  /\ Append(s, e) \in Seq(S) /\ Append(s, e) # <<>>
           /\ Len(s) \in Nat /\ Len(Append(s, e)) = Len(s) + 1
           /\ Elems(Append(s, e)) = Elems(s) \cup {e}
           /\ s = <<>> => Head(Append(s, e)) = e /\ Append(s, e) = <<e>>
           /\ (\A m \in Elems(s) : m.op \in CellOps) => Shape(Append(s, e))
<1>1. /\ Append(s, e) \in Seq(S) /\ Append(s, e) # <<>>
      /\ Len(s) \in Nat /\ Len(Append(s, e)) = Len(s) + 1
      /\ \A i \in 1 .. Len(s) : Append(s, e)[i] = s[i]
      /\ Append(s, e)[Len(s) + 1] = e
  BY AppendProperties, LenProperties
<1>2. Elems(Append(s, e)) = Elems(s) \cup {e}
  <2>1. ASSUME NEW x \in Elems(Append(s, e)) PROVE x \in Elems(s) \cup {e}
    <3>1. PICK i \in 1 .. Len(s) + 1 : x = Append(s, e)[i]
      BY <1>1 DEF Elems
    <3>2. i \in 1 .. Len(s) \/ i = Len(s) + 1
      BY <1>1
    <3> QED BY <3>1, <3>2, <1>1 DEF Elems
  <2>2. ASSUME NEW x \in Elems(s) PROVE x \in Elems(Append(s, e))
    <3>1. PICK i \in 1 .. Len(s) : x = s[i]
      BY DEF Elems
    <3>2. i \in 1 .. Len(Append(s, e)) /\ Append(s, e)[i] = x
      BY <1>1, <3>1
    <3> QED BY <3>2 DEF Elems
  <2>3. e \in Elems(Append(s, e))
    <3>1. Len(s) + 1 \in 1 .. Len(Append(s, e))
      BY <1>1
    <3> QED BY <3>1, <1>1 DEF Elems
  <2> QED BY <2>1, <2>2, <2>3
<1>3. ASSUME s = <<>> PROVE Head(Append(s, e)) = e /\ Append(s, e) = <<e>>
  BY <1>3
<1>4. (\A m \in Elems(s) : m.op \in CellOps) => Shape(Append(s, e))
  <2> SUFFICES ASSUME \A m \in Elems(s) : m.op \in CellOps,
                      NEW i \in 1 .. Len(Append(s, e)), i # Len(Append(s, e))
               PROVE  Append(s, e)[i].op \in CellOps
    BY DEF Shape
  <2>1. i \in 1 .. Len(s)
    BY <1>1
  <2>2. Append(s, e)[i] \in Elems(s)
    BY <1>1, <2>1 DEF Elems
  <2> QED BY <2>2
<1> QED BY <1>1, <1>2, <1>3, <1>4

LEMMA ShapeTail ==
    ASSUME NEW S, NEW s \in Seq(S), s # <<>>
    PROVE  Shape(s) => /\ Shape(Tail(s))
                       /\ Head(s).op \notin CellOps => Tail(s) = <<>>
<1> DEFINE n == Len(s)
           t == Tail(s)
<1>1. n \in Nat \ {0} /\ t \in Seq(S) /\ Len(t) = n - 1 /\ Head(s) = s[1]
  BY HeadElement
<1>2. \A i \in 1 .. n - 1 : t[i] = s[i + 1]
  BY HeadElement
<1>3. (\A i \in 1 .. n : i # n => s[i].op \in CellOps)
      => \A i \in 1 .. n - 1 : i # n - 1 => t[i].op \in CellOps
  <2> HIDE DEF n, t
  <2> SUFFICES ASSUME \A i \in 1 .. n : i # n => s[i].op \in CellOps,
                      NEW i \in 1 .. n - 1, i # n - 1
               PROVE  t[i].op \in CellOps
    OBVIOUS
  <2>1. i + 1 \in 1 .. n /\ i + 1 # n
    BY <1>1
  <2>2. s[i + 1].op \in CellOps /\ t[i] = s[i + 1]
    BY <2>1, <1>2
  <2> QED BY <2>2
<1>4. (\A i \in 1 .. n : i # n => s[i].op \in CellOps) /\ s[1].op \notin CellOps => n = 1
  <2> HIDE DEF n, t
  <2> QED BY <1>1
<1>5. n = 1 => t = <<>>
  <2>1. t # <<>> => Len(t) \in Nat \ {0}
    BY <1>1, EmptySeq
  <2> HIDE DEF n, t
  <2> QED BY <1>1, <2>1
<1> QED BY <1>1, <1>3, <1>4, <1>5 DEF Shape

\* What is left of a pipe when ssh is killed; with the last record it is the whole.
LEMMA ShapeCut ==
    ASSUME NEW S, NEW s \in Seq(S), NEW n \in 0 .. Len(s)
    PROVE  /\ SubSeq(s, 1, n) \in Seq(S)
           /\ Len(SubSeq(s, 1, n)) <= Len(s)
           /\ Elems(SubSeq(s, 1, n)) \subseteq Elems(s)
           /\ SubSeq(s, 1, n) # <<>> => s # <<>> /\ Head(SubSeq(s, 1, n)) = Head(s)
           /\ Shape(s) => /\ Shape(SubSeq(s, 1, n))
                          /\ \A m \in Elems(SubSeq(s, 1, n)) :
                                m.op \notin CellOps => SubSeq(s, 1, n) = s
<1> DEFINE t == SubSeq(s, 1, n)
<1>1. Len(s) \in Nat /\ n \in Nat /\ n <= Len(s)
  BY LenProperties
<1>2. /\ t \in Seq(S) /\ Len(t) = n
      /\ \A i \in 1 .. n : t[i] = s[i]
  <2>1. \A i \in 1 .. n : s[i] \in S
    BY <1>1, ElementOfSeq
  <2> QED BY <2>1, <1>1, SubSeqProperties
<1> HIDE DEF t
<1>3. Elems(t) \subseteq Elems(s)
  BY <1>1, <1>2 DEF Elems
<1>4. t # <<>> => s # <<>> /\ Head(t) = Head(s)
  <2> SUFFICES ASSUME t # <<>> PROVE s # <<>> /\ Head(t) = Head(s)
    OBVIOUS
  <2>1. n > 0 /\ Head(t) = t[1]
    BY <1>2, HeadElement
  <2>2. s # <<>>
    BY <2>1, <1>1
  <2>3. Head(s) = s[1]
    BY <2>2, HeadElement
  <2> QED BY <2>1, <2>2, <2>3, <1>1, <1>2
<1>5. ASSUME Shape(s)
      PROVE  Shape(t) /\ \A m \in Elems(t) : m.op \notin CellOps => t = s
  <2>1. Shape(t)
    BY <1>5, <1>1, <1>2 DEF Shape
  <2>2. ASSUME NEW m \in Elems(t), m.op \notin CellOps PROVE t = s
    <3>1. PICK i \in 1 .. n : m = t[i]
      BY <1>2 DEF Elems
    <3>2. i = Len(s)
      BY <3>1, <2>2, <1>1, <1>2, <1>5 DEF Shape
    <3>3. Len(t) = Len(s) /\ \A k \in 1 .. Len(t) : t[k] = s[k]
      BY <3>2, <1>1, <1>2
    <3> QED BY <3>3, <1>2, SeqEqual
  <2> QED BY <2>1, <2>2
<1> QED BY <1>1, <1>2, <1>3, <1>4, <1>5 DEF t

-----------------------------------------------------------------------------
(* What a step of a session is, when its checks pass.  Everything else it  *)
(* may do ends it.                                                         *)
Aborted(a) ==
    /\ session[a].pc # "none" /\ session'[a].pc = "ended"
    /\ session' \in [Attempts -> Sessions] /\ pipe' \in [Attempts -> Seq(Records)]
    /\ answers' \in [Attempts -> Seq(Statuses)] /\ Len(pipe'[a]) <= MaxInFlight
    /\ \A b \in Attempts \ {a} :
          /\ session'[b] = session[b] /\ pipe'[b] = pipe[b] /\ answers'[b] = answers[b]
          /\ b \in linked => b \in linked'
    /\ linked' \subseteq linked
    /\ UNCHANGED <<source, gone, seed, sender, snapshot, staging>>

Begun(a) ==
    /\ Reads(a, "begin", "BEGIN") /\ MakeStaging(a, Record(a))
    /\ UNCHANGED receiverOnly

Cloned(a, f) ==
    /\ session[a].pc = "clone" /\ f \in Unseeded(a) /\ seed # NoSeed
    /\ SetFile(a, f, seed[f])
    /\ UNCHANGED <<session, answers, pipe, receiverOnly>>

Opened(a, f) ==
    LET s == session[a]
        seeded == s.seeded /\ f \in Disks
    IN /\ Reads(a, "loop", "FILE_BEGIN") /\ f = Record(a).file
       /\ s.current = "none" /\ f \notin s.completed
       /\ seeded => StagedFiles(a)[f] # Absent
       /\ Becomes(a, [s EXCEPT !.current = f, !.got = {}])
       /\ SetFile(a, f, IF seeded THEN StagedFiles(a)[f] ELSE [c \in CellsOf(f) |-> Hole])
       /\ Consume(a) /\ Answer(a, "FILE_READY")
       /\ UNCHANGED receiverOnly

Written(a, f, c) ==
    /\ Reads(a, "loop", "EXTENT") /\ c = Record(a).cell
    /\ f = session[a].current /\ f # "none" /\ c \in CellsOf(f)
    /\ Becomes(a, [session[a] EXCEPT !.got = @ \cup {c}])
    /\ SetFile(a, f, [StagedFiles(a)[f] EXCEPT ![c] = Record(a).value])
    /\ Consume(a)
    /\ UNCHANGED <<answers, receiverOnly>>

Cleared(a, f, c) ==
    /\ Reads(a, "loop", "HOLE") /\ c = Record(a).cell
    /\ f = session[a].current /\ f # "none" /\ c \in CellsOf(f)
    /\ SetFile(a, f, [StagedFiles(a)[f] EXCEPT ![c] = Hole])
    /\ Consume(a)
    /\ UNCHANGED <<session, answers, receiverOnly>>

Closed(a, f) ==
    /\ Reads(a, "loop", "FILE_END") /\ f = Record(a).file
    /\ f = session[a].current /\ f # "none"
    /\ Becomes(a, [session[a] EXCEPT !.current = "none", !.got = {}, !.completed = @ \cup {f}])
    /\ Consume(a) /\ Answer(a, "FILE_COMPLETE")
    /\ UNCHANGED <<staging, receiverOnly>>

Receipted(a) ==
    /\ Reads(a, "loop", "FINISH") /\ AllCompleted(session[a])
    /\ Becomes(a, [session[a] EXCEPT !.pc = "receipt"])
    /\ Consume(a)
    /\ UNCHANGED <<staging, answers, receiverOnly>>

Serves(a) ==
    \/ Aborted(a) \/ Begun(a) \/ Ready(a) \/ Receipted(a) \/ StagingComplete(a)
    \/ \E f \in Files : \/ f \in Disks /\ Cloned(a, f)
                        \/ Opened(a, f) \/ Closed(a, f)
                        \/ \E c \in CellsOf(f) : Written(a, f, c) \/ Cleared(a, f, c)

LEMMA RecordTyped ==
    ASSUME Typed, NEW a \in Attempts, pipe[a] # <<>>
    PROVE  /\ Record(a) \in Records /\ Record(a) \in Elems(pipe[a])
           /\ Tail(pipe[a]) \in Seq(Records) /\ Len(Tail(pipe[a])) <= MaxInFlight
           /\ Elems(pipe[a]) = {Record(a)} \cup Elems(Tail(pipe[a]))
<1> DEFINE s == pipe[a]
           t == Tail(pipe[a])
<1>1. s \in Seq(Records) /\ Len(s) <= MaxInFlight /\ Len(s) \in Nat
  BY LenProperties DEF Typed, PipeTyped
<1>2. /\ Head(s) \in Records /\ t \in Seq(Records)
      /\ Len(t) = Len(s) - 1 /\ Elems(s) = {Head(s)} \cup Elems(t)
  BY <1>1, HeadElement
<1>3. Len(t) <= MaxInFlight
  <2> HIDE DEF s, t
  <2> QED BY <1>1, <1>2, Sizes
<1> QED BY <1>1, <1>2, <1>3 DEF Record

LEMMA RecordFields ==
    \A m \in Records :
        /\ m.op = "BEGIN" => m.id \in Ids /\ m.seeded \in BOOLEAN /\ m.payload \in [Files -> Nat]
        /\ m.op \in {"FILE_BEGIN", "FILE_END"} => m.file \in Files
        /\ m.op = "EXTENT" => m.cell \in Nat /\ m.value \in Values
        /\ m.op = "HOLE" => m.cell \in Nat
BY DEF Records

LEMMA EndsAborted ==
    ASSUME Typed, NEW a \in Attempts, session[a].pc # "none", NEW code \in Errors,
           EndWith(a, code), staging' = staging, UNCHANGED receiverOnly
    PROVE  Aborted(a)
<1>1. /\ session \in [Attempts -> Sessions] /\ pipe \in [Attempts -> Seq(Records)]
      /\ answers \in [Attempts -> Seq(Statuses)]
  BY DEF Typed, SessionTyped, PipeTyped
<1>2. session' = [session EXCEPT ![a] = [Session EXCEPT !.pc = "ended", !.id = session[a].id, !.error = code]]
  BY DEF EndWith, Becomes
<1>3. pipe' = [pipe EXCEPT ![a] = <<>>]
  BY DEF EndWith
<1>4. answers' \in [Attempts -> Seq(Statuses)] /\ \A b \in Attempts \ {a} : answers'[b] = answers[b]
  <2>1. "ERROR" \in Statuses
    BY DEF Statuses
  <2>2. answers' = answers \/ answers' = [answers EXCEPT ![a] = Append(@, "ERROR")]
    BY DEF EndWith, Answer
  <2>3. Append(answers[a], "ERROR") \in Seq(Statuses)
    BY <1>1, <2>1, LastElement
  <2> QED BY <1>1, <2>2, <2>3
<1>5. session' \in [Attempts -> Sessions] /\ session'[a].pc = "ended"
  <2>1. session[a].id \in Ids \cup {0}
    BY <1>1 DEF Sessions
  <2>2. [Session EXCEPT !.pc = "ended", !.id = session[a].id, !.error = code] \in Sessions
    BY <2>1, SessionConstants DEF Sessions
  <2>3. [Session EXCEPT !.pc = "ended", !.id = session[a].id, !.error = code].pc = "ended"
    BY SessionConstants DEF Sessions
  <2> QED BY <1>1, <1>2, <2>2, <2>3
<1>6. pipe' \in [Attempts -> Seq(Records)] /\ pipe'[a] = <<>>
  BY <1>1, <1>3, NoElement
<1>7. Len(pipe'[a]) <= MaxInFlight
  BY <1>6, Sizes
<1>8. UNCHANGED <<source, gone, seed, sender, snapshot, linked>>
  BY DEF receiverOnly
<1> QED BY <1>1, <1>2, <1>3, <1>4, <1>5, <1>6, <1>7, <1>8 DEF Aborted

LEMMA ServingCases ==
    ASSUME Typed, NEW a \in Attempts,
           SessionStep(a) \/ WriteFails(a) \/ SessionKilled(a)
    PROVE  Serves(a)
<1>0. {"none", "CAPACITY", "EXISTS", "SEED", "IO", "PROTOCOL", "TRUNCATED"} = Errors
  BY DEF Errors
<1>1. CASE Begin(a)
  <2>1. session[a].pc = "begin" /\ UNCHANGED receiverOnly
    BY <1>1 DEF Begin, Reads
  <2>2. CASE MakeStaging(a, Record(a))
    BY <1>1, <2>2 DEF Begin, Begun, Serves
  <2>3. CASE UNCHANGED staging /\ \E code \in Errors : EndWith(a, code)
    BY <2>1, <2>3, EndsAborted DEF Serves
  <2> QED BY <1>0, <1>1, <2>2, <2>3 DEF Begin
<1>2. CASE \E f \in Disks : CloneSeed(a, f)
  <2>1. PICK f \in Disks : CloneSeed(a, f)
    BY <1>2
  <2>2. CASE seed = NoSeed
    BY <1>0, <2>1, <2>2, EndsAborted DEF CloneSeed, Serves
  <2>3. CASE seed # NoSeed
    BY <2>1, <2>3, Sizes DEF CloneSeed, Cloned, Serves
  <2> QED BY <2>2, <2>3
<1>3. CASE FileBegin(a)
  <2>1. Reads(a, "loop", "FILE_BEGIN") /\ UNCHANGED receiverOnly /\ session[a].pc # "none"
    BY <1>3 DEF FileBegin, Handle, Reads
  <2>2. Record(a).file \in Files
    BY <2>1, RecordTyped, RecordFields DEF Reads, Record
  <2>3. CASE EndWith(a, "PROTOCOL") /\ UNCHANGED staging
    BY <1>0, <2>1, <2>3, EndsAborted DEF Serves
  <2>4. CASE ~(EndWith(a, "PROTOCOL") /\ UNCHANGED staging)
    <3>1. session[a] \in Sessions
      BY DEF Typed, SessionTyped
    <3>2. [session[a] EXCEPT !.current = Record(a).file, !.got = {}].current = Record(a).file
      BY <3>1 DEF Sessions
    <3>3. Record(a).file # "none"
      BY <2>2, Sizes
    <3>4. Opened(a, Record(a).file)
      BY <1>3, <2>1, <2>4, <3>2, <3>3 DEF FileBegin, Handle, Opened, Staged, StagedFiles
    <3> QED BY <3>4, <2>2 DEF Serves
  <2> QED BY <2>3, <2>4
<1>4. CASE Extent(a)
  <2>1. Reads(a, "loop", "EXTENT") /\ UNCHANGED receiverOnly /\ session[a].pc # "none"
    BY <1>4 DEF Extent, Handle, Reads
  <2>3. CASE EndWith(a, "PROTOCOL") /\ UNCHANGED staging
    BY <1>0, <2>1, <2>3, EndsAborted DEF Serves
  <2>4. CASE ~(EndWith(a, "PROTOCOL") /\ UNCHANGED staging)
    <3>1. session[a] \in Sessions
      BY DEF Typed, SessionTyped
    <3>2. [session[a] EXCEPT !.got = @ \cup {Record(a).cell}].current = session[a].current
      BY <3>1 DEF Sessions
    <3>3. session[a].current # "none" /\ session[a].current \in Files /\ Record(a).cell \in CellsOf(session[a].current)
      BY <1>4, <2>4, <3>1 DEF Extent, Handle, Sessions
    <3>4. Written(a, session[a].current, Record(a).cell)
      BY <1>4, <2>1, <2>4, <3>2, <3>3 DEF Extent, Handle, Written, Staged, StagedFiles
    <3> QED BY <3>3, <3>4 DEF Serves
  <2> QED BY <2>3, <2>4
<1>5. CASE ClearHole(a)
  <2>1. Reads(a, "loop", "HOLE") /\ UNCHANGED receiverOnly /\ session[a].pc # "none"
    BY <1>5 DEF ClearHole, Handle, Reads
  <2>3. CASE EndWith(a, "PROTOCOL") /\ UNCHANGED staging
    BY <1>0, <2>1, <2>3, EndsAborted DEF Serves
  <2>4. CASE ~(EndWith(a, "PROTOCOL") /\ UNCHANGED staging)
    <3>1. session \in [Attempts -> Sessions]
      BY DEF Typed, SessionTyped
    <3>3. session[a].current \in Disks /\ Record(a).cell \in CellsOf(session[a].current)
      BY <1>5, <2>4 DEF ClearHole, Handle
    <3>4. session[a].current # "none" /\ session[a].current \in Files
      BY <3>3, Sizes
    <3>5. Cleared(a, session[a].current, Record(a).cell)
      BY <1>5, <2>1, <2>4, <3>1, <3>3, <3>4 DEF ClearHole, Handle, Becomes, Cleared, Staged, StagedFiles
    <3> QED BY <3>3, <3>4, <3>5 DEF Serves
  <2> QED BY <2>3, <2>4
<1>6. CASE FileEnd(a)
  <2>1. Reads(a, "loop", "FILE_END") /\ UNCHANGED receiverOnly /\ session[a].pc # "none"
    BY <1>6 DEF FileEnd, Handle, Reads
  <2>2. Record(a).file \in Files
    BY <2>1, RecordTyped, RecordFields DEF Reads, Record
  <2>3. CASE EndWith(a, "PROTOCOL") /\ UNCHANGED staging
    BY <1>0, <2>1, <2>3, EndsAborted DEF Serves
  <2>4. CASE ~(EndWith(a, "PROTOCOL") /\ UNCHANGED staging)
    <3> DEFINE f == session[a].current
    <3>1. session[a] \in Sessions
      BY DEF Typed, SessionTyped
    <3>2. [session[a] EXCEPT !.current = "none", !.got = {}, !.completed = @ \cup {f}].current = "none"
      BY <3>1 DEF Sessions
    <3>3. f = Record(a).file /\ f # "none" /\ f \in Files
      BY <1>6, <2>2, <2>4, Sizes DEF FileEnd, Handle
    <3>4. SetFile(a, f, StagedFiles(a)[f])
      BY <1>6, <2>4, <3>2 DEF FileEnd, Handle, Staged, StagedFiles
    <3>5. staging' = staging
      <4>1. staging \in [Ids -> Stagings]
        BY DEF Typed, StoreTyped
      <4>2. \A t \in Ids : staging[t] = [staging[t] EXCEPT !.files = [staging[t].files EXCEPT ![f] = staging[t].files[f]]]
        <5> TAKE t \in Ids
        <5>1. staging[t] = [state |-> staging[t].state, files |-> staging[t].files] /\ staging[t].files \in Bundles
          BY <4>1 DEF Stagings
        <5>2. [staging[t].files EXCEPT ![f] = staging[t].files[f]] = staging[t].files
          BY <5>1 DEF Bundles
        <5> QED BY <5>1, <5>2
      <4> QED BY <3>4, <4>1, <4>2 DEF SetFile, StagedFiles, Staged
    <3>6. Closed(a, f)
      BY <1>6, <2>1, <2>4, <3>2, <3>3, <3>5 DEF FileEnd, Handle, Closed
    <3> QED BY <3>3, <3>6 DEF Serves
  <2> QED BY <2>3, <2>4
<1>7. CASE WriteReceipt(a)
  <2>1. session[a].pc # "none" /\ UNCHANGED <<staging, receiverOnly>>
    BY <1>7 DEF WriteReceipt, Reads
  <2>2. CASE AllCompleted(session[a])
    BY <1>7, <2>2 DEF WriteReceipt, Receipted, Serves
  <2>3. CASE ~AllCompleted(session[a])
    BY <1>0, <1>7, <2>1, <2>3, EndsAborted DEF WriteReceipt, Serves
  <2> QED BY <2>2, <2>3
<1>8. CASE Truncated(a)
  BY <1>0, <1>8, EndsAborted DEF Truncated, Serves
<1>9. CASE WriteFails(a)
  BY <1>0, <1>9, EndsAborted DEF WriteFails, Live, Serves
<1>10. CASE SessionKilled(a)
  <2>1. /\ session \in [Attempts -> Sessions] /\ pipe \in [Attempts -> Seq(Records)]
        /\ answers \in [Attempts -> Seq(Statuses)]
    BY DEF Typed, SessionTyped, PipeTyped
  <2>2. session[a].id \in Ids \cup {0}
    BY <2>1 DEF Sessions
  <2> DEFINE e == [Session EXCEPT !.pc = "ended", !.id = session[a].id]
  <2>3. e \in Sessions /\ e.pc = "ended"
    BY <2>2, SessionConstants DEF Sessions
  <2>4. session' = [session EXCEPT ![a] = e] /\ pipe' = [pipe EXCEPT ![a] = <<>>]
    BY <1>10 DEF SessionKilled, Becomes
  <2>5. Len(pipe'[a]) <= MaxInFlight
    BY <2>1, <2>4, Sizes
  <2> HIDE DEF e
  <2>6. Aborted(a)
    BY <1>10, <2>1, <2>3, <2>4, <2>5, NoElement DEF SessionKilled, Live, Aborted
  <2> QED BY <2>6 DEF Serves
<1> QED
  BY <1>1, <1>2, <1>3, <1>4, <1>5, <1>6, <1>7, <1>8, <1>9, <1>10 DEF SessionStep, Serves

-----------------------------------------------------------------------------
(* What a step of a session changes.                                       *)

OthersKept(a) ==
    \A b \in Attempts \ {a} :
        session'[b] = session[b] /\ pipe'[b] = pipe[b] /\ answers'[b] = answers[b]

\* Nothing but the file f of the staging t.
FileSet(t, f) ==
    /\ staging' \in [Ids -> Stagings]
    /\ \A u \in Ids : staging'[u].state = staging[u].state
    /\ \A u \in Ids : u # t => staging'[u] = staging[u]
    /\ \A g \in Files : g # f => staging'[t].files[g] = staging[t].files[g]

\* Nothing but the state of the staging t.
StateSet(t) ==
    /\ staging' \in [Ids -> Stagings]
    /\ \A u \in Ids : staging'[u].files = staging[u].files
    /\ \A u \in Ids : u # t => staging'[u] = staging[u]

LEMMA SetFileEffect ==
    ASSUME Typed, NEW a \in Attempts, session[a].id \in Ids,
           NEW f \in Files, NEW x \in Contents[f] \cup {Absent}, SetFile(a, f, x)
    PROVE  FileSet(session[a].id, f) /\ staging'[session[a].id].files[f] = x
<1> DEFINE t == session[a].id
           b == [staging[t].files EXCEPT ![f] = x]
           s == [staging[t] EXCEPT !.files = b]
<1>1. staging \in [Ids -> Stagings] /\ t \in Ids
  BY DEF Typed, StoreTyped
<1>2. staging[t].files \in Bundles /\ DOMAIN staging[t].files = Files
  BY <1>1, BundleTyped DEF Stagings
<1>3. b \in Bundles /\ b[f] = x /\ \A g \in Files : g # f => b[g] = staging[t].files[g]
  BY <1>2, BundleTyped
<1>4. s \in Stagings /\ s.state = staging[t].state /\ s.files = b
  <2> HIDE DEF b
  <2> QED BY <1>1, <1>3 DEF Stagings
<1>5. staging' = [staging EXCEPT ![t] = s]
  BY DEF SetFile
<1> HIDE DEF s, b
<1>6. staging' \in [Ids -> Stagings] /\ staging'[t] = s /\ \A u \in Ids : u # t => staging'[u] = staging[u]
  BY <1>1, <1>4, <1>5
<1> QED BY <1>1, <1>3, <1>4, <1>6 DEF FileSet

LEMMA SetStateEffect ==
    ASSUME Typed, NEW t \in Ids, NEW v \in {"NONE", "MADE", "RECEIVING", "COMPLETE"},
           staging' = [staging EXCEPT ![t].state = v]
    PROVE  StateSet(t) /\ staging'[t].state = v
<1>1. staging \in [Ids -> Stagings]
  BY DEF Typed, StoreTyped
<1> DEFINE s == [staging[t] EXCEPT !.state = v]
<1>2. s \in Stagings /\ s.state = v /\ s.files = staging[t].files
  BY <1>1 DEF Stagings
<1>3. staging' = [staging EXCEPT ![t] = s]
  OBVIOUS
<1> HIDE DEF s
<1> QED BY <1>1, <1>2, <1>3 DEF StateSet

LEMMA ConsumeEffect ==
    ASSUME Typed, NEW a \in Attempts, pipe[a] # <<>>, Consume(a)
    PROVE  /\ PipeTyped'
           /\ pipe'[a] = Tail(pipe[a]) /\ \A b \in Attempts \ {a} : pipe'[b] = pipe[b]
           /\ Elems(pipe[a]) = {Record(a)} \cup Elems(pipe'[a])
           /\ Shape(pipe[a]) => /\ Shape(pipe'[a])
                                /\ Record(a).op \notin CellOps => pipe'[a] = <<>>
<1>1. pipe \in [Attempts -> Seq(Records)] /\ \A b \in Attempts : Len(pipe[b]) <= MaxInFlight
  BY DEF Typed, PipeTyped
<1>2. /\ Tail(pipe[a]) \in Seq(Records) /\ Len(Tail(pipe[a])) <= MaxInFlight
      /\ Elems(pipe[a]) = {Record(a)} \cup Elems(Tail(pipe[a]))
  BY RecordTyped
<1>3. Shape(pipe[a]) => /\ Shape(Tail(pipe[a]))
                        /\ Record(a).op \notin CellOps => Tail(pipe[a]) = <<>>
  BY <1>1, ShapeTail DEF Record
<1>4. pipe' = [pipe EXCEPT ![a] = Tail(pipe[a])]
  BY DEF Consume
<1>5. pipe'[a] = Tail(pipe[a]) /\ \A b \in Attempts \ {a} : pipe'[b] = pipe[b]
  BY <1>1, <1>4
<1>6. pipe' \in [Attempts -> Seq(Records)]
  BY <1>1, <1>2, <1>4
<1>7. \A b \in Attempts : Len(pipe'[b]) <= MaxInFlight
  BY <1>1, <1>2, <1>5
<1> QED BY <1>2, <1>3, <1>5, <1>6, <1>7 DEF PipeTyped

LEMMA AnswerEffect ==
    ASSUME Typed, NEW a \in Attempts, NEW status \in Statuses, Answer(a, status)
    PROVE  /\ answers' \in [Attempts -> Seq(Statuses)]
           /\ \A b \in Attempts \ {a} : answers'[b] = answers[b]
           /\ a \in linked => answers'[a] = Append(answers[a], status)
           /\ a \in linked /\ answers[a] = <<>> => answers'[a] = <<status>>
<1>1. answers \in [Attempts -> Seq(Statuses)]
  BY DEF Typed
<1>2. Append(answers[a], status) \in Seq(Statuses)
      /\ (answers[a] = <<>> => Append(answers[a], status) = <<status>>)
  BY <1>1, LastElement
<1>3. CASE a \in linked
  <2>1. answers' = [answers EXCEPT ![a] = Append(answers[a], status)]
    BY <1>3 DEF Answer
  <2>2. answers'[a] = Append(answers[a], status)
    BY <1>1, <2>1
  <2> QED BY <1>1, <1>2, <2>1, <2>2
<1>4. CASE a \notin linked
  BY <1>1, <1>4 DEF Answer
<1> QED BY <1>3, <1>4

LEMMA BecomesEffect ==
    ASSUME Typed, NEW a \in Attempts, NEW s \in Sessions, Becomes(a, s),
           s.pc \in {"clone", "loop", "receipt"} => s.id \in Ids
    PROVE  /\ SessionTyped' /\ session'[a] = s
           /\ \A b \in Attempts \ {a} : session'[b] = session[b]
<1>1. session \in [Attempts -> Sessions] /\ session' = [session EXCEPT ![a] = s]
  BY DEF Typed, SessionTyped, Becomes
<1>2. session' \in [Attempts -> Sessions] /\ session'[a] = s /\ \A b \in Attempts \ {a} : session'[b] = session[b]
  BY <1>1
<1> QED BY <1>2 DEF Typed, SessionTyped, Live

LEMMA SessionFields ==
    ASSUME Typed, NEW a \in Attempts
    PROVE  /\ session[a] \in Sessions
           /\ session[a].pc \in {"none", "begin", "clone", "loop", "receipt", "ended"}
           /\ session[a].current \in Files \cup {"none"} /\ session[a].completed \subseteq Files
           /\ session[a].seeded \in BOOLEAN
           /\ Live(a) => session[a].id \in Ids
           /\ Live(a) <=> session[a].pc \in {"clone", "loop", "receipt"}
<1>1. session[a] \in Sessions
  BY DEF Typed, SessionTyped
<1> QED BY <1>1 DEF Typed, SessionTyped, Sessions, Live

LEMMA StoreFields ==
    ASSUME Typed
    PROVE  /\ \A t \in Ids, f \in Files : /\ staging[t].files[f] \in Contents[f] \cup {Absent}
                                          /\ snapshot[t][f] \in Contents[f] \cup {Absent}
           /\ \A t \in Ids : /\ staging[t].state \in {"NONE", "MADE", "RECEIVING", "COMPLETE"}
                             /\ staging[t].files \in Bundles /\ snapshot[t] \in Bundles
           /\ \A f \in Files : source[f].cells \in Contents[f] /\ source[f].version \in 0 .. MaxWrites
           /\ seed # NoSeed => \A f \in Disks : seed[f] \in Contents[f]
<1>1. source \in Sourced /\ snapshot \in [Ids -> Bundles] /\ staging \in [Ids -> Stagings] /\ seed \in Seeds \cup {NoSeed}
  BY DEF Typed, StoreTyped
<1>2. \A t \in Ids : /\ staging[t].state \in {"NONE", "MADE", "RECEIVING", "COMPLETE"}
                     /\ staging[t].files \in Bundles /\ snapshot[t] \in Bundles
  BY <1>1 DEF Stagings
<1> QED BY <1>1, <1>2, BundleTyped, SourceTyped, SeedTyped

\* Seeing the steps of a session, flat.
BegunEffect(a) ==
    LET m == Record(a)
        t == m.id
    IN /\ session[a].pc = "begin" /\ pipe[a] # <<>> /\ m.op = "BEGIN"
       /\ t \in Ids /\ staging[t].state = "NONE" /\ staging'[t].state = "MADE" /\ StateSet(t)
       /\ session'[a].pc = "clone" /\ session'[a].id = t /\ session'[a].seeded = m.seeded
       /\ session'[a].current = "none" /\ session'[a].completed = {}
       /\ answers' = answers /\ (Shape(pipe[a]) => pipe'[a] = <<>>)

LEMMA BegunSeen ==
    ASSUME Typed, NEW a \in Attempts, Begun(a)
    PROVE  Typed' /\ OthersKept(a) /\ BegunEffect(a)
<1> DEFINE m == Record(a)
           s == [Session EXCEPT !.pc = "clone", !.id = m.id, !.seeded = m.seeded, !.payload = m.payload]
<1>1. session[a].pc = "begin" /\ pipe[a] # <<>> /\ m.op = "BEGIN" /\ UNCHANGED receiverOnly
  BY DEF Begun, Reads, Record
<1>2. m.id \in Ids /\ m.seeded \in BOOLEAN /\ m.payload \in [Files -> Nat]
  BY <1>1, RecordTyped, RecordFields
<1>3. /\ staging[m.id].state = "NONE" /\ staging' = [staging EXCEPT ![m.id].state = "MADE"]
      /\ Becomes(a, s) /\ Consume(a) /\ answers' = answers
  BY DEF Begun, MakeStaging
<1>4. s \in Sessions /\ s.pc = "clone" /\ s.id = m.id /\ s.seeded = m.seeded /\ s.current = "none" /\ s.completed = {}
  <2> HIDE DEF m
  <2> QED BY <1>2 DEF Session, Sessions, Errors
<1>5. StateSet(m.id) /\ staging'[m.id].state = "MADE"
  BY <1>2, <1>3, SetStateEffect
<1> HIDE DEF s, m
<1>6. SessionTyped' /\ session'[a] = s /\ \A b \in Attempts \ {a} : session'[b] = session[b]
  BY <1>2, <1>3, <1>4, BecomesEffect
<1>7. /\ PipeTyped' /\ \A b \in Attempts \ {a} : pipe'[b] = pipe[b]
      /\ Shape(pipe[a]) => pipe'[a] = <<>>
  BY <1>1, <1>3, ConsumeEffect DEF CellOps, m
<1>8. Typed'
  BY <1>1, <1>3, <1>5, <1>6, <1>7 DEF Typed, SenderTyped, StoreTyped, StateSet, receiverOnly
<1> QED BY <1>1, <1>2, <1>3, <1>4, <1>5, <1>6, <1>7, <1>8 DEF OthersKept, BegunEffect, m

ClonedEffect(a, f) ==
    LET t == session[a].id IN
    /\ session[a].pc = "clone" /\ t \in Ids
    /\ session' = session /\ pipe' = pipe /\ answers' = answers
    /\ FileSet(t, f) /\ staging'[t].files[f] = seed[f] /\ seed # NoSeed

LEMMA ClonedSeen ==
    ASSUME Typed, NEW a \in Attempts, NEW f \in Disks, Cloned(a, f)
    PROVE  Typed' /\ OthersKept(a) /\ ClonedEffect(a, f)
<1>1. /\ session[a].pc = "clone" /\ session' = session /\ pipe' = pipe /\ answers' = answers
      /\ UNCHANGED receiverOnly /\ seed # NoSeed /\ SetFile(a, f, seed[f])
  BY DEF Cloned
<1>2. session[a].id \in Ids /\ f \in Files /\ seed[f] \in Contents[f]
  BY <1>1, SessionFields, StoreFields, Sizes
<1>3. FileSet(session[a].id, f) /\ staging'[session[a].id].files[f] = seed[f]
  BY <1>1, <1>2, SetFileEffect
<1>4. Typed'
  BY <1>1, <1>3 DEF Typed, SenderTyped, StoreTyped, PipeTyped, SessionTyped, Live, FileSet, receiverOnly
<1> QED BY <1>1, <1>2, <1>3, <1>4 DEF OthersKept, ClonedEffect

ReadyEffect(a) ==
    LET t == session[a].id IN
    /\ session[a].pc = "clone" /\ t \in Ids
    /\ session'[a] = [session[a] EXCEPT !.pc = "loop"] /\ pipe' = pipe
    /\ session'[a].pc = "loop" /\ session'[a].id = t /\ session'[a].seeded = session[a].seeded
    /\ session'[a].current = session[a].current /\ session'[a].completed = session[a].completed
    /\ a \in linked /\ answers[a] = <<>> => answers'[a] = <<"READY">>
    /\ StateSet(t) /\ staging'[t].state = "RECEIVING"

LEMMA ReadySeen ==
    ASSUME Typed, NEW a \in Attempts, Ready(a)
    PROVE  Typed' /\ OthersKept(a) /\ ReadyEffect(a)
<1> DEFINE t == session[a].id
           s == [session[a] EXCEPT !.pc = "loop"]
<1>1. /\ session[a].pc = "clone" /\ pipe' = pipe /\ Becomes(a, s) /\ Answer(a, "READY")
      /\ staging' = [staging EXCEPT ![t].state = "RECEIVING"] /\ UNCHANGED receiverOnly
  BY DEF Ready
<1>2. t \in Ids /\ session[a] \in Sessions
  BY <1>1, SessionFields
<1>3. StateSet(t) /\ staging'[t].state = "RECEIVING"
  BY <1>1, <1>2, SetStateEffect
<1>4. s \in Sessions /\ s.pc = "loop" /\ s.id = t /\ s.seeded = session[a].seeded
      /\ s.current = session[a].current /\ s.completed = session[a].completed
  BY <1>2 DEF Sessions
<1>5. SessionTyped' /\ session'[a] = s /\ \A b \in Attempts \ {a} : session'[b] = session[b]
  <2> HIDE DEF s
  <2> QED BY <1>1, <1>2, <1>4, BecomesEffect
<1>6. /\ answers' \in [Attempts -> Seq(Statuses)]
      /\ \A b \in Attempts \ {a} : answers'[b] = answers[b]
      /\ a \in linked /\ answers[a] = <<>> => answers'[a] = <<"READY">>
  BY <1>1, AnswerEffect DEF Statuses
<1>7. Typed'
  BY <1>1, <1>3, <1>5, <1>6 DEF Typed, SenderTyped, StoreTyped, PipeTyped, StateSet, receiverOnly
<1> QED BY <1>1, <1>2, <1>3, <1>4, <1>5, <1>6, <1>7 DEF OthersKept, ReadyEffect

\* A command of the loop: the record is consumed, and only the file f may change.
CommandEffect(a, op, f) ==
    /\ session[a].pc = "loop" /\ session[a].id \in Ids /\ pipe[a] # <<>>
    /\ Record(a) \in Records /\ Record(a).op = op
    /\ session'[a].pc = "loop" /\ session'[a].id = session[a].id
    /\ session'[a].seeded = session[a].seeded
    /\ Elems(pipe[a]) = {Record(a)} \cup Elems(pipe'[a])
    /\ Shape(pipe[a]) => /\ Shape(pipe'[a])
                         /\ op \notin CellOps => pipe'[a] = <<>>
    /\ FileSet(session[a].id, f)

OpenedEffect(a, f) ==
    LET s == session[a] IN
    /\ CommandEffect(a, "FILE_BEGIN", f) /\ f = Record(a).file
    /\ s.current = "none" /\ f \notin s.completed
    /\ session'[a].current = f /\ session'[a].completed = s.completed
    /\ staging'[s.id].files[f] # Absent
    /\ IF s.seeded /\ f \in Disks
       THEN StagedFiles(a)[f] # Absent /\ staging'[s.id].files[f] = StagedFiles(a)[f]
       ELSE \A c \in CellsOf(f) : staging'[s.id].files[f][c] = Hole
    /\ a \in linked /\ answers[a] = <<>> => answers'[a] = <<"FILE_READY">>

LEMMA OpenedSeen ==
    ASSUME Typed, NEW a \in Attempts, NEW f \in Files, Opened(a, f)
    PROVE  Typed' /\ OthersKept(a) /\ OpenedEffect(a, f)
<1> DEFINE s == session[a]
           seeded == s.seeded /\ f \in Disks
           x == IF seeded THEN StagedFiles(a)[f] ELSE [c \in CellsOf(f) |-> Hole]
           n == [s EXCEPT !.current = f, !.got = {}]
<1>1. /\ s.pc = "loop" /\ pipe[a] # <<>> /\ Record(a).op = "FILE_BEGIN" /\ f = Record(a).file
      /\ s.current = "none" /\ f \notin s.completed
      /\ seeded => StagedFiles(a)[f] # Absent
      /\ Becomes(a, n) /\ SetFile(a, f, x) /\ Consume(a) /\ Answer(a, "FILE_READY")
      /\ UNCHANGED receiverOnly
  BY DEF Opened, Reads, Record
<1>2. s \in Sessions /\ s.id \in Ids
  BY <1>1, SessionFields
<1>3. x \in Contents[f] /\ (~seeded => \A c \in CellsOf(f) : x[c] = Hole)
  <2>1. StagedFiles(a)[f] \in Contents[f] \cup {Absent}
    BY <1>2, StoreFields DEF StagedFiles, Staged
  <2>2. [c \in CellsOf(f) |-> Hole] \in Contents[f]
    BY ContentsTyped, Sizes
  <2> QED BY <1>1, <2>1, <2>2
<1>4. n \in Sessions /\ n.pc = "loop" /\ n.id = s.id /\ n.seeded = s.seeded /\ n.current = f /\ n.completed = s.completed
  BY <1>1, <1>2 DEF Sessions
<1> HIDE DEF n, x
<1>5. FileSet(s.id, f) /\ staging'[s.id].files[f] = x
  BY <1>1, <1>2, <1>3, SetFileEffect
<1>6. SessionTyped' /\ session'[a] = n /\ \A b \in Attempts \ {a} : session'[b] = session[b]
  BY <1>1, <1>2, <1>4, BecomesEffect
<1>7. /\ PipeTyped' /\ \A b \in Attempts \ {a} : pipe'[b] = pipe[b]
      /\ Elems(pipe[a]) = {Record(a)} \cup Elems(pipe'[a])
      /\ Shape(pipe[a]) => /\ Shape(pipe'[a])
                           /\ Record(a).op \notin CellOps => pipe'[a] = <<>>
  BY <1>1, ConsumeEffect
<1>8. /\ answers' \in [Attempts -> Seq(Statuses)]
      /\ \A b \in Attempts \ {a} : answers'[b] = answers[b]
      /\ a \in linked /\ answers[a] = <<>> => answers'[a] = <<"FILE_READY">>
  BY <1>1, AnswerEffect DEF Statuses
<1>9. Typed'
  BY <1>1, <1>5, <1>6, <1>7, <1>8 DEF Typed, SenderTyped, StoreTyped, FileSet, receiverOnly
<1>10. Record(a) \in Records
  BY <1>1, RecordTyped
<1>11. CommandEffect(a, "FILE_BEGIN", f)
  BY <1>1, <1>2, <1>4, <1>5, <1>6, <1>7, <1>10 DEF CommandEffect
<1>12. x # Absent
  BY <1>3, ContentsTyped
<1>13. IF s.seeded /\ f \in Disks
       THEN StagedFiles(a)[f] # Absent /\ staging'[s.id].files[f] = StagedFiles(a)[f]
       ELSE \A c \in CellsOf(f) : staging'[s.id].files[f][c] = Hole
  BY <1>1, <1>3, <1>5 DEF x
<1> QED BY <1>1, <1>4, <1>5, <1>6, <1>7, <1>8, <1>9, <1>11, <1>12, <1>13 DEF OthersKept, OpenedEffect

WrittenEffect(a, op, f, c, v) ==
    LET s == session[a] IN
    /\ CommandEffect(a, op, f) /\ op \in CellOps
    /\ f = s.current /\ f # "none" /\ c \in CellsOf(f) /\ c = Record(a).cell
    /\ session'[a].current = f /\ session'[a].completed = s.completed
    /\ staging'[s.id].files[f] # Absent /\ staging'[s.id].files[f][c] = v
    /\ \A e \in CellsOf(f) : e # c => staging'[s.id].files[f][e] = StagedFiles(a)[f][e]
    /\ answers' = answers

LEMMA CellSet ==
    ASSUME Typed, NEW a \in Attempts, session[a].id \in Ids, NEW f \in Files, NEW c \in CellsOf(f), NEW v \in Values,
           StagedFiles(a)[f] # Absent, SetFile(a, f, [StagedFiles(a)[f] EXCEPT ![c] = v])
    PROVE  /\ FileSet(session[a].id, f)
           /\ staging'[session[a].id].files[f] # Absent
           /\ staging'[session[a].id].files[f][c] = v
           /\ \A e \in CellsOf(f) : e # c => staging'[session[a].id].files[f][e] = StagedFiles(a)[f][e]
<1> DEFINE y == StagedFiles(a)[f]
           x == [y EXCEPT ![c] = v]
<1>1. y \in [CellsOf(f) -> Values]
  BY StoreFields, ContentsTyped DEF StagedFiles, Staged
<1>2. x \in [CellsOf(f) -> Values] /\ x[c] = v /\ \A e \in CellsOf(f) : e # c => x[e] = y[e]
  BY <1>1
<1> HIDE DEF x
<1>3. x \in Contents[f] /\ x # Absent
  BY <1>2, ContentsTyped
<1>4. SetFile(a, f, x)
  BY DEF x
<1>5. FileSet(session[a].id, f) /\ staging'[session[a].id].files[f] = x
  BY <1>3, <1>4, SetFileEffect
<1> QED BY <1>2, <1>3, <1>5

LEMMA WrittenSeen ==
    ASSUME Typed, NEW a \in Attempts, SessionSound(a), NEW f \in Files, NEW c \in CellsOf(f), Written(a, f, c)
    PROVE  Typed' /\ OthersKept(a) /\ WrittenEffect(a, "EXTENT", f, c, Record(a).value)
<1> DEFINE s == session[a]
           n == [s EXCEPT !.got = @ \cup {c}]
           v == Record(a).value
<1>1. /\ s.pc = "loop" /\ pipe[a] # <<>> /\ Record(a).op = "EXTENT" /\ c = Record(a).cell
      /\ f = s.current /\ f # "none" /\ Becomes(a, n) /\ Consume(a)
      /\ SetFile(a, f, [StagedFiles(a)[f] EXCEPT ![c] = v])
      /\ answers' = answers /\ UNCHANGED receiverOnly
  BY DEF Written, Reads, Record
<1>2. s \in Sessions /\ s.id \in Ids /\ StagedFiles(a)[f] # Absent
  BY <1>1, SessionFields DEF SessionSound
<1>3. Record(a) \in Records /\ v \in Values
  BY <1>1, RecordTyped, RecordFields
<1>4. c \in Nat
  BY ContentsTyped
<1>5. n \in Sessions /\ n.pc = "loop" /\ n.id = s.id /\ n.seeded = s.seeded /\ n.current = f /\ n.completed = s.completed
  BY <1>1, <1>2, <1>4 DEF Sessions
<1>6. /\ FileSet(s.id, f)
      /\ staging'[s.id].files[f] # Absent /\ staging'[s.id].files[f][c] = v
      /\ \A e \in CellsOf(f) : e # c => staging'[s.id].files[f][e] = StagedFiles(a)[f][e]
  <2>1. SetFile(a, f, [StagedFiles(a)[f] EXCEPT ![c] = v])
    BY <1>1
  <2>2. session[a].id \in Ids /\ StagedFiles(a)[f] # Absent /\ v \in Values
    BY <1>2, <1>3
  <2> QED BY ONLY Typed, a \in Attempts, f \in Files, c \in CellsOf(f), <2>1, <2>2, CellSet
<1> HIDE DEF n
<1>7. SessionTyped' /\ session'[a] = n /\ \A b \in Attempts \ {a} : session'[b] = session[b]
  BY <1>1, <1>2, <1>5, BecomesEffect
<1>8. /\ PipeTyped' /\ \A b \in Attempts \ {a} : pipe'[b] = pipe[b]
      /\ Elems(pipe[a]) = {Record(a)} \cup Elems(pipe'[a])
      /\ Shape(pipe[a]) => Shape(pipe'[a])
  BY <1>1, ConsumeEffect
<1>9. Typed'
  BY <1>1, <1>6, <1>7, <1>8 DEF Typed, SenderTyped, StoreTyped, FileSet, receiverOnly
<1>10. CommandEffect(a, "EXTENT", f)
  BY <1>1, <1>2, <1>3, <1>5, <1>6, <1>7, <1>8 DEF CommandEffect, CellOps
<1> QED BY <1>1, <1>5, <1>6, <1>7, <1>8, <1>9, <1>10 DEF OthersKept, WrittenEffect, CellOps

LEMMA ClearedSeen ==
    ASSUME Typed, NEW a \in Attempts, SessionSound(a), NEW f \in Files, NEW c \in CellsOf(f), Cleared(a, f, c)
    PROVE  Typed' /\ OthersKept(a) /\ WrittenEffect(a, "HOLE", f, c, Hole)
<1> DEFINE s == session[a]
<1>1. /\ s.pc = "loop" /\ pipe[a] # <<>> /\ Record(a).op = "HOLE" /\ c = Record(a).cell
      /\ f = s.current /\ f # "none" /\ session' = session /\ Consume(a)
      /\ SetFile(a, f, [StagedFiles(a)[f] EXCEPT ![c] = Hole])
      /\ answers' = answers /\ UNCHANGED receiverOnly
  BY DEF Cleared, Reads, Record
<1>2. s \in Sessions /\ s.id \in Ids /\ StagedFiles(a)[f] # Absent
  BY <1>1, SessionFields DEF SessionSound
<1>3. Record(a) \in Records /\ Hole \in Values
  BY <1>1, RecordTyped, Sizes
<1>6. /\ FileSet(s.id, f)
      /\ staging'[s.id].files[f] # Absent /\ staging'[s.id].files[f][c] = Hole
      /\ \A e \in CellsOf(f) : e # c => staging'[s.id].files[f][e] = StagedFiles(a)[f][e]
  <2>1. SetFile(a, f, [StagedFiles(a)[f] EXCEPT ![c] = Hole])
    BY <1>1
  <2>2. session[a].id \in Ids /\ StagedFiles(a)[f] # Absent /\ Hole \in Values
    BY <1>2, <1>3
  <2> QED BY ONLY Typed, a \in Attempts, f \in Files, c \in CellsOf(f), <2>1, <2>2, CellSet
<1>8. /\ PipeTyped' /\ \A b \in Attempts \ {a} : pipe'[b] = pipe[b]
      /\ Elems(pipe[a]) = {Record(a)} \cup Elems(pipe'[a])
      /\ Shape(pipe[a]) => Shape(pipe'[a])
  BY <1>1, ConsumeEffect
<1>9. Typed'
  BY <1>1, <1>6, <1>8 DEF Typed, SenderTyped, StoreTyped, SessionTyped, Live, FileSet, receiverOnly
<1>10. CommandEffect(a, "HOLE", f)
  BY <1>1, <1>2, <1>3, <1>6, <1>8 DEF CommandEffect, CellOps
<1> QED BY <1>1, <1>6, <1>8, <1>9, <1>10 DEF OthersKept, WrittenEffect, CellOps

ClosedEffect(a, f) ==
    LET s == session[a] IN
    /\ CommandEffect(a, "FILE_END", f) /\ staging' = staging
    /\ f = s.current /\ f # "none"
    /\ session'[a].current = "none" /\ session'[a].completed = s.completed \cup {f}
    /\ a \in linked /\ answers[a] = <<>> => answers'[a] = <<"FILE_COMPLETE">>

LEMMA ClosedSeen ==
    ASSUME Typed, NEW a \in Attempts, NEW f \in Files, Closed(a, f)
    PROVE  Typed' /\ OthersKept(a) /\ ClosedEffect(a, f)
<1> DEFINE s == session[a]
           n == [s EXCEPT !.current = "none", !.got = {}, !.completed = @ \cup {f}]
<1>1. /\ s.pc = "loop" /\ pipe[a] # <<>> /\ Record(a).op = "FILE_END"
      /\ f = s.current /\ f # "none"
      /\ Becomes(a, n) /\ Consume(a) /\ Answer(a, "FILE_COMPLETE")
      /\ staging' = staging /\ UNCHANGED receiverOnly
  BY DEF Closed, Reads, Record
<1>2. s \in Sessions /\ s.id \in Ids
  BY <1>1, SessionFields
<1>4. n \in Sessions /\ n.pc = "loop" /\ n.id = s.id /\ n.seeded = s.seeded /\ n.current = "none"
      /\ n.completed = s.completed \cup {f}
  BY <1>1, <1>2 DEF Sessions
<1> HIDE DEF n
<1>6. SessionTyped' /\ session'[a] = n /\ \A b \in Attempts \ {a} : session'[b] = session[b]
  BY <1>1, <1>2, <1>4, BecomesEffect
<1>7. /\ PipeTyped' /\ \A b \in Attempts \ {a} : pipe'[b] = pipe[b]
      /\ Elems(pipe[a]) = {Record(a)} \cup Elems(pipe'[a])
      /\ Shape(pipe[a]) => /\ Shape(pipe'[a])
                           /\ Record(a).op \notin CellOps => pipe'[a] = <<>>
  BY <1>1, ConsumeEffect
<1>8. /\ answers' \in [Attempts -> Seq(Statuses)]
      /\ \A b \in Attempts \ {a} : answers'[b] = answers[b]
      /\ a \in linked /\ answers[a] = <<>> => answers'[a] = <<"FILE_COMPLETE">>
  BY <1>1, AnswerEffect DEF Statuses
<1>9. Typed'
  BY <1>1, <1>6, <1>7, <1>8 DEF Typed, SenderTyped, StoreTyped, receiverOnly
<1>10. Record(a) \in Records /\ FileSet(s.id, f)
  BY <1>1, RecordTyped DEF Typed, StoreTyped, FileSet
<1>11. CommandEffect(a, "FILE_END", f)
  BY <1>1, <1>2, <1>4, <1>6, <1>7, <1>10 DEF CommandEffect
<1> QED BY <1>1, <1>4, <1>6, <1>7, <1>8, <1>9, <1>11 DEF OthersKept, ClosedEffect

ReceiptedEffect(a) ==
    LET s == session[a] IN
    /\ s.pc = "loop" /\ s.id \in Ids /\ s.current = "none" /\ s.completed = Files
    /\ session'[a].pc = "receipt" /\ session'[a].id = s.id /\ session'[a].seeded = s.seeded
    /\ session'[a].current = s.current /\ session'[a].completed = s.completed
    /\ staging' = staging /\ answers' = answers

LEMMA ReceiptedSeen ==
    ASSUME Typed, NEW a \in Attempts, Receipted(a)
    PROVE  Typed' /\ OthersKept(a) /\ ReceiptedEffect(a)
<1> DEFINE s == session[a]
           n == [s EXCEPT !.pc = "receipt"]
<1>1. /\ s.pc = "loop" /\ pipe[a] # <<>> /\ s.current = "none" /\ s.completed = Files
      /\ Becomes(a, n) /\ Consume(a) /\ answers' = answers
      /\ staging' = staging /\ UNCHANGED receiverOnly
  BY DEF Receipted, Reads, AllCompleted
<1>2. s \in Sessions /\ s.id \in Ids
  BY <1>1, SessionFields
<1>4. n \in Sessions /\ n.pc = "receipt" /\ n.id = s.id /\ n.seeded = s.seeded /\ n.current = s.current
      /\ n.completed = s.completed
  BY <1>1, <1>2 DEF Sessions
<1> HIDE DEF n
<1>6. SessionTyped' /\ session'[a] = n /\ \A b \in Attempts \ {a} : session'[b] = session[b]
  BY <1>1, <1>2, <1>4, BecomesEffect
<1>7. PipeTyped' /\ \A b \in Attempts \ {a} : pipe'[b] = pipe[b]
  BY <1>1, ConsumeEffect
<1>9. Typed'
  BY <1>1, <1>6, <1>7 DEF Typed, SenderTyped, StoreTyped, receiverOnly
<1> QED BY <1>1, <1>2, <1>4, <1>6, <1>7, <1>9 DEF OthersKept, ReceiptedEffect

CompleteEffect(a) ==
    LET s == session[a] IN
    /\ s.pc = "receipt" /\ s.id \in Ids
    /\ session'[a].pc = "ended"
    /\ StateSet(s.id) /\ staging'[s.id].state = "COMPLETE"

LEMMA CompleteSeen ==
    ASSUME Typed, NEW a \in Attempts, StagingComplete(a)
    PROVE  Typed' /\ OthersKept(a) /\ CompleteEffect(a)
<1> DEFINE s == session[a]
           n == [Session EXCEPT !.pc = "ended", !.id = s.id]
<1>1. /\ s.pc = "receipt" /\ staging' = [staging EXCEPT ![s.id].state = "COMPLETE"]
      /\ Becomes(a, n) /\ Answer(a, "STAGING_COMPLETE") /\ pipe' = pipe /\ UNCHANGED receiverOnly
  BY DEF StagingComplete
<1>2. s \in Sessions /\ s.id \in Ids
  BY <1>1, SessionFields
<1>3. StateSet(s.id) /\ staging'[s.id].state = "COMPLETE"
  BY <1>1, <1>2, SetStateEffect
<1>4. n \in Sessions /\ n.pc = "ended"
  BY <1>2, SessionConstants DEF Sessions
<1> HIDE DEF n
<1>6. SessionTyped' /\ session'[a] = n /\ \A b \in Attempts \ {a} : session'[b] = session[b]
  BY <1>1, <1>4, BecomesEffect
<1>8. /\ answers' \in [Attempts -> Seq(Statuses)]
      /\ \A b \in Attempts \ {a} : answers'[b] = answers[b]
  BY <1>1, AnswerEffect DEF Statuses
<1>9. Typed'
  BY <1>1, <1>3, <1>6, <1>8 DEF Typed, SenderTyped, StoreTyped, PipeTyped, StateSet, receiverOnly
<1> QED BY <1>1, <1>2, <1>3, <1>4, <1>6, <1>8, <1>9 DEF OthersKept, CompleteEffect

LEMMA AbortedSeen ==
    ASSUME Typed, NEW a \in Attempts, Aborted(a)
    PROVE  Typed' /\ OthersKept(a)
<1>1. SessionTyped'
  BY DEF Aborted, Typed, SessionTyped, Live
<1>2. PipeTyped'
  BY DEF Aborted, Typed, PipeTyped
<1>3. OthersKept(a)
  BY DEF Aborted, OthersKept
<1> QED BY <1>1, <1>2, <1>3 DEF Aborted, Typed, SenderTyped, StoreTyped

-----------------------------------------------------------------------------
(* Steps of a session preserve the invariant.                              *)

SenderKept == UNCHANGED <<source, gone, seed, sender, snapshot>>

\* What a step of the session of a leaves to the other attempts.
Apart(a) ==
    /\ session[a].pc # "none" /\ OthersKept(a) /\ SenderKept
    /\ \A b \in Attempts \ {a} : b \in linked => b \in linked'
    /\ session'[a].pc # "begin"
    /\ \A b \in Attempts \ {a} :
          Live(b) => /\ staging'[session[b].id] = staging[session[b].id]
                     /\ session'[a].pc \in {"clone", "loop", "receipt"} => session'[a].id # session[b].id
    /\ \A t \in Ids : staging'[t].state = "NONE" => staging[t].state = "NONE"
    /\ a = Attempt /\ Inspected /\ session'[a].pc \in {"clone", "loop", "receipt"} => Mine

LEMMA AttemptIsTyped ==
    ASSUME Typed
    PROVE  /\ Attempt \in 0 .. MaxAttempts
           /\ Inspected => Attempt \in Attempts /\ sender.id \in Ids
           /\ sender.pc \in Sending => Inspected
           /\ sender.pc \in SenderPcs /\ sender.todo \in Seq(Files) /\ sender.plan \in Plans
           /\ sender.delta \in Plans /\ sender.cells \in SUBSET Nat /\ sender.seeded \in BOOLEAN
           /\ sender.todo # <<>> => File \in Files
<1>1. sender \in Senders /\ (sender.pc \notin {"idle", "done"} => sender.id \in Ids /\ sender.attempt \in Attempts)
  BY DEF Typed, SenderTyped
<1>2. sender.todo \in Seq(Files)
  BY <1>1 DEF Senders
<1>3. sender.todo # <<>> => Head(sender.todo) \in Files
  BY <1>2, HeadElement
<1>4. Inspected => sender.pc \notin {"idle", "done"}
  BY DEF Inspected, Preparing, Sending
<1> QED BY <1>1, <1>2, <1>3, <1>4 DEF Senders, Attempt, File, Inspected, Sending

LEMMA ApartPlans ==
    ASSUME TInv, NEW a \in Attempts, Apart(a)
    PROVE  SenderSound' /\ PlanSound'
<1>1. SenderSound'
  BY DEF TInv, SenderSound, Apart, SenderKept, File
<1>2. Inspected => (Mine' => Mine)
  <2> SUFFICES ASSUME Inspected, Mine' PROVE Mine
    OBVIOUS
  <2>1. Attempt \in Attempts /\ sender.id \in Ids
    BY AttemptIsTyped DEF TInv
  <2>2. sender' = sender
    BY DEF Apart, SenderKept
  <2>3. CASE staging'[sender.id].state = "NONE"
    BY <2>1, <2>3 DEF Apart, Mine
  <2>4. CASE session'[Attempt].pc \in {"clone", "loop", "receipt"} /\ a = Attempt
    BY <2>4 DEF Apart
  <2>5. CASE session'[Attempt].pc \in {"clone", "loop", "receipt"} /\ a # Attempt
    BY <2>1, <2>5 DEF Apart, OthersKept, Mine, Live
  <2> QED BY <2>2, <2>3, <2>4, <2>5 DEF Mine, Live, Attempt
<1>3. PlanSound'
  <2>1. source' = source /\ sender' = sender /\ snapshot' = snapshot /\ seed' = seed
    BY DEF Apart, SenderKept
  <2>2. PlanSound
    BY DEF TInv
  <2>3. sender.pc = "compare" => Inspected
    BY DEF Inspected, Preparing
  <2>4. Inspected' = Inspected
    BY <2>1 DEF Inspected
  <2>5. Target' = Target /\ \A f : Fresh(f)' = Fresh(f)
    BY <2>1 DEF Target, Fresh
  <2>6. \A f, p, c : PlanFits(f, p, c)' <=> PlanFits(f, p, c)
    BY <2>1 DEF PlanFits, DeltaPlan, Agree, FullPlan, LeftOut
  <2>7. \A f, p, c : DeltaPlan(f, p, c)' <=> DeltaPlan(f, p, c)
    BY <2>1 DEF DeltaPlan, Agree
  <2> QED BY <1>2, <2>1, <2>2, <2>3, <2>4, <2>5, <2>6, <2>7 DEF PlanSound
<1> QED BY <1>1, <1>3

LEMMA ApartOthers ==
    ASSUME TInv, NEW a \in Attempts, Apart(a), NEW b \in Attempts, a # b
    PROVE  PipeSound(b)' /\ SessionSound(b)' /\ StreamSound(b)'
<1>1. /\ session'[b] = session[b] /\ pipe'[b] = pipe[b] /\ answers'[b] = answers[b]
      /\ SenderKept
  BY DEF Apart, OthersKept
<1>2. PipeSound(b) /\ SessionSound(b) /\ StreamSound(b)
  BY DEF TInv
<1>3. PipeSound(b)'
  BY <1>1, <1>2 DEF PipeSound, Ops
<1>4. Live(b) => /\ staging'[session[b].id] = staging[session[b].id]
                 /\ \A e \in Attempts : Live(e)' /\ session'[e].id = session[b].id => b = e
  <2> SUFFICES ASSUME Live(b)
               PROVE  /\ staging'[session[b].id] = staging[session[b].id]
                      /\ \A e \in Attempts : Live(e)' /\ session'[e].id = session[b].id => b = e
    OBVIOUS
  <2>1. ASSUME NEW e \in Attempts, Live(e)', session'[e].id = session[b].id
        PROVE  b = e
    <3>1. e # a
      BY <2>1 DEF Apart, Live
    <3>2. session'[e] = session[e]
      BY <3>1 DEF Apart, OthersKept
    <3>3. Live(e) /\ session[e].id = session[b].id
      BY <2>1, <3>2 DEF Live
    <3> QED BY <3>3, <1>2 DEF SessionSound
  <2> QED BY <2>1 DEF Apart
<1>5. SessionSound(b)'
  BY <1>1, <1>2, <1>4 DEF SessionSound, Live, SenderKept, StagedFiles, Staged
<1>6. StreamSound(b)'
  <2>1. session[b].pc = "loop" => staging'[session[b].id] = staging[session[b].id]
    BY <1>4 DEF Live
  <2>2. UNCHANGED <<source, sender, snapshot>>
    BY <1>1 DEF SenderKept
  <2>3. Sealed(b)' = Sealed(b) /\ Streaming(b)' = Streaming(b) /\ ToSend' = ToSend
    BY <1>1, <2>2 DEF Sealed, Streaming, ToSend, Ops, Attempt, Fresh, File
  <2>4. \A c : Carries(b, c)' <=> Carries(b, c)
    BY <1>1 DEF Carries
  <2> QED BY <1>1, <1>2, <2>1, <2>2, <2>3, <2>4 DEF StreamSound, StagedFiles, Staged
<1> QED BY <1>3, <1>5, <1>6

LEMMA ApartAttempt ==
    ASSUME TInv, NEW a \in Attempts, Apart(a)
    PROVE  /\ a = Attempt => sender.pc \notin Preparing
           /\ \A b \in Attempts :
                 b > sender'.attempt \/ (b = sender'.attempt /\ sender'.pc \in Preparing) =>
                     session'[b] = Session /\ Quiet(b)'
           /\ a # Attempt => AttemptSound' /\ BaseSound'
<1>1. a # Attempt => ~(a > Attempt)
  BY SessionConstants DEF TInv, AttemptSound, Apart, Attempt
<1>2. a = Attempt => sender.pc \notin Preparing
  BY SessionConstants DEF TInv, AttemptSound, Apart, Attempt
<1>3. sender' = sender /\ source' = source /\ snapshot' = snapshot
  BY DEF Apart, SenderKept
<1>4. ASSUME NEW b \in Attempts, b > sender'.attempt \/ (b = sender'.attempt /\ sender'.pc \in Preparing)
      PROVE  session'[b] = Session /\ Quiet(b)'
  <2>1. session[b] = Session /\ Quiet(b)
    BY <1>3, <1>4 DEF TInv, AttemptSound
  <2>2. b # a
    BY <2>1, SessionConstants DEF Apart
  <2> QED BY <2>1, <2>2 DEF Apart, OthersKept, Quiet
<1>5. ASSUME a # Attempt PROVE AttemptSound' /\ BaseSound'
  <2>1. sender.pc \in Sending => /\ session'[Attempt] = session[Attempt] /\ pipe'[Attempt] = pipe[Attempt]
                                 /\ answers'[Attempt] = answers[Attempt]
                                 /\ Attempt \in linked => Attempt \in linked'
                                 /\ Live(Attempt) => staging'[session[Attempt].id] = staging[session[Attempt].id]
    BY <1>5, AttemptIsTyped DEF TInv, Apart, OthersKept
  <2>2. sender.pc \in Sending => Handshake(Attempt)' = Handshake(Attempt)
    BY <1>3, <2>1 DEF Handshake, Quiet, Sealed, Ops, File, Attempt
  <2>3. AttemptSound'
    BY <1>3, <1>4, <2>1, <2>2 DEF TInv, AttemptSound, Live, Attempt
  <2>4. sender.pc \in Sending /\ Live(Attempt) => \A f : BaseFits(f)' = BaseFits(f)
    BY <1>3, <2>1 DEF BaseFits, Agree, LeftOut, Fresh, Target, StagedFiles, Staged, Attempt
  <2>5. BaseSound'
    BY <1>3, <2>1, <2>4 DEF TInv, BaseSound, Live, Attempt, File, StagedFiles, Staged
  <2> QED BY <2>3, <2>5
<1> QED BY <1>2, <1>4, <1>5

\* The stage of a session belongs to no other.
LEMMA OwnStage ==
    ASSUME TInv, NEW a \in Attempts, Live(a)
    PROVE  /\ session[a].id \in Ids
           /\ staging[session[a].id].state \in {"MADE", "RECEIVING"}
           /\ \A b \in Attempts \ {a} : Live(b) => session[b].id # session[a].id
<1>1. SessionSound(a) /\ Typed
  BY DEF TInv
<1>2. session[a].id \in Ids
  BY <1>1, SessionFields
<1> QED BY <1>1, <1>2 DEF SessionSound, Staged

\* Files of a staging in work may change in any way.
LEMMA FileSetStage ==
    ASSUME TInv, NEW a \in Attempts, Apart(a), NEW t \in Ids, NEW f \in Files,
           FileSet(t, f), staging[t].state \in {"MADE", "RECEIVING"}
    PROVE  StageSound'
<1>1. /\ sender' = sender /\ snapshot' = snapshot /\ source' = source
      /\ \A b \in Attempts : session'[b].pc = "begin" => session'[b] = session[b] /\ pipe'[b] = pipe[b]
  BY DEF Apart, SenderKept, OthersKept
<1>2. ASSUME NEW u \in Ids
      PROVE  /\ IF staging'[u].state = "NONE" THEN \A g \in Files : staging'[u].files[g] = Absent ELSE Taken(u)'
             /\ staging'[u].state = "COMPLETE" => staging'[u].files = snapshot'[u]
  <2>1. CASE u = t
    BY <2>1, <1>1 DEF FileSet, TInv, StageSound, Taken
  <2>2. CASE u # t
    BY <2>2, <1>1 DEF FileSet, TInv, StageSound, Taken, StagedIsSnapshot
  <2> QED BY <2>1, <2>2
<1>3. Inspected' => Taken(sender.id)'
  BY <1>1 DEF TInv, StageSound, Inspected, Taken
<1>4. \A b \in Attempts : session'[b].pc = "begin" /\ pipe'[b] # <<>> => Taken(Head(pipe[b]).id)'
  BY <1>1 DEF TInv, StageSound, Taken
<1> QED BY <1>2, <1>3, <1>4 DEF StageSound, StagedIsSnapshot, Taken

LEMMA StateSetStage ==
    ASSUME TInv, NEW a \in Attempts, Apart(a), NEW t \in Ids, StateSet(t), Taken(t),
           staging'[t].state # "NONE",
           staging'[t].state = "COMPLETE" => staging[t].files = snapshot[t]
    PROVE  StageSound'
<1>1. /\ sender' = sender /\ snapshot' = snapshot /\ source' = source
      /\ \A b \in Attempts : session'[b].pc = "begin" => session'[b] = session[b] /\ pipe'[b] = pipe[b]
  BY DEF Apart, SenderKept, OthersKept
<1>2. ASSUME NEW u \in Ids
      PROVE  /\ IF staging'[u].state = "NONE" THEN \A g \in Files : staging'[u].files[g] = Absent ELSE Taken(u)'
             /\ staging'[u].state = "COMPLETE" => staging'[u].files = snapshot'[u]
  <2>1. CASE u = t
    BY <2>1, <1>1 DEF StateSet, TInv, StageSound, Taken
  <2>2. CASE u # t
    BY <2>2, <1>1 DEF StateSet, TInv, StageSound, Taken, StagedIsSnapshot
  <2> QED BY <2>1, <2>2
<1>3. Inspected' => Taken(sender.id)'
  BY <1>1 DEF TInv, StageSound, Inspected, Taken
<1>4. \A b \in Attempts : session'[b].pc = "begin" /\ pipe'[b] # <<>> => Taken(Head(pipe[b]).id)'
  BY <1>1 DEF TInv, StageSound, Taken
<1> QED BY <1>2, <1>3, <1>4 DEF StageSound, StagedIsSnapshot, Taken

\* What is left to show of a step of the session of a.
OwnSound(a) ==
    /\ PipeSound(a) /\ SessionSound(a) /\ StreamSound(a)
    /\ sender.pc \in Sending /\ a = Attempt =>
         /\ Live(a) \/ session[a].pc = "begin" => a \in linked /\ Handshake(a)
         /\ Live(a) => /\ session[a].id = sender.id /\ session[a].seeded = sender.seeded
                       /\ BaseSound

LEMMA SessionStepKeeps ==
    ASSUME TInv, Typed', NEW a \in Attempts, Apart(a), StageSound', OwnSound(a)'
    PROVE  TInv'
<1>1. SenderSound' /\ PlanSound'
  BY ApartPlans
<1>2. \A b \in Attempts : PipeSound(b)' /\ SessionSound(b)' /\ StreamSound(b)'
  BY ApartOthers DEF OwnSound
<1>3. AttemptSound' /\ BaseSound'
  <2>1. CASE a = Attempt
    <3>1. Attempt' = Attempt
      BY DEF Apart, SenderKept, Attempt
    <3>2. AttemptSound'
      BY <2>1, <3>1, ApartAttempt DEF OwnSound, AttemptSound, Attempt
    <3>3. BaseSound'
      BY <2>1, <3>1 DEF OwnSound, BaseSound
    <3> QED BY <3>2, <3>3
  <2>2. CASE a # Attempt
    BY <2>2, ApartAttempt
  <2> QED BY <2>1, <2>2
<1> QED BY <1>1, <1>2, <1>3 DEF TInv

LEMMA AbortedKeeps ==
    ASSUME TInv, NEW a \in Attempts, Aborted(a)
    PROVE  TInv'
<1>1. Typed' /\ OthersKept(a)
  BY AbortedSeen DEF TInv
<1>2. Apart(a)
  BY <1>1 DEF Aborted, Apart, SenderKept
<1>3. StageSound'
  BY DEF Aborted, TInv, StageSound, StagedIsSnapshot, Taken, Inspected
<1>4. OwnSound(a)'
  BY DEF Aborted, OwnSound, PipeSound, SessionSound, StreamSound, Live
<1> QED BY <1>1, <1>2, <1>3, <1>4, SessionStepKeeps

LEMMA BegunKeeps ==
    ASSUME TInv, NEW a \in Attempts, Begun(a)
    PROVE  TInv'
<1> DEFINE m == Record(a)
           t == m.id
<1>1. Typed' /\ OthersKept(a) /\ BegunEffect(a)
  BY BegunSeen DEF TInv
<1>2. SenderKept /\ linked' = linked
  BY DEF Begun, receiverOnly, SenderKept
<1>3. /\ session[a].pc = "begin" /\ pipe[a] # <<>> /\ m.op = "BEGIN"
      /\ t \in Ids /\ staging[t].state = "NONE" /\ staging'[t].state = "MADE" /\ StateSet(t)
      /\ session'[a].pc = "clone" /\ session'[a].id = t /\ session'[a].seeded = m.seeded
      /\ session'[a].current = "none" /\ session'[a].completed = {}
      /\ answers' = answers /\ pipe'[a] = <<>>
  BY <1>1 DEF BegunEffect, TInv, PipeSound
<1>4. \A b \in Attempts : Live(b) => session[b].id # t /\ session[b].id \in Ids
  BY <1>3, OwnStage
<1>5. sender.pc \in Sending /\ a = Attempt =>
          sender.pc = "ready" /\ answers[a] = <<>> /\ t = sender.id /\ m.seeded = sender.seeded /\ a \in linked
  BY <1>3 DEF TInv, AttemptSound, Handshake, Record
<1>6. a = Attempt /\ Inspected => sender.pc \in Sending
  BY <1>3, SessionConstants DEF TInv, AttemptSound, Inspected, Attempt
<1>7. Apart(a)
  BY <1>1, <1>2, <1>3, <1>4, <1>5, <1>6 DEF Apart, Mine, StateSet
<1>8. Taken(t)
  BY <1>3 DEF TInv, StageSound, Record
<1>9. StageSound'
  BY <1>3, <1>7, <1>8, StateSetStage
<1>10. SessionSound(a)'
  <2>1. \A b \in Attempts : Live(b)' /\ session'[b].id = t => a = b
    BY <1>1, <1>4 DEF OthersKept, Live
  <2> QED BY <2>1, <1>3 DEF SessionSound, Live, Staged
<1>11. PipeSound(a)' /\ StreamSound(a)'
  BY <1>3 DEF PipeSound, StreamSound
<1>12. sender.pc \in Sending /\ a = Attempt => Handshake(a)' /\ BaseSound'
  <2> SUFFICES ASSUME sender.pc \in Sending, a = Attempt PROVE Handshake(a)' /\ BaseSound'
    OBVIOUS
  <2>1. sender' = sender /\ Attempt' = a
    BY <1>2 DEF SenderKept, Attempt
  <2>2. Handshake(a)'
    BY <2>1, <1>3, <1>5 DEF Handshake
  <2>3. \A f \in Files : staging'[t].files[f] = Absent
    BY <1>3 DEF TInv, StageSound, StateSet
  <2>4. BaseSound'
    BY <2>1, <2>3, <1>3, <1>5, Sizes DEF BaseSound, StagedFiles, Staged
  <2> QED BY <2>2, <2>4
<1>13. OwnSound(a)'
  BY <1>2, <1>3, <1>5, <1>10, <1>11, <1>12 DEF OwnSound, SenderKept, Attempt
<1> QED BY <1>1, <1>7, <1>9, <1>13, SessionStepKeeps

LEMMA ClonedKeeps ==
    ASSUME TInv, NEW a \in Attempts, NEW f \in Disks, Cloned(a, f)
    PROVE  TInv'
<1> DEFINE t == session[a].id
<1>1. Typed' /\ OthersKept(a) /\ ClonedEffect(a, f)
  BY ClonedSeen DEF TInv
<1>2. SenderKept /\ linked' = linked
  BY DEF Cloned, receiverOnly, SenderKept
<1>3. /\ session[a].pc = "clone" /\ t \in Ids /\ Live(a)
      /\ session' = session /\ pipe' = pipe /\ answers' = answers
      /\ FileSet(t, f) /\ staging'[t].files[f] = seed[f] /\ seed # NoSeed /\ f \in Files
  BY <1>1, Sizes DEF ClonedEffect, Live
<1>4. staging[t].state \in {"MADE", "RECEIVING"} /\ \A b \in Attempts \ {a} : Live(b) => session[b].id # t /\ session[b].id \in Ids
  BY <1>3, OwnStage
<1>7. Apart(a)
  BY <1>1, <1>2, <1>3, <1>4 DEF Apart, Mine, Live, FileSet
<1>9. StageSound'
  BY <1>3, <1>4, <1>7, FileSetStage
<1>10. SessionSound(a)'
  BY <1>3 DEF TInv, SessionSound, Live, Staged, StagedFiles, FileSet
<1>11. PipeSound(a)' /\ StreamSound(a)'
  BY <1>3 DEF TInv, PipeSound, StreamSound, Ops
<1>12. sender.pc \in Sending /\ a = Attempt =>
          /\ a \in linked /\ sender.pc = "ready" /\ answers[a] = <<>>
          /\ t = sender.id /\ session[a].seeded = sender.seeded
  BY <1>3 DEF TInv, AttemptSound, Handshake
<1>13. sender.pc \in Sending /\ a = Attempt => Handshake(a)' /\ BaseSound'
  <2> SUFFICES ASSUME sender.pc \in Sending, a = Attempt PROVE Handshake(a)' /\ BaseSound'
    OBVIOUS
  <2>1. sender' = sender /\ Attempt' = a /\ source' = source /\ snapshot' = snapshot /\ seed' = seed
    BY <1>2 DEF SenderKept, Attempt
  <2>2. Handshake(a)'
    BY <2>1, <1>3, <1>12 DEF Handshake
  <2>3. ASSUME sender.seeded, Fresh(f) PROVE Agree(f, sender.plan[f], seed[f], Target[f])
    <3>1. Inspected /\ Mine
      BY <1>3 DEF Inspected, Mine
    <3>2. PlanFits(f, sender.plan[f], Target[f])
      BY <2>3, <3>1, <1>3 DEF TInv, PlanSound
    <3> QED BY <3>2, <2>3, <1>3 DEF PlanFits, DeltaPlan
  <2>4. ASSUME NEW g \in Disks \ session[a].completed, g # session[a].current, session[a].seeded,
               staging'[t].files[g] # Absent, Fresh(g)
        PROVE  Agree(g, sender.plan[g], staging'[t].files[g], Target[g])
    <3>1. CASE g = f
      BY <3>1, <2>3, <2>4, <1>3, <1>12
    <3>2. CASE g # f
      <4>1. staging'[t].files[g] = staging[t].files[g]
        BY <3>2, <1>3, Sizes DEF FileSet
      <4> QED BY <4>1, <2>4, <1>3 DEF TInv, BaseSound, BaseFits, StagedFiles, Staged
    <3> QED BY <3>1, <3>2
  <2>5. BaseSound'
    BY <2>1, <2>4, <1>3, <1>12 DEF BaseSound, BaseFits, StagedFiles, Staged, Fresh, Agree, LeftOut, Target
  <2> QED BY <2>2, <2>5
<1>14. OwnSound(a)'
  BY <1>2, <1>3, <1>10, <1>11, <1>12, <1>13 DEF OwnSound, SenderKept, Attempt
<1> QED BY <1>1, <1>7, <1>9, <1>14, SessionStepKeeps

LEMMA ReadyKeeps ==
    ASSUME TInv, NEW a \in Attempts, Ready(a)
    PROVE  TInv'
<1> DEFINE t == session[a].id
<1>1. Typed' /\ OthersKept(a) /\ ReadyEffect(a)
  BY ReadySeen DEF TInv
<1>2. SenderKept /\ linked' = linked
  BY DEF Ready, receiverOnly, SenderKept
<1>3. /\ session[a].pc = "clone" /\ t \in Ids /\ Live(a) /\ pipe' = pipe
      /\ session'[a].pc = "loop" /\ session'[a].id = t /\ session'[a].seeded = session[a].seeded
      /\ session'[a].current = session[a].current /\ session'[a].completed = session[a].completed
      /\ a \in linked /\ answers[a] = <<>> => answers'[a] = <<"READY">>
      /\ StateSet(t) /\ staging'[t].state = "RECEIVING"
  BY <1>1 DEF ReadyEffect, Live
<1>4. staging[t].state \in {"MADE", "RECEIVING"} /\ \A b \in Attempts \ {a} : Live(b) => session[b].id # t /\ session[b].id \in Ids
  BY <1>3, OwnStage
<1>5. session[a].current = "none" /\ session[a].completed = {} /\ pipe[a] = <<>>
  BY <1>3 DEF TInv, SessionSound, PipeSound
<1>7. Apart(a)
  BY <1>1, <1>2, <1>3, <1>4 DEF Apart, Mine, StateSet
<1>8. Taken(t)
  BY <1>3, <1>4 DEF TInv, StageSound
<1>9. StageSound'
  BY <1>3, <1>7, <1>8, StateSetStage
<1>10. SessionSound(a)'
  <2>1. \A b \in Attempts : Live(b)' /\ session'[b].id = t => a = b
    BY <1>1, <1>4 DEF OthersKept, Live
  <2> QED BY <2>1, <1>3, <1>5 DEF SessionSound, Live, Staged
<1>11. PipeSound(a)' /\ StreamSound(a)'
  BY <1>3, <1>5 DEF PipeSound, StreamSound, Shape
<1>12. sender.pc \in Sending /\ a = Attempt =>
          /\ a \in linked /\ sender.pc = "ready" /\ answers[a] = <<>>
          /\ t = sender.id /\ session[a].seeded = sender.seeded
  BY <1>3 DEF TInv, AttemptSound, Handshake
<1>13. sender.pc \in Sending /\ a = Attempt => Handshake(a)' /\ BaseSound'
  <2> SUFFICES ASSUME sender.pc \in Sending, a = Attempt PROVE Handshake(a)' /\ BaseSound'
    OBVIOUS
  <2>1. sender' = sender /\ Attempt' = a /\ source' = source /\ snapshot' = snapshot /\ seed' = seed
    BY <1>2 DEF SenderKept, Attempt
  <2>2. Handshake(a)'
    BY <2>1, <1>3, <1>5, <1>12 DEF Handshake
  <2>3. staging'[t].files = staging[t].files
    BY <1>3 DEF StateSet
  <2>4. BaseSound'
    BY <2>1, <2>3, <1>3, <1>12 DEF TInv, BaseSound, BaseFits, StagedFiles, Staged, Fresh, Agree, LeftOut, Target
  <2> QED BY <2>2, <2>4
<1>14. OwnSound(a)'
  BY <1>2, <1>3, <1>10, <1>11, <1>12, <1>13 DEF OwnSound, SenderKept, Attempt
<1> QED BY <1>1, <1>7, <1>9, <1>14, SessionStepKeeps

\* A command of the loop leaves the session to itself.
LEMMA CommandApart ==
    ASSUME TInv, NEW a \in Attempts, NEW op, NEW f \in Files, OthersKept(a), CommandEffect(a, op, f),
           SenderKept, linked' = linked
    PROVE  /\ Apart(a) /\ StageSound' /\ Live(a) /\ session[a].id \in Ids
           /\ staging[session[a].id].state = "RECEIVING" /\ staging'[session[a].id].state = "RECEIVING"
           /\ \A b \in Attempts : Live(b)' /\ session'[b].id = session[a].id => a = b
           /\ Shape(pipe[a]) /\ Shape(pipe'[a]) /\ (op \notin CellOps => pipe'[a] = <<>>)
           /\ session'[a].pc = "loop" /\ session'[a].id = session[a].id /\ session'[a].seeded = session[a].seeded
           /\ \A g \in Files : g # f => staging'[session[a].id].files[g] = StagedFiles(a)[g]
           /\ sender.pc \in Sending /\ a = Attempt =>
                 /\ a \in linked /\ Handshake(a)
                 /\ session[a].id = sender.id /\ session[a].seeded = sender.seeded
<1>1. Live(a) /\ session[a].id \in Ids /\ session'[a].pc = "loop" /\ session'[a].id = session[a].id
      /\ session[a].pc = "loop" /\ session'[a].seeded = session[a].seeded
  BY DEF CommandEffect, Live
<1>2. staging[session[a].id].state = "RECEIVING"
  BY <1>1 DEF TInv, SessionSound, Staged
<1>3. /\ \A b \in Attempts \ {a} : Live(b) => session[b].id # session[a].id /\ session[b].id \in Ids
  BY <1>1, OwnStage
<1>4. FileSet(session[a].id, f)
  BY DEF CommandEffect
<1>5. Apart(a)
  BY <1>1, <1>3, <1>4 DEF Apart, Mine, FileSet
<1>6. StageSound'
  BY <1>1, <1>2, <1>4, <1>5, FileSetStage
<1>7. \A b \in Attempts : Live(b)' /\ session'[b].id = session[a].id => a = b
  BY <1>3 DEF OthersKept, Live
<1>8. Shape(pipe[a])
  BY <1>1 DEF TInv, PipeSound
<1>9. sender.pc \in Sending /\ a = Attempt =>
                 /\ a \in linked /\ Handshake(a)
                 /\ session[a].id = sender.id /\ session[a].seeded = sender.seeded
  BY <1>1 DEF TInv, AttemptSound
<1>10. Shape(pipe'[a]) /\ (op \notin CellOps => pipe'[a] = <<>>)
  BY <1>8 DEF CommandEffect
<1>11. /\ staging'[session[a].id].state = "RECEIVING"
       /\ \A g \in Files : g # f => staging'[session[a].id].files[g] = StagedFiles(a)[g]
  BY <1>1, <1>2, <1>4 DEF FileSet, StagedFiles, Staged
<1> QED BY <1>1, <1>2, <1>5, <1>6, <1>7, <1>8, <1>9, <1>10, <1>11

LEMMA OpenedKeeps ==
    ASSUME TInv, NEW a \in Attempts, NEW f \in Files, Opened(a, f)
    PROVE  TInv'
<1> DEFINE t == session[a].id
           s == session[a]
<1>1. Typed' /\ OthersKept(a) /\ OpenedEffect(a, f)
  BY OpenedSeen DEF TInv
<1>2. SenderKept /\ linked' = linked
  BY DEF Opened, receiverOnly, SenderKept
<1>3. /\ CommandEffect(a, "FILE_BEGIN", f) /\ f = Record(a).file
      /\ s.current = "none" /\ f \notin s.completed
      /\ session'[a].current = f /\ session'[a].completed = s.completed
      /\ staging'[t].files[f] # Absent
      /\ IF s.seeded /\ f \in Disks
         THEN StagedFiles(a)[f] # Absent /\ staging'[t].files[f] = StagedFiles(a)[f]
         ELSE \A c \in CellsOf(f) : staging'[t].files[f][c] = Hole
      /\ a \in linked /\ answers[a] = <<>> => answers'[a] = <<"FILE_READY">>
  BY <1>1 DEF OpenedEffect
<1>4. /\ Apart(a) /\ StageSound' /\ Live(a) /\ t \in Ids
      /\ staging'[t].state = "RECEIVING"
      /\ \A b \in Attempts : Live(b)' /\ session'[b].id = t => a = b
      /\ pipe'[a] = <<>>
      /\ session'[a].pc = "loop" /\ session'[a].id = t /\ session'[a].seeded = s.seeded
      /\ \A g \in Files : g # f => staging'[t].files[g] = StagedFiles(a)[g]
      /\ sender.pc \in Sending /\ a = Attempt =>
                 a \in linked /\ Handshake(a) /\ t = sender.id /\ s.seeded = sender.seeded
  BY <1>1, <1>2, <1>3, CommandApart DEF CellOps
<1>5. s.pc = "loop" /\ pipe[a] # <<>> /\ Ops(a) = {"FILE_BEGIN"} /\ Record(a).op = "FILE_BEGIN"
  <2>1. s.pc = "loop" /\ pipe[a] # <<>> /\ Record(a).op = "FILE_BEGIN" /\ Elems(pipe[a]) = {Record(a)} \cup Elems(pipe'[a])
    BY <1>3 DEF CommandEffect
  <2>2. Elems(pipe[a]) = {Record(a)}
    BY <2>1, <1>4, NoElement
  <2> QED BY <2>1, <2>2 DEF Ops
<1>6. sender.pc \in Sending /\ a = Attempt => sender.pc = "open" /\ answers[a] = <<>> /\ f = File
  <2> SUFFICES ASSUME sender.pc \in Sending, a = Attempt PROVE sender.pc = "open" /\ answers[a] = <<>> /\ f = File
    OBVIOUS
  <2>1. Handshake(a)
    BY <1>4
  <2>2. sender.pc \in {"open", "close"}
    BY <2>1, <1>5 DEF Handshake, Quiet, Sending, CellOps
  <2>3. sender.pc # "close"
    BY <2>1, <1>5 DEF Handshake, Sealed
  <2> QED BY <2>1, <2>2, <2>3, <1>3, <1>5 DEF Handshake, Record
<1>7. sender' = sender /\ Attempt' = Attempt /\ source' = source /\ snapshot' = snapshot /\ seed' = seed /\ File' = File
  BY <1>2 DEF SenderKept, Attempt, File
<1>8. PipeSound(a)'
  BY <1>4 DEF PipeSound, Shape
<1>9. SessionSound(a)'
  <2>1. \A g \in s.completed : g \in Files /\ StagedFiles(a)[g] = snapshot[t][g]
    BY <1>4, SessionFields DEF TInv, SessionSound
  <2>2. \A g \in s.completed : staging'[t].files[g] = snapshot'[t][g]
    BY <2>1, <1>3, <1>4, <1>7
  <2> QED BY <2>2, <1>3, <1>4 DEF SessionSound, Live, Staged, StagedFiles
<1>10. StreamSound(a)'
  <2>1. ~Sealed(a)'
    BY <1>4, NoElement DEF Sealed, Ops
  <2>2. ~Streaming(a)'
    BY <1>6, <1>7 DEF Streaming, Sending
  <2> QED BY <2>1, <2>2 DEF StreamSound
<1>11. ASSUME sender.pc \in Sending, a = Attempt PROVE Handshake(a)' /\ BaseSound'
  <2>1. Handshake(a)'
    BY <1>11, <1>3, <1>4, <1>6, <1>7 DEF Handshake
  <2>2. ASSUME NEW g \in Disks \ s.completed, g # f, s.seeded, staging'[t].files[g] # Absent, Fresh(g)
        PROVE  Agree(g, sender.plan[g], staging'[t].files[g], Target[g])
    <3>1. staging'[t].files[g] = StagedFiles(a)[g] /\ g # "none"
      BY <2>2, <1>4, Sizes
    <3> QED BY <3>1, <2>2, <1>3, <1>4, <1>11 DEF TInv, BaseSound, BaseFits
  <2>3. ASSUME Fresh(f) PROVE Agree(f, sender.plan[f], staging'[t].files[f], Target[f])
    <3>1. PlanFits(f, sender.plan[f], Target[f])
      BY <2>3, <1>11, <1>4 DEF TInv, PlanSound, Inspected, Mine
    <3>2. CASE s.seeded /\ f \in Disks
      BY <2>3, <3>2, <1>3, <1>4, <1>11, Sizes DEF TInv, BaseSound, BaseFits
    <3>3. CASE ~(s.seeded /\ f \in Disks)
      BY <3>1, <3>3, <1>3, <1>4, <1>11 DEF PlanFits, FullPlan, Agree, LeftOut
    <3> QED BY <3>2, <3>3
  <2>4. sender'.plan = sender.plan /\ Target' = Target /\ File' = f
    BY <1>6, <1>7, <1>11 DEF Target
  <2>5. StagedFiles(Attempt)' = staging'[t].files
    BY <1>4, <1>7, <1>11 DEF StagedFiles, Staged
  <2>6. ASSUME NEW g \in Files,
               Fresh(g) => Agree(g, sender.plan[g], staging'[t].files[g], Target[g])
        PROVE  BaseFits(g)'
    <3>1. Fresh(g)' <=> Fresh(g)
      BY <1>7 DEF Fresh
    <3>2. Fresh(g)' => Agree(g, sender'.plan[g], StagedFiles(Attempt)'[g], Target'[g])
      BY <3>1, <2>4, <2>5, <2>6
    <3> QED BY <3>2 DEF BaseFits, Agree, LeftOut
  <2>7. f \in Files /\ BaseFits(f)'
    BY <2>3, <2>6
  <2>8. ASSUME NEW g \in Disks \ s.completed, g # f, s.seeded, staging'[t].files[g] # Absent
        PROVE  BaseFits(g)'
    BY <2>2, <2>6, <2>8, Sizes
  <2>9. /\ session'[Attempt'] = session'[a] /\ session'[a].completed = s.completed
        /\ session'[a].current = f /\ session'[a].seeded = s.seeded
    BY <1>3, <1>4, <1>7, <1>11
  <2>10. BaseSound'
    BY <2>4, <2>5, <2>7, <2>8, <2>9 DEF BaseSound
  <2> QED BY <2>1, <2>10
<1>12. OwnSound(a)'
  BY <1>2, <1>4, <1>7, <1>8, <1>9, <1>10, <1>11 DEF OwnSound
<1> QED BY <1>1, <1>4, <1>12, SessionStepKeeps

\* A cell is written: as the record says, and so as in the snapshot if that is known.
LEMMA CellKeeps ==
    ASSUME TInv, Typed', NEW a \in Attempts, NEW f \in Files, NEW op, NEW c \in CellsOf(f), NEW v,
           OthersKept(a), SenderKept, linked' = linked, WrittenEffect(a, op, f, c, v),
           v = IF op = "EXTENT" THEN Record(a).value ELSE Hole
    PROVE  TInv'
<1> DEFINE t == session[a].id
           s == session[a]
<1>3. /\ CommandEffect(a, op, f) /\ op \in CellOps
      /\ f = s.current /\ f # "none" /\ c = Record(a).cell
      /\ session'[a].current = f /\ session'[a].completed = s.completed
      /\ staging'[t].files[f] # Absent /\ staging'[t].files[f][c] = v
      /\ \A e \in CellsOf(f) : e # c => staging'[t].files[f][e] = StagedFiles(a)[f][e]
      /\ answers' = answers
  BY DEF WrittenEffect
<1>4. /\ Apart(a) /\ StageSound' /\ Live(a) /\ t \in Ids
      /\ staging'[t].state = "RECEIVING"
      /\ \A b \in Attempts : Live(b)' /\ session'[b].id = t => a = b
      /\ Shape(pipe'[a])
      /\ session'[a].pc = "loop" /\ session'[a].id = t /\ session'[a].seeded = s.seeded
      /\ \A g \in Files : g # f => staging'[t].files[g] = StagedFiles(a)[g]
      /\ sender.pc \in Sending /\ a = Attempt =>
                 a \in linked /\ Handshake(a) /\ t = sender.id /\ s.seeded = sender.seeded
  BY <1>3, CommandApart
<1>5. /\ s.pc = "loop" /\ pipe[a] # <<>> /\ Record(a).op = op
      /\ Elems(pipe[a]) = {Record(a)} \cup Elems(pipe'[a])
  BY <1>3 DEF CommandEffect
<1>6. /\ Ops(a)' \subseteq Ops(a) /\ op \in Ops(a) /\ (Sealed(a)' <=> Sealed(a))
  BY <1>3, <1>5 DEF Ops, Sealed, CellOps
<1>7. sender' = sender /\ Attempt' = Attempt /\ source' = source /\ snapshot' = snapshot /\ seed' = seed /\ File' = File
  BY DEF SenderKept, Attempt, File
<1>8. sender.pc \in Sending /\ a = Attempt =>
          \/ sender.pc \in {"data", "holes"} /\ answers[a] = <<>> /\ f = File /\ Ops(a) \subseteq CellOps
          \/ sender.pc = "close" /\ Sealed(a) /\ answers[a] = <<>>
  <2> SUFFICES ASSUME sender.pc \in Sending, a = Attempt
               PROVE  \/ sender.pc \in {"data", "holes"} /\ answers[a] = <<>> /\ f = File /\ Ops(a) \subseteq CellOps
                      \/ sender.pc = "close" /\ Sealed(a) /\ answers[a] = <<>>
    OBVIOUS
  <2>1. Handshake(a)
    BY <1>4
  <2>2. op # "FILE_BEGIN"
    BY <1>3 DEF CellOps
  <2> QED BY <2>1, <2>2, <1>3, <1>5 DEF Handshake, Quiet, Sending, Record
<1>9. PipeSound(a)'
  BY <1>4 DEF PipeSound
<1>10. SessionSound(a)'
  <2>1. /\ f \notin s.completed /\ s.completed \subseteq Files
        /\ \A g \in s.completed : StagedFiles(a)[g] = snapshot[t][g]
    <3>1. SessionSound(a) /\ Typed
      BY DEF TInv
    <3>2. s.completed \subseteq Files
      BY <3>1, SessionFields
    <3> QED BY <3>1, <3>2, <1>3, <1>4 DEF SessionSound
  <2>2. \A g \in s.completed : staging'[t].files[g] = snapshot'[t][g]
    BY <2>1, <1>4, <1>7
  <2>3. Staged(a)' = staging'[t] /\ StagedFiles(a)' = staging'[t].files
    BY <1>4 DEF Staged, StagedFiles
  <2>4. \A b \in Attempts : Live(b)' /\ session'[b].id = session'[a].id => a = b
    BY <1>4
  <2> QED BY <2>1, <2>2, <2>3, <2>4, <1>3, <1>4 DEF SessionSound
<1>11. StreamSound(a)'
  <2> DEFINE cells == snapshot[t][f]
  <2>1. Streaming(a)' = Streaming(a) /\ ToSend' = ToSend
    BY <1>7 DEF Streaming, ToSend, Fresh
  <2>2. ASSUME Sealed(a) \/ Streaming(a)
        PROVE  /\ \A m \in Elems(pipe'[a]) : Right(m, cells)
               /\ \A e \in CellsOf(f) : \/ staging'[t].files[f][e] = cells[e]
                                        \/ \E m \in Elems(pipe'[a]) : m.op \in CellOps /\ m.cell = e
                                        \/ Streaming(a) /\ e \in ToSend
    <3>1. /\ \A m \in Elems(pipe[a]) : Right(m, cells)
          /\ \A e \in CellsOf(f) : \/ StagedFiles(a)[f][e] = cells[e]
                                   \/ \E m \in Elems(pipe[a]) : m.op \in CellOps /\ m.cell = e
                                   \/ Streaming(a) /\ e \in ToSend
      BY <2>2, <1>3, <1>5 DEF TInv, StreamSound, Carries
    <3>2. v = cells[c]
      BY <3>1, <1>3, <1>5 DEF Right, CellOps
    <3> HIDE DEF cells
    <3>3. ASSUME NEW e \in CellsOf(f)
          PROVE  \/ staging'[t].files[f][e] = cells[e]
                 \/ \E m \in Elems(pipe'[a]) : m.op \in CellOps /\ m.cell = e
                 \/ Streaming(a) /\ e \in ToSend
      <4>1. CASE e = c
        BY <4>1, <3>2, <1>3
      <4>2. CASE e # c
        BY <4>2, <3>1, <1>3, <1>5
      <4> QED BY <4>1, <4>2
    <3> QED BY <3>1, <3>3, <1>5
  <2> QED BY <2>1, <2>2, <1>3, <1>4, <1>6, <1>7 DEF StreamSound, Carries, StagedFiles, Staged
<1>12. ASSUME sender.pc \in Sending, a = Attempt PROVE Handshake(a)' /\ BaseSound'
  <2>1. Handshake(a)'
    BY <1>12, <1>3, <1>4, <1>6, <1>7, <1>8 DEF Handshake
  <2>2. ASSUME NEW g \in Disks \ s.completed, g # f, s.seeded, staging'[t].files[g] # Absent, Fresh(g)
        PROVE  Agree(g, sender.plan[g], staging'[t].files[g], Target[g])
    <3>1. staging'[t].files[g] = StagedFiles(a)[g] /\ g # "none"
      BY <2>2, <1>4, Sizes
    <3> QED BY <3>1, <2>2, <1>3, <1>4, <1>12 DEF TInv, BaseSound, BaseFits
  <2>3. sender'.pc # "open" /\ sender'.plan = sender.plan /\ Target' = Target
    BY <1>7, <1>8, <1>12 DEF Target
  <2>4. StagedFiles(Attempt)' = staging'[t].files
    BY <1>4, <1>7, <1>12 DEF StagedFiles, Staged
  <2>5. ASSUME NEW g \in Disks \ s.completed, g # f, s.seeded, staging'[t].files[g] # Absent
        PROVE  BaseFits(g)'
    <3>1. Fresh(g)' <=> Fresh(g)
      BY <1>7 DEF Fresh
    <3>2. Fresh(g) => Agree(g, sender'.plan[g], staging'[t].files[g], Target[g])
      BY <2>2, <2>3, <2>5
    <3>3. Fresh(g)' => Agree(g, sender'.plan[g], StagedFiles(Attempt)'[g], Target'[g])
      BY <3>1, <3>2, <2>3, <2>4
    <3> QED BY <3>3 DEF BaseFits, Agree, LeftOut
  <2>6. BaseSound'
    <3>1. session'[Attempt'] = session'[a] /\ session'[a].completed = s.completed
          /\ session'[a].current = f /\ session'[a].seeded = s.seeded
      BY <1>3, <1>4, <1>7, <1>12
    <3> QED BY <3>1, <2>3, <2>4, <2>5 DEF BaseSound
  <2> QED BY <2>1, <2>6
<1>13. OwnSound(a)'
  BY <1>4, <1>7, <1>9, <1>10, <1>11, <1>12 DEF OwnSound
<1> QED BY <1>4, <1>13, SessionStepKeeps

LEMMA WrittenKeeps ==
    ASSUME TInv, NEW a \in Attempts, NEW f \in Files, NEW c \in CellsOf(f), Written(a, f, c) \/ Cleared(a, f, c)
    PROVE  TInv'
<1>1. SenderKept /\ linked' = linked
  BY DEF Written, Cleared, receiverOnly, SenderKept
<1>2. CASE Written(a, f, c)
  <2>1. Typed' /\ OthersKept(a) /\ WrittenEffect(a, "EXTENT", f, c, Record(a).value)
    BY <1>2, WrittenSeen DEF TInv
  <2> QED BY <1>1, <2>1, CellKeeps
<1>3. CASE Cleared(a, f, c)
  <2>1. Typed' /\ OthersKept(a) /\ WrittenEffect(a, "HOLE", f, c, Hole)
    BY <1>3, ClearedSeen DEF TInv
  <2> QED BY <1>1, <2>1, CellKeeps
<1> QED BY <1>2, <1>3

\* A file is closed: with nothing left in the pipe it is that of the snapshot.
LEMMA ClosedKeeps ==
    ASSUME TInv, NEW a \in Attempts, NEW f \in Files, Closed(a, f)
    PROVE  TInv'
<1> DEFINE t == session[a].id
           s == session[a]
<1>1. Typed' /\ OthersKept(a) /\ ClosedEffect(a, f)
  BY ClosedSeen DEF TInv
<1>2. SenderKept /\ linked' = linked
  BY DEF Closed, receiverOnly, SenderKept
<1>3. /\ CommandEffect(a, "FILE_END", f) /\ staging' = staging
      /\ f = s.current /\ f # "none"
      /\ session'[a].current = "none" /\ session'[a].completed = s.completed \cup {f}
      /\ a \in linked /\ answers[a] = <<>> => answers'[a] = <<"FILE_COMPLETE">>
  BY <1>1 DEF ClosedEffect
<1>4. /\ Apart(a) /\ StageSound' /\ Live(a) /\ t \in Ids
      /\ staging[t].state = "RECEIVING"
      /\ \A b \in Attempts : Live(b)' /\ session'[b].id = t => a = b
      /\ pipe'[a] = <<>>
      /\ session'[a].pc = "loop" /\ session'[a].id = t /\ session'[a].seeded = s.seeded
      /\ sender.pc \in Sending /\ a = Attempt =>
                 a \in linked /\ Handshake(a) /\ t = sender.id /\ s.seeded = sender.seeded
  BY <1>1, <1>2, <1>3, CommandApart DEF CellOps
<1>5. s.pc = "loop" /\ pipe[a] # <<>> /\ Elems(pipe[a]) = {Record(a)} /\ Record(a).op = "FILE_END"
  <2>1. s.pc = "loop" /\ pipe[a] # <<>> /\ Record(a).op = "FILE_END" /\ Elems(pipe[a]) = {Record(a)} \cup Elems(pipe'[a])
    BY <1>3 DEF CommandEffect
  <2> QED BY <2>1, <1>4, NoElement
<1>6. Ops(a) = {"FILE_END"} /\ Sealed(a)
  BY <1>5 DEF Ops, Sealed
<1>7. sender' = sender /\ Attempt' = Attempt /\ source' = source /\ snapshot' = snapshot /\ seed' = seed /\ File' = File
  BY <1>2 DEF SenderKept, Attempt, File
<1>8. sender.pc \in Sending /\ a = Attempt => sender.pc = "close" /\ answers[a] = <<>>
  <2> SUFFICES ASSUME sender.pc \in Sending, a = Attempt PROVE sender.pc = "close" /\ answers[a] = <<>>
    OBVIOUS
  <2>1. Handshake(a)
    BY <1>4
  <2>2. Record(a).op # "FILE_BEGIN" /\ ~(Ops(a) \subseteq CellOps)
    BY <1>5, <1>6 DEF CellOps
  <2> QED BY <2>1, <2>2, <1>3, <1>5 DEF Handshake, Quiet, Sending, Record
<1>9. StagedFiles(a)[f] = snapshot[t][f]
  <2> DEFINE x == StagedFiles(a)[f]
             y == snapshot[t][f]
  <2>1. ~Streaming(a)
    BY <1>8 DEF Streaming, Sending
  <2>2. \A c : ~Carries(a, c)
    BY <1>5 DEF Carries, CellOps
  <2>3. \A c \in CellsOf(f) : x[c] = y[c]
    BY <2>1, <2>2, <1>3, <1>5, <1>6 DEF TInv, StreamSound
  <2>4. x \in Contents[f]
    BY <1>3, <1>4, StoreFields DEF TInv, SessionSound, StagedFiles, Staged
  <2>5. y \in Contents[f]
    BY <1>4 DEF TInv, StageSound, Taken
  <2> HIDE DEF x, y
  <2>6. x = y
    BY <2>3, <2>4, <2>5, ContentsTyped
  <2> QED BY <2>6 DEF x, y
<1>10. PipeSound(a)'
  BY <1>4 DEF PipeSound, Shape
<1>11. SessionSound(a)'
  BY <1>3, <1>4, <1>7, <1>9, SessionFields, Sizes DEF TInv, SessionSound, Live, Staged, StagedFiles
<1>12. StreamSound(a)'
  BY <1>3 DEF StreamSound
<1>13. ASSUME sender.pc \in Sending, a = Attempt PROVE Handshake(a)' /\ BaseSound'
  <2>1. Handshake(a)'
    BY <1>13, <1>3, <1>4, <1>7, <1>8 DEF Handshake
  <2>2. ASSUME NEW g \in Disks \ (s.completed \cup {f}), s.seeded, StagedFiles(a)[g] # Absent, Fresh(g)
        PROVE  Agree(g, sender.plan[g], StagedFiles(a)[g], Target[g])
    BY <2>2, <1>3, <1>4, <1>13 DEF TInv, BaseSound, BaseFits
  <2>4. BaseSound'
    BY <2>2, <1>3, <1>4, <1>7, <1>8, <1>13 DEF BaseSound, BaseFits, StagedFiles, Staged, Fresh, Agree, LeftOut, Target
  <2> QED BY <2>1, <2>4
<1>14. OwnSound(a)'
  BY <1>2, <1>4, <1>7, <1>10, <1>11, <1>12, <1>13 DEF OwnSound
<1> QED BY <1>1, <1>4, <1>14, SessionStepKeeps

LEMMA ReceiptedKeeps ==
    ASSUME TInv, NEW a \in Attempts, Receipted(a)
    PROVE  TInv'
<1> DEFINE t == session[a].id
           s == session[a]
<1>1. Typed' /\ OthersKept(a) /\ ReceiptedEffect(a)
  BY ReceiptedSeen DEF TInv
<1>2. SenderKept /\ linked' = linked
  BY DEF Receipted, receiverOnly, SenderKept
<1>3. /\ s.pc = "loop" /\ t \in Ids /\ s.current = "none" /\ s.completed = Files /\ Live(a)
      /\ session'[a].pc = "receipt" /\ session'[a].id = t /\ session'[a].seeded = s.seeded
      /\ session'[a].current = s.current /\ session'[a].completed = s.completed
      /\ staging' = staging /\ answers' = answers
  BY <1>1 DEF ReceiptedEffect, Live
<1>4. staging[t].state \in {"MADE", "RECEIVING"} /\ \A b \in Attempts \ {a} : Live(b) => session[b].id # t /\ session[b].id \in Ids
  BY <1>3, OwnStage
<1>5. Apart(a)
  BY <1>1, <1>2, <1>3, <1>4 DEF Apart, Mine
<1>6. sender' = sender /\ Attempt' = Attempt /\ source' = source /\ snapshot' = snapshot /\ seed' = seed /\ File' = File
  BY <1>2 DEF SenderKept, Attempt, File
<1>7. StageSound'
  <2>1. StateSet(t) /\ staging'[t].state = staging[t].state
    BY <1>3 DEF StateSet, TInv, Typed, StoreTyped
  <2> QED BY <2>1, <1>3, <1>4, <1>5, StateSetStage DEF TInv, StageSound
<1>8. SessionSound(a)'
  <2>1. \A b \in Attempts : Live(b)' /\ session'[b].id = t => a = b
    BY <1>1, <1>4 DEF OthersKept, Live
  <2> QED BY <2>1, <1>3, <1>6 DEF TInv, SessionSound, Live, Staged, StagedFiles
<1>9. PipeSound(a)' /\ StreamSound(a)'
  BY <1>3 DEF PipeSound, StreamSound
<1>10. sender.pc \in Sending /\ a = Attempt => a \in linked /\ t = sender.id /\ s.seeded = sender.seeded
  BY <1>3 DEF TInv, AttemptSound
<1>11. Handshake(a)'
  BY <1>3 DEF Handshake
<1>12. a = Attempt /\ sender.pc \in Sending => BaseSound'
  <2>1. sender.pc = "open" => File \in Files
    BY AttemptIsTyped DEF TInv, SenderSound
  <2> QED BY <2>1, <1>3, <1>6, Sizes DEF BaseSound
<1>13. OwnSound(a)'
  BY <1>2, <1>3, <1>6, <1>8, <1>9, <1>10, <1>11, <1>12 DEF OwnSound
<1> QED BY <1>1, <1>5, <1>7, <1>13, SessionStepKeeps

\* The receipt: every file is that of the snapshot.
LEMMA CompleteKeeps ==
    ASSUME TInv, NEW a \in Attempts, StagingComplete(a)
    PROVE  TInv'
<1> DEFINE t == session[a].id
           s == session[a]
<1>1. Typed' /\ OthersKept(a) /\ CompleteEffect(a)
  BY CompleteSeen DEF TInv
<1>2. SenderKept /\ linked' = linked
  BY DEF StagingComplete, receiverOnly, SenderKept
<1>3. /\ s.pc = "receipt" /\ t \in Ids /\ Live(a)
      /\ session'[a].pc = "ended"
      /\ StateSet(t) /\ staging'[t].state = "COMPLETE"
  BY <1>1 DEF CompleteEffect, Live
<1>4. staging[t].state \in {"MADE", "RECEIVING"} /\ \A b \in Attempts \ {a} : Live(b) => session[b].id # t /\ session[b].id \in Ids
  BY <1>3, OwnStage
<1>5. Apart(a)
  BY <1>1, <1>2, <1>3, <1>4 DEF Apart, Mine, StateSet
<1>6. staging[t].files = snapshot[t]
  <2>1. \A f \in Files : staging[t].files[f] = snapshot[t][f]
    BY <1>3 DEF TInv, SessionSound, StagedFiles, Staged
  <2>2. staging[t].files \in Bundles /\ snapshot[t] \in Bundles
    BY <1>3, StoreFields DEF TInv
  <2>3. \A b \in Bundles : b = [f \in Files |-> b[f]]
    BY DEF Bundles
  <2> QED BY <2>1, <2>2, <2>3
<1>7. StageSound'
  BY <1>3, <1>4, <1>5, <1>6, StateSetStage DEF TInv, StageSound
<1>8. OwnSound(a)'
  BY <1>3 DEF OwnSound, PipeSound, SessionSound, StreamSound, Live
<1> QED BY <1>1, <1>5, <1>7, <1>8, SessionStepKeeps

LEMMA ServingKeeps ==
    ASSUME TInv, NEW a \in Attempts, SessionStep(a) \/ WriteFails(a) \/ SessionKilled(a)
    PROVE  TInv'
<1>1. Serves(a)
  BY ServingCases DEF TInv
<1> QED
  BY <1>1, AbortedKeeps, BegunKeeps, ReadyKeeps, ReceiptedKeeps, CompleteKeeps, ClonedKeeps,
     OpenedKeeps, ClosedKeeps, WrittenKeeps DEF Serves

-----------------------------------------------------------------------------
(* Steps of the sender that prepare an attempt.                            *)

\* In a pipe whose file has ended nothing more is to be sent.
LEMMA SealedIsDone ==
    ASSUME TInv, NEW a \in Attempts, session[a].pc = "loop", Sealed(a)
    PROVE  ~Streaming(a)
<1> SUFFICES ASSUME Streaming(a) PROVE FALSE
  OBVIOUS
<1>1. a = Attempt /\ sender.pc \in {"data", "holes"} /\ Live(a)
  BY DEF Streaming, Live
<1>2. Handshake(a)
  BY <1>1 DEF TInv, AttemptSound, Sending
<1>3. Ops(a) \subseteq CellOps
  BY <1>1, <1>2 DEF Handshake
<1> QED BY <1>3 DEF Sealed, CellOps

LEMMA SenderFields ==
    ASSUME Typed
    PROVE  /\ sender \in Senders
           /\ sender = [pc |-> sender.pc, id |-> sender.id, attempt |-> sender.attempt,
                        todo |-> sender.todo, plan |-> sender.plan, delta |-> sender.delta,
                        cells |-> sender.cells, seeded |-> sender.seeded]
           /\ \A f \in Files : /\ sender.plan[f] \in PlanFile(f) /\ sender.delta[f] \in PlanFile(f)
                               /\ sender.plan[f].extents \subseteq CellsOf(f) /\ sender.plan[f].holes \subseteq CellsOf(f)
                               /\ CellsOf(f) \subseteq Nat
<1>1. sender \in Senders
  BY DEF Typed, SenderTyped
<1>2. sender = [pc |-> sender.pc, id |-> sender.id, attempt |-> sender.attempt,
                todo |-> sender.todo, plan |-> sender.plan, delta |-> sender.delta,
                cells |-> sender.cells, seeded |-> sender.seeded]
  BY <1>1 DEF Senders
<1> QED BY <1>1, <1>2, AttemptIsTyped, PlanTyped, ContentsTyped

\* The bundle that is in the source now.
LEMMA NowTyped ==
    ASSUME Typed
    PROVE  /\ [f \in Files |-> source[f].cells] \in Bundles
           /\ \A f \in Files : Planned(f) \in PlanFile(f) /\ DataCells(f) = {c \in CellsOf(f) : source[f].cells[c] # Hole}
<1>1. \A f \in Files : source[f].cells \in Contents[f] \cup {Absent} /\ source[f].version \in 0 .. MaxWrites
  BY StoreFields
<1>2. [f \in Files |-> source[f].cells] \in Bundles
  <2> DEFINE b == [f \in Files |-> source[f].cells]
  <2>1. b = [f \in Files |-> b[f]] /\ \A f \in Files : b[f] \in Contents[f] \cup {Absent}
    BY <1>1
  <2> HIDE DEF b
  <2>2. b \in Bundles
    BY <2>1, BundleTyped
  <2> QED BY <2>2 DEF b
<1>3. \A f \in Files : Planned(f) \in PlanFile(f)
  BY <1>1 DEF Planned, PlanFile, DataCells
<1> QED BY <1>2, <1>3 DEF DataCells

\* Everything but the plan of the attempt in preparation.
Prepares ==
    /\ UNCHANGED senderOnly
    /\ sender' \in Senders /\ sender'.pc \in Preparing
    /\ sender'.id \in Ids /\ sender'.attempt \in Attempts
    /\ \/ sender.pc \in Preparing /\ sender'.attempt = sender.attempt /\ sender'.id = sender.id
       \/ sender.pc \in {"idle", "done"} /\ sender'.attempt = sender.attempt + 1
    /\ \/ snapshot' = snapshot
       \/ /\ staging[sender'.id].state = "NONE"
          /\ snapshot' = [snapshot EXCEPT ![sender'.id] = [f \in Files |-> source[f].cells]]

LEMMA PreparesKeeps ==
    ASSUME TInv, Prepares, SenderSound', PlanSound', Inspected' => Taken(sender.id)'
    PROVE  TInv'
<1>1. UNCHANGED <<source, gone, seed, pipe, answers, linked, session, staging>>
  BY DEF Prepares, senderOnly
<1>2. /\ snapshot' \in [Ids -> Bundles]
      /\ \A t \in Ids : staging[t].state # "NONE" => snapshot'[t] = snapshot[t]
      /\ \A t \in Ids : Taken(t) => Taken(t)'
  <2>1. snapshot \in [Ids -> Bundles]
    BY DEF TInv, Typed, StoreTyped
  <2>2. CASE snapshot' = snapshot
    BY <2>1, <2>2 DEF Taken
  <2>3. CASE staging[sender'.id].state = "NONE" /\ snapshot' = [snapshot EXCEPT ![sender'.id] = [f \in Files |-> source[f].cells]]
    <3>1. [f \in Files |-> source[f].cells] \in Bundles
      BY NowTyped DEF TInv
    <3>2. sender'.id \in Ids
      BY DEF Prepares
    <3> DEFINE b == [f \in Files |-> source[f].cells]
    <3>3. \A f \in Files : b[f] \in Contents[f]
      BY StoreFields DEF TInv
    <3> HIDE DEF b
    <3>4. snapshot' = [snapshot EXCEPT ![sender'.id] = b] /\ b \in Bundles
      BY <2>3, <3>1 DEF b
    <3>5. snapshot' \in [Ids -> Bundles] /\ \A t \in Ids : snapshot'[t] = IF t = sender'.id THEN b ELSE snapshot[t]
      BY <3>2, <3>4, <2>1
    <3> QED BY <2>3, <3>3, <3>5 DEF Taken
  <2> QED BY <2>2, <2>3 DEF Prepares
<1>3. Typed'
  BY <1>1, <1>2 DEF TInv, Typed, SenderTyped, PipeTyped, SessionTyped, StoreTyped, Live, Prepares
<1>4. sender'.pc \notin Sending /\ sender.pc \notin {"data", "holes"} /\ sender'.pc \notin {"data", "holes"}
  BY DEF Prepares, Preparing, Sending
<1>5. AttemptSound'
  <2>1. sender.attempt \in Nat /\ \A a \in Attempts : a \in Nat
    BY AttemptIsTyped, Sizes DEF TInv, Attempt, Attempts
  <2>2. ASSUME NEW a \in Attempts, a > sender'.attempt \/ a = sender'.attempt
        PROVE  session[a] = Session /\ Quiet(a)
    <3>1. a > sender.attempt \/ (a = sender.attempt /\ sender.pc \in Preparing)
      BY <2>1, <2>2 DEF Prepares
    <3> QED BY <3>1 DEF TInv, AttemptSound
  <2> QED BY <1>1, <1>4, <2>2 DEF AttemptSound, Quiet
<1>6. StageSound'
  <2>1. ASSUME NEW t \in Ids
        PROVE  /\ IF staging'[t].state = "NONE" THEN \A f \in Files : staging'[t].files[f] = Absent ELSE Taken(t)'
               /\ staging'[t].state = "COMPLETE" => staging'[t].files = snapshot'[t]
    BY <1>1, <1>2 DEF TInv, StageSound, StagedIsSnapshot
  <2>2. ASSUME NEW a \in Attempts, session'[a].pc = "begin" /\ pipe'[a] # <<>>
        PROVE  Taken(Head(pipe[a]).id)'
    <3>1. Record(a) \in Records /\ Record(a).op = "BEGIN"
      BY <1>1, <2>2, RecordTyped DEF TInv, PipeSound, Ops
    <3>2. Head(pipe[a]).id \in Ids
      BY <3>1, RecordFields DEF Record
    <3>3. Taken(Head(pipe[a]).id)
      BY <1>1, <2>2 DEF TInv, StageSound
    <3> DEFINE u == Head(pipe[a]).id
    <3>4. \A f \in Files : snapshot'[u][f] \in Contents[f]
      BY <1>2, <3>2, <3>3 DEF Taken
    <3> QED BY <1>1, <3>4 DEF Taken
  <2> QED BY <2>1, <2>2 DEF StageSound, StagedIsSnapshot
<1>7. BaseSound'
  BY <1>4 DEF BaseSound
<1>8. ASSUME NEW a \in Attempts PROVE PipeSound(a)' /\ SessionSound(a)' /\ StreamSound(a)'
  <2>1. PipeSound(a)'
    BY <1>1 DEF TInv, PipeSound, Ops
  <2>2. Live(a) => session[a].id \in Ids /\ snapshot'[session[a].id] = snapshot[session[a].id]
    BY <1>2, OwnStage
  <2>3. SessionSound(a)'
    BY <1>1, <2>2 DEF TInv, SessionSound, Live, Staged, StagedFiles
  <2>4. ~Streaming(a) /\ ~Streaming(a)'
    BY <1>4 DEF Streaming
  <2>5. StreamSound(a)'
    BY <1>1, <2>2, <2>4 DEF TInv, StreamSound, Live, StagedFiles, Staged, Sealed, Ops, Carries
  <2> QED BY <2>1, <2>3, <2>5
<1> QED BY <1>3, <1>5, <1>6, <1>7, <1>8 DEF TInv

\* The attempt in preparation has no session yet.
LEMMA PreparingAlone ==
    ASSUME TInv, sender.pc \in Preparing
    PROVE  /\ ~Live(Attempt) /\ Attempt \in Attempts /\ sender.id \in Ids
           /\ session[Attempt] = Session /\ Quiet(Attempt)
<1>1. Attempt \in Attempts /\ sender.id \in Ids
  BY DEF TInv, Typed, SenderTyped, Preparing, Attempt
<1> QED BY <1>1, SessionConstants DEF TInv, AttemptSound, Live, Attempt

LEMMA StartTransferKeeps ==
    ASSUME TInv, NEW t \in Ids, StartTransfer(t)
    PROVE  TInv'
<1>1. /\ sender.pc \in {"idle", "done"} /\ sender.attempt < MaxAttempts
      /\ sender' = [Idle EXCEPT !.pc = "inspect", !.id = t, !.attempt = sender.attempt + 1, !.todo = Order]
      /\ snapshot' = snapshot /\ UNCHANGED senderOnly
  BY DEF StartTransfer
<1>2. sender.attempt \in 0 .. MaxAttempts /\ sender.attempt + 1 \in Attempts /\ sender.attempt + 1 \in 0 .. MaxAttempts
  BY <1>1, AttemptIsTyped, Sizes DEF TInv, Attempt, Attempts
<1>3. /\ sender' \in Senders
      /\ sender'.pc = "inspect" /\ sender'.id = t /\ sender'.attempt = sender.attempt + 1 /\ sender'.todo = Order
      /\ sender'.plan = NoPlan /\ sender'.seeded = FALSE
  BY <1>1, <1>2, Sizes, PlanTyped DEF Idle, Senders, SenderPcs
<1>4. Prepares
  BY <1>1, <1>2, <1>3 DEF Prepares, Preparing
<1>5. source' = source /\ \A f \in Files : source[f].version \in 0 .. MaxWrites
  BY <1>1, StoreFields DEF senderOnly, TInv
<1>6. \A f \in Files : sender'.plan[f].version <= source'[f].version
  BY <1>3, <1>5, Sizes DEF NoPlan, NoPlanFile
<1>7. SenderSound'
  BY <1>3, <1>6 DEF SenderSound
<1>8. Elems(sender'.todo) = Files
  BY <1>3 DEF Elems, Files
<1>9. PlanSound'
  BY <1>3, <1>8 DEF PlanSound, Inspected, Preparing, Sending
<1>10. ~Inspected'
  BY <1>3 DEF Inspected, Preparing, Sending
<1> QED BY <1>4, <1>7, <1>9, <1>10, PreparesKeeps

LEMMA InspectFileKeeps ==
    ASSUME TInv, InspectFile
    PROVE  TInv'
<1> DEFINE f == Head(sender.todo)
           p == [sender.plan EXCEPT ![f] = Planned(f)]
<1>1. /\ sender.pc = "inspect" /\ sender.todo # <<>>
      /\ sender' = [sender EXCEPT !.todo = Tail(@), !.plan[f] = Planned(f)]
      /\ snapshot' = snapshot /\ UNCHANGED senderOnly
  BY DEF InspectFile
<1>2. sender.todo \in Seq(Files) /\ sender.id \in Ids /\ sender.attempt \in Attempts
  BY <1>1, SenderFields DEF TInv, Typed, SenderTyped, Senders
<1>3. f \in Files /\ Tail(sender.todo) \in Seq(Files) /\ Elems(sender.todo) = {f} \cup Elems(Tail(sender.todo))
  BY <1>1, <1>2, HeadElement
<1>4. p \in Plans /\ p[f] = Planned(f) /\ \A g \in Files : g # f => p[g] = sender.plan[g]
  BY <1>3, AttemptIsTyped, PlanTyped, NowTyped DEF TInv
<1>5. sender' = [sender EXCEPT !.todo = Tail(@), !.plan = p]
  BY <1>1
<1> HIDE DEF p, f
<1>6. /\ sender' \in Senders /\ sender'.pc = "inspect" /\ sender'.id = sender.id /\ sender'.attempt = sender.attempt
      /\ sender'.todo = Tail(sender.todo) /\ sender'.plan = p /\ sender'.seeded = sender.seeded
  BY <1>1, <1>3, <1>4, <1>5, SenderFields DEF TInv, Senders
<1>7. Prepares
  BY <1>1, <1>2, <1>6 DEF Prepares, Preparing
<1>8. source' = source /\ \A g \in Files : source[g].version \in 0 .. MaxWrites
  BY <1>1, StoreFields DEF senderOnly, TInv
<1>9. \A g \in Files : p[g].version <= source[g].version
  BY <1>4, <1>8, Sizes DEF Planned, TInv, SenderSound
<1>10. SenderSound'
  BY <1>1, <1>6, <1>8, <1>9 DEF TInv, SenderSound, Preparing
<1>11. ASSUME NEW g \in Files \ Elems(Tail(sender.todo)), source[g].version = p[g].version
       PROVE  FullPlan(g, p[g], source[g].cells)
  <2>1. CASE g = f
    BY <2>1, <1>4 DEF Planned, FullPlan, DataCells
  <2>2. CASE g # f
    BY <2>2, <1>1, <1>3, <1>4, <1>11 DEF TInv, PlanSound, Fresh
  <2> QED BY <2>1, <2>2
<1>12. PlanSound'
  BY <1>6, <1>8, <1>11 DEF PlanSound, Inspected, Preparing, Sending, Fresh, FullPlan
<1>13. ~Inspected'
  BY <1>6 DEF Inspected, Preparing, Sending
<1> QED BY <1>7, <1>10, <1>12, <1>13, PreparesKeeps

LEMMA InspectDoneKeeps ==
    ASSUME TInv, InspectDone
    PROVE  TInv'
<1> DEFINE b == [f \in Files |-> source[f].cells]
           t == sender.id
<1>1. /\ sender.pc = "inspect" /\ sender.todo = <<>>
      /\ sender' = [sender EXCEPT !.pc = "seed"]
      /\ snapshot' = IF staging[t].state = "NONE" THEN [snapshot EXCEPT ![t] = b] ELSE snapshot
      /\ UNCHANGED senderOnly
  BY DEF InspectDone
<1>2. /\ t \in Ids /\ sender.attempt \in Attempts /\ ~Live(Attempt) /\ ~sender.seeded
      /\ snapshot \in [Ids -> Bundles]
  BY <1>1, PreparingAlone DEF TInv, Typed, StoreTyped, SenderSound, Preparing, Attempt
<1>3. /\ sender' \in Senders /\ sender'.pc = "seed" /\ sender'.id = t /\ sender'.attempt = sender.attempt
      /\ sender'.todo = <<>> /\ sender'.plan = sender.plan /\ sender'.seeded = sender.seeded
  BY <1>1, SenderFields DEF TInv, Senders, SenderPcs
<1>4. UNCHANGED <<source, seed, session, staging>>
  BY <1>1 DEF senderOnly
<1>5. Prepares
  BY <1>1, <1>2, <1>3 DEF Prepares, Preparing
<1>6. SenderSound'
  BY <1>1, <1>2, <1>3, <1>4 DEF TInv, SenderSound
<1>7. Elems(sender.todo) = {}
  BY <1>1, NoElement
<1>8. CASE staging[t].state = "NONE"
  <2> HIDE DEF b
  <2>1. snapshot'[t] = b
    BY <1>1, <1>2, <1>8
  <2>2. \A f \in Files : Fresh(f) => FullPlan(f, sender.plan[f], b[f]) /\ source[f].cells = b[f]
    BY <1>1, <1>7 DEF TInv, PlanSound, b
  <2>3. PlanSound'
    BY <2>1, <2>2, <1>2, <1>3, <1>4 DEF PlanSound, PlanFits, Fresh, FullPlan, Target
  <2>4. \A f \in Files : b[f] \in Contents[f]
    BY StoreFields DEF TInv, b
  <2>5. Taken(sender.id)'
    BY <2>1, <2>4, <1>3 DEF Taken
  <2> QED BY <1>5, <1>6, <2>3, <2>5, PreparesKeeps
<1>9. CASE staging[t].state # "NONE"
  <2>1. ~Mine'
    BY <1>9, <1>2, <1>3, <1>4 DEF Mine, Live, Attempt
  <2>2. PlanSound'
    BY <2>1, <1>3 DEF PlanSound
  <2>3. Taken(sender.id)'
    BY <1>1, <1>2, <1>3, <1>9 DEF TInv, StageSound, Taken
  <2> QED BY <1>5, <1>6, <2>2, <2>3, PreparesKeeps
<1> QED BY <1>8, <1>9

\* The plan of a transfer whose bundle has been inspected.
LEMMA InspectedPlan ==
    ASSUME TInv, UNCHANGED <<senderOnly, snapshot>>, sender' \in Senders,
           sender.pc \in {"seed", "compare", "compared"}, sender'.pc \in Preparing \ {"inspect"},
           sender'.id = sender.id, sender'.attempt = sender.attempt,
           SenderSound',
           Mine => \A f \in Files : Fresh(f)' =>
               source[f].cells = Target[f] /\ PlanFits(f, sender.plan[f], Target[f])',
           sender'.pc = "compare" /\ Mine => \A f \in Files \ Elems(sender'.todo) :
               Fresh(f)' => IF f \in Disks THEN DeltaPlan(f, sender'.delta[f], Target[f])
                                           ELSE FullPlan(f, sender'.delta[f], Target[f])
    PROVE  TInv'
<1>1. UNCHANGED <<source, seed, session, staging, snapshot>> /\ UNCHANGED senderOnly
  BY DEF senderOnly
<1>2. sender.id \in Ids /\ sender.attempt \in Attempts
  BY PreparingAlone DEF Preparing, Attempt
<1>3. Prepares
  BY <1>1, <1>2 DEF Prepares, Preparing
<1>4. Mine' = Mine /\ Target' = Target
  BY <1>1 DEF Mine, Live, Attempt, Target
<1>5. \A f, p, x : DeltaPlan(f, p, x)' <=> DeltaPlan(f, p, x)
  BY <1>1 DEF DeltaPlan, Agree
<1>6. PlanSound'
  BY <1>1, <1>4, <1>5 DEF PlanSound, FullPlan, Inspected, Preparing, Sending
<1>7. Taken(sender.id)'
  BY <1>1 DEF TInv, StageSound, Inspected, Preparing, Taken
<1> QED BY <1>3, <1>6, <1>7, PreparesKeeps

LEMMA SeedGivenUpKeeps ==
    ASSUME TInv, SeedGivenUp
    PROVE  TInv'
<1>1. /\ sender.pc \in {"seed", "compare", "compared"}
      /\ sender' = [sender EXCEPT !.pc = "begin", !.todo = Order, !.delta = NoPlan]
      /\ UNCHANGED <<senderOnly, snapshot>>
  BY DEF SeedGivenUp, senderOnly
<1>2. /\ sender' \in Senders /\ sender'.pc = "begin" /\ sender'.id = sender.id /\ sender'.attempt = sender.attempt
      /\ sender'.plan = sender.plan /\ sender'.seeded = sender.seeded
  BY <1>1, SenderFields, Sizes, PlanTyped DEF TInv, Senders, SenderPcs
<1>3. UNCHANGED <<source, seed, session, staging>>
  BY <1>1 DEF senderOnly
<1>4. SenderSound'
  BY <1>2, <1>3 DEF TInv, SenderSound, Preparing
<1>5. Mine => \A f \in Files : Fresh(f)' =>
               source[f].cells = Target[f] /\ PlanFits(f, sender.plan[f], Target[f])'
  <2>1. Inspected
    BY <1>1 DEF Inspected, Preparing
  <2>2. \A f : Fresh(f)' = Fresh(f)
    BY <1>2, <1>3 DEF Fresh
  <2>3. \A f : PlanFits(f, sender.plan[f], Target[f])' = PlanFits(f, sender.plan[f], Target[f])
    BY <1>1, <1>2, <1>3 DEF PlanFits, DeltaPlan, Agree, FullPlan, LeftOut, Target
  <2> QED BY <2>1, <2>2, <2>3 DEF TInv, PlanSound
<1> QED BY <1>1, <1>2, <1>4, <1>5, InspectedPlan DEF Preparing

LEMMA SeedReadyKeeps ==
    ASSUME TInv, SeedReady
    PROVE  TInv'
<1>1. /\ sender.pc = "seed"
      /\ sender' = [sender EXCEPT !.pc = "compare", !.todo = Order, !.delta = sender.plan]
      /\ UNCHANGED <<senderOnly, snapshot>>
  BY DEF SeedReady, senderOnly
<1>2. /\ sender' \in Senders /\ sender'.pc = "compare" /\ sender'.id = sender.id /\ sender'.attempt = sender.attempt
      /\ sender'.plan = sender.plan /\ sender'.seeded = sender.seeded /\ sender'.todo = Order
      /\ sender'.delta = sender.plan
  BY <1>1, SenderFields, Sizes DEF TInv, Senders, SenderPcs
<1>3. UNCHANGED <<source, seed, session, staging>>
  BY <1>1 DEF senderOnly
<1>4. SenderSound'
  BY <1>1, <1>2, <1>3 DEF TInv, SenderSound, Preparing
<1>5. Mine => \A f \in Files : Fresh(f)' =>
               source[f].cells = Target[f] /\ PlanFits(f, sender.plan[f], Target[f])'
  <2>1. Inspected
    BY <1>1 DEF Inspected, Preparing
  <2>2. \A f : Fresh(f)' = Fresh(f)
    BY <1>2, <1>3 DEF Fresh
  <2>3. \A f : PlanFits(f, sender.plan[f], Target[f])' = PlanFits(f, sender.plan[f], Target[f])
    BY <1>1, <1>2, <1>3 DEF PlanFits, DeltaPlan, Agree, FullPlan, LeftOut, Target
  <2> QED BY <2>1, <2>2, <2>3 DEF TInv, PlanSound
<1>6. Elems(sender'.todo) = Files
  BY <1>2 DEF Elems, Files
<1>7. UNCHANGED <<senderOnly, snapshot>> /\ sender.pc \in {"seed", "compare", "compared"} /\ sender'.pc \in Preparing \ {"inspect"}
  BY <1>1, <1>2 DEF Preparing
<1> QED BY <1>2, <1>4, <1>5, <1>6, <1>7, InspectedPlan

LEMMA DivisionGrows ==
    ASSUME NEW k \in Nat \ {0}, NEW m \in Nat, NEW n \in Nat, m <= n
    PROVE  m \div k \in 0 .. n \div k
<1> DEFINE p == m \div k
           q == n \div k
<1>1. /\ p \in Int /\ q \in Int
      /\ m = k * p + (m % k) /\ m % k \in 0 .. k - 1
      /\ n = k * q + (n % k) /\ n % k \in 0 .. k - 1
  OBVIOUS
<1> HIDE DEF p, q
<1>2. k * p < k * (q + 1)
  BY <1>1
<1>3. 0 < k * (p + 1)
  BY <1>1
<1>4. p < q + 1
  BY <1>1, <1>2
<1>5. 0 < p + 1
  BY <1>1, <1>3
<1> QED BY <1>1, <1>4, <1>5 DEF p, q

\* A block whose signatures agree holds the same in both files.
LEMMA SameBlock ==
    ASSUME TInv, NEW f \in Disks, seed # NoSeed, NEW c \in CellsOf(f),
           FullPlan(f, sender.plan[f], source[f].cells),
           c \notin UNION {Block(f, b) : b \in Changed(f)}
    PROVE  seed[f][c] = source[f].cells[c]
<1> DEFINE b == (c - 1) \div CompareCells
<1>1. c - 1 \in Nat /\ Size[f] - 1 \in Nat /\ c - 1 <= Size[f] - 1 /\ CompareCells \in Nat \ {0}
  BY TransferAssumption, Sizes DEF CellsOf
<1>2. b \in Blocks(f)
  BY <1>1, DivisionGrows DEF Blocks
<1>3. c \in Block(f, b)
  BY DEF Block
<1> HIDE DEF b
<1>4. SourceSignature(f, b) = SeedSignature(f, b)
  BY <1>2, <1>3 DEF Changed
<1>5. CASE SourceSignature(f, b) = <<"HOLE">>
  <2>1. Block(f, b) \cap sender.plan[f].extents = {}
    BY <1>5 DEF SourceSignature
  <2>2. \A e \in Block(f, b) : seed[f][e] = Hole
    BY <1>4, <1>5 DEF SeedSignature
  <2>3. source[f].cells[c] = Hole
    BY <2>1, <1>3 DEF FullPlan
  <2> QED BY <2>2, <2>3, <1>3
<1>6. CASE SourceSignature(f, b) # <<"HOLE">>
  <2>1. SourceSignature(f, b) = <<"SHA256", [e \in Block(f, b) |-> source[f].cells[e]]>>
    BY <1>6 DEF SourceSignature
  <2>2. SeedSignature(f, b) = <<"SHA256", [e \in Block(f, b) |-> seed[f][e]]>>
    BY <1>4, <1>6 DEF SeedSignature
  <2>3. [e \in Block(f, b) |-> source[f].cells[e]] = [e \in Block(f, b) |-> seed[f][e]]
    BY <2>1, <2>2, <1>4
  <2> QED BY <2>3, <1>3
<1> QED BY <1>5, <1>6

\* The plan against the seed: what it leaves out is there already.
LEMMA DeltaFits ==
    ASSUME TInv, NEW f \in Disks, FullPlan(f, sender.plan[f], source[f].cells)
    PROVE  DeltaPlan(f, DeltaFile(f), source[f].cells)
<1> DEFINE cells == UNION {Block(f, b) : b \in Changed(f)}
           p == sender.plan[f]
<1>1. p \in PlanFile(f) /\ p.extents \subseteq CellsOf(f)
  BY SenderFields, Sizes DEF TInv
<1>2. cells \subseteq CellsOf(f)
  BY DEF Block
<1>3. DeltaFile(f).extents = p.extents \cap cells /\ DeltaFile(f).holes = cells \ p.extents
  BY <1>1 DEF DeltaFile, PlanFile
<1>4. \A c \in CellsOf(f) : c \notin cells /\ seed # NoSeed => seed[f][c] = source[f].cells[c]
  BY SameBlock
<1> HIDE DEF cells
<1>5. \A c \in DeltaFile(f).holes : source[f].cells[c] = Hole
  BY <1>2, <1>3 DEF FullPlan
<1>6. \A c \in LeftOut(f, DeltaFile(f)) : c \in CellsOf(f) /\ c \notin cells
  BY <1>3 DEF LeftOut
<1> QED BY <1>4, <1>5, <1>6 DEF DeltaPlan, Agree

LEMMA DeltaTyped ==
    ASSUME Typed, NEW f \in Files
    PROVE  DeltaFile(f) \in PlanFile(f) /\ DeltaFile(f).version = sender.plan[f].version
<1> DEFINE cells == UNION {Block(f, b) : b \in Changed(f)}
<1>1. sender.plan[f] \in PlanFile(f)
  BY SenderFields
<1>2. cells \subseteq CellsOf(f)
  BY DEF Block
<1>3. DeltaFile(f) = [sender.plan[f] EXCEPT !.extents = @ \cap cells, !.holes = cells \ sender.plan[f].extents]
  BY DEF DeltaFile
<1> HIDE DEF cells
<1> QED BY <1>1, <1>2, <1>3 DEF PlanFile

LEMMA CompareFileKeeps ==
    ASSUME TInv, CompareFile
    PROVE  TInv'
<1> DEFINE f == Head(sender.todo)
           q == IF f \in Disks THEN DeltaFile(f) ELSE sender.plan[f]
           d == [sender.delta EXCEPT ![f] = q]
<1>1. /\ sender.pc = "compare" /\ sender.todo # <<>>
      /\ sender' = [sender EXCEPT !.todo = Tail(@), !.delta[f] = q]
      /\ UNCHANGED <<senderOnly, snapshot>>
  BY DEF CompareFile, senderOnly
<1>2. sender.todo \in Seq(Files)
  BY AttemptIsTyped DEF TInv
<1>3. f \in Files /\ Tail(sender.todo) \in Seq(Files) /\ Elems(sender.todo) = {f} \cup Elems(Tail(sender.todo))
  BY <1>1, <1>2, HeadElement
<1> HIDE DEF f
<1>4. q \in PlanFile(f) /\ q.version = sender.plan[f].version
  BY <1>3, DeltaTyped, SenderFields DEF TInv
<1> HIDE DEF q
<1>5. d \in Plans /\ d[f] = q /\ \A g \in Files : g # f => d[g] = sender.delta[g]
  BY <1>3, <1>4, AttemptIsTyped, PlanTyped DEF TInv
<1>6. sender' = [sender EXCEPT !.todo = Tail(@), !.delta = d]
  BY <1>1
<1> HIDE DEF d
<1>7. /\ sender' \in Senders /\ sender'.pc = "compare" /\ sender'.id = sender.id /\ sender'.attempt = sender.attempt
      /\ sender'.plan = sender.plan /\ sender'.seeded = sender.seeded /\ sender'.todo = Tail(sender.todo)
      /\ sender'.delta = d
  BY <1>1, <1>3, <1>5, <1>6, SenderFields DEF TInv, Senders
<1>8. UNCHANGED <<source, seed, session, staging>>
  BY <1>1 DEF senderOnly
<1>9. \A g \in Files : d[g].version = sender.plan[g].version
  BY <1>1, <1>4, <1>5 DEF TInv, SenderSound
<1>10. SenderSound'
  BY <1>1, <1>7, <1>8, <1>9 DEF TInv, SenderSound, Preparing
<1>11. \A g : Fresh(g)' = Fresh(g)
  BY <1>7, <1>8 DEF Fresh
<1>12. ~sender.seeded /\ (Mine => \A g \in Files : Fresh(g) =>
               source[g].cells = Target[g] /\ FullPlan(g, sender.plan[g], Target[g]))
  BY <1>1 DEF TInv, SenderSound, PlanSound, PlanFits, Inspected, Preparing
<1>13. Mine => \A g \in Files : Fresh(g)' =>
               source[g].cells = Target[g] /\ PlanFits(g, sender.plan[g], Target[g])'
  BY <1>1, <1>7, <1>11, <1>12 DEF PlanFits, FullPlan, Target
<1>14. ASSUME Mine, NEW g \in Files \ Elems(Tail(sender.todo)), Fresh(g)
       PROVE  IF g \in Disks THEN DeltaPlan(g, d[g], Target[g]) ELSE FullPlan(g, d[g], Target[g])
  <2>1. CASE g = f
    BY <2>1, <1>5, <1>12, <1>14, DeltaFits DEF q
  <2>2. CASE g # f
    BY <2>2, <1>1, <1>3, <1>5, <1>14 DEF TInv, PlanSound
  <2> QED BY <2>1, <2>2
<1>15. /\ sender.pc \in {"seed", "compare", "compared"} /\ sender'.pc \in Preparing \ {"inspect"}
       /\ UNCHANGED <<senderOnly, snapshot>>
  BY <1>1, <1>7 DEF Preparing
<1>16. sender'.pc = "compare" /\ Mine => \A g \in Files \ Elems(sender'.todo) :
               Fresh(g)' => IF g \in Disks THEN DeltaPlan(g, sender'.delta[g], Target[g])
                                           ELSE FullPlan(g, sender'.delta[g], Target[g])
  BY <1>7, <1>11, <1>14
<1> QED BY <1>7, <1>10, <1>13, <1>15, <1>16, InspectedPlan

LEMMA SeedDoneKeeps ==
    ASSUME TInv, SeedDone
    PROVE  TInv'
<1>1. /\ sender.pc = "compare" /\ sender.todo = <<>>
      /\ sender' = [sender EXCEPT !.pc = "begin", !.todo = Order, !.plan = sender.delta,
                                  !.delta = NoPlan, !.seeded = TRUE]
      /\ UNCHANGED <<senderOnly, snapshot>>
  BY DEF SeedDone, senderOnly
<1>2. /\ sender' \in Senders /\ sender'.pc = "begin" /\ sender'.id = sender.id /\ sender'.attempt = sender.attempt
      /\ sender'.plan = sender.delta /\ sender'.seeded = TRUE
  BY <1>1, SenderFields, Sizes, PlanTyped DEF TInv, Senders, SenderPcs
<1>3. UNCHANGED <<source, seed, session, staging>>
  BY <1>1 DEF senderOnly
<1>4. \A f \in Files : sender.delta[f].version = sender.plan[f].version
  BY <1>1 DEF TInv, SenderSound
<1>5. SenderSound'
  BY <1>1, <1>2, <1>3, <1>4 DEF TInv, SenderSound, Preparing
<1>6. \A f \in Files : Fresh(f)' = Fresh(f)
  BY <1>2, <1>3, <1>4 DEF Fresh
<1>7. Elems(sender.todo) = {}
  BY <1>1, NoElement
<1>8. ASSUME Mine, NEW f \in Files, Fresh(f)
      PROVE  source[f].cells = Target[f] /\ PlanFits(f, sender.plan[f], Target[f])'
  <2>1. source[f].cells = Target[f]
    BY <1>1, <1>8 DEF TInv, PlanSound, Inspected, Preparing
  <2>2. IF f \in Disks THEN DeltaPlan(f, sender.delta[f], Target[f]) ELSE FullPlan(f, sender.delta[f], Target[f])
    BY <1>1, <1>7, <1>8 DEF TInv, PlanSound
  <2>3. Target' = Target
    BY <1>1, <1>2 DEF Target
  <2> QED BY <2>1, <2>2, <2>3, <1>2, <1>3 DEF PlanFits, DeltaPlan, FullPlan, Agree
<1>9. /\ sender.pc \in {"seed", "compare", "compared"} /\ sender'.pc \in Preparing \ {"inspect"} /\ sender'.pc # "compare"
      /\ UNCHANGED <<senderOnly, snapshot>>
  BY <1>1, <1>2 DEF Preparing
<1> QED BY <1>2, <1>5, <1>6, <1>8, <1>9, InspectedPlan

-----------------------------------------------------------------------------
(* Steps of the sender that send, hear, or end an attempt.                 *)

\* The plan is as it was, and only the attempt itself changes.
Sends ==
    /\ UNCHANGED <<source, gone, seed, snapshot, staging>>
    /\ sender.pc \in Sending \cup {"begin"}
    /\ sender' \in Senders /\ sender'.pc \in Sending
    /\ sender'.id = sender.id /\ sender'.attempt = sender.attempt
    /\ sender'.plan = sender.plan /\ sender'.seeded = sender.seeded
    /\ PipeTyped' /\ answers' \in [Attempts -> Seq(Statuses)] /\ session' \in [Attempts -> Sessions]
    /\ OthersKept(Attempt) /\ linked' \in SUBSET Attempts
    /\ Live(Attempt)' <=> Live(Attempt)
    /\ Live(Attempt) => session'[Attempt] = session[Attempt] /\ linked' = linked

\* What is left to show of such a step.
SendSound(a) ==
    /\ PipeSound(a) /\ StreamSound(a)
    /\ Live(a) \/ session[a].pc = "begin" => a \in linked /\ Handshake(a)
    /\ session[a].pc = "begin" /\ pipe[a] # <<>> => Taken(Head(pipe[a]).id)
    /\ sender.pc = "open" /\ Live(a) => session[a].current # File

LEMMA SendsKeeps ==
    ASSUME TInv, NEW a \in Attempts, a = Attempt, Sends, SenderSound', SendSound(a)'
    PROVE  TInv'
<1>1. /\ UNCHANGED <<source, gone, seed, snapshot, staging>>
      /\ sender'.pc \in Sending /\ Attempt' = Attempt
      /\ sender'.id = sender.id /\ sender'.plan = sender.plan /\ sender'.seeded = sender.seeded
  BY DEF Sends, Attempt
<1>2. a \in Attempts /\ sender.id \in Ids /\ Inspected /\ Inspected'
  BY AttemptIsTyped DEF Sends, TInv, Inspected, Sending, Preparing
<1>3. \A b \in Attempts \ {a} : session'[b] = session[b] /\ pipe'[b] = pipe[b] /\ answers'[b] = answers[b]
  BY DEF Sends, OthersKept
<1>4. /\ \A b \in Attempts : Live(b)' <=> Live(b)
      /\ \A b \in Attempts : Live(b) => session'[b] = session[b]
  <2> SUFFICES ASSUME NEW b \in Attempts
               PROVE  (Live(b)' <=> Live(b)) /\ (Live(b) => session'[b] = session[b])
    OBVIOUS
  <2>1. CASE b = a
    BY <2>1, <1>1 DEF Sends, Live
  <2>2. CASE b # a
    BY <2>2, <1>3 DEF Live
  <2> QED BY <2>1, <2>2
<1>5. Typed'
  <2>1. SenderTyped'
    BY <1>1, <1>2 DEF Sends, SenderTyped, Attempt
  <2>2. SessionTyped'
    BY <1>4 DEF Sends, SessionTyped, TInv, Typed, Live
  <2> QED BY <1>1, <2>1, <2>2 DEF Sends, TInv, Typed, StoreTyped
<1>6. PlanSound'
  <2>1. \A f : Fresh(f)' = Fresh(f)
    BY <1>1 DEF Fresh
  <2>2. \A f : PlanFits(f, sender.plan[f], Target[f])' = PlanFits(f, sender.plan[f], Target[f])
    BY <1>1 DEF PlanFits, DeltaPlan, Agree, FullPlan, LeftOut, Target
  <2>3. Target' = Target /\ Mine' = Mine
    BY <1>1, <1>2, <1>4 DEF Target, Mine
  <2> QED BY <1>1, <1>2, <2>1, <2>2, <2>3 DEF TInv, PlanSound, Sending
<1>7. AttemptSound'
  <2>1. ASSUME NEW b \in Attempts, b > sender.attempt PROVE session'[b] = Session /\ Quiet(b)'
    <3>1. b # a
      BY <2>1, <1>2 DEF Attempt, Attempts
    <3> QED BY <3>1, <2>1, <1>3 DEF TInv, AttemptSound, Quiet
  <2>2. sender'.pc \notin Preparing /\ sender'.attempt = sender.attempt
    BY <1>1 DEF Sends, Sending, Preparing
  <2>4. Live(a) => session'[a].id = sender'.id /\ session'[a].seeded = sender'.seeded
    <3>1. Live(a) => sender.pc \in Sending
      BY PreparingAlone DEF Sends, Preparing
    <3> QED BY <3>1, <1>1, <1>2, <1>4 DEF TInv, AttemptSound
  <2> QED BY <2>1, <2>2, <2>4, <1>1, <1>2, <1>4 DEF AttemptSound, SendSound
<1>8. StageSound'
  <2>1. \A u : Taken(u)' <=> Taken(u)
    BY <1>1 DEF Taken
  <2>2. \A b \in Attempts : session'[b].pc = "begin" /\ pipe'[b] # <<>> => Taken(Head(pipe[b]).id)'
    <3> TAKE b \in Attempts
    <3>1. CASE b = a
      BY <3>1, <1>1 DEF SendSound
    <3>2. CASE b # a
      BY <3>2, <1>1, <1>3 DEF TInv, StageSound, Taken
    <3> QED BY <3>1, <3>2
  <2>3. Taken(sender.id)'
    BY <1>1, <1>2 DEF TInv, StageSound, Taken
  <2>4. \A t \in Ids : IF staging'[t].state = "NONE" THEN \A f \in Files : staging'[t].files[f] = Absent
                       ELSE Taken(t)'
    BY <1>1, <2>1 DEF TInv, StageSound
  <2> QED BY <1>1, <2>2, <2>3, <2>4 DEF TInv, StageSound, StagedIsSnapshot
<1>9. BaseSound'
  <2> SUFFICES ASSUME Live(a) PROVE BaseSound'
    BY <1>1, <1>2, <1>4 DEF BaseSound
  <2>1. session'[a] = session[a] /\ sender.pc \in Sending
    BY <1>2, <1>4, PreparingAlone DEF Sends, Preparing
  <2>2. \A f : BaseFits(f)' <=> BaseFits(f)
    BY <2>1, <1>1 DEF BaseFits, Fresh, Agree, LeftOut, StagedFiles, Staged, Target, Attempt
  <2>3. StagedFiles(a)' = StagedFiles(a)
    BY <2>1, <1>1 DEF StagedFiles, Staged
  <2>4. sender'.pc = "open" => session'[a].current # File'
    BY <1>1, <1>2, <1>4 DEF SendSound
  <2> QED BY <1>1, <2>1, <2>2, <2>3, <2>4 DEF TInv, BaseSound
<1>10. ASSUME NEW b \in Attempts PROVE PipeSound(b)' /\ SessionSound(b)' /\ StreamSound(b)'
  <2>1. SessionSound(b)'
    BY <1>1, <1>4 DEF TInv, SessionSound, Live, Staged, StagedFiles
  <2>2. CASE b = a
    BY <2>1, <2>2, <1>1 DEF SendSound
  <2>3. CASE b # a
    <3>1. PipeSound(b)'
      BY <2>3, <1>3 DEF TInv, PipeSound, Ops
    <3>2. ~Streaming(b) /\ ~Streaming(b)'
      BY <2>3, <1>1 DEF Streaming
    <3>3. StreamSound(b)'
      <4>1. pipe'[b] = pipe[b] /\ session'[b] = session[b] /\ UNCHANGED <<snapshot, staging>>
        BY <2>3, <1>1, <1>3
      <4>2. /\ Sealed(b)' <=> Sealed(b)
            /\ \A c : Carries(b, c)' <=> Carries(b, c)
            /\ StagedFiles(b)' = StagedFiles(b)
        BY <4>1 DEF Sealed, Ops, Carries, StagedFiles, Staged
      <4>3. StreamSound(b)
        BY DEF TInv
      <4> QED BY <4>1, <4>2, <4>3, <3>2 DEF StreamSound
    <3> QED BY <2>1, <3>1, <3>3
  <2> QED BY <2>2, <2>3
<1> QED BY <1>5, <1>6, <1>7, <1>8, <1>9, <1>10 DEF TInv

\* Hearing and sending, with an attempt whose session may have ended.
LEMMA HearEffect ==
    ASSUME Typed, NEW a \in Attempts, a = Attempt, NEW status, Hear(status)
    PROVE  /\ answers' \in [Attempts -> Seq(Statuses)]
           /\ \A b \in Attempts \ {a} : answers'[b] = answers[b]
           /\ answers[a] # <<>>
           /\ \A x \in Statuses : answers[a] = <<x>> => x = status /\ answers'[a] = <<>>
<1>1. answers \in [Attempts -> Seq(Statuses)] /\ answers[a] # <<>> /\ Head(answers[a]) = status
      /\ answers' = [answers EXCEPT ![a] = Tail(answers[a])]
  BY DEF Hear, Typed
<1>2. Tail(answers[a]) \in Seq(Statuses)
  BY <1>1, HeadElement
<1>3. \A x \in Statuses : answers[a] = <<x>> => x = Head(answers[a]) /\ Tail(answers[a]) = <<>>
  OBVIOUS
<1>4. answers'[a] = Tail(answers[a])
  BY <1>1
<1> QED BY <1>1, <1>2, <1>3, <1>4

LEMMA SendEffect ==
    ASSUME Typed, NEW a \in Attempts, a = Attempt, NEW m \in Records, Send(m)
    PROVE  /\ PipeTyped' /\ a \in linked
           /\ \A b \in Attempts \ {a} : pipe'[b] = pipe[b]
           /\ Elems(pipe'[a]) = Elems(pipe[a]) \cup {m} /\ pipe'[a] # <<>>
           /\ pipe[a] = <<>> => Head(pipe'[a]) = m
           /\ Ops(a) \subseteq CellOps => Shape(pipe'[a])
<1> DEFINE s == pipe[a]
           t == Append(s, m)
<1>1. /\ pipe \in [Attempts -> Seq(Records)] /\ s \in Seq(Records) /\ a \in linked
      /\ \A b \in Attempts : Len(pipe[b]) <= MaxInFlight
      /\ Len(s) < MaxInFlight /\ pipe' = [pipe EXCEPT ![a] = t]
  BY DEF Send, Typed, PipeTyped
<1>2. /\ t \in Seq(Records) /\ t # <<>> /\ Len(s) \in Nat /\ Len(t) = Len(s) + 1
      /\ Elems(t) = Elems(s) \cup {m} /\ (s = <<>> => Head(t) = m)
      /\ (\A e \in Elems(s) : e.op \in CellOps) => Shape(t)
  BY <1>1, LastElement
<1>3. Len(t) <= MaxInFlight
  <2> HIDE DEF s, t
  <2> QED BY <1>1, <1>2, Sizes
<1>4. pipe' \in [Attempts -> Seq(Records)] /\ pipe'[a] = t /\ \A b \in Attempts \ {a} : pipe'[b] = pipe[b]
  <2> HIDE DEF t
  <2> QED BY <1>1, <1>2
<1>5. \A b \in Attempts : Len(pipe'[b]) <= MaxInFlight
  BY <1>1, <1>3, <1>4
<1>6. Ops(a) \subseteq CellOps => \A e \in Elems(s) : e.op \in CellOps
  BY DEF Ops
<1> HIDE DEF t
<1> QED BY <1>1, <1>2, <1>4, <1>5, <1>6 DEF PipeTyped

\* The session of an attempt that is being sent.
LEMMA SendingAlone ==
    ASSUME TInv, NEW a \in Attempts, a = Attempt, sender.pc \in Sending
    PROVE  /\ sender.id \in Ids
           /\ Live(a) \/ session[a].pc = "begin" => a \in linked /\ Handshake(a)
           /\ Live(a) => session[a].id = sender.id /\ session[a].seeded = sender.seeded
           /\ sender.pc # "ready" => session[a].pc \notin {"begin", "clone"}
           /\ session[a].pc \in {"none", "begin", "clone", "loop", "receipt", "ended"}
<1>1. sender.id \in Ids
  BY AttemptIsTyped DEF TInv
<1>2. /\ Live(a) \/ session[a].pc = "begin" => a \in linked /\ Handshake(a)
      /\ Live(a) => session[a].id = sender.id /\ session[a].seeded = sender.seeded
  BY DEF TInv, AttemptSound
<1>3. sender.pc # "ready" => session[a].pc \notin {"begin", "clone"}
  BY <1>2 DEF Handshake, Live
<1> QED BY <1>1, <1>2, <1>3, SessionFields DEF TInv

\* A plan that is sent, for a session that works for the sender.
LEMMA SentPlan ==
    ASSUME TInv, sender.pc \in Sending, Live(Attempt), NEW f \in Files, Fresh(f)
    PROVE  source[f].cells = Target[f] /\ PlanFits(f, sender.plan[f], Target[f])
BY DEF TInv, PlanSound, Inspected, Mine

LEMMA PayloadTyped ==
    ASSUME Typed
    PROVE  Payload \in [Files -> Nat]
<1> SUFFICES ASSUME NEW f \in Files PROVE Cardinality(sender.plan[f].extents) \in Nat
  BY DEF Payload
<1>1. Size[f] \in Nat
  BY TransferAssumption
<1>2. IsFiniteSet(CellsOf(f))
  BY <1>1, FS_Interval DEF CellsOf
<1>3. IsFiniteSet(sender.plan[f].extents)
  BY <1>2, SenderFields, FS_Subset
<1> QED BY <1>3, FS_CardinalityType

LEMMA SendBeginKeeps ==
    ASSUME TInv, SendBegin
    PROVE  TInv'
<1>0. PICK a \in Attempts : a = Attempt
  BY AttemptIsTyped DEF SendBegin, TInv, Inspected, Preparing, Sending
<1> DEFINE m == [op |-> "BEGIN", id |-> sender.id, seeded |-> sender.seeded, payload |-> Payload]
           s == [session[a] EXCEPT !.pc = "begin"]
           q == <<m>>
<1>1. /\ sender.pc = "begin" /\ linked' = linked \cup {a}
      /\ pipe' = [pipe EXCEPT ![a] = q] /\ session' = [session EXCEPT ![a] = s]
      /\ sender' = [sender EXCEPT !.pc = "ready"]
      /\ UNCHANGED <<source, gone, seed, snapshot, answers, staging>>
  BY <1>0 DEF SendBegin
<1>2. /\ a \in Attempts /\ sender.id \in Ids /\ session[a] = Session /\ Quiet(a)
      /\ ~Live(a) /\ sender.seeded \in BOOLEAN
  BY <1>0, <1>1, PreparingAlone, AttemptIsTyped DEF Preparing, TInv
<1>3. m \in Records /\ m.op = "BEGIN" /\ m.id = sender.id /\ m.seeded = sender.seeded
  BY <1>2, PayloadTyped DEF Records, TInv
<1> HIDE DEF m
<1>4. q \in Seq(Records) /\ Len(q) = 1 /\ Elems(q) = {m} /\ Shape(q) /\ q # <<>> /\ Head(q) = m
  BY <1>3 DEF Elems, Shape
<1>5. s \in Sessions /\ s.pc = "begin"
  BY <1>2, SessionConstants DEF Sessions
<1> HIDE DEF s
<1> HIDE DEF q
<1>6. /\ session' \in [Attempts -> Sessions] /\ session'[a] = s
      /\ \A b \in Attempts \ {a} : session'[b] = session[b] /\ pipe'[b] = pipe[b]
      /\ pipe' \in [Attempts -> Seq(Records)] /\ pipe'[a] = q
  BY <1>0, <1>1, <1>2, <1>4, <1>5 DEF TInv, Typed, SessionTyped, PipeTyped
<1>7. PipeTyped'
  <2>1. \A b \in Attempts : Len(pipe[b]) <= MaxInFlight
    BY DEF TInv, Typed, PipeTyped
  <2>2. \A b \in Attempts : Len(pipe'[b]) <= MaxInFlight
    <3>1. Len(pipe'[a]) = 1
      BY <1>4, <1>6
    <3>2. 1 <= MaxInFlight
      BY Sizes
    <3>3. \A b \in Attempts \ {a} : Len(pipe'[b]) <= MaxInFlight
      BY <2>1, <1>6
    <3> QED BY <3>1, <3>2, <3>3
  <2> QED BY <2>2, <1>6 DEF PipeTyped
<1>8. /\ sender' \in Senders /\ sender'.pc = "ready" /\ sender'.id = sender.id /\ sender'.attempt = sender.attempt
      /\ sender'.plan = sender.plan /\ sender'.seeded = sender.seeded /\ sender'.todo = sender.todo
  BY <1>0, <1>1, SenderFields DEF TInv, Senders, SenderPcs
<1>9. Sends
  BY <1>0, <1>1, <1>2, <1>5, <1>6, <1>7, <1>8 DEF Sends, Sending, OthersKept, Live, TInv, Typed, Attempt
<1>10. SenderSound'
  BY <1>0, <1>1, <1>8 DEF TInv, SenderSound, Preparing
<1>11. Attempt' = a
  BY <1>0, <1>8 DEF Attempt
<1>12. Handshake(a)'
  BY <1>0, <1>1, <1>2, <1>3, <1>4, <1>5, <1>6, <1>8 DEF Handshake, Quiet
<1>13. PipeSound(a)' /\ StreamSound(a)' /\ ~Live(a)'
  BY <1>3, <1>4, <1>5, <1>6 DEF PipeSound, StreamSound, Ops, Live
<1>14. Taken(sender.id) /\ snapshot' = snapshot
  BY <1>0, <1>1 DEF TInv, StageSound, Inspected, Preparing
<1>15. Taken(Head(pipe[a]).id)'
  BY <1>3, <1>4, <1>6, <1>14 DEF Taken
<1> QED BY <1>0, <1>1, <1>9, <1>10, <1>11, <1>12, <1>13, <1>15, SendsKeeps DEF SendSound

\* Sending and hearing with the session, the staging and the bundle as they are.
LEMMA SendingStep ==
    ASSUME TInv, NEW a \in Attempts, a = Attempt, sender.pc \in Sending, sender' \in Senders, sender'.pc \in Sending \ {"ready"},
           sender'.id = sender.id, sender'.attempt = sender.attempt,
           sender'.plan = sender.plan, sender'.seeded = sender.seeded,
           UNCHANGED <<source, gone, seed, snapshot, linked, session, staging>>,
           PipeTyped', answers' \in [Attempts -> Seq(Statuses)],
           \A b \in Attempts \ {a} : pipe'[b] = pipe[b] /\ answers'[b] = answers[b],
           SenderSound',
           session[a].pc # "begin",
           session[a].pc = "clone" => pipe'[a] = <<>>,
           session[a].pc = "loop" => Shape(pipe'[a]),
           StreamSound(a)',
           Live(a) => Handshake(a)',
           sender'.pc = "open" /\ Live(a) => session[a].current # File'
    PROVE  TInv'
<1>1. (Live(a) => a \in linked)
  BY SendingAlone
<1>2. Sends
  BY DEF Sends, OthersKept, TInv, Typed, SessionTyped, Live, Attempt
<1>3. Attempt' = Attempt
  BY DEF Attempt
<1>4. PipeSound(a)'
  BY <1>3 DEF PipeSound
<1>5. SendSound(a)'
  BY <1>1, <1>3, <1>4 DEF SendSound, Live
<1> QED BY <1>2, <1>5, SendsKeeps

LEMMA HearReadyKeeps ==
    ASSUME TInv, HearReady
    PROVE  TInv'
<1>0. PICK a \in Attempts : a = Attempt
  BY AttemptIsTyped DEF HearReady, TInv, Inspected, Preparing, Sending
<1>1. /\ sender.pc = "ready" /\ Hear("READY") /\ sender' = [sender EXCEPT !.pc = "file"]
      /\ UNCHANGED <<source, gone, seed, snapshot, pipe, linked, session, staging>>
  BY DEF HearReady
<1>2. sender.pc \in Sending
  BY <1>0, <1>1 DEF Sending
<1>3. /\ a \in Attempts
      /\ Live(a) \/ session[a].pc = "begin" => Handshake(a)
      /\ session[a].pc \in {"none", "begin", "clone", "loop", "receipt", "ended"}
  BY <1>0, <1>2, SendingAlone
<1>4. /\ answers' \in [Attempts -> Seq(Statuses)]
      /\ \A b \in Attempts \ {a} : answers'[b] = answers[b]
      /\ answers[a] # <<>>
      /\ \A x \in Statuses : answers[a] = <<x>> => x = "READY" /\ answers'[a] = <<>>
  BY <1>0, <1>1, <1>3, HearEffect DEF TInv
<1>5. /\ sender' \in Senders /\ sender'.pc = "file" /\ sender'.id = sender.id /\ sender'.attempt = sender.attempt
      /\ sender'.plan = sender.plan /\ sender'.seeded = sender.seeded /\ sender'.todo = sender.todo
  BY <1>0, <1>1, SenderFields DEF TInv, Senders, SenderPcs
<1>6. SenderSound'
  BY <1>0, <1>1, <1>5 DEF TInv, SenderSound, Preparing
<1>7. session[a].pc \notin {"begin", "clone"}
  BY <1>0, <1>1, <1>3, <1>4 DEF Handshake, Live
<1>8. session[a].pc = "loop" => pipe[a] = <<>> /\ answers'[a] = <<>> /\ session[a].current = "none"
  BY <1>0, <1>1, <1>3, <1>4 DEF Handshake, Live, Statuses
<1>9. StreamSound(a)'
  BY <1>0, <1>1, <1>8 DEF StreamSound
<1>10. Live(a) => Handshake(a)'
  BY <1>0, <1>1, <1>5, <1>7, <1>8 DEF Handshake, Quiet, Live
<1>11. session[a].pc = "loop" => Shape(pipe'[a])
  BY <1>0, <1>1 DEF TInv, PipeSound
<1>12. PipeTyped'
  BY <1>0, <1>1 DEF TInv, Typed, PipeTyped
<1> QED BY <1>0, <1>1, <1>2, <1>4, <1>5, <1>6, <1>7, <1>9, <1>10, <1>11, <1>12, SendingStep DEF Sending

LEMMA SendFileBeginKeeps ==
    ASSUME TInv, SendFileBegin
    PROVE  TInv'
<1>0. PICK a \in Attempts : a = Attempt
  BY AttemptIsTyped DEF SendFileBegin, TInv, Inspected, Preparing, Sending
<1> DEFINE m == [op |-> "FILE_BEGIN", file |-> File]
<1>1. /\ sender.pc = "file" /\ sender.todo # <<>> /\ Send(m) /\ sender' = [sender EXCEPT !.pc = "open"]
      /\ UNCHANGED <<source, gone, seed, snapshot, answers, linked, session, staging>>
  BY DEF SendFileBegin
<1>2. sender.pc \in Sending
  BY <1>0, <1>1 DEF Sending
<1>3. /\ a \in Attempts /\ session[a].pc \notin {"begin", "clone"}
      /\ Live(a) => Handshake(a)
      /\ File \in Files /\ File # "none"
  BY <1>0, <1>1, <1>2, SendingAlone, AttemptIsTyped, Sizes DEF TInv
<1>4. m \in Records /\ m.op = "FILE_BEGIN" /\ m.file = File
  BY <1>3 DEF Records
<1> HIDE DEF m
<1>5. /\ PipeTyped' /\ \A b \in Attempts \ {a} : pipe'[b] = pipe[b]
      /\ Elems(pipe'[a]) = Elems(pipe[a]) \cup {m} /\ pipe'[a] # <<>>
      /\ pipe[a] = <<>> => Head(pipe'[a]) = m
      /\ Ops(a) \subseteq CellOps => Shape(pipe'[a])
  BY <1>0, <1>1, <1>3, <1>4, SendEffect DEF TInv
<1>6. /\ sender' \in Senders /\ sender'.pc = "open" /\ sender'.id = sender.id /\ sender'.attempt = sender.attempt
      /\ sender'.plan = sender.plan /\ sender'.seeded = sender.seeded /\ sender'.todo = sender.todo
  BY <1>0, <1>1, SenderFields DEF TInv, Senders, SenderPcs
<1>7. SenderSound'
  BY <1>0, <1>1, <1>6 DEF TInv, SenderSound, Preparing
<1>8. session[a].pc = "loop" => pipe[a] = <<>> /\ answers[a] = <<>> /\ session[a].current = "none"
  BY <1>0, <1>1, <1>3 DEF Handshake, Quiet, Live
<1>9. session[a].pc = "loop" => Shape(pipe'[a])
  BY <1>5, <1>8, NoElement DEF Ops
<1>10. StreamSound(a)'
  BY <1>0, <1>1, <1>8 DEF StreamSound
<1>11. File' = File
  BY <1>6 DEF File
<1>12. Live(a) => Handshake(a)'
  BY <1>0, <1>1, <1>3, <1>4, <1>5, <1>6, <1>8, <1>11 DEF Handshake, Live
<1>13. Live(a) => session[a].current # File'
  <2>1. session[a].pc = "receipt" => session[a].completed = Files /\ session[a].current \notin session[a].completed
    BY <1>3 DEF TInv, SessionSound, Live
  <2> QED BY <2>1, <1>3, <1>8, <1>11 DEF Live
<1> QED BY <1>0, <1>1, <1>2, <1>3, <1>5, <1>6, <1>7, <1>9, <1>10, <1>12, <1>13, SendingStep DEF Sending, TInv, Typed

LEMMA OpenFileKeeps ==
    ASSUME TInv, OpenFile
    PROVE  TInv'
<1>0. PICK a \in Attempts : a = Attempt
  BY AttemptIsTyped DEF OpenFile, TInv, Inspected, Preparing, Sending
<1> DEFINE f == File
           p == sender.plan[f]
<1>1. /\ sender.pc = "open" /\ Hear("FILE_READY") /\ Unchanged(f)
      /\ sender' = [sender EXCEPT !.pc = "data", !.cells = p.extents]
      /\ UNCHANGED <<source, gone, seed, snapshot, pipe, linked, session, staging>>
  BY DEF OpenFile
<1>2. sender.pc \in Sending /\ sender.todo # <<>>
  BY <1>0, <1>1 DEF Sending, TInv, SenderSound
<1>3. /\ a \in Attempts /\ session[a].pc \notin {"begin", "clone"}
      /\ Live(a) => Handshake(a) /\ session[a].id = sender.id
      /\ f \in Files /\ f # "none"
  BY <1>0, <1>1, <1>2, SendingAlone, AttemptIsTyped, Sizes DEF TInv
<1>4. /\ answers' \in [Attempts -> Seq(Statuses)]
      /\ \A b \in Attempts \ {a} : answers'[b] = answers[b]
      /\ answers[a] # <<>>
      /\ \A x \in Statuses : answers[a] = <<x>> => answers'[a] = <<>>
  BY <1>0, <1>1, <1>3, HearEffect DEF TInv
<1>5. p.extents \in SUBSET Nat
  BY <1>3, SenderFields DEF TInv
<1>6. /\ sender' \in Senders /\ sender'.pc = "data" /\ sender'.id = sender.id /\ sender'.attempt = sender.attempt
      /\ sender'.plan = sender.plan /\ sender'.seeded = sender.seeded /\ sender'.todo = sender.todo
      /\ sender'.cells = p.extents
  BY <1>0, <1>1, <1>5, SenderFields DEF TInv, Senders, SenderPcs
<1>7. File' = f
  BY <1>6 DEF File
<1>8. SenderSound'
  BY <1>0, <1>1, <1>2, <1>6, <1>7 DEF TInv, SenderSound, Preparing
<1>9. session[a].pc = "loop" => pipe[a] = <<>> /\ answers'[a] = <<>> /\ session[a].current = f
  BY <1>0, <1>1, <1>3, <1>4 DEF Handshake, Live, Statuses
<1>10. ASSUME session[a].pc = "loop", Fresh(f), NEW c \in CellsOf(f)
       PROVE  StagedFiles(a)[f][c] = Target[f][c] \/ c \in p.extents \cup p.holes
  <2>1. Agree(f, p, StagedFiles(a)[f], Target[f])
    BY <1>0, <1>1, <1>2, <1>9, <1>10 DEF TInv, BaseSound, BaseFits, Live
  <2> QED BY <2>1, <1>0, <1>10 DEF Agree, LeftOut
<1>11. StreamSound(a)'
  <2>1. session[a].pc = "loop" => ~Sealed(a)' /\ Elems(pipe'[a]) = {}
    BY <1>0, <1>1, <1>9, NoElement DEF Sealed, Ops
  <2>2. ToSend' = p.extents \cup p.holes
    BY <1>6, <1>7 DEF ToSend
  <2>3. Streaming(a)' => Fresh(f)
    BY <1>0, <1>1, <1>6, <1>7 DEF Streaming, Fresh
  <2>4. session[a].pc = "loop" => session[a].id = sender.id
    BY <1>3 DEF Live
  <2> QED BY <1>0, <1>1, <1>9, <1>10, <2>1, <2>2, <2>3, <2>4 DEF StreamSound, StagedFiles, Staged, Target
<1>12. Live(a) => Handshake(a)'
  <2>1. session[a].pc = "loop" => Ops(a)' \subseteq CellOps
    BY <1>0, <1>1, <1>9, NoElement DEF Ops
  <2> QED BY <2>1, <1>0, <1>1, <1>3, <1>6, <1>7, <1>9 DEF Handshake, Live
<1>13. session[a].pc = "loop" => Shape(pipe'[a])
  BY <1>0, <1>1 DEF TInv, PipeSound
<1>14. PipeTyped'
  BY <1>0, <1>1 DEF TInv, Typed, PipeTyped
<1> QED BY <1>0, <1>1, <1>2, <1>3, <1>4, <1>6, <1>8, <1>11, <1>12, <1>13, <1>14, SendingStep DEF Sending

\* A cell of the file in work is sent: data of the plan, or a hole.
LEMMA CellSent ==
    ASSUME TInv, NEW a \in Attempts, a = Attempt, sender.pc \in {"data", "holes"},
           NEW m \in Records, NEW c, m.op \in CellOps, m.cell = c, Send(m),
           sender.cells # {}, c \in sender.cells,
           sender' = [sender EXCEPT !.cells = @ \ {c}],
           Fresh(File) /\ Live(a) => Right(m, Target[File]),
           UNCHANGED <<source, gone, seed, snapshot, answers, linked, session, staging>>
    PROVE  TInv'
<1>1. sender.pc \in Sending /\ sender.todo # <<>>
  BY DEF Sending, TInv, SenderSound
<1>2. /\ session[a].pc \notin {"begin", "clone"}
      /\ Live(a) => Handshake(a) /\ session[a].id = sender.id
      /\ File \in Files /\ File # "none"
  BY <1>1, SendingAlone, AttemptIsTyped, Sizes DEF TInv
<1>3. /\ PipeTyped' /\ \A b \in Attempts \ {a} : pipe'[b] = pipe[b]
      /\ Elems(pipe'[a]) = Elems(pipe[a]) \cup {m} /\ pipe'[a] # <<>>
      /\ Ops(a) \subseteq CellOps => Shape(pipe'[a])
  BY SendEffect DEF TInv
<1>4. /\ sender' \in Senders /\ sender'.pc = sender.pc /\ sender'.id = sender.id /\ sender'.attempt = sender.attempt
      /\ sender'.plan = sender.plan /\ sender'.seeded = sender.seeded /\ sender'.todo = sender.todo
      /\ sender'.delta = sender.delta /\ sender'.cells = sender.cells \ {c}
  BY SenderFields DEF TInv, Senders, SenderPcs
<1>5. File' = File
  BY <1>4 DEF File
<1>6. SenderSound'
  BY <1>1, <1>4, <1>5 DEF TInv, SenderSound, Preparing
<1>7. session[a].pc = "loop" => answers[a] = <<>> /\ session[a].current = File /\ Ops(a) \subseteq CellOps
  BY <1>2 DEF Handshake, Live
<1>8. session[a].pc = "loop" => Ops(a)' \subseteq CellOps
  BY <1>3, <1>7 DEF Ops
<1>9. ToSend \subseteq ToSend' \cup {c}
  BY <1>4, <1>5 DEF ToSend
<1>10. Streaming(a)' => Streaming(a)
  BY <1>4, <1>5 DEF Streaming, Fresh
<1>11. StreamSound(a)'
  <2> DEFINE f     == File
             cells == snapshot[session[a].id][f]
  <2> SUFFICES ASSUME session[a].pc = "loop", Streaming(a)'
               PROVE  /\ \A e \in Elems(pipe'[a]) : Right(e, cells)
                      /\ \A x \in CellsOf(f) : \/ StagedFiles(a)[f][x] = cells[x]
                                               \/ \E e \in Elems(pipe'[a]) : e.op \in CellOps /\ e.cell = x
                                               \/ x \in ToSend'
    <3>1. session[a].pc = "loop" => ~Sealed(a)'
      BY <1>8 DEF Sealed, CellOps
    <3> QED BY <3>1, <1>7 DEF StreamSound, StagedFiles, Staged, Carries
  <2>1. Streaming(a) /\ session[a].current = f /\ f # "none"
    BY <1>2, <1>7, <1>10
  <2>2. /\ \A e \in Elems(pipe[a]) : Right(e, cells)
        /\ \A x \in CellsOf(f) : \/ StagedFiles(a)[f][x] = cells[x]
                                 \/ \E e \in Elems(pipe[a]) : e.op \in CellOps /\ e.cell = x
                                 \/ x \in ToSend
    BY <2>1 DEF TInv, StreamSound, Carries
  <2>3. Right(m, cells)
    BY <2>1, <1>2 DEF Streaming, Live, Target
  <2> HIDE DEF f, cells
  <2>4. ASSUME NEW x \in CellsOf(f)
        PROVE  \/ StagedFiles(a)[f][x] = cells[x]
               \/ \E e \in Elems(pipe'[a]) : e.op \in CellOps /\ e.cell = x
               \/ x \in ToSend'
    <3>1. CASE x = c
      BY <3>1, <1>3
    <3>2. CASE x # c
      BY <3>2, <2>2, <1>3, <1>9
    <3> QED BY <3>1, <3>2
  <2> QED BY <2>2, <2>3, <2>4, <1>3
<1>12. Live(a) => Handshake(a)'
  BY <1>2, <1>4, <1>5, <1>7, <1>8 DEF Handshake, Live
<1>13. session[a].pc = "loop" => Shape(pipe'[a])
  BY <1>3, <1>7
<1>14. answers' \in [Attempts -> Seq(Statuses)]
  BY DEF TInv, Typed
<1> QED BY <1>1, <1>2, <1>3, <1>4, <1>6, <1>11, <1>12, <1>13, <1>14, SendingStep DEF Sending

LEMMA SendCellKeeps ==
    ASSUME TInv, SendExtent \/ SendHole
    PROVE  TInv'
<1> DEFINE f == File
           c == FirstOf(sender.cells)
<1>0. PICK a \in Attempts : a = Attempt
  BY AttemptIsTyped DEF SendExtent, SendHole, TInv, Inspected, Preparing, Sending
<1>1. sender.pc \in {"data", "holes"} /\ sender.cells # {}
  BY DEF SendExtent, SendHole
<1>2. /\ sender.cells \in SUBSET Nat /\ c \in sender.cells /\ c \in Nat
      /\ f \in Files /\ sender.pc \in Sending
      /\ sender.plan[f].extents \subseteq CellsOf(f) /\ sender.plan[f].holes \subseteq CellsOf(f)
  BY <1>1, FirstIsIn, AttemptIsTyped, SenderFields DEF TInv, SenderSound, Sending
<1> HIDE DEF c, f
<1>3. Fresh(f) /\ Live(a) => source[f].cells = Target[f] /\ PlanFits(f, sender.plan[f], Target[f])
  BY <1>0, <1>2, SentPlan
<1>4. CASE SendExtent
  <2> DEFINE m == [op |-> "EXTENT", cell |-> c, value |-> source[f].cells[c]]
  <2>1. /\ sender.pc = "data" /\ Send(m) /\ sender' = [sender EXCEPT !.cells = @ \ {c}]
        /\ UNCHANGED <<source, gone, seed, snapshot, answers, linked, session, staging>>
    BY <1>4 DEF SendExtent, c, f
  <2>2. c \in CellsOf(f)
    BY <1>2, <2>1 DEF TInv, SenderSound, f
  <2>3. source[f].cells[c] \in Values
    BY <1>2, <2>2, StoreFields, ContentsTyped DEF TInv
  <2>4. m \in Records /\ m.op = "EXTENT" /\ m.cell = c /\ m.value = source[f].cells[c]
    BY <1>2, <2>3 DEF Records
  <2> HIDE DEF m
  <2>5. Fresh(f) /\ Live(a) => Right(m, Target[f])
    BY <1>3, <2>4 DEF Right
  <2> QED BY <1>0, <1>1, <1>2, <2>1, <2>4, <2>5, CellSent DEF CellOps, f
<1>5. CASE SendHole
  <2> DEFINE m == [op |-> "HOLE", cell |-> c]
  <2>1. /\ sender.pc = "holes" /\ Send(m) /\ sender' = [sender EXCEPT !.cells = @ \ {c}]
        /\ UNCHANGED <<source, gone, seed, snapshot, answers, linked, session, staging>>
    BY <1>5 DEF SendHole, c, f
  <2>2. c \in sender.plan[f].holes
    BY <1>2, <2>1 DEF TInv, SenderSound, f
  <2>4. m \in Records /\ m.op = "HOLE" /\ m.cell = c
    BY <1>2 DEF Records
  <2> HIDE DEF m
  <2>5. Fresh(f) /\ Live(a) => Right(m, Target[f])
    BY <1>3, <2>2, <2>4 DEF Right, PlanFits, DeltaPlan, FullPlan
  <2> QED BY <1>0, <1>1, <1>2, <2>1, <2>4, <2>5, CellSent DEF CellOps, f
<1> QED BY <1>4, <1>5

LEMMA DataSentKeeps ==
    ASSUME TInv, DataSent
    PROVE  TInv'
<1> DEFINE f == File
           p == sender.plan[f]
<1>0. PICK a \in Attempts : a = Attempt
  BY AttemptIsTyped DEF DataSent, TInv, Inspected, Preparing, Sending
<1>1. /\ sender.pc = "data" /\ sender.cells = {}
      /\ sender' = [sender EXCEPT !.pc = "holes", !.cells = p.holes]
      /\ UNCHANGED <<source, gone, seed, snapshot, answers, linked, session, staging, pipe>>
  BY DEF DataSent, senderOnly
<1>2. sender.pc \in Sending /\ sender.todo # <<>>
  BY <1>1 DEF Sending, TInv, SenderSound
<1>3. /\ session[a].pc \notin {"begin", "clone"}
      /\ Live(a) => Handshake(a)
      /\ f \in Files
  BY <1>0, <1>1, <1>2, SendingAlone, AttemptIsTyped, Sizes DEF TInv
<1>4. p.holes \in SUBSET Nat
  BY <1>3, SenderFields DEF TInv
<1>5. /\ sender' \in Senders /\ sender'.pc = "holes" /\ sender'.id = sender.id /\ sender'.attempt = sender.attempt
      /\ sender'.plan = sender.plan /\ sender'.seeded = sender.seeded /\ sender'.todo = sender.todo
      /\ sender'.cells = p.holes
  BY <1>1, <1>4, SenderFields DEF TInv, Senders, SenderPcs
<1>6. File' = f
  BY <1>5 DEF File
<1>7. SenderSound'
  BY <1>1, <1>2, <1>5, <1>6 DEF TInv, SenderSound, Preparing
<1>8. ToSend' = ToSend /\ (Streaming(a)' <=> Streaming(a))
  BY <1>0, <1>1, <1>5, <1>6 DEF ToSend, Streaming, Fresh, Attempt
<1>9. StreamSound(a)'
  BY <1>1, <1>8 DEF TInv, StreamSound, StagedFiles, Staged, Sealed, Ops, Carries
<1>10. Live(a) => Handshake(a)'
  BY <1>1, <1>3, <1>5, <1>6 DEF Handshake, Live, Ops
<1>11. session[a].pc = "loop" => Shape(pipe'[a])
  BY <1>1 DEF TInv, PipeSound
<1>12. PipeTyped' /\ answers' \in [Attempts -> Seq(Statuses)]
  BY <1>1 DEF TInv, Typed, PipeTyped
<1> QED BY <1>0, <1>1, <1>2, <1>3, <1>5, <1>7, <1>9, <1>10, <1>11, <1>12, SendingStep DEF Sending

\* The file is the one of the snapshot, as it is still the one inspected.
LEMMA RecheckKeeps ==
    ASSUME TInv, Recheck
    PROVE  TInv'
<1> DEFINE f == File
           m == [op |-> "FILE_END", file |-> f]
<1>0. PICK a \in Attempts : a = Attempt
  BY AttemptIsTyped DEF Recheck, TInv, Inspected, Preparing, Sending
<1>1. /\ sender.pc = "holes" /\ sender.cells = {} /\ Unchanged(f) /\ Send(m)
      /\ sender' = [sender EXCEPT !.pc = "close"]
      /\ UNCHANGED <<source, gone, seed, snapshot, answers, linked, session, staging>>
  BY DEF Recheck
<1>2. sender.pc \in Sending /\ sender.todo # <<>>
  BY <1>1 DEF Sending, TInv, SenderSound
<1>3. /\ session[a].pc \notin {"begin", "clone"}
      /\ Live(a) => Handshake(a)
      /\ f \in Files
  BY <1>0, <1>1, <1>2, SendingAlone, AttemptIsTyped DEF TInv
<1>4. m \in Records /\ m.op = "FILE_END"
  BY <1>3 DEF Records
<1> HIDE DEF m
<1>5. /\ PipeTyped' /\ \A b \in Attempts \ {a} : pipe'[b] = pipe[b]
      /\ Elems(pipe'[a]) = Elems(pipe[a]) \cup {m}
      /\ Ops(a) \subseteq CellOps => Shape(pipe'[a])
  BY <1>0, <1>1, <1>4, SendEffect DEF TInv
<1>6. /\ sender' \in Senders /\ sender'.pc = "close" /\ sender'.id = sender.id /\ sender'.attempt = sender.attempt
      /\ sender'.plan = sender.plan /\ sender'.seeded = sender.seeded /\ sender'.todo = sender.todo
  BY <1>1, SenderFields DEF TInv, Senders, SenderPcs
<1>7. SenderSound'
  BY <1>1, <1>2, <1>6 DEF TInv, SenderSound, Preparing
<1>8. session[a].pc = "loop" => answers[a] = <<>> /\ session[a].current = f /\ Ops(a) \subseteq CellOps
  BY <1>1, <1>3 DEF Handshake, Live
<1>9. Streaming(a) /\ ToSend = {}
  BY <1>0, <1>1 DEF Streaming, Unchanged, Fresh, ToSend
<1>10. Right(m, snapshot[session[a].id][session[a].current])
  BY <1>4 DEF Right
<1>11. StreamSound(a)'
  <2> DEFINE g == session[a].current
             cells == snapshot[session[a].id][g]
  <2> SUFFICES ASSUME session[a].pc = "loop", g # "none"
               PROVE  /\ \A r \in Elems(pipe'[a]) : Right(r, cells)
                      /\ \A c \in CellsOf(g) :
                            StagedFiles(a)[g][c] = cells[c] \/ Carries(a, c)'
    BY <1>1 DEF StreamSound, StagedFiles, Staged
  <2>1. /\ \A r \in Elems(pipe[a]) : Right(r, cells)
        /\ \A c \in CellsOf(g) : StagedFiles(a)[g][c] = cells[c] \/ Carries(a, c)
    BY <1>9 DEF TInv, StreamSound
  <2>2. \A c : Carries(a, c) => Carries(a, c)'
    BY <1>5 DEF Carries
  <2> QED BY <2>1, <2>2, <1>5, <1>10
<1>12. Sealed(a)'
  BY <1>4, <1>5 DEF Sealed, Ops
<1>13. Live(a) => Handshake(a)'
  BY <1>1, <1>3, <1>6, <1>8, <1>12 DEF Handshake, Live
<1>14. answers' \in [Attempts -> Seq(Statuses)]
  BY <1>1 DEF TInv, Typed
<1> QED BY <1>0, <1>1, <1>2, <1>3, <1>5, <1>6, <1>7, <1>8, <1>11, <1>13, <1>14, SendingStep DEF Sending

LEMMA HearCompleteKeeps ==
    ASSUME TInv, HearComplete
    PROVE  TInv'
<1>0. PICK a \in Attempts : a = Attempt
  BY AttemptIsTyped DEF HearComplete, TInv, Inspected, Preparing, Sending
<1>1. /\ sender.pc = "close" /\ Hear("FILE_COMPLETE") /\ sender' = [sender EXCEPT !.pc = "file", !.todo = Tail(@)]
      /\ UNCHANGED <<source, gone, seed, snapshot, pipe, linked, session, staging>>
  BY DEF HearComplete
<1>2. sender.pc \in Sending /\ sender.todo # <<>>
  BY <1>1 DEF Sending, TInv, SenderSound
<1>3. /\ session[a].pc \notin {"begin", "clone"}
      /\ Live(a) => Handshake(a)
  BY <1>0, <1>1, <1>2, SendingAlone
<1>4. /\ answers' \in [Attempts -> Seq(Statuses)]
      /\ \A b \in Attempts \ {a} : answers'[b] = answers[b]
      /\ answers[a] # <<>>
      /\ \A x \in Statuses : answers[a] = <<x>> => answers'[a] = <<>>
  BY <1>0, <1>1, HearEffect DEF TInv
<1>5. Tail(sender.todo) \in Seq(Files)
  BY <1>2, AttemptIsTyped, HeadElement DEF TInv
<1>6. /\ sender' \in Senders /\ sender'.pc = "file" /\ sender'.id = sender.id /\ sender'.attempt = sender.attempt
      /\ sender'.plan = sender.plan /\ sender'.seeded = sender.seeded
  BY <1>1, <1>5, SenderFields DEF TInv, Senders, SenderPcs
<1>7. SenderSound'
  BY <1>1, <1>6 DEF TInv, SenderSound, Preparing
<1>8. session[a].pc = "loop" => pipe[a] = <<>> /\ answers'[a] = <<>> /\ session[a].current = "none"
  BY <1>1, <1>3, <1>4 DEF Handshake, Live, Statuses
<1>9. StreamSound(a)'
  BY <1>1, <1>8 DEF StreamSound
<1>10. Live(a) => Handshake(a)'
  BY <1>1, <1>3, <1>6, <1>8 DEF Handshake, Quiet, Live
<1>11. session[a].pc = "loop" => Shape(pipe'[a])
  BY <1>1 DEF TInv, PipeSound
<1>12. PipeTyped'
  BY <1>1 DEF TInv, Typed, PipeTyped
<1> QED BY <1>0, <1>1, <1>2, <1>3, <1>4, <1>6, <1>7, <1>9, <1>10, <1>11, <1>12, SendingStep DEF Sending

\* The attempt is over for the sender, or waits for the receipt.
LEMMA EndsKeep ==
    ASSUME TInv, NEW a \in Attempts, a = Attempt,
           UNCHANGED <<source, gone, seed, snapshot, session, staging>>,
           sender' \in Senders, sender'.pc \in {"receipt", "done", "idle"},
           sender'.attempt = sender.attempt, sender'.pc = "receipt" => sender'.id \in Ids,
           sender'.plan \in {sender.plan, NoPlan},
           PipeTyped', answers' \in [Attempts -> Seq(Statuses)], linked' \subseteq Attempts,
           OthersKept(a), PipeSound(a)', StreamSound(a)',
           session[a].pc = "begin" /\ pipe'[a] # <<>> => Taken(Head(pipe'[a]).id)
    PROVE  TInv'
<1>1. sender'.pc \notin Preparing \cup Sending \cup {"data", "holes"} /\ ~Inspected'
  BY DEF Inspected, Preparing, Sending
<1>2. Typed'
  <2>1. SenderTyped'
    BY DEF SenderTyped, Attempt, Attempts
  <2>2. SessionTyped' /\ StoreTyped'
    BY DEF TInv, Typed, SessionTyped, StoreTyped, Live
  <2> QED BY <2>1, <2>2 DEF Typed
<1>3. SenderSound'
  <2>1. \A f \in Files : sender'.plan[f].version <= source[f].version
    <3>1. \A f \in Files : source[f].version \in Nat /\ NoPlan[f].version = 0
      BY StoreFields, Sizes DEF TInv, NoPlan, NoPlanFile
    <3> QED BY <3>1 DEF TInv, SenderSound
  <2> QED BY <1>1, <2>1 DEF SenderSound, Sending, Preparing
<1>4. PlanSound'
  BY <1>1 DEF PlanSound, Preparing
<1>5. AttemptSound'
  <2>1. ASSUME NEW b \in Attempts, b > sender'.attempt PROVE session'[b] = Session /\ Quiet(b)'
    <3>1. b # a
      BY <2>1 DEF Attempt, Attempts
    <3> QED BY <3>1, <2>1 DEF TInv, AttemptSound, Quiet, OthersKept
  <2> QED BY <1>1, <2>1 DEF AttemptSound
<1>6. StageSound'
  <2>1. ASSUME NEW b \in Attempts, session[b].pc = "begin" /\ pipe'[b] # <<>>
        PROVE  Taken(Head(pipe'[b]).id)
    <3>1. b # a => pipe'[b] = pipe[b]
      BY DEF OthersKept
    <3> QED BY <2>1, <3>1 DEF TInv, StageSound
  <2>2. \A u : Taken(u)' <=> Taken(u)
    BY DEF Taken
  <2>3. \A b \in Attempts : session'[b].pc = "begin" /\ pipe'[b] # <<>> => Taken(Head(pipe[b]).id)'
    BY <2>1 DEF Taken
  <2> QED BY <1>1, <2>2, <2>3 DEF TInv, StageSound, StagedIsSnapshot
<1>7. BaseSound'
  BY <1>1 DEF BaseSound
<1>8. ASSUME NEW b \in Attempts PROVE PipeSound(b)' /\ SessionSound(b)' /\ StreamSound(b)'
  <2>1. SessionSound(b)'
    BY DEF TInv, SessionSound, Live, Staged, StagedFiles
  <2>2. CASE b = a
    BY <2>1, <2>2
  <2>3. CASE b # a
    <3>1. PipeSound(b)'
      BY <2>3 DEF TInv, PipeSound, Ops, OthersKept
    <3>2. ~Streaming(b) /\ ~Streaming(b)'
      BY <2>3, <1>1 DEF Streaming
    <3>3. StreamSound(b)'
      <4>1. pipe'[b] = pipe[b] /\ session' = session /\ snapshot' = snapshot /\ staging' = staging
        BY <2>3 DEF OthersKept
      <4>2. /\ Sealed(b)' <=> Sealed(b)
            /\ \A c : Carries(b, c)' <=> Carries(b, c)
            /\ StagedFiles(b)' = StagedFiles(b)
        BY <4>1 DEF Sealed, Ops, Carries, StagedFiles, Staged
      <4>3. StreamSound(b)
        BY DEF TInv
      <4> QED BY <4>1, <4>2, <4>3, <3>2 DEF StreamSound
    <3> QED BY <2>1, <3>1, <3>3
  <2> QED BY <2>2, <2>3
<1> QED BY <1>2, <1>3, <1>4, <1>5, <1>6, <1>7, <1>8 DEF TInv

LEMMA SendFinishKeeps ==
    ASSUME TInv, SendFinish
    PROVE  TInv'
<1> DEFINE m == [op |-> "FINISH"]
<1>0. PICK a \in Attempts : a = Attempt
  BY AttemptIsTyped DEF SendFinish, TInv, Inspected, Preparing, Sending
<1>1. /\ sender.pc = "file" /\ Send(m) /\ sender' = [sender EXCEPT !.pc = "receipt"]
      /\ UNCHANGED <<source, gone, seed, snapshot, answers, linked, session, staging>>
  BY DEF SendFinish
<1>2. sender.pc \in Sending
  BY <1>1 DEF Sending
<1>3. /\ session[a].pc \notin {"begin", "clone"} /\ sender.id \in Ids
      /\ Live(a) => Handshake(a)
  BY <1>0, <1>1, <1>2, SendingAlone
<1>4. m \in Records
  BY DEF Records
<1> HIDE DEF m
<1>5. /\ PipeTyped' /\ \A b \in Attempts \ {a} : pipe'[b] = pipe[b]
      /\ Ops(a) \subseteq CellOps => Shape(pipe'[a])
  BY <1>0, <1>1, <1>4, SendEffect DEF TInv
<1>6. /\ sender' \in Senders /\ sender'.pc = "receipt" /\ sender'.id = sender.id /\ sender'.attempt = sender.attempt
      /\ sender'.plan = sender.plan
  BY <1>1, SenderFields DEF TInv, Senders, SenderPcs
<1>7. session[a].pc = "loop" => Ops(a) = {} /\ session[a].current = "none"
  BY <1>1, <1>3, NoElement DEF Handshake, Live, Quiet, Ops
<1>8. PipeSound(a)' /\ StreamSound(a)'
  BY <1>1, <1>3, <1>5, <1>7 DEF PipeSound, StreamSound
<1>9. answers' \in [Attempts -> Seq(Statuses)] /\ linked' \subseteq Attempts /\ OthersKept(a)
  BY <1>1, <1>5 DEF TInv, Typed, OthersKept
<1> QED BY <1>0, <1>1, <1>3, <1>5, <1>6, <1>8, <1>9, EndsKeep

LEMMA HearReceiptKeeps ==
    ASSUME TInv, HearReceipt
    PROVE  TInv'
<1>0. PICK a \in Attempts : a = Attempt
  BY DEF HearReceipt, TInv, Typed, SenderTyped, Attempt
<1>1. /\ sender.pc = "receipt" /\ Hear("STAGING_COMPLETE")
      /\ sender' = [Idle EXCEPT !.pc = "done", !.id = sender.id, !.attempt = a]
      /\ linked' = linked \ {a}
      /\ UNCHANGED <<source, gone, seed, snapshot, pipe, session, staging>>
  BY <1>0 DEF HearReceipt
<1>2. sender.id \in Ids \cup {0} /\ a \in 0 .. MaxAttempts
  BY <1>0, AttemptIsTyped, SenderFields DEF TInv, Senders
<1>3. /\ sender' \in Senders /\ sender'.pc = "done" /\ sender'.attempt = a /\ sender'.plan = NoPlan
  BY <1>1, <1>2, SessionConstants DEF Senders, SenderPcs
<1>4. /\ answers' \in [Attempts -> Seq(Statuses)]
      /\ \A b \in Attempts \ {a} : answers'[b] = answers[b]
  BY <1>0, <1>1, HearEffect DEF TInv
<1>5. PipeTyped' /\ linked' \subseteq Attempts /\ OthersKept(a)
  BY <1>1, <1>4 DEF TInv, Typed, PipeTyped, OthersKept
<1>6. PipeSound(a)'
  BY <1>1 DEF TInv, PipeSound, Ops
<1>7. ~Streaming(a) /\ ~Streaming(a)'
  BY <1>1, <1>3 DEF Streaming
<1>8. StreamSound(a)'
  BY <1>1, <1>7 DEF TInv, StreamSound, StagedFiles, Staged, Sealed, Ops, Carries
<1>9. session[a].pc = "begin" /\ pipe'[a] # <<>> => Taken(Head(pipe'[a]).id)
  BY <1>1 DEF TInv, StageSound
<1>10. sender'.attempt = sender.attempt
  BY <1>0, <1>3 DEF Attempt
<1> QED BY <1>0, <1>1, <1>3, <1>4, <1>5, <1>6, <1>8, <1>9, <1>10, EndsKeep

\* What is left of a pipe is part of it; with the end of the file, all of it.
LEMMA SenderFailsKeeps ==
    ASSUME TInv, SenderFails
    PROVE  TInv'
<1>0. PICK a \in Attempts : a = Attempt
  BY DEF SenderFails, TInv, Typed, SenderTyped, Attempt
<1> DEFINE s == pipe[a]
<1>1. PICK n \in 0 .. Len(s) : pipe' = [pipe EXCEPT ![a] = SubSeq(s, 1, n)]
  BY <1>0 DEF SenderFails
<1>2. /\ sender' = [Idle EXCEPT !.attempt = a] /\ linked' = linked \ {a}
      /\ answers' = [answers EXCEPT ![a] = <<>>]
      /\ UNCHANGED <<source, gone, seed, snapshot, session, staging>>
  BY <1>0 DEF SenderFails
<1>3. a \in 0 .. MaxAttempts
  BY <1>0, AttemptIsTyped DEF TInv
<1>4. /\ sender' \in Senders /\ sender'.pc = "idle" /\ sender'.attempt = a /\ sender'.plan = NoPlan
  BY <1>2, <1>3, SessionConstants DEF Senders, SenderPcs
<1> DEFINE t == SubSeq(s, 1, n)
<1>5. /\ pipe \in [Attempts -> Seq(Records)] /\ s \in Seq(Records)
      /\ \A b \in Attempts : Len(pipe[b]) <= MaxInFlight /\ Len(pipe[b]) \in Nat
  BY LenProperties DEF TInv, Typed, PipeTyped
<1>6. /\ t \in Seq(Records) /\ Len(t) <= Len(s) /\ Elems(t) \subseteq Elems(s)
      /\ t # <<>> => s # <<>> /\ Head(t) = Head(s)
      /\ Shape(s) => /\ Shape(t)
                     /\ \A m \in Elems(t) : m.op \notin CellOps => t = s
  BY <1>5, ShapeCut
<1> HIDE DEF t, s
<1>7. /\ pipe' \in [Attempts -> Seq(Records)] /\ pipe'[a] = t
      /\ \A b \in Attempts \ {a} : pipe'[b] = pipe[b]
  BY <1>1, <1>5, <1>6 DEF t
<1>8. PipeTyped'
  <2>1. Len(t) <= MaxInFlight
    <3>1. Len(t) \in Nat /\ Len(s) \in Nat /\ Len(s) <= MaxInFlight
      BY <1>5, <1>6, LenProperties DEF s
    <3> QED BY <3>1, <1>6, Sizes
  <2> QED BY <2>1, <1>5, <1>7 DEF PipeTyped
<1>9. answers' \in [Attempts -> Seq(Statuses)] /\ linked' \subseteq Attempts /\ OthersKept(a)
  BY <1>2, <1>7, NoElement DEF TInv, Typed, OthersKept
<1>10. Ops(a)' \subseteq Ops(a)
  BY <1>6, <1>7 DEF Ops, s
<1>11. PipeSound(a)'
  <2>1. session[a].pc = "clone" => t = <<>>
    BY <1>6 DEF TInv, PipeSound, s
  <2> QED BY <2>1, <1>2, <1>6, <1>7, <1>10 DEF TInv, PipeSound, s
<1>12. StreamSound(a)'
  <2>1. ~Streaming(a)'
    BY <1>4 DEF Streaming
  <2>2. CASE session[a].pc = "loop" /\ Sealed(a)'
    <3>1. PICK m \in Elems(t) : m.op = "FILE_END"
      BY <2>2, <1>7 DEF Sealed, Ops
    <3>2. Shape(s)
      BY <2>2 DEF TInv, PipeSound, s
    <3>3. pipe'[a] = pipe[a]
      BY <3>1, <3>2, <1>6, <1>7 DEF CellOps, s
    <3>4. Sealed(a) /\ ~Streaming(a)
      BY <2>2, <1>10, SealedIsDone DEF Sealed
    <3> QED BY <2>1, <3>3, <3>4, <1>2 DEF TInv, StreamSound, StagedFiles, Staged, Carries
  <2>3. CASE ~(session[a].pc = "loop" /\ Sealed(a)')
    BY <2>1, <2>3, <1>2 DEF StreamSound
  <2> QED BY <2>2, <2>3
<1>13. session[a].pc = "begin" /\ pipe'[a] # <<>> => Taken(Head(pipe'[a]).id)
  BY <1>6, <1>7 DEF TInv, StageSound, s
<1>14. sender'.attempt = sender.attempt
  BY <1>0, <1>4 DEF Attempt
<1> QED BY <1>0, <1>2, <1>4, <1>8, <1>9, <1>11, <1>12, <1>13, <1>14, EndsKeep

LEMMA SenderKeeps ==
    ASSUME TInv, SenderStep
    PROVE  TInv'
BY InspectFileKeeps, InspectDoneKeeps, SeedGivenUpKeeps, SeedReadyKeeps, CompareFileKeeps, SeedDoneKeeps,
   SendBeginKeeps, HearReadyKeeps, SendFileBeginKeeps, OpenFileKeeps, SendCellKeeps, DataSentKeeps,
   RecheckKeeps, HearCompleteKeeps, SendFinishKeeps, HearReceiptKeeps, SenderFailsKeeps
   DEF SenderStep

-----------------------------------------------------------------------------
(* Other programs change the bundle, and the receiver its seed.            *)

\* What a change of the bundle or the seed leaves alone, of the parts about sessions.
LEMMA EnvironmentAside ==
    ASSUME TInv, UNCHANGED environment, Typed',
           \A f \in Files : Fresh(f)' => Fresh(f)
    PROVE  /\ AttemptSound' /\ StageSound' /\ BaseSound'
           /\ \A a \in Attempts : PipeSound(a)' /\ SessionSound(a)' /\ StreamSound(a)'
<1>1. UNCHANGED <<sender, snapshot, pipe, answers, linked, session, staging>>
  BY DEF environment
<1>2. Attempt' = Attempt /\ File' = File /\ Target' = Target
  BY <1>1 DEF Attempt, File, Target
<1>3. AttemptSound'
  <2>1. \A a : Handshake(a)' <=> Handshake(a)
    BY <1>1 DEF Handshake, Quiet, Sealed, Ops, File
  <2> QED BY <1>1, <1>2, <2>1 DEF TInv, AttemptSound, Live, Quiet
<1>4. StageSound'
  BY <1>1 DEF TInv, StageSound, StagedIsSnapshot, Taken, Inspected
<1>5. BaseSound'
  <2>1. \A f \in Files : BaseFits(f) => BaseFits(f)'
    BY <1>1, <1>2 DEF BaseFits, Agree, LeftOut, StagedFiles, Staged, Target, Attempt
  <2>2. sender.pc = "open" => File \in Files
    BY AttemptIsTyped DEF TInv, SenderSound
  <2> QED BY <1>1, <1>2, <2>1, <2>2, Sizes DEF TInv, BaseSound, Live, StagedFiles, Staged
<1>6. ASSUME NEW a \in Attempts PROVE PipeSound(a)' /\ SessionSound(a)' /\ StreamSound(a)'
  <2>1. PipeSound(a)' /\ SessionSound(a)'
    BY <1>1 DEF TInv, PipeSound, Ops, SessionSound, Live, Staged, StagedFiles
  <2>2. Streaming(a)' => Streaming(a)
    <3>1. sender.pc \in {"data", "holes"} => File \in Files
      BY AttemptIsTyped DEF TInv, SenderSound
    <3> QED BY <3>1, <1>1, <1>2 DEF Streaming
  <2>3. session[a].pc = "loop" /\ Sealed(a) => ~Streaming(a)
    BY SealedIsDone
  <2>4. ToSend' = ToSend /\ Sealed(a)' = Sealed(a) /\ \A c : Carries(a, c)' <=> Carries(a, c)
    BY <1>1, <1>2 DEF ToSend, Sealed, Ops, Carries
  <2>5. StreamSound(a)
    BY DEF TInv
  <2>6. StreamSound(a)'
    BY <1>1, <2>2, <2>3, <2>4, <2>5 DEF StreamSound, StagedFiles, Staged
  <2> QED BY <2>1, <2>6
<1> QED BY <1>3, <1>4, <1>5, <1>6

LEMMA RewriteKeeps ==
    ASSUME TInv, NEW f \in Files, NEW c \in CellsOf(f), NEW v \in Values, Rewrite(f, c, v)
    PROVE  TInv'
<1> DEFINE x == [source[f].cells EXCEPT ![c] = v]
           n == source[f].version + 1
<1>1. /\ \A g \in Files : source[g].version < MaxWrites
      /\ source' = [source EXCEPT ![f].cells[c] = v, ![f].version = @ + 1]
      /\ UNCHANGED <<gone, seed, environment>>
  BY DEF Rewrite
<1>2. source \in Sourced /\ source[f].cells \in Contents[f] /\ source[f].version \in 0 .. MaxWrites
      /\ source[f] = [cells |-> source[f].cells, version |-> source[f].version] /\ DOMAIN source = Files
  BY SourceTyped DEF TInv, Typed, StoreTyped
<1>3. x \in Contents[f] /\ n \in 0 .. MaxWrites
  <2>1. x \in Contents[f]
    BY <1>2, ContentsTyped
  <2>2. n \in 0 .. MaxWrites
    BY <1>1, <1>2, Sizes
  <2> QED BY <2>1, <2>2
<1>4. source' = [source EXCEPT ![f] = [cells |-> x, version |-> n]]
  BY <1>1, <1>2
<1>5. source' \in Sourced
  <2> HIDE DEF x, n
  <2> QED BY <1>2, <1>3, <1>4, SourceTyped
<1>6. source'[f].version = n /\ \A g \in Files : g # f => source'[g] = source[g]
  <2> HIDE DEF x, n
  <2> QED BY <1>2, <1>4
<1>7. UNCHANGED <<gone, seed, sender, snapshot, pipe, answers, linked, session, staging>> /\ UNCHANGED environment
  BY <1>1 DEF environment
<1>8. Typed'
  BY <1>5, <1>7 DEF TInv, Typed, SenderTyped, PipeTyped, SessionTyped, StoreTyped, Live
<1>9. /\ sender.plan[f].version <= source[f].version /\ sender.plan[f].version \in Nat
      /\ source[f].version \in Nat
  BY <1>2, SenderFields, Sizes DEF TInv, SenderSound, PlanFile
<1>10. \A g \in Files : Fresh(g)' => g # f /\ Fresh(g) /\ source'[g] = source[g]
  BY <1>6, <1>7, <1>9 DEF Fresh
<1>11. SenderSound'
  <2>1. \A g \in Files : sender.plan[g].version <= source'[g].version
    BY <1>6, <1>9 DEF TInv, SenderSound
  <2> QED BY <1>7, <2>1 DEF TInv, SenderSound, File
<1>12. PlanSound'
  <2>1. Target' = Target /\ Mine' = Mine /\ Inspected' = Inspected
    BY <1>7 DEF Target, Mine, Live, Attempt, Inspected
  <2>2. \A g, p, y : PlanFits(g, p, y)' <=> PlanFits(g, p, y)
    BY <1>7 DEF PlanFits, DeltaPlan, Agree, FullPlan, LeftOut
  <2>3. \A g, p, y : DeltaPlan(g, p, y)' <=> DeltaPlan(g, p, y)
    BY <1>7 DEF DeltaPlan, Agree
  <2> QED BY <1>7, <1>10, <2>1, <2>2, <2>3 DEF TInv, PlanSound
<1> QED BY <1>7, <1>8, <1>10, <1>11, <1>12, EnvironmentAside DEF TInv

LEMMA DeletionKeeps ==
    ASSUME TInv, DeleteBundle \/ DeleteSeed
    PROVE  TInv'
<1>1. UNCHANGED <<source, sender, snapshot, pipe, answers, linked, session, staging>> /\ UNCHANGED environment
  BY DEF DeleteBundle, DeleteSeed, environment
<1>2. gone' \in BOOLEAN /\ seed' \in {seed, NoSeed}
  BY DEF DeleteBundle, DeleteSeed, TInv, Typed, StoreTyped
<1>3. Typed'
  BY <1>1, <1>2 DEF TInv, Typed, SenderTyped, PipeTyped, SessionTyped, StoreTyped, Live
<1>4. \A f \in Files : Fresh(f)' <=> Fresh(f)
  BY <1>1 DEF Fresh
<1>5. SenderSound'
  BY <1>1 DEF TInv, SenderSound, File
<1>6. PlanSound'
  <2>1. Target' = Target /\ Mine' = Mine /\ Inspected' = Inspected
    BY <1>1 DEF Target, Mine, Live, Attempt, Inspected
  <2>2. \A g, p, y : DeltaPlan(g, p, y) => DeltaPlan(g, p, y)'
    BY <1>2 DEF DeltaPlan, Agree
  <2>3. \A g : PlanFits(g, sender.plan[g], Target[g]) => PlanFits(g, sender.plan[g], Target[g])'
    BY <1>1, <2>1, <2>2 DEF PlanFits, FullPlan
  <2> QED BY <1>1, <1>4, <2>1, <2>2, <2>3 DEF TInv, PlanSound
<1> QED BY <1>1, <1>3, <1>4, <1>5, <1>6, EnvironmentAside DEF TInv

LEMMA Begins ==
    ASSUME Init
    PROVE  TInv
<1>1. /\ sender = Idle /\ gone = FALSE /\ seed \in Seeds \cup {NoSeed} /\ linked = {}
      /\ snapshot = [t \in Ids |-> NoStaging.files] /\ pipe = [a \in Attempts |-> <<>>]
      /\ answers = [a \in Attempts |-> <<>>] /\ session = [a \in Attempts |-> Session]
      /\ staging = [t \in Ids |-> NoStaging]
  BY DEF Init
<1>2. source \in Sourced
  <2>1. PICK b \in Sources : source = [f \in Files |-> [cells |-> b[f], version |-> 0]]
    BY DEF Init
  <2>2. \A f \in Files : b[f] \in Contents[f]
    BY TransferAssumption, ContentsTyped DEF Values
  <2>3. \A f \in Files : b[f] \in AnyCells
    BY <2>2 DEF AnyCells
  <2>4. 0 \in 0 .. MaxWrites
    BY Sizes
  <2>5. source \in [Files -> [cells : AnyCells, version : 0 .. MaxWrites]]
    BY <2>1, <2>3, <2>4
  <2> QED BY <2>1, <2>2, <2>5 DEF Sourced
<1>3. Typed
  <2>1. SenderTyped /\ StoreTyped
    BY <1>1, <1>2, SessionConstants, BundleTyped DEF SenderTyped, StoreTyped
  <2>2. SessionTyped
    BY <1>1, SessionConstants DEF SessionTyped, Live
  <2>3. PipeTyped /\ answers \in [Attempts -> Seq(Statuses)]
    BY <1>1, NoElement, Sizes DEF PipeTyped
  <2> QED BY <1>1, <2>1, <2>2, <2>3 DEF Typed
<1>4. SenderSound
  <2>1. \A f \in Files : sender.plan[f].version = 0 /\ source[f].version \in Nat
    BY <1>1, <1>3, StoreFields, SessionConstants, Sizes DEF NoPlan, NoPlanFile
  <2> QED BY <1>1, <2>1, SessionConstants DEF SenderSound, Preparing
<1>5. PlanSound /\ BaseSound
  BY <1>1, SessionConstants DEF PlanSound, BaseSound, Inspected, Preparing, Sending
<1>6. AttemptSound
  BY <1>1, SessionConstants DEF AttemptSound, Quiet, Sending, Preparing
<1>7. StageSound
  BY <1>1, SessionConstants DEF StageSound, StagedIsSnapshot, NoStaging, Inspected, Preparing, Sending
<1>8. \A a \in Attempts : PipeSound(a) /\ SessionSound(a) /\ StreamSound(a)
  BY <1>1, SessionConstants DEF PipeSound, SessionSound, StreamSound, Live
<1> QED BY <1>3, <1>4, <1>5, <1>6, <1>7, <1>8 DEF TInv

LEMMA Keeps ==
    ASSUME TInv, [Next]_vars
    PROVE  TInv'
<1>1. CASE \E t \in Ids : StartTransfer(t)
  BY <1>1, StartTransferKeeps
<1>2. CASE SenderStep
  BY <1>2, SenderKeeps
<1>3. CASE \E a \in Attempts : SessionStep(a) \/ WriteFails(a) \/ SessionKilled(a)
  BY <1>3, ServingKeeps
<1>4. CASE \E f \in Files, v \in Values : \E c \in CellsOf(f) : Rewrite(f, c, v)
  BY <1>4, RewriteKeeps
<1>5. CASE DeleteBundle \/ DeleteSeed
  BY <1>5, DeletionKeeps
<1>6. CASE UNCHANGED vars
  <2>1. UNCHANGED <<source, gone, seed, sender, snapshot, pipe, answers, linked, session, staging>>
    BY <1>6 DEF vars
  <2>2. UNCHANGED environment /\ Typed'
    BY <2>1 DEF environment, TInv, Typed, SenderTyped, PipeTyped, SessionTyped, StoreTyped, Live
  <2>3. \A f \in Files : Fresh(f)' <=> Fresh(f)
    BY <2>1 DEF Fresh
  <2>4. SenderSound'
    BY <2>1 DEF TInv, SenderSound, File
  <2>5. PlanSound'
    <3>1. Target' = Target /\ Mine' = Mine /\ Inspected' = Inspected
      BY <2>1 DEF Target, Mine, Live, Attempt, Inspected
    <3>2. \A g, p, y : PlanFits(g, p, y)' <=> PlanFits(g, p, y)
      BY <2>1 DEF PlanFits, DeltaPlan, Agree, FullPlan, LeftOut
    <3>3. \A g, p, y : DeltaPlan(g, p, y)' <=> DeltaPlan(g, p, y)
      BY <2>1 DEF DeltaPlan, Agree
    <3> QED BY <2>1, <2>3, <3>1, <3>2, <3>3 DEF TInv, PlanSound
  <2> QED BY <2>2, <2>3, <2>4, <2>5, EnvironmentAside DEF TInv
<1> QED BY <1>1, <1>2, <1>3, <1>4, <1>5, <1>6 DEF Next

\* The invariant holds of every behaviour.
THEOREM TransferInvariant == Spec => []TInv
<1>1. Init => TInv
  BY Begins
<1>2. TInv /\ [Next]_vars => TInv'
  BY Keeps
<1> QED BY <1>1, <1>2, PTL DEF Spec

\* The variables hold values of their types.
THEOREM TransferTypesCorrect == Spec => []TypeOK
<1>1. TInv => TypeOK
  <2> SUFFICES ASSUME TInv PROVE TypeOK
    OBVIOUS
  <2>1. Typed
    BY DEF TInv
  <2>2. \A f \in Files : source[f].cells \in Contents[f] /\ source[f].version \in 0 .. MaxWrites
    BY <2>1, StoreFields
  <2>3. gone \in BOOLEAN /\ (seed = NoSeed \/ \A f \in Disks : seed[f] \in Contents[f])
    BY <2>1, StoreFields DEF Typed, StoreTyped
  <2>4. /\ sender.pc \in SenderPcs /\ sender.id \in Ids \cup {0} /\ sender.attempt \in 0 .. MaxAttempts
        /\ \A f \in Files : sender.plan[f] \in PlanFile(f) /\ sender.delta[f] \in PlanFile(f)
    BY <2>1, SenderFields DEF Senders
  <2>5. \A a \in Attempts : /\ session[a].pc \in {"none", "begin", "clone", "loop", "receipt", "ended"}
                            /\ session[a].error \in Errors /\ session[a].completed \subseteq Files
    BY <2>1, SessionFields DEF Sessions
  <2>6. /\ \A a \in Attempts : Len(pipe[a]) <= MaxInFlight
        /\ linked \subseteq Attempts
        /\ \A t \in Ids : staging[t].state \in {"NONE", "MADE", "RECEIVING", "COMPLETE"}
    BY <2>1, StoreFields DEF Typed, PipeTyped
  <2> QED BY <2>2, <2>3, <2>4, <2>5, <2>6 DEF TypeOK
<1> QED BY <1>1, TransferInvariant, PTL

\* A staging that says STAGING_COMPLETE holds the bundle as it was when the
\* inspection of its files ended (ReceiverStagingSession.finish), whatever was
\* rewritten, cloned, cut off or tried again meanwhile.
THEOREM StagingIsSnapshot == Spec => []StagedIsSnapshot
<1>1. TInv => StagedIsSnapshot
  BY DEF TInv, StageSound
<1> QED BY <1>1, TransferInvariant, PTL

-----------------------------------------------------------------------------
(* The staging area as the receiver sees it.                               *)

Areas == {1} \X {1} \X (0 .. MaxId)
Area  == [t \in Areas |-> IF t[3] \in Ids THEN StageOf(t[3]) ELSE "NONE"]

\* Nothing becomes of a staging, or one goes from s to e.
AreaKept        == \A t \in Ids : StageOf(t)' = StageOf(t)
AreaMoves(s, e) == \E t \in Ids : /\ StageOf(t) = s /\ StageOf(t)' = e
                                  /\ \A u \in Ids \ {t} : StageOf(u)' = StageOf(u)

LEMMA ServingMoves ==
    ASSUME TInv, NEW a \in Attempts, SessionStep(a) \/ WriteFails(a) \/ SessionKilled(a)
    PROVE  AreaKept \/ AreaMoves("NONE", "RECEIVING") \/ AreaMoves("RECEIVING", "COMPLETE")
<1>0. Typed /\ SessionSound(a)
  BY DEF TInv
<1>1. Serves(a)
  BY <1>0, ServingCases
<1>2. CASE staging' = staging
  BY <1>2 DEF AreaKept, StageOf
<1>3. ASSUME NEW t \in Ids, NEW f \in Files, FileSet(t, f) PROVE AreaKept
  BY <1>3 DEF AreaKept, StageOf, FileSet
<1>4. CASE Begun(a)
  <2>1. PICK t \in Ids : staging[t].state = "NONE" /\ staging'[t].state = "MADE" /\ StateSet(t)
    BY <1>0, <1>4, BegunSeen DEF BegunEffect
  <2> QED BY <2>1 DEF AreaKept, StageOf, StateSet
<1>5. CASE Ready(a)
  <2>1. PICK t \in Ids : t = session[a].id /\ staging'[t].state = "RECEIVING" /\ StateSet(t)
    BY <1>0, <1>5, ReadySeen DEF ReadyEffect
  <2>2. staging[t].state = "MADE"
    BY <1>0, <1>5, <2>1 DEF Ready, SessionSound, Live, Staged
  <2>3. StageOf(t) = "NONE" /\ StageOf(t)' = "RECEIVING" /\ \A u \in Ids \ {t} : StageOf(u)' = StageOf(u)
    BY <2>1, <2>2 DEF StageOf, StateSet
  <2> QED BY <2>3 DEF AreaMoves
<1>6. CASE StagingComplete(a)
  <2>1. PICK t \in Ids : t = session[a].id
    BY <1>0, <1>6, SessionFields DEF StagingComplete
  <2>2. staging' = [staging EXCEPT ![t].state = "COMPLETE"]
    BY <1>6, <2>1 DEF StagingComplete
  <2>3. StateSet(t) /\ staging'[t].state = "COMPLETE"
    BY <1>0, <2>2, SetStateEffect
  <2>4. staging[t].state = "RECEIVING"
    BY <1>0, <1>6, <2>1 DEF StagingComplete, SessionSound, Live, Staged
  <2>5. StageOf(t) = "RECEIVING" /\ StageOf(t)' = "COMPLETE" /\ \A u \in Ids \ {t} : StageOf(u)' = StageOf(u)
    BY <2>3, <2>4 DEF StageOf, StateSet
  <2> QED BY <2>5 DEF AreaMoves
<1>7. ASSUME NEW f \in Files, f \in Disks, Cloned(a, f) PROVE AreaKept
  BY <1>0, <1>3, <1>7, ClonedSeen DEF ClonedEffect
<1>8. ASSUME NEW f \in Files, Opened(a, f) PROVE AreaKept
  <2>1. session[a].id \in Ids /\ FileSet(session[a].id, f)
    BY <1>0, <1>8, OpenedSeen DEF OpenedEffect, CommandEffect
  <2> QED BY <1>3, <2>1
<1>9. ASSUME NEW f \in Files, NEW c \in CellsOf(f), Written(a, f, c) \/ Cleared(a, f, c) PROVE AreaKept
  <2>1. session[a].id \in Ids
    BY <1>0, <1>9, SessionFields DEF Written, Cleared, Reads
  <2>2. PICK v : v = (IF Written(a, f, c) THEN Record(a).value ELSE Hole)
    OBVIOUS
  <2>3. staging' = [staging EXCEPT ![session[a].id].files[f] = [StagedFiles(a)[f] EXCEPT ![c] = v]]
    BY <1>9, <2>2 DEF Written, Cleared, SetFile
  <2>4. staging \in [Ids -> Stagings]
    BY <1>0 DEF Typed, StoreTyped
  <2>5. \A t \in Ids : staging'[t].state = staging[t].state
    BY <2>1, <2>3, <2>4 DEF Stagings
  <2> QED BY <2>5 DEF AreaKept, StageOf
<1>10. Aborted(a) \/ Receipted(a) \/ (\E f \in Files : Closed(a, f)) => staging' = staging
  BY DEF Aborted, Receipted, Closed
<1> QED BY <1>1, <1>2, <1>4, <1>5, <1>6, <1>7, <1>8, <1>9, <1>10 DEF Serves

LEMMA StagingMoves ==
    ASSUME TInv, [Next]_vars
    PROVE  AreaKept \/ AreaMoves("NONE", "RECEIVING") \/ AreaMoves("RECEIVING", "COMPLETE")
<1>1. staging' = staging => AreaKept
  BY DEF AreaKept, StageOf
<1>2. CASE \E a \in Attempts : SessionStep(a) \/ WriteFails(a) \/ SessionKilled(a)
  BY <1>2, ServingMoves
<1>3. (\E t \in Ids : StartTransfer(t)) => staging' = staging
  BY DEF StartTransfer, senderOnly
<1>4. SenderStep => staging' = staging
  BY DEF SenderStep, InspectFile, InspectDone, SeedGivenUp, SeedReady, CompareFile, SeedDone, SendBegin, HearReady,
         SendFileBegin, OpenFile, SendExtent, DataSent, SendHole, Recheck, HearComplete, SendFinish, HearReceipt,
         SenderFails, senderOnly
<1>5. (\E f \in Files, v \in Values : \E c \in CellsOf(f) : Rewrite(f, c, v)) => staging' = staging
  BY DEF Rewrite, environment
<1>6. DeleteBundle \/ DeleteSeed \/ UNCHANGED vars => staging' = staging
  BY DEF DeleteBundle, DeleteSeed, environment, vars
<1> QED BY <1>1, <1>2, <1>3, <1>4, <1>5, <1>6 DEF Next

\* The area of one staging, and of all but one.
LEMMA AreaChanges ==
    ASSUME NEW t \in Ids, NEW e, StageOf(t)' = e, \A u \in Ids \ {t} : StageOf(u)' = StageOf(u)
    PROVE  /\ <<1, 1, t>> \in Areas /\ Area[<<1, 1, t>>] = StageOf(t)
           /\ Area' = [Area EXCEPT ![<<1, 1, t>>] = e]
<1>1. <<1, 1, t>> \in Areas
  BY Sizes DEF Areas, Ids
<1>2. ASSUME NEW x \in Areas PROVE x = <<1, 1, t>> <=> x[3] = t
  BY DEF Areas
<1>3. \A x \in Areas : Area'[x] = IF x[3] \in Ids THEN StageOf(x[3])' ELSE "NONE"
  BY DEF Area
<1>4. \A x \in Areas : Area[x] = IF x[3] \in Ids THEN StageOf(x[3]) ELSE "NONE"
  BY DEF Area
<1>5. \A x \in Areas : Area'[x] = IF x = <<1, 1, t>> THEN e ELSE Area[x]
  BY <1>2, <1>3, <1>4
<1>6. /\ Area' = [x \in Areas |-> Area'[x]] /\ Area = [x \in Areas |-> Area[x]]
  BY DEF Area
<1>7. Area' = [x \in Areas |-> IF x = <<1, 1, t>> THEN e ELSE Area[x]]
  BY <1>5, <1>6
<1>8. [Area EXCEPT ![<<1, 1, t>>] = e] = [x \in Areas |-> IF x = <<1, 1, t>> THEN e ELSE Area[x]]
  BY <1>6
<1> QED BY <1>1, <1>4, <1>7, <1>8

\* The receiver as far as transfers see it.
ServiceView == <<<<Area, [d \in {1} |-> [p \in {1} |-> "NONE"]], [d \in {1} |-> [p \in {1} |-> -1]]>>, {},
                 [d \in {1} |-> [call |-> [kind |-> "NONE"], step |-> "none"]], [kind |-> "NONE"], "none">>

LEMMA StagingBegins ==
    ASSUME Init
    PROVE  Service!ReceiverInit
<1>1. \A t \in Ids : StageOf(t) = "NONE"
  BY DEF Init, StageOf, NoStaging
<1>2. Area = [t \in Areas |-> "NONE"]
  BY <1>1 DEF Area
<1>3. Service!Transfers = Areas /\ Service!Points = {1}
  BY DEF Service!Transfers, Service!Points, Service!Tasks, Areas
<1>4. [t \in {1} \X {1} \X (0 .. MaxId) |-> IF t[3] \in Ids THEN StageOf(t[3]) ELSE "NONE"] = [t \in Service!Transfers |-> "NONE"]
  BY <1>2, <1>3 DEF Area, Areas
<1> QED BY <1>3, <1>4 DEF Service!ReceiverInit, Service!Idle, Service!NoCall, Service!NoTask

LEMMA StagingServes ==
    ASSUME TInv, [Next]_vars
    PROVE  Service!ServiceNext \/ UNCHANGED ServiceView
<1>0. \A t \in Ids : <<1, 1, t>> \in Service!Requested
  <2> TAKE t \in Ids
  <2>1. Publish(t).kind = "PUBLISH" /\ Publish(t).point = 1 /\ Publish(t).dest = 1 /\ Publish(t).id = t
    BY DEF Publish
  <2> QED BY <2>1 DEF Service!Requested
<1>1. CASE AreaKept
  <2>1. Area' = Area
    BY <1>1 DEF AreaKept, Area
  <2> QED BY <2>1 DEF ServiceView
<1>2. CASE AreaMoves("NONE", "RECEIVING")
  <2>1. PICK t \in Ids : /\ StageOf(t) = "NONE" /\ StageOf(t)' = "RECEIVING"
                         /\ \A u \in Ids \ {t} : StageOf(u)' = StageOf(u)
    BY <1>2 DEF AreaMoves
  <2>2. Area[<<1, 1, t>>] = "NONE" /\ Area' = [Area EXCEPT ![<<1, 1, t>>] = "RECEIVING"]
    BY <2>1, AreaChanges
  <2>3. Service!Prepare(<<1, 1, t>>)
    BY <2>2 DEF Service!Prepare, Area, Areas
  <2> QED BY <1>0, <2>3 DEF Service!ServiceNext
<1>3. CASE AreaMoves("RECEIVING", "COMPLETE")
  <2>1. PICK t \in Ids : /\ StageOf(t) = "RECEIVING" /\ StageOf(t)' = "COMPLETE"
                         /\ \A u \in Ids \ {t} : StageOf(u)' = StageOf(u)
    BY <1>3 DEF AreaMoves
  <2>2. Area[<<1, 1, t>>] = "RECEIVING" /\ Area' = [Area EXCEPT ![<<1, 1, t>>] = "COMPLETE"]
    BY <2>1, AreaChanges
  <2>3. Service!Finish(<<1, 1, t>>)
    BY <2>2 DEF Service!Finish, Area, Areas
  <2> QED BY <1>0, <2>3 DEF Service!ServiceNext
<1> QED BY <1>1, <1>2, <1>3, StagingMoves

\* Transfer sessions fill the staging area as the rest of the receiver expects:
\* an id goes from nothing over RECEIVING to COMPLETE, once, whatever sessions
\* of other attempts do with it.
THEOREM TransferImplementsStaging == Spec => ImplementsStaging
<1>1. Init => Service!ReceiverInit
  BY StagingBegins
<1>2. TInv /\ [Next]_vars => [Service!ServiceNext]_ServiceView
  BY StagingServes
<1> QED BY <1>1, <1>2, TransferInvariant, PTL
    DEF Spec, ImplementsStaging, Service!ServiceSpec, Service!serviceVars, Service!storeVars, ServiceView, Area, Areas
=============================================================================
