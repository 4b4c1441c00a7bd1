-------------------------- MODULE ReplicaTransfer --------------------------
(***************************************************************************)
(* Transfer of a published bundle to the staging area of a receiver: the   *)
(* sender plans sparse files, may reduce the plan to what differs from a   *)
(* FULL the receiver already has (the seed), and streams it over SSH into  *)
(* a receiver session.  A session of a given-up attempt goes on reading    *)
(* what is left in its pipe.                                               *)
(*                                                                         *)
(* The source bundle may be rewritten or deleted meanwhile, the seed may   *)
(* be deleted, the connection may break, receiver sessions may fail or be  *)
(* killed, and a transfer id may be tried again.                           *)
(*                                                                         *)
(* Abstractions.  A file is an array of cells; a cell is a hole or holds a *)
(* value, an extent is one cell, and the checksum of an extent never fails.*)
(* A version stands for device, inode, size and mtime of a file.           *)
(* Publication is Receiver.  SeedAnswersNamed is FALSE for vmbackupd-seed  *)
(* of this repository, whose answers lack the "service" that the sender    *)
(* asks for, so that every seed negotiation is given up.                   *)
(***************************************************************************)
EXTENDS Integers, Sequences, FiniteSets

CONSTANTS
    Order,              \* the files of the bundle as they are sent
    Size,               \* cells of a file
    CompareCells,       \* cells of a seed comparison block
    MaxValue,           \* data cells hold 1 .. MaxValue
    Kind,               \* "FULL" or "INCREMENTAL"
    Sources,            \* contents the bundle may have: cells of each file
    Seeds,              \* contents the disks of the seed may have
    SeedAnswersNamed,
    MaxId,              \* transfer ids are 1 .. MaxId
    MaxAttempts,        \* bound: transfers that are started
    MaxWrites,          \* bound: rewrites of a file, after which the bundle stays
    MaxInFlight         \* bound: records in a pipe

Files == {Order[i] : i \in 1 .. Len(Order)}
Disks == Files \ {"metadata"}
Ids   == 1 .. MaxId
Hole  == 0

CellsOf(f) == 1 .. Size[f]

ASSUME TransferAssumption ==
    /\ Order \in Seq(Files)
    /\ "metadata" \in Files /\ Disks # {}
    /\ "none" \notin Files    \* it stands for no file
    /\ DOMAIN Size = Files
    /\ \A f \in Files : Size[f] \in Nat \ {0}
    /\ CompareCells \in Nat \ {0}
    /\ MaxValue \in Nat \ {0}
    /\ Kind \in {"FULL", "INCREMENTAL"}
    /\ \A b \in Sources : /\ DOMAIN b = Files
                          /\ \A f \in Files : b[f] \in [CellsOf(f) -> Hole .. MaxValue]
                          /\ \A c \in CellsOf("metadata") : b["metadata"][c] # Hole
    /\ \A b \in Seeds : /\ DOMAIN b = Disks
                        /\ \A f \in Disks : b[f] \in [CellsOf(f) -> Hole .. MaxValue]
    /\ SeedAnswersNamed \in BOOLEAN
    /\ MaxId \in Nat
    /\ MaxAttempts \in Nat
    /\ MaxWrites \in Nat
    /\ MaxInFlight \in Nat \ {0}

VARIABLES
    source,     \* the published bundle
    gone,       \* has it been deleted?
    seed,       \* disks of the newest published FULL on the receiver
    sender,     \* SSHReplicaTransferClient.transfer and its locals
    snapshot,   \* history: the bundle when the inspection of an id's plan ended
    pipe,       \* records sent and not read yet, of each attempt
    answers,    \* responses not read yet, of each attempt
    linked,     \* attempts whose connection holds
    session,    \* run_receiver_transfer of each attempt
    staging     \* staging directory of each transfer id

vars == <<source, gone, seed, sender, snapshot, pipe, answers, linked, session, staging>>

Attempts == 1 .. MaxAttempts
Values   == Hole .. MaxValue
Contents == [f \in Files |-> [CellsOf(f) -> Values]]
PlanFile(f) == [extents : SUBSET CellsOf(f), holes : SUBSET CellsOf(f), version : 0 .. MaxWrites]
NoPlanFile  == [extents |-> {}, holes |-> {}, version |-> 0]
NoPlan      == [f \in Files |-> NoPlanFile]
NoSeed      == <<>>

SenderPcs == {"idle", "inspect", "seed", "compare", "compared", "begin", "ready", "file",
              "open", "data", "holes", "close", "finish", "receipt", "done"}
Idle == [pc |-> "idle", id |-> 0, attempt |-> 0, todo |-> <<>>, plan |-> NoPlan,
         delta |-> NoPlan, cells |-> {}, seeded |-> FALSE]

Errors  == {"none", "CAPACITY", "EXISTS", "SEED", "IO", "PROTOCOL", "TRUNCATED"}
Session == [pc |-> "none", id |-> 0, seeded |-> FALSE, payload |-> [f \in Files |-> 0],
            current |-> "none", got |-> {}, completed |-> {}, error |-> "none"]

Absent    == <<>>
NoStaging == [state |-> "NONE", files |-> [f \in Files |-> Absent]]

TypeOK ==
    /\ \A f \in Files : /\ source[f].cells \in Contents[f]
                        /\ source[f].version \in 0 .. MaxWrites
    /\ gone \in BOOLEAN
    /\ seed = NoSeed \/ \A f \in Disks : seed[f] \in Contents[f]
    /\ sender.pc \in SenderPcs
    /\ sender.id \in Ids \cup {0}
    /\ sender.attempt \in 0 .. MaxAttempts
    /\ \A f \in Files : sender.plan[f] \in PlanFile(f) /\ sender.delta[f] \in PlanFile(f)
    /\ \A a \in Attempts : Len(pipe[a]) <= MaxInFlight
    /\ linked \subseteq Attempts
    /\ \A a \in Attempts : /\ session[a].pc \in {"none", "begin", "clone", "loop", "receipt", "ended"}
                           /\ session[a].error \in Errors
                           /\ session[a].completed \subseteq Files
    /\ \A t \in Ids : staging[t].state \in {"NONE", "MADE", "RECEIVING", "COMPLETE"}

Init ==
    /\ \E b \in Sources : source = [f \in Files |-> [cells |-> b[f], version |-> 0]]
    /\ gone = FALSE
    /\ seed \in Seeds \cup {NoSeed}
    /\ sender = Idle
    /\ snapshot = [t \in Ids |-> NoStaging.files]
    /\ pipe = [a \in Attempts |-> <<>>]
    /\ answers = [a \in Attempts |-> <<>>]
    /\ linked = {}
    /\ session = [a \in Attempts |-> Session]
    /\ staging = [t \in Ids |-> NoStaging]

-----------------------------------------------------------------------------
(* The sender's plan *)

\* What the planning of the sender leaves alone.
senderOnly == <<source, gone, seed, pipe, answers, linked, session, staging>>

DataCells(f) == {c \in CellsOf(f) : source[f].cells[c] # Hole}

\* _metadata_file and _disk_file: sparse extents and identity of a file.
Planned(f) == [extents |-> DataCells(f), holes |-> {}, version |-> source[f].version]

\* run_once: every attempt has a plan of its own.  Ids are numbered as they are
\* first tried.
StartTransfer(t) ==
    /\ sender.pc \in {"idle", "done"} /\ sender.attempt < MaxAttempts
    /\ t <= sender.attempt + 1
    /\ sender' = [Idle EXCEPT !.pc = "inspect", !.id = t, !.attempt = sender.attempt + 1,
                              !.todo = Order]
    /\ UNCHANGED <<snapshot, senderOnly>>

\* inspect_published_bundle: an empty disk or a missing file ends the transfer.
InspectFile ==
    /\ sender.pc = "inspect" /\ sender.todo # <<>>
    /\ LET f == Head(sender.todo) IN
         /\ ~gone /\ DataCells(f) # {}
         /\ sender' = [sender EXCEPT !.todo = Tail(@), !.plan[f] = Planned(f)]
    /\ UNCHANGED <<snapshot, senderOnly>>

\* The plan of a transfer that was staged before is not what that staging holds.
InspectDone ==
    /\ sender.pc = "inspect" /\ sender.todo = <<>>
    /\ sender' = [sender EXCEPT !.pc = "seed"]
    /\ snapshot' = IF staging[sender.id].state = "NONE"
                   THEN [snapshot EXCEPT ![sender.id] = [f \in Files |-> source[f].cells]]
                   ELSE snapshot
    /\ UNCHANGED senderOnly

-----------------------------------------------------------------------------
(* _seeded_full_plan and run_receiver_seed *)

\* Whatever goes wrong, the transfer goes on with the full plan.
SeedGivenUp ==
    /\ sender.pc \in {"seed", "compare", "compared"}
    /\ sender' = [sender EXCEPT !.pc = "begin", !.todo = Order, !.delta = NoPlan]
    /\ UNCHANGED <<snapshot, senderOnly>>

SeedReady ==
    /\ sender.pc = "seed" /\ Kind = "FULL" /\ SeedAnswersNamed
    /\ seed # NoSeed
    /\ sender' = [sender EXCEPT !.pc = "compare", !.todo = Order, !.delta = sender.plan]
    /\ UNCHANGED <<snapshot, senderOnly>>

Blocks(f)   == 0 .. (Size[f] - 1) \div CompareCells
Block(f, b) == {c \in CellsOf(f) : (c - 1) \div CompareCells = b}

\* _source_block_signature calls a block without data "HOLE"; _block_signature
\* does so only if data follow it, else it hashes the zeros.
SourceSignature(f, b) ==
    IF Block(f, b) \cap sender.plan[f].extents = {} THEN <<"HOLE">>
    ELSE <<"SHA256", [c \in Block(f, b) |-> source[f].cells[c]]>>
SeedSignature(f, b) ==
    IF /\ \A c \in Block(f, b) : seed[f][c] = Hole
       /\ \E c \in CellsOf(f) : seed[f][c] # Hole /\ \A e \in Block(f, b) : e < c
    THEN <<"HOLE">>
    ELSE <<"SHA256", [c \in Block(f, b) |-> seed[f][c]]>>

Changed(f) == {b \in Blocks(f) : SourceSignature(f, b) # SeedSignature(f, b)}

\* Mutant: holes of changed blocks are left as they are in the seed.
DeltaWithoutHoles(f) ==
    LET cells == UNION {Block(f, b) : b \in Changed(f)}
    IN [sender.plan[f] EXCEPT !.extents = @ \cap cells]

\* _delta_file: of the changed blocks, data as extents and holes to be cleared.
DeltaFile(f) ==
    LET cells == UNION {Block(f, b) : b \in Changed(f)}
    IN [sender.plan[f] EXCEPT !.extents = @ \cap cells, !.holes = cells \ sender.plan[f].extents]

\* COMPARE
CompareFile ==
    /\ sender.pc = "compare" /\ sender.todo # <<>>
    /\ LET f == Head(sender.todo) IN
         /\ f \in Disks => seed # NoSeed /\ ~gone
         /\ sender' = [sender EXCEPT !.todo = Tail(@),
                         !.delta[f] = IF f \in Disks THEN DeltaFile(f) ELSE sender.plan[f]]
    /\ UNCHANGED <<snapshot, senderOnly>>

SeedDone ==
    /\ sender.pc = "compare" /\ sender.todo = <<>>
    /\ sender' = [sender EXCEPT !.pc = "begin", !.todo = Order, !.plan = sender.delta,
                                !.delta = NoPlan, !.seeded = TRUE]
    /\ UNCHANGED <<snapshot, senderOnly>>

-----------------------------------------------------------------------------
(* transfer and _send_file *)

Attempt == sender.attempt

\* The pipe takes a record while the connection holds.
Send(record) ==
    /\ Attempt \in linked /\ Len(pipe[Attempt]) < MaxInFlight
    /\ pipe' = [pipe EXCEPT ![Attempt] = Append(@, record)]

\* _read_response
Hear(status) ==
    /\ answers[Attempt] # <<>> /\ Head(answers[Attempt]) = status
    /\ answers' = [answers EXCEPT ![Attempt] = Tail(@)]

Payload == [f \in Files |-> Cardinality(sender.plan[f].extents)]

SendBegin ==
    /\ sender.pc = "begin"
    /\ linked' = linked \cup {Attempt}
    /\ pipe' = [pipe EXCEPT ![Attempt] =
          <<[op |-> "BEGIN", id |-> sender.id, seeded |-> sender.seeded, payload |-> Payload]>>]
    /\ session' = [session EXCEPT ![Attempt].pc = "begin"]
    /\ sender' = [sender EXCEPT !.pc = "ready"]
    /\ UNCHANGED <<source, gone, seed, snapshot, answers, staging>>

HearReady ==
    /\ sender.pc = "ready" /\ Hear("READY")
    /\ sender' = [sender EXCEPT !.pc = "file"]
    /\ UNCHANGED <<source, gone, seed, snapshot, pipe, linked, session, staging>>

File == Head(sender.todo)

SendFileBegin ==
    /\ sender.pc = "file" /\ sender.todo # <<>>
    /\ Send([op |-> "FILE_BEGIN", file |-> File])
    /\ sender' = [sender EXCEPT !.pc = "open"]
    /\ UNCHANGED <<source, gone, seed, snapshot, answers, linked, session, staging>>

\* device, inode, size and mtime of the open file
Unchanged(f) == source[f].version = sender.plan[f].version

\* FILE_READY; the file is opened and must be the one inspected.
OpenFile ==
    /\ sender.pc = "open" /\ Hear("FILE_READY")
    /\ ~gone /\ Unchanged(File)
    /\ sender' = [sender EXCEPT !.pc = "data", !.cells = sender.plan[File].extents]
    /\ UNCHANGED <<source, gone, seed, snapshot, pipe, linked, session, staging>>

FirstOf(cells) == CHOOSE c \in cells : \A e \in cells : c <= e

\* The open file is read even if the bundle has been deleted.
SendExtent ==
    /\ sender.pc = "data" /\ sender.cells # {}
    /\ LET c == FirstOf(sender.cells) IN
         /\ Send([op |-> "EXTENT", cell |-> c, value |-> source[File].cells[c]])
         /\ sender' = [sender EXCEPT !.cells = @ \ {c}]
    /\ UNCHANGED <<source, gone, seed, snapshot, answers, linked, session, staging>>

DataSent ==
    /\ sender.pc = "data" /\ sender.cells = {}
    /\ sender' = [sender EXCEPT !.pc = "holes", !.cells = sender.plan[File].holes]
    /\ UNCHANGED <<snapshot, senderOnly>>

SendHole ==
    /\ sender.pc = "holes" /\ sender.cells # {}
    /\ LET c == FirstOf(sender.cells) IN
         /\ Send([op |-> "HOLE", cell |-> c])
         /\ sender' = [sender EXCEPT !.cells = @ \ {c}]
    /\ UNCHANGED <<source, gone, seed, snapshot, answers, linked, session, staging>>

\* fstat after the last read
Recheck ==
    /\ sender.pc = "holes" /\ sender.cells = {}
    /\ Unchanged(File)
    /\ Send([op |-> "FILE_END", file |-> File])
    /\ sender' = [sender EXCEPT !.pc = "close"]
    /\ UNCHANGED <<source, gone, seed, snapshot, answers, linked, session, staging>>

HearComplete ==
    /\ sender.pc = "close" /\ Hear("FILE_COMPLETE")
    /\ sender' = [sender EXCEPT !.pc = "file", !.todo = Tail(@)]
    /\ UNCHANGED <<source, gone, seed, snapshot, pipe, linked, session, staging>>

SendFinish ==
    /\ sender.pc = "file" /\ sender.todo = <<>>
    /\ Send([op |-> "FINISH"])
    /\ sender' = [sender EXCEPT !.pc = "receipt"]
    /\ UNCHANGED <<source, gone, seed, snapshot, answers, linked, session, staging>>

\* STAGING_COMPLETE, and ssh exits with 0.
HearReceipt ==
    /\ sender.pc = "receipt" /\ Hear("STAGING_COMPLETE")
    /\ sender' = [Idle EXCEPT !.pc = "done", !.id = sender.id, !.attempt = Attempt]
    /\ linked' = linked \ {Attempt}
    /\ UNCHANGED <<source, gone, seed, snapshot, pipe, session, staging>>

\* An error answer, a changed or missing file, a broken connection, or the stop
\* event of the daemon: ssh is killed, and some of the pipe may be lost.
SenderFails ==
    /\ sender.pc \notin {"idle", "done"}
    /\ sender' = [Idle EXCEPT !.attempt = Attempt]
    /\ linked' = linked \ {Attempt}
    /\ \E n \in 0 .. Len(pipe[Attempt]) :
          pipe' = [pipe EXCEPT ![Attempt] = SubSeq(@, 1, n)]
    /\ answers' = [answers EXCEPT ![Attempt] = <<>>]
    /\ UNCHANGED <<source, gone, seed, snapshot, session, staging>>

SenderStep ==
    \/ InspectFile \/ InspectDone \/ SeedGivenUp \/ SeedReady \/ CompareFile \/ SeedDone
    \/ SendBegin \/ HearReady \/ SendFileBegin \/ OpenFile \/ SendExtent \/ DataSent
    \/ SendHole \/ Recheck \/ HearComplete \/ SendFinish \/ HearReceipt
    \/ SenderFails

-----------------------------------------------------------------------------
(* run_receiver_transfer and ReceiverStagingSession *)

\* What no session changes.
receiverOnly == <<source, gone, seed, sender, snapshot, linked>>

\* The next record of the sender.
Reads(a, pc, op) == session[a].pc = pc /\ pipe[a] # <<>> /\ Head(pipe[a]).op = op
Record(a) == Head(pipe[a])
Consume(a) == pipe' = [pipe EXCEPT ![a] = Tail(@)]
Answer(a, status) == answers' = IF a \in linked THEN [answers EXCEPT ![a] = Append(@, status)]
                                ELSE answers
Becomes(a, s) == session' = [session EXCEPT ![a] = s]

\* The session ends with an ERROR response; what it staged stays.
EndWith(a, code) ==
    /\ Becomes(a, [Session EXCEPT !.pc = "ended", !.id = session[a].id, !.error = code])
    /\ Answer(a, "ERROR")
    /\ pipe' = [pipe EXCEPT ![a] = <<>>]

Staged(a) == staging[session[a].id]
SetFile(a, f, cells) == staging' = [staging EXCEPT ![session[a].id].files[f] = cells]

\* _parse_file
ValidFile(f, bytes) == bytes <= Size[f] /\ (f = "metadata" => bytes = Size[f])

\* _parse_begin
ValidDeclaration(m) ==
    /\ \A f \in Files : ValidFile(f, m.payload[f])
    /\ m.seeded => Kind = "FULL"

\* Mutant: a staging directory that is there already is used.
MakeStagingAgain(a, m) ==
    /\ staging' = [staging EXCEPT ![m.id].state = "MADE"]
    /\ Becomes(a, [Session EXCEPT !.pc = "clone", !.id = m.id, !.seeded = m.seeded,
                                  !.payload = m.payload])
    /\ Consume(a)
    /\ UNCHANGED answers

\* prepare, the directories: a transfer id is staged once.
MakeStaging(a, m) ==
    /\ staging[m.id].state = "NONE"
    /\ staging' = [staging EXCEPT ![m.id].state = "MADE"]
    /\ Becomes(a, [Session EXCEPT !.pc = "clone", !.id = m.id, !.seeded = m.seeded,
                                  !.payload = m.payload])
    /\ Consume(a)
    /\ UNCHANGED answers

Begin(a) ==
    /\ Reads(a, "begin", "BEGIN")
    /\ LET m == Record(a) IN
         \/ ValidDeclaration(m) /\ MakeStaging(a, m)
         \/ /\ \/ ~ValidDeclaration(m) /\ EndWith(a, "PROTOCOL")
               \/ staging[m.id].state # "NONE" /\ EndWith(a, "EXISTS")
               \/ EndWith(a, "CAPACITY")       \* the storage is full, or not resolved
            /\ UNCHANGED staging
    /\ UNCHANGED receiverOnly

Unseeded(a) == {f \in Disks : session[a].seeded /\ Staged(a).files[f] = Absent}

\* _seed_disks copies one disk after another; the seed may be deleted between.
CloneSeed(a, f) ==
    /\ session[a].pc = "clone" /\ f \in Unseeded(a)
    /\ IF seed = NoSeed THEN EndWith(a, "SEED") /\ UNCHANGED staging
       ELSE SetFile(a, f, seed[f]) /\ UNCHANGED <<session, answers, pipe>>
    /\ UNCHANGED receiverOnly

\* transfer.json says RECEIVING.
Ready(a) ==
    /\ session[a].pc = "clone" /\ Unseeded(a) = {}
    /\ staging' = [staging EXCEPT ![session[a].id].state = "RECEIVING"]
    /\ Becomes(a, [session[a] EXCEPT !.pc = "loop"])
    /\ Answer(a, "READY")
    /\ UNCHANGED <<pipe, receiverOnly>>

\* A handler of the command loop: its checks, and what it does.
Handle(a, op, valid, after, cells, status) ==
    /\ Reads(a, "loop", op)
    /\ IF valid
       THEN /\ Becomes(a, after)
            /\ SetFile(a, IF after.current = "none" THEN session[a].current ELSE after.current, cells)
            /\ Consume(a)
            /\ IF status = "none" THEN UNCHANGED answers ELSE Answer(a, status)
       ELSE EndWith(a, "PROTOCOL") /\ UNCHANGED staging
    /\ UNCHANGED receiverOnly

\* begin_file creates the file, all holes; a seeded disk is there already.
FileBegin(a) ==
    LET s == session[a]
        f == Record(a).file
        seeded == s.seeded /\ f \in Disks
    IN Handle(a, "FILE_BEGIN",
              /\ s.current = "none" /\ f \notin s.completed
              /\ (Staged(a).files[f] = Absent) = ~seeded,
              [s EXCEPT !.current = f, !.got = {}],
              IF seeded THEN Staged(a).files[f] ELSE [c \in CellsOf(f) |-> Hole],
              "FILE_READY")

\* write_extent
Extent(a) ==
    LET s == session[a]
        c == Record(a).cell
    IN Handle(a, "EXTENT",
              /\ s.current # "none"
              /\ c \in CellsOf(s.current) \ s.got
              /\ Cardinality(s.got) + 1 <= s.payload[s.current],
              [s EXCEPT !.got = @ \cup {c}],
              [Staged(a).files[s.current] EXCEPT ![c] = Record(a).value],
              "none")

\* write_hole
ClearHole(a) ==
    LET s == session[a]
        c == Record(a).cell
    IN Handle(a, "HOLE",
              s.current \in Disks /\ c \in CellsOf(s.current),
              s,
              [Staged(a).files[s.current] EXCEPT ![c] = Hole],
              "none")

\* end_file
FileEnd(a) ==
    LET s == session[a]
        f == s.current
    IN Handle(a, "FILE_END",
              f = Record(a).file /\ Cardinality(s.got) = s.payload[f],
              [s EXCEPT !.current = "none", !.got = {}, !.completed = @ \cup {f}],
              Staged(a).files[f],
              "FILE_COMPLETE")

AllCompleted(s) == s.current = "none" /\ s.completed = Files

\* finish: receipt.json
WriteReceipt(a) ==
    /\ Reads(a, "loop", "FINISH")
    /\ IF AllCompleted(session[a])
       THEN Becomes(a, [session[a] EXCEPT !.pc = "receipt"]) /\ Consume(a) /\ UNCHANGED answers
       ELSE EndWith(a, "PROTOCOL")
    /\ UNCHANGED <<staging, receiverOnly>>

\* finish: transfer.json
StagingComplete(a) ==
    /\ session[a].pc = "receipt"
    /\ staging' = [staging EXCEPT ![session[a].id].state = "COMPLETE"]
    /\ Becomes(a, [Session EXCEPT !.pc = "ended", !.id = session[a].id])
    /\ Answer(a, "STAGING_COMPLETE")
    /\ UNCHANGED <<pipe, receiverOnly>>

\* Mutant: a session goes on waiting when the pipe is closed between two records.
TruncatedWaits(a) == FALSE

\* The pipe is closed in the middle of the protocol, or within a record.
Truncated(a) ==
    /\ session[a].pc \in {"begin", "loop"}
    /\ a \notin linked /\ pipe[a] = <<>>
    /\ EndWith(a, "TRUNCATED")
    /\ UNCHANGED <<staging, receiverOnly>>

Live(a) == session[a].pc \in {"clone", "loop", "receipt"}

\* An error of the file system.
WriteFails(a) ==
    /\ Live(a)
    /\ EndWith(a, "IO")
    /\ UNCHANGED <<staging, receiverOnly>>

SessionKilled(a) ==
    /\ Live(a)
    /\ Becomes(a, [Session EXCEPT !.pc = "ended", !.id = session[a].id])
    /\ pipe' = [pipe EXCEPT ![a] = <<>>]
    /\ linked' = linked \ {a}
    /\ UNCHANGED <<source, gone, seed, sender, snapshot, answers, staging>>

SessionStep(a) ==
    \/ Begin(a) \/ Ready(a) \/ FileBegin(a) \/ Extent(a) \/ ClearHole(a) \/ FileEnd(a)
    \/ WriteReceipt(a) \/ StagingComplete(a) \/ Truncated(a)
    \/ \E f \in Disks : CloneSeed(a, f)

-----------------------------------------------------------------------------
(* The bundle and the seed *)

\* What happens to the bundle and the seed leaves transfers alone.
environment == <<sender, snapshot, pipe, answers, linked, session, staging>>

\* Another program writes to the published bundle.
Rewrite(f, c, v) ==
    /\ ~gone /\ \A g \in Files : source[g].version < MaxWrites
    /\ f = "metadata" => v # Hole
    /\ source[f].cells[c] # v
    /\ source' = [source EXCEPT ![f].cells[c] = v, ![f].version = @ + 1]
    /\ UNCHANGED <<gone, seed, environment>>

\* delete_local_backup of the point: the files are unlinked.
DeleteBundle ==
    /\ ~gone
    /\ gone' = TRUE
    /\ UNCHANGED <<source, seed, environment>>

\* delete_published_replica of the seed
DeleteSeed ==
    /\ seed # NoSeed
    /\ seed' = NoSeed
    /\ UNCHANGED <<source, gone, environment>>

Next ==
    \/ \E t \in Ids : StartTransfer(t)
    \/ SenderStep
    \/ \E a \in Attempts : SessionStep(a) \/ WriteFails(a) \/ SessionKilled(a)
    \/ \E f \in Files, v \in Values : \E c \in CellsOf(f) : Rewrite(f, c, v)
    \/ DeleteBundle
    \/ DeleteSeed

Spec == Init /\ [][Next]_vars

\* ssh notices a dead peer (ServerAliveInterval, ConnectTimeout), so that neither
\* end waits for ever; both programs go on while they have something to read.
FairSpec ==
    /\ Spec
    /\ WF_vars(SenderStep)
    /\ \A a \in Attempts : WF_vars(SessionStep(a))

-----------------------------------------------------------------------------
(* Properties *)

\* A staging that says STAGING_COMPLETE is the bundle as it was at one moment,
\* when the inspection of its files ended: rewrites during the transfer, holes
\* of a cloned seed, an earlier session or a broken pipe leave no mixture.
StagedIsSnapshot ==
    \A t \in Ids : staging[t].state = "COMPLETE" => staging[t].files = snapshot[t]

\* Every transfer returns, and its session on the receiver ends, whatever breaks.
TransfersEnd ==
    /\ sender.pc \notin {"idle", "done"} ~> sender.pc \in {"idle", "done"}
    /\ \A a \in Attempts : Live(a) ~> ~Live(a)

\* The staging area as Receiver sees it.
StageOf(t) == IF staging[t].state \in {"RECEIVING", "COMPLETE"} THEN staging[t].state ELSE "NONE"

Publish(t) == [kind |-> "PUBLISH", point |-> 1, dest |-> 1, id |-> t]

Service == INSTANCE ReceiverService WITH
    MaxPoint <- 1, Parent <- [p \in {1} |-> 0], Dests <- {1}, MaxTask <- MaxId,
    Requests <- {Publish(t) : t \in Ids},
    stage  <- [t \in {1} \X {1} \X (0 .. MaxId) |-> IF t[3] \in Ids THEN StageOf(t[3]) ELSE "NONE"],
    bundle <- [d \in {1} |-> [p \in {1} |-> "NONE"]],
    marker <- [d \in {1} |-> [p \in {1} |-> -1]],
    queue <- {}, serving <- [d \in {1} |-> [call |-> [kind |-> "NONE"], step |-> "none"]],
    call <- [kind |-> "NONE"], answer <- "none"

\* Transfer sessions fill the staging area as the receiver of the other modules
\* expects: an id goes from nothing over RECEIVING to COMPLETE, once.
ImplementsStaging == Service!ServiceSpec
=============================================================================
