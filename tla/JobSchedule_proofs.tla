-------------------------- MODULE JobSchedule_proofs --------------------------
(***************************************************************************)
(* Theorems about JobSchedule, for every calendar, interval, set of edits  *)
(* and initial row.                                                        *)
(***************************************************************************)
EXTENDS JobSchedule, FiniteSetTheorems, TLAPS

-----------------------------------------------------------------------------
(* Schedule arithmetic. *)

\* next_full_after and its siblings return an instant strictly later than t.
LEMMA NextSlotLater ==
    ASSUME NEW S, S \subseteq Nat, HasNext(S), NEW t \in 0 .. MaxTime
    PROVE  NextSlot(S, t) \in Nat /\ NextSlot(S, t) > t
<1> DEFINE P(s) == s > t /\ \A u \in S : u > t => s <= u
<1>1. \E s \in S : P(s)
  BY DEF HasNext
<1>2. NextSlot(S, t) \in S /\ P(NextSlot(S, t))
  <2> HIDE DEF P
  <2>1. (CHOOSE s \in S : P(s)) \in S /\ P(CHOOSE s \in S : P(s))
    BY <1>1
  <2>2. NextSlot(S, t) = (CHOOSE s \in S : P(s))
    BY DEF NextSlot, P
  <2> QED BY <2>1, <2>2
<1> QED BY <1>2

\* Rounding down and adding one period passes x.
LEMMA DivisionBound ==
    ASSUME NEW x \in Nat, NEW d \in Nat \ {0}
    PROVE  (x \div d) \in Nat /\ x < ((x \div d) + 1) * d
<1>1. x = d * (x \div d) + (x % d) /\ 0 <= x % d /\ x % d < d
  OBVIOUS
<1>2. (x \div d) \in Int
  OBVIOUS
<1>3. ASSUME (x \div d) < 0 PROVE FALSE
  BY <1>1, <1>2, <1>3
<1> QED BY <1>1, <1>2, <1>3

\* The same for the three calendars of the model.
LEMMA CalendarsLater ==
    ASSUME NEW t \in 0 .. MaxTime
    PROVE  /\ NextSlot(DailySlots, t) \in Nat /\ NextSlot(DailySlots, t) > t
           /\ NextSlot(FullSlots, t) \in Nat /\ NextSlot(FullSlots, t) > t
           /\ NextSlot(IncSlots, t) \in Nat /\ NextSlot(IncSlots, t) > t
<1>1. /\ DailySlots \subseteq Nat /\ HasNext(DailySlots)
      /\ FullSlots \subseteq Nat /\ HasNext(FullSlots)
      /\ IncSlots \subseteq Nat /\ HasNext(IncSlots)
  BY ScheduleAssumption
<1>2. NextSlot(DailySlots, t) \in Nat /\ NextSlot(DailySlots, t) > t
  BY <1>1, NextSlotLater
<1>3. NextSlot(FullSlots, t) \in Nat /\ NextSlot(FullSlots, t) > t
  BY <1>1, NextSlotLater
<1>4. NextSlot(IncSlots, t) \in Nat /\ NextSlot(IncSlots, t) > t
  BY <1>1, NextSlotLater
<1> QED BY <1>2, <1>3, <1>4

\* SchedulePolicy.next_run_after is strictly later than its argument.
LEMMA NextRunLater ==
    ASSUME NEW type \in Types, NEW t \in 0 .. MaxTime
    PROVE  NextRunAfter(type, t) \in Nat /\ NextRunAfter(type, t) > t
<1>1. NextSlot(DailySlots, t) \in Nat /\ NextSlot(DailySlots, t) > t
  BY CalendarsLater
<1>2. Interval \in Nat \ {0} /\ t \in Nat
  BY ScheduleAssumption
<1> QED BY <1>1, <1>2 DEF NextRunAfter

\* The counts of advance_due and advance_cursor are natural numbers.
LEMMA CountsAreNatural ==
    ASSUME NEW S, S \subseteq Nat, NEW due \in Nat, NEW t \in 0 .. MaxTime
    PROVE  /\ due <= t => IntervalsDue(due, t) \in Nat
           /\ SlotsDue(S, due, t) \in Nat
<1>1. due <= t => IntervalsDue(due, t) \in Nat
  <2> SUFFICES ASSUME due <= t PROVE IntervalsDue(due, t) \in Nat
    OBVIOUS
  <2>1. t - due \in Nat /\ Interval \in Nat \ {0}
    BY ScheduleAssumption
  <2>2. ((t - due) \div Interval) \in Nat
    BY <2>1, DivisionBound
  <2> QED BY <2>2 DEF IntervalsDue
<1>2. IsFiniteSet({s \in S : due < s /\ s <= t})
  <2>1. IsFiniteSet(0 .. t)
    BY ScheduleAssumption, FS_Interval
  <2>2. {s \in S : due < s /\ s <= t} \subseteq 0 .. t
    <3>1. t \in Nat
      BY ScheduleAssumption
    <3>2. SUFFICES ASSUME NEW s \in S, s <= t PROVE s \in 0 .. t
      OBVIOUS
    <3>3. s \in Nat
      OBVIOUS
    <3> QED BY <3>1, <3>2, <3>3
  <2> QED BY <2>1, <2>2, FS_Subset
<1>3. SlotsDue(S, due, t) \in Nat
  BY <1>2, FS_CardinalityType DEF SlotsDue
<1> QED BY <1>1, <1>3

\* SchedulePolicy.advance_due leaves the cursor strictly after t.
LEMMA AdvanceDueLater ==
    ASSUME NEW type \in Types, NEW due \in Nat, NEW t \in 0 .. MaxTime, due <= t
    PROVE  AdvanceDue(type, due, t) \in Nat /\ AdvanceDue(type, due, t) > t
<1>1. CASE type = "INTERVAL"
  <2>1. t - due \in Nat
    BY ScheduleAssumption
  <2> DEFINE q == (t - due) \div Interval
  <2>2. q \in Nat /\ t - due < (q + 1) * Interval
    BY <2>1, DivisionBound, ScheduleAssumption
  <2>3. AdvanceDue(type, due, t) = due + (q + 1) * Interval
    BY <1>1 DEF AdvanceDue, IntervalsDue
  <2>4. (q + 1) * Interval \in Nat
    BY <2>2, ScheduleAssumption
  <2> HIDE DEF q
  <2> QED BY <2>2, <2>3, <2>4, ScheduleAssumption
<1>2. CASE type # "INTERVAL"
  BY <1>2, CalendarsLater DEF AdvanceDue
<1> QED BY <1>1, <1>2

\* After a cadence was advanced both cursors lie strictly after t.
LEMMA CadenceLater ==
    ASSUME NEW c \in Cursors, NEW t \in 0 .. MaxTime
    PROVE  /\ AdvanceCadence(c, t) \in Cursors /\ InitialCadence(t) \in Cursors
           /\ AdvanceCadence(c, t).full > t /\ AdvanceCadence(c, t).inc > t
           /\ InitialCadence(t).full > t /\ InitialCadence(t).inc > t
<1>1. NextSlot(FullSlots, t) \in Nat /\ NextSlot(FullSlots, t) > t
  BY CalendarsLater
<1>2. NextSlot(IncSlots, t) \in Nat /\ NextSlot(IncSlots, t) > t
  BY CalendarsLater
<1> QED BY <1>1, <1>2, ScheduleAssumption
        DEF AdvanceCadence, InitialCadence, Cursors, Time, FullDue, IncDue

\* What schedule_due_job writes is a row, and nothing in it is due at t.
LEMMA ConsumedLater ==
    ASSUME NEW j \in Jobs, NEW c \in Cursors, NEW t \in 0 .. MaxTime, j.next <= t
    PROVE  /\ Consumed(j, c, t) \in Jobs
           /\ Consumed(j, c, t).next > t
           /\ Consumed(j, c, t).settings = j.settings
           /\ Consumed(j, c, t).cadence # NoCadence =>
                /\ Consumed(j, c, t).cadence.full > t
                /\ Consumed(j, c, t).cadence.inc > t
<1>0. j.type \in Types /\ j.next \in Nat
  BY DEF Jobs, Time
<1>1. AdvanceDue(j.type, j.next, t) \in Nat /\ AdvanceDue(j.type, j.next, t) > t
  BY <1>0, AdvanceDueLater
<1>2. /\ AdvanceCadence(c, t) \in Cursors
      /\ AdvanceCadence(c, t).full > t /\ AdvanceCadence(c, t).inc > t
  BY CadenceLater
<1>3. /\ Earlier(AdvanceCadence(c, t).full, AdvanceCadence(c, t).inc) \in Nat
      /\ Earlier(AdvanceCadence(c, t).full, AdvanceCadence(c, t).inc) > t
  BY <1>2 DEF Earlier, Cursors, Time
<1>4. NoCadence \in Cursors
  BY DEF NoCadence, Cursors, Time
<1>5. CASE c = NoCadence
  BY <1>1, <1>4, <1>5 DEF Consumed, Jobs, Time
<1>6. CASE c # NoCadence
  BY <1>2, <1>3, <1>6 DEF Consumed, Jobs, Time
<1> QED BY <1>5, <1>6

\* What is recorded about a due occurrence, and that it was due.
LEMMA OccurrenceDue ==
    ASSUME NEW j \in Jobs, NEW c \in Cursors, NEW t \in 0 .. MaxTime, j.next <= t,
           c = NoCadence \/ FullDue(c, t) \/ IncDue(c, t)
    PROVE  /\ Occurrence(j, c, t).slot \in Time
           /\ Occurrence(j, c, t).kind \in {"FULL", "INCREMENTAL", "PLAIN"}
           /\ Occurrence(j, c, t).count \in Nat
           /\ Occurrence(j, c, t).slot <= t
           /\ Occurrence(j, c, t).slot =
                IF c = NoCadence THEN j.next
                ELSE IF FullDue(c, t) THEN c.full ELSE c.inc
<1>1. j.next \in Nat /\ c.full \in Nat /\ c.inc \in Nat
  BY DEF Jobs, Cursors, Time
<1>2. DailySlots \subseteq Nat /\ FullSlots \subseteq Nat /\ IncSlots \subseteq Nat
  BY ScheduleAssumption
<1>3. CASE c = NoCadence
  <2>1. IntervalsDue(j.next, t) \in Nat
    BY <1>1, <1>2, CountsAreNatural
  <2>2. SlotsDue(DailySlots, j.next, t) \in Nat
    BY <1>1, <1>2, CountsAreNatural
  <2> QED BY <1>1, <1>3, <2>1, <2>2 DEF Occurrence, Time
<1>4. CASE c # NoCadence /\ FullDue(c, t)
  <2>1. SlotsDue(FullSlots, c.full, t) \in Nat
    BY <1>1, <1>2, CountsAreNatural
  <2> QED BY <1>1, <1>4, <2>1 DEF Occurrence, Time, FullDue
<1>5. CASE c # NoCadence /\ ~FullDue(c, t)
  <2>1. SlotsDue(IncSlots, c.inc, t) \in Nat
    BY <1>1, <1>2, CountsAreNatural
  <2> QED BY <1>1, <1>5, <2>1 DEF Occurrence, Time, IncDue
<1> QED BY <1>3, <1>4, <1>5

-----------------------------------------------------------------------------
(* The type invariant, with what a tick knows about its snapshot: it is    *)
(* due at the instant the tick reads from the clock.                       *)

SnapshotInv ==
    /\ w.pc \in {"cadence", "busy", "commit"} => IsDue(w.job, w.now)
    /\ w.pc \in {"busy", "commit"} =>
          w.cadence = NoCadence \/ FullDue(w.cadence, w.now) \/ IncDue(w.cadence, w.now)

DueInv == TypeOK /\ SnapshotInv

\* The locals of an idle thread are well typed.
LEMMA IdleTyped ==
    /\ IdleWorker \in [pc : {"idle", "job", "cadence", "busy", "commit"},
                       now : 0 .. MaxTime, job : Jobs, cadence : Cursors, busy : BOOLEAN]
    /\ IdleApi \in [pc : {"idle", "extensions", "update", "configure", "policy", "write"},
                    at : 0 .. MaxTime, edit : EditRecords, job : Jobs,
                    cadence : Cursors, next : Time]
    /\ IdleWorker.pc = "idle" /\ IdleApi.pc = "idle"
<1>1. NoCadence \in Cursors
  BY DEF NoCadence, Cursors, Time
<1>2. NoRow \in Jobs
  BY <1>1 DEF NoRow, Jobs, Types, Time
<1>3. NoEdit \in EditRecords
  BY DEF NoEdit, EditRecords, Flags
<1>4. 0 \in 0 .. MaxTime
  BY ScheduleAssumption
<1> QED BY <1>1, <1>2, <1>3, <1>4 DEF IdleWorker, IdleApi, Time

LEMMA DueInit == Init => DueInv
<1> SUFFICES ASSUME Init PROVE DueInv
  OBVIOUS
<1>1. /\ now \in 0 .. MaxTime /\ edits \in 0 .. MaxEdits /\ accepted \in 0 .. MaxEdits
      /\ enabledAt \in 0 .. MaxTime /\ crashes \in 0 .. MaxCrashes /\ job \in Jobs
  BY ScheduleAssumption DEF Init
<1>2. ledger \in Seq(Entries)
  BY DEF Init
<1>3. busy \in BOOLEAN /\ w = IdleWorker /\ a = IdleApi
  BY DEF Init
<1> QED BY <1>1, <1>2, <1>3, IdleTyped DEF DueInv, TypeOK, SnapshotInv

\* The fields of a well-typed state that the steps below work with.
LEMMA Fields ==
    ASSUME DueInv
    PROVE  /\ job \in Jobs /\ w.job \in Jobs /\ a.job \in Jobs
           /\ job.cadence \in Cursors /\ w.cadence \in Cursors /\ a.cadence \in Cursors
           /\ a.next \in Time /\ a.edit \in EditRecords
           /\ now \in 0 .. MaxTime /\ w.now \in 0 .. MaxTime /\ a.at \in 0 .. MaxTime
           /\ edits \in Nat /\ accepted \in Nat /\ now \in Nat
           /\ w.now \in Nat /\ a.at \in Nat
           /\ NoCadence \in Cursors /\ NoRow \in Jobs /\ NoEdit \in EditRecords
<1>1. NoCadence \in Cursors
  BY DEF NoCadence, Cursors, Time
<1>2. NoRow \in Jobs
  BY <1>1 DEF NoRow, Jobs, Types, Time
<1>3. NoEdit \in EditRecords
  BY DEF NoEdit, EditRecords, Flags
<1>4. MaxTime \in Nat /\ MaxEdits \in Nat
  BY ScheduleAssumption
<1> QED BY <1>1, <1>2, <1>3, <1>4 DEF DueInv, TypeOK, Jobs

\* What update_job writes is a row.
LEMMA UpdatedTyped ==
    ASSUME NEW e \in EditRecords, NEW j \in Jobs, NEW t \in 0 .. MaxTime
    PROVE  /\ UpdatedType(e, j) \in Types /\ UpdatedEnabled(e, j) \in BOOLEAN
           /\ UpdatedNext(e, j, t) \in Time
           /\ UpdatedNext(e, j, t) \in {0, j.next} \/ UpdatedNext(e, j, t) > t
<1>1. UpdatedType(e, j) \in Types
  BY DEF UpdatedType, EditRecords, Jobs
<1>2. NextRunAfter(UpdatedType(e, j), t) \in Nat /\ NextRunAfter(UpdatedType(e, j), t) > t
  BY <1>1, NextRunLater
<1>3. e.schedule \in {"keep", "on", "off"} /\ j.next \in Nat
  BY DEF EditRecords, Flags, Jobs, Time
<1>4. UpdatedEnabled(e, j) \in BOOLEAN
  BY DEF UpdatedEnabled, Jobs
<1> QED BY <1>1, <1>2, <1>3, <1>4 DEF UpdatedNext, Time

LEMMA DueStep == DueInv /\ [Next]_vars => DueInv'
<1> SUFFICES ASSUME DueInv, [Next]_vars PROVE DueInv'
  OBVIOUS
<1> USE DEF DueInv
<1>1. CASE Tick
  BY <1>1 DEF Tick, TypeOK, SnapshotInv, workerOnly
<1>2. CASE ReadJob
  BY <1>2, IdleTyped DEF ReadJob, TypeOK, SnapshotInv, workerOnly
<1>3. CASE ReadCadence
  BY <1>3, IdleTyped, Fields DEF ReadCadence, TypeOK, SnapshotInv, workerOnly
<1>4. CASE ReadBusy
  BY <1>4 DEF ReadBusy, TypeOK, SnapshotInv, workerOnly
<1>5. CASE Commit
  <2> DEFINE o == Occurrence(w.job, w.cadence, w.now)
             entry == [slot |-> o.slot, at |-> w.now, kind |-> o.kind,
                       count |-> o.count, ran |-> ~w.busy]
  <2>1. w.job.next <= w.now
    BY <1>5 DEF Commit, SnapshotInv, IsDue
  <2>2. w.cadence = NoCadence \/ FullDue(w.cadence, w.now) \/ IncDue(w.cadence, w.now)
    BY <1>5 DEF Commit, SnapshotInv
  <2>3. o.slot \in Time /\ o.kind \in {"FULL", "INCREMENTAL", "PLAIN"} /\ o.count \in Nat
    BY <2>1, <2>2, Fields, OccurrenceDue
  <2>4. w.busy \in BOOLEAN
    BY DEF TypeOK
  <2>5. entry \in Entries
    <3> HIDE DEF o
    <3> QED BY <2>3, <2>4, Fields DEF Entries, Time
  <2>6. ledger' = Append(ledger, entry)
    BY <1>5 DEF Commit
  <2>7. ledger' \in Seq(Entries)
    <3> HIDE DEF entry
    <3> QED BY <2>5, <2>6 DEF TypeOK
  <2>8. Consumed(w.job, w.cadence, w.now) \in Jobs
    BY <2>1, Fields, ConsumedLater
  <2>9. job' \in Jobs
    BY <1>5, <2>8, Fields DEF Commit, PolicyWritten, Jobs
  <2>10. w' = IdleWorker /\ busy' \in BOOLEAN
    BY <1>5, <2>4 DEF Commit, TypeOK
  <2> QED BY <1>5, <2>7, <2>9, <2>10, IdleTyped DEF Commit, TypeOK, SnapshotInv, IdleWorker
<1>6. CASE FinishRun
  BY <1>6 DEF FinishRun, TypeOK, SnapshotInv
<1>7. CASE \E e \in Edits : BeginUpdate(e)
  <2>1. PICK e \in Edits : BeginUpdate(e)
    BY <1>7
  <2>2. e \in EditRecords /\ MaxEdits \in Nat
    BY ScheduleAssumption
  <2>3. edits' \in 0 .. MaxEdits
    BY <2>1, <2>2 DEF BeginUpdate, TypeOK
  <2> QED BY <2>1, <2>2, <2>3 DEF BeginUpdate, TypeOK, SnapshotInv, apiOnly
<1>8. CASE ReadExtensions
  BY <1>8, Fields DEF ReadExtensions, MergedExtensions, TypeOK, SnapshotInv, apiOnly
<1>9. CASE UpdateJob
  <2>1. /\ UpdatedType(a.edit, a.job) \in Types /\ UpdatedEnabled(a.edit, a.job) \in BOOLEAN
        /\ UpdatedNext(a.edit, a.job, a.at) \in Time
    BY Fields, UpdatedTyped
  <2>2. job' \in Jobs
    BY <1>9, <2>1, Fields DEF UpdateJob, Jobs
  <2>3. enabledAt' \in 0 .. MaxTime /\ accepted' \in 0 .. MaxEdits
    BY <1>9, Fields DEF UpdateJob, TypeOK
  <2>4. a' = IdleApi \/ a' = [a EXCEPT !.pc = "configure"]
    BY <1>9 DEF UpdateJob
  <2> QED BY <1>9, <2>2, <2>3, <2>4, IdleTyped DEF UpdateJob, TypeOK, SnapshotInv
<1>10. CASE ConfigureReadJob
  BY <1>10, Fields DEF ConfigureReadJob, TypeOK, SnapshotInv, apiOnly, Jobs
<1>11. CASE ConfigureReadPolicy
  BY <1>11, IdleTyped DEF ConfigureReadPolicy, TypeOK, SnapshotInv, apiOnly
<1>12. CASE ConfigureWrite
  <2>1. InitialCadence(a.at) \in Cursors
    BY Fields, CadenceLater
  <2>2. Earlier(InitialCadence(a.at).full, InitialCadence(a.at).inc) \in Time
    BY <2>1 DEF Earlier, Cursors
  <2>3. job' \in Jobs
    BY <1>12, <2>1, <2>2, Fields DEF ConfigureWrite, PolicyWritten, Jobs
  <2>4. accepted' \in 0 .. MaxEdits /\ a' = IdleApi
    BY <1>12 DEF ConfigureWrite, TypeOK
  <2> QED BY <1>12, <2>3, <2>4, IdleTyped DEF ConfigureWrite, TypeOK, SnapshotInv
<1>13. CASE CreateManualRun
  BY <1>13 DEF CreateManualRun, TypeOK, SnapshotInv
<1>14. CASE Advance
  <2>1. now' \in 0 .. MaxTime
    BY <1>14, ScheduleAssumption DEF Advance, TypeOK
  <2> QED BY <1>14, <2>1 DEF Advance, TypeOK, SnapshotInv
<1>15. CASE Crash
  <2>1. crashes' \in 0 .. MaxCrashes
    BY <1>15, ScheduleAssumption DEF Crash, TypeOK
  <2> QED BY <1>15, <2>1, IdleTyped DEF Crash, TypeOK, SnapshotInv, IdleWorker
<1>16. CASE UNCHANGED vars
  BY <1>16 DEF vars, TypeOK, SnapshotInv
<1> QED BY <1>1, <1>2, <1>3, <1>4, <1>5, <1>6, <1>7, <1>8, <1>9, <1>10, <1>11, <1>12,
           <1>13, <1>14, <1>15, <1>16
        DEF Next, ScheduleDueJob, UpdateRequest, ConfigureChainSchedule

\* Spec keeps its types (all of schedule_due_job and job.update), and a tick
\* only goes on with a snapshot that is due.
THEOREM ScheduleTypeCorrect == Spec => []TypeOK
<1>1. Spec => []DueInv
  BY DueInit, DueStep, PTL DEF Spec
<1>2. DueInv => TypeOK
  BY DEF DueInv
<1> QED BY <1>1, <1>2, PTL

\* However requests, ticks and crashes interleave, a committed tick leaves
\* nothing due at its instant: schedule_due_job builds up no backlog.
THEOREM NoBacklogAlways == Spec => NothingDueAfterCommit
<1> DEFINE Quiet == job'.next > w.now
                    /\ (job'.cadence # NoCadence =>
                          job'.cadence.full > w.now /\ job'.cadence.inc > w.now)
<1>1. DueInv /\ [Next]_vars => [Commit => Quiet]_vars
  <2> SUFFICES ASSUME DueInv, Commit PROVE Quiet
    OBVIOUS
  <2>1. w.job.next <= w.now
    BY DEF Commit, DueInv, SnapshotInv, IsDue
  <2>2. /\ Consumed(w.job, w.cadence, w.now) \in Jobs
        /\ Consumed(w.job, w.cadence, w.now).next > w.now
        /\ Consumed(w.job, w.cadence, w.now).cadence # NoCadence =>
             /\ Consumed(w.job, w.cadence, w.now).cadence.full > w.now
             /\ Consumed(w.job, w.cadence, w.now).cadence.inc > w.now
    BY <2>1, Fields, ConsumedLater
  <2>3. job' = [Consumed(w.job, w.cadence, w.now) EXCEPT !.enabled = job.enabled]
    BY DEF Commit, PolicyWritten
  <2> QED BY <2>2, <2>3 DEF Jobs
<1>2. Spec => []DueInv
  BY DueInit, DueStep, PTL DEF Spec
<1> QED BY <1>1, <1>2, PTL DEF Spec, NothingDueAfterCommit

-----------------------------------------------------------------------------
(* What holds when a request and a tick never overlap: each side's         *)
(* snapshot is still the row when it writes, and every cursor lies after   *)
(* everything that was consumed.                                           *)

SnapshotsCurrent ==
    /\ w.pc = "idle" \/ a.pc = "idle"
    /\ w.pc \in {"cadence", "busy", "commit"} => w.job = job
    /\ w.pc \in {"busy", "commit"} => w.cadence = job.cadence
    /\ a.pc \in {"extensions", "update", "write"} => a.job = job
    /\ a.pc = "update" => a.cadence = job.cadence
    /\ a.pc \in {"policy", "write"} => a.next = job.next
    /\ a.pc \in {"configure", "policy", "write"} => job.settings = edits
    /\ accepted <= job.settings /\ accepted <= edits
    /\ w.now <= now

CursorsAhead ==
    \A i \in 1 .. Len(ledger) :
        /\ ledger[i].at <= now
        /\ w.pc # "idle" => ledger[i].at <= w.now
        /\ a.pc # "idle" => ledger[i].at <= a.at
        /\ job.next # 0 => ledger[i].at < job.next
        /\ job.cadence # NoCadence =>
              ledger[i].at < job.cadence.full /\ ledger[i].at < job.cadence.inc

SerialInv == DueInv /\ SnapshotsCurrent /\ CursorsAhead /\ NoReplay

LEMMA SerialInit == Init => SerialInv
<1> SUFFICES ASSUME Init PROVE SerialInv
  OBVIOUS
<1>1. DueInv
  BY DueInit
<1>2. SnapshotsCurrent
  <2>1. job.settings = 0
    BY ScheduleAssumption DEF Init
  <2>2. w = IdleWorker /\ a = IdleApi /\ accepted = 0 /\ edits = 0 /\ now = 0
    BY DEF Init
  <2>3. w.pc = "idle" /\ a.pc = "idle" /\ w.now = 0
    BY <2>2 DEF IdleWorker, IdleApi
  <2> QED BY <2>1, <2>2, <2>3 DEF SnapshotsCurrent
<1>3. Len(ledger) = 0
  BY DEF Init
<1>4. CursorsAhead /\ NoReplay
  BY <1>3 DEF CursorsAhead, NoReplay
<1> QED BY <1>1, <1>2, <1>4 DEF SerialInv

\* The entries of the ledger are well typed.
LEMMA LedgerTyped ==
    ASSUME DueInv
    PROVE  /\ Len(ledger) \in Nat
           /\ \A i \in 1 .. Len(ledger) : ledger[i].at \in Nat /\ ledger[i].slot \in Nat
<1>1. ledger \in Seq(Entries)
  BY DEF DueInv, TypeOK
<1>2. \A i \in 1 .. Len(ledger) : ledger[i] \in Entries
  BY <1>1
<1> QED BY <1>1, <1>2 DEF Entries, Time

\* A committed tick records an occurrence that lies after all earlier ones.
LEMMA CommitSerial ==
    ASSUME SerialInv, Commit
    PROVE  SnapshotsCurrent' /\ CursorsAhead' /\ NoReplay'
<1> DEFINE o == Occurrence(w.job, w.cadence, w.now)
           entry == [slot |-> o.slot, at |-> w.now, kind |-> o.kind,
                     count |-> o.count, ran |-> ~w.busy]
           n == Len(ledger)
<1> USE DEF SerialInv
<1>1. w.pc = "commit" /\ a.pc = "idle" /\ w' = IdleWorker /\ a' = a /\ now' = now
      /\ edits' = edits /\ accepted' = accepted
  BY DEF Commit, SnapshotsCurrent
<1>2. w.job = job /\ w.cadence = job.cadence
  BY <1>1 DEF SnapshotsCurrent
<1>3. w.job.next <= w.now /\ w.job.next # 0
  BY <1>1 DEF DueInv, SnapshotInv, IsDue
<1>4. w.cadence = NoCadence \/ FullDue(w.cadence, w.now) \/ IncDue(w.cadence, w.now)
  BY <1>1 DEF DueInv, SnapshotInv
<1>5. /\ o.slot \in Nat /\ o.slot <= w.now
      /\ o.slot = IF w.cadence = NoCadence THEN w.job.next
                  ELSE IF FullDue(w.cadence, w.now) THEN w.cadence.full ELSE w.cadence.inc
  BY <1>3, <1>4, Fields, OccurrenceDue DEF Time
<1>6. /\ Consumed(w.job, w.cadence, w.now) \in Jobs
      /\ Consumed(w.job, w.cadence, w.now).next > w.now
      /\ Consumed(w.job, w.cadence, w.now).settings = w.job.settings
      /\ Consumed(w.job, w.cadence, w.now).cadence # NoCadence =>
           /\ Consumed(w.job, w.cadence, w.now).cadence.full > w.now
           /\ Consumed(w.job, w.cadence, w.now).cadence.inc > w.now
  BY <1>3, Fields, ConsumedLater
<1>7. job' = [Consumed(w.job, w.cadence, w.now) EXCEPT !.enabled = job.enabled]
  BY DEF Commit, PolicyWritten
<1>8. /\ job'.next > w.now /\ job'.settings = job.settings
      /\ job'.cadence # NoCadence => job'.cadence.full > w.now /\ job'.cadence.inc > w.now
      /\ job'.next \in Nat /\ job'.cadence \in Cursors
  <2> HIDE DEF o
  <2> QED BY <1>2, <1>6, <1>7 DEF Jobs, Time
<1>9. ledger' = Append(ledger, entry) /\ ledger \in Seq(Entries)
  BY DEF Commit, DueInv, TypeOK
<1>10. /\ n \in Nat /\ Len(ledger') = n + 1 /\ ledger'[n + 1] = entry
       /\ \A i \in 1 .. n : ledger'[i] = ledger[i]
  <2> HIDE DEF entry
  <2> QED BY <1>9
<1>11. entry.at = w.now /\ entry.slot = o.slot
  OBVIOUS
<1>12. \A i \in 1 .. n : ledger[i].at < o.slot /\ ledger[i].at <= w.now /\ ledger[i].at \in Nat
  <2> HIDE DEF o
  <2> QED BY <1>1, <1>2, <1>3, <1>5, LedgerTyped DEF CursorsAhead
<1>13. SnapshotsCurrent'
  BY <1>1, <1>8, IdleTyped, Fields DEF SnapshotsCurrent, IdleWorker
<1>14. CursorsAhead'
  <2> SUFFICES ASSUME NEW i \in 1 .. n + 1
               PROVE  /\ ledger'[i].at <= now'
                      /\ w'.pc # "idle" => ledger'[i].at <= w'.now
                      /\ a'.pc # "idle" => ledger'[i].at <= a'.at
                      /\ job'.next # 0 => ledger'[i].at < job'.next
                      /\ job'.cadence # NoCadence =>
                           /\ ledger'[i].at < job'.cadence.full
                           /\ ledger'[i].at < job'.cadence.inc
    BY <1>10 DEF CursorsAhead
  <2>1. ledger'[i].at <= w.now /\ ledger'[i].at \in Nat
    <3> HIDE DEF entry
    <3>1. CASE i = n + 1
      BY <3>1, <1>10, <1>11, Fields
    <3>2. CASE i # n + 1
      BY <3>2, <1>10, <1>12
    <3> QED BY <3>1, <3>2
  <2>2. w.now <= now /\ w.now \in Nat /\ now \in Nat
    BY Fields DEF SnapshotsCurrent
  <2>3. w'.pc = "idle" /\ a'.pc = "idle"
    BY <1>1, IdleTyped
  <2>4. job'.cadence.full \in Nat /\ job'.cadence.inc \in Nat
    BY <1>8 DEF Cursors, Time
  <2> HIDE DEF n
  <2> QED BY <1>1, <1>8, <2>1, <2>2, <2>3, <2>4
<1>15. NoReplay'
  <2> SUFFICES ASSUME NEW j \in 1 .. n + 1
               PROVE  /\ ledger'[j].slot <= ledger'[j].at
                      /\ \A i \in 1 .. j - 1 : ledger'[i].at < ledger'[j].slot
    BY <1>10 DEF NoReplay
  <2> HIDE DEF entry, o
  <2>1. CASE j = n + 1
    BY <2>1, <1>5, <1>10, <1>11, <1>12
  <2>2. CASE j # n + 1
    <3>1. j \in 1 .. n /\ \A i \in 1 .. j - 1 : i \in 1 .. n
      BY <2>2, <1>10
    <3> QED BY <3>1, <1>10 DEF NoReplay
  <2> QED BY <2>1, <2>2
<1> QED BY <1>13, <1>14, <1>15

\* Every other step keeps the ledger.
LEMMA SerialStep ==
    ASSUME Serialized
    PROVE  SerialInv /\ [Next]_vars => SerialInv'
<1> SUFFICES ASSUME SerialInv, [Next]_vars PROVE SerialInv'
  OBVIOUS
<1> USE DEF SerialInv
<1>0. DueInv'
  BY DueStep
<1> SUFFICES SnapshotsCurrent' /\ CursorsAhead' /\ NoReplay'
  BY <1>0
<1>a. /\ now \in Nat /\ w.now \in Nat /\ a.at \in Nat /\ edits \in Nat /\ accepted \in Nat
      /\ job.settings \in Nat /\ job.next \in Nat /\ job.cadence \in Cursors
      /\ a.edit \in EditRecords /\ a.job \in Jobs /\ a.at \in 0 .. MaxTime
      /\ job \in Jobs /\ NoCadence \in Cursors
  BY Fields DEF Jobs, Time
<1>b. /\ w \in [pc : {"idle", "job", "cadence", "busy", "commit"}, now : 0 .. MaxTime,
                job : Jobs, cadence : Cursors, busy : BOOLEAN]
      /\ a \in [pc : {"idle", "extensions", "update", "configure", "policy", "write"},
                at : 0 .. MaxTime, edit : EditRecords, job : Jobs,
                cadence : Cursors, next : Time]
  BY DEF DueInv, TypeOK
<1>c. /\ Len(ledger) \in Nat
      /\ \A i \in 1 .. Len(ledger) : ledger[i].at \in Nat /\ ledger[i].slot \in Nat
  BY LedgerTyped
<1>d. IdleWorker.pc = "idle" /\ IdleApi.pc = "idle" /\ IdleWorker.now = 0
  BY IdleTyped DEF IdleWorker
<1>1. CASE Tick
  BY <1>1, <1>a, <1>b, <1>c, <1>d DEF Tick, SnapshotsCurrent, CursorsAhead, NoReplay, workerOnly
<1>2. CASE ReadJob
  BY <1>2, <1>a, <1>b, <1>c, <1>d DEF ReadJob, SnapshotsCurrent, CursorsAhead, NoReplay, workerOnly, IdleWorker
<1>3. CASE ReadCadence
  BY <1>3, <1>a, <1>b, <1>c, <1>d DEF ReadCadence, SnapshotsCurrent, CursorsAhead, NoReplay, workerOnly, IdleWorker
<1>4. CASE ReadBusy
  BY <1>4, <1>a, <1>b, <1>c, <1>d DEF ReadBusy, SnapshotsCurrent, CursorsAhead, NoReplay, workerOnly
<1>5. CASE Commit
  BY <1>5, CommitSerial
<1>6. CASE FinishRun
  BY <1>6, <1>a, <1>b, <1>c, <1>d DEF FinishRun, SnapshotsCurrent, CursorsAhead, NoReplay
<1>7. CASE \E e \in Edits : BeginUpdate(e)
  <2>1. PICK e \in Edits : BeginUpdate(e)
    BY <1>7
  <2> QED BY <2>1, <1>a, <1>b, <1>c, <1>d DEF BeginUpdate, SnapshotsCurrent, CursorsAhead, NoReplay, apiOnly
<1>8. CASE ReadExtensions
  BY <1>8, <1>a, <1>b, <1>c, <1>d DEF ReadExtensions, MergedExtensions, SnapshotsCurrent, CursorsAhead, NoReplay,
              apiOnly
<1>9. CASE UpdateJob
  <2>1. /\ a.pc = "update" /\ a.job = job /\ a.cadence = job.cadence /\ w.pc = "idle"
    BY <1>9 DEF UpdateJob, SnapshotsCurrent
  <2>2. \/ UpdatedNext(a.edit, a.job, a.at) \in {0, a.job.next}
        \/ UpdatedNext(a.edit, a.job, a.at) > a.at
    BY <1>a, UpdatedTyped
  <2>3. UpdatedNext(a.edit, a.job, a.at) \in Nat
    BY <1>a, UpdatedTyped DEF Time
  <2>4. /\ job'.next = UpdatedNext(a.edit, a.job, a.at) /\ job'.cadence = job.cadence
        /\ job'.settings = edits /\ w' = w /\ now' = now /\ edits' = edits
        /\ ledger' = ledger
    BY <1>9, <2>1 DEF UpdateJob
  <2>5. \/ a' = IdleApi /\ accepted' = edits
        \/ a' = [a EXCEPT !.pc = "configure"] /\ accepted' = accepted
    BY <1>9 DEF UpdateJob
  <2>6. a'.pc # "idle" => a'.at = a.at
    BY <2>5, <1>a, <1>b, <1>c, <1>d DEF IdleApi
  <2>7. SnapshotsCurrent'
    BY <2>1, <2>4, <2>5, <1>a, <1>b, <1>c, <1>d DEF SnapshotsCurrent, IdleApi
  <2>8. CursorsAhead'
    BY <2>1, <2>2, <2>3, <2>4, <2>6, <1>a, <1>b, <1>c, <1>d DEF CursorsAhead
  <2> QED BY <2>4, <2>7, <2>8, <1>a, <1>b, <1>c, <1>d DEF NoReplay
<1>10. CASE ConfigureReadJob
  BY <1>10, <1>a, <1>b, <1>c, <1>d DEF ConfigureReadJob, SnapshotsCurrent, CursorsAhead, NoReplay, apiOnly
<1>11. CASE ConfigureReadPolicy
  BY <1>11, <1>a, <1>b, <1>c, <1>d DEF ConfigureReadPolicy, SnapshotsCurrent, CursorsAhead, NoReplay, apiOnly, IdleApi
<1>12. CASE ConfigureWrite
  <2> DEFINE c == InitialCadence(a.at)
  <2>1. /\ a.pc = "write" /\ a.job = job /\ a.next = job.next /\ w.pc = "idle"
        /\ job.settings = edits
    BY <1>12 DEF ConfigureWrite, SnapshotsCurrent
  <2>2. /\ c \in Cursors /\ c.full > a.at /\ c.inc > a.at
    BY <1>a, CadenceLater
  <2>3. Earlier(c.full, c.inc) > a.at /\ Earlier(c.full, c.inc) \in Nat
    BY <2>2 DEF Earlier, Cursors, Time
  <2>4. /\ \/ job'.cadence = c /\ job'.next = Earlier(c.full, c.inc)
           \/ job'.cadence = NoCadence /\ job'.next = job.next
        /\ job'.settings = edits /\ w' = w /\ now' = now /\ edits' = edits
        /\ ledger' = ledger /\ accepted' = edits /\ a' = IdleApi
    <3> HIDE DEF c
    <3>1. \/ job' = PolicyWritten([a.job EXCEPT !.cadence = InitialCadence(a.at),
                       !.next = Earlier(InitialCadence(a.at).full, InitialCadence(a.at).inc)])
          \/ job' = PolicyWritten([a.job EXCEPT !.cadence = NoCadence, !.next = a.next])
      BY <1>12 DEF ConfigureWrite
    <3>2. /\ w' = w /\ now' = now /\ edits' = edits
          /\ ledger' = ledger /\ accepted' = edits /\ a' = IdleApi
      BY <1>12 DEF ConfigureWrite
    <3> QED BY <1>a, <2>1, <3>1, <3>2 DEF PolicyWritten, Jobs, c
  <2> HIDE DEF c
  <2>5. SnapshotsCurrent'
    BY <2>1, <2>4, <1>a, <1>b, <1>c, <1>d DEF SnapshotsCurrent
  <2>6. CursorsAhead'
    <3>1. \A i \in 1 .. Len(ledger) : ledger[i].at <= a.at /\ ledger[i].at <= now
      BY <2>1 DEF CursorsAhead
    <3>2. c.full \in Nat /\ c.inc \in Nat
      BY <2>2 DEF Cursors, Time
    <3>3. CASE job'.cadence = c /\ job'.next = Earlier(c.full, c.inc)
      BY <3>1, <3>2, <3>3, <2>1, <2>2, <2>3, <2>4, <1>a, <1>c, <1>d DEF CursorsAhead
    <3>4. CASE job'.cadence = NoCadence /\ job'.next = job.next
      BY <3>4, <2>1, <2>4, <1>a, <1>c, <1>d DEF CursorsAhead
    <3> QED BY <2>4, <3>3, <3>4
  <2> QED BY <2>4, <2>5, <2>6, <1>a, <1>b, <1>c, <1>d DEF NoReplay
<1>13. CASE CreateManualRun
  BY <1>13, <1>a, <1>b, <1>c, <1>d DEF CreateManualRun, SnapshotsCurrent, CursorsAhead, NoReplay
<1>14. CASE Advance
  BY <1>14, <1>a, <1>b, <1>c, <1>d DEF Advance, SnapshotsCurrent, CursorsAhead, NoReplay
<1>15. CASE Crash
  BY <1>15, <1>a, <1>b, <1>c, <1>d DEF Crash, SnapshotsCurrent, CursorsAhead, NoReplay, IdleWorker
<1>16. CASE UNCHANGED vars
  BY <1>16, <1>a, <1>b, <1>c, <1>d DEF vars, SnapshotsCurrent, CursorsAhead, NoReplay
<1> QED
  BY <1>1, <1>2, <1>3, <1>4, <1>5, <1>6, <1>7, <1>8, <1>9, <1>10, <1>11, <1>12,
     <1>13, <1>14, <1>15, <1>16
     DEF Next, ScheduleDueJob, UpdateRequest, ConfigureChainSchedule

LEMMA SerialAlways == ASSUME Serialized PROVE Spec => []SerialInv
BY SerialInit, SerialStep, PTL DEF Spec

\* If a request and a tick never overlap, no slot of schedule_due_job is
\* consumed early, twice, or after an occurrence that already stood for it.
THEOREM NoReplayAlways == ASSUME Serialized PROVE Spec => []NoReplay
<1>1. SerialInv => NoReplay
  BY DEF SerialInv
<1> QED BY <1>1, SerialAlways, PTL

\* ... and what an accepted job.update wrote stays in the row.
THEOREM EditsSurviveAlways == ASSUME Serialized PROVE Spec => []AcceptedEditsSurvive
<1>1. SerialInv => AcceptedEditsSurvive
  BY Fields DEF SerialInv, SnapshotsCurrent, AcceptedEditsSurvive, Jobs
<1> QED BY <1>1, SerialAlways, PTL

\* ... and no tick creates a run for a job that was disabled meanwhile.
THEOREM NoDisabledRunAlways == ASSUME Serialized PROVE Spec => NoRunWhileDisabled
<1>1. SerialInv /\ [Next]_vars => [Commit => job.enabled]_vars
  BY DEF SerialInv, SnapshotsCurrent, Commit, DueInv, SnapshotInv, IsDue
<1> QED BY <1>1, SerialAlways, PTL DEF Spec, NoRunWhileDisabled

\* When job.update has switched a job on, its cursor lies after that instant
\* and stays there.
EnabledBehind ==
    /\ job.next # 0 => enabledAt < job.next
    /\ enabledAt <= now /\ (a.pc # "idle" => a.at <= now)
    /\ w.pc # "idle" => enabledAt <= w.now
    /\ a.pc # "idle" => enabledAt <= a.at

LEMMA EnabledStep ==
    ASSUME Serialized
    PROVE  SerialInv /\ EnabledBehind /\ [Next]_vars => EnabledBehind'
<1> SUFFICES ASSUME SerialInv, EnabledBehind, [Next]_vars PROVE EnabledBehind'
  OBVIOUS
<1> USE DEF SerialInv
<1>a. /\ now \in Nat /\ w.now \in Nat /\ a.at \in Nat /\ enabledAt \in Nat
      /\ job.next \in Nat /\ job \in Jobs /\ NoCadence \in Cursors
      /\ a.edit \in EditRecords /\ a.job \in Jobs /\ a.at \in 0 .. MaxTime
  BY Fields, ScheduleAssumption DEF Jobs, Time, DueInv, TypeOK
<1>b. /\ w \in [pc : {"idle", "job", "cadence", "busy", "commit"}, now : 0 .. MaxTime,
                job : Jobs, cadence : Cursors, busy : BOOLEAN]
      /\ a \in [pc : {"idle", "extensions", "update", "configure", "policy", "write"},
                at : 0 .. MaxTime, edit : EditRecords, job : Jobs,
                cadence : Cursors, next : Time]
  BY DEF DueInv, TypeOK
<1>c. IdleWorker.pc = "idle" /\ IdleApi.pc = "idle"
  BY IdleTyped
<1>d. w.pc = "idle" \/ a.pc = "idle"
  BY DEF SnapshotsCurrent
<1>1. CASE Tick
  BY <1>1, <1>a, <1>b DEF Tick, EnabledBehind, workerOnly
<1>2. CASE ReadJob \/ ReadCadence \/ ReadBusy
  <2>1. w'.pc = "idle" \/ (w.pc # "idle" /\ w'.now = w.now)
    BY <1>2, <1>b, <1>c DEF ReadJob, ReadCadence, ReadBusy
  <2>2. UNCHANGED <<now, job, a, enabledAt>>
    BY <1>2 DEF ReadJob, ReadCadence, ReadBusy, workerOnly
  <2> QED BY <2>1, <2>2 DEF EnabledBehind
<1>3. CASE Commit
  <2>1. w.job.next <= w.now /\ enabledAt <= w.now
    BY <1>3 DEF Commit, DueInv, SnapshotInv, IsDue, EnabledBehind
  <2>2. /\ Consumed(w.job, w.cadence, w.now) \in Jobs
        /\ Consumed(w.job, w.cadence, w.now).next > w.now
    BY <2>1, Fields, ConsumedLater
  <2>3. job' = [Consumed(w.job, w.cadence, w.now) EXCEPT !.enabled = job.enabled]
    BY <1>3 DEF Commit, PolicyWritten
  <2>4. job'.next > w.now /\ job'.next \in Nat
    BY <2>2, <2>3 DEF Jobs, Time
  <2>5. w'.pc = "idle" /\ UNCHANGED <<now, a, enabledAt>>
    BY <1>3, <1>c DEF Commit
  <2>6. a.pc = "idle"
    BY <1>3, <1>d DEF Commit
  <2> QED BY <2>1, <2>4, <2>5, <2>6, <1>a DEF EnabledBehind
<1>4. CASE FinishRun \/ CreateManualRun \/ UNCHANGED vars
  BY <1>4 DEF FinishRun, CreateManualRun, vars, EnabledBehind
<1>5. CASE \E e \in Edits : BeginUpdate(e)
  BY <1>5, <1>a, <1>b DEF BeginUpdate, EnabledBehind, apiOnly
<1>6. CASE ReadExtensions
  BY <1>6, <1>a, <1>b DEF ReadExtensions, EnabledBehind, apiOnly
<1>7. CASE UpdateJob
  <2>1. a.pc = "update" /\ a.job = job /\ w.pc = "idle" /\ enabledAt <= a.at
    BY <1>7, <1>d DEF UpdateJob, SnapshotsCurrent, EnabledBehind
  <2>2. /\ job'.next = UpdatedNext(a.edit, job, a.at) /\ w' = w /\ now' = now
        /\ enabledAt' = IF a.edit.enabled = "on" /\ ~job.enabled THEN a.at ELSE enabledAt
    BY <1>7, <2>1 DEF UpdateJob
  <2>3. UpdatedNext(a.edit, job, a.at) \in {0, job.next} \/ UpdatedNext(a.edit, job, a.at) > a.at
    BY <1>a, UpdatedTyped
  <2>4. UpdatedNext(a.edit, job, a.at) \in Nat
    BY <1>a, UpdatedTyped DEF Time
  <2>5. ASSUME a.edit.enabled = "on", ~job.enabled
        PROVE  UpdatedNext(a.edit, job, a.at) = 0 \/ UpdatedNext(a.edit, job, a.at) > a.at
    <3>1. UpdatedType(a.edit, job) \in Types
      BY <1>a, UpdatedTyped
    <3>2. NextRunAfter(UpdatedType(a.edit, job), a.at) > a.at
      BY <1>a, <3>1, NextRunLater
    <3>3. a.edit.schedule \in {"keep", "on", "off"}
      BY <1>a DEF EditRecords, Flags
    <3> QED BY <2>5, <3>2, <3>3 DEF UpdatedNext
  <2>6. a'.pc # "idle" => a'.at = a.at
    BY <1>7, <1>b, <1>c DEF UpdateJob
  <2>7. a.at <= now
    BY <2>1 DEF EnabledBehind
  <2> QED BY <2>1, <2>2, <2>3, <2>4, <2>5, <2>6, <2>7, <1>a DEF EnabledBehind
<1>8. CASE ConfigureReadJob
  BY <1>8, <1>a, <1>b DEF ConfigureReadJob, EnabledBehind, apiOnly
<1>9. CASE ConfigureReadPolicy
  BY <1>9, <1>a, <1>b, <1>c DEF ConfigureReadPolicy, EnabledBehind, apiOnly
<1>10. CASE ConfigureWrite
  <2> DEFINE c == InitialCadence(a.at)
  <2>1. /\ a.pc = "write" /\ a.job = job /\ a.next = job.next /\ w.pc = "idle"
        /\ enabledAt <= a.at
    BY <1>10, <1>d DEF ConfigureWrite, SnapshotsCurrent, EnabledBehind
  <2>2. /\ c \in Cursors /\ c.full > a.at /\ c.inc > a.at
    BY <1>a, CadenceLater
  <2>3. Earlier(c.full, c.inc) > a.at /\ Earlier(c.full, c.inc) \in Nat
    BY <2>2 DEF Earlier, Cursors, Time
  <2>4. /\ job'.next = Earlier(c.full, c.inc) \/ job'.next = job.next
        /\ w' = w /\ now' = now /\ enabledAt' = enabledAt /\ a'.pc = "idle"
    <3> HIDE DEF c
    <3>1. \/ job' = PolicyWritten([a.job EXCEPT !.cadence = InitialCadence(a.at),
                       !.next = Earlier(InitialCadence(a.at).full, InitialCadence(a.at).inc)])
          \/ job' = PolicyWritten([a.job EXCEPT !.cadence = NoCadence, !.next = a.next])
      BY <1>10 DEF ConfigureWrite
    <3>2. w' = w /\ now' = now /\ enabledAt' = enabledAt /\ a'.pc = "idle"
      BY <1>10, <1>c DEF ConfigureWrite
    <3> QED BY <1>a, <2>1, <3>1, <3>2 DEF PolicyWritten, Jobs, c
  <2> HIDE DEF c
  <2> QED BY <2>1, <2>3, <2>4, <1>a DEF EnabledBehind
<1>11. CASE Advance
  BY <1>11, <1>a DEF Advance, EnabledBehind
<1>12. CASE Crash
  BY <1>12, <1>c DEF Crash, EnabledBehind
<1> QED BY <1>1, <1>2, <1>3, <1>4, <1>5, <1>6, <1>7, <1>8, <1>9, <1>10, <1>11, <1>12
        DEF Next, ScheduleDueJob, UpdateRequest, ConfigureChainSchedule

\* ... and no slot that passed while a job without a cadence was disabled is
\* run after job.update has enabled it ("disabled time is not replayed").
THEOREM DisabledTimeAlways == ASSUME Serialized PROVE Spec => DisabledTimeNotReplayed
<1>1. Init => EnabledBehind
  <2> SUFFICES ASSUME Init PROVE EnabledBehind
    OBVIOUS
  <2>1. job.next \in Nat
    BY DueInit, Fields DEF Jobs, Time
  <2>2. w.pc = "idle" /\ a.pc = "idle" /\ now = 0 /\ enabledAt = 0
    BY IdleTyped DEF Init
  <2> QED BY <2>1, <2>2 DEF EnabledBehind
<1>2. Spec => [](SerialInv /\ EnabledBehind)
  BY <1>1, EnabledStep, SerialInit, SerialStep, PTL DEF Spec
<1>3. SerialInv /\ EnabledBehind /\ [Next]_vars
      => [Commit /\ w.cadence = NoCadence => w.job.next > enabledAt]_vars
  <2> SUFFICES ASSUME SerialInv, EnabledBehind, Commit PROVE w.job.next > enabledAt
    OBVIOUS
  <2>1. w.job = job /\ job.next # 0
    BY DEF Commit, SerialInv, SnapshotsCurrent, DueInv, SnapshotInv, IsDue
  <2>2. job.next \in Nat /\ enabledAt \in Nat
    BY Fields, ScheduleAssumption DEF SerialInv, DueInv, TypeOK, Jobs, Time
  <2> QED BY <2>1, <2>2 DEF EnabledBehind
<1> QED BY <1>2, <1>3, PTL DEF Spec, DisabledTimeNotReplayed

-----------------------------------------------------------------------------
(* What holds while no job.update has come in, ticks overlapping or not:   *)
(* only the scheduler writes the row, so its snapshot is the row, and the  *)
(* FULL cursor has nothing behind it that no FULL occurrence stands for.   *)

\* A FULL occurrence among the first n consumed ones stands for slot s.
FullCovers(n, s) ==
    \E k \in 1 .. n : /\ ledger[k].kind = "FULL"
                      /\ ledger[k].slot <= s /\ s <= ledger[k].at

UneditedRow ==
    /\ a.pc = "idle"
    /\ w.pc \in {"cadence", "busy", "commit"} => w.job = job
    /\ w.pc \in {"busy", "commit"} => w.cadence = job.cadence
    /\ job.cadence = NoCadence =>
          \A i \in 1 .. Len(ledger) : ledger[i].kind = "PLAIN"
    /\ job.cadence # NoCadence =>
          \A s \in FullSlots :
              s > 0 /\ s < job.cadence.full => FullCovers(Len(ledger), s)

UneditedInv == DueInv /\ (edits = 0 => UneditedRow) /\ FullSlotsServed

\* initialize_chain_schedule puts the FULL cursor of a new row on the first
\* FULL slot after its creation, the instant at which the clock starts.
FreshCadences ==
    \A j \in InitJobs : j.cadence # NoCadence =>
        \A s \in FullSlots : s > 0 => j.cadence.full <= s

\* next_full_after passes over no FULL slot.
LEMMA NextFullSkipsNone ==
    ASSUME NEW t \in 0 .. MaxTime, NEW s \in FullSlots, s < NextSlot(FullSlots, t)
    PROVE  s <= t
<1> DEFINE P(x) == x > t /\ \A u \in FullSlots : u > t => x <= u
<1>1. FullSlots \subseteq Nat /\ HasNext(FullSlots) /\ t \in Nat
  BY ScheduleAssumption
<1>2. \E x \in FullSlots : P(x)
  BY <1>1 DEF HasNext
<1>3. NextSlot(FullSlots, t) \in FullSlots /\ P(NextSlot(FullSlots, t))
  <2> HIDE DEF P
  <2>1. (CHOOSE x \in FullSlots : P(x)) \in FullSlots /\ P(CHOOSE x \in FullSlots : P(x))
    BY <1>2
  <2>2. NextSlot(FullSlots, t) = (CHOOSE x \in FullSlots : P(x))
    BY DEF NextSlot, P
  <2> QED BY <2>1, <2>2
<1>4. s > t => NextSlot(FullSlots, t) <= s
  BY <1>3
<1>5. s \in Nat /\ NextSlot(FullSlots, t) \in Nat
  BY <1>1, <1>3
<1> QED BY <1>1, <1>4, <1>5

LEMMA UneditedInit == ASSUME FreshCadences PROVE Init => UneditedInv
<1> SUFFICES ASSUME Init PROVE UneditedInv
  OBVIOUS
<1>1. ledger = <<>> /\ Len(ledger) = 0 /\ w = IdleWorker /\ a = IdleApi /\ job \in InitJobs
  BY DEF Init
<1>2. FullSlots \subseteq Nat /\ job.cadence \in Cursors /\ DueInv
  BY DueInit, Fields, ScheduleAssumption
<1>3. \A s \in FullSlots : s > 0 /\ s < job.cadence.full => job.cadence = NoCadence
  BY <1>1, <1>2 DEF FreshCadences, Cursors, Time
<1>4. UneditedRow
  BY <1>1, <1>3, IdleTyped DEF UneditedRow
<1> QED BY <1>1, <1>2, <1>4 DEF UneditedInv, FullSlotsServed

\* Later entries do not uncover a slot.
LEMMA CoverageGrows ==
    ASSUME NEW n \in Nat, NEW s, FullCovers(n, s), n = Len(ledger),
           NEW e, ledger' = Append(ledger, e), ledger \in Seq(Entries)
    PROVE  \E k \in 1 .. n : /\ ledger'[k].kind = "FULL"
                             /\ ledger'[k].slot <= s /\ s <= ledger'[k].at
BY DEF FullCovers

\* A committed tick that consumes a FULL slot stands for all FULL slots up to
\* its instant; one that consumes an incremental slot has no FULL slot behind
\* it that is not covered.
LEMMA CommitCovers ==
    ASSUME UneditedInv, edits = 0, Commit
    PROVE  UneditedRow' /\ FullSlotsServed'
<1> DEFINE o == Occurrence(w.job, w.cadence, w.now)
           entry == [slot |-> o.slot, at |-> w.now, kind |-> o.kind,
                     count |-> o.count, ran |-> ~w.busy]
           n == Len(ledger)
           c == job.cadence
           full == AdvanceCadence(c, w.now).full
<1> USE DEF UneditedInv
<1>1. /\ w.pc = "commit" /\ w.job = job /\ w.cadence = c /\ a.pc = "idle"
      /\ w' = IdleWorker /\ a' = a /\ edits' = edits
  BY DEF Commit, UneditedRow
<1>2. /\ w.now \in 0 .. MaxTime /\ w.now \in Nat /\ c \in Cursors /\ job \in Jobs
      /\ c.full \in Nat /\ FullSlots \subseteq Nat /\ job.next <= w.now
  BY <1>1, Fields, ScheduleAssumption DEF Cursors, Time, DueInv, SnapshotInv, IsDue
<1>3. /\ ledger' = Append(ledger, entry) /\ ledger \in Seq(Entries)
  BY DEF Commit, DueInv, TypeOK
<1>4. /\ n \in Nat /\ Len(ledger') = n + 1 /\ ledger'[n + 1] = entry
      /\ \A i \in 1 .. n : ledger'[i] = ledger[i]
  <2> HIDE DEF entry
  <2> QED BY <1>3
<1>5. entry.at = w.now /\ entry.slot = o.slot /\ entry.kind = o.kind
  OBVIOUS
<1>6. job' = PolicyWritten(Consumed(job, c, w.now))
  BY <1>1 DEF Commit
<1>7. w'.pc = "idle" /\ a'.pc = "idle"
  BY <1>1, IdleTyped
<1>8. CASE c = NoCadence
  <2>1. job'.cadence = NoCadence
    BY <1>2, <1>6, <1>8 DEF PolicyWritten, Consumed, Jobs
  <2>2. o.kind = "PLAIN"
    BY <1>1, <1>8 DEF Occurrence
  <2>3. \A i \in 1 .. n + 1 : ledger'[i].kind = "PLAIN"
    <3> HIDE DEF entry, o, n
    <3>1. \A i \in 1 .. n : ledger[i].kind = "PLAIN"
      BY <1>8 DEF UneditedRow, n
    <3> QED BY <1>4, <1>5, <2>2, <3>1
  <2> QED BY <1>4, <1>7, <2>1, <2>3 DEF UneditedRow, FullSlotsServed
<1>9. CASE c # NoCadence
  <2>1. AdvanceCadence(c, w.now) \in Cursors /\ full > w.now /\ full \in Nat
    BY <1>2, CadenceLater DEF Cursors, Time
  <2>2. job'.cadence = AdvanceCadence(c, w.now)
    BY <1>2, <1>6, <1>9, <2>1 DEF PolicyWritten, Consumed, Jobs
  <2>3. job'.cadence # NoCadence
    BY <1>2, <2>1, <2>2 DEF NoCadence
  <2>4. FullDue(c, w.now) => o.kind = "FULL" /\ o.slot = c.full
    BY <1>1, <1>9 DEF Occurrence
  <2>5. ASSUME NEW s \in FullSlots, s > 0, s < full
        PROVE  \E k \in 1 .. n + 1 : /\ ledger'[k].kind = "FULL"
                                     /\ ledger'[k].slot <= s /\ s <= ledger'[k].at
    <3>1. CASE s < c.full
      <4>1. FullCovers(n, s)
        BY <1>9, <2>5, <3>1 DEF UneditedRow
      <4>2. \E k \in 1 .. n : /\ ledger'[k].kind = "FULL"
                              /\ ledger'[k].slot <= s /\ s <= ledger'[k].at
        <5> HIDE DEF entry
        <5> QED BY <1>3, <1>4, <4>1, CoverageGrows
      <4> HIDE DEF n
      <4> QED BY <1>4, <4>2
    <3>2. CASE ~(s < c.full)
      <4>1. FullDue(c, w.now)
        BY <2>5, <3>2, <1>2 DEF AdvanceCadence, FullDue
      <4>2. full = NextSlot(FullSlots, w.now)
        BY <4>1 DEF AdvanceCadence
      <4>3. s <= w.now
        BY <4>2, <1>2, <2>5, NextFullSkipsNone
      <4>4. entry.kind = "FULL" /\ entry.slot <= s /\ s <= entry.at
        <5> HIDE DEF o
        <5> QED BY <1>2, <1>5, <2>4, <3>2, <4>1, <4>3
      <4>5. n + 1 \in 1 .. n + 1
        BY <1>4
      <4> HIDE DEF entry, n
      <4> QED BY <1>4, <4>4, <4>5
    <3> QED BY <3>1, <3>2
  <2>6. UneditedRow'
    <3> HIDE DEF n, full
    <3>1. \A s \in FullSlots : s > 0 /\ s < job'.cadence.full =>
            \E k \in 1 .. n + 1 : /\ ledger'[k].kind = "FULL"
                                  /\ ledger'[k].slot <= s /\ s <= ledger'[k].at
      BY <2>2, <2>5 DEF full
    <3> QED BY <1>4, <1>7, <2>3, <3>1 DEF UneditedRow, FullCovers
  <2>7. FullSlotsServed'
    <3> SUFFICES ASSUME NEW i \in 1 .. n + 1, ledger'[i].kind # "PLAIN",
                        NEW s \in FullSlots, s > 0, s <= ledger'[i].at
                 PROVE  \E k \in 1 .. i : /\ ledger'[k].kind = "FULL"
                                          /\ ledger'[k].slot <= s /\ s <= ledger'[k].at
      BY <1>4 DEF FullSlotsServed
    <3>1. CASE i = n + 1
      <4>1. s <= w.now
        BY <1>4, <1>5, <3>1
      <4>2. s < full
        BY <1>2, <2>1, <4>1
      <4> HIDE DEF full, n
      <4> QED BY <2>5, <3>1, <4>2
    <3>2. CASE i # n + 1
      <4> HIDE DEF n
      <4>1. i \in 1 .. n /\ \A k \in 1 .. i : k \in 1 .. n
        BY <1>4, <3>2
      <4>2. \E k \in 1 .. i : /\ ledger[k].kind = "FULL"
                              /\ ledger[k].slot <= s /\ s <= ledger[k].at
        BY <1>4, <4>1 DEF FullSlotsServed, n
      <4> QED BY <1>4, <4>1, <4>2
    <3> QED BY <3>1, <3>2
  <2> QED BY <2>6, <2>7
<1> QED BY <1>8, <1>9

LEMMA UneditedStep == UneditedInv /\ [Next]_vars => UneditedInv'
<1> SUFFICES ASSUME UneditedInv, [Next]_vars PROVE UneditedInv'
  OBVIOUS
<1> USE DEF UneditedInv
<1>0. DueInv'
  BY DueStep
<1>a. edits \in Nat
  BY Fields
<1> SUFFICES ASSUME edits' = 0 PROVE UneditedRow' /\ FullSlotsServed'
  BY <1>0 DEF FullSlotsServed
<1>b. edits = 0
  <2>1. CASE \E e \in Edits : BeginUpdate(e)
    BY <2>1, <1>a DEF BeginUpdate
  <2>2. CASE UpdateRequest
    BY <2>2 DEF UpdateRequest, ReadExtensions, UpdateJob, ConfigureChainSchedule,
                ConfigureReadJob, ConfigureReadPolicy, ConfigureWrite
  <2>3. CASE Tick \/ ScheduleDueJob \/ FinishRun \/ CreateManualRun \/ Advance \/ Crash
             \/ UNCHANGED vars
    BY <2>3 DEF Tick, ScheduleDueJob, ReadJob, ReadCadence, ReadBusy, Commit, FinishRun,
                CreateManualRun, Advance, Crash, vars, workerOnly
  <2> QED BY <2>1, <2>2, <2>3 DEF Next
<1>c. UneditedRow /\ a.pc = "idle"
  BY <1>b DEF UneditedRow
<1>d. w \in [pc : {"idle", "job", "cadence", "busy", "commit"}, now : 0 .. MaxTime,
              job : Jobs, cadence : Cursors, busy : BOOLEAN]
  BY DEF DueInv, TypeOK
<1>e. IdleWorker.pc = "idle" /\ IdleApi.pc = "idle"
  BY IdleTyped
<1>1. CASE Tick \/ ReadJob \/ ReadCadence \/ ReadBusy
  <2>1. ledger' = ledger /\ job' = job /\ a' = a /\ edits' = edits
    BY <1>1 DEF Tick, ReadJob, ReadCadence, ReadBusy, workerOnly
  <2>2. FullSlotsServed'
    BY <2>1 DEF FullSlotsServed
  <2>3. /\ w'.pc \in {"cadence", "busy", "commit"} => w'.job = job
        /\ w'.pc \in {"busy", "commit"} => w'.cadence = job.cadence
    <3>1. CASE Tick
      BY <3>1, <1>d DEF Tick
    <3>2. CASE ReadJob
      BY <3>2, <1>d, <1>e DEF ReadJob
    <3>3. CASE ReadCadence
      BY <3>3, <1>c, <1>d, <1>e DEF ReadCadence, UneditedRow
    <3>4. CASE ReadBusy
      BY <3>4, <1>c, <1>d DEF ReadBusy, UneditedRow
    <3> QED BY <1>1, <3>1, <3>2, <3>3, <3>4
  <2> QED BY <1>c, <2>1, <2>2, <2>3 DEF UneditedRow, FullCovers
<1>2. CASE Commit
  BY <1>2, <1>b, CommitCovers
<1>3. CASE FinishRun \/ CreateManualRun \/ Advance \/ UNCHANGED vars
  <2>1. ledger' = ledger /\ job' = job /\ a' = a /\ w' = w /\ edits' = edits
    BY <1>3 DEF FinishRun, CreateManualRun, Advance, vars
  <2> QED BY <1>c, <2>1 DEF UneditedRow, FullCovers, FullSlotsServed
<1>4. CASE \E e \in Edits : BeginUpdate(e)
  BY <1>4, <1>a, <1>b DEF BeginUpdate
<1>5. CASE UpdateRequest
  BY <1>5, <1>c DEF UpdateRequest, ReadExtensions, UpdateJob, ConfigureChainSchedule,
                    ConfigureReadJob, ConfigureReadPolicy, ConfigureWrite
<1>6. CASE Crash
  <2>1. ledger' = ledger /\ job' = job /\ edits' = edits /\ a'.pc = "idle" /\ w'.pc = "idle"
    BY <1>6, <1>e DEF Crash
  <2> QED BY <1>c, <2>1 DEF UneditedRow, FullCovers, FullSlotsServed
<1> QED BY <1>1, <1>2, <1>3, <1>4, <1>5, <1>6 DEF Next, ScheduleDueJob

\* As long as no request changes the cadence, schedule_due_job lets no
\* incremental stand in for a FULL slot that passed, however long the daemon
\* was down, whatever instants the two calendars share and however requests
\* and ticks interleave.
THEOREM FullSlotsServedAlways == ASSUME FreshCadences PROVE Spec => []FullSlotsServed
<1>1. UneditedInv => FullSlotsServed
  BY DEF UneditedInv
<1> QED BY <1>1, UneditedInit, UneditedStep, PTL DEF Spec

=============================================================================
