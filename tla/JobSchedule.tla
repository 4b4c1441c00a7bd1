----------------------------- MODULE JobSchedule -----------------------------
(***************************************************************************)
(* The persisted schedule of one backup job: its next_run_at cursor, the   *)
(* FULL and INCREMENTAL cursors of a chain cadence, the scheduler that     *)
(* consumes due slots, and the job.update request that edits the row.      *)
(*                                                                         *)
(* Processes.                                                              *)
(*   worker  RuntimeWorker: SchedulerV2.tick, and (in the same thread) the *)
(*           executor that finishes the runs of the VM.                    *)
(*   api     the asyncio thread: job.update, that is update_job followed   *)
(*           by configure_chain_schedule, and backup.run.                  *)
(* Each has its own SQLite connection.  Every SELECT is a transaction of   *)
(* its own and only the UPDATE or INSERT takes the write lock, so each     *)
(* read and each write is a separate action.                               *)
(*                                                                         *)
(* Abstractions.  Time is a natural number; 0 stands for a NULL cursor.    *)
(* A calendar (wall-clock time, weekday, time zone, DST) is the set of the *)
(* instants it selects.  The remaining policy fields of the row are one    *)
(* value, the number of the edit that last wrote them; the replica list,   *)
(* which travels in the same JSON object, is one of them.                  *)
(***************************************************************************)
EXTENDS Naturals, Sequences, FiniteSets

CONSTANTS
    MaxTime,     \* bound: the clock stops here
    Interval,    \* SchedulePolicy.interval_seconds
    DailySlots,  \* the instants of the DAILY schedule
    FullSlots,   \* the instants of the cadence's FULL slots
    IncSlots,    \* the instants of its INCREMENTAL slots
    Edits,       \* the job.update requests users may send
    MaxEdits,    \* bound: how many of them
    MaxCrashes,  \* bound: how often the daemon dies
    InitJobs,    \* the rows the job may start with
    Serialized   \* do job.update and a scheduler tick never overlap?

Time == Nat
Types == {"INTERVAL", "DAILY"}
NoCadence == [full |-> 0, inc |-> 0]
Cursors == [full : Time, inc : Time]
Jobs == [enabled : BOOLEAN, type : Types, next : Time, cadence : Cursors,
         settings : Nat]
Flags == {"keep", "on", "off"}
EditRecords == [enabled : Flags, schedule : Flags, type : Types \cup {"keep"},
                chain : Flags]

\* The slot of calendar S that follows instant t.
NextSlot(S, t) == CHOOSE s \in S : s > t /\ \A u \in S : u > t => s <= u
HasNext(S) == \A t \in 0 .. MaxTime :
                \E s \in S : s > t /\ \A u \in S : u > t => s <= u

ASSUME ScheduleAssumption ==
    /\ MaxTime \in Nat /\ Interval \in Nat \ {0}
    /\ DailySlots \subseteq Nat /\ HasNext(DailySlots)
    /\ FullSlots \subseteq Nat /\ HasNext(FullSlots)
    /\ IncSlots \subseteq Nat /\ HasNext(IncSlots)
    /\ Edits \subseteq EditRecords /\ MaxEdits \in Nat /\ MaxCrashes \in Nat
    /\ InitJobs \subseteq Jobs
    /\ \A j \in InitJobs : /\ j.settings = 0
                           /\ (j.cadence.full = 0) <=> (j.cadence.inc = 0)
    /\ Serialized \in BOOLEAN

VARIABLES
    now,       \* the clock
    job,       \* the backup_jobs row
    busy,      \* has the VM a run that is neither SUCCESS nor FAILED?
    ledger,    \* consumed occurrences, in commit order: runs and skip events
    w,         \* locals of the worker's schedule_due_job
    a,         \* locals of the API's job.update
    edits,     \* job.update requests so far
    accepted,  \* the last of them that was answered with success
    enabledAt, \* when job.update last switched a disabled job on
    crashes

vars == <<now, job, busy, ledger, w, a, edits, accepted, enabledAt, crashes>>

Entries == [slot : Time, at : Time, kind : {"FULL", "INCREMENTAL", "PLAIN"},
            count : Nat, ran : BOOLEAN]

TypeOK ==
    /\ now \in 0 .. MaxTime
    /\ job \in Jobs
    /\ busy \in BOOLEAN
    /\ ledger \in Seq(Entries)
    /\ w \in [pc : {"idle", "job", "cadence", "busy", "commit"}, now : 0 .. MaxTime,
              job : Jobs, cadence : Cursors, busy : BOOLEAN]
    /\ a \in [pc : {"idle", "extensions", "update", "configure", "policy", "write"},
              at : 0 .. MaxTime, edit : EditRecords, job : Jobs,
              cadence : Cursors, next : Time]
    /\ edits \in 0 .. MaxEdits
    /\ accepted \in 0 .. MaxEdits
    /\ enabledAt \in 0 .. MaxTime
    /\ crashes \in 0 .. MaxCrashes

-----------------------------------------------------------------------------
(* Schedule arithmetic. *)

Earlier(s, t) == IF s <= t THEN s ELSE t

\* SchedulePolicy.next_run_after: the first slot strictly after t.
NextRunAfter(type, t) ==
    IF type = "INTERVAL" THEN t + Interval ELSE NextSlot(DailySlots, t)

\* How many occurrences a cursor at due represents at instant t.
IntervalsDue(due, t) == ((t - due) \div Interval) + 1
SlotsDue(S, due, t) == 1 + Cardinality({s \in S : due < s /\ s <= t})

\* SchedulePolicy.advance_due.
AdvanceDue(type, due, t) ==
    IF type = "INTERVAL" THEN due + IntervalsDue(due, t) * Interval
    ELSE NextSlot(DailySlots, t)

FullDue(c, t) == c.full <= t
IncDue(c, t) == c.inc <= t

AdvanceCadence(c, t) ==
    [full |-> IF FullDue(c, t) THEN NextSlot(FullSlots, t) ELSE c.full,
     inc  |-> IF IncDue(c, t) THEN NextSlot(IncSlots, t) ELSE c.inc]

\* initialize_chain_schedule.
InitialCadence(t) == [full |-> NextSlot(FullSlots, t), inc |-> NextSlot(IncSlots, t)]

\* What one due occurrence of row j with cadence c, consumed at t, becomes.
MutIncWins(j, c, t) ==
    IF c = NoCadence
    THEN [slot |-> j.next, kind |-> "PLAIN", count |-> 1]
    ELSE IF IncDue(c, t) THEN [slot |-> c.inc, kind |-> "INCREMENTAL", count |-> 1]
    ELSE [slot |-> c.full, kind |-> "FULL", count |-> 1]
Occurrence(j, c, t) ==
    IF c = NoCadence
    THEN [slot |-> j.next, kind |-> "PLAIN",
          count |-> IF j.type = "INTERVAL" THEN IntervalsDue(j.next, t)
                    ELSE SlotsDue(DailySlots, j.next, t)]
    ELSE IF FullDue(c, t)
    THEN [slot |-> c.full, kind |-> "FULL", count |-> SlotsDue(FullSlots, c.full, t)]
    ELSE [slot |-> c.inc, kind |-> "INCREMENTAL", count |-> SlotsDue(IncSlots, c.inc, t)]

-----------------------------------------------------------------------------
NoEdit == [enabled |-> "keep", schedule |-> "keep", type |-> "keep", chain |-> "keep"]
NoRow == [enabled |-> FALSE, type |-> "INTERVAL", next |-> 0, cadence |-> NoCadence,
          settings |-> 0]

\* Between two calls a thread holds no locals.
IdleWorker == [pc |-> "idle", now |-> 0, job |-> NoRow, cadence |-> NoCadence,
               busy |-> FALSE]
IdleApi == [pc |-> "idle", at |-> 0, edit |-> NoEdit, job |-> NoRow,
            cadence |-> NoCadence, next |-> 0]

Init ==
    /\ now = 0
    /\ job \in InitJobs
    /\ busy = FALSE
    /\ ledger = <<>>
    /\ w = IdleWorker
    /\ a = IdleApi
    /\ edits = 0
    /\ accepted = 0
    /\ enabledAt = 0
    /\ crashes = 0

-----------------------------------------------------------------------------
(* The scheduler. *)

workerOnly == <<now, job, busy, ledger, a, edits, accepted, enabledAt, crashes>>

\* SchedulerV2.tick reads the clock once for all jobs.
Tick ==
    /\ w.pc = "idle"
    /\ Serialized => a.pc = "idle"
    /\ w' = [w EXCEPT !.pc = "job", !.now = now]
    /\ UNCHANGED workerOnly

IsDue(j, t) == j.enabled /\ j.next # 0 /\ j.next <= t

\* get_job and the three early returns.
ReadJob ==
    /\ w.pc = "job"
    /\ w' = IF IsDue(job, w.now) THEN [w EXCEPT !.pc = "cadence", !.job = job]
            ELSE IdleWorker
    /\ UNCHANGED workerOnly

\* get_chain_schedule; a cadence with no due cursor consumes nothing.
ReadCadence ==
    /\ w.pc = "cadence"
    /\ w' = LET c == job.cadence IN
            IF c = NoCadence \/ FullDue(c, w.now) \/ IncDue(c, w.now)
            THEN [w EXCEPT !.pc = "busy", !.cadence = c]
            ELSE IdleWorker
    /\ UNCHANGED workerOnly

ReadBusy ==
    /\ w.pc = "busy"
    /\ w' = [w EXCEPT !.pc = "commit", !.busy = busy]
    /\ UNCHANGED workerOnly

\* The policy JSON that schedule_due_job writes: its snapshot, cursors advanced.
MutLaterCursor(j, c, t) ==
    [j EXCEPT !.cadence = IF c = NoCadence THEN c ELSE AdvanceCadence(c, t),
              !.next = IF c = NoCadence THEN AdvanceDue(j.type, j.next, t)
                       ELSE AdvanceCadence(c, t).full]
Consumed(j, c, t) ==
    IF c = NoCadence
    THEN [j EXCEPT !.next = AdvanceDue(j.type, j.next, t), !.cadence = NoCadence]
    ELSE [j EXCEPT !.next = Earlier(AdvanceCadence(c, t).full, AdvanceCadence(c, t).inc),
                   !.cadence = AdvanceCadence(c, t)]

\* One transaction: the advanced policy, and a run or a skip event.  The
\* enabled column is not written.
MutForgetSettings(snapshot) == [snapshot EXCEPT !.settings = 0]
PolicyWritten(snapshot) == [snapshot EXCEPT !.enabled = job.enabled]

Commit ==
    /\ w.pc = "commit"
    /\ LET o == Occurrence(w.job, w.cadence, w.now)
       IN  ledger' = Append(ledger, [slot |-> o.slot, at |-> w.now, kind |-> o.kind,
                                     count |-> o.count, ran |-> ~w.busy])
    /\ job' = PolicyWritten(Consumed(w.job, w.cadence, w.now))
    /\ busy' = (busy \/ ~w.busy)
    /\ w' = IdleWorker
    /\ UNCHANGED <<now, a, edits, accepted, enabledAt, crashes>>

\* The executor finishes the VM's runs, in the scheduler's thread.
FinishRun ==
    /\ w.pc = "idle"
    /\ busy
    /\ busy' = FALSE
    /\ UNCHANGED <<now, job, ledger, w, a, edits, accepted, enabledAt, crashes>>

-----------------------------------------------------------------------------
(* The API. *)

apiOnly == <<now, job, busy, ledger, w, accepted, enabledAt, crashes>>

\* update_job: get_job at the time the request is stamped with.
BeginUpdate(e) ==
    /\ a.pc = "idle"
    /\ Serialized => w.pc = "idle"
    /\ edits < MaxEdits
    /\ edits' = edits + 1
    /\ a' = [a EXCEPT !.pc = "extensions", !.at = now, !.edit = e, !.job = job]
    /\ UNCHANGED apiOnly

MergedExtensions(policy) == policy.cadence

ReadExtensions ==
    /\ a.pc = "extensions"
    /\ a' = [a EXCEPT !.pc = "update", !.cadence = MergedExtensions(job)]
    /\ UNCHANGED apiOnly
    /\ UNCHANGED edits

UpdatedType(e, j) == IF e.type = "keep" THEN j.type ELSE e.type
UpdatedEnabled(e, j) == IF e.enabled = "keep" THEN j.enabled ELSE e.enabled = "on"

\* The cursor update_job writes.
MutReplayDisabled(e, j, at) ==
    CASE e.schedule = "off" -> 0
      [] e.schedule = "on" -> NextRunAfter(UpdatedType(e, j), at)
      [] OTHER -> j.next
MutRunAtOnce(e, j, at) ==
    CASE e.schedule = "off" -> 0 [] e.schedule = "on" -> at [] OTHER -> j.next
UpdatedNext(e, j, at) ==
    CASE e.schedule = "off" -> 0
      [] e.schedule = "on" -> NextRunAfter(UpdatedType(e, j), at)
      [] e.schedule = "keep" ->
            IF e.enabled = "on" /\ ~j.enabled /\ j.next # 0
            THEN NextRunAfter(UpdatedType(e, j), at)
            ELSE j.next

\* update_job: the UPDATE of the whole row.  Without a chain_schedule_enabled
\* parameter job.update ends here.
UpdateJob ==
    /\ a.pc = "update"
    /\ job' = [enabled |-> UpdatedEnabled(a.edit, a.job),
               type |-> UpdatedType(a.edit, a.job),
               next |-> UpdatedNext(a.edit, a.job, a.at),
               cadence |-> a.cadence,
               settings |-> edits]
    /\ enabledAt' = IF a.edit.enabled = "on" /\ ~a.job.enabled THEN a.at ELSE enabledAt
    /\ IF a.edit.chain = "keep"
       THEN a' = IdleApi /\ accepted' = edits
       ELSE a' = [a EXCEPT !.pc = "configure"] /\ UNCHANGED accepted
    /\ UNCHANGED <<now, busy, ledger, w, edits, crashes>>

\* configure_chain_schedule: get_job, at a new reading of the clock.
ConfigureReadJob ==
    /\ a.pc = "configure"
    /\ a' = [a EXCEPT !.pc = "policy", !.at = now, !.next = job.next]
    /\ UNCHANGED apiOnly
    /\ UNCHANGED edits

\* The policy is read again, or the cadence is refused after update_job has
\* already committed the rest of the request.
ConfigureReadPolicy ==
    /\ a.pc = "policy"
    /\ \/ a' = [a EXCEPT !.pc = "write", !.job = job]
       \/ a.edit.chain = "on" /\ a' = IdleApi
    /\ UNCHANGED apiOnly
    /\ UNCHANGED edits

ConfigureWrite ==
    /\ a.pc = "write"
    /\ LET c == InitialCadence(a.at)
       IN  job' = IF a.edit.chain = "on"
                  THEN PolicyWritten([a.job EXCEPT !.cadence = c,
                                                   !.next = Earlier(c.full, c.inc)])
                  ELSE PolicyWritten([a.job EXCEPT !.cadence = NoCadence,
                                                   !.next = a.next])
    /\ accepted' = edits
    /\ a' = IdleApi
    /\ UNCHANGED <<now, busy, ledger, w, edits, enabledAt, crashes>>

\* backup.run, for this job or another of the VM.
CreateManualRun ==
    /\ a.pc = "idle"
    /\ ~busy
    /\ busy' = TRUE
    /\ UNCHANGED <<now, job, ledger, w, a, edits, accepted, enabledAt, crashes>>

-----------------------------------------------------------------------------
(* The clock and the process. *)

Advance ==
    /\ now < MaxTime
    /\ now' = now + 1
    /\ UNCHANGED <<job, busy, ledger, w, a, edits, accepted, enabledAt, crashes>>

\* Death and restart of the daemon: both threads lose their locals.
Crash ==
    /\ crashes < MaxCrashes
    /\ crashes' = crashes + 1
    /\ w' = IdleWorker
    /\ a' = IdleApi
    /\ UNCHANGED <<now, job, busy, ledger, edits, accepted, enabledAt>>

ScheduleDueJob == ReadJob \/ ReadCadence \/ ReadBusy \/ Commit
ConfigureChainSchedule == ConfigureReadJob \/ ConfigureReadPolicy \/ ConfigureWrite
UpdateRequest == ReadExtensions \/ UpdateJob \/ ConfigureChainSchedule

Next ==
    \/ Tick \/ ScheduleDueJob \/ FinishRun
    \/ \E e \in Edits : BeginUpdate(e)
    \/ UpdateRequest \/ CreateManualRun
    \/ Advance \/ Crash

Spec == Init /\ [][Next]_vars

\* The RuntimeWorker loop keeps ticking and a tick runs to its end, a request
\* that was received is carried out, and time passes.  Nothing makes users
\* send requests, runs finish, or the daemon die.
Fairness == /\ WF_vars(Tick) /\ WF_vars(ScheduleDueJob)
            /\ WF_vars(UpdateRequest) /\ WF_vars(Advance)
FairSpec == Spec /\ Fairness

-----------------------------------------------------------------------------
(* Properties. *)

\* An occurrence is consumed once it is due, and every occurrence consumed
\* later lies after that instant: missed slots are coalesced into one run or
\* skip event (RUN_ONCE) and no slot is consumed again, whatever a crash, a
\* busy VM or a job.update does in between (schedule_due_job, update_job,
\* configure_chain_schedule).
NoReplay ==
    \A j \in 1 .. Len(ledger) :
        /\ ledger[j].slot <= ledger[j].at
        /\ \A i \in 1 .. j - 1 : ledger[i].at < ledger[j].slot

\* After schedule_due_job has written its cursors nothing is due any more at
\* the instant of the tick, also when it skipped a busy VM: a slow VM builds
\* up no backlog.
NothingDueAfterCommit ==
    [][Commit => /\ job'.next > w.now
                 /\ job'.cadence # NoCadence =>
                        job'.cadence.full > w.now /\ job'.cadence.inc > w.now]_vars

\* As long as no request changes the cadence, a FULL slot that passed is
\* represented by a FULL occurrence: incrementals that fell due before or with
\* it never stand in for it (schedule_due_job).
FullSlotsServed ==
    edits = 0 => \A i \in 1 .. Len(ledger) : ledger[i].kind # "PLAIN" =>
        \A s \in FullSlots : s > 0 /\ s <= ledger[i].at =>
            \E k \in 1 .. i : /\ ledger[k].kind = "FULL"
                              /\ ledger[k].slot <= s /\ s <= ledger[k].at

\* A request that job.update answered with success stays in the row until
\* another request replaces it.
AcceptedEditsSurvive == job.settings >= accepted

\* A run is only created for a job that is enabled at that moment.
NoRunWhileDisabled == [][Commit => job.enabled]_vars

\* Without a cadence, slots that passed while the job was disabled are not run
\* after it is enabled again ("disabled time is not replayed").  The cursors of
\* a cadence are kept over the disabled time, and the claim fails for them.
DisabledTimeNotReplayed ==
    [][Commit /\ w.cadence = NoCadence => w.job.next > enabledAt]_vars

\* A due slot of an enabled job is eventually consumed, unless a request came in
\* that may move the cursor or disable the job (SchedulerV2.tick).
SlotIsDue ==
    /\ job.enabled
    /\ IF job.cadence = NoCadence THEN IsDue(job, now)
       ELSE FullDue(job.cadence, now) \/ IncDue(job.cadence, now)
DueSlotsConsumed == SlotIsDue ~> ~SlotIsDue \/ edits > 0

-----------------------------------------------------------------------------
(* What the documentation or a comment says and the code does not keep:    *)
(* TLC finds a counterexample (README, section 6).                         *)

\* No slot is given two runs.
SlotRunsOnce ==
    \A i, j \in 1 .. Len(ledger) :
        /\ ledger[i].ran /\ ledger[j].ran
        /\ ledger[i].kind = ledger[j].kind /\ ledger[i].slot = ledger[j].slot
        => i = j
=============================================================================
