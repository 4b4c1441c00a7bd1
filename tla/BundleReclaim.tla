---------------------------- MODULE BundleReclaim ----------------------------
(***************************************************************************)
(* The removal of published bundles that makes room for a backup           *)
(* (reclaim_execution.py, BundleQuarantiner and BundlePurger of            *)
(* bundle.py).  A journal in the database drives one operation over its    *)
(* bundles: every LOCAL bundle is renamed into a private quarantine, then  *)
(* the catalog forgets the points, then each bundle is renamed once more   *)
(* and removed file by file.  The driver may fail at any call, be killed,  *)
(* or lose the power, which undoes what was not yet synced; it starts      *)
(* again from the journal and from what it finds.  Meanwhile an            *)
(* administrator may put a directory in the place of a bundle.             *)
(***************************************************************************)
EXTENDS Naturals

CONSTANTS
    Local,      \* bundles on this node
    Remote,     \* bundles on a receiver
    Disks,      \* files of a bundle
    Metadata,
    NoEntry,    \* a name with nothing behind it
    NoBundle,
    MaxEdits,   \* bound: directories exchanged by an administrator
    MaxFaults,  \* bound: calls that fail
    MaxKills,   \* bound: kills of the daemon
    MaxLosses   \* bound: losses of power

Bundles == Local \cup Remote
Files   == Disks \cup Metadata

ASSUME BoundsAssumption ==
    MaxEdits \in Nat /\ MaxFaults \in Nat /\ MaxKills \in Nat /\ MaxLosses \in Nat
ASSUME NamesApart == Local \cap Remote = {} /\ NoBundle \notin Bundles

\* A directory: is it the published bundle or another one, and its files.
Directories == [ino : {"own", "other"}, files : SUBSET Files]
ASSUME NothingApart == NoEntry \notin Directories

VARIABLES
    op,       \* reclaim_operations: state, and the state recovery returns to
    journal,  \* reclaim_bundles: state, and which directory was quarantined
    catalog,  \* do the restore points still exist
    fs,       \* per LOCAL bundle: the entries under its three names
    stable,   \* the same, as a loss of power would leave it
    task,     \* the driver: next step, bundle, the directory it has open
    todo,     \* bundles this pass has not reached
    edits, faults, kills, losses

counters == <<edits, faults, kills, losses>>
vars     == <<op, journal, catalog, fs, stable, task, todo, counters>>

Destructive == {"RETIRING", "QUARANTINED", "CATALOG_REMOVED", "PURGING", "PURGED"}
Final       == {"COMPLETED", "ABORTED"}
States      == Destructive \cup Final \cup {"PLANNED", "RECOVERY_REQUIRED"}
Places      == {"source", "quarantine", "purging"}
Steps       == {"idle", "drive", "pass", "open", "rename", "sync", "identity", "mark", "recheck",
                "claimed", "remove", "removed", "gone"}

Published == [ino |-> "own", files |-> Files]
Other     == [ino |-> "other", files |-> Files]
Idle      == [at |-> "idle", b |-> NoBundle, seen |-> "none"]

Init ==
    /\ op = [state |-> "PLANNED", from |-> "none"]
    /\ journal = [b \in Bundles |-> [state |-> "PLANNED", ino |-> "none"]]
    /\ catalog = TRUE
    /\ fs = [b \in Local |-> [source |-> Published, quarantine |-> NoEntry, purging |-> NoEntry]]
    /\ stable = fs
    /\ task = Idle
    /\ todo = {}
    /\ edits = 0 /\ faults = 0 /\ kills = 0 /\ losses = 0

At(step)      == task.at = step
Goto(step)    == task' = [task EXCEPT !.at = step]
To(state)     == op' = [op EXCEPT !.state = state]
Turn(b)       == At("pass") /\ b \in todo
Passed(b)     == todo' = todo \ {b} /\ task' = [Idle EXCEPT !.at = "pass"]
There(b, p)   == fs[b][p] # NoEntry
Whole(b, p)   == There(b, p) /\ fs[b][p].files = Files
Move(b, p, q) == fs' = [fs EXCEPT ![b][q] = fs[b][p], ![b][p] = NoEntry]
Sync(b)       == stable' = [stable EXCEPT ![b] = fs[b]]

-----------------------------------------------------------------------------
(* _drive: one pass over the bundles for every state of the operation.     *)

Execute ==
    /\ At("idle") /\ op.state \notin Final \cup {"RECOVERY_REQUIRED"}
    /\ Goto("drive")
    /\ UNCHANGED <<op, journal, catalog, fs, stable, todo, counters>>

\* reclaim.recover goes back to the state the journal kept.
Recover ==
    /\ At("idle") /\ op.state = "RECOVERY_REQUIRED"
    /\ op' = [state |-> op.from, from |-> "none"]
    /\ Goto("drive")
    /\ UNCHANGED <<journal, catalog, fs, stable, todo, counters>>

BeginRetirement ==
    /\ At("drive") /\ op.state = "PLANNED"
    /\ To("RETIRING")
    /\ UNCHANGED <<journal, catalog, fs, stable, task, todo, counters>>

\* The plan no longer fits the catalog.
AbortPlanned ==
    /\ At("drive") /\ op.state = "PLANNED"
    /\ To("ABORTED")
    /\ task' = Idle
    /\ UNCHANGED <<journal, catalog, fs, stable, todo, counters>>

BeginPass ==
    /\ At("drive") /\ op.state \in Destructive
    /\ todo' = Bundles
    /\ Goto("pass")
    /\ UNCHANGED <<op, journal, catalog, fs, stable, counters>>

EndPass(state) ==
    /\ At("pass") /\ todo = {}
    /\ To(state)
    /\ Goto("drive")
    /\ UNCHANGED <<journal, fs, stable, todo, counters>>

\* What raises after the first rename needs a recovery; before, nothing
\* happened.
GiveUp ==
    /\ op' = IF op.state \in Destructive
             THEN [state |-> "RECOVERY_REQUIRED", from |-> op.state] ELSE op
    /\ task' = Idle
    /\ todo' = {}
    /\ UNCHANGED <<journal, catalog, fs, stable>>

CallFails ==
    /\ ~At("idle")
    /\ faults < MaxFaults
    /\ faults' = faults + 1
    /\ GiveUp
    /\ UNCHANGED <<edits, kills, losses>>

-----------------------------------------------------------------------------
(* RETIRING                                                                *)

\* A receiver that cannot be reached does not hold up the LOCAL bundles.
RemoteDelete(b) ==
    /\ Turn(b) /\ op.state = "RETIRING" /\ b \in Remote
    /\ journal' = [journal EXCEPT ![b].state = "PURGED"]
    /\ Passed(b)
    /\ UNCHANGED <<op, catalog, fs, stable, counters>>

\* Where the bundle is, and that the directory is the one in the journal.
Verified(b) ==
    /\ ~There(b, "source") /\ ~There(b, "purging") /\ Whole(b, "quarantine")
    /\ fs[b].quarantine.ino = journal[b].ino

Retires(b) == Turn(b) /\ op.state = "RETIRING" /\ b \in Local

LookAgain(b) ==
    /\ Retires(b) /\ journal[b].state = "QUARANTINED"
    /\ Verified(b)
    /\ Passed(b)
    /\ UNCHANGED <<op, journal, catalog, fs, stable, counters>>

FindSource(b) ==
    /\ Retires(b) /\ journal[b].state = "PLANNED"
    /\ There(b, "source") /\ ~There(b, "quarantine") /\ ~There(b, "purging")
    /\ task' = [Idle EXCEPT !.at = "open", !.b = b]
    /\ UNCHANGED <<op, journal, catalog, fs, stable, todo, counters>>

\* The rename of an earlier attempt: its evidence is taken from the directory.
FindQuarantined(b) ==
    /\ Retires(b) /\ journal[b].state = "PLANNED"
    /\ ~There(b, "source") /\ Whole(b, "quarantine") /\ ~There(b, "purging")
    /\ task' = [at |-> "recheck", b |-> b, seen |-> fs[b].quarantine.ino]
    /\ UNCHANGED <<op, journal, catalog, fs, stable, todo, counters>>

RetireRefused(b) ==
    /\ Retires(b)
    /\ \/ journal[b].state = "QUARANTINED" /\ ~Verified(b)
       \/ /\ journal[b].state = "PLANNED"
          /\ There(b, "source") <=> There(b, "quarantine")
       \/ There(b, "purging")
    /\ GiveUp /\ UNCHANGED counters

B == task.b

OpenSource ==
    /\ At("open") /\ There(B, "source")
    /\ task' = [task EXCEPT !.at = "rename", !.seen = fs[B].source.ino]
    /\ UNCHANGED <<op, journal, catalog, fs, stable, todo, counters>>

Rename ==
    /\ At("rename") /\ There(B, "source") /\ ~There(B, "quarantine")
    /\ Move(B, "source", "quarantine")
    /\ Goto("sync")
    /\ UNCHANGED <<op, journal, catalog, stable, todo, counters>>

SourceGone ==
    /\ At("open") \/ At("rename")
    /\ ~There(B, "source")
    /\ GiveUp /\ UNCHANGED counters

SyncRename ==
    /\ At("sync")
    /\ Sync(B)
    /\ Goto("identity")
    /\ UNCHANGED <<op, journal, catalog, fs, todo, counters>>

IdentityHolds ==
    /\ At("identity") /\ fs[B].quarantine.ino = task.seen
    /\ Goto("mark")
    /\ UNCHANGED <<op, journal, catalog, fs, stable, todo, counters>>

\* Another directory was renamed: back with it, when its place is free.
RollBack ==
    /\ At("identity") /\ fs[B].quarantine.ino # task.seen
    /\ IF There(B, "source") THEN UNCHANGED <<fs, stable>>
       ELSE /\ Move(B, "quarantine", "source")
            /\ stable' = [stable EXCEPT ![B] = fs'[B]]
    /\ op' = [state |-> "RECOVERY_REQUIRED", from |-> op.state]
    /\ task' = Idle
    /\ todo' = {}
    /\ UNCHANGED <<journal, catalog, counters>>

Recheck ==
    /\ At("recheck") /\ ~There(B, "source")
    /\ Goto("mark")
    /\ UNCHANGED <<op, journal, catalog, fs, stable, todo, counters>>

Reappeared == At("recheck") /\ There(B, "source") /\ GiveUp /\ UNCHANGED counters

MarkQuarantined ==
    /\ At("mark")
    /\ journal' = [journal EXCEPT ![B] = [state |-> "QUARANTINED", ino |-> task.seen]]
    /\ Passed(B)
    /\ UNCHANGED <<op, catalog, fs, stable, counters>>

\* The bytes in quarantine are those of the plan: another directory differs.
Measured == \A b \in Local : journal[b].ino = "own"

\* Mutant: the operation is sealed without the comparison of the bytes.
SealUnmeasured ==
    /\ op.state = "RETIRING"
    /\ EndPass("QUARANTINED")
    /\ UNCHANGED catalog

Seal ==
    /\ op.state = "RETIRING" /\ Measured
    /\ EndPass("QUARANTINED")
    /\ UNCHANGED catalog

SealRefused ==
    /\ At("pass") /\ todo = {} /\ op.state = "RETIRING" /\ ~Measured
    /\ GiveUp /\ UNCHANGED counters

-----------------------------------------------------------------------------
(* QUARANTINED, CATALOG_REMOVED                                            *)

VerifyQuarantined(b) ==
    /\ Turn(b) /\ op.state \in {"QUARANTINED", "CATALOG_REMOVED"}
    /\ b \in Local => journal[b].state = "QUARANTINED" /\ Verified(b)
    /\ Passed(b)
    /\ UNCHANGED <<op, journal, catalog, fs, stable, counters>>

VerifyRefused(b) ==
    /\ Turn(b) /\ op.state \in {"QUARANTINED", "CATALOG_REMOVED"}
    /\ b \in Local /\ ~(journal[b].state = "QUARANTINED" /\ Verified(b))
    /\ GiveUp /\ UNCHANGED counters

\* Mutant: the points are deleted when their bundles are.
RetireCatalogLater ==
    /\ op.state = "QUARANTINED"
    /\ EndPass("CATALOG_REMOVED")
    /\ UNCHANGED catalog

RetireCatalog ==
    /\ op.state = "QUARANTINED"
    /\ EndPass("CATALOG_REMOVED")
    /\ catalog' = FALSE

BeginPurge ==
    /\ op.state = "CATALOG_REMOVED"
    /\ EndPass("PURGING")
    /\ UNCHANGED catalog

-----------------------------------------------------------------------------
(* PURGING, PURGED                                                         *)

Purges(b) == Turn(b) /\ op.state = "PURGING" /\ b \in Local

SkipRemote(b) ==
    /\ Turn(b) /\ op.state \in {"PURGING", "PURGED"} /\ b \in Remote
    /\ Passed(b)
    /\ UNCHANGED <<op, journal, catalog, fs, stable, counters>>

\* The intent is in the journal before the first file goes.
BeginBundlePurge(b) ==
    /\ Purges(b) /\ journal[b].state = "QUARANTINED"
    /\ Verified(b)
    /\ journal' = [journal EXCEPT ![b].state = "PURGING"]
    /\ UNCHANGED <<op, catalog, fs, stable, task, todo, counters>>

\* Mutant: what is not in quarantine is taken to be gone.
AbsentFromQuarantine(b) == ~There(b, "quarantine")

Absent(b) == ~There(b, "quarantine") /\ ~There(b, "purging")

\* After the intent a complete absence means that the removal succeeded.
AbsentIsPurged(b) ==
    /\ Purges(b) /\ journal[b].state = "PURGING"
    /\ ~There(b, "source") /\ Absent(b)
    /\ journal' = [journal EXCEPT ![b].state = "PURGED"]
    /\ Passed(b)
    /\ UNCHANGED <<op, catalog, fs, stable, counters>>

Matches(b, p) == There(b, p) /\ fs[b][p].ino = journal[b].ino

Claim(b) ==
    /\ Purges(b) /\ journal[b].state = "PURGING"
    /\ ~There(b, "source") /\ ~There(b, "purging")
    /\ Whole(b, "quarantine") /\ Matches(b, "quarantine")
    /\ Move(b, "quarantine", "purging")
    /\ task' = [Idle EXCEPT !.at = "claimed", !.b = b]
    /\ UNCHANGED <<op, journal, catalog, stable, todo, counters>>

\* Mutant: a partial removal is left to an operator.
ResumeRefused(b) ==
    /\ Purges(b) /\ journal[b].state = "PURGING"
    /\ ~There(b, "source") /\ ~There(b, "quarantine") /\ Matches(b, "purging")
    /\ GiveUp /\ UNCHANGED counters

\* A removal that was interrupted goes on with what is left.
ResumePurge(b) ==
    /\ Purges(b) /\ journal[b].state = "PURGING"
    /\ ~There(b, "source") /\ ~There(b, "quarantine") /\ Matches(b, "purging")
    /\ task' = [Idle EXCEPT !.at = "remove", !.b = b]
    /\ UNCHANGED <<op, journal, catalog, fs, stable, todo, counters>>

PurgeRefused(b) ==
    /\ Purges(b)
    /\ \/ journal[b].state = "QUARANTINED" /\ ~Verified(b)
       \/ /\ journal[b].state = "PURGING"
          /\ \/ There(b, "source")
             \/ There(b, "quarantine") /\ There(b, "purging")
             \/ There(b, "quarantine") /\ ~(Whole(b, "quarantine") /\ Matches(b, "quarantine"))
             \/ There(b, "purging") /\ ~Matches(b, "purging")
    /\ GiveUp /\ UNCHANGED counters

SyncClaim ==
    /\ At("claimed")
    /\ Sync(B)
    /\ Goto("remove")
    /\ UNCHANGED <<op, journal, catalog, fs, todo, counters>>

\* The files of a directory, whatever its name is.
FilesOf(names, ino) ==
    UNION {names[p].files : p \in {q \in Places : names[q] # NoEntry /\ names[q].ino = ino}}

Left(b)   == fs[b].purging.files
OnDisk(b) == FilesOf(stable[b], fs[b].purging.ino)

\* The disks go first; their directory is synced before the metadata go.
Unlink(f) ==
    /\ At("remove")
    /\ f \in Left(B)
    /\ f \in Metadata => Left(B) \cap Disks = {} /\ OnDisk(B) \cap Disks = {}
    /\ fs' = [fs EXCEPT ![B].purging.files = @ \ {f}]
    /\ UNCHANGED <<op, journal, catalog, stable, task, todo, counters>>

SyncFiles ==
    /\ At("remove") /\ OnDisk(B) # Left(B)
    /\ Left(B) \in {Metadata, {}}
    /\ stable' = [stable EXCEPT ![B] = [p \in Places |->
          IF @[p] = NoEntry \/ @[p].ino # journal[B].ino
          THEN @[p] ELSE [@[p] EXCEPT !.files = Left(B)]]]
    /\ UNCHANGED <<op, journal, catalog, fs, task, todo, counters>>

RemoveRoot ==
    /\ At("remove") /\ Left(B) = {} /\ OnDisk(B) = {}
    /\ fs' = [fs EXCEPT ![B].purging = NoEntry]
    /\ Goto("removed")
    /\ UNCHANGED <<op, journal, catalog, stable, todo, counters>>

SyncRoot ==
    /\ At("removed")
    /\ stable' = [stable EXCEPT ![B].purging = NoEntry]
    /\ Goto("gone")
    /\ UNCHANGED <<op, journal, catalog, fs, todo, counters>>

MarkPurged ==
    /\ At("gone") /\ Absent(B)
    /\ journal' = [journal EXCEPT ![B].state = "PURGED"]
    /\ Passed(B)
    /\ UNCHANGED <<op, catalog, fs, stable, counters>>

EndPurge ==
    /\ op.state = "PURGING"
    /\ EndPass("PURGED")
    /\ UNCHANGED catalog

Gone(b) == ~There(b, "source") /\ Absent(b)

VerifyPurged(b) ==
    /\ Turn(b) /\ b \in Local
    /\ op.state = "PURGED" \/ (op.state = "PURGING" /\ journal[b].state = "PURGED")
    /\ Gone(b)
    /\ Passed(b)
    /\ UNCHANGED <<op, journal, catalog, fs, stable, counters>>

Remains(b) ==
    /\ Turn(b) /\ b \in Local
    /\ op.state = "PURGED" \/ (op.state = "PURGING" /\ journal[b].state = "PURGED")
    /\ ~Gone(b)
    /\ GiveUp /\ UNCHANGED counters

Complete ==
    /\ At("pass") /\ todo = {} /\ op.state = "PURGED"
    /\ To("COMPLETED")
    /\ task' = Idle
    /\ UNCHANGED <<journal, catalog, fs, stable, todo, counters>>

-----------------------------------------------------------------------------
(* Around the driver.                                                      *)

Kill ==
    /\ kills < MaxKills
    /\ kills' = kills + 1
    /\ task' = Idle
    /\ todo' = {}
    /\ UNCHANGED <<op, journal, catalog, fs, stable, edits, faults, losses>>

\* Of what was not synced anything may be undone.
Survivor(b, names, back) ==
    [p \in Places |-> IF names[p] # NoEntry /\ names[p].ino = "own"
        THEN [ino |-> "own", files |-> FilesOf(fs[b], "own") \cup back] ELSE names[p]]
Survivors(b) == {Survivor(b, names, back) :
    names \in {stable[b], fs[b]}, back \in SUBSET FilesOf(stable[b], "own")}

PowerLoss ==
    /\ losses < MaxLosses
    /\ losses' = losses + 1
    /\ fs' \in [Local -> UNION {Survivors(b) : b \in Local}]
    /\ \A b \in Local : fs'[b] \in Survivors(b)
    /\ stable' = fs'
    /\ task' = Idle
    /\ todo' = {}
    /\ UNCHANGED <<op, journal, catalog, edits, faults, kills>>

\* An administrator moves the bundle away, puts another directory in its
\* place, or takes that away again.
AdminSets(b, entry) ==
    /\ edits < MaxEdits
    /\ edits' = edits + 1
    /\ fs[b].source # entry
    /\ entry = Other \/ fs[b].source \in {Published, Other}
    /\ fs' = [fs EXCEPT ![b].source = entry]
    /\ stable' = [stable EXCEPT ![b] = fs'[b]]
    /\ UNCHANGED <<op, journal, catalog, task, todo, faults, kills, losses>>

Retiring ==
    \/ \E b \in Remote : RemoteDelete(b)
    \/ \E b \in Local : LookAgain(b) \/ FindSource(b) \/ FindQuarantined(b) \/ RetireRefused(b)
    \/ OpenSource \/ Rename \/ SourceGone \/ SyncRename \/ IdentityHolds \/ RollBack
    \/ Recheck \/ Reappeared \/ MarkQuarantined \/ Seal \/ SealRefused

Verifying ==
    \/ \E b \in Bundles : VerifyQuarantined(b) \/ VerifyRefused(b)
    \/ RetireCatalog \/ BeginPurge

Purging ==
    \/ \E b \in Remote : SkipRemote(b)
    \/ \E b \in Local :
          \/ BeginBundlePurge(b) \/ AbsentIsPurged(b) \/ Claim(b) \/ ResumePurge(b)
          \/ PurgeRefused(b) \/ VerifyPurged(b) \/ Remains(b)
    \/ SyncClaim \/ (\E f \in Files : Unlink(f)) \/ SyncFiles \/ RemoveRoot \/ SyncRoot
    \/ MarkPurged \/ EndPurge \/ Complete

Driver ==
    \/ Execute \/ Recover \/ BeginRetirement \/ AbortPlanned \/ BeginPass
    \/ Retiring \/ Verifying \/ Purging

Next ==
    \/ Driver \/ CallFails \/ Kill \/ PowerLoss
    \/ \E b \in Local, e \in {Other, NoEntry} : AdminSets(b, e)

Spec     == Init /\ [][Next]_vars
FairSpec == Spec /\ WF_vars(Driver)

-----------------------------------------------------------------------------
Entries == {NoEntry} \cup Directories

TypeOK ==
    /\ op \in [state : States, from : Destructive \cup {"none"}]
    /\ journal \in [Bundles -> [state : {"PLANNED", "QUARANTINED", "PURGING", "PURGED"},
                                ino : {"none", "own", "other"}]]
    /\ catalog \in BOOLEAN
    /\ fs \in [Local -> [Places -> Entries]]
    /\ stable \in [Local -> [Places -> Entries]]
    /\ task \in [at : Steps, b : Bundles \cup {NoBundle}, seen : {"none", "own", "other"}]
    /\ todo \subseteq Bundles
    /\ edits \in Nat

\* As long as the catalog has the points, every bundle stands whole, at its
\* place or in quarantine, whatever was killed, failed or undone; only an
\* administrator may have moved it (_drive, retire_reclaim_catalog).
ListedIsWhole ==
    catalog => \A b \in Local :
        /\ \A p \in Places : There(b, p) => Whole(b, p)
        /\ edits = 0 => Whole(b, "source") \/ Whole(b, "quarantine")

\* A directory that is not the bundle keeps its files, even when it was
\* renamed into quarantine in the bundle's place (quarantine, purge).
OthersKeepFiles ==
    \A b \in Local, p \in Places :
        There(b, p) /\ fs[b][p].ino = "other" => Whole(b, p)

\* What the journal calls PURGED has lost its last file for good: no loss of
\* power brings one back (_purge_remaining_tree, mark_reclaim_bundle_purged).
PurgedForGood ==
    \A b \in Local : journal[b].state = "PURGED" => \A p \in Places :
        stable[b][p] # NoEntry /\ stable[b][p].ino = "own" => stable[b][p].files = {}

\* Kills and failing calls never leave an operation that recovery cannot
\* complete (_drive_with_recovery, recover).
ReclaimEnds ==
    op.state \in Destructive ~> op.state = "COMPLETED" \/ edits > 0 \/ losses > 0

-----------------------------------------------------------------------------
(* What the documentation or a comment says and the code does not keep:    *)
(* TLC finds a counterexample (README, section 6).                         *)

\* Both namespace changes are durable before QUARANTINED is persisted (quarantine).
QuarantinedIsDurable ==
    \A b \in Local : journal[b].state = "QUARANTINED" => stable[b].quarantine # NoEntry
=============================================================================
