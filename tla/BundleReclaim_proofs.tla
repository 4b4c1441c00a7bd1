------------------------ MODULE BundleReclaim_proofs ------------------------
(***************************************************************************)
(* Theorems about the reclaim journal, for any set of bundles and files    *)
(* and any number of failures, kills, losses of power and edits.           *)
(*                                                                         *)
(* BInv relates the names of a bundle to what a loss of power would leave  *)
(* of them (DirsSound): one name holds the bundle, other directories are   *)
(* whole, and when no name holds the bundle nothing of it can come back.   *)
(* What a step of the driver has established about its bundle holds until  *)
(* the step is over (TaskSound), because only a loss of power, which ends  *)
(* the step, touches what is in quarantine.                                *)
(***************************************************************************)
EXTENDS BundleReclaim, TLAPS

\* The state of the operation, whether or not it waits for a recovery.
Stage == IF op.state = "RECOVERY_REQUIRED" THEN op.from ELSE op.state

Listed      == {"PLANNED", "RETIRING", "QUARANTINED", "ABORTED"}
BeforePurge == Listed \cup {"CATALOG_REMOVED"}

Owned(e)           == e # NoEntry /\ e.ino = "own"
HasOwn(names)      == \E p \in Places : Owned(names[p])
OnlyOnce(names)    == \A p, q \in Places : Owned(names[p]) /\ Owned(names[q]) => p = q
Emptied(names)     == \A p \in Places : Owned(names[p]) => names[p].files = {}
Untouched(names)   == \A p \in Places : Owned(names[p]) => names[p].files = Files
OthersWhole(names) ==
    \A p \in Places : names[p] # NoEntry /\ names[p].ino = "other" => names[p].files = Files
Standing(names)    == names["source"] # NoEntry \/ names["quarantine"] # NoEntry

DirsSound(names, durable) ==
    /\ OnlyOnce(names) /\ OnlyOnce(durable)
    /\ OthersWhole(names) /\ OthersWhole(durable)
    /\ ~HasOwn(names) => Emptied(durable)

OpSound ==
    /\ op.state = "RECOVERY_REQUIRED" => op.from \in Destructive
    /\ catalog => Stage \in Listed
    /\ Stage \notin {"PLANNED", "RETIRING", "ABORTED"} => \A b \in Local : journal[b].ino = "own"

Renaming == {"open", "rename", "sync", "identity", "mark", "recheck"}
Removing == {"claimed", "remove", "removed", "gone"}

TaskSound ==
    /\ task.at \in Renaming => op.state = "RETIRING" /\ B \in Local
    /\ task.at \in {"sync", "identity"} => There(B, "quarantine")
    /\ task.at \in Removing => op.state = "PURGING" /\ B \in Local /\ journal[B].state = "PURGING"
    /\ task.at \in {"claimed", "remove"} => Owned(fs[B]["purging"])
    /\ task.at \in {"removed", "gone"} => ~HasOwn(fs[B])

DisksSound == \A b \in Local : DirsSound(fs[b], stable[b])

BundlesKept ==
    Stage \in BeforePurge => \A b \in Local :
        /\ Untouched(fs[b]) /\ Untouched(stable[b])
        /\ edits = 0 => Standing(fs[b]) /\ Standing(stable[b])

PurgedSound ==
    \A b \in Local : journal[b].state = "PURGED" => Emptied(fs[b]) /\ Emptied(stable[b])

BInv == TypeOK /\ OpSound /\ TaskSound /\ DisksSound /\ BundlesKept /\ PurgedSound

-----------------------------------------------------------------------------
(* Type correctness                                                        *)

LEMMA InitBInv == Init => BInv
<1> SUFFICES ASSUME Init PROVE BInv
  OBVIOUS
<1> USE DEF Init, Idle, Published, Places
<1>1. Published \in Directories /\ Published # NoEntry
  BY NothingApart DEF Directories
<1>2. TypeOK
  BY <1>1, NamesApart DEF TypeOK, States, Steps, Entries
<1>3. OpSound /\ TaskSound
  BY DEF OpSound, TaskSound, Stage, Listed, Renaming, Removing
<1>4. ASSUME NEW b \in Local
      PROVE  /\ DirsSound(fs[b], stable[b])
             /\ Untouched(fs[b]) /\ Standing(fs[b])
  BY <1>1 DEF DirsSound, OnlyOnce, OthersWhole, HasOwn, Emptied, Owned, Untouched, Standing
<1>5. DisksSound /\ BundlesKept /\ PurgedSound
  BY <1>4, NamesApart DEF DisksSound, BundlesKept, PurgedSound, Bundles
<1> QED  BY <1>2, <1>3, <1>5 DEF BInv

\* Every step keeps the types.
LEMMA TypeStep == TypeOK /\ OpSound /\ TaskSound /\ [Next]_vars => TypeOK'
<1> SUFFICES ASSUME TypeOK, OpSound, TaskSound, [Next]_vars
             PROVE  TypeOK'
  OBVIOUS
<1> USE DEF TypeOK, At, Goto, To, Turn, Passed, Idle, Bundles, States, Steps, Destructive, counters
<1>g. ASSUME GiveUp
      PROVE  /\ op' \in [state : States, from : Destructive \cup {"none"}]
             /\ task' = Idle /\ todo' = {}
             /\ UNCHANGED <<journal, catalog, fs, stable>>
  BY <1>g DEF GiveUp
<1>e. ASSUME NEW b \in Local, NEW p \in Places
      PROVE  /\ fs[b][p] \in Entries
             /\ There(b, p) => fs[b][p].ino \in {"own", "other"}
  BY DEF Entries, Directories, There
<1>n. NoBundle \in Bundles \cup {NoBundle} /\ Local \subseteq Bundles /\ Remote \subseteq Bundles
  OBVIOUS
<1>m. ASSUME NEW b \in Local, NEW p \in Places, NEW q \in Places, Move(b, p, q)
      PROVE  fs' \in [Local -> [Places -> Entries]]
  BY <1>m, <1>e DEF Move, Entries
<1>1. CASE Execute \/ Recover \/ BeginRetirement \/ AbortPlanned \/ BeginPass
  <2>1. CASE Recover
    BY <2>1 DEF Recover, OpSound
  <2>2. CASE Execute \/ BeginRetirement \/ BeginPass
    BY <2>2 DEF Execute, BeginRetirement, BeginPass
  <2>3. CASE AbortPlanned
    BY <2>3 DEF AbortPlanned, Final
  <2> QED  BY <1>1, <2>1, <2>2, <2>3
<1>2. CASE Retiring
  <2> USE DEF TaskSound, Renaming, Removing, Places
  <2>1. CASE \E b \in Remote : RemoteDelete(b)
    <3> PICK b \in Remote : RemoteDelete(b)
      BY <2>1
    <3>1. journal' = [journal EXCEPT ![b] = [@ EXCEPT !.state = "PURGED"]] /\ journal[b] = journal[b]
      BY DEF RemoteDelete
    <3> QED  BY <3>1 DEF RemoteDelete
  <2>2. CASE \E b \in Local : LookAgain(b) \/ FindSource(b)
    BY <2>2 DEF LookAgain, FindSource, Retires
  <2>3. CASE \E b \in Local : FindQuarantined(b)
    BY <2>3, <1>e DEF FindQuarantined, Retires, Whole
  <2>4. CASE (\E b \in Local : RetireRefused(b)) \/ SourceGone \/ Reappeared \/ SealRefused
    BY <2>4, <1>g DEF RetireRefused, SourceGone, Reappeared, SealRefused
  <2>5. CASE OpenSource
    BY <2>5, <1>e DEF OpenSource
  <2>6. CASE Rename
    BY <2>6, <1>e DEF Rename, Move, Entries
  <2>7. CASE SyncRename
    BY <2>7 DEF SyncRename, Sync
  <2>8. CASE IdentityHolds \/ Recheck \/ Seal
    BY <2>8 DEF IdentityHolds, Recheck, Seal, EndPass
  <2>9. CASE RollBack
    <3>1. B \in Local /\ fs' \in [Local -> [Places -> Entries]]
      BY <2>9, <1>m DEF RollBack
    <3>2. stable' = stable \/ stable' = [stable EXCEPT ![B] = fs'[B]]
      BY <2>9 DEF RollBack
    <3>3. stable' \in [Local -> [Places -> Entries]]
      <4>1. stable \in [Local -> [Places -> Entries]] /\ fs'[B] \in [Places -> Entries]
        BY <3>1
      <4> HIDE DEF TypeOK, Places
      <4> QED BY <4>1, <3>1, <3>2
    <3> QED  BY <2>9, <3>1, <3>3 DEF RollBack
  <2>10. CASE MarkQuarantined
    BY <2>10 DEF MarkQuarantined
  <2> QED  BY <1>2, <2>1, <2>2, <2>3, <2>4, <2>5, <2>6, <2>7, <2>8, <2>9, <2>10 DEF Retiring
<1>3. CASE Verifying
  <2>1. CASE \E b \in Bundles : VerifyQuarantined(b)
    BY <2>1 DEF VerifyQuarantined
  <2>2. CASE \E b \in Bundles : VerifyRefused(b)
    BY <2>2, <1>g DEF VerifyRefused
  <2>3. CASE RetireCatalog \/ BeginPurge
    BY <2>3 DEF RetireCatalog, BeginPurge, EndPass
  <2> QED  BY <1>3, <2>1, <2>2, <2>3 DEF Verifying
<1>4. CASE Purging
  <2> USE DEF TaskSound, Renaming, Removing, Places
  <2>1. CASE (\E b \in Remote : SkipRemote(b)) \/ EndPurge \/ Complete
    BY <2>1 DEF SkipRemote, EndPurge, EndPass, Complete, Final
  <2>2. CASE \E b \in Local : BeginBundlePurge(b) \/ AbsentIsPurged(b)
    <3> PICK b \in Local : BeginBundlePurge(b) \/ AbsentIsPurged(b)
      BY <2>2
    <3>1. \E x \in {"PURGING", "PURGED"} :
              journal' = [journal EXCEPT ![b] = [@ EXCEPT !.state = x]] /\ journal[b] = journal[b]
      BY DEF BeginBundlePurge, AbsentIsPurged
    <3>2. UNCHANGED <<op, catalog, fs, stable, edits>> /\ todo' \subseteq todo
      BY DEF BeginBundlePurge, AbsentIsPurged
    <3>3. task' = task \/ task' = [Idle EXCEPT !.at = "pass"]
      BY DEF BeginBundlePurge, AbsentIsPurged
    <3> QED  BY <3>1, <3>2, <3>3
  <2>3. CASE \E b \in Local : Claim(b)
    <3> PICK b \in Local : Claim(b)
      BY <2>3
    <3>1. fs' \in [Local -> [Places -> Entries]]
      BY <1>m DEF Claim
    <3> QED  BY <3>1 DEF Claim, Purges
  <2>4. CASE \E b \in Local : ResumePurge(b) \/ VerifyPurged(b)
    BY <2>4 DEF ResumePurge, VerifyPurged, Purges
  <2>5. CASE \E b \in Local : PurgeRefused(b) \/ Remains(b)
    BY <2>5, <1>g DEF PurgeRefused, Remains, Purges
  <2>6. CASE SyncClaim
    BY <2>6 DEF SyncClaim, Sync
  <2>7. CASE \E f \in Files : Unlink(f)
    <3> PICK f \in Files : Unlink(f)
      BY <2>7
    <3>1. B \in Local /\ fs[B]["purging"] \in Directories
      BY <1>e DEF Unlink, Owned, Entries
    <3>2. [fs[B]["purging"] EXCEPT !.files = @ \ {f}] \in Entries
      BY <3>1 DEF Entries, Directories
    <3>3. fs' = [fs EXCEPT ![B] = [@ EXCEPT !.purging = [fs[B].purging EXCEPT !.files = @ \ {f}]]]
      BY <3>1 DEF Unlink
    <3>4. fs' \in [Local -> [Places -> Entries]]
      BY <3>1, <3>2, <3>3
    <3> QED  BY <3>4 DEF Unlink
  <2>8. CASE SyncFiles
    BY <2>8, <1>e DEF SyncFiles, Left, Entries, Directories, Owned
  <2>9. CASE RemoveRoot
    BY <2>9 DEF RemoveRoot, Entries
  <2>10. CASE SyncRoot
    BY <2>10 DEF SyncRoot, Entries
  <2>11. CASE MarkPurged
    BY <2>11 DEF MarkPurged
  <2> QED  BY <1>4, <2>1, <2>2, <2>3, <2>4, <2>5, <2>6, <2>7, <2>8, <2>9, <2>10, <2>11 DEF Purging
<1>5. CASE CallFails
  BY <1>5, <1>g DEF CallFails
<1>6. CASE Kill
  BY <1>6 DEF Kill
<1>7. CASE PowerLoss
  <2>1. ASSUME NEW names \in [Places -> Entries], NEW ino
        PROVE  FilesOf(names, ino) \subseteq Files
    BY DEF FilesOf, Entries, Directories
  <2>2. ASSUME NEW b \in Local, NEW s \in Survivors(b)
        PROVE  s \in [Places -> Entries]
    <3> PICK names \in {stable[b], fs[b]}, back \in SUBSET FilesOf(stable[b], "own") :
            s = Survivor(b, names, back)
      BY DEF Survivors
    <3>1. FilesOf(fs[b], "own") \cup back \in SUBSET Files
      BY <2>1
    <3>2. [ino |-> "own", files |-> FilesOf(fs[b], "own") \cup back] \in Entries
      BY <3>1 DEF Entries, Directories
    <3> QED  BY <3>2 DEF Survivor
  <2>3. fs' \in [Local -> [Places -> Entries]]
    <3>1. ASSUME NEW b \in Local
          PROVE  fs'[b] \in [Places -> Entries]
      BY <1>7, <2>2 DEF PowerLoss
    <3>2. fs' \in [Local -> UNION {Survivors(b) : b \in Local}]
      BY <1>7 DEF PowerLoss
    <3> QED  BY <3>1, <3>2
  <2> QED  BY <1>7, <2>3 DEF PowerLoss
<1>8. CASE \E b \in Local, e \in {Other, NoEntry} : AdminSets(b, e)
  <2> PICK b \in Local, e \in {Other, NoEntry} : AdminSets(b, e)
    BY <1>8
  <2>1. e \in Entries
    BY DEF Other, Entries, Directories
  <2>2. fs' = [fs EXCEPT ![b] = [@ EXCEPT !["source"] = e]]
    BY DEF AdminSets
  <2>3. fs' \in [Local -> [Places -> Entries]]
    BY <2>1, <2>2 DEF Places
  <2>4. stable' \in [Local -> [Places -> Entries]]
    BY <2>3 DEF AdminSets
  <2>5. edits' \in Nat /\ UNCHANGED <<op, journal, catalog, task, todo>>
    BY DEF AdminSets
  <2> QED  BY <2>3, <2>4, <2>5
<1>9. CASE UNCHANGED vars
  BY <1>9 DEF vars
<1> QED  BY <1>1, <1>2, <1>3, <1>4, <1>5, <1>6, <1>7, <1>8, <1>9 DEF Next, Driver

-----------------------------------------------------------------------------
(* The operation and the driver                                            *)

\* A purge that has begun is not taken back.
Forward == Stage' \in BeforePurge => Stage \in BeforePurge

\* The operation goes forward, and what was measured stays what it was.
LEMMA OpStep == TypeOK /\ OpSound /\ TaskSound /\ [Next]_vars => OpSound' /\ Forward
<1> SUFFICES ASSUME TypeOK, OpSound, TaskSound, [Next]_vars
             PROVE  OpSound' /\ Forward
  OBVIOUS
<1> USE DEF TypeOK, At, To, Bundles, Forward, BeforePurge
<1>s. \A b \in Local : b \in Bundles
  OBVIOUS
<1>q. ASSUME UNCHANGED <<op, catalog>>, \A b \in Local : journal'[b].ino = journal[b].ino
      PROVE  OpSound' /\ Forward
  BY <1>q DEF OpSound, Stage
<1>g. ASSUME GiveUp
      PROVE  OpSound' /\ Forward
  BY <1>g DEF GiveUp, OpSound, Stage, Destructive
<1>p. ASSUME NEW state \in Destructive, EndPass(state),
             op.state \in Destructive, op.state = "RETIRING" => Measured,
             state # "RETIRING", Stage \in BeforePurge \/ state \in {"PURGING", "PURGED"}, UNCHANGED journal, catalog' => catalog /\ state = "QUARANTINED"
      PROVE  OpSound' /\ Forward
  BY <1>p DEF EndPass, OpSound, Stage, Destructive, Listed, Measured
<1>1. CASE Execute \/ BeginPass
  BY <1>1, <1>q DEF Execute, BeginPass
<1>2. CASE Recover \/ BeginRetirement \/ AbortPlanned
  BY <1>2 DEF Recover, BeginRetirement, AbortPlanned, OpSound, Stage, Destructive, Listed
<1>3. CASE Retiring
  <2>1. CASE \E b \in Remote : RemoteDelete(b)
    BY <2>1, <1>q, NamesApart DEF RemoteDelete
  <2>2. CASE \E b \in Local : LookAgain(b) \/ FindSource(b) \/ FindQuarantined(b)
    BY <2>2, <1>q DEF LookAgain, FindSource, FindQuarantined
  <2>3. CASE (\E b \in Local : RetireRefused(b)) \/ SourceGone \/ Reappeared \/ SealRefused
    BY <2>3, <1>g DEF RetireRefused, SourceGone, Reappeared, SealRefused
  <2>4. CASE OpenSource \/ Rename \/ SyncRename \/ IdentityHolds \/ Recheck
    BY <2>4, <1>q DEF OpenSource, Rename, SyncRename, IdentityHolds, Recheck
  <2>5. CASE RollBack
    BY <2>5 DEF RollBack, TaskSound, Renaming, OpSound, Stage, Destructive
  <2>6. CASE MarkQuarantined
    BY <2>6 DEF MarkQuarantined, TaskSound, Renaming, OpSound, Stage
  <2>7. CASE Seal
    BY <2>7, <1>p DEF Seal, Destructive, EndPass, Stage, Listed
  <2> QED  BY <1>3, <2>1, <2>2, <2>3, <2>4, <2>5, <2>6, <2>7 DEF Retiring
<1>4. CASE Verifying
  <2>1. CASE \E b \in Bundles : VerifyQuarantined(b)
    BY <2>1, <1>q DEF VerifyQuarantined
  <2>2. CASE \E b \in Bundles : VerifyRefused(b)
    BY <2>2, <1>g DEF VerifyRefused
  <2>3. CASE RetireCatalog
    BY <2>3, <1>p DEF RetireCatalog, Destructive, EndPass, Stage, Listed
  <2>4. CASE BeginPurge
    BY <2>4, <1>p DEF BeginPurge, Destructive, EndPass, OpSound, Stage, Listed
  <2> QED  BY <1>4, <2>1, <2>2, <2>3, <2>4 DEF Verifying
<1>5. CASE Purging
  <2>1. CASE (\E b \in Remote : SkipRemote(b)) \/ \E f \in Files : Unlink(f)
    BY <2>1, <1>q DEF SkipRemote, Unlink
  <2>2. CASE \E b \in Local : BeginBundlePurge(b) \/ AbsentIsPurged(b)
    <3> PICK b \in Local, x \in {"PURGING", "PURGED"} :
              journal' = [journal EXCEPT ![b].state = x] /\ UNCHANGED <<op, catalog>>
      BY <2>2 DEF BeginBundlePurge, AbsentIsPurged
    <3>1. \A c \in Local : journal'[c].ino = journal[c].ino
      OBVIOUS
    <3> QED  BY <3>1, <1>q
  <2>3. CASE \E b \in Local : Claim(b) \/ ResumePurge(b) \/ VerifyPurged(b)
    BY <2>3, <1>q DEF Claim, ResumePurge, VerifyPurged
  <2>4. CASE \E b \in Local : PurgeRefused(b) \/ Remains(b)
    BY <2>4, <1>g DEF PurgeRefused, Remains
  <2>5. CASE SyncClaim \/ SyncFiles \/ RemoveRoot \/ SyncRoot
    BY <2>5, <1>q DEF SyncClaim, SyncFiles, RemoveRoot, SyncRoot
  <2>6. CASE MarkPurged
    BY <2>6, <1>q DEF MarkPurged
  <2>7. CASE EndPurge
    BY <2>7, <1>p DEF EndPurge, Destructive, EndPass, OpSound, Stage, Listed
  <2>8. CASE Complete
    BY <2>8 DEF Complete, OpSound, Stage, Listed
  <2> QED  BY <1>5, <2>1, <2>2, <2>3, <2>4, <2>5, <2>6, <2>7, <2>8 DEF Purging
<1>6. CASE CallFails
  BY <1>6, <1>g DEF CallFails
<1>7. CASE Kill \/ PowerLoss \/ \E b \in Local, e \in {Other, NoEntry} : AdminSets(b, e)
  BY <1>7, <1>q DEF Kill, PowerLoss, AdminSets
<1>8. CASE UNCHANGED vars
  BY <1>8, <1>q DEF vars
<1> QED  BY <1>1, <1>2, <1>3, <1>4, <1>5, <1>6, <1>7, <1>8 DEF Next, Driver

\* Between two steps on a bundle nobody undoes what the first established.
LEMMA TaskStep == TypeOK /\ OpSound /\ TaskSound /\ DisksSound /\ [Next]_vars => TaskSound'
<1> SUFFICES ASSUME TypeOK, OpSound, TaskSound, DisksSound, [Next]_vars
             PROVE  TaskSound'
  OBVIOUS
<1> USE DEF TypeOK, At, Goto, Turn, Passed, Bundles, Renaming, Removing, There, B
<1>i. ASSUME task'.at \notin Renaming \cup Removing
      PROVE  TaskSound'
  BY <1>i DEF TaskSound
<1>g. ASSUME GiveUp
      PROVE  TaskSound'
  BY <1>g, <1>i DEF GiveUp, Idle
<1>p. ASSUME NEW state, EndPass(state)
      PROVE  TaskSound'
  BY <1>p, <1>i DEF EndPass
<1>t. ASSUME NEW b, Passed(b)
      PROVE  TaskSound'
  BY <1>t, <1>i DEF Idle
<1>1. CASE Execute \/ Recover \/ BeginRetirement \/ AbortPlanned \/ BeginPass
  BY <1>1, <1>i DEF Execute, Recover, BeginRetirement, AbortPlanned, BeginPass, Idle
<1>2. CASE Retiring
  <2>1. CASE \E b \in Remote : RemoteDelete(b)
    BY <2>1, <1>t DEF RemoteDelete
  <2>2. CASE \E b \in Local : LookAgain(b)
    BY <2>2, <1>t DEF LookAgain
  <2>3. CASE \E b \in Local : FindSource(b) \/ FindQuarantined(b)
    <3> PICK b \in Local : FindSource(b) \/ FindQuarantined(b)
      BY <2>3
    <3>1. op.state = "RETIRING" /\ UNCHANGED <<op, journal, fs>>
      BY DEF FindSource, FindQuarantined, Retires
    <3>2. CASE FindSource(b)
      BY <3>1, <3>2 DEF FindSource, Idle, TaskSound
    <3>3. CASE FindQuarantined(b)
      BY <3>1, <3>3 DEF FindQuarantined, TaskSound
    <3> QED  BY <3>2, <3>3
  <2>4. CASE (\E b \in Local : RetireRefused(b)) \/ SourceGone \/ Reappeared \/ SealRefused
    BY <2>4, <1>g DEF RetireRefused, SourceGone, Reappeared, SealRefused
  <2>5. CASE OpenSource
    BY <2>5 DEF OpenSource, TaskSound
  <2>6. CASE Rename
    BY <2>6 DEF Rename, Move, TaskSound, Places
  <2>7. CASE SyncRename \/ IdentityHolds \/ Recheck
    BY <2>7 DEF SyncRename, IdentityHolds, Recheck, TaskSound
  <2>8. CASE RollBack
    BY <2>8, <1>i DEF RollBack, Idle
  <2>9. CASE MarkQuarantined
    BY <2>9, <1>t DEF MarkQuarantined
  <2>10. CASE Seal
    BY <2>10, <1>p DEF Seal
  <2> QED  BY <1>2, <2>1, <2>2, <2>3, <2>4, <2>5, <2>6, <2>7, <2>8, <2>9, <2>10 DEF Retiring
<1>3. CASE Verifying
  <2>1. CASE \E b \in Bundles : VerifyQuarantined(b)
    BY <2>1, <1>t DEF VerifyQuarantined
  <2>2. CASE \E b \in Bundles : VerifyRefused(b)
    BY <2>2, <1>g DEF VerifyRefused
  <2>3. CASE RetireCatalog \/ BeginPurge
    BY <2>3, <1>p DEF RetireCatalog, BeginPurge
  <2> QED  BY <1>3, <2>1, <2>2, <2>3 DEF Verifying
<1>4. CASE Purging
  <2>1. CASE \E b \in Remote : SkipRemote(b)
    BY <2>1, <1>t DEF SkipRemote
  <2>2. CASE \E b \in Local : BeginBundlePurge(b)
    BY <2>2, <1>i DEF BeginBundlePurge, Purges
  <2>3. CASE \E b \in Local : AbsentIsPurged(b) \/ VerifyPurged(b)
    BY <2>3, <1>t DEF AbsentIsPurged, VerifyPurged
  <2>4. CASE \E b \in Local : Claim(b)
    <3> PICK b \in Local : Claim(b)
      BY <2>4
    <3>1. Owned(fs[b]["quarantine"]) /\ fs[b]["purging"] = NoEntry
      BY DEF Claim, Purges, Matches, Whole, OpSound, Stage, Owned
    <3>2. fs'[b]["purging"] = fs[b]["quarantine"]
      BY DEF Claim, Move, Places
    <3> QED  BY <3>1, <3>2 DEF Claim, Purges, TaskSound, Idle
  <2>5. CASE \E b \in Local : ResumePurge(b)
    <3> PICK b \in Local : ResumePurge(b)
      BY <2>5
    <3>1. Owned(fs[b]["purging"])
      BY DEF ResumePurge, Purges, Matches, OpSound, Stage, Owned
    <3> QED  BY <3>1 DEF ResumePurge, Purges, TaskSound, Idle
  <2>6. CASE \E b \in Local : PurgeRefused(b) \/ Remains(b)
    BY <2>6, <1>g DEF PurgeRefused, Remains
  <2>7. CASE SyncClaim \/ SyncFiles \/ SyncRoot
    BY <2>7 DEF SyncClaim, SyncFiles, SyncRoot, TaskSound
  <2>8. CASE \E f \in Files : Unlink(f)
    <3> PICK f \in Files : Unlink(f)
      BY <2>8
    <3>1. B \in Local /\ Owned(fs[B]["purging"])
      BY DEF Unlink, TaskSound
    <3>2. fs[B]["purging"] \in Directories
      BY <3>1 DEF Owned, Entries, Places
    <3>3. [fs[B]["purging"] EXCEPT !.files = @ \ {f}] \in Directories
      BY <3>2 DEF Directories
    <3>4. fs'[B]["purging"] = [fs[B]["purging"] EXCEPT !.files = @ \ {f}]
      BY <3>1 DEF Unlink, Places
    <3>5. Owned(fs'[B]["purging"])
      BY <3>1, <3>2, <3>3, <3>4, NothingApart DEF Owned, Directories
    <3> QED  BY <3>1, <3>5 DEF Unlink, TaskSound
  <2>9. CASE RemoveRoot
    <3>1. B \in Local /\ Owned(fs[B]["purging"]) /\ OnlyOnce(fs[B])
      BY <2>9 DEF RemoveRoot, TaskSound, DisksSound, DirsSound
    <3>2. \A p \in Places : fs'[B][p] = IF p = "purging" THEN NoEntry ELSE fs[B][p]
      BY <2>9, <3>1 DEF RemoveRoot, Places
    <3>3. ~HasOwn(fs'[B])
      BY <3>1, <3>2 DEF HasOwn, Owned, OnlyOnce, Places
    <3> QED  BY <2>9, <3>1, <3>3 DEF RemoveRoot, TaskSound
  <2>10. CASE MarkPurged
    BY <2>10, <1>t DEF MarkPurged
  <2>11. CASE EndPurge
    BY <2>11, <1>p DEF EndPurge
  <2>12. CASE Complete
    BY <2>12, <1>i DEF Complete, Idle
  <2> QED  BY <1>4, <2>1, <2>2, <2>3, <2>4, <2>5, <2>6, <2>7, <2>8, <2>9, <2>10, <2>11, <2>12 DEF Purging
<1>5. CASE CallFails
  BY <1>5, <1>g DEF CallFails
<1>6. CASE Kill \/ PowerLoss
  BY <1>6, <1>i DEF Kill, PowerLoss, Idle
<1>7. CASE \E b \in Local, e \in {Other, NoEntry} : AdminSets(b, e)
  <2> PICK b \in Local, e \in {Other, NoEntry} : AdminSets(b, e)
    BY <1>7
  <2>1. ASSUME NEW c \in Local, NEW p \in Places
        PROVE  fs'[c][p] = IF c = b /\ p = "source" THEN e ELSE fs[c][p]
    BY DEF AdminSets
  <2>2. ~Owned(e)
    BY DEF Other, Owned
  <2>3. UNCHANGED <<op, journal, task>>
    BY DEF AdminSets
  <2> QED  BY <2>1, <2>2, <2>3 DEF TaskSound, HasOwn, Places
<1>8. CASE UNCHANGED vars
  BY <1>8 DEF vars, TaskSound
<1> QED  BY <1>1, <1>2, <1>3, <1>4, <1>5, <1>6, <1>7, <1>8 DEF Next, Driver

-----------------------------------------------------------------------------
(* The directories                                                         *)

\* A bundle is under one name again after it was moved to a free one.
LEMMA MoveSound ==
    ASSUME NEW names \in [Places -> Entries], NEW durable, NEW p \in Places, NEW q \in Places,
           p # q, names[p] # NoEntry, names[q] = NoEntry, DirsSound(names, durable),
           NEW moved, moved = [names EXCEPT ![q] = names[p], ![p] = NoEntry]
    PROVE  /\ DirsSound(moved, durable) /\ DirsSound(moved, moved)
           /\ Untouched(names) => Untouched(moved)
           /\ Emptied(names) => Emptied(moved)
<1>1. \A x \in Places : moved[x] = IF x = p THEN NoEntry ELSE IF x = q THEN names[p] ELSE names[x]
  OBVIOUS
<1>2. OnlyOnce(moved) /\ OthersWhole(moved)
  BY <1>1 DEF DirsSound, OnlyOnce, OthersWhole, Owned
<1>3. HasOwn(names) => HasOwn(moved)
  BY <1>1 DEF HasOwn, Owned
<1>4. ~HasOwn(moved) => Emptied(moved)
  BY DEF HasOwn, Emptied
<1>5. /\ Untouched(names) => Untouched(moved)
      /\ Emptied(names) => Emptied(moved)
  BY <1>1 DEF Untouched, Emptied, Owned
<1> QED  BY <1>2, <1>3, <1>4, <1>5 DEF DirsSound

LEMMA SyncSound ==
    ASSUME NEW names, NEW durable, DirsSound(names, durable)
    PROVE  DirsSound(names, names)
  BY DEF DirsSound, HasOwn, Emptied

\* What a loss of power leaves is sound, and no fuller than what there was.
LEMMA LossSound ==
    ASSUME TypeOK, NEW b \in Local, NEW s \in Survivors(b), DirsSound(fs[b], stable[b])
    PROVE  /\ DirsSound(s, s)
           /\ Untouched(fs[b]) /\ Untouched(stable[b]) => Untouched(s)
           /\ Standing(fs[b]) /\ Standing(stable[b]) => Standing(s)
           /\ Emptied(fs[b]) /\ Emptied(stable[b]) => Emptied(s)
<1> DEFINE left == FilesOf(fs[b], "own")
<1> PICK names \in {stable[b], fs[b]}, back \in SUBSET FilesOf(stable[b], "own") :
        s = Survivor(b, names, back)
  BY DEF Survivors
<1>1. [ino |-> "own", files |-> left \cup back] # NoEntry
  <2>1. ASSUME NEW n \in [Places -> Entries]
        PROVE  FilesOf(n, "own") \subseteq Files
    BY DEF FilesOf, Entries, Directories
  <2> QED  BY <2>1, NothingApart DEF TypeOK, Directories
<1>2. \A p \in Places : s[p] = IF Owned(names[p])
                              THEN [ino |-> "own", files |-> left \cup back] ELSE names[p]
  BY DEF Survivor, Owned
<1>3. OnlyOnce(s) /\ OthersWhole(s)
  BY <1>2, <1>1 DEF DirsSound, OnlyOnce, OthersWhole, Owned
<1>4. Standing(fs[b]) /\ Standing(stable[b]) => Standing(s)
  BY <1>2, <1>1 DEF Standing, Places
<1>5. ASSUME NEW n
      PROVE  Emptied(n) => FilesOf(n, "own") = {}
  BY DEF Emptied, Owned, FilesOf
<1>6. Emptied(fs[b]) /\ Emptied(stable[b]) => Emptied(s)
  BY <1>2, <1>1, <1>5 DEF Emptied, Owned
<1>7. ASSUME Untouched(fs[b]), Untouched(stable[b])
      PROVE  Untouched(s)
  <2>1. FilesOf(stable[b], "own") \subseteq Files /\ left \subseteq Files
    BY <1>7 DEF FilesOf, Untouched, Owned
  <2>2. CASE HasOwn(fs[b])
    <3>1. left = Files
      BY <2>2, <2>1, <1>7 DEF HasOwn, FilesOf, Untouched, Owned
    <3>2. left \cup back = Files
      BY <3>1, <2>1
    <3>3. \A p \in Places : Owned(s[p]) => Owned(names[p])
      BY <1>2
    <3>4. \A p \in Places : Owned(s[p]) => s[p].files = left \cup back
      BY <3>3, <1>2
    <3> HIDE DEF left
    <3> QED  BY <3>2, <3>4 DEF Untouched
  <2>3. CASE ~HasOwn(fs[b])
    <3>1. Emptied(stable[b])
      BY <2>3 DEF DirsSound
    <3>2. ASSUME NEW p \in Places, Owned(s[p])
          PROVE  s[p].files = Files
      <4>1. Owned(names[p]) /\ s[p].files = left \cup back
        BY <3>2, <1>2
      <4>2. names = stable[b]
        BY <4>1, <2>3 DEF HasOwn
      <4>3. Files = {}
        BY <4>1, <4>2, <3>1, <1>7 DEF Emptied, Untouched
      <4> QED  BY <4>1, <4>3, <2>1
    <3> QED  BY <3>2 DEF Untouched
  <2> QED  BY <2>2, <2>3
<1>8. ~HasOwn(s) => Emptied(s)
  BY DEF HasOwn, Emptied
<1> QED  BY <1>3, <1>4, <1>6, <1>7, <1>8 DEF DirsSound

\* No step and no loss of power takes from a listed bundle or brings back a
\* purged one.
LEMMA DiskStep ==
    /\ TypeOK /\ OpSound /\ TaskSound /\ DisksSound /\ BundlesKept /\ PurgedSound
    /\ [Next]_vars /\ Forward
    => DisksSound' /\ BundlesKept' /\ PurgedSound'
<1> SUFFICES ASSUME TypeOK, OpSound, TaskSound, DisksSound, BundlesKept, PurgedSound,
                    [Next]_vars, Forward
             PROVE  DisksSound' /\ BundlesKept' /\ PurgedSound'
  OBVIOUS
<1> DEFINE Marks == \A c \in Local : journal'[c].state = "PURGED" => journal[c].state = "PURGED"
           Kept(b) == /\ Untouched(fs[b]) /\ Untouched(stable[b])
                      /\ edits = 0 => Standing(fs[b]) /\ Standing(stable[b])
           KeptNext(b) == /\ Untouched(fs'[b]) /\ Untouched(stable'[b])
                          /\ edits' = 0 => Standing(fs'[b]) /\ Standing(stable'[b])
           Void(b)     == Emptied(fs[b]) /\ Emptied(stable[b])
           VoidNext(b) == Emptied(fs'[b]) /\ Emptied(stable'[b])
<1>d. ASSUME Marks,
             \A b \in Local : /\ DirsSound(fs'[b], stable'[b])
                              /\ Stage \in BeforePurge /\ Kept(b) => KeptNext(b)
                              /\ Void(b) => VoidNext(b)
      PROVE  DisksSound' /\ BundlesKept' /\ PurgedSound'
  BY <1>d DEF DisksSound, BundlesKept, PurgedSound, Forward
<1>s. \A b \in Local : DirsSound(fs[b], stable[b])
  BY DEF DisksSound
<1>n. ASSUME UNCHANGED <<fs, stable, edits>>, Marks
      PROVE  DisksSound' /\ BundlesKept' /\ PurgedSound'
  BY <1>n, <1>d, <1>s
<1>b. ASSUME NEW b \in Local, UNCHANGED <<journal, edits>>,
             \A c \in Local \ {b} : fs'[c] = fs[c] /\ stable'[c] = stable[c],
             DirsSound(fs'[b], stable'[b]),
             Stage \in BeforePurge /\ Kept(b) => KeptNext(b),
             Void(b) => VoidNext(b)
      PROVE  DisksSound' /\ BundlesKept' /\ PurgedSound'
  <2>1. ASSUME NEW c \in Local
        PROVE  /\ DirsSound(fs'[c], stable'[c])
               /\ Stage \in BeforePurge /\ Kept(c) => KeptNext(c)
               /\ Void(c) => VoidNext(c)
    BY <1>b, <1>s
  <2> QED  BY <2>1, <1>b, <1>d
<1>m. ASSUME NEW b \in Local, NEW p \in Places, NEW q \in Places, p # q, There(b, p), ~There(b, q),
             Move(b, p, q)
      PROVE  /\ fs'[b][q] # NoEntry
             /\ \A c \in Local \ {b} : fs'[c] = fs[c]
             /\ DirsSound(fs'[b], stable[b]) /\ DirsSound(fs'[b], fs'[b])
             /\ Untouched(fs[b]) => Untouched(fs'[b])
             /\ Emptied(fs[b]) => Emptied(fs'[b])
  <2>1. /\ fs'[b] = [fs[b] EXCEPT ![q] = fs[b][p], ![p] = NoEntry]
        /\ \A c \in Local \ {b} : fs'[c] = fs[c]
    BY <1>m DEF Move, TypeOK
  <2>2. fs[b] \in [Places -> Entries]
    BY DEF TypeOK
  <2>3. fs'[b][q] = fs[b][p]
    BY <2>1, <2>2, <1>m
  <2> QED  BY <2>1, <2>2, <2>3, <1>m, <1>s, MoveSound DEF There
<1>p. op.state = "PURGING" => Stage \notin BeforePurge
  BY DEF Stage, BeforePurge, Listed
<1>1. CASE Execute \/ Recover \/ BeginRetirement \/ AbortPlanned \/ BeginPass
  BY <1>1, <1>n DEF Execute, Recover, BeginRetirement, AbortPlanned, BeginPass, counters
<1>g. ASSUME GiveUp, UNCHANGED edits
      PROVE  DisksSound' /\ BundlesKept' /\ PurgedSound'
  BY <1>g, <1>n DEF GiveUp
<1>2. CASE Retiring
  <2> USE DEF counters, TaskSound, Renaming, At
  <2>1. CASE \E b \in Remote : RemoteDelete(b)
    <3>1. Marks
      BY <2>1, NamesApart DEF RemoteDelete, TypeOK, Bundles
    <3> QED  BY <3>1, <2>1, <1>n DEF RemoteDelete
  <2>2. CASE \E b \in Local : LookAgain(b) \/ FindSource(b) \/ FindQuarantined(b)
    BY <2>2, <1>n DEF LookAgain, FindSource, FindQuarantined
  <2>3. CASE (\E b \in Local : RetireRefused(b)) \/ SourceGone \/ Reappeared \/ SealRefused
    BY <2>3, <1>g DEF RetireRefused, SourceGone, Reappeared, SealRefused
  <2>4. CASE OpenSource \/ IdentityHolds \/ Recheck \/ Seal
    BY <2>4, <1>n DEF OpenSource, IdentityHolds, Recheck, Seal, EndPass
  <2>5. CASE Rename
    <3>1. /\ B \in Local /\ There(B, "source") /\ ~There(B, "quarantine")
          /\ Move(B, "source", "quarantine") /\ UNCHANGED <<journal, stable, edits>>
      BY <2>5 DEF Rename
    <3>2. fs'[B]["quarantine"] # NoEntry
      BY <3>1, <1>m DEF Places
    <3>3. KeptNext(B) \/ ~Kept(B)
      BY <3>1, <3>2, <1>m DEF Standing, Places
    <3> QED  BY <3>1, <3>3, <1>m, <1>b DEF Places
  <2>6. CASE SyncRename
    <3>1. /\ B \in Local /\ UNCHANGED <<journal, fs, edits>> /\ stable'[B] = fs[B]
          /\ \A c \in Local \ {B} : stable'[c] = stable[c]
      BY <2>6 DEF SyncRename, Sync, TypeOK
    <3>2. DirsSound(fs'[B], stable'[B])
      BY <3>1, <1>s, SyncSound
    <3> QED  BY <3>1, <3>2, <1>b
  <2>7. CASE RollBack
    <3>1. CASE UNCHANGED <<fs, stable>>
      BY <2>7, <3>1, <1>n DEF RollBack
    <3>2. CASE ~UNCHANGED <<fs, stable>>
      <4>1. /\ B \in Local /\ There(B, "quarantine") /\ ~There(B, "source")
            /\ Move(B, "quarantine", "source") /\ UNCHANGED <<journal, edits>>
        BY <2>7, <3>2 DEF RollBack
      <4>2. /\ stable'[B] = fs'[B]
            /\ \A c \in Local \ {B} : stable'[c] = stable[c]
        BY <2>7, <3>2, <4>1 DEF RollBack, TypeOK
      <4>3. fs'[B]["source"] # NoEntry
        BY <4>1, <1>m DEF Places
      <4>4. /\ DirsSound(fs'[B], stable'[B])
            /\ Untouched(fs[B]) => Untouched(fs'[B])
            /\ Emptied(fs[B]) => Emptied(fs'[B])
            /\ \A c \in Local \ {B} : fs'[c] = fs[c]
        BY <4>1, <4>2, <1>m DEF Places
      <4>5. KeptNext(B) \/ ~Kept(B)
        BY <4>2, <4>3, <4>4 DEF Standing
      <4> QED  BY <4>1, <4>2, <4>4, <4>5, <1>b
    <3> QED  BY <3>1, <3>2
  <2>8. CASE MarkQuarantined
    <3>1. Marks
      BY <2>8 DEF MarkQuarantined, TypeOK, Bundles
    <3> QED  BY <3>1, <2>8, <1>n DEF MarkQuarantined
  <2> QED  BY <1>2, <2>1, <2>2, <2>3, <2>4, <2>5, <2>6, <2>7, <2>8 DEF Retiring
<1>3. CASE Verifying
  <2>1. CASE \E b \in Bundles : VerifyQuarantined(b)
    BY <2>1, <1>n DEF VerifyQuarantined, counters
  <2>2. CASE \E b \in Bundles : VerifyRefused(b)
    BY <2>2, <1>g DEF VerifyRefused, counters
  <2>3. CASE RetireCatalog \/ BeginPurge
    BY <2>3, <1>n DEF RetireCatalog, BeginPurge, EndPass, counters
  <2> QED  BY <1>3, <2>1, <2>2, <2>3 DEF Verifying
<1>a. ASSUME NEW b \in Local, Void(b), UNCHANGED <<fs, stable, edits>>,
             journal' = [journal EXCEPT ![b].state = "PURGED"]
      PROVE  DisksSound' /\ BundlesKept' /\ PurgedSound'
  <2>1. \A c \in Local \ {b} : journal'[c].state = "PURGED" => journal[c].state = "PURGED"
    BY <1>a DEF TypeOK, Bundles
  <2>2. PurgedSound'
    BY <2>1, <1>a DEF PurgedSound
  <2> QED  BY <2>2, <1>a, <1>s DEF DisksSound, BundlesKept, Forward
<1>4. CASE Purging
  <2> USE DEF counters
  <2>1. CASE (\E b \in Remote : SkipRemote(b)) \/ EndPurge \/ Complete
    BY <2>1, <1>n DEF SkipRemote, EndPurge, EndPass, Complete
  <2>2. CASE \E b \in Local : BeginBundlePurge(b)
    <3>1. Marks
      BY <2>2 DEF BeginBundlePurge, TypeOK, Bundles
    <3> QED  BY <3>1, <2>2, <1>n DEF BeginBundlePurge
  <2>3. CASE \E b \in Local : AbsentIsPurged(b)
    <3> PICK b \in Local : AbsentIsPurged(b)
      BY <2>3
    <3>1. ~HasOwn(fs[b])
      BY DEF AbsentIsPurged, Absent, There, HasOwn, Owned, Places
    <3>2. Void(b)
      BY <3>1, <1>s DEF DirsSound, HasOwn, Emptied
    <3> QED  BY <3>2, <1>a DEF AbsentIsPurged
  <2>4. CASE \E b \in Local : Claim(b)
    <3> PICK b \in Local : Claim(b)
      BY <2>4
    <3>1. /\ There(b, "quarantine") /\ ~There(b, "purging") /\ Move(b, "quarantine", "purging")
          /\ UNCHANGED <<journal, stable, edits>> /\ Stage \notin BeforePurge
      BY <1>p DEF Claim, Whole, Purges
    <3> QED  BY <3>1, <1>m, <1>b DEF Places
  <2>5. CASE \E b \in Local : ResumePurge(b) \/ VerifyPurged(b)
    BY <2>5, <1>n DEF ResumePurge, VerifyPurged
  <2>6. CASE \E b \in Local : PurgeRefused(b) \/ Remains(b)
    BY <2>6, <1>g DEF PurgeRefused, Remains
  <2>7. CASE MarkPurged
    <3>1. B \in Local /\ ~HasOwn(fs[B])
      BY <2>7 DEF MarkPurged, TaskSound, At, Removing
    <3>2. Void(B)
      BY <3>1, <1>s DEF DirsSound, HasOwn, Emptied
    <3> QED  BY <3>1, <3>2, <2>7, <1>a DEF MarkPurged
  <2>w. ASSUME task.at \in Removing
        PROVE  B \in Local /\ Stage \notin BeforePurge /\ journal[B].ino = "own"
    BY <2>w, <1>p DEF TaskSound, OpSound, Stage
  <2>8. CASE SyncClaim
    <3>1. /\ B \in Local /\ UNCHANGED <<journal, fs, edits>> /\ stable'[B] = fs[B]
          /\ \A c \in Local \ {B} : stable'[c] = stable[c]
      BY <2>8, <2>w DEF SyncClaim, Sync, TypeOK, At, Removing
    <3>2. DirsSound(fs'[B], stable'[B])
      BY <3>1, <1>s, SyncSound
    <3> QED  BY <3>1, <3>2, <1>b
  <2>9. CASE \E f \in Files : Unlink(f)
    <3> PICK f \in Files : Unlink(f)
      BY <2>9
    <3> DEFINE less == [fs[B]["purging"] EXCEPT !.files = @ \ {f}]
    <3>1. /\ B \in Local /\ Stage \notin BeforePurge /\ Owned(fs[B]["purging"])
          /\ UNCHANGED <<journal, stable, edits>>
      BY <2>w DEF Unlink, TaskSound, At, Removing
    <3>2. fs[B]["purging"] \in Directories
      BY <3>1 DEF TypeOK, Owned, Entries, Places
    <3>3. /\ less \in Directories /\ less # NoEntry /\ less.ino = "own"
          /\ less.files \subseteq fs[B]["purging"].files
      BY <3>1, <3>2, NothingApart DEF Directories, Owned
    <3>4. \A p \in Places : fs'[B][p] = IF p = "purging" THEN less ELSE fs[B][p]
      BY <3>1 DEF Unlink, TypeOK, Places
    <3>5. \A c \in Local \ {B} : fs'[c] = fs[c]
      BY <3>1 DEF Unlink, TypeOK
    <3> HIDE DEF less
    <3>6. OnlyOnce(fs'[B]) /\ OthersWhole(fs'[B])
      BY <3>1, <3>3, <3>4, <1>s DEF DirsSound, OnlyOnce, OthersWhole, Owned
    <3>7. HasOwn(fs'[B])
      BY <3>3, <3>4 DEF HasOwn, Owned, Places
    <3>8. Emptied(fs[B]) => Emptied(fs'[B])
      BY <3>1, <3>3, <3>4 DEF Emptied, Owned, Places
    <3>9. DirsSound(fs'[B], stable'[B])
      BY <3>1, <3>6, <3>7, <1>s DEF DirsSound
    <3> QED  BY <3>1, <3>5, <3>8, <3>9, <1>b
  <2>10. CASE SyncFiles
    <3>1. /\ B \in Local /\ Stage \notin BeforePurge /\ Owned(fs[B]["purging"])
          /\ journal[B].ino = "own" /\ UNCHANGED <<journal, fs, edits>>
      BY <2>10, <2>w DEF SyncFiles, TaskSound, At, Removing
    <3>2. \A c \in Local \ {B} : stable'[c] = stable[c]
      BY <3>1, <2>10 DEF SyncFiles, TypeOK
    <3>3. ASSUME NEW p \in Places
          PROVE  IF Owned(stable[B][p])
                 THEN stable'[B][p] = [stable[B][p] EXCEPT !.files = Left(B)]
                 ELSE stable'[B][p] = stable[B][p]
      BY <3>1, <2>10 DEF SyncFiles, TypeOK, Owned
    <3>4. ASSUME NEW p \in Places
          PROVE  IF Owned(stable[B][p])
                 THEN Owned(stable'[B][p]) /\ stable'[B][p].files = Left(B)
                 ELSE stable'[B][p] = stable[B][p]
      <4>1. CASE Owned(stable[B][p])
        <5>1. stable[B][p] \in Directories /\ Left(B) \subseteq Files
          BY <4>1, <3>1 DEF TypeOK, Entries, Owned, Left, Directories, Places
        <5>2. /\ [stable[B][p] EXCEPT !.files = Left(B)] \in Directories
              /\ [stable[B][p] EXCEPT !.files = Left(B)].ino = "own"
              /\ [stable[B][p] EXCEPT !.files = Left(B)].files = Left(B)
          BY <5>1, <4>1 DEF Directories, Owned
        <5> QED  BY <4>1, <5>2, <3>3, NothingApart DEF Owned
      <4> QED  BY <4>1, <3>3
    <3>5. OnlyOnce(stable'[B]) /\ OthersWhole(stable'[B])
      BY <3>4, <1>s, <3>1 DEF DirsSound, OnlyOnce, OthersWhole, Owned
    <3>6. HasOwn(fs[B])
      BY <3>1 DEF HasOwn, Places
    <3>7. DirsSound(fs'[B], stable'[B])
      BY <3>1, <3>5, <3>6, <1>s DEF DirsSound
    <3>8. Void(B) => VoidNext(B)
      <4> SUFFICES ASSUME Void(B) PROVE Emptied(stable'[B])
        BY <3>1
      <4>1. Left(B) = {}
        BY <3>1 DEF Left, Emptied, Places
      <4> QED  BY <4>1, <3>4 DEF Emptied
    <3> QED  BY <3>1, <3>2, <3>7, <3>8, <1>b
  <2>11. CASE RemoveRoot
    <3>1. /\ B \in Local /\ Stage \notin BeforePurge /\ Owned(fs[B]["purging"])
          /\ UNCHANGED <<journal, stable, edits>>
      BY <2>11, <2>w DEF RemoveRoot, TaskSound, At, Removing
    <3>2. \A p \in Places : fs'[B][p] = IF p = "purging" THEN NoEntry ELSE fs[B][p]
      BY <2>11, <3>1 DEF RemoveRoot, TypeOK, Places
    <3>3. \A c \in Local \ {B} : fs'[c] = fs[c]
      BY <2>11, <3>1 DEF RemoveRoot, TypeOK
    <3>4. FilesOf(stable[B], "own") = {}
      BY <2>11, <3>1 DEF RemoveRoot, OnDisk, Owned
    <3>5. Emptied(stable[B])
      BY <3>4 DEF FilesOf, Emptied, Owned
    <3>6. OnlyOnce(fs'[B]) /\ OthersWhole(fs'[B]) /\ (Emptied(fs[B]) => Emptied(fs'[B]))
      BY <3>2, <1>s, <3>1 DEF DirsSound, OnlyOnce, OthersWhole, Emptied, Owned
    <3>7. DirsSound(fs'[B], stable'[B])
      BY <3>1, <3>5, <3>6, <1>s DEF DirsSound
    <3> QED  BY <3>1, <3>3, <3>6, <3>7, <1>b
  <2>12. CASE SyncRoot
    <3>1. B \in Local /\ Stage \notin BeforePurge /\ UNCHANGED <<journal, fs, edits>>
      BY <2>12, <2>w DEF SyncRoot, At, Removing
    <3>2. \A p \in Places : stable'[B][p] = IF p = "purging" THEN NoEntry ELSE stable[B][p]
      BY <2>12, <3>1 DEF SyncRoot, TypeOK, Places
    <3>3. \A c \in Local \ {B} : stable'[c] = stable[c]
      BY <2>12, <3>1 DEF SyncRoot, TypeOK
    <3>4. /\ OnlyOnce(stable'[B]) /\ OthersWhole(stable'[B])
          /\ Emptied(stable[B]) => Emptied(stable'[B])
      BY <3>2, <1>s, <3>1 DEF DirsSound, OnlyOnce, OthersWhole, Emptied, Owned
    <3>5. DirsSound(fs'[B], stable'[B])
      BY <3>1, <3>4, <1>s DEF DirsSound
    <3> QED  BY <3>1, <3>3, <3>4, <3>5, <1>b
  <2> QED  BY <1>4, <2>1, <2>2, <2>3, <2>4, <2>5, <2>6, <2>7, <2>8, <2>9, <2>10, <2>11, <2>12 DEF Purging
<1>5. CASE CallFails
  BY <1>5, <1>g DEF CallFails
<1>6. CASE Kill
  BY <1>6, <1>n DEF Kill
<1>7. CASE PowerLoss
  <2>1. ASSUME NEW b \in Local
        PROVE  /\ fs'[b] \in Survivors(b) /\ stable'[b] = fs'[b]
               /\ UNCHANGED <<journal, edits>>
    BY <1>7 DEF PowerLoss
  <2>2. ASSUME NEW b \in Local
        PROVE  /\ DirsSound(fs'[b], stable'[b])
               /\ Stage \in BeforePurge /\ Kept(b) => KeptNext(b)
               /\ Void(b) => VoidNext(b)
    BY <2>1, <1>s, LossSound
  <2>3. Marks
    BY <1>7 DEF PowerLoss
  <2> QED  BY <2>2, <2>3, <1>d
<1>8. CASE \E b \in Local, e \in {Other, NoEntry} : AdminSets(b, e)
  <2> PICK b \in Local, e \in {Other, NoEntry} : AdminSets(b, e)
    BY <1>8
  <2>1. \A p \in Places : fs'[b][p] = IF p = "source" THEN e ELSE fs[b][p]
    BY DEF AdminSets, TypeOK, Places
  <2>2. \A c \in Local \ {b} : fs'[c] = fs[c] /\ stable'[c] = stable[c]
    BY DEF AdminSets, TypeOK
  <2>3. stable'[b] = fs'[b] /\ UNCHANGED journal /\ edits' # 0
    BY DEF AdminSets, TypeOK
  <2>4. ~Owned(e) /\ (e # NoEntry => e.files = Files)
    BY DEF Other, Owned
  <2>5. /\ OnlyOnce(fs'[b]) /\ OthersWhole(fs'[b]) /\ (~HasOwn(fs'[b]) => Emptied(fs'[b]))
        /\ Untouched(fs[b]) => Untouched(fs'[b])
        /\ Emptied(fs[b]) => Emptied(fs'[b])
    BY <2>1, <2>4, <1>s DEF DirsSound, OnlyOnce, OthersWhole, HasOwn, Emptied, Untouched, Owned
  <2>6. ASSUME NEW c \in Local
        PROVE  /\ DirsSound(fs'[c], stable'[c])
               /\ Stage \in BeforePurge /\ Kept(c) => KeptNext(c)
               /\ Void(c) => VoidNext(c)
    BY <2>2, <2>3, <2>5, <1>s DEF DirsSound
  <2> QED  BY <2>3, <2>6, <1>d
<1>9. CASE UNCHANGED vars
  BY <1>9, <1>n DEF vars, counters
<1> QED  BY <1>1, <1>2, <1>3, <1>4, <1>5, <1>6, <1>7, <1>8, <1>9 DEF Next, Driver

-----------------------------------------------------------------------------
(* The theorems                                                            *)

LEMMA BInvAlways == Spec => []BInv
<1>1. BInv /\ [Next]_vars => BInv'
  BY TypeStep, OpStep, TaskStep, DiskStep DEF BInv
<1> QED  BY InitBInv, <1>1, PTL DEF Spec

\* The journal, the driver and the directories have their types.
THEOREM ReclaimTypeCorrect == Spec => []TypeOK
<1>1. BInv => TypeOK
  BY DEF BInv
<1> QED  BY BInvAlways, <1>1, PTL

\* Until the catalog forgets the points every bundle stands whole, unless an
\* administrator moved it.
THEOREM ListedIsWholeAlways == Spec => []ListedIsWhole
<1>1. BInv => ListedIsWhole
  <2> SUFFICES ASSUME BInv, catalog, NEW b \in Local
               PROVE  /\ \A p \in Places : There(b, p) => Whole(b, p)
                      /\ edits = 0 => Whole(b, "source") \/ Whole(b, "quarantine")
    BY DEF ListedIsWhole
  <2>1. /\ DirsSound(fs[b], stable[b]) /\ Untouched(fs[b])
        /\ edits = 0 => Standing(fs[b])
    BY DEF BInv, DisksSound, BundlesKept, OpSound, BeforePurge
  <2>2. ASSUME NEW p \in Places, There(b, p)
        PROVE  Whole(b, p)
    <3>1. fs[b][p].ino \in {"own", "other"}
      BY <2>2 DEF BInv, TypeOK, Entries, Directories, There
    <3> QED  BY <2>1, <2>2, <3>1 DEF DirsSound, OthersWhole, Untouched, Owned, There, Whole
  <2> QED  BY <2>1, <2>2 DEF Standing, There, Places
<1> QED  BY BInvAlways, <1>1, PTL

\* No removal takes a file from a directory that is not the bundle.
THEOREM OthersKeepFilesAlways == Spec => []OthersKeepFiles
<1>1. BInv => OthersKeepFiles
  BY DEF BInv, DisksSound, DirsSound, OthersWhole, OthersKeepFiles, There, Whole
<1> QED  BY BInvAlways, <1>1, PTL

\* No loss of power brings a purged bundle back.
THEOREM PurgedForGoodAlways == Spec => []PurgedForGood
<1>1. BInv => PurgedForGood
  BY DEF BInv, PurgedSound, Emptied, Owned, PurgedForGood
<1> QED  BY BInvAlways, <1>1, PTL

=============================================================================
