-------------------------- MODULE ReplicaQueue_proofs --------------------------
(***************************************************************************)
(* Theorems about the receiver of replicas with any sender, and about the  *)
(* replica queue together with it.                                         *)
(*                                                                         *)
(* The first part is for every number of points, transfers and             *)
(* destinations, every set of requests, and kills and file-system errors   *)
(* at every step.  What every step of the receiver and of a sender keeps   *)
(* is stated apart from the requests (AnyStep), for the proofs about       *)
(* senders.  ReceiverInv says what a call that holds the publish lock has  *)
(* established.                                                            *)
(*                                                                         *)
(* The second part is about the queue of this sender, for any              *)
(* chains, destinations, attempts, retries, crashes and outages, and       *)
(* whether or not retries overlap an update and answers are lost.          *)
(*                                                                         *)
(* QInv ties the program counter of the sender to what it claimed, to the  *)
(* call it waits for and to the staging of its transfer (CallsSound), and  *)
(* says of every copy of a SUCCESS, in the row, in what was read of it or  *)
(* in an answer not yet stored, that it is true (SuccessHeld).  RowsInHand *)
(* says that what was read of a row is still what is stored; only a retry  *)
(* in between breaks it.  FirstTry is about behaviours without a retry: a  *)
(* replica whose success or deletion is known to the sender has no         *)
(* publication under way.                                                  *)
(***************************************************************************)
EXTENDS ReplicaQueue, ReceiverService, TLAPS

-----------------------------------------------------------------------------
(* The receiver with any sender.                                           *)

\* Calls carry a transfer id where one is published.
Proper(c) == c \in Calls /\ (c.kind = "PUBLISH" => c.id \in Tasks)
QueueProper == \A c \in queue : Proper(c)

\* What a call that holds the publish lock of d has established: publication
\* has seen no record of the point and one of its parent; deletion has seen a
\* record, and has removed the bundle before it unlinks the record.
PublishSound(d, c, s) ==
    /\ Proper(c) /\ c.kind = "PUBLISH" /\ c.dest = d
    /\ ~Published(d, c.point)
    /\ Parent[c.point] # 0 => Published(d, Parent[c.point])
    /\ s = "move" => Stage(c) = "INTENT"
    /\ s = "mark" => Stage(c) = "MOVED" /\ Bundle(c) = "WHOLE"

DeleteSound(d, c, s) ==
    /\ Proper(c) /\ c.kind = "DELETE" /\ c.dest = d
    /\ Published(d, c.point)
    /\ s = "unlink" => Bundle(c) = "NONE"

Sound(d, c, s) ==
    IF s \in {"place", "move", "mark"} THEN PublishSound(d, c, s) ELSE DeleteSound(d, c, s)

ServingSound ==
    \A d \in Dests : \A c \in Calls : \A s \in Steps :
        serving[d] = [call |-> c, step |-> s] => Sound(d, c, s)

\* A bundle without a record is whole and belongs to a transfer that was moved.
Resumable(d, p) == bundle[d][p] = "WHOLE" /\ \E n \in Tasks : stage[<<p, d, n>>] = "MOVED"
UnlistedResumable ==
    \A d \in Dests, p \in Points :
        bundle[d][p] # "NONE" /\ ~Published(d, p) => Resumable(d, p)

ReceiverInv == ReceiverTypeOK /\ QueueProper /\ ServingSound /\ UnlistedResumable

-----------------------------------------------------------------------------
\* An idle receiver serves no call, and NoCall is none.
LEMMA IdleIsNoCall ==
    /\ NoCall \notin Calls
    /\ Idle \notin [call : Calls, step : Steps]
BY DEF NoCall, Calls, Idle, Steps

\* A call at a step is one that ServingSound speaks of.
LEMMA ServedIsSound ==
    ASSUME ReceiverInv, NEW c \in Calls, NEW s \in Steps, At(c, s)
    PROVE  Sound(c.dest, c, s)
<1>1. c.dest \in Dests
  BY DEF Calls
<1> QED BY <1>1 DEF ReceiverInv, ServingSound, At

LEMMA InitSound == ReceiverInit => ReceiverInv
<1> SUFFICES ASSUME ReceiverInit PROVE ReceiverInv
  OBVIOUS
<1>1. ReceiverTypeOK
  BY DEF ReceiverInit, ReceiverTypeOK, Stages, NoTask, Idle, NoCall
<1>2. QueueProper
  BY DEF ReceiverInit, QueueProper
<1>3. ServingSound
  BY DEF ReceiverInit, ServingSound, Idle, Steps
<1>4. UnlistedResumable
  BY DEF ReceiverInit, UnlistedResumable
<1> QED BY <1>1, <1>2, <1>3, <1>4 DEF ReceiverInv

\* Types.
LEMMA ServeTyped ==
    ASSUME ReceiverInv, NEW c \in Calls, Serve(c)
    PROVE  ReceiverTypeOK'
<1>t. ReceiverTypeOK
  BY DEF ReceiverInv
<1> USE <1>t DEF ReceiverTypeOK
<1>0. /\ c.dest \in Dests /\ c.point \in Points
      /\ \A s \in Steps : [call |-> c, step |-> s] \in [call : Calls, step : Steps]
  BY DEF Calls
<1> USE <1>0
<1>1. CASE PublishAgain(c)
  BY <1>1 DEF PublishAgain, Locks, Returns, storeVars
<1>2. CASE PublishStarts(c)
  BY <1>2 DEF PublishStarts, Locks, Goes, Returns, storeVars, Steps
<1>3. CASE WriteIntent(c)
  BY <1>3 DEF WriteIntent, Advance, Goes, Steps, Stages
<1>4. CASE ResumeMoved(c)
  BY <1>4 DEF ResumeMoved, Goes, Returns, storeVars, Steps
<1>5. CASE Move(c)
  <2>1. stage' \in [Transfers -> Stages]
    BY <1>5 DEF Move, Advance, Stages
  <2>2. bundle' \in [Dests -> [Points -> {"NONE", "WHOLE", "PARTIAL"}]]
    <3>1. bundle' = [bundle EXCEPT ![c.dest][c.point] = "WHOLE"] \/ bundle' = bundle
      BY <1>5 DEF Move, SetBundle
    <3>2. [bundle[c.dest] EXCEPT ![c.point] = "WHOLE"] \in [Points -> {"NONE", "WHOLE", "PARTIAL"}]
      BY <1>0, <1>t
    <3> QED BY <3>1, <3>2
  <2>3. /\ serving' \in [Dests -> [call : Calls, step : Steps] \cup {Idle}]
        /\ answer' \in {"none", "ok", "error"}
    BY <1>5 DEF Move, Goes, Returns, Steps
  <2> QED BY <1>5, <2>1, <2>2, <2>3 DEF Move
<1>6. CASE WriteMarker(c)
  <2>0. "mark" \in Steps
    BY DEF Steps
  <2>1. c.id \in Tasks
    BY <1>6, <2>0, ServedIsSound DEF WriteMarker, Sound, PublishSound, Proper
  <2> QED BY <1>6, <2>1 DEF WriteMarker, Returns
<1>7. CASE DeleteStarts(c)
  <2>1. Unlisted(c) \in {"ok", "error"}
    BY DEF Unlisted
  <2> QED BY <1>7, <2>1 DEF DeleteStarts, Locks, Goes, Returns, storeVars, Steps
<1>8. CASE RemoveSome(c)
  BY <1>8 DEF RemoveSome, SetBundle
<1>9. CASE RemoveAll(c)
  BY <1>9 DEF RemoveAll, SetBundle, Goes, Steps
<1>10. CASE Unlink(c)
  BY <1>10 DEF Unlink, Returns
<1>11. CASE StepFails(c)
  BY <1>11 DEF StepFails, Returns, storeVars
<1> QED BY <1>1, <1>2, <1>3, <1>4, <1>5, <1>6, <1>7, <1>8, <1>9, <1>10, <1>11 DEF Serve

-----------------------------------------------------------------------------
\* A step of a call leaves the other storages alone: it is enough to show what
\* becomes of its own.
LEMMA OthersSound ==
    ASSUME ServingSound, NEW c \in Calls,
           \A d \in Dests : d # c.dest =>
               /\ serving'[d] = serving[d] /\ bundle'[d] = bundle[d] /\ marker'[d] = marker[d]
               /\ \A p \in Points, n \in Tasks : stage'[<<p, d, n>>] = stage[<<p, d, n>>],
           \/ serving'[c.dest] = Idle
           \/ \E s \in Steps : /\ serving'[c.dest] = [call |-> c, step |-> s]
                             /\ Sound(c.dest, c, s)'
    PROVE  ServingSound'
<1> SUFFICES ASSUME NEW d \in Dests, NEW b \in Calls, NEW s \in Steps,
                    serving'[d] = [call |-> b, step |-> s]
             PROVE  Sound(d, b, s)'
  BY DEF ServingSound
<1>1. CASE d = c.dest
  <2>1. serving'[d] # Idle
    BY DEF Idle, Steps
  <2>2. PICK r \in Steps : /\ serving'[c.dest] = [call |-> c, step |-> r]
                          /\ Sound(c.dest, c, r)'
    BY <1>1, <2>1
  <2>3. b = c /\ s = r
    BY <1>1, <2>2
  <2> QED BY <1>1, <2>2, <2>3
<1>2. CASE d # c.dest
  <2>1. Sound(d, b, s)
    BY <1>2 DEF ServingSound
  <2>2. CASE s \in {"place", "move", "mark"}
    <3>1. PublishSound(d, b, s)
      BY <2>1, <2>2 DEF Sound
    <3>2. b.point \in Points /\ b.id \in Tasks /\ b.dest = d
      BY <3>1 DEF PublishSound, Proper, Calls
    <3>3. PublishSound(d, b, s)'
      BY <1>2, <3>1, <3>2 DEF PublishSound, Published, Bundle, Stage
    <3> QED BY <2>2, <3>3 DEF Sound
  <2>3. CASE s \notin {"place", "move", "mark"}
    <3>1. DeleteSound(d, b, s)
      BY <2>1, <2>3 DEF Sound
    <3>2. DeleteSound(d, b, s)'
      BY <1>2, <3>1 DEF DeleteSound, Published, Bundle
    <3> QED BY <2>3, <3>2 DEF Sound
  <2> QED BY <2>2, <2>3
<1> QED BY <1>1, <1>2

\* Of the stages only that of the call's transfer changes.
LEMMA OtherStages ==
    ASSUME ReceiverTypeOK, NEW c \in Calls, NEW s, Advance(c, s)
    PROVE  \A p \in Points, d \in Dests, n \in Tasks :
               stage'[<<p, d, n>>] =
                   IF <<p, d, n>> = <<c.point, c.dest, c.id>> THEN s ELSE stage[<<p, d, n>>]
BY DEF ReceiverTypeOK, Advance, Transfers

\* A call keeps what it and the other calls have established.
LEMMA ServeSound ==
    ASSUME ReceiverInv, NEW c \in Calls, Proper(c), Serve(c)
    PROVE  ServingSound'
<1>t. ReceiverTypeOK /\ ServingSound
  BY DEF ReceiverInv
<1>0. /\ c.dest \in Dests /\ c.point \in Points /\ c.kind \in {"PUBLISH", "DELETE"}
      /\ "place" \in Steps /\ "move" \in Steps /\ "mark" \in Steps
      /\ "remove" \in Steps /\ "unlink" \in Steps
  BY DEF Calls, Steps
<1> DEFINE Frame == \A d \in Dests : d # c.dest =>
               /\ serving'[d] = serving[d] /\ bundle'[d] = bundle[d] /\ marker'[d] = marker[d]
               /\ \A p \in Points, n \in Tasks : stage'[<<p, d, n>>] = stage[<<p, d, n>>]
           Done  == serving'[c.dest] = Idle
           On(s) == serving'[c.dest] = [call |-> c, step |-> s]
<1>f. ASSUME Frame, Done \/ \E s \in Steps : On(s) /\ Sound(c.dest, c, s)'
      PROVE  ServingSound'
  BY <1>f, <1>t, OthersSound
<1>1. CASE PublishAgain(c)
  BY <1>1, <1>0, <1>t, <1>f DEF PublishAgain, Locks, Returns, storeVars, ReceiverTypeOK
<1>2. CASE PublishStarts(c)
  <2>1. Frame
    BY <1>2, <1>0, <1>t DEF PublishStarts, Goes, Returns, storeVars, ReceiverTypeOK
  <2>2. CASE Publishable(c)
    <3>1. On("place")
      BY <1>2, <1>0, <1>t, <2>2 DEF PublishStarts, Goes, ReceiverTypeOK
    <3>2. PublishSound(c.dest, c, "place")'
      BY <1>2, <1>0, <2>2
         DEF PublishStarts, Locks, Publishable, ParentPublished, PublishSound, Published, storeVars
    <3> QED BY <2>1, <3>1, <3>2, <1>0, <1>f DEF Sound
  <2>3. CASE ~Publishable(c)
    BY <1>2, <1>0, <1>t, <2>1, <2>3, <1>f DEF PublishStarts, Returns, ReceiverTypeOK
  <2> QED BY <2>2, <2>3
<1>3. CASE WriteIntent(c)
  <2>1. \A p \in Points, d \in Dests, n \in Tasks :
               stage'[<<p, d, n>>] =
                   IF <<p, d, n>> = <<c.point, c.dest, c.id>> THEN "INTENT" ELSE stage[<<p, d, n>>]
    <3>1. Advance(c, "INTENT")
      BY <1>3 DEF WriteIntent
    <3> HIDE DEF Frame, Done, On
    <3> QED BY <1>t, <3>1 DEF ReceiverTypeOK, Advance, Transfers
  <2>2. Frame
    BY <1>3, <1>0, <1>t, <2>1 DEF WriteIntent, Goes, ReceiverTypeOK
  <2>3. On("move")
    BY <1>3, <1>0, <1>t DEF WriteIntent, Goes, ReceiverTypeOK
  <2>4. PublishSound(c.dest, c, "place")
    BY <1>3, <1>0, ServedIsSound DEF WriteIntent, Sound
  <2>5. PublishSound(c.dest, c, "move")'
    BY <1>3, <1>0, <2>1, <2>4 DEF WriteIntent, PublishSound, Proper, Published, Stage
  <2> QED BY <2>2, <2>3, <2>5, <1>0, <1>f DEF Sound
<1>4. CASE ResumeMoved(c)
  <2>1. Frame
    BY <1>4, <1>0, <1>t DEF ResumeMoved, Goes, Returns, storeVars, ReceiverTypeOK
  <2>2. CASE Bundle(c) = "WHOLE"
    <3>1. On("mark")
      BY <1>4, <1>0, <1>t, <2>2 DEF ResumeMoved, Goes, ReceiverTypeOK
    <3>2. PublishSound(c.dest, c, "place")
      BY <1>4, <1>0, ServedIsSound DEF ResumeMoved, Sound
    <3>3. PublishSound(c.dest, c, "mark")'
      BY <1>4, <2>2, <3>2 DEF ResumeMoved, PublishSound, Published, Stage, Bundle, storeVars
    <3> QED BY <2>1, <3>1, <3>3, <1>0, <1>f DEF Sound
  <2>3. CASE Bundle(c) # "WHOLE"
    BY <1>4, <1>0, <1>t, <2>1, <2>3, <1>f DEF ResumeMoved, Returns, ReceiverTypeOK
  <2> QED BY <2>2, <2>3
<1>5. CASE Move(c)
  <2>1. CASE PathFree(c)
    <3>1. \A p \in Points, d \in Dests, n \in Tasks :
               stage'[<<p, d, n>>] =
                   IF <<p, d, n>> = <<c.point, c.dest, c.id>> THEN "MOVED" ELSE stage[<<p, d, n>>]
      <4>1. Advance(c, "MOVED")
        BY <1>5, <2>1 DEF Move
      <4> HIDE DEF Frame, Done, On
      <4> QED BY <1>t, <4>1 DEF ReceiverTypeOK, Advance, Transfers
    <3>2. Frame
      BY <1>5, <1>0, <1>t, <2>1, <3>1 DEF Move, Goes, SetBundle, ReceiverTypeOK
    <3>3. On("mark")
      BY <1>5, <1>0, <1>t, <2>1 DEF Move, Goes, ReceiverTypeOK
    <3>4. PublishSound(c.dest, c, "move")
      BY <1>5, <1>0, ServedIsSound DEF Move, Sound
    <3>5. bundle'[c.dest][c.point] = "WHOLE"
      BY <1>5, <1>0, <1>t, <2>1 DEF Move, SetBundle, ReceiverTypeOK
    <3>6. PublishSound(c.dest, c, "mark")'
      BY <1>5, <1>0, <3>1, <3>4, <3>5 DEF Move, PublishSound, Proper, Published, Stage, Bundle
    <3> QED BY <3>2, <3>3, <3>6, <1>0, <1>f DEF Sound
  <2>2. CASE ~PathFree(c)
    <3>1. Frame /\ Done
      BY <1>5, <1>0, <1>t, <2>2 DEF Move, Returns, ReceiverTypeOK
    <3> QED BY <3>1, <1>f
  <2> QED BY <2>1, <2>2
<1>6. CASE WriteMarker(c)
  <2>1. Frame /\ Done
    BY <1>6, <1>0, <1>t DEF WriteMarker, Returns, ReceiverTypeOK
  <2> QED BY <2>1, <1>f
<1>7. CASE DeleteStarts(c)
  <2>1. Frame
    BY <1>7, <1>0, <1>t DEF DeleteStarts, Goes, Returns, storeVars, ReceiverTypeOK
  <2>2. CASE Published(c.dest, c.point)
    <3>1. On("remove")
      BY <1>7, <1>0, <1>t, <2>2 DEF DeleteStarts, Goes, ReceiverTypeOK
    <3>2. DeleteSound(c.dest, c, "remove")'
      BY <1>7, <1>0, <2>2 DEF DeleteStarts, Locks, DeleteSound, Published, storeVars
    <3> QED BY <2>1, <3>1, <3>2, <1>0, <1>f DEF Sound
  <2>3. CASE ~Published(c.dest, c.point)
    <3>1. Done
      BY <1>7, <1>0, <1>t, <2>3 DEF DeleteStarts, Returns, ReceiverTypeOK
    <3> QED BY <2>1, <3>1, <1>f
  <2> QED BY <2>2, <2>3
<1>8. CASE RemoveSome(c)
  <2>1. Frame
    BY <1>8, <1>0, <1>t DEF RemoveSome, SetBundle, ReceiverTypeOK
  <2>2. On("remove")
    BY <1>8, <1>0 DEF RemoveSome, At
  <2>3. DeleteSound(c.dest, c, "remove")
    BY <1>8, <1>0, ServedIsSound DEF RemoveSome, Sound
  <2>4. DeleteSound(c.dest, c, "remove")'
    BY <1>8, <2>3 DEF RemoveSome, DeleteSound, Published
  <2> QED BY <2>1, <2>2, <2>4, <1>0, <1>f DEF Sound
<1>9. CASE RemoveAll(c)
  <2>1. Frame
    BY <1>9, <1>0, <1>t DEF RemoveAll, Goes, SetBundle, ReceiverTypeOK
  <2>2. On("unlink")
    BY <1>9, <1>0, <1>t DEF RemoveAll, Goes, ReceiverTypeOK
  <2>3. DeleteSound(c.dest, c, "remove")
    BY <1>9, <1>0, ServedIsSound DEF RemoveAll, Sound
  <2>4. bundle'[c.dest][c.point] = "NONE"
    BY <1>9, <1>0, <1>t DEF RemoveAll, SetBundle, ReceiverTypeOK
  <2>5. DeleteSound(c.dest, c, "unlink")'
    BY <1>9, <2>3, <2>4 DEF RemoveAll, DeleteSound, Published, Bundle
  <2> QED BY <2>1, <2>2, <2>5, <1>0, <1>f DEF Sound
<1>10. CASE Unlink(c)
  <2>1. Frame /\ Done
    BY <1>10, <1>0, <1>t DEF Unlink, Returns, ReceiverTypeOK
  <2> QED BY <2>1, <1>f
<1>11. CASE StepFails(c)
  <2>1. Frame /\ Done
    BY <1>11, <1>0, <1>t DEF StepFails, Returns, storeVars, ReceiverTypeOK
  <2> QED BY <2>1, <1>f
<1> QED BY <1>1, <1>2, <1>3, <1>4, <1>5, <1>6, <1>7, <1>8, <1>9, <1>10, <1>11 DEF Serve

\* No call leaves a bundle that is neither listed nor resumable.
LEMMA ServeResumable ==
    ASSUME ReceiverInv, NEW c \in Calls, Proper(c), Serve(c)
    PROVE  UnlistedResumable'
<1>t. ReceiverTypeOK /\ UnlistedResumable
  BY DEF ReceiverInv
<1>0. c.dest \in Dests /\ c.point \in Points
  BY DEF Calls
<1> SUFFICES ASSUME NEW d \in Dests, NEW p \in Points,
                    bundle'[d][p] # "NONE", ~Published(d, p)'
             PROVE  Resumable(d, p)'
  BY DEF UnlistedResumable
<1>1. ASSUME UNCHANGED storeVars PROVE Resumable(d, p)'
  BY <1>1, <1>t DEF UnlistedResumable, Resumable, Published, storeVars
<1>2. CASE PublishAgain(c) \/ PublishStarts(c) \/ ResumeMoved(c) \/ DeleteStarts(c) \/ StepFails(c)
  BY <1>1, <1>2 DEF PublishAgain, PublishStarts, ResumeMoved, DeleteStarts, StepFails
<1>3. CASE WriteIntent(c)
  <2>1. \A n \in Tasks : stage[<<p, d, n>>] = "MOVED" => stage'[<<p, d, n>>] = "MOVED"
    BY <1>3, <1>t, OtherStages DEF WriteIntent, Stage
  <2> QED BY <1>3, <1>t, <2>1 DEF WriteIntent, UnlistedResumable, Resumable, Published
<1>4. CASE Move(c)
  <2>1. CASE PathFree(c)
    <3>1. \A n \in Tasks : /\ stage[<<p, d, n>>] = "MOVED" => stage'[<<p, d, n>>] = "MOVED"
                           /\ <<p, d, n>> = <<c.point, c.dest, c.id>> => stage'[<<p, d, n>>] = "MOVED"
      BY <1>4, <1>t, <2>1, OtherStages DEF Move
    <3>2. c.id \in Tasks
      <4>1. "move" \in Steps
        BY DEF Steps
      <4> QED BY <1>4, <4>1, ServedIsSound DEF Move, Sound, PublishSound, Proper
    <3>3. CASE d = c.dest /\ p = c.point
      BY <1>4, <1>t, <2>1, <3>1, <3>2, <3>3 DEF Move, SetBundle, Resumable, ReceiverTypeOK
    <3>4. CASE ~(d = c.dest /\ p = c.point)
      <4>1. bundle'[d][p] = bundle[d][p]
        BY <1>4, <1>t, <1>0, <2>1, <3>4 DEF Move, SetBundle, ReceiverTypeOK
      <4> QED BY <1>4, <1>t, <3>1, <4>1 DEF Move, UnlistedResumable, Resumable, Published
    <3> QED BY <3>3, <3>4
  <2>2. CASE ~PathFree(c)
    BY <1>1, <1>4, <2>2 DEF Move, storeVars
  <2> QED BY <2>1, <2>2
<1>5. CASE WriteMarker(c)
  <2>1. "mark" \in Steps
    BY DEF Steps
  <2>2. c.id \in Tasks
    BY <1>5, <2>1, ServedIsSound DEF WriteMarker, Sound, PublishSound, Proper
  <2>3. ~Published(d, p)
    BY <1>5, <1>t, <1>0, <2>2 DEF WriteMarker, Published, ReceiverTypeOK, Tasks, NoTask
  <2> QED BY <1>5, <1>t, <2>3 DEF WriteMarker, UnlistedResumable, Resumable
<1>6. CASE RemoveSome(c) \/ RemoveAll(c)
  <2>1. "remove" \in Steps
    BY DEF Steps
  <2>2. Published(c.dest, c.point)
    BY <1>6, <2>1, ServedIsSound DEF RemoveSome, RemoveAll, Sound, DeleteSound
  <2>3. ~(d = c.dest /\ p = c.point)
    BY <1>6, <2>2 DEF RemoveSome, RemoveAll, Published
  <2>4. bundle'[d][p] = bundle[d][p]
    BY <1>6, <1>t, <1>0, <2>3 DEF RemoveSome, RemoveAll, SetBundle, ReceiverTypeOK
  <2> QED BY <1>6, <1>t, <2>4 DEF RemoveSome, RemoveAll, UnlistedResumable, Resumable, Published
<1>7. CASE Unlink(c)
  <2>1. "unlink" \in Steps
    BY DEF Steps
  <2>2. bundle[c.dest][c.point] = "NONE"
    BY <1>7, <2>1, ServedIsSound DEF Unlink, Sound, DeleteSound, Bundle
  <2>3. ~(d = c.dest /\ p = c.point)
    BY <1>7, <2>2 DEF Unlink
  <2>4. ~Published(d, p)
    BY <1>7, <1>t, <1>0, <2>3 DEF Unlink, Published, ReceiverTypeOK
  <2> QED BY <1>7, <1>t, <2>4 DEF Unlink, UnlistedResumable, Resumable
<1> QED BY <1>2, <1>3, <1>4, <1>5, <1>6, <1>7 DEF Serve

\* The invariant of the receiver is kept by every step of every call ...
LEMMA ServeKeeps ==
    ASSUME ReceiverInv, NEW c \in Calls, Proper(c), Serve(c)
    PROVE  ReceiverInv'
<1>1. QueueProper'
  <2>1. queue' \subseteq queue
    BY DEF Serve, PublishAgain, PublishStarts, WriteIntent, ResumeMoved, Move, WriteMarker,
           DeleteStarts, RemoveSome, RemoveAll, Unlink, StepFails, Locks
  <2> QED BY <2>1 DEF ReceiverInv, QueueProper, Proper
<1> QED BY <1>1, ServeTyped, ServeSound, ServeResumable DEF ReceiverInv

\* ... and by the death of the receiver.
LEMMA InterruptedKeeps ==
    ASSUME ReceiverInv, Interrupted
    PROVE  ReceiverInv'
<1>1. ReceiverTypeOK'
  BY DEF ReceiverInv, ReceiverTypeOK, Interrupted, storeVars
<1>2. QueueProper'
  BY DEF Interrupted, QueueProper
<1>3. ServingSound'
  BY DEF Interrupted, ServingSound, Idle, Steps
<1>4. UnlistedResumable'
  BY DEF ReceiverInv, Interrupted, UnlistedResumable, Resumable, Published, storeVars
<1> QED BY <1>1, <1>2, <1>3, <1>4 DEF ReceiverInv

-----------------------------------------------------------------------------
(* Any sender.                                                             *)

\* Staging a transfer keeps the invariant of the receiver.
LEMMA StagingKeeps ==
    ASSUME ReceiverInv, NEW t \in Transfers, Prepare(t) \/ Finish(t)
    PROVE  ReceiverInv'
<1>0. stage[t] # "MOVED" /\ stage[t] # "INTENT"
  BY DEF Prepare, Finish
<1>1. \A u \in Transfers : stage[u] \in {"MOVED", "INTENT"} => stage'[u] = stage[u]
  BY <1>0 DEF Prepare, Finish, ReceiverInv, ReceiverTypeOK
<1>2. UNCHANGED <<bundle, marker, queue, serving, call, answer>>
  BY DEF Prepare, Finish
<1>3. ReceiverTypeOK'
  <2>1. stage' \in [Transfers -> Stages]
    BY DEF Prepare, Finish, ReceiverInv, ReceiverTypeOK, Stages
  <2> QED BY <1>2, <2>1 DEF ReceiverInv, ReceiverTypeOK
<1>4. QueueProper'
  BY <1>2 DEF ReceiverInv, QueueProper, Proper
<1>5. ServingSound'
  <2> SUFFICES ASSUME NEW d \in Dests, NEW c \in Calls, NEW s \in Steps,
                      serving'[d] = [call |-> c, step |-> s]
               PROVE  Sound(d, c, s)'
    BY DEF ServingSound
  <2>1. Sound(d, c, s)
    BY <1>2 DEF ReceiverInv, ServingSound
  <2>2. CASE s \in {"place", "move", "mark"}
    <3>1. PublishSound(d, c, s)
      BY <2>1, <2>2 DEF Sound
    <3>2. <<c.point, c.dest, c.id>> \in Transfers
      BY <3>1 DEF PublishSound, Proper, Calls, Transfers
    <3>3. PublishSound(d, c, s)'
      BY <1>1, <1>2, <3>1, <3>2 DEF PublishSound, Published, Stage, Bundle
    <3> QED BY <2>2, <3>3 DEF Sound
  <2>3. CASE s \notin {"place", "move", "mark"}
    BY <1>2, <2>1, <2>3 DEF Sound, DeleteSound, Published, Bundle
  <2> QED BY <2>2, <2>3
<1>6. UnlistedResumable'
  <2> SUFFICES ASSUME NEW d \in Dests, NEW p \in Points, bundle'[d][p] # "NONE", ~Published(d, p)'
               PROVE  Resumable(d, p)'
    BY DEF UnlistedResumable
  <2>1. Resumable(d, p)
    BY <1>2 DEF ReceiverInv, UnlistedResumable, Published
  <2> QED BY <1>1, <1>2, <2>1 DEF Resumable, Transfers
<1> QED BY <1>3, <1>4, <1>5, <1>6 DEF ReceiverInv

\* A step of the receiver, or of a sender that makes any proper call.
AnyStep ==
    \/ \E t \in Transfers : Prepare(t) \/ Finish(t)
    \/ \E c \in Calls : Proper(c) /\ (Request(c) \/ Serve(c))
    \/ GiveUp
    \/ Interrupted

LEMMA AnyStepKeeps == ReceiverInv /\ [AnyStep]_serviceVars => ReceiverInv'
<1> SUFFICES ASSUME ReceiverInv, [AnyStep]_serviceVars PROVE ReceiverInv'
  OBVIOUS
<1>1. ASSUME NEW t \in Transfers, Prepare(t) \/ Finish(t) PROVE ReceiverInv'
  BY <1>1, StagingKeeps
<1>2. ASSUME NEW c \in Calls, Proper(c), Request(c) PROVE ReceiverInv'
  <2>2. ReceiverTypeOK'
    BY <1>2 DEF Request, ReceiverInv, ReceiverTypeOK, storeVars
  <2>3. QueueProper'
    BY <1>2 DEF Request, ReceiverInv, QueueProper, Proper
  <2>4. ServingSound' /\ UnlistedResumable'
    <3>1. UNCHANGED storeVars /\ serving' = serving
      BY <1>2 DEF Request
    <3>2. \A d, p : Published(d, p)' <=> Published(d, p)
      BY <3>1 DEF Published, storeVars
    <3>3. \A r : /\ Stage(r)' = Stage(r) /\ Bundle(r)' = Bundle(r)
      BY <3>1 DEF Stage, Bundle, storeVars
    <3>4. \A d, r, s : Sound(d, r, s)' <=> Sound(d, r, s)
      BY <3>2, <3>3 DEF Sound, PublishSound, DeleteSound, Proper
    <3>5. ServingSound'
      BY <3>1, <3>4 DEF ReceiverInv, ServingSound
    <3>6. \A d, p : Resumable(d, p)' <=> Resumable(d, p)
      BY <3>1 DEF Resumable, storeVars
    <3>7. UnlistedResumable'
      BY <3>1, <3>2, <3>6 DEF ReceiverInv, UnlistedResumable, storeVars
    <3> QED BY <3>5, <3>7
  <2> QED BY <2>2, <2>3, <2>4 DEF ReceiverInv
<1>3. ASSUME NEW c \in Calls, Proper(c), Serve(c) PROVE ReceiverInv'
  BY <1>3, ServeKeeps
<1>4. ASSUME GiveUp \/ UNCHANGED serviceVars PROVE ReceiverInv'
  <2>1. ReceiverTypeOK'
    BY <1>4 DEF GiveUp, serviceVars, ReceiverInv, ReceiverTypeOK, storeVars
  <2>2. QueueProper'
    BY <1>4 DEF GiveUp, serviceVars, ReceiverInv, QueueProper, Proper
  <2>0. UNCHANGED <<stage, bundle, marker, serving>>
    BY <1>4 DEF GiveUp, serviceVars, storeVars
  <2>3. ServingSound' /\ UnlistedResumable'
    BY <2>0 DEF ReceiverInv, ServingSound, Sound, PublishSound, DeleteSound, Proper,
                Published, Stage, Bundle, UnlistedResumable, Resumable
  <2> QED BY <2>1, <2>2, <2>3 DEF ReceiverInv
<1>5. ASSUME Interrupted PROVE ReceiverInv'
  BY <1>5, InterruptedKeeps
<1> QED BY <1>1, <1>2, <1>3, <1>4, <1>5 DEF AnyStep

LEMMA RequestsProper ==
    ASSUME NEW c \in Requests
    PROVE  c \in Calls /\ Proper(c)
BY RequestsAssumption DEF Proper

\* The service makes the calls that are requested.
LEMMA ServiceIsAny == [ServiceNext]_serviceVars => [AnyStep]_serviceVars
<1>1. Requested \subseteq Transfers
  BY RequestsAssumption DEF Requested, Calls, Transfers
<1>2. \A c \in Requests : c \in Calls /\ Proper(c)
  BY RequestsProper
<1> QED BY <1>1, <1>2 DEF ServiceNext, AnyStep

LEMMA Invariant == ServiceSpec => []ReceiverInv
<1>1. ReceiverInit => ReceiverInv
  BY InitSound
<1>2. ReceiverInv /\ [ServiceNext]_serviceVars => ReceiverInv'
  BY ServiceIsAny, AnyStepKeeps
<1> QED BY <1>1, <1>2, PTL DEF ServiceSpec

-----------------------------------------------------------------------------
\* Type correctness, for every set of requests.
THEOREM ReceiverTypeCorrect == ServiceSpec => []ServiceTypeOK
<1>1. ReceiverInv => ServiceTypeOK
  BY DEF ReceiverInv, ServiceTypeOK
<1> QED BY <1>1, Invariant, PTL

\* No kill, error or deletion leaves a bundle on the receiver that is neither
\* listed nor whole and resumable by a repeated publish.
THEOREM UnlistedBundleResumableAlways == ServiceSpec => []UnlistedBundleResumable
<1>1. ReceiverInv => UnlistedBundleResumable
  BY DEF ReceiverInv, UnlistedResumable, Resumable, UnlistedBundleResumable
<1> QED BY <1>1, Invariant, PTL

-----------------------------------------------------------------------------
(* Refinement of RemoteCatalog *)

Listing == [d \in Dests |-> [p \in Points |-> Status(d, p)]]

\* A step that changes the status of one replica.
LEMMA OneStatus ==
    ASSUME NEW d \in Dests, NEW p \in Points, NEW s, Status(d, p)' = s,
           \A e \in Dests, q \in Points : (e # d \/ q # p) => Status(e, q)' = Status(e, q)
    PROVE  Catalog!Set(d, p, s)
<1>1. \A e \in Dests : e # d => [q \in Points |-> Status(e, q)'] = [q \in Points |-> Status(e, q)]
  OBVIOUS
<1>2. [q \in Points |-> Status(d, q)'] = [[q \in Points |-> Status(d, q)] EXCEPT ![p] = s]
  OBVIOUS
<1>3. [e \in Dests |-> [q \in Points |-> Status(e, q)']]
          = [Listing EXCEPT ![d] = [[q \in Points |-> Status(d, q)] EXCEPT ![p] = s]]
  BY <1>1, <1>2 DEF Listing
<1>4. [e \in Dests |-> [q \in Points |-> Status(e, q)']] = [Listing EXCEPT ![d][p] = s]
  BY <1>3 DEF Listing
<1> QED BY <1>4 DEF Catalog!Set, Listing

\* A step of a call that changes the bundle or record of its own point only.
LEMMA OwnPoint ==
    ASSUME ReceiverInv, NEW c \in Calls, Serve(c)
    PROVE  \A e \in Dests, q \in Points : (e # c.dest \/ q # c.point) => Status(e, q)' = Status(e, q)
<1>0. c.dest \in Dests /\ c.point \in Points
  BY DEF Calls
<1>1. SUFFICES ASSUME NEW e \in Dests, NEW q \in Points, e # c.dest \/ q # c.point
               PROVE  bundle'[e][q] = bundle[e][q] /\ marker'[e][q] = marker[e][q]
  BY DEF Status, Published
<1>2. CASE \/ PublishAgain(c) \/ PublishStarts(c) \/ WriteIntent(c) \/ ResumeMoved(c)
           \/ DeleteStarts(c) \/ StepFails(c)
  BY <1>2 DEF PublishAgain, PublishStarts, WriteIntent, ResumeMoved, DeleteStarts, StepFails, storeVars
<1>3. CASE Move(c) \/ RemoveSome(c) \/ RemoveAll(c)
  <2>1. marker' = marker /\ (bundle' = bundle \/ \E s : SetBundle(c, s))
    BY <1>3 DEF Move, RemoveSome, RemoveAll
  <2>2. ASSUME NEW s, SetBundle(c, s) PROVE bundle'[e][q] = bundle[e][q]
    BY <1>0, <1>1, <2>2 DEF SetBundle, ReceiverInv, ReceiverTypeOK
  <2> QED BY <2>1, <2>2
<1>4. CASE WriteMarker(c) \/ Unlink(c)
  <2>1. bundle' = bundle /\ \E n : marker' = [marker EXCEPT ![c.dest][c.point] = n]
    BY <1>4 DEF WriteMarker, Unlink
  <2> QED BY <1>0, <1>1, <2>1 DEF ReceiverInv, ReceiverTypeOK
<1> QED BY <1>2, <1>3, <1>4 DEF Serve

\* Every step of a call is a step of the abstract catalog or changes no status.
LEMMA ServeRefines ==
    ASSUME ReceiverInv, NEW c \in Calls, Serve(c)
    PROVE  [Catalog!Next]_Listing
<1> DEFINE d == c.dest
           p == c.point
<1>0. /\ d \in Dests /\ p \in Points
      /\ "move" \in Steps /\ "mark" \in Steps /\ "remove" \in Steps /\ "unlink" \in Steps
  BY DEF Calls, Steps
<1>t. ReceiverTypeOK
  BY DEF ReceiverInv
<1>o. \A e \in Dests, q \in Points : (e # d \/ q # p) => Status(e, q)' = Status(e, q)
  BY OwnPoint
<1>s. ASSUME Status(d, p)' = Status(d, p) PROVE UNCHANGED Listing
  BY <1>s, <1>o DEF Listing
<1>1. CASE \/ PublishAgain(c) \/ PublishStarts(c) \/ WriteIntent(c) \/ ResumeMoved(c)
           \/ DeleteStarts(c) \/ StepFails(c)
  <2>1. bundle' = bundle /\ marker' = marker
    BY <1>1 DEF PublishAgain, PublishStarts, WriteIntent, ResumeMoved, DeleteStarts, StepFails, storeVars
  <2>2. Status(d, p)' = Status(d, p)
    BY <2>1 DEF Status, Published
  <2> QED BY <2>2, <1>s
<1>2. CASE Move(c)
  <2>1. ~Published(d, p) /\ marker' = marker
    BY <1>0, <1>2, ServedIsSound DEF Move, Sound, PublishSound
  <2>2. Status(d, p)' = Status(d, p)
    BY <2>1 DEF Status, Published
  <2> QED BY <2>2, <1>s
<1>3. CASE WriteMarker(c)
  <2>1. /\ ~Published(d, p) /\ bundle[d][p] = "WHOLE" /\ c.id \in Tasks
        /\ Parent[p] # 0 => Published(d, Parent[p])
    BY <1>0, <1>3, ServedIsSound DEF WriteMarker, Sound, PublishSound, Bundle, Proper
  <2>2. marker'[d][p] = c.id /\ c.id # NoTask
    BY <1>0, <1>3, <1>t, <2>1 DEF WriteMarker, ReceiverTypeOK, Tasks, NoTask
  <2>3. Status(d, p) = "absent" /\ Status(d, p)' = "readable"
    BY <1>3, <2>1, <2>2 DEF Status, Published, WriteMarker
  <2>4. Parent[p] # 0 => Parent[p] \in Points /\ Status(d, Parent[p]) # "absent"
    BY <1>0, <2>1, ReceiverAssumption DEF Status, Points
  <2>5. Catalog!Set(d, p, "readable")
    BY <1>0, <1>o, <2>3, OneStatus
  <2>6. Catalog!Publish(d, p)
    BY <1>0, <2>3, <2>4, <2>5 DEF Catalog!Publish
  <2> QED BY <1>0, <2>6 DEF Catalog!Next
<1>4. CASE RemoveSome(c) \/ RemoveAll(c)
  <2>1. Published(d, p) /\ marker' = marker
    BY <1>0, <1>4, ServedIsSound DEF RemoveSome, RemoveAll, Sound, DeleteSound
  <2>2. bundle'[d][p] # "WHOLE"
    BY <1>0, <1>4, <1>t DEF RemoveSome, RemoveAll, SetBundle, ReceiverTypeOK
  <2>3. Status(d, p)' = "removing"
    BY <2>1, <2>2 DEF Status, Published
  <2>4. CASE bundle[d][p] = "WHOLE"
    <3>1. Status(d, p) = "readable"
      BY <2>1, <2>4 DEF Status
    <3>2. Catalog!Set(d, p, "removing")
      BY <1>0, <1>o, <2>3, OneStatus
    <3>3. Catalog!BeginRemove(d, p)
      BY <1>0, <3>1, <3>2 DEF Catalog!BeginRemove
    <3> QED BY <1>0, <3>3 DEF Catalog!Next
  <2>5. CASE bundle[d][p] # "WHOLE"
    BY <1>s, <2>1, <2>3, <2>5 DEF Status
  <2> QED BY <2>4, <2>5
<1>5. CASE Unlink(c)
  <2>1. Published(d, p) /\ bundle[d][p] = "NONE"
    BY <1>0, <1>5, ServedIsSound DEF Unlink, Sound, DeleteSound, Bundle
  <2>2. marker'[d][p] = NoTask
    BY <1>0, <1>5, <1>t DEF Unlink, ReceiverTypeOK
  <2>3. Status(d, p) = "removing" /\ Status(d, p)' = "absent"
    BY <2>1, <2>2 DEF Status, Published
  <2>4. Catalog!Set(d, p, "absent")
    BY <1>0, <1>o, <2>3, OneStatus
  <2>5. Catalog!EndRemove(d, p)
    BY <1>0, <2>3, <2>4 DEF Catalog!EndRemove
  <2> QED BY <1>0, <2>5 DEF Catalog!Next
<1> QED BY <1>1, <1>2, <1>3, <1>4, <1>5 DEF Serve

\* ... and so is every step of a sender.
LEMMA AnyStepRefines == ReceiverInv /\ [AnyStep]_serviceVars => [Catalog!Next]_Listing
<1> SUFFICES ASSUME ReceiverInv, [AnyStep]_serviceVars PROVE [Catalog!Next]_Listing
  OBVIOUS
<1>1. ASSUME NEW c \in Calls, Serve(c) PROVE [Catalog!Next]_Listing
  BY <1>1, ServeRefines
<1>2. ASSUME bundle' = bundle /\ marker' = marker PROVE UNCHANGED Listing
  BY <1>2 DEF Listing, Status, Published
<1>3. ASSUME NEW t \in Transfers, Prepare(t) \/ Finish(t) PROVE UNCHANGED Listing
  BY <1>2, <1>3 DEF Prepare, Finish
<1>4. ASSUME NEW c \in Calls, Request(c) PROVE UNCHANGED Listing
  BY <1>2, <1>4 DEF Request, storeVars
<1>5. ASSUME GiveUp \/ Interrupted \/ UNCHANGED serviceVars PROVE UNCHANGED Listing
  BY <1>2, <1>5 DEF GiveUp, Interrupted, serviceVars, storeVars
<1> QED BY <1>1, <1>3, <1>4, <1>5 DEF AnyStep

LEMMA InitRefines == ReceiverInit => Catalog!Init
BY DEF ReceiverInit, Catalog!Init, Status, Published

\* Publication and deletion implement the abstract catalog: a replica becomes
\* listed in one step, whole and after its parent, and no kill, error or
\* repeated call makes a listed replica unlisted except by its removal.
THEOREM ReceiverRefinement == ServiceSpec => ImplementsCatalog
<1>1. ReceiverInit => Catalog!Init
  BY InitRefines
<1>2. ReceiverInv /\ [ServiceNext]_serviceVars => [Catalog!Next]_Listing
  BY ServiceIsAny, AnyStepRefines
<1> QED BY <1>1, <1>2, Invariant, PTL DEF ServiceSpec, ImplementsCatalog, Catalog!Spec, Listing

-----------------------------------------------------------------------------
Truth ==
    /\ Heard("PUBLISH") => marker'[call.dest][call.point] = call.id
    /\ Heard("DELETE")  => /\ marker'[call.dest][call.point] = NoTask
                           /\ bundle'[call.dest][call.point] = "NONE"

LEMMA AnswersTrue == ReceiverInv /\ [AnyStep]_serviceVars => Truth \/ UNCHANGED serviceVars
<1> SUFFICES ASSUME ReceiverInv, [AnyStep]_serviceVars, ~UNCHANGED serviceVars,
                    call \in Calls, answer = "none", answer' = "ok"
             PROVE  Truth
  BY DEF Heard, Truth
<1>t. ReceiverTypeOK /\ call.dest \in Dests /\ call.point \in Points
  BY DEF ReceiverInv, Calls
<1>1. PICK c \in Calls : Proper(c) /\ Serve(c)
  BY DEF AnyStep, Prepare, Finish, Request, GiveUp, Interrupted
<1>2. c \in Calls /\ Proper(c) /\ "mark" \in Steps /\ "unlink" \in Steps
  BY <1>1 DEF Steps
<1>3. CASE PublishAgain(c)
  BY <1>3 DEF PublishAgain, Locks, Returns, storeVars, Heard, Truth
<1>4. CASE DeleteStarts(c)
  BY <1>4 DEF DeleteStarts, Locks, Goes, Returns, Unlisted, Bundle, Published, storeVars, Heard, Truth
<1>5. CASE WriteMarker(c)
  <2>1. c.kind = "PUBLISH" /\ c = call
    BY <1>2, <1>5, ServedIsSound DEF WriteMarker, Returns, Sound, PublishSound
  <2>2. marker'[c.dest][c.point] = c.id
    BY <1>t, <1>5, <2>1 DEF WriteMarker, ReceiverTypeOK
  <2> QED BY <2>1, <2>2 DEF Heard, Truth
<1>6. CASE Unlink(c)
  <2>1. c.kind = "DELETE" /\ c = call /\ bundle'[c.dest][c.point] = "NONE"
    BY <1>2, <1>6, ServedIsSound DEF Unlink, Returns, Sound, DeleteSound, Bundle
  <2>2. marker'[c.dest][c.point] = NoTask
    BY <1>t, <1>6, <2>1 DEF Unlink, ReceiverTypeOK
  <2> QED BY <2>1, <2>2 DEF Heard, Truth
<1>7. CASE \/ PublishStarts(c) \/ WriteIntent(c) \/ ResumeMoved(c) \/ Move(c)
           \/ RemoveSome(c) \/ RemoveAll(c) \/ StepFails(c)
  BY <1>7 DEF PublishStarts, WriteIntent, ResumeMoved, Move, RemoveSome, RemoveAll, StepFails,
              Goes, Returns
<1> QED BY <1>1, <1>3, <1>4, <1>5, <1>6, <1>7 DEF Serve

\* An answer that a waiting sender hears is true: a published replica is listed
\* under the transfer of the call, of a deleted one nothing is left.
THEOREM AnswersAreTrueAlways == ServiceSpec => AnswersAreTrue
<1>1. ReceiverInv /\ [ServiceNext]_serviceVars => Truth \/ UNCHANGED serviceVars
  BY ServiceIsAny, AnswersTrue
<1> QED BY <1>1, Invariant, PTL DEF ServiceSpec, AnswersAreTrue, Truth

-----------------------------------------------------------------------------
(* The replica queue.                                                      *)


\* The sender works on the replica it claimed, and on the deletion it claimed.
AtWork   == {"load", "read", "write", "transfer", "sending", "publish", "publishing"}
AtDelete == {"erase", "erasing"}
Publication == [kind |-> "PUBLISH", point |-> work.point, dest |-> work.dest, id |-> work.id]
Deletion    == [kind |-> "DELETE", point |-> doomed.point, dest |-> doomed.dest, id |-> doomed.id]
DoomedTomb  == tomb[doomed.point][doomed.dest]

SenderSound ==
    /\ spc \in AtWork => work \in Works
    /\ spc \in AtDelete => doomed \in Attempts /\ DoomedTomb.state = "RUNNING"
    /\ spc \in {"read", "write"} => update # "none"
    /\ apc = "retry" => adest \in Dests
    /\ dpc # "idle" => dpoint \in 1 .. created

\* The sender waits for the call it made, and for none at any other time.
CallSound ==
    /\ spc = "publishing" => call = Publication
    /\ spc = "erasing" => call = Deletion
    /\ spc \notin {"publishing", "erasing"} => call = NoCall /\ answer = "none"

\* Only a crash lets an attempt be claimed that was not counted as a failure.
AttemptsSound ==
    \A p \in Points, d \in Dests :
        /\ tomb[p][d].state = "PENDING" => tomb[p][d].attempts < MaxAttempts
        /\ tomb[p][d].state = "RUNNING" =>
               IF spc \in AtDelete /\ doomed.point = p /\ doomed.dest = d
               THEN tomb[p][d].attempts <= MaxAttempts + crashes
               ELSE tomb[p][d].attempts < MaxAttempts + crashes

\* Calls on their way, or in work.
OnWay(c) == c \in queue \/ \E d \in Dests : serving[d] # Idle /\ serving[d].call = c

\* The transfer is staged, or being staged, and not yet published.
BeforeCall == spc \in {"sending", "publish"} \/ (spc \in {"read", "write"} /\ update \in {"progress", "VERIFYING"})

\* A transfer id is staged once, so that its publication is called for once.
CallsSound ==
    /\ \A c \in Calls : OnWay(c) => Proper(c)
    /\ \A c \in Calls : OnWay(c) /\ c.kind = "PUBLISH" => Stage(c) # "NONE"
    /\ \A c \in Calls : OnWay(c) /\ c.kind = "DELETE" => ~Untouched(c.point, c.dest)
    /\ \A d \in Dests : serving[d] # Idle /\ serving[d].call.kind = "PUBLISH" => serving[d].call \notin queue
    /\ spc = "sending" => stage[Transfer] = "RECEIVING"
    /\ BeforeCall => stage[Transfer] # "NONE" /\ ~OnWay(Publication)
    /\ spc = "publishing" /\ answer # "none" => ~OnWay(Publication)
    /\ spc \in {"read", "write"} /\ update = "SUCCESS" => ~OnWay(Publication)

\* What is listed and not to be deleted is whole.
UntouchedWhole ==
    \A p \in Points, d \in Dests : Untouched(p, d) /\ Published(d, p) => bundle[d][p] = "WHOLE"

\* Every copy of a SUCCESS, and every step towards one, is true.
Held(p, d) == Untouched(p, d) => Readable(d, p)

SuccessHeld ==
    /\ \A p \in Points, d \in Dests : replica[p][d].state = "SUCCESS" => Held(p, d)
    /\ spc = "write" => \A d \in Dests : row[d].state = "SUCCESS" => Held(work.point, d)
    /\ \A q \in DOMAIN arows, d \in Dests : arows[q][d].state = "SUCCESS" => Held(q, d)
    /\ spc \in {"read", "write"} /\ update = "SUCCESS" => Held(work.point, work.dest)
    /\ spc = "publishing" /\ answer = "ok" => Held(work.point, work.dest)

QInv ==
    /\ TypeOK /\ ReceiverInv
    /\ SenderSound /\ CallSound /\ CallsSound
    /\ AttemptsSound /\ UntouchedWhole /\ SuccessHeld

-----------------------------------------------------------------------------
Found(p, d) == dpc = "enqueue" /\ p = dpoint /\ d \in dfound
Gone(d, p) == ~Published(d, p) /\ bundle[d][p] = "NONE"

\* Of the replica neither a success nor a deletion has been stored or read.
Unsettled(p, d) ==
    /\ p <= created /\ Untouched(p, d) /\ ~Found(p, d)
    /\ p \in points => replica[p][d].state \in Working \cup {"FAILED"}

Settled(p, d) == p <= created /\ (p \in points => replica[p][d].state = "SUCCESS")

RowRead == [replica[work.point] EXCEPT ![work.dest] = UpdatedEntry(@)]

\* The rows that were read and are to be written are still those of the database.
RowsInHand ==
    /\ spc = "write" => apc = "idle"
    /\ spc = "write" /\ work.point \in points => row = RowRead
    /\ apc = "retry" => /\ DOMAIN arows \subseteq 1 .. created
                        /\ \A q \in DOMAIN arows \cap points : arows[q] = replica[q]

\* The entry that the sender works on is its own.
WorkSound ==
    spc \in AtWork =>
        /\ work.point <= created
        /\ work.point \in points => replica[work.point][work.dest].state \in Working

FirstTry ==
    /\ apc = "idle"
    /\ RowsInHand /\ WorkSound
    /\ \A p \in Points, d \in Dests : replica[p][d].task = 0
    /\ \A c \in Calls : OnWay(c) /\ c.kind = "PUBLISH" => c.id = 0 /\ Unsettled(c.point, c.dest)
    /\ spc \in AtWork => work.id = 0 /\ Unsettled(work.point, work.dest)
    /\ \A p \in Points, d \in Dests : ~Untouched(p, d) \/ Found(p, d) => Settled(p, d)
    /\ \A p \in Points, d \in Dests : tomb[p][d].state = "COMPLETED" => Gone(d, p)
    /\ spc = "erasing" /\ answer = "ok" => Gone(doomed.dest, doomed.point)

FirstInv == QInv /\ (retries = 0 => FirstTry)
-----------------------------------------------------------------------------
(* What the invariant says of the values at hand.                          *)

LEMMA NaturalBounds ==
    /\ MaxAttempts \in Nat /\ MaxAttempts >= 1 /\ MaxCrashes \in Nat /\ MaxTask \in Nat
    /\ MaxPoint \in Nat /\ Tasks \subseteq Nat /\ Attempts \subseteq [point : Points, dest : Dests, id : Nat]
BY ReplicaAssumption, ReceiverAssumption DEF Tasks, Attempts

LEMMA WorkTyped ==
    ASSUME QInv, spc \in AtWork
    PROVE  /\ work.point \in Points /\ work.dest \in Dests /\ work.id \in Tasks
           /\ Transfer \in Transfers /\ Publication \in Calls /\ Proper(Publication)
           /\ work \in Works
<1>1. work \in Works
  BY DEF QInv, SenderSound
<1>2. work.point \in Points /\ work.dest \in Dests /\ work.id \in Tasks /\ work.id \in Nat
  BY <1>1, NaturalBounds DEF Works
<1> QED BY <1>1, <1>2 DEF Transfer, Transfers, Publication, Calls, Proper

LEMMA DoomedTyped ==
    ASSUME QInv, spc \in AtDelete
    PROVE  /\ doomed.point \in Points /\ doomed.dest \in Dests
           /\ Deletion \in Calls /\ Proper(Deletion) /\ DoomedTomb.state = "RUNNING"
<1>1. doomed \in Attempts /\ DoomedTomb.state = "RUNNING"
  BY DEF QInv, SenderSound
<1>2. doomed.point \in Points /\ doomed.dest \in Dests /\ doomed.id \in Nat
  BY <1>1, NaturalBounds DEF Attempts
<1> QED BY <1>1, <1>2 DEF Deletion, Calls, Proper

LEMMA PendingOnWay ==
    ASSUME QInv, NEW c \in Pending
    PROVE  c \in Calls /\ OnWay(c) /\ Proper(c)
<1>1. c \in Calls
  BY IdleIsNoCall DEF Pending, QInv, TypeOK, ReceiverTypeOK
<1>2. OnWay(c)
  BY DEF Pending, OnWay
<1> QED BY <1>1, <1>2 DEF QInv, CallsSound

\* The empty work and rows have their types.
LEMMA NothingTyped ==
    /\ NoMetadata \in Metadata /\ \A d \in Dests : NoMetadata[d].state = "PENDING"
    /\ NoTomb \in Tombs /\ NoTomb.state = "NONE"
    /\ NoTask \notin Tasks
<1>1. 0 \in Tasks /\ 0 \in 0 .. MaxAttempts + MaxCrashes
  BY NaturalBounds DEF Tasks
<1> QED BY <1>1 DEF NoMetadata, Metadata, NoEntry, Entries, States, NoTomb, Tombs, NoTask, Tasks

-----------------------------------------------------------------------------
\* Steps that leave the receiver, and the call to it, alone.
Aside ==
    \/ Finalize \/ ClaimReplica \/ ClaimNoReplica \/ ReadRow \/ RowGone \/ WriteRow \/ LoadWork
    \/ WorkFails \/ ClaimDelete \/ ClaimNoDelete \/ EraseFails
    \/ (\E p \in Points, d \in Dests : DelayPasses(p, d) \/ RetryReads(p, d))
    \/ RetryWrites \/ (\E p \in Points : DeleteBegins(p)) \/ Deleter

LEMMA AsideLeaves == Aside => UNCHANGED serviceVars
BY DEF Aside, Finalize, ClaimReplica, ClaimNoReplica, ReadRow, RowGone, WriteRow, LoadWork,
       WorkFails, ClaimDelete, ClaimNoDelete, EraseFails, DelayPasses, RetryReads, RetryWrites,
       DeleteBegins, Deleter, Enqueue, EnqueueFails, RemoveLocal, RemoveFails, RemoveRow,
       receiver, serviceVars

\* The steps of Next: aside from the receiver, towards it, of it.
Hangs == PublishAnswered \/ PublishUnanswered \/ EraseAnswered \/ EraseUnanswered \/ Crash

LEMMA StepKinds ==
    Next => \/ Aside \/ Hangs \/ BeginTransfer \/ FinishTransfer \/ StartPublish \/ StartErase
            \/ Receive \/ Outage
BY DEF Next, Sender, Aside, Hangs

LEMMA HangsUp == Hangs => HangUp
BY DEF Hangs, PublishAnswered, PublishUnanswered, EraseAnswered, EraseUnanswered, Crash

\* The queue drives the receiver as any sender may.
LEMMA QueueIsSender == QInv /\ [Next]_vars => [AnyStep]_serviceVars
<1> SUFFICES ASSUME QInv, [Next]_vars PROVE [AnyStep]_serviceVars
  OBVIOUS
<1>1. CASE Aside \/ UNCHANGED vars
  BY <1>1, AsideLeaves DEF vars, receiver, serviceVars
<1>2. CASE Hangs
  <2>1. HangUp
    BY <1>2, HangsUp
  <2>2. CASE call = NoCall
    <3>1. answer = "none"
      BY <2>2, WorkTyped, DoomedTyped, IdleIsNoCall DEF QInv, CallSound, AtWork, AtDelete
    <3> QED BY <2>1, <2>2, <3>1 DEF HangUp, serviceVars
  <2>3. CASE call # NoCall
    BY <2>1, <2>3 DEF HangUp, GiveUp, AnyStep
  <2> QED BY <2>2, <2>3
<1>3. CASE BeginTransfer
  <2>1. Transfer \in Transfers
    BY <1>3, WorkTyped DEF BeginTransfer, AtWork
  <2> QED BY <1>3, <2>1 DEF BeginTransfer, AnyStep, Prepare, serviceVars, storeVars
<1>4. CASE FinishTransfer
  <2>1. Transfer \in Transfers /\ stage[Transfer] = "RECEIVING"
    BY <1>4, WorkTyped DEF FinishTransfer, AtWork, QInv, CallsSound
  <2> QED BY <1>4, <2>1 DEF FinishTransfer, AnyStep, Finish
<1>5. CASE StartPublish
  <2>1. Publication \in Calls /\ Proper(Publication)
    BY <1>5, WorkTyped DEF StartPublish, AtWork
  <2>2. Request(Publication)
    BY <1>5 DEF StartPublish, Request, Publication
  <2> QED BY <2>1, <2>2 DEF AnyStep
<1>6. CASE StartErase
  <2>1. Deletion \in Calls /\ Proper(Deletion)
    BY <1>6, DoomedTyped DEF StartErase, AtDelete
  <2>2. Request(Deletion)
    BY <1>6 DEF StartErase, Request, Deletion
  <2> QED BY <2>1, <2>2 DEF AnyStep
<1>7. CASE Receive
  BY <1>7, PendingOnWay DEF Receive, Reception, AnyStep
<1>8. CASE Outage
  BY <1>8 DEF Outage, AnyStep
<1> QED BY <1>1, <1>2, <1>3, <1>4, <1>5, <1>6, <1>7, <1>8, StepKinds

LEMMA ReceiverInvKept == QInv /\ [Next]_vars => ReceiverInv'
BY QueueIsSender, AnyStepKeeps DEF QInv

-----------------------------------------------------------------------------
(* Types.                                                                  *)

LEMMA PointsArePoints == TypeOK => points \subseteq Points /\ points \subseteq 1 .. created /\ created \in Nat
BY NaturalBounds DEF TypeOK, Points

LEMMA EntrySet ==
    ASSUME NEW e \in Entries, NEW s \in States
    PROVE  /\ [e EXCEPT !.state = s] \in Entries
           /\ [e EXCEPT !.state = s].state = s /\ [e EXCEPT !.state = s].task = e.task
BY DEF Entries

LEMMA EntryTyped ==
    ASSUME TypeOK, NEW p \in Points, NEW d \in Dests
    PROVE  replica[p][d] \in Entries
BY DEF TypeOK, Metadata

\* Setting one tombstone.
LEMMA TombSet ==
    ASSUME TypeOK, NEW p \in Points, NEW d \in Dests, NEW t \in Tombs,
           tomb' = [tomb EXCEPT ![p][d] = t]
    PROVE  /\ tomb' \in [Points -> [Dests -> Tombs]]
           /\ tomb'[p][d] = t
           /\ \A q \in Points, e \in Dests : (q # p \/ e # d) => tomb'[q][e] = tomb[q][e]
<1>1. tomb \in [Points -> [Dests -> Tombs]]
  BY DEF TypeOK
<1> QED BY <1>1

\* What a claim, the end of a deletion and a delay make of a tombstone.
Counted(t) == [t EXCEPT !.state = "RUNNING", !.attempts = @ + 1]

LEMMA ClaimSets ==
    ASSUME QInv, ClaimDelete
    PROVE  \E p \in Points, d \in Dests :
               /\ Doomed(p, d) /\ Counted(tomb[p][d]) \in Tombs
               /\ tomb' = [tomb EXCEPT ![p][d] = Counted(tomb[p][d])]
               /\ doomed' = [point |-> p, dest |-> d, id |-> tomb[p][d].attempts + 1]
               /\ doomed' \in Attempts
               /\ tomb[p][d].attempts + 1 <= MaxAttempts + crashes
<1>1. PICK p \in Points, d \in Dests :
          /\ Doomed(p, d)
          /\ tomb' = [tomb EXCEPT ![p][d].state = "RUNNING", ![p][d].attempts = @ + 1]
          /\ doomed' = [point |-> p, dest |-> d, id |-> tomb[p][d].attempts + 1]
  BY DEF ClaimDelete
<1>2. tomb \in [Points -> [Dests -> Tombs]] /\ tomb[p][d] \in Tombs /\ crashes \in Nat /\ crashes <= MaxCrashes
  BY NaturalBounds DEF QInv, TypeOK
<1>3. tomb' = [tomb EXCEPT ![p][d] = Counted(tomb[p][d])]
  BY <1>1, <1>2 DEF Counted
<1>4. tomb[p][d].attempts + 1 <= MaxAttempts + crashes
  <2>1. spc \notin AtDelete
    BY DEF ClaimDelete, AtDelete
  <2>2. tomb[p][d].state \in {"PENDING", "RUNNING"} /\ tomb[p][d].attempts \in Nat
    BY <1>1, <1>2, NaturalBounds DEF Doomed, Due, Tombs
  <2> QED BY <1>2, <2>1, <2>2, NaturalBounds DEF QInv, AttemptsSound
<1>5. tomb[p][d].attempts + 1 \in 1 .. MaxAttempts + MaxCrashes
  BY <1>2, <1>4, NaturalBounds DEF Tombs
<1>6. Counted(tomb[p][d]) \in Tombs
  <2>1. tomb[p][d].attempts + 1 \in 0 .. MaxAttempts + MaxCrashes
    BY <1>5
  <2> QED BY <1>2, <2>1 DEF Counted, Tombs
<1>7. doomed' \in Attempts
  BY <1>1, <1>5 DEF Attempts
<1> QED BY <1>1, <1>3, <1>4, <1>6, <1>7

LEMMA FinishSets ==
    ASSUME QInv, NEW b \in BOOLEAN, FinishDelete(b), spc \in AtDelete
    PROVE  /\ doomed.point \in Points /\ doomed.dest \in Dests
           /\ \E t \in Tombs :
                  /\ t = IF b THEN Completed(DoomedTomb) ELSE Failed(DoomedTomb)
                  /\ t.state \in {"PENDING", "COMPLETED", "FAILED"}
                  /\ t.state = "PENDING" => t.attempts < MaxAttempts
                  /\ t.state = "COMPLETED" => b
                  /\ tomb' = [tomb EXCEPT ![doomed.point][doomed.dest] = t]
<1> DEFINE t == IF b THEN Completed(DoomedTomb) ELSE Failed(DoomedTomb)
<1>1. doomed.point \in Points /\ doomed.dest \in Dests
  BY DoomedTyped
<1>2. DoomedTomb \in Tombs
  BY <1>1 DEF DoomedTomb, QInv, TypeOK
<1>3. t \in Tombs
  BY <1>2 DEF Completed, Failed, Tombs
<1>4. /\ t.state \in {"PENDING", "COMPLETED", "FAILED"}
      /\ t.state = "PENDING" => t.attempts < MaxAttempts
      /\ t.state = "COMPLETED" => b
  BY <1>2, NaturalBounds DEF Completed, Failed, Tombs
<1>5. tomb' = [tomb EXCEPT ![doomed.point][doomed.dest] = t]
  BY DEF FinishDelete, DoomedTomb
<1> HIDE DEF t
<1> QED BY <1>1, <1>3, <1>4, <1>5 DEF t

LEMMA DelaySets ==
    ASSUME QInv, NEW p \in Points, NEW d \in Dests, DelayPasses(p, d)
    PROVE  \E t \in Tombs :
               /\ t.state = "PENDING" /\ tomb[p][d].state = "PENDING" /\ t.attempts = tomb[p][d].attempts
               /\ tomb' = [tomb EXCEPT ![p][d] = t]
<1>1. tomb \in [Points -> [Dests -> Tombs]] /\ tomb[p][d] \in Tombs /\ tomb[p][d].state = "PENDING"
  BY DEF QInv, TypeOK, DelayPasses
<1> DEFINE t == [tomb[p][d] EXCEPT !.due = TRUE]
<1>2. t \in Tombs /\ t.state = "PENDING" /\ t.attempts = tomb[p][d].attempts
  BY <1>1 DEF Tombs
<1>3. tomb' = [tomb EXCEPT ![p][d] = t]
  BY <1>1 DEF DelayPasses
<1> QED BY <1>1, <1>2, <1>3

LEMMA EnqueueSets ==
    ASSUME QInv, Enqueue
    PROVE  /\ dpoint \in Points
           /\ tomb' \in [Points -> [Dests -> Tombs]]
           /\ \A p \in Points, d \in Dests :
                  tomb'[p][d] = IF p = dpoint /\ d \in dfound /\ Untouched(p, d)
                                THEN [state |-> "PENDING", attempts |-> 0, due |-> TRUE]
                                ELSE tomb[p][d]
<1>1. dpoint \in Points /\ tomb \in [Points -> [Dests -> Tombs]]
  BY NaturalBounds DEF Enqueue, QInv, SenderSound, TypeOK, Points
<1> DEFINE new == [d \in Dests |-> IF d \in dfound /\ Unmarked(dpoint, d)
                                   THEN [state |-> "PENDING", attempts |-> 0, due |-> TRUE]
                                   ELSE tomb[dpoint][d]]
<1>2. tomb' = [tomb EXCEPT ![dpoint] = new]
  BY DEF Enqueue
<1>3. [state |-> "PENDING", attempts |-> 0, due |-> TRUE] \in Tombs
  BY NaturalBounds DEF Tombs
<1>4. new \in [Dests -> Tombs]
  BY <1>1, <1>3
<1>7. \A d \in Dests : new[d] = IF d \in dfound /\ Untouched(dpoint, d)
                                 THEN [state |-> "PENDING", attempts |-> 0, due |-> TRUE]
                                 ELSE tomb[dpoint][d]
  BY DEF Unmarked, Untouched
<1> HIDE DEF new
<1>5. tomb' \in [Points -> [Dests -> Tombs]]
  BY <1>1, <1>2, <1>4
<1>6. \A p \in Points : tomb'[p] = IF p = dpoint THEN new ELSE tomb[p]
  BY <1>1, <1>2
<1> QED BY <1>1, <1>5, <1>6, <1>7

\* The steps that write a tombstone.
Marks ==
    \/ ClaimDelete \/ EraseAnswered \/ EraseUnanswered \/ EraseFails \/ Enqueue
    \/ \E p \in Points, d \in Dests : DelayPasses(p, d)

LEMMA TombsLeft == [Next]_vars => Marks \/ UNCHANGED tomb
BY DEF Next, vars, dataVars, Marks, Sender, Deleter, Finalize, ClaimReplica, ClaimNoReplica, ReadRow, RowGone, WriteRow,
       LoadWork, WorkFails, ClaimNoDelete, RetryReads, RetryWrites, DeleteBegins, EnqueueFails,
       RemoveLocal, RemoveFails, RemoveRow, BeginTransfer, FinishTransfer, StartPublish, StartErase,
       PublishAnswered, PublishUnanswered, Crash, Receive, Outage

LEMMA Erases ==
    EraseAnswered \/ EraseUnanswered \/ EraseFails =>
        /\ spc \in AtDelete
        /\ \E b \in BOOLEAN : FinishDelete(b) /\ (b => EraseAnswered /\ Confirmed)
BY DEF EraseAnswered, EraseUnanswered, EraseFails, AtDelete, Confirmed

\* A tombstone stays one.
LEMMA TombKept ==
    ASSUME QInv, [Next]_vars
    PROVE  /\ tomb' \in [Points -> [Dests -> Tombs]]
           /\ \A p \in Points, d \in Dests : ~Untouched(p, d) => ~Untouched(p, d)'
<1>t. TypeOK
  BY DEF QInv
<1>f. tomb \in [Points -> [Dests -> Tombs]]
  BY <1>t DEF TypeOK
<1>1. CASE ClaimDelete
  <2>1. PICK p \in Points, d \in Dests :
            /\ Counted(tomb[p][d]) \in Tombs
            /\ tomb' = [tomb EXCEPT ![p][d] = Counted(tomb[p][d])]
    BY <1>1, ClaimSets
  <2>2. Counted(tomb[p][d]).state = "RUNNING"
    BY <1>t DEF Counted, TypeOK, Tombs
  <2>3. /\ tomb'[p][d] = Counted(tomb[p][d]) /\ tomb' \in [Points -> [Dests -> Tombs]]
        /\ \A q \in Points, e \in Dests : (q # p \/ e # d) => tomb'[q][e] = tomb[q][e]
    <3>1. PICK t \in Tombs : t = Counted(tomb[p][d])
      BY <2>1
    <3>2. tomb' = [tomb EXCEPT ![p][d] = t]
      BY <2>1, <3>1
    <3>3. /\ tomb'[p][d] = t /\ tomb' \in [Points -> [Dests -> Tombs]]
          /\ \A q \in Points, e \in Dests : (q # p \/ e # d) => tomb'[q][e] = tomb[q][e]
      BY <1>f, <3>2
    <3> QED BY <3>1, <3>3
  <2>4. tomb'[p][d].state # "NONE"
    BY <2>2, <2>3
  <2>5. \A q \in Points, e \in Dests : tomb'[q][e] = tomb[q][e] \/ tomb'[q][e].state # "NONE"
    BY <2>3, <2>4
  <2> QED BY <2>3, <2>5 DEF Untouched
<1>2. CASE EraseAnswered \/ EraseUnanswered \/ EraseFails
  <2>1. PICK t \in Tombs :
            /\ t.state \in {"PENDING", "COMPLETED", "FAILED"}
            /\ tomb' = [tomb EXCEPT ![doomed.point][doomed.dest] = t]
            /\ doomed.point \in Points /\ doomed.dest \in Dests
    BY <1>2, Erases, FinishSets
  <2>2. /\ tomb'[doomed.point][doomed.dest] = t /\ tomb' \in [Points -> [Dests -> Tombs]]
        /\ \A q \in Points, e \in Dests :
               (q # doomed.point \/ e # doomed.dest) => tomb'[q][e] = tomb[q][e]
    <3>1. PICK p \in Points, d \in Dests : p = doomed.point /\ d = doomed.dest
      BY <2>1
    <3>2. tomb' = [tomb EXCEPT ![p][d] = t]
      BY <2>1, <3>1
    <3>3. /\ tomb'[p][d] = t /\ tomb' \in [Points -> [Dests -> Tombs]]
          /\ \A q \in Points, e \in Dests : (q # p \/ e # d) => tomb'[q][e] = tomb[q][e]
      BY <1>f, <3>2
    <3> QED BY <3>1, <3>3
  <2>3. tomb'[doomed.point][doomed.dest].state # "NONE"
    BY <2>1, <2>2
  <2>4. \A p \in Points, d \in Dests : tomb'[p][d] = tomb[p][d] \/ tomb'[p][d].state # "NONE"
    BY <2>2, <2>3
  <2> QED BY <2>2, <2>4 DEF Untouched
<1>3. CASE Enqueue
  BY <1>3, EnqueueSets DEF Untouched
<1>4. CASE \E p \in Points, d \in Dests : DelayPasses(p, d)
  BY <1>4, <1>t, DelaySets, TombSet DEF Untouched
<1>5. CASE UNCHANGED tomb
  BY <1>5 DEF Untouched, QInv, TypeOK
<1> QED BY <1>1, <1>2, <1>3, <1>4, <1>5, TombsLeft DEF Marks

LEMMA ReplicaTyped ==
    ASSUME QInv, [Next]_vars
    PROVE  replica' \in [Points -> Metadata]
<1>t. TypeOK /\ replica \in [Points -> Metadata] /\ points \subseteq Points
  BY PointsArePoints DEF QInv, TypeOK
<1>1. CASE ClaimReplica
  <2>1. PICK p \in points, d \in Dests : replica' = Claimed(p, d)
    BY <1>1 DEF ClaimReplica
  <2>2. "TRANSFERRING" \in States /\ "BLOCKED" \in States
    BY DEF States
  <2>3. \A q \in Points, e \in Dests :
            /\ [replica[q][e] EXCEPT !.state = "TRANSFERRING"] \in Entries
            /\ [replica[q][e] EXCEPT !.state = "BLOCKED"] \in Entries
            /\ replica[q][e] \in Entries
    BY <1>t, <2>2, EntrySet, EntryTyped
  <2> QED BY <2>1, <2>3 DEF Claimed, Metadata
<1>2. CASE ClaimNoReplica
  <2>1. "BLOCKED" \in States
    BY DEF States
  <2>2. \A q \in Points, e \in Dests :
            [replica[q][e] EXCEPT !.state = "BLOCKED"] \in Entries /\ replica[q][e] \in Entries
    BY <1>t, <2>1, EntrySet, EntryTyped
  <2> QED BY <1>2, <2>2 DEF ClaimNoReplica, Metadata
<1>3. CASE WriteRow
  BY <1>3, <1>t DEF WriteRow, QInv, TypeOK
<1>4. CASE RetryWrites
  <2>1. adest \in Dests /\ retries \in Tasks /\ \A q \in DOMAIN arows : arows[q] \in Metadata
    BY <1>4, NaturalBounds DEF RetryWrites, QInv, SenderSound, TypeOK, Tasks
  <2>2. [state |-> "PENDING", task |-> retries] \in Entries
    BY <2>1 DEF Entries, States
  <2>3. \A q \in DOMAIN arows : [arows[q] EXCEPT ![adest] = [state |-> "PENDING", task |-> retries]] \in Metadata
    BY <2>1, <2>2 DEF Metadata
  <2> QED BY <1>4, <1>t, <2>3 DEF RetryWrites
<1>5. CASE RemoveRow
  BY <1>5, <1>t, NothingTyped DEF RemoveRow
<1>6. CASE UNCHANGED replica
  BY <1>6, <1>t
<1>7. \/ ClaimReplica \/ ClaimNoReplica \/ WriteRow \/ RetryWrites \/ RemoveRow \/ UNCHANGED replica
  BY DEF Next, vars, dataVars, Sender, Deleter, Finalize, ReadRow, RowGone, LoadWork, WorkFails,
         ClaimDelete, ClaimNoDelete, EraseFails, FinishDelete, DelayPasses, RetryReads, DeleteBegins, Enqueue,
         EnqueueFails, RemoveLocal, RemoveFails, BeginTransfer, FinishTransfer, StartPublish,
         StartErase, PublishAnswered, PublishUnanswered, EraseAnswered, EraseUnanswered, Crash,
         Receive, Outage
<1> QED BY <1>1, <1>2, <1>3, <1>4, <1>5, <1>6, <1>7

LEMMA RowTyped ==
    ASSUME QInv, [Next]_vars
    PROVE  row' \in Metadata
<1>t. TypeOK /\ row \in Metadata
  BY DEF QInv, TypeOK
<1>1. CASE ReadRow
  <2>1. work.point \in Points /\ work.dest \in Dests
    BY <1>1, WorkTyped DEF ReadRow, AtWork
  <2>2. replica[work.point] \in Metadata /\ replica[work.point][work.dest] \in Entries
    BY <1>t, <2>1 DEF TypeOK, Metadata
  <2>3. UpdatedEntry(replica[work.point][work.dest]) \in Entries
    BY <2>2, EntrySet DEF UpdatedEntry
  <2>4. row' = [replica[work.point] EXCEPT ![work.dest] = UpdatedEntry(replica[work.point][work.dest])]
    BY <1>1 DEF ReadRow
  <2> QED BY <2>2, <2>3, <2>4 DEF Metadata
<1>2. CASE row' \in {row, NoMetadata}
  BY <1>2, <1>t, NothingTyped
<1>3. ReadRow \/ row' \in {row, NoMetadata}
  BY DEF Next, vars, senderVars, Sender, Deleter, Finalize, RowGone, LoadWork, WorkFails, ClaimReplica, ClaimNoReplica,
         ClaimDelete, ClaimNoDelete, EraseFails, FinishDelete, DelayPasses, RetryReads, DeleteBegins, Enqueue,
         EnqueueFails, RemoveLocal, RemoveFails, BeginTransfer, FinishTransfer, StartPublish, WriteRow, RetryWrites,
         StartErase, PublishAnswered, PublishUnanswered, EraseAnswered, EraseUnanswered, Crash,
         Receive, Outage, RemoveRow
<1> QED BY <1>1, <1>2, <1>3

\* The program counters and what they go with.
LEMMA SenderTyped ==
    ASSUME QInv, [Next]_vars
    PROVE  /\ spc' \in SenderPcs /\ update' \in Updates
           /\ work' \in Works \cup {NoWork} /\ doomed' \in Attempts \cup {NoWork}
<1>t. TypeOK /\ points \subseteq Points
  BY PointsArePoints DEF QInv
<1> USE DEF SenderPcs, Updates
<1>1. CASE Aside
  <2>1. CASE ClaimReplica
    <3>1. PICK p \in points, d \in Dests : work' = [point |-> p, dest |-> d, id |-> replica[p][d].task]
      BY <2>1 DEF ClaimReplica
    <3>2. replica[p][d].task \in Tasks
      BY <1>t, <3>1, EntryTyped DEF Entries
    <3>3. work' \in Works
      BY <1>t, <3>1, <3>2 DEF Works
    <3> QED BY <1>t, <2>1, <3>3 DEF ClaimReplica, TypeOK
  <2>2. CASE ClaimDelete
    BY <1>t, <2>2, ClaimSets DEF ClaimDelete, TypeOK
  <2>3. CASE EraseFails
    BY <1>t, <2>3 DEF EraseFails, FinishDelete, TypeOK
  <2>4. CASE WriteRow
    BY <1>t, <2>4 DEF WriteRow, AfterWrite, TypeOK
  <2>5. CASE ClaimNoReplica \/ ReadRow \/ RowGone \/ LoadWork \/ WorkFails \/ ClaimNoDelete
    BY <1>t, <2>5 DEF ClaimNoReplica, ReadRow, RowGone, LoadWork, WorkFails, ClaimNoDelete, Updating, TypeOK
  <2>6. CASE UNCHANGED <<spc, update, work, doomed>>
    BY <1>t, <2>6 DEF TypeOK
  <2>7. \/ ClaimReplica \/ ClaimDelete \/ EraseFails \/ WriteRow \/ ClaimNoReplica \/ ReadRow \/ RowGone
        \/ LoadWork \/ WorkFails \/ ClaimNoDelete \/ UNCHANGED <<spc, update, work, doomed>>
    BY <1>1 DEF Aside, Finalize, DelayPasses, RetryReads, RetryWrites, DeleteBegins, Deleter, Enqueue, EnqueueFails,
                RemoveLocal, RemoveFails, RemoveRow, senderVars
  <2> QED BY <2>1, <2>2, <2>3, <2>4, <2>5, <2>6, <2>7
<1>2. CASE Hangs
  BY <1>t, <1>2 DEF Hangs, PublishAnswered, PublishUnanswered, EraseAnswered, EraseUnanswered, Crash, FinishDelete,
                    Updating, TypeOK
<1>3. CASE BeginTransfer \/ FinishTransfer \/ StartPublish \/ StartErase
  BY <1>t, <1>3 DEF BeginTransfer, FinishTransfer, StartPublish, StartErase, Updating, TypeOK
<1>4. CASE Receive \/ Outage \/ UNCHANGED vars
  BY <1>t, <1>4 DEF Receive, Outage, vars, senderVars, TypeOK
<1> QED BY <1>1, <1>2, <1>3, <1>4, StepKinds

LEMMA RestTyped ==
    ASSUME QInv, [Next]_vars
    PROVE  /\ created' \in 0 .. MaxPoint /\ points' \subseteq 1 .. created' /\ local' \subseteq 1 .. created'
           /\ apc' \in {"idle", "retry"} /\ adest' \in Dests \cup {0}
           /\ DOMAIN arows' \subseteq Points /\ \A q \in DOMAIN arows' : arows'[q] \in Metadata
           /\ dpc' \in {"idle", "enqueue", "remove", "row"} /\ dpoint' \in 0 .. MaxPoint
           /\ dfound' \subseteq Dests
           /\ retries' \in 0 .. MaxTask /\ crashes' \in 0 .. MaxCrashes /\ outages' \in 0 .. MaxOutages
<1>t. TypeOK /\ points \subseteq Points
  BY PointsArePoints DEF QInv
<1>1. CASE Finalize
  <2>1. created \in Nat /\ created + 1 \in 0 .. MaxPoint /\ 1 .. created \subseteq 1 .. created + 1
        /\ created + 1 \in 1 .. created + 1
    BY <1>1, <1>t, NaturalBounds DEF Finalize, TypeOK
  <2> QED BY <1>1, <1>t, <2>1 DEF Finalize, TypeOK, apiVars, deleterVars, bounds
<1>2. CASE \E p \in Points, d \in Dests : RetryReads(p, d)
  <2>1. PICK p \in Points, d \in Dests : RetryReads(p, d)
    BY <1>2
  <2>2. Chain(p) \subseteq points
    BY DEF Chain
  <2>3. arows' = [q \in Chain(p) |-> replica[q]]
    BY <2>1 DEF RetryReads
  <2>4. DOMAIN arows' \subseteq Points /\ \A q \in DOMAIN arows' : arows'[q] \in Metadata
    BY <1>t, <2>2, <2>3 DEF TypeOK
  <2> QED BY <2>1, <1>t, <2>4, NaturalBounds DEF RetryReads, TypeOK, dataVars, deleterVars
<1>3. CASE RetryWrites
  BY <1>3, <1>t DEF RetryWrites, TypeOK, deleterVars, bounds
<1>4. CASE \E p \in Points : DeleteBegins(p)
  BY <1>4, <1>t, NaturalBounds DEF DeleteBegins, TypeOK, dataVars, apiVars, bounds, Points
<1>5. CASE Deleter
  <2>1. 0 \in 0 .. MaxPoint
    BY NaturalBounds
  <2>2. CASE Enqueue \/ EnqueueFails
    BY <1>t, <2>2 DEF Enqueue, EnqueueFails, TypeOK, dataVars, apiVars, bounds
  <2>3. CASE RemoveLocal \/ RemoveFails \/ RemoveRow
    BY <1>t, <2>1, <2>3 DEF RemoveLocal, RemoveFails, RemoveRow, DeleteEnds, TypeOK, dataVars, apiVars, bounds
  <2> QED BY <1>5, <2>2, <2>3 DEF Deleter
<1>6. CASE Crash
  BY <1>6, <1>t, NaturalBounds DEF Crash, DeleteEnds, TypeOK, dataVars
<1>7. CASE Outage
  BY <1>7, <1>t, NaturalBounds, ReplicaAssumption DEF Outage, TypeOK, dataVars, apiVars, deleterVars
<1>8. CASE UNCHANGED <<created, points, local, apiVars, deleterVars, bounds>>
  BY <1>8, <1>t DEF TypeOK, apiVars, deleterVars, bounds
<1>9. \/ Finalize \/ (\E p \in Points, d \in Dests : RetryReads(p, d)) \/ RetryWrites
      \/ (\E p \in Points : DeleteBegins(p)) \/ Deleter \/ Crash \/ Outage
      \/ UNCHANGED <<created, points, local, apiVars, deleterVars, bounds>>
  BY DEF Next, vars, dataVars, Sender, ReadRow, RowGone, LoadWork, WorkFails, ClaimReplica, ClaimNoReplica,
         ClaimDelete, ClaimNoDelete, EraseFails, FinishDelete, DelayPasses, BeginTransfer, FinishTransfer,
         StartPublish, WriteRow, StartErase, PublishAnswered, PublishUnanswered, EraseAnswered,
         EraseUnanswered, Receive
<1> QED BY <1>1, <1>2, <1>3, <1>4, <1>5, <1>6, <1>7, <1>8, <1>9

LEMMA TypeKept == ASSUME QInv, [Next]_vars PROVE TypeOK'
<1>1. ReceiverTypeOK'
  BY ReceiverInvKept DEF ReceiverInv
<1> QED BY <1>1, TombKept, ReplicaTyped, RowTyped, SenderTyped, RestTyped DEF TypeOK

-----------------------------------------------------------------------------
(* What a step does to the calls and the store of the receiver.            *)

LEMMA ServedTyped ==
    ASSUME QInv, NEW d \in Dests, serving[d] # Idle
    PROVE  /\ serving[d].call \in Calls /\ OnWay(serving[d].call) /\ serving[d].call.dest = d
           /\ serving[d].step \in Steps /\ serving[d] = [call |-> serving[d].call, step |-> serving[d].step]
<1>1. serving[d] \in [call : Calls, step : Steps]
  BY DEF QInv, TypeOK, ReceiverTypeOK
<1>2. /\ serving[d].call \in Calls /\ serving[d].step \in Steps
      /\ serving[d] = [call |-> serving[d].call, step |-> serving[d].step]
  BY <1>1
<1>3. Sound(d, serving[d].call, serving[d].step)
  BY <1>2 DEF QInv, ReceiverInv, ServingSound
<1>4. serving[d].call.dest = d
  BY <1>3 DEF Sound, PublishSound, DeleteSound
<1> QED BY <1>2, <1>4 DEF OnWay

\* A call that is served changes the queue and its own lock.
LEMMA ServeLocks ==
    ASSUME QInv, NEW c \in Pending, Serve(c)
    PROVE  /\ c \in Calls /\ c.dest \in Dests
           /\ queue' = queue \ {c} \/ (queue' = queue /\ \E s \in Steps : At(c, s))
           /\ serving' = serving \/ serving' = [serving EXCEPT ![c.dest] = Idle]
              \/ \E s \in Steps : serving' = [serving EXCEPT ![c.dest] = [call |-> c, step |-> s]]
<1>1. c \in Calls /\ c.dest \in Dests
  BY PendingOnWay DEF Calls
<1>3. /\ "place" \in Steps /\ "move" \in Steps /\ "mark" \in Steps
      /\ "remove" \in Steps /\ "unlink" \in Steps
  BY DEF Steps
<1>2. queue' = queue \ {c} \/ (queue' = queue /\ \E s \in Steps : At(c, s))
  BY <1>3 DEF Serve, PublishAgain, PublishStarts, WriteIntent, ResumeMoved, Move, WriteMarker,
              DeleteStarts, RemoveSome, RemoveAll, Unlink, StepFails, Locks
<1>4. serving' = serving \/ serving' = [serving EXCEPT ![c.dest] = Idle]
      \/ \E s \in Steps : serving' = [serving EXCEPT ![c.dest] = [call |-> c, step |-> s]]
  BY <1>3 DEF Serve, PublishAgain, PublishStarts, WriteIntent, ResumeMoved, Move, WriteMarker,
              DeleteStarts, RemoveSome, RemoveAll, Unlink, StepFails, Goes, Returns
<1> QED BY <1>1, <1>2, <1>4

\* What is on its way was on it, or is called for now.
LEMMA OnWayStep ==
    ASSUME QInv, [Next]_vars, NEW c \in Calls, OnWay(c)'
    PROVE  OnWay(c) \/ (StartPublish /\ c = Publication) \/ (StartErase /\ c = Deletion)
<1>1. CASE UNCHANGED <<queue, serving>>
  BY <1>1 DEF OnWay
<1>2. CASE StartPublish
  BY <1>2 DEF StartPublish, Publication, OnWay
<1>3. CASE StartErase
  BY <1>3 DEF StartErase, Deletion, OnWay
<1>4. CASE Receive
  <2>1. PICK b \in Pending : Serve(b)
    BY <1>4 DEF Receive, Reception
  <2>2. OnWay(b) /\ b.dest \in Dests
    BY <2>1, PendingOnWay, ServeLocks
  <2>3. CASE c \in queue'
    BY <2>1, <2>3, ServeLocks DEF OnWay
  <2>4. CASE c \notin queue'
    <3>1. PICK d \in Dests : serving'[d] # Idle /\ serving'[d].call = c
      BY <2>4 DEF OnWay
    <3>s. serving \in [Dests -> [call : Calls, step : Steps] \cup {Idle}]
      BY DEF QInv, TypeOK, ReceiverTypeOK
    <3>2. CASE serving' = serving \/ serving' = [serving EXCEPT ![b.dest] = Idle]
      BY <2>2, <3>s, <3>1, <3>2 DEF OnWay
    <3>3. ASSUME NEW s \in Steps, serving' = [serving EXCEPT ![b.dest] = [call |-> b, step |-> s]]
          PROVE  OnWay(c)
      <4>1. CASE d = b.dest
        <5>1. serving'[d] = [call |-> b, step |-> s]
          BY <2>2, <3>s, <3>3, <4>1
        <5>2. c = b
          BY <3>1, <5>1
        <5> QED BY <2>2, <5>2
      <4>2. CASE d # b.dest
        <5>1. serving'[d] = serving[d]
          BY <3>s, <3>3, <4>2
        <5> QED BY <3>1, <5>1 DEF OnWay
      <4> QED BY <4>1, <4>2
    <3> QED BY <2>1, <3>2, <3>3, ServeLocks
  <2> QED BY <2>3, <2>4
<1>5. CASE Outage
  BY <1>5 DEF Outage, Interrupted, OnWay
<1>6. CASE BeginTransfer \/ FinishTransfer
  BY <1>1, <1>6 DEF BeginTransfer, FinishTransfer
<1>7. CASE Hangs
  BY <1>1, <1>7, HangsUp DEF HangUp
<1>8. CASE Aside \/ UNCHANGED vars
  BY <1>1, <1>8, AsideLeaves DEF serviceVars, vars, receiver
<1> QED BY <1>2, <1>3, <1>4, <1>5, <1>6, <1>7, <1>8, StepKinds

\* The store changes by the steps of the receiver alone, the stages also by a transfer.
LEMMA StoreLeft ==
    [Next]_vars => Receive \/ (UNCHANGED <<bundle, marker>> /\ (UNCHANGED stage \/ BeginTransfer \/ FinishTransfer))
<1>1. Aside \/ UNCHANGED vars => UNCHANGED storeVars
  BY AsideLeaves DEF serviceVars, vars, receiver
<1>2. Hangs \/ StartPublish \/ StartErase \/ Outage => UNCHANGED storeVars
  BY HangsUp DEF HangUp, StartPublish, StartErase, Outage, Interrupted
<1>3. BeginTransfer \/ FinishTransfer => UNCHANGED <<bundle, marker>>
  BY DEF BeginTransfer, FinishTransfer
<1> QED BY <1>1, <1>2, <1>3, StepKinds DEF storeVars

\* Only publication goes through its stages, and from a completed one.
LEMMA ServeStages ==
    ASSUME QInv, NEW c \in Pending, Serve(c), NEW t \in Transfers
    PROVE  stage'[t] = stage[t] \/ (stage[t] \in {"COMPLETE", "INTENT"} /\ stage'[t] \in {"INTENT", "MOVED"})
<1>t. stage \in [Transfers -> Stages] /\ c \in Calls /\ Proper(c) /\ ReceiverInv
  BY PendingOnWay DEF QInv, TypeOK, ReceiverTypeOK
<1>0. \A s \in Steps : At(c, s) => Sound(c.dest, c, s)
  BY <1>t, ServedIsSound
<1>1. CASE WriteIntent(c)
  <2>1. Sound(c.dest, c, "place")
    BY <1>1, <1>0 DEF WriteIntent, Steps
  <2>2. <<c.point, c.dest, c.id>> \in Transfers
    BY <1>t, <2>1 DEF Sound, PublishSound, Proper, Calls, Transfers
  <2> QED BY <1>1, <1>t, <2>2 DEF WriteIntent, Advance, Stage
<1>2. CASE Move(c)
  <2>1. Sound(c.dest, c, "move")
    BY <1>2, <1>0 DEF Move, Steps
  <2>2. <<c.point, c.dest, c.id>> \in Transfers /\ stage[<<c.point, c.dest, c.id>>] = "INTENT"
    BY <1>t, <2>1 DEF Sound, PublishSound, Proper, Calls, Transfers, Stage
  <2> QED BY <1>2, <1>t, <2>2 DEF Move, Advance
<1>3. CASE UNCHANGED stage
  BY <1>3
<1>4. WriteIntent(c) \/ Move(c) \/ UNCHANGED stage
  BY DEF Serve, PublishAgain, PublishStarts, ResumeMoved, WriteMarker,
         DeleteStarts, RemoveSome, RemoveAll, Unlink, StepFails, storeVars
<1> QED BY <1>1, <1>2, <1>3, <1>4

\* A transfer that is staged stays so.
LEMMA StageKept ==
    ASSUME QInv, [Next]_vars, NEW t \in Transfers, stage[t] # "NONE"
    PROVE  stage'[t] # "NONE"
<1>1. CASE Receive
  BY <1>1, ServeStages DEF Receive, Reception
<1>2. CASE BeginTransfer \/ FinishTransfer
  BY <1>2 DEF BeginTransfer, FinishTransfer, QInv, TypeOK, ReceiverTypeOK
<1> QED BY <1>1, <1>2, StoreLeft

\* Of a replica whose deletion was not asked for, publication and nothing else
\* changes what the receiver holds.
LEMMA ServeStore ==
    ASSUME QInv, NEW c \in Pending, Serve(c), NEW p \in Points, NEW d \in Dests, Untouched(p, d)
    PROVE  /\ bundle'[d][p] = bundle[d][p] \/ (bundle[d][p] = "NONE" /\ bundle'[d][p] = "WHOLE")
           /\ marker'[d][p] = marker[d][p] \/ (marker'[d][p] # NoTask /\ bundle'[d][p] = "WHOLE")
<1>t. /\ bundle \in [Dests -> [Points -> {"NONE", "WHOLE", "PARTIAL"}]]
      /\ marker \in [Dests -> [Points -> Tasks \cup {NoTask}]]
      /\ c \in Calls /\ c.point \in Points /\ c.dest \in Dests /\ Proper(c) /\ ReceiverInv
  BY PendingOnWay DEF QInv, TypeOK, ReceiverTypeOK, Calls
<1>0. \A s \in Steps : At(c, s) => Sound(c.dest, c, s)
  BY <1>t, ServedIsSound
<1>1. CASE Move(c)
  BY <1>1, <1>t DEF Move, SetBundle, PathFree, Bundle
<1>2. CASE WriteMarker(c)
  <2>1. Sound(c.dest, c, "mark")
    BY <1>2, <1>0 DEF WriteMarker, Steps
  <2>2. bundle[c.dest][c.point] = "WHOLE" /\ c.id \in Tasks
    BY <2>1 DEF Sound, PublishSound, Proper, Bundle
  <2>3. c.id # NoTask
    BY <2>2, NothingTyped
  <2> QED BY <1>2, <1>t, <2>2, <2>3 DEF WriteMarker
<1>3. CASE RemoveSome(c) \/ RemoveAll(c) \/ Unlink(c)
  <2>1. Sound(c.dest, c, "remove") \/ Sound(c.dest, c, "unlink")
    BY <1>3, <1>0 DEF RemoveSome, RemoveAll, Unlink, Steps
  <2>2. c.kind = "DELETE"
    BY <2>1 DEF Sound, DeleteSound
  <2>3. ~Untouched(c.point, c.dest)
    BY <1>t, <2>2, PendingOnWay DEF QInv, CallsSound
  <2>4. p # c.point \/ d # c.dest
    BY <2>3
  <2> QED BY <1>3, <1>t, <2>4 DEF RemoveSome, RemoveAll, Unlink, SetBundle
<1>4. CASE UNCHANGED <<bundle, marker>>
  BY <1>4
<1>5. \/ Move(c) \/ WriteMarker(c) \/ RemoveSome(c) \/ RemoveAll(c) \/ Unlink(c)
      \/ UNCHANGED <<bundle, marker>>
  BY DEF Serve, PublishAgain, PublishStarts, WriteIntent, ResumeMoved, DeleteStarts, StepFails, storeVars
<1> QED BY <1>1, <1>2, <1>3, <1>4, <1>5

LEMMA WholeKept == ASSUME QInv, [Next]_vars PROVE UntouchedWhole'
<1> SUFFICES ASSUME NEW p \in Points, NEW d \in Dests, Untouched(p, d)', Published(d, p)'
             PROVE  bundle'[d][p] = "WHOLE"
  BY DEF UntouchedWhole
<1>1. Untouched(p, d)
  BY TombKept
<1>2. Published(d, p) => bundle[d][p] = "WHOLE"
  BY <1>1 DEF QInv, UntouchedWhole
<1>3. CASE Receive
  BY <1>1, <1>2, <1>3, ServeStore DEF Receive, Reception, Published
<1> QED BY <1>2, <1>3, StoreLeft DEF Published

LEMMA HeldKept ==
    ASSUME QInv, [Next]_vars, NEW p \in Points, NEW d \in Dests, Held(p, d)
    PROVE  Held(p, d)'
<1> SUFFICES ASSUME Untouched(p, d)' PROVE Readable(d, p)'
  BY DEF Held
<1>1. Untouched(p, d) /\ Readable(d, p)
  BY TombKept DEF Held
<1>2. CASE Receive
  BY <1>1, <1>2, ServeStore DEF Receive, Reception, Readable, Published
<1> QED BY <1>1, <1>2, StoreLeft DEF Readable, Published

-----------------------------------------------------------------------------
(* The sender, its work and its calls.                                     *)

\* The steps of the sender at a replica, which stays its work.
WorkStep ==
    \/ ReadRow \/ RowGone \/ LoadWork \/ WorkFails \/ BeginTransfer \/ FinishTransfer
    \/ StartPublish \/ PublishAnswered \/ PublishUnanswered

\* The steps after which the sender has no work on a replica.
Leaving == ClaimDelete \/ ClaimNoDelete \/ StartErase \/ EraseAnswered \/ EraseUnanswered \/ EraseFails
           \/ ClaimNoReplica \/ Crash

LEMMA SenderSteps ==
    [Next]_vars => WorkStep \/ WriteRow \/ ClaimReplica \/ Leaving \/ UNCHANGED senderVars
BY DEF Next, vars, Sender, Deleter, WorkStep, Leaving, Finalize, DelayPasses, RetryReads, RetryWrites,
       DeleteBegins, Enqueue, EnqueueFails, RemoveLocal, RemoveFails, RemoveRow, Receive, Outage

LEMMA WorkingOn ==
    WorkStep => /\ spc \in AtWork /\ work' = work /\ UNCHANGED <<tomb, points, replica, doomed, crashes>>
                /\ spc' \in AtWork \cup {"dead"}
                /\ spc' \in {"read", "write"} => update' # "none" \/ update' = update
BY DEF WorkStep, ReadRow, RowGone, LoadWork, WorkFails, BeginTransfer, FinishTransfer, StartPublish,
       PublishAnswered, PublishUnanswered, Updating, AtWork, dataVars, bounds

LEMMA LeavingWork ==
    Leaving => /\ spc' \in {"erase", "erasing", "replicate", "delete"} /\ UNCHANGED <<points>>
               /\ spc' \in AtDelete => ClaimDelete \/ StartErase
BY DEF Leaving, ClaimDelete, ClaimNoDelete, StartErase, EraseAnswered, EraseUnanswered, EraseFails,
       FinishDelete, ClaimNoReplica, Crash, AtDelete, dataVars

\* A row written in the middle of the work is not the end of it.
LEMMA Written ==
    ASSUME WriteRow, update \in Updates
    PROVE  /\ spc = "write" /\ spc' \in {"transfer", "read", "publish", "delete"}
           /\ spc' # "delete" => work' = work /\ update \in {"plan", "progress", "VERIFYING"}
           /\ spc' = "read" => update = "progress" /\ update' = "VERIFYING"
           /\ spc' = "publish" => update = "VERIFYING"
           /\ UNCHANGED <<tomb, doomed, crashes>>
BY DEF WriteRow, AfterWrite, Updates, bounds

LEMMA ClaimsWork ==
    ASSUME QInv, ClaimReplica
    PROVE  work' \in Works /\ spc' = "load" /\ UNCHANGED <<tomb, doomed, update, crashes>>
<1>1. PICK p \in points, d \in Dests : work' = [point |-> p, dest |-> d, id |-> replica[p][d].task]
  BY DEF ClaimReplica
<1>2. p \in Points /\ p # 0
  BY <1>1, PointsArePoints, NaturalBounds DEF QInv, Points
<1>3. work' # NoWork
  BY <1>1, <1>2 DEF NoWork
<1>4. work' \in Works \cup {NoWork}
  <2>1. [Next]_vars
    BY DEF Next, Sender
  <2> QED BY <2>1, SenderTyped
<1> QED BY <1>3, <1>4 DEF ClaimReplica, bounds

\* The tombstone that the sender works on is left to it.
LEMMA DoomedKept ==
    ASSUME QInv, [Next]_vars, spc \in AtDelete, spc' \in AtDelete
    PROVE  /\ doomed' = doomed /\ tomb'[doomed.point][doomed.dest] = DoomedTomb
           /\ spc' = spc \/ StartErase
<1>t. /\ TypeOK /\ doomed.point \in Points /\ doomed.dest \in Dests /\ DoomedTomb.state = "RUNNING"
  BY DoomedTyped DEF QInv
<1>1. CASE StartErase
  BY <1>1 DEF StartErase, dataVars, DoomedTomb
<1>2. CASE UNCHANGED senderVars
  <2>1. CASE Enqueue
    BY <1>2, <2>1, <1>t, EnqueueSets DEF senderVars, Untouched, DoomedTomb
  <2>2. CASE \E p \in Points, d \in Dests : DelayPasses(p, d)
    <3>1. PICK p \in Points, d \in Dests : DelayPasses(p, d)
      BY <2>2
    <3>2. PICK t \in Tombs : tomb[p][d].state = "PENDING" /\ tomb' = [tomb EXCEPT ![p][d] = t]
      BY <3>1, DelaySets
    <3>3. p # doomed.point \/ d # doomed.dest
      BY <3>2, <1>t DEF DoomedTomb
    <3> QED BY <1>2, <1>t, <3>2, <3>3, TombSet DEF senderVars, DoomedTomb
  <2>3. CASE UNCHANGED tomb
    BY <1>2, <2>3 DEF senderVars, DoomedTomb
  <2>4. ~(ClaimDelete \/ EraseAnswered \/ EraseUnanswered \/ EraseFails)
    BY <1>2 DEF senderVars, ClaimDelete, EraseAnswered, EraseUnanswered, EraseFails, FinishDelete
  <2> QED BY <1>2, <2>1, <2>2, <2>3, <2>4, TombsLeft DEF Marks, senderVars
<1>3. ~(WorkStep \/ WriteRow \/ ClaimReplica \/ ClaimDelete)
  BY WorkingOn DEF AtWork, AtDelete, WriteRow, ClaimReplica, ClaimDelete
<1> QED BY <1>1, <1>2, <1>3, SenderSteps, LeavingWork

LEMMA SenderKept == ASSUME QInv, [Next]_vars PROVE SenderSound'
<1>t. TypeOK /\ SenderSound /\ update \in Updates
  BY DEF QInv, TypeOK
<1>1. spc' \in AtWork => work' \in Works
  <2>1. CASE WorkStep
    BY <1>t, <2>1, WorkingOn DEF SenderSound
  <2>2. CASE WriteRow
    BY <1>t, <2>2, Written DEF SenderSound, AtWork
  <2>3. CASE ClaimReplica
    BY <2>3, ClaimsWork
  <2>4. CASE Leaving
    BY <2>4, LeavingWork DEF AtWork
  <2>5. CASE UNCHANGED senderVars
    BY <1>t, <2>5 DEF senderVars, SenderSound
  <2> QED BY <2>1, <2>2, <2>3, <2>4, <2>5, SenderSteps
<1>2. spc' \in AtDelete => doomed' \in Attempts /\ DoomedTomb'.state = "RUNNING"
  <2> SUFFICES ASSUME spc' \in AtDelete PROVE doomed' \in Attempts /\ DoomedTomb'.state = "RUNNING"
    OBVIOUS
  <2>1. CASE spc \in AtDelete
    BY <1>t, <2>1, DoomedKept DEF SenderSound, DoomedTomb
  <2>2. CASE spc \notin AtDelete
    <3>1. ClaimDelete
      <4>1. ~StartErase
        BY <2>2 DEF StartErase, AtDelete
      <4>2. CASE WorkStep
        BY <4>2, WorkingOn DEF AtWork, AtDelete
      <4>3. CASE WriteRow
        BY <1>t, <4>3, Written DEF AtDelete
      <4>4. CASE ClaimReplica
        BY <4>4 DEF ClaimReplica, AtDelete
      <4>5. CASE UNCHANGED senderVars
        BY <2>2, <4>5 DEF senderVars
      <4> QED BY <4>1, <4>2, <4>3, <4>4, <4>5, SenderSteps, LeavingWork
    <3>2. PICK p \in Points, d \in Dests :
              /\ Counted(tomb[p][d]) \in Tombs
              /\ tomb' = [tomb EXCEPT ![p][d] = Counted(tomb[p][d])]
              /\ doomed' = [point |-> p, dest |-> d, id |-> tomb[p][d].attempts + 1]
              /\ doomed' \in Attempts
      BY <3>1, ClaimSets
    <3>3. Counted(tomb[p][d]).state = "RUNNING"
      BY <1>t DEF Counted, TypeOK, Tombs
    <3>4. tomb'[p][d] = Counted(tomb[p][d])
      BY <1>t, <3>2, TombSet
    <3>5. doomed'.point = p /\ doomed'.dest = d
      BY <3>2
    <3> QED BY <3>2, <3>3, <3>4, <3>5 DEF DoomedTomb
  <2> QED BY <2>1, <2>2
<1>3. spc' \in {"read", "write"} => update' # "none"
  <2>1. CASE WorkStep
    <3>1. CASE ReadRow
      BY <1>t, <3>1 DEF ReadRow, SenderSound
    <3>2. CASE ~ReadRow
      BY <2>1, <3>2 DEF WorkStep, RowGone, LoadWork, WorkFails, BeginTransfer, FinishTransfer, StartPublish,
                        PublishAnswered, PublishUnanswered, Updating
    <3> QED BY <3>1, <3>2
  <2>2. CASE WriteRow
    BY <1>t, <2>2, Written
  <2>3. CASE ClaimReplica
    BY <2>3, ClaimsWork
  <2>4. CASE Leaving
    BY <2>4, LeavingWork
  <2>5. CASE UNCHANGED senderVars
    BY <1>t, <2>5 DEF senderVars, SenderSound
  <2> QED BY <2>1, <2>2, <2>3, <2>4, <2>5, SenderSteps
<1>4. apc' = "retry" => adest' \in Dests
  <2>1. CASE \E p \in Points, d \in Dests : RetryReads(p, d)
    BY <2>1 DEF RetryReads
  <2>2. CASE apc' = "idle" \/ UNCHANGED apiVars
    BY <1>t, <2>2 DEF apiVars, SenderSound
  <2>3. (\E p \in Points, d \in Dests : RetryReads(p, d)) \/ apc' = "idle" \/ UNCHANGED apiVars
    BY DEF Next, vars, Sender, Deleter, Finalize, ReadRow, RowGone, LoadWork, WorkFails, ClaimReplica, ClaimNoReplica,
           ClaimDelete, ClaimNoDelete, EraseFails, FinishDelete, DelayPasses, DeleteBegins, Enqueue,
           EnqueueFails, RemoveLocal, RemoveFails, RemoveRow, BeginTransfer, FinishTransfer, StartPublish, WriteRow,
           RetryWrites, StartErase, PublishAnswered, PublishUnanswered, EraseAnswered, EraseUnanswered, Crash,
           Receive, Outage
  <2> QED BY <2>1, <2>2, <2>3
<1>5. dpc' # "idle" => dpoint' \in 1 .. created'
  <2>0. created \in Nat /\ points \subseteq 1 .. created
    BY <1>t, PointsArePoints
  <2>1. CASE Finalize
    <3>1. 1 .. created \subseteq 1 .. created + 1
      BY <2>0
    <3> QED BY <1>t, <2>1, <3>1 DEF Finalize, deleterVars, SenderSound
  <2>2. CASE \E p \in Points : DeleteBegins(p)
    BY <2>0, <2>2 DEF DeleteBegins, dataVars
  <2>3. CASE Deleter
    BY <1>t, <2>3 DEF Deleter, Enqueue, EnqueueFails, RemoveLocal, RemoveFails, RemoveRow, DeleteEnds, dataVars,
                      SenderSound
  <2>4. CASE Crash
    BY <2>4 DEF Crash, DeleteEnds
  <2>5. CASE UNCHANGED <<created, deleterVars>>
    BY <1>t, <2>5 DEF deleterVars, SenderSound
  <2>6. Finalize \/ (\E p \in Points : DeleteBegins(p)) \/ Deleter \/ Crash \/ UNCHANGED <<created, deleterVars>>
    BY DEF Next, vars, dataVars, Sender, ReadRow, RowGone, LoadWork, WorkFails, ClaimReplica, ClaimNoReplica,
           ClaimDelete, ClaimNoDelete, EraseFails, FinishDelete, DelayPasses, BeginTransfer, FinishTransfer,
           StartPublish, WriteRow, StartErase, PublishAnswered, PublishUnanswered, EraseAnswered,
           EraseUnanswered, Receive, RetryReads, RetryWrites, Outage
  <2> QED BY <2>1, <2>2, <2>3, <2>4, <2>5, <2>6
<1> QED BY <1>1, <1>2, <1>3, <1>4, <1>5 DEF SenderSound

\* Only the call that a sender waits for changes what it hears, when it returns.
LEMMA ServeAnswers ==
    ASSUME QInv, NEW c \in Pending, Serve(c)
    PROVE  /\ call' = call
           /\ answer' = answer \/ (c = call /\ serving' = [serving EXCEPT ![c.dest] = Idle])
BY DEF Serve, PublishAgain, PublishStarts, WriteIntent, ResumeMoved, Move, WriteMarker,
       DeleteStarts, RemoveSome, RemoveAll, Unlink, StepFails, Goes, Returns, Locks

\* What the sender does aside is no call.
LEMMA AsideCalls ==
    ASSUME Aside
    PROVE  \/ UNCHANGED <<spc, work, doomed, call, answer>>
           \/ /\ spc \notin {"publishing", "erasing"} /\ spc' \notin {"publishing", "erasing"}
              /\ UNCHANGED <<call, answer>>
<1>1. UNCHANGED <<call, answer>>
  BY AsideLeaves DEF serviceVars
<1>2. CASE UNCHANGED senderVars
  BY <1>1, <1>2 DEF senderVars
<1>3. CASE ~UNCHANGED senderVars
  <2>1. \/ ClaimReplica \/ ClaimNoReplica \/ ReadRow \/ RowGone \/ WriteRow \/ LoadWork
        \/ WorkFails \/ ClaimDelete \/ ClaimNoDelete \/ EraseFails
    BY <1>3 DEF Aside, Finalize, DelayPasses, RetryReads, RetryWrites, DeleteBegins, Deleter, Enqueue,
                EnqueueFails, RemoveLocal, RemoveFails, RemoveRow
  <2>2. spc \notin {"publishing", "erasing"} /\ spc' \notin {"publishing", "erasing"}
    BY <2>1 DEF ClaimReplica, ClaimNoReplica, ReadRow, RowGone, WriteRow, LoadWork, WorkFails, ClaimDelete,
                ClaimNoDelete, EraseFails, FinishDelete, Updating, AfterWrite
  <2> QED BY <1>1, <2>2
<1> QED BY <1>2, <1>3

LEMMA CallKept == ASSUME QInv, [Next]_vars PROVE CallSound'
<1>t. CallSound
  BY DEF QInv
<1>1. CASE Aside
  BY <1>t, <1>1, AsideCalls DEF CallSound, Publication, Deletion
<1>2. CASE Hangs
  <2>1. call' = NoCall /\ answer' = "none"
    BY <1>2, HangsUp DEF HangUp
  <2>2. spc' \notin {"publishing", "erasing"}
    BY <1>2 DEF Hangs, PublishAnswered, PublishUnanswered, EraseAnswered, EraseUnanswered, Crash, FinishDelete,
                Updating
  <2> QED BY <2>1, <2>2 DEF CallSound
<1>3. CASE BeginTransfer \/ FinishTransfer
  BY <1>t, <1>3 DEF BeginTransfer, FinishTransfer, Updating, CallSound
<1>4. CASE StartPublish
  BY <1>4 DEF StartPublish, CallSound, Publication
<1>5. CASE StartErase
  BY <1>5 DEF StartErase, CallSound, Deletion
<1>6. CASE Receive
  <2>1. PICK c \in Pending : Serve(c)
    BY <1>6 DEF Receive, Reception
  <2>2. UNCHANGED <<spc, work, doomed>>
    BY <1>6 DEF Receive, senderVars
  <2>3. c # NoCall
    BY <2>1, PendingOnWay, IdleIsNoCall
  <2> QED BY <1>t, <2>1, <2>2, <2>3, ServeAnswers DEF CallSound, Publication, Deletion
<1>7. CASE Outage \/ UNCHANGED vars
  BY <1>t, <1>7 DEF Outage, Interrupted, vars, senderVars, receiver, CallSound, Publication, Deletion
<1> QED BY <1>1, <1>2, <1>3, <1>4, <1>5, <1>6, <1>7, StepKinds

-----------------------------------------------------------------------------
(* Attempts.                                                               *)

AttemptSound(p, d) ==
    /\ tomb[p][d].state = "PENDING" => tomb[p][d].attempts < MaxAttempts
    /\ tomb[p][d].state = "RUNNING" =>
           IF spc \in AtDelete /\ doomed.point = p /\ doomed.dest = d
           THEN tomb[p][d].attempts <= MaxAttempts + crashes
           ELSE tomb[p][d].attempts < MaxAttempts + crashes

LEMMA AttemptsKept == ASSUME QInv, [Next]_vars PROVE AttemptsSound'
<1>t. TypeOK /\ crashes \in Nat /\ tomb \in [Points -> [Dests -> Tombs]]
  BY NaturalBounds DEF QInv, TypeOK
<1> SUFFICES ASSUME NEW p \in Points, NEW d \in Dests PROVE AttemptSound(p, d)'
  BY DEF AttemptsSound, AttemptSound
<1>0. AttemptSound(p, d) /\ tomb[p][d].attempts \in Nat
  BY <1>t, NaturalBounds DEF QInv, AttemptsSound, AttemptSound, Tombs
<1>1. CASE ClaimDelete
  <2>1. PICK q \in Points, e \in Dests :
            /\ Counted(tomb[q][e]) \in Tombs
            /\ tomb' = [tomb EXCEPT ![q][e] = Counted(tomb[q][e])]
            /\ doomed' = [point |-> q, dest |-> e, id |-> tomb[q][e].attempts + 1]
            /\ tomb[q][e].attempts + 1 <= MaxAttempts + crashes
    BY <1>1, ClaimSets
  <2>2. /\ spc \notin AtDelete /\ spc' \in AtDelete /\ crashes' = crashes
        /\ doomed'.point = q /\ doomed'.dest = e
    BY <1>1, <2>1 DEF ClaimDelete, AtDelete, bounds
  <2>3. CASE p = q /\ d = e
    <3>1. tomb'[p][d] = Counted(tomb[p][d])
      BY <1>t, <2>1, <2>3, TombSet
    <3>2. tomb[p][d] \in Tombs
      BY <1>t
    <3>3. tomb'[p][d].state = "RUNNING" /\ tomb'[p][d].attempts = tomb[p][d].attempts + 1
      BY <3>1, <3>2 DEF Counted, Tombs
    <3> QED BY <2>1, <2>2, <2>3, <3>3 DEF AttemptSound
  <2>4. CASE p # q \/ d # e
    <3>1. tomb'[p][d] = tomb[p][d]
      BY <1>t, <2>1, <2>4, TombSet
    <3> QED BY <1>0, <2>2, <2>4, <3>1 DEF AttemptSound
  <2> QED BY <2>3, <2>4
<1>2. CASE EraseAnswered \/ EraseUnanswered \/ EraseFails
  <2>1. spc \in AtDelete /\ spc' = "replicate" /\ crashes' = crashes
    BY <1>2 DEF EraseAnswered, EraseUnanswered, EraseFails, AtDelete, FinishDelete, bounds
  <2>2. PICK t \in Tombs :
            /\ t.state \in {"PENDING", "COMPLETED", "FAILED"}
            /\ t.state = "PENDING" => t.attempts < MaxAttempts
            /\ tomb' = [tomb EXCEPT ![doomed.point][doomed.dest] = t]
            /\ doomed.point \in Points /\ doomed.dest \in Dests
    BY <1>2, Erases, FinishSets
  <2>3. CASE p = doomed.point /\ d = doomed.dest
    <3>1. tomb'[p][d] = t
      BY <1>t, <2>2, <2>3, TombSet
    <3> QED BY <2>2, <3>1 DEF AttemptSound
  <2>4. CASE p # doomed.point \/ d # doomed.dest
    <3>1. tomb'[p][d] = tomb[p][d]
      BY <1>t, <2>2, <2>4, TombSet
    <3> QED BY <1>0, <2>1, <2>4, <3>1 DEF AttemptSound, AtDelete
  <2> QED BY <2>3, <2>4
<1>3. CASE Enqueue
  <2>1. UNCHANGED <<spc, doomed, crashes>>
    BY <1>3 DEF Enqueue, senderVars, bounds
  <2> QED BY <1>0, <1>3, <2>1, EnqueueSets, NaturalBounds DEF AttemptSound
<1>4. CASE \E q \in Points, e \in Dests : DelayPasses(q, e)
  <2>1. PICK q \in Points, e \in Dests : DelayPasses(q, e)
    BY <1>4
  <2>2. PICK t \in Tombs : /\ t.state = "PENDING" /\ tomb[q][e].state = "PENDING"
                           /\ t.attempts = tomb[q][e].attempts
                           /\ tomb' = [tomb EXCEPT ![q][e] = t]
    BY <2>1, DelaySets
  <2>3. UNCHANGED <<spc, doomed, crashes>>
    BY <2>1 DEF DelayPasses, senderVars, bounds
  <2>4. tomb'[p][d] = tomb[p][d] \/ (tomb'[p][d] = t /\ p = q /\ d = e)
    BY <1>t, <2>2, TombSet
  <2> QED BY <1>0, <2>2, <2>3, <2>4 DEF AttemptSound
<1>5. CASE ~Marks
  <2>1. UNCHANGED tomb
    BY <1>5, TombsLeft
  <2>2. CASE Crash
    <3>1. spc' \notin AtDelete /\ crashes' = crashes + 1
      BY <2>2 DEF Crash, AtDelete
    <3> QED BY <1>0, <1>t, <2>1, <3>1, NaturalBounds DEF AttemptSound
  <2>3. CASE ~Crash
    <3>1. crashes' = crashes
      BY <2>3 DEF Next, vars, bounds, Sender, Deleter, Finalize, ReadRow, RowGone, LoadWork, WorkFails, ClaimReplica,
             ClaimNoReplica, ClaimDelete, ClaimNoDelete, EraseFails, FinishDelete, DelayPasses, DeleteBegins, Enqueue,
             EnqueueFails, RemoveLocal, RemoveFails, RemoveRow, BeginTransfer, FinishTransfer, StartPublish, WriteRow,
             RetryReads, RetryWrites, StartErase, PublishAnswered, PublishUnanswered, EraseAnswered, EraseUnanswered,
             Receive, Outage
    <3>2. spc \in AtDelete => spc' \in AtDelete /\ doomed' = doomed
      <4> SUFFICES ASSUME spc \in AtDelete PROVE spc' \in AtDelete /\ doomed' = doomed
        OBVIOUS
      <4>1. ~(WorkStep \/ WriteRow \/ ClaimReplica \/ ClaimDelete \/ ClaimNoDelete \/ ClaimNoReplica)
        BY WorkingOn DEF AtWork, AtDelete, WriteRow, ClaimReplica, ClaimDelete, ClaimNoDelete, ClaimNoReplica
      <4>2. StartErase \/ UNCHANGED senderVars
        BY <1>5, <2>3, <4>1, SenderSteps DEF Leaving, Marks
      <4> QED BY <4>2 DEF StartErase, senderVars, AtDelete
    <3> QED BY <1>0, <1>t, <2>1, <3>1, <3>2, NaturalBounds DEF AttemptSound
  <2> QED BY <2>2, <2>3
<1> QED BY <1>1, <1>2, <1>3, <1>4, <1>5 DEF Marks

-----------------------------------------------------------------------------
(* The calls on their way.                                                 *)

LEMMA ServedOnce ==
    ASSUME QInv, NEW c \in Pending, Serve(c), queue' = queue, c.kind = "PUBLISH"
    PROVE  c \notin queue
<1>1. PICK s \in Steps : At(c, s) \/ c \notin queue
  BY ServeLocks DEF Steps
<1>2. CASE At(c, s)
  <2>1. c \in Calls /\ c.dest \in Dests
    BY ServeLocks
  <2>2. serving[c.dest] # Idle /\ serving[c.dest].call = c
    BY <1>2, <2>1, IdleIsNoCall DEF At
  <2> QED BY <2>1, <2>2 DEF QInv, CallsSound
<1> QED BY <1>1, <1>2

LEMMA OnceKept ==
    ASSUME QInv, [Next]_vars, NEW d \in Dests, serving'[d] # Idle, serving'[d].call.kind = "PUBLISH"
    PROVE  serving'[d].call \notin queue'
<1>0. serving[d] # Idle /\ serving[d].call.kind = "PUBLISH" => serving[d].call \notin queue
  BY DEF QInv, CallsSound
<1>t. serving \in [Dests -> [call : Calls, step : Steps] \cup {Idle}]
  BY DEF QInv, TypeOK, ReceiverTypeOK
<1>1. CASE UNCHANGED <<queue, serving>>
  BY <1>0, <1>1
<1>2. CASE StartPublish
  <2>1. queue' = queue \cup {Publication} /\ serving' = serving
    BY <1>2 DEF StartPublish, Publication
  <2>2. ~OnWay(Publication)
    BY <1>2 DEF QInv, CallsSound, BeforeCall, StartPublish
  <2> QED BY <1>0, <2>1, <2>2 DEF OnWay
<1>3. CASE StartErase
  <2>1. queue' = queue \cup {Deletion} /\ serving' = serving
    BY <1>3 DEF StartErase, Deletion
  <2>2. Deletion.kind # "PUBLISH"
    BY DEF Deletion
  <2> QED BY <1>0, <2>1, <2>2
<1>4. CASE Receive
  <2>1. PICK c \in Pending : Serve(c)
    BY <1>4 DEF Receive, Reception
  <2>2. c \in Calls /\ c.dest \in Dests /\ queue' \in {queue, queue \ {c}}
    BY <2>1, ServeLocks
  <2>3. CASE serving'[d] = serving[d]
    BY <1>0, <2>2, <2>3
  <2>4. ASSUME NEW s \in Steps, serving'[d] = [call |-> c, step |-> s] PROVE serving'[d].call \notin queue'
    <3>1. serving'[d].call = c
      BY <2>4
    <3>2. queue' = queue => c \notin queue
      BY <2>1, <3>1, ServedOnce
    <3> QED BY <2>2, <3>1, <3>2
  <2>5. serving'[d] = serving[d] \/ serving'[d] = Idle \/ \E s \in Steps : serving'[d] = [call |-> c, step |-> s]
    <3>1. CASE serving' = serving \/ serving' = [serving EXCEPT ![c.dest] = Idle]
      BY <1>t, <2>2, <3>1
    <3>2. ASSUME NEW s \in Steps, serving' = [serving EXCEPT ![c.dest] = [call |-> c, step |-> s]]
          PROVE  serving'[d] = serving[d] \/ serving'[d] = [call |-> c, step |-> s]
      BY <1>t, <2>2, <3>2
    <3> QED BY <2>1, <3>1, <3>2, ServeLocks
  <2> QED BY <2>3, <2>4, <2>5
<1>5. CASE Outage
  BY <1>5 DEF Outage, Interrupted
<1>6. CASE BeginTransfer \/ FinishTransfer
  BY <1>1, <1>6 DEF BeginTransfer, FinishTransfer
<1>7. CASE Hangs
  BY <1>1, <1>7, HangsUp DEF HangUp
<1>8. CASE Aside \/ UNCHANGED vars
  BY <1>1, <1>8, AsideLeaves DEF serviceVars, vars, receiver
<1> QED BY <1>2, <1>3, <1>4, <1>5, <1>6, <1>7, <1>8, StepKinds

\* A call that has returned to its sender is nowhere on its way.
LEMMA ReturnedIsGone ==
    ASSUME QInv, NEW c \in Pending, Serve(c), answer' # answer, c.kind = "PUBLISH"
    PROVE  ~OnWay(c)'
<1>t. serving \in [Dests -> [call : Calls, step : Steps] \cup {Idle}]
  BY DEF QInv, TypeOK, ReceiverTypeOK
<1>1. serving' = [serving EXCEPT ![c.dest] = Idle] /\ c \in Calls /\ c.dest \in Dests
  BY ServeAnswers, ServeLocks
<1>2. c \notin queue'
  BY ServeLocks, ServedOnce
<1>3. ASSUME NEW d \in Dests, serving'[d] # Idle, serving'[d].call = c PROVE FALSE
  <2>1. d # c.dest /\ serving'[d] = serving[d]
    BY <1>t, <1>1, <1>3
  <2>2. serving[d].call.dest = d
    BY <1>3, <2>1, ServedTyped
  <2> QED BY <1>3, <2>1, <2>2
<1> QED BY <1>2, <1>3 DEF OnWay

\* Before the call is made the sender comes from before the call.
LEMMA BeforeCallStep ==
    ASSUME QInv, [Next]_vars, BeforeCall', ~BeginTransfer
    PROVE  BeforeCall /\ work' = work /\ ~StartPublish
<1>t. update \in Updates
  BY DEF QInv, TypeOK
<1>1. CASE WorkStep
  BY <1>1 DEF WorkStep, ReadRow, RowGone, LoadWork, WorkFails, FinishTransfer, StartPublish,
              PublishAnswered, PublishUnanswered, Updating, BeforeCall
<1>2. CASE WriteRow
  BY <1>t, <1>2, Written DEF BeforeCall, StartPublish
<1>3. CASE ClaimReplica
  BY <1>3 DEF ClaimReplica, BeforeCall
<1>4. CASE Leaving
  BY <1>4, LeavingWork DEF BeforeCall
<1>5. CASE UNCHANGED senderVars
  BY <1>5 DEF senderVars, BeforeCall, StartPublish
<1> QED BY <1>1, <1>2, <1>3, <1>4, <1>5, SenderSteps

LEMMA BeforeCallKept ==
    ASSUME QInv, [Next]_vars, BeforeCall'
    PROVE  stage'[Transfer'] # "NONE" /\ \A c \in Calls : c = Publication' => ~OnWay(c)'
<1>1. CASE BeginTransfer
  <2>1. Transfer \in Transfers /\ Publication \in Calls
    BY <1>1, WorkTyped DEF BeginTransfer, AtWork
  <2>2. stage[Transfer] = "NONE" /\ stage' = [stage EXCEPT ![Transfer] = "RECEIVING"] /\ spc' = "sending"
        /\ UNCHANGED <<work, queue, serving>>
    BY <1>1 DEF BeginTransfer, Updating, BeforeCall
  <2>3. ~OnWay(Publication)
    <3>1. Stage(Publication) = "NONE" /\ Publication.kind = "PUBLISH"
      BY <2>2 DEF Stage, Publication, Transfer
    <3> QED BY <2>1, <3>1 DEF QInv, CallsSound
  <2>4. stage'[Transfer] = "RECEIVING"
    BY <2>1, <2>2 DEF QInv, TypeOK, ReceiverTypeOK
  <2>5. Transfer' = Transfer /\ Publication' = Publication
    BY <2>2 DEF Transfer, Publication
  <2> QED BY <2>2, <2>3, <2>4, <2>5 DEF OnWay
<1>2. CASE ~BeginTransfer
  <2>1. BeforeCall /\ work' = work /\ ~StartPublish
    BY <1>2, BeforeCallStep
  <2>2. Transfer' = Transfer /\ Publication' = Publication
    BY <2>1 DEF Transfer, Publication
  <2>3. spc \in AtWork
    BY <2>1 DEF BeforeCall, AtWork
  <2>4. Transfer \in Transfers /\ stage[Transfer] # "NONE" /\ ~OnWay(Publication)
    BY <2>1, <2>3, WorkTyped DEF QInv, CallsSound
  <2>5. stage'[Transfer] # "NONE"
    BY <2>4, StageKept
  <2>6. ASSUME NEW c \in Calls, c = Publication' PROVE ~OnWay(c)'
    <3>1. c = Publication /\ c.kind = "PUBLISH"
      BY <2>2, <2>6 DEF Publication
    <3>2. c # Deletion
      BY <3>1 DEF Deletion
    <3> QED BY <2>1, <2>4, <3>1, <3>2, OnWayStep
  <2> QED BY <2>2, <2>5, <2>6
<1> QED BY <1>1, <1>2

\* The sender hears of its publication when the call is over, and stores a
\* success after that.
LEMMA OverKept ==
    ASSUME QInv, [Next]_vars, NEW c \in Calls, c = Publication',
           \/ spc' = "publishing" /\ answer' # "none"
           \/ spc' \in {"read", "write"} /\ update' = "SUCCESS"
    PROVE  ~OnWay(c)'
<1>t. update \in Updates
  BY DEF QInv, TypeOK
<1>d. ASSUME c = Publication PROVE c # Deletion /\ c.kind = "PUBLISH"
  BY <1>d DEF Publication, Deletion
<1>1. CASE spc' = "publishing"
  <2>1. ~(ClaimReplica \/ WriteRow \/ Leaving)
    BY <1>t, <1>1, Written, LeavingWork DEF ClaimReplica
  <2>2. ~WorkStep
    BY <1>1 DEF WorkStep, ReadRow, RowGone, LoadWork, WorkFails, BeginTransfer, FinishTransfer, StartPublish,
                PublishAnswered, PublishUnanswered, Updating
  <2>3. UNCHANGED <<spc, work>>
    BY <2>1, <2>2, SenderSteps DEF senderVars
  <2>4. c = Publication /\ call = Publication
    BY <1>1, <2>3 DEF Publication, QInv, CallSound
  <2>5. CASE answer # "none"
    <3>1. ~OnWay(c)
      BY <1>1, <2>3, <2>4, <2>5 DEF QInv, CallsSound
    <3>2. ~StartPublish
      BY <1>1, <2>3 DEF StartPublish
    <3> QED BY <1>d, <2>4, <3>1, <3>2, OnWayStep
  <2>6. CASE answer = "none"
    <3>1. Receive
      <4>1. ~(Aside \/ UNCHANGED vars)
        BY <1>1, <2>6, AsideLeaves DEF serviceVars, vars, receiver
      <4>2. ~Hangs
        BY <1>1, HangsUp DEF HangUp
      <4>3. ~(BeginTransfer \/ FinishTransfer \/ StartPublish \/ StartErase \/ Outage)
        BY <1>1, <2>6 DEF BeginTransfer, FinishTransfer, StartPublish, StartErase, Outage, Interrupted
      <4> QED BY <4>1, <4>2, <4>3, StepKinds
    <3>2. PICK b \in Pending : Serve(b)
      BY <3>1 DEF Receive, Reception
    <3>3. b = call /\ answer' # answer
      BY <1>1, <2>6, <3>2, ServeAnswers
    <3> QED BY <1>d, <2>4, <3>2, <3>3, ReturnedIsGone
  <2> QED BY <2>5, <2>6
<1>2. CASE spc' \in {"read", "write"} /\ update' = "SUCCESS"
  <2>1. \/ PublishAnswered /\ answer # "none"
        \/ spc \in {"read", "write"} /\ update = "SUCCESS" /\ UNCHANGED work /\ ~StartPublish
    <3>1. CASE WorkStep
      BY <1>2, <3>1 DEF WorkStep, ReadRow, RowGone, LoadWork, WorkFails, BeginTransfer, FinishTransfer, StartPublish,
                PublishAnswered, PublishUnanswered, Updating
    <3>2. CASE WriteRow
      BY <1>t, <1>2, <3>2, Written DEF WriteRow
    <3>3. CASE ClaimReplica \/ Leaving
      BY <1>2, <3>3, LeavingWork DEF ClaimReplica
    <3>4. CASE UNCHANGED senderVars
      BY <1>2, <3>4 DEF senderVars, StartPublish
    <3> QED BY <3>1, <3>2, <3>3, <3>4, SenderSteps
  <2>2. CASE PublishAnswered /\ answer # "none"
    <3>1. UNCHANGED <<work, queue, serving>> /\ spc = "publishing"
      BY <2>2 DEF PublishAnswered, HangUp
    <3>2. c = Publication
      BY <3>1 DEF Publication
    <3>3. ~OnWay(c)
      BY <2>2, <3>1, <3>2 DEF QInv, CallsSound
    <3> QED BY <3>1, <3>3 DEF OnWay
  <2>3. CASE spc \in {"read", "write"} /\ update = "SUCCESS" /\ UNCHANGED work /\ ~StartPublish
    <3>1. c = Publication
      BY <2>3 DEF Publication
    <3>2. ~OnWay(c)
      BY <2>3, <3>1 DEF QInv, CallsSound
    <3> QED BY <1>d, <2>3, <3>1, <3>2, OnWayStep
  <2> QED BY <2>1, <2>2, <2>3
<1> QED BY <1>1, <1>2

LEMMA SendingKept ==
    ASSUME QInv, [Next]_vars, spc' = "sending"
    PROVE  stage'[Transfer'] = "RECEIVING"
<1>t. update \in Updates /\ stage \in [Transfers -> Stages]
  BY DEF QInv, TypeOK, ReceiverTypeOK
<1>1. CASE BeginTransfer
  <2>1. Transfer \in Transfers
    BY <1>1, WorkTyped DEF BeginTransfer, AtWork
  <2>2. stage' = [stage EXCEPT ![Transfer] = "RECEIVING"] /\ work' = work
    BY <1>1 DEF BeginTransfer, Updating
  <2> QED BY <1>t, <2>1, <2>2 DEF Transfer
<1>2. CASE ~BeginTransfer
  <2>1. ~(WriteRow \/ ClaimReplica \/ Leaving)
    BY <1>t, Written, LeavingWork DEF ClaimReplica
  <2>2. ~WorkStep
    BY <1>2 DEF WorkStep, ReadRow, RowGone, LoadWork, WorkFails, FinishTransfer, StartPublish,
                PublishAnswered, PublishUnanswered, Updating
  <2>3. UNCHANGED <<spc, work>> /\ ~FinishTransfer
    BY <2>1, <2>2, SenderSteps DEF senderVars, WorkStep
  <2>4. Transfer' = Transfer /\ spc = "sending"
    BY <2>3 DEF Transfer
  <2>5. Transfer \in Transfers /\ stage[Transfer] = "RECEIVING"
    BY <2>4, WorkTyped DEF AtWork, QInv, CallsSound
  <2>6. CASE Receive
    BY <2>4, <2>5, <2>6, ServeStages DEF Receive, Reception
  <2> QED BY <1>2, <2>3, <2>4, <2>5, <2>6, StoreLeft
<1> QED BY <1>1, <1>2

LEMMA CallsKept == ASSUME QInv, [Next]_vars PROVE CallsSound'
<1>1. ASSUME NEW c \in Calls, OnWay(c)'
      PROVE  /\ Proper(c)
             /\ c.kind = "PUBLISH" => Stage(c)' # "NONE"
             /\ c.kind = "DELETE" => ~Untouched(c.point, c.dest)'
  <2>1. CASE OnWay(c)
    <3>1. Proper(c) /\ c.point \in Points /\ c.dest \in Dests
      BY <2>1 DEF QInv, CallsSound, Calls
    <3>2. CASE c.kind = "PUBLISH"
      <4>1. <<c.point, c.dest, c.id>> \in Transfers /\ stage[<<c.point, c.dest, c.id>>] # "NONE"
        BY <2>1, <3>1, <3>2 DEF QInv, CallsSound, Proper, Transfers, Stage
      <4> QED BY <3>1, <3>2, <4>1, StageKept DEF Stage
    <3>3. CASE c.kind = "DELETE"
      BY <2>1, <3>1, <3>3, TombKept DEF QInv, CallsSound
    <3> QED BY <3>1, <3>2, <3>3
  <2>2. CASE StartPublish /\ c = Publication
    <3>1. Proper(c) /\ Transfer \in Transfers
      BY <2>2, WorkTyped DEF StartPublish, AtWork
    <3>2. stage[Transfer] # "NONE"
      BY <2>2 DEF QInv, CallsSound, StartPublish, BeforeCall
    <3>3. stage'[Transfer] # "NONE"
      BY <3>1, <3>2, StageKept
    <3>4. c.kind = "PUBLISH" /\ <<c.point, c.dest, c.id>> = Transfer
      BY <2>2 DEF Publication, Transfer
    <3> QED BY <3>1, <3>3, <3>4 DEF Stage
  <2>3. CASE StartErase /\ c = Deletion
    <3>1. /\ Proper(c) /\ DoomedTomb.state = "RUNNING"
          /\ doomed.point \in Points /\ doomed.dest \in Dests
      BY <2>3, DoomedTyped DEF StartErase, AtDelete
    <3>2. c.kind = "DELETE" /\ c.point = doomed.point /\ c.dest = doomed.dest
      BY <2>3 DEF Deletion
    <3>3. ~Untouched(c.point, c.dest)
      BY <3>1, <3>2 DEF Untouched, DoomedTomb
    <3> QED BY <3>1, <3>2, <3>3, TombKept
  <2> QED BY <1>1, <2>1, <2>2, <2>3, OnWayStep
<1>2. \A d \in Dests : serving'[d] # Idle /\ serving'[d].call.kind = "PUBLISH" => serving'[d].call \notin queue'
  BY OnceKept
<1>3. spc' = "sending" => stage'[Transfer'] = "RECEIVING"
  BY SendingKept
<1>4. Publication' \in Calls \/ spc' \notin AtWork
  <2> SUFFICES ASSUME spc' \in AtWork PROVE Publication' \in Calls
    OBVIOUS
  <2>1. work' \in Works
    BY SenderKept DEF SenderSound
  <2>2. work'.point \in Points /\ work'.dest \in Dests /\ work'.id \in Nat
    BY <2>1, NaturalBounds DEF Works
  <2> QED BY <2>2 DEF Publication, Calls
<1>5. BeforeCall' => stage'[Transfer'] # "NONE" /\ ~OnWay(Publication)'
  <2> SUFFICES ASSUME BeforeCall' PROVE stage'[Transfer'] # "NONE" /\ ~OnWay(Publication)'
    OBVIOUS
  <2>1. Publication' \in Calls
    BY <1>4 DEF BeforeCall, AtWork
  <2>2. PICK c \in Calls : c = Publication'
    BY <2>1
  <2>3. stage'[Transfer'] # "NONE" /\ ~OnWay(c)'
    BY <2>2, BeforeCallKept
  <2> QED BY <2>2, <2>3 DEF OnWay
<1>6. \/ spc' = "publishing" /\ answer' # "none"
      \/ spc' \in {"read", "write"} /\ update' = "SUCCESS"
      => ~OnWay(Publication)'
  <2> SUFFICES ASSUME \/ spc' = "publishing" /\ answer' # "none"
                      \/ spc' \in {"read", "write"} /\ update' = "SUCCESS"
               PROVE  ~OnWay(Publication)'
    OBVIOUS
  <2>1. Publication' \in Calls
    BY <1>4 DEF AtWork
  <2>2. PICK c \in Calls : c = Publication'
    BY <2>1
  <2>3. ~OnWay(c)'
    BY <2>2, OverKept
  <2> QED BY <2>2, <2>3 DEF OnWay
<1> QED BY <1>1, <1>2, <1>3, <1>5, <1>6 DEF CallsSound

-----------------------------------------------------------------------------
(* Copies of a success.                                                    *)

\* What the receiver answers of a publication is true.
LEMMA AnswerHeld ==
    ASSUME QInv, [Next]_vars, spc' = "publishing", answer' = "ok",
           NEW p \in Points, NEW d \in Dests, p = work'.point, d = work'.dest
    PROVE  Held(p, d)'
<1>t. update \in Updates
  BY DEF QInv, TypeOK
<1>1. ~(ClaimReplica \/ WriteRow \/ Leaving)
  BY <1>t, Written, LeavingWork DEF ClaimReplica
<1>2. ~WorkStep
  BY DEF WorkStep, ReadRow, RowGone, LoadWork, WorkFails, BeginTransfer, FinishTransfer, StartPublish,
         PublishAnswered, PublishUnanswered, Updating
<1>3. UNCHANGED <<spc, work>>
  BY <1>1, <1>2, SenderSteps DEF senderVars
<1>4. /\ work.point \in Points /\ work.dest \in Dests /\ work.id \in Tasks
      /\ call = Publication /\ Publication \in Calls /\ p = work.point /\ d = work.dest
  BY <1>3, WorkTyped DEF AtWork, QInv, CallSound
<1>5. CASE answer = "ok"
  BY <1>3, <1>4, <1>5, HeldKept DEF QInv, SuccessHeld
<1>6. CASE answer # "ok"
  <2>1. answer # "none" => ~OnWay(call)
    BY <1>3, <1>4 DEF QInv, CallsSound
  <2>2. Receive
    <3>1. ~(Aside \/ UNCHANGED vars)
      BY <1>6, AsideLeaves DEF serviceVars, vars, receiver
    <3>2. ~Hangs
      BY HangsUp DEF HangUp
    <3>3. ~(BeginTransfer \/ FinishTransfer \/ StartPublish \/ StartErase \/ Outage)
      BY <1>6 DEF BeginTransfer, FinishTransfer, StartPublish, StartErase, Outage, Interrupted
    <3> QED BY <3>1, <3>2, <3>3, StepKinds
  <2>3. PICK b \in Pending : Serve(b)
    BY <2>2 DEF Receive, Reception
  <2>4. b = call
    BY <1>6, <2>3, ServeAnswers
  <2>5. answer = "none"
    BY <2>1, <2>3, <2>4, PendingOnWay
  <2>6. Truth
    <3>1. ~UNCHANGED serviceVars
      BY <1>6 DEF serviceVars
    <3> QED BY <3>1, QueueIsSender, AnswersTrue DEF QInv
  <2>7. call.kind = "PUBLISH" /\ call.point = work.point /\ call.dest = work.dest /\ call.id = work.id
    BY <1>4 DEF Publication
  <2>8. marker'[d][p] = work.id
    BY <1>4, <2>5, <2>6, <2>7 DEF Truth, Heard
  <2>9. marker'[d][p] # NoTask
    BY <1>4, <2>8, NothingTyped
  <2>10. Untouched(p, d)' => bundle'[d][p] = "WHOLE"
    BY <2>9, WholeKept DEF UntouchedWhole, Published
  <2> QED BY <2>9, <2>10 DEF Held, Readable, Published
<1> QED BY <1>5, <1>6

\* What is stored of a replica that was a success or is one now.
LEMMA RowHeld ==
    ASSUME QInv, [Next]_vars, spc' = "write", NEW p \in Points, p = work'.point,
           NEW d \in Dests, row'[d].state = "SUCCESS"
    PROVE  Held(p, d)'
<1>t. update \in Updates /\ replica \in [Points -> Metadata]
  BY DEF QInv, TypeOK
<1>1. CASE ReadRow
  <2>1. p = work.point /\ work.dest \in Dests
    BY <1>1, WorkTyped DEF ReadRow, AtWork
  <2>2. row' = [replica[p] EXCEPT ![work.dest] = UpdatedEntry(replica[p][work.dest])]
    BY <1>1, <2>1 DEF ReadRow
  <2>3. replica[p] \in Metadata /\ replica[p][d] \in Entries
    BY <1>t DEF Metadata
  <2>4. replica[p][d].state = "SUCCESS" \/ (d = work.dest /\ update = "SUCCESS")
    BY <2>1, <2>2, <2>3 DEF UpdatedEntry, Metadata, Entries
  <2>5. Held(p, d)
    BY <1>1, <2>1, <2>4 DEF QInv, SuccessHeld, ReadRow
  <2> QED BY <2>5, HeldKept
<1>2. CASE UNCHANGED senderVars
  <2>1. spc = "write" /\ row[d].state = "SUCCESS" /\ p = work.point
    BY <1>2 DEF senderVars
  <2>2. Held(p, d)
    BY <2>1 DEF QInv, SuccessHeld
  <2> QED BY <2>2, HeldKept
<1>3. ~(ClaimReplica \/ WriteRow \/ Leaving)
  BY <1>t, Written, LeavingWork DEF ClaimReplica
<1>4. WorkStep => ReadRow
  BY DEF WorkStep, RowGone, LoadWork, WorkFails, BeginTransfer, FinishTransfer, StartPublish,
         PublishAnswered, PublishUnanswered, Updating
<1> QED BY <1>1, <1>2, <1>3, <1>4, SenderSteps

LEMMA UpdateHeld ==
    ASSUME QInv, [Next]_vars, spc' \in {"read", "write"}, update' = "SUCCESS",
           NEW p \in Points, NEW d \in Dests, p = work'.point, d = work'.dest
    PROVE  Held(p, d)'
<1>t. update \in Updates
  BY DEF QInv, TypeOK
<1>1. \/ spc = "publishing" /\ answer = "ok" /\ UNCHANGED work
      \/ spc \in {"read", "write"} /\ update = "SUCCESS" /\ UNCHANGED work
  <2>1. CASE WorkStep
    BY <2>1 DEF WorkStep, ReadRow, RowGone, LoadWork, WorkFails, BeginTransfer, FinishTransfer, StartPublish,
                PublishAnswered, PublishUnanswered, Confirmed, Updating
  <2>2. CASE WriteRow
    BY <1>t, <2>2, Written DEF WriteRow
  <2>3. CASE ClaimReplica \/ Leaving
    BY <2>3, LeavingWork DEF ClaimReplica
  <2>4. CASE UNCHANGED senderVars
    BY <2>4 DEF senderVars
  <2> QED BY <2>1, <2>2, <2>3, <2>4, SenderSteps
<1>2. Held(p, d)
  BY <1>1 DEF QInv, SuccessHeld
<1> QED BY <1>2, HeldKept

LEMMA RowsHeld ==
    ASSUME QInv, [Next]_vars, NEW q \in DOMAIN arows', NEW d \in Dests, arows'[q][d].state = "SUCCESS"
    PROVE  Held(q, d)'
<1>1. q \in Points
  BY RestTyped
<1>2. CASE \E p \in Points, e \in Dests : RetryReads(p, e)
  <2>1. PICK p \in Points, e \in Dests : arows' = [r \in Chain(p) |-> replica[r]]
    BY <1>2 DEF RetryReads
  <2>2. arows'[q] = replica[q]
    BY <2>1
  <2>3. Held(q, d)
    BY <1>1, <2>2 DEF QInv, SuccessHeld
  <2> QED BY <1>1, <2>3, HeldKept
<1>3. CASE RetryWrites \/ Crash
  <2>1. DOMAIN arows' = {}
    BY <1>3 DEF RetryWrites, Crash
  <2> QED BY <2>1
<1>4. CASE UNCHANGED apiVars
  <2>1. Held(q, d)
    BY <1>4 DEF apiVars, QInv, SuccessHeld
  <2> QED BY <1>1, <2>1, HeldKept
<1>5. (\E p \in Points, e \in Dests : RetryReads(p, e)) \/ RetryWrites \/ Crash \/ UNCHANGED apiVars
  BY DEF Next, vars, Sender, Deleter, Finalize, ReadRow, RowGone, LoadWork, WorkFails, ClaimReplica, ClaimNoReplica,
         ClaimDelete, ClaimNoDelete, EraseFails, FinishDelete, DelayPasses, DeleteBegins, Enqueue,
         EnqueueFails, RemoveLocal, RemoveFails, RemoveRow, BeginTransfer, FinishTransfer, StartPublish, WriteRow,
         StartErase, PublishAnswered, PublishUnanswered, EraseAnswered, EraseUnanswered, Receive, Outage
<1> QED BY <1>2, <1>3, <1>4, <1>5

\* The steps that write rows, and where a SUCCESS in one comes from.
LEMMA SuccessComesFrom ==
    ASSUME QInv, [Next]_vars, NEW p \in Points, NEW d \in Dests, replica'[p][d].state = "SUCCESS"
    PROVE  Held(p, d)
<1>t. replica \in [Points -> Metadata] /\ TypeOK
  BY DEF QInv, TypeOK
<1>0. replica[p][d].state = "SUCCESS" => Held(p, d)
  BY DEF QInv, SuccessHeld
<1>e. replica[p] \in Metadata /\ replica[p][d] \in Entries
  BY <1>t DEF Metadata
<1>1. CASE ClaimReplica
  <2>1. PICK q \in points, e \in Dests : replica' = Claimed(q, e)
    BY <1>1 DEF ClaimReplica
  <2>2. replica'[p][d] \in {replica[p][d], [replica[p][d] EXCEPT !.state = "TRANSFERRING"],
                           [replica[p][d] EXCEPT !.state = "BLOCKED"]}
    BY <2>1 DEF Claimed
  <2> QED BY <1>0, <1>e, <2>2 DEF Entries
<1>2. CASE ClaimNoReplica
  <2>1. replica'[p][d] \in {replica[p][d], [replica[p][d] EXCEPT !.state = "BLOCKED"]}
    BY <1>2 DEF ClaimNoReplica
  <2> QED BY <1>0, <1>e, <2>1 DEF Entries
<1>3. CASE WriteRow
  <2>1. work.point \in Points /\ spc = "write"
    BY <1>3, WorkTyped DEF WriteRow, AtWork
  <2>2. CASE replica'[p] = replica[p]
    BY <1>0, <2>2
  <2>3. CASE replica'[p] # replica[p]
    <3>1. p = work.point /\ replica'[p] = row
      BY <1>3, <1>t, <2>1, <2>3 DEF WriteRow
    <3> QED BY <2>1, <3>1 DEF QInv, SuccessHeld
  <2> QED BY <2>2, <2>3
<1>4. CASE RetryWrites
  <2>1. replica'[p] = replica[p]
        \/ (p \in DOMAIN arows /\ replica'[p] = [arows[p] EXCEPT ![adest] = [state |-> "PENDING", task |-> retries]])
    BY <1>4 DEF RetryWrites
  <2>2. CASE replica'[p] = replica[p]
    BY <1>0, <2>2
  <2>3. CASE p \in DOMAIN arows /\ replica'[p] = [arows[p] EXCEPT ![adest] = [state |-> "PENDING", task |-> retries]]
    <3>1. arows[p] \in Metadata
      BY <1>t, <2>3 DEF TypeOK
    <3>2. d # adest /\ replica'[p][d] = arows[p][d]
      BY <2>3, <3>1 DEF Metadata
    <3> QED BY <2>3, <3>2 DEF QInv, SuccessHeld
  <2> QED BY <2>1, <2>2, <2>3
<1>5. CASE RemoveRow
  <2>1. replica'[p] \in {replica[p], NoMetadata}
    BY <1>5, <1>t DEF RemoveRow
  <2> QED BY <1>0, <2>1, NothingTyped
<1>6. CASE UNCHANGED replica
  BY <1>0, <1>6
<1>7. \/ ClaimReplica \/ ClaimNoReplica \/ WriteRow \/ RetryWrites \/ RemoveRow \/ UNCHANGED replica
  BY DEF Next, vars, dataVars, Sender, Deleter, Finalize, ReadRow, RowGone, LoadWork, WorkFails,
         ClaimDelete, ClaimNoDelete, EraseFails, FinishDelete, DelayPasses, RetryReads, DeleteBegins, Enqueue,
         EnqueueFails, RemoveLocal, RemoveFails, BeginTransfer, FinishTransfer, StartPublish,
         StartErase, PublishAnswered, PublishUnanswered, EraseAnswered, EraseUnanswered, Crash,
         Receive, Outage
<1> QED BY <1>1, <1>2, <1>3, <1>4, <1>5, <1>6, <1>7

LEMMA SuccessKept == ASSUME QInv, [Next]_vars PROVE SuccessHeld'
<1>1. ASSUME NEW p \in Points, NEW d \in Dests, replica'[p][d].state = "SUCCESS" PROVE Held(p, d)'
  BY <1>1, SuccessComesFrom, HeldKept
<1>w. ASSUME spc' \in AtWork PROVE work'.point \in Points /\ work'.dest \in Dests
  <2>1. work' \in Works
    BY <1>w, SenderKept DEF SenderSound
  <2> QED BY <2>1 DEF Works
<1>2. ASSUME spc' = "write", NEW d \in Dests, row'[d].state = "SUCCESS" PROVE Held(work.point, d)'
  <2>1. PICK p \in Points : p = work'.point
    BY <1>2, <1>w DEF AtWork
  <2>2. Held(p, d)'
    BY <1>2, <2>1, RowHeld
  <2> QED BY <2>1, <2>2 DEF Held, Untouched, Readable, Published
<1>3. ASSUME NEW q \in DOMAIN arows', NEW d \in Dests, arows'[q][d].state = "SUCCESS" PROVE Held(q, d)'
  BY <1>3, RowsHeld
<1>4. ASSUME \/ spc' \in {"read", "write"} /\ update' = "SUCCESS"
             \/ spc' = "publishing" /\ answer' = "ok"
      PROVE  Held(work.point, work.dest)'
  <2>1. PICK p \in Points, d \in Dests : p = work'.point /\ d = work'.dest
    BY <1>4, <1>w DEF AtWork
  <2>2. Held(p, d)'
    BY <1>4, <2>1, UpdateHeld, AnswerHeld
  <2> QED BY <2>1, <2>2 DEF Held, Untouched, Readable, Published
<1> QED BY <1>1, <1>2, <1>3, <1>4 DEF SuccessHeld

-----------------------------------------------------------------------------
LEMMA InitQueue == Init => QInv
<1> SUFFICES ASSUME Init PROVE QInv
  OBVIOUS
<1> USE DEF Init
<1>r. ReceiverInv /\ queue = {} /\ (\A d \in Dests : serving[d] = Idle) /\ call = NoCall /\ answer = "none"
      /\ marker = [d \in Dests |-> [p \in Points |-> NoTask]]
  BY InitSound DEF ReceiverInit
<1>1. TypeOK
  <2>1. 0 \in 0 .. MaxPoint /\ 0 \in 0 .. MaxTask /\ 0 \in 0 .. MaxCrashes /\ 0 \in 0 .. MaxOutages
    BY NaturalBounds, ReplicaAssumption
  <2>2. DOMAIN arows = {}
    OBVIOUS
  <2> QED BY <1>r, <2>1, <2>2, NothingTyped DEF TypeOK, ReceiverInv, SenderPcs, Updates
<1>2. SenderSound
  BY DEF SenderSound, AtWork, AtDelete
<1>3. CallSound
  BY <1>r DEF CallSound
<1>4. CallsSound
  <2>1. \A c \in Calls : ~OnWay(c)
    BY <1>r DEF OnWay
  <2> QED BY <1>r, <2>1 DEF CallsSound, BeforeCall
<1>5. AttemptsSound
  BY DEF AttemptsSound, NoTomb
<1>6. UntouchedWhole
  BY <1>r DEF UntouchedWhole, Published
<1>7. SuccessHeld
  <2>1. DOMAIN arows = {}
    OBVIOUS
  <2>2. \A p \in Points, d \in Dests : replica[p][d].state # "SUCCESS"
    BY NothingTyped
  <2> QED BY <2>1, <2>2 DEF SuccessHeld
<1> QED BY <1>r, <1>1, <1>2, <1>3, <1>4, <1>5, <1>6, <1>7 DEF QInv

LEMMA StepQueue == QInv /\ [Next]_vars => QInv'
<1> SUFFICES ASSUME QInv, [Next]_vars PROVE QInv'
  OBVIOUS
<1> QED BY TypeKept, ReceiverInvKept, SenderKept, CallKept, CallsKept, AttemptsKept, WholeKept,
           SuccessKept DEF QInv

LEMMA QueueInvariant == Spec => []QInv
<1> QED BY InitQueue, StepQueue, PTL DEF Spec

-----------------------------------------------------------------------------
\* The queue, its threads and the receiver keep to their types, for every
\* number of points, destinations, retries, crashes and outages.
THEOREM ReplicaTypeCorrect == Spec => []TypeOK
<1>1. QInv => TypeOK
  BY DEF QInv
<1> QED BY <1>1, QueueInvariant, PTL

\* A replica reported as SUCCESS is on the receiver, listed and whole, whatever
\* retries overlap with updates and whatever answers are lost.
THEOREM SuccessIsPublishedAlways == Spec => []SuccessIsPublished
<1>1. QInv => SuccessIsPublished
  <2>1. QInv => points \subseteq Points
    BY PointsArePoints DEF QInv
  <2> QED BY <2>1 DEF QInv, SuccessHeld, Held, SuccessIsPublished
<1> QED BY <1>1, QueueInvariant, PTL

\* With the replica worker as its sender, the receiver implements the catalog:
\* replicas are listed whole, and after their parents.
THEOREM QueueImplementsCatalog == Spec => ImplementsCatalog
<1>1. Init => Catalog!Init
  BY InitRefines DEF Init
<1>2. QInv /\ [Next]_vars => [Catalog!Next]_Listing
  BY QueueIsSender, AnyStepRefines DEF QInv
<1> QED BY <1>1, <1>2, QueueInvariant, PTL DEF Spec, ImplementsCatalog, Catalog!Spec, Listing

\* The worker hears of a publication or a deletion only when it is true.
THEOREM QueueHearsTruth == Spec => AnswersAreTrue
<1>1. QInv /\ [Next]_vars => Truth \/ UNCHANGED serviceVars
  BY QueueIsSender, AnswersTrue DEF QInv
<1> QED BY <1>1, QueueInvariant, PTL DEF Spec, AnswersAreTrue, Truth

-----------------------------------------------------------------------------
(* Entries, and who writes them.                                           *)

LEMMA PointsStep ==
    ASSUME QInv, [Next]_vars
    PROVE  /\ created' >= created /\ created' \in Nat /\ created \in Nat /\ points \subseteq Points
           /\ \A p \in Points : p \in points' /\ p <= created => p \in points
<1>t. created \in Nat /\ points \subseteq Points /\ Points \subseteq Nat
  BY PointsArePoints, NaturalBounds DEF QInv, Points
<1>1. CASE Finalize
  BY <1>1, <1>t DEF Finalize
<1>2. CASE created' = created /\ points' \subseteq points
  BY <1>2, <1>t
<1>3. Finalize \/ (created' = created /\ points' \subseteq points)
  BY DEF Next, vars, dataVars, Sender, Deleter, ReadRow, RowGone, LoadWork, WorkFails, ClaimReplica, ClaimNoReplica,
         ClaimDelete, ClaimNoDelete, EraseFails, FinishDelete, DelayPasses, RetryReads, RetryWrites, DeleteBegins,
         Enqueue, EnqueueFails, RemoveLocal, RemoveFails, RemoveRow, BeginTransfer, FinishTransfer, StartPublish,
         WriteRow, StartErase, PublishAnswered, PublishUnanswered, EraseAnswered, EraseUnanswered, Crash,
         Receive, Outage
<1> QED BY <1>1, <1>2, <1>3

\* Who writes entries: claims, the sender's rows, a retry, and the deletion of a row.
LEMMA RowWriters ==
    [Next]_vars => ClaimReplica \/ ClaimNoReplica \/ WriteRow \/ RetryWrites \/ RemoveRow \/ UNCHANGED replica
BY DEF Next, vars, dataVars, Sender, Deleter, Finalize, ReadRow, RowGone, LoadWork, WorkFails,
       ClaimDelete, ClaimNoDelete, EraseFails, FinishDelete, DelayPasses, RetryReads, DeleteBegins,
       Enqueue, EnqueueFails, RemoveLocal, RemoveFails, BeginTransfer, FinishTransfer, StartPublish,
       StartErase, PublishAnswered, PublishUnanswered, EraseAnswered, EraseUnanswered, Crash,
       Receive, Outage

\* A row that is written back as it was read changes by the update alone.
LEMMA WrittenEntry ==
    ASSUME QInv, RowsInHand, WriteRow, NEW p \in Points, NEW d \in Dests, p \in points
    PROVE  replica'[p][d] = IF p = work.point /\ d = work.dest THEN UpdatedEntry(replica[p][d])
                            ELSE replica[p][d]
<1>t. /\ replica \in [Points -> Metadata] /\ replica[p] \in [Dests -> Entries] /\ spc = "write"
      /\ work.point \in Points /\ work.dest \in Dests
  BY WorkTyped DEF QInv, TypeOK, WriteRow, AtWork, Metadata
<1>1. CASE p = work.point
  <2>1. row = [replica[p] EXCEPT ![work.dest] = UpdatedEntry(replica[p][work.dest])]
    BY <1>t, <1>1 DEF RowsInHand, RowRead
  <2>2. replica' = [replica EXCEPT ![p] = row]
    BY <1>1 DEF WriteRow
  <2>3. replica'[p] = row
    BY <1>t, <2>2
  <2>4. row[d] = IF d = work.dest THEN UpdatedEntry(replica[p][d]) ELSE replica[p][d]
    BY <1>t, <2>1
  <2> QED BY <1>1, <2>3, <2>4
<1>2. CASE p # work.point
  <2>1. replica'[p] = replica[p]
    BY <1>t, <1>2 DEF WriteRow
  <2> QED BY <1>2, <2>1
<1> QED BY <1>1, <1>2

LEMMA EntryStep ==
    ASSUME QInv, RowsInHand, [Next]_vars, NEW p \in Points, NEW d \in Dests, p \in points', p <= created
    PROVE  /\ p \in points
           /\ \/ replica'[p][d] = replica[p][d]
              \/ /\ replica[p][d].state \in {"PENDING", "BLOCKED"}
                 /\ replica'[p][d].task = replica[p][d].task
              \/ /\ WriteRow /\ p = work.point /\ d = work.dest /\ update \in States
                 /\ replica'[p][d].state = update /\ replica'[p][d].task = replica[p][d].task
              \/ RetryWrites /\ replica[p][d].state \notin Kept
<1>0. p \in points
  BY PointsStep
<1>t. /\ replica \in [Points -> Metadata] /\ replica[p] \in [Dests -> Entries] /\ replica[p][d] \in Entries
      /\ points \subseteq Points
  BY PointsStep DEF QInv, TypeOK, Metadata
<1>1. CASE ClaimReplica
  <2>1. PICK q \in points, e \in Dests : NextRunnable(q, e) /\ replica' = Claimed(q, e)
    BY <1>1 DEF ClaimReplica
  <2>2. Waiting(q, e)
    BY <2>1 DEF NextRunnable, Runnable
  <2>3. CASE Waiting(p, d)
    <3>1. replica'[p][d] \in {replica[p][d], [replica[p][d] EXCEPT !.state = "TRANSFERRING"],
                             [replica[p][d] EXCEPT !.state = "BLOCKED"]}
      BY <2>1 DEF Claimed
    <3> QED BY <1>0, <1>t, <2>3, <3>1 DEF Waiting, Entries
  <2>4. CASE ~Waiting(p, d)
    BY <1>0, <2>1, <2>2, <2>4 DEF Claimed
  <2> QED BY <2>3, <2>4
<1>2. CASE ClaimNoReplica
  <2>1. replica'[p][d] = IF Waiting(p, d) THEN [replica[p][d] EXCEPT !.state = "BLOCKED"] ELSE replica[p][d]
    BY <1>2 DEF ClaimNoReplica
  <2> QED BY <1>0, <1>t, <2>1 DEF Waiting, Entries
<1>3. CASE WriteRow
  <2>1. replica'[p][d] = IF p = work.point /\ d = work.dest THEN UpdatedEntry(replica[p][d])
                         ELSE replica[p][d]
    BY <1>0, <1>3, WrittenEntry
  <2>2. UpdatedEntry(replica[p][d]) = replica[p][d]
        \/ (/\ update \in States /\ UpdatedEntry(replica[p][d]).state = update
            /\ UpdatedEntry(replica[p][d]).task = replica[p][d].task)
    BY <1>t, EntrySet DEF UpdatedEntry
  <2> QED BY <1>0, <1>3, <2>1, <2>2
<1>4. CASE RetryWrites
  <2>1. CASE p \in DOMAIN arows
    <3>1. arows[p] = replica[p]
      BY <1>0, <1>4, <2>1 DEF RetryWrites, RowsInHand
    <3>2. CASE replica[p][adest].state \in Kept
      <4>1. replica'[p] = replica[p]
        BY <1>4, <3>1, <3>2 DEF RetryWrites
      <4> QED BY <1>0, <4>1
    <3>3. CASE replica[p][adest].state \notin Kept
      <4>1. replica'[p] = [replica[p] EXCEPT ![adest] = [state |-> "PENDING", task |-> retries]]
        BY <1>0, <1>4, <2>1, <3>1, <3>3 DEF RetryWrites
      <4>2. d # adest => replica'[p][d] = replica[p][d]
        BY <1>t, <4>1
      <4> QED BY <1>0, <1>4, <3>3, <4>2
    <3> QED BY <3>2, <3>3
  <2>2. CASE p \notin DOMAIN arows
    <3>1. replica'[p] = replica[p]
      BY <1>4, <2>2 DEF RetryWrites
    <3> QED BY <1>0, <3>1
  <2> QED BY <2>1, <2>2
<1>5. CASE RemoveRow
  <2>1. p # dpoint
    BY <1>5 DEF RemoveRow
  <2> QED BY <1>0, <1>5, <1>t, <2>1 DEF RemoveRow
<1>6. CASE UNCHANGED replica
  BY <1>0, <1>6
<1> QED BY <1>1, <1>2, <1>3, <1>4, <1>5, <1>6, RowWriters

\* The sender's work stays its own: nobody else writes a working entry.
LEMMA WorkSoundKept ==
    ASSUME QInv, RowsInHand, WorkSound, [Next]_vars
    PROVE  WorkSound'
<1> SUFFICES ASSUME spc' \in AtWork,
                    NEW p \in Points, NEW d \in Dests, p = work'.point, d = work'.dest
             PROVE  p <= created' /\ (p \in points' => replica'[p][d].state \in Working)
  <2>1. spc' \in AtWork => work' \in Works
    BY SenderKept DEF SenderSound
  <2> QED BY <2>1 DEF WorkSound, Works
<1>t. update \in Updates /\ replica \in [Points -> Metadata] /\ points \subseteq 1 .. created
  BY DEF QInv, TypeOK
<1>n. p \in Nat
  BY NaturalBounds DEF Points
<1>1. CASE ClaimReplica
  <2>1. PICK q \in points, e \in Dests :
            /\ replica' = Claimed(q, e)
            /\ work' = [point |-> q, dest |-> e, id |-> replica[q][e].task]
    BY <1>1 DEF ClaimReplica
  <2>2. p = q /\ d = e
    BY <2>1
  <2>3. replica'[p][d] = [replica[p][d] EXCEPT !.state = "TRANSFERRING"]
    BY <2>1, <2>2 DEF Claimed
  <2>4. replica[p][d] \in Entries
    BY <1>t DEF Metadata
  <2>5. replica'[p][d].state = "TRANSFERRING"
    BY <2>3, <2>4 DEF Entries
  <2>6. p <= created'
    BY <1>t, <2>1, <2>2, <1>n, PointsStep
  <2> QED BY <2>5, <2>6 DEF Working
<1>2. CASE ~ClaimReplica
  <2>1. spc \in AtWork /\ work' = work /\ (WriteRow => update \notin {"SUCCESS", "FAILED"})
    <3>1. CASE WorkStep
      <4>1. ~WriteRow
        BY <3>1 DEF WriteRow, WorkStep, ReadRow, RowGone, LoadWork, WorkFails, BeginTransfer,
                    FinishTransfer, StartPublish, PublishAnswered, PublishUnanswered, Updating
      <4> QED BY <3>1, <4>1, WorkingOn
    <3>2. CASE WriteRow
      BY <1>t, <3>2, Written DEF AtWork
    <3>3. CASE Leaving
      BY <3>3, LeavingWork DEF AtWork
    <3>4. CASE UNCHANGED senderVars
      <4>1. ~WriteRow
        BY <1>t, <3>4, Written DEF senderVars
      <4> QED BY <3>4, <4>1 DEF senderVars
    <3> QED BY <1>2, <3>1, <3>2, <3>3, <3>4, SenderSteps
  <2>2. p <= created /\ (p \in points => replica[p][d].state \in Working)
    BY <2>1 DEF WorkSound
  <2>3. ASSUME p \in points' PROVE replica'[p][d].state \in Working
    <3>1. p \in points /\ replica[p][d].state \in Working
      BY <2>2, <2>3, PointsStep
    <3>2. replica[p][d].state \notin {"PENDING", "BLOCKED"} /\ replica[p][d].state \in Kept
      BY <3>1 DEF Working, Kept
    <3>3. \/ replica'[p][d] = replica[p][d]
          \/ WriteRow /\ update \in States /\ replica'[p][d].state = update
      BY <2>2, <2>3, <3>2, EntryStep
    <3>4. update \in States /\ update \notin {"SUCCESS", "FAILED"} => update \in Working
      BY <1>t DEF Updates, States, Working
    <3> QED BY <2>1, <3>1, <3>3, <3>4
  <2> QED BY <1>n, <2>2, <2>3, PointsStep
<1> QED BY <1>1, <1>2

\* A retry that falls between a read and a write of the sender is the only way
\* for a row to be written that is not the one in the database.
LEMMA RowsInHandKept ==
    ASSUME QInv, RowsInHand, WorkSound, [Next]_vars, ~Overlap \/ apc' = "idle"
    PROVE  RowsInHand'
<1>t. update \in Updates /\ replica \in [Points -> Metadata] /\ points \subseteq 1 .. created
  BY DEF QInv, TypeOK
<1>1. spc' = "write" => apc' = "idle"
  <2>1. CASE ReadRow
    BY <2>1 DEF ReadRow, Serial, apiVars
  <2>2. CASE \E p \in Points, d \in Dests : RetryReads(p, d)
    BY <2>2 DEF RetryReads, senderVars
  <2>3. spc' = "write" => spc = "write" \/ ReadRow
    <3>1. ~(spc' = "write" /\ (ClaimReplica \/ WriteRow \/ Leaving))
      BY <1>t, Written, LeavingWork DEF ClaimReplica
    <3>2. spc' = "write" /\ WorkStep => ReadRow
      BY DEF WorkStep, RowGone, LoadWork, WorkFails, BeginTransfer, FinishTransfer, StartPublish,
             PublishAnswered, PublishUnanswered, Updating
    <3> QED BY <3>1, <3>2, SenderSteps DEF senderVars
  <2>4. apc' = "idle" \/ apc' = apc \/ \E p \in Points, d \in Dests : RetryReads(p, d)
    BY DEF Next, vars, apiVars, Sender, Deleter, Finalize, ReadRow, RowGone, LoadWork, WorkFails, ClaimReplica,
           ClaimNoReplica, ClaimDelete, ClaimNoDelete, EraseFails, FinishDelete, DelayPasses, DeleteBegins, Enqueue,
           EnqueueFails, RemoveLocal, RemoveFails, RemoveRow, BeginTransfer, FinishTransfer, StartPublish, WriteRow,
           RetryWrites, StartErase, PublishAnswered, PublishUnanswered, EraseAnswered, EraseUnanswered, Crash,
           Receive, Outage
  <2> QED BY <2>1, <2>2, <2>3, <2>4 DEF RowsInHand
<1>2. ASSUME spc' = "write", work'.point \in points' PROVE row' = RowRead'
  <2>1. CASE ReadRow
    BY <2>1 DEF ReadRow, dataVars, UpdatedEntry, RowRead
  <2>2. CASE ~ReadRow
    <3>1. UNCHANGED senderVars
      <4>1. ~(ClaimReplica \/ WriteRow \/ Leaving)
        BY <1>t, <1>2, Written, LeavingWork DEF ClaimReplica
      <4>2. ~WorkStep
        BY <1>2, <2>2 DEF WorkStep, RowGone, LoadWork, WorkFails, BeginTransfer, FinishTransfer, StartPublish,
                    PublishAnswered, PublishUnanswered, Updating
      <4> QED BY <4>1, <4>2, SenderSteps
    <3>2. spc = "write" /\ work' = work /\ row' = row /\ update' = update
      BY <1>2, <3>1 DEF senderVars
    <3>3. work.point \in Points /\ work.point <= created
      BY <3>2, WorkTyped DEF AtWork, WorkSound
    <3>4. work.point \in points
      BY <1>2, <3>2, <3>3, PointsStep
    <3>5. row = RowRead /\ apc = "idle"
      BY <3>2, <3>4 DEF RowsInHand
    <3>6. replica'[work.point] = replica[work.point]
      <4>1. ~(ClaimReplica \/ ClaimNoReplica \/ WriteRow \/ RetryWrites)
        BY <1>t, <1>2, <3>2, <3>5, Written DEF ClaimReplica, ClaimNoReplica, RetryWrites
      <4>2. CASE RemoveRow
        <5>1. work.point # dpoint
          BY <1>2, <3>2, <4>2 DEF RemoveRow
        <5> QED BY <1>t, <3>3, <4>2, <5>1 DEF RemoveRow
      <4> QED BY <4>1, <4>2, RowWriters
    <3> QED BY <3>2, <3>5, <3>6 DEF UpdatedEntry, RowRead
  <2> QED BY <2>1, <2>2
<1>3. ASSUME apc' = "retry"
      PROVE  /\ DOMAIN arows' \subseteq 1 .. created'
             /\ \A q \in DOMAIN arows' \cap points' : arows'[q] = replica'[q]
  <2>1. CASE \E p \in Points, d \in Dests : RetryReads(p, d)
    <3>1. PICK p \in Points : arows' = [q \in Chain(p) |-> replica[q]]
      BY <2>1 DEF RetryReads
    <3>2. replica' = replica /\ created' = created
      BY <2>1 DEF RetryReads, dataVars
    <3>3. Chain(p) \subseteq points
      BY DEF Chain
    <3> QED BY <1>t, <3>1, <3>2, <3>3
  <2>2. CASE UNCHANGED apiVars
    <3>1. apc = "retry" /\ arows' = arows /\ ~Overlap
      BY <1>3, <2>2 DEF apiVars
    <3>2. DOMAIN arows \subseteq 1 .. created /\ DOMAIN arows \subseteq Points
      BY <3>1 DEF RowsInHand, QInv, TypeOK
    <3>3. 1 .. created \subseteq 1 .. created'
      BY PointsStep
    <3>4. ASSUME NEW q \in DOMAIN arows, q \in points' PROVE arows[q] = replica'[q]
      <4>1. q \in points /\ q \in Points
        BY <3>2, <3>4, PointsStep
      <4>2. arows[q] = replica[q]
        BY <3>1, <3>4, <4>1 DEF RowsInHand
      <4>3. replica'[q] = replica[q]
        <5>1. ~(ClaimReplica \/ ClaimNoReplica \/ WriteRow \/ RetryWrites)
          BY <1>3, <3>1 DEF ClaimReplica, ClaimNoReplica, Serial, WriteRow, RowsInHand, RetryWrites
        <5>2. CASE RemoveRow
          <6>1. q # dpoint
            BY <3>4, <5>2 DEF RemoveRow
          <6> QED BY <1>t, <4>1, <5>2, <6>1 DEF RemoveRow
        <5> QED BY <5>1, <5>2, RowWriters
      <4> QED BY <4>2, <4>3
    <3> QED BY <3>1, <3>2, <3>3, <3>4
  <2>3. (\E p \in Points, d \in Dests : RetryReads(p, d)) \/ UNCHANGED apiVars
    BY <1>3 DEF Next, vars, Sender, Deleter, Finalize, ReadRow, RowGone, LoadWork, WorkFails, ClaimReplica,
           ClaimNoReplica, ClaimDelete, ClaimNoDelete, EraseFails, FinishDelete, DelayPasses, DeleteBegins, Enqueue,
           EnqueueFails, RemoveLocal, RemoveFails, RemoveRow, BeginTransfer, FinishTransfer, StartPublish, WriteRow,
           RetryWrites, StartErase, PublishAnswered, PublishUnanswered, EraseAnswered, EraseUnanswered, Crash,
           Receive, Outage
  <2> QED BY <2>1, <2>2, <2>3
<1> QED BY <1>1, <1>2, <1>3 DEF RowsInHand

LEMMA InitRows == Init => RowsInHand /\ WorkSound
BY DEF Init, RowsInHand, WorkSound, AtWork

\* When no retry falls between a read and a write of the sender, and no claim
\* or read of the sender between those of a retry, no SUCCESS is taken back,
\* neither by a failed update nor by a retry of the chain.
THEOREM SuccessRetainedSerially ==
    ASSUME ~Overlap
    PROVE  Spec => SuccessRetained
<1> DEFINE SInv == QInv /\ RowsInHand /\ WorkSound
<1>1. Init => SInv
  BY InitQueue, InitRows
<1>2. SInv /\ [Next]_vars => SInv'
  BY StepQueue, RowsInHandKept, WorkSoundKept
<1>3. SInv /\ [Next]_vars =>
          \A p \in points \cap points', d \in Dests :
              replica[p][d].state = "SUCCESS" => replica'[p][d].state = "SUCCESS"
  <2> SUFFICES ASSUME SInv, [Next]_vars, NEW p \in points \cap points', NEW d \in Dests,
                      replica[p][d].state = "SUCCESS"
               PROVE  replica'[p][d].state = "SUCCESS"
    OBVIOUS
  <2>1. p \in Points /\ p <= created
    BY PointsArePoints DEF QInv
  <2>2. ~(WriteRow /\ p = work.point /\ d = work.dest)
    BY DEF WorkSound, WriteRow, AtWork, Working
  <2>3. "SUCCESS" \in Kept
    BY DEF Kept
  <2> QED BY <2>1, <2>2, <2>3, EntryStep
<1> HIDE DEF SInv
<1> QED BY <1>1, <1>2, <1>3, PTL DEF Spec, SuccessRetained

-----------------------------------------------------------------------------
(* Behaviours without a retry.                                             *)

\* A tombstone is set up for a replica that was found to be a success.
LEMMA TombSetUp ==
    ASSUME QInv, [Next]_vars, NEW p \in Points, NEW d \in Dests, Untouched(p, d), ~Untouched(p, d)'
    PROVE  Found(p, d)
<1>t. TypeOK /\ tomb \in [Points -> [Dests -> Tombs]]
  BY DEF QInv, TypeOK
<1>1. CASE ClaimDelete
  <2>1. PICK q \in Points, e \in Dests :
            /\ Doomed(q, e) /\ Counted(tomb[q][e]) \in Tombs
            /\ tomb' = [tomb EXCEPT ![q][e] = Counted(tomb[q][e])]
    BY <1>1, ClaimSets
  <2>2. p # q \/ d # e
    BY <2>1 DEF Doomed, Due, Untouched
  <2>3. tomb'[p][d] = tomb[p][d]
    BY <1>t, <2>1, <2>2, TombSet
  <2> QED BY <2>3 DEF Untouched
<1>2. CASE EraseAnswered \/ EraseUnanswered \/ EraseFails
  <2>1. PICK t \in Tombs :
            /\ tomb' = [tomb EXCEPT ![doomed.point][doomed.dest] = t]
            /\ doomed.point \in Points /\ doomed.dest \in Dests
    BY <1>2, Erases, FinishSets
  <2>2. DoomedTomb.state = "RUNNING"
    BY <1>2, Erases, DoomedTyped
  <2>3. p # doomed.point \/ d # doomed.dest
    BY <2>2 DEF DoomedTomb, Untouched
  <2>4. tomb'[p][d] = tomb[p][d]
    BY <1>t, <2>1, <2>3, TombSet
  <2> QED BY <2>4 DEF Untouched
<1>3. CASE Enqueue
  <2>1. tomb'[p][d] = IF p = dpoint /\ d \in dfound /\ Untouched(p, d)
                      THEN [state |-> "PENDING", attempts |-> 0, due |-> TRUE] ELSE tomb[p][d]
    BY <1>3, EnqueueSets
  <2>2. p = dpoint /\ d \in dfound
    BY <2>1 DEF Untouched
  <2> QED BY <1>3, <2>2 DEF Enqueue, Found
<1>4. CASE \E q \in Points, e \in Dests : DelayPasses(q, e)
  <2>1. PICK q \in Points, e \in Dests : DelayPasses(q, e)
    BY <1>4
  <2>2. PICK t \in Tombs : tomb[q][e].state = "PENDING" /\ tomb' = [tomb EXCEPT ![q][e] = t]
    BY <2>1, DelaySets
  <2>3. p # q \/ d # e
    BY <2>2 DEF Untouched
  <2>4. tomb'[p][d] = tomb[p][d]
    BY <1>t, <2>2, <2>3, TombSet
  <2> QED BY <2>4 DEF Untouched
<1>5. CASE UNCHANGED tomb
  BY <1>5 DEF Untouched
<1> QED BY <1>1, <1>2, <1>3, <1>4, <1>5, TombsLeft DEF Marks

\* The deleter finds successes.
LEMMA FoundSetUp ==
    ASSUME QInv, [Next]_vars, NEW p \in Points, NEW d \in Dests, Found(p, d)'
    PROVE  Found(p, d) \/ (p \in points /\ replica[p][d].state = "SUCCESS" /\ UNCHANGED dataVars)
<1>1. CASE \E q \in Points : DeleteBegins(q)
  BY <1>1 DEF DeleteBegins, Found
<1>2. CASE UNCHANGED deleterVars
  BY <1>2 DEF deleterVars, Found
<1>3. CASE dpc' # "enqueue"
  BY <1>3 DEF Found
<1>4. (\E q \in Points : DeleteBegins(q)) \/ UNCHANGED deleterVars \/ dpc' # "enqueue"
  BY DEF Next, vars, Sender, Deleter, Finalize, ReadRow, RowGone, LoadWork, WorkFails, ClaimReplica, ClaimNoReplica,
         ClaimDelete, ClaimNoDelete, EraseFails, FinishDelete, DelayPasses, RetryReads, RetryWrites, Enqueue,
         EnqueueFails, RemoveLocal, RemoveFails, RemoveRow, BeginTransfer, FinishTransfer, StartPublish, WriteRow,
         StartErase, PublishAnswered, PublishUnanswered, EraseAnswered, EraseUnanswered, Crash,
         Receive, Outage, DeleteEnds
<1> QED BY <1>1, <1>2, <1>3, <1>4
LEMMA NoRetry == FirstTry => ~RetryWrites
BY DEF FirstTry, RetryWrites

Stores(p, d) == WriteRow /\ update = "SUCCESS" /\ p = work.point /\ d = work.dest

\* A replica of which nothing is settled is settled by its success alone.
LEMMA UnsettledStep ==
    ASSUME QInv, FirstTry, [Next]_vars, NEW p \in Points, NEW d \in Dests, Unsettled(p, d), ~Stores(p, d)
    PROVE  Unsettled(p, d)'
<1>t. update \in Updates /\ p <= created /\ p \in Nat
  BY NaturalBounds DEF QInv, TypeOK, Unsettled, Points
<1>1. p <= created'
  BY <1>t, PointsStep
<1>2. Untouched(p, d)'
  BY TombSetUp DEF Unsettled
<1>3. ~Found(p, d)'
  BY FoundSetUp DEF Unsettled, Working
<1>4. ASSUME p \in points'
      PROVE  replica'[p][d].state \in Working \cup {"FAILED"}
  <2>1. p \in points /\ replica[p][d].state \in Working \cup {"FAILED"}
    BY <1>t, <1>4, PointsStep DEF Unsettled
  <2>2. replica[p][d].state \notin {"PENDING", "BLOCKED"}
    BY <2>1 DEF Working
  <2>3. \/ replica'[p][d] = replica[p][d]
        \/ /\ WriteRow /\ p = work.point /\ d = work.dest /\ update \in States
           /\ replica'[p][d].state = update
    BY <1>t, <1>4, <2>2, EntryStep, NoRetry DEF FirstTry
  <2>4. update \in States /\ update # "SUCCESS" => update \in Working \cup {"FAILED"}
    BY <1>t DEF Updates, States, Working
  <2> QED BY <2>1, <2>3, <2>4 DEF Stores
<1> QED BY <1>1, <1>2, <1>3, <1>4 DEF Unsettled

LEMMA TasksFirst ==
    ASSUME QInv, FirstTry, [Next]_vars, NEW p \in Points, NEW d \in Dests
    PROVE  replica'[p][d].task = 0
<1>t. /\ replica \in [Points -> Metadata] /\ replica[p] \in [Dests -> Entries] /\ replica[p][d] \in Entries
      /\ replica[p][d].task = 0 /\ apc = "idle"
  BY DEF QInv, TypeOK, Metadata, FirstTry
<1>1. CASE ClaimReplica
  <2>1. PICK q \in points, e \in Dests : replica' = Claimed(q, e)
    BY <1>1 DEF ClaimReplica
  <2>2. replica'[p][d] \in {replica[p][d], [replica[p][d] EXCEPT !.state = "TRANSFERRING"],
                           [replica[p][d] EXCEPT !.state = "BLOCKED"]}
    BY <2>1 DEF Claimed
  <2> QED BY <1>t, <2>2 DEF Entries
<1>2. CASE ClaimNoReplica
  <2>1. replica'[p][d] \in {replica[p][d], [replica[p][d] EXCEPT !.state = "BLOCKED"]}
    BY <1>2 DEF ClaimNoReplica
  <2> QED BY <1>t, <2>1 DEF Entries
<1>3. CASE WriteRow
  <2>1. CASE p \in points
    <3>1. replica'[p][d] \in {UpdatedEntry(replica[p][d]), replica[p][d]}
      BY <1>3, <2>1, WrittenEntry DEF FirstTry
    <3>2. UpdatedEntry(replica[p][d]).task = replica[p][d].task
      BY <1>t, EntrySet DEF UpdatedEntry
    <3> QED BY <1>t, <3>1, <3>2
  <2>2. CASE p \notin points
    <3>1. replica'[p] = replica[p]
      BY <1>t, <1>3, <2>2 DEF WriteRow
    <3> QED BY <1>t, <3>1
  <2> QED BY <2>1, <2>2
<1>4. CASE RemoveRow
  <2>1. replica'[p] \in {replica[p], NoMetadata}
    BY <1>4, <1>t DEF RemoveRow
  <2> QED BY <1>t, <2>1 DEF NoMetadata, NoEntry
<1>5. CASE UNCHANGED replica
  BY <1>t, <1>5
<1> QED BY <1>1, <1>2, <1>3, <1>4, <1>5, RowWriters, NoRetry

\* A publication on its way is one of which nothing is settled.
LEMMA CallsUnsettled ==
    ASSUME QInv, FirstTry, [Next]_vars, NEW c \in Calls, OnWay(c)', c.kind = "PUBLISH"
    PROVE  c.id = 0 /\ Unsettled(c.point, c.dest)'
<1>0. c.point \in Points /\ c.dest \in Dests
  BY DEF Calls
<1>1. c # Deletion
  BY DEF Deletion
<1>2. c.id = 0 /\ Unsettled(c.point, c.dest)
  <2>1. CASE OnWay(c)
    BY <2>1 DEF FirstTry
  <2>2. CASE StartPublish /\ c = Publication
    <3>1. work.id = 0 /\ Unsettled(work.point, work.dest)
      BY <2>2 DEF StartPublish, AtWork, FirstTry
    <3>2. c.point = work.point /\ c.dest = work.dest /\ c.id = work.id
      BY <2>2 DEF Publication
    <3> QED BY <3>1, <3>2
  <2> QED BY <1>1, <2>1, <2>2, OnWayStep
<1>3. ~Stores(c.point, c.dest)
  <2> SUFFICES ASSUME Stores(c.point, c.dest) PROVE FALSE
    OBVIOUS
  <2>1. spc = "write" /\ update = "SUCCESS" /\ ~StartPublish
    BY DEF Stores, WriteRow, StartPublish
  <2>2. ~OnWay(Publication) /\ work.id = 0
    BY <2>1 DEF QInv, CallsSound, FirstTry, AtWork
  <2>3. c = Publication
    <3>1. c = [kind |-> c.kind, point |-> c.point, dest |-> c.dest, id |-> c.id]
      BY DEF Calls
    <3> QED BY <1>2, <2>2, <3>1 DEF Stores, Publication
  <2> QED BY <1>1, <2>1, <2>2, <2>3, OnWayStep
<1> QED BY <1>0, <1>2, <1>3, UnsettledStep

\* So is the work of the sender.
LEMMA WorkUnsettled ==
    ASSUME QInv, FirstTry, [Next]_vars, spc' \in AtWork,
           NEW p \in Points, NEW d \in Dests, p = work'.point, d = work'.dest
    PROVE  work'.id = 0 /\ Unsettled(p, d)'
<1>t. update \in Updates /\ replica \in [Points -> Metadata] /\ points \subseteq 1 .. created
  BY DEF QInv, TypeOK
<1>1. CASE ClaimReplica
  <2>1. PICK q \in points, e \in Dests :
            /\ NextRunnable(q, e) /\ replica' = Claimed(q, e)
            /\ work' = [point |-> q, dest |-> e, id |-> replica[q][e].task]
    BY <1>1 DEF ClaimReplica
  <2>2. p = q /\ d = e /\ work'.id = 0
    BY <2>1 DEF FirstTry
  <2>3. p \in points /\ replica[p][d].state \in {"PENDING", "BLOCKED"}
    BY <2>1, <2>2 DEF NextRunnable, Runnable, Waiting
  <2>4. replica'[p][d] = [replica[p][d] EXCEPT !.state = "TRANSFERRING"]
    BY <2>1, <2>2 DEF Claimed
  <2>5. replica[p][d] \in Entries
    BY <1>t DEF Metadata
  <2>6. replica'[p][d].state = "TRANSFERRING"
    BY <2>4, <2>5 DEF Entries
  <2>7. Untouched(p, d) /\ ~Found(p, d)
    BY <2>3 DEF FirstTry, Settled
  <2>8. p <= created /\ UNCHANGED <<created, points, tomb, deleterVars>>
    BY <1>t, <1>1, <2>3 DEF ClaimReplica
  <2> QED BY <2>2, <2>6, <2>7, <2>8 DEF Unsettled, Untouched, Found, Working, deleterVars
<1>2. CASE ~ClaimReplica
  <2>1. spc \in AtWork /\ work' = work /\ ~Stores(p, d)
    <3>1. CASE WorkStep
      BY <3>1, WorkingOn DEF Stores, WriteRow, WorkStep, ReadRow, RowGone, LoadWork, WorkFails, BeginTransfer,
                FinishTransfer, StartPublish, PublishAnswered, PublishUnanswered, Updating
    <3>2. CASE WriteRow
      BY <1>t, <3>2, Written DEF AtWork, Stores
    <3>3. CASE Leaving
      BY <3>3, LeavingWork DEF AtWork
    <3>4. CASE UNCHANGED senderVars
      <4>1. ~WriteRow
        BY <1>t, <3>4, Written DEF senderVars
      <4> QED BY <3>4, <4>1 DEF senderVars, Stores
    <3> QED BY <1>2, <3>1, <3>2, <3>3, <3>4, SenderSteps
  <2>2. work.id = 0 /\ Unsettled(p, d)
    BY <2>1 DEF FirstTry
  <2> QED BY <2>1, <2>2, UnsettledStep
<1> QED BY <1>1, <1>2

\* What was deleted, or is to be, was a success.
LEMMA SettledKept ==
    ASSUME QInv, FirstTry, [Next]_vars, NEW p \in Points, NEW d \in Dests,
           ~Untouched(p, d)' \/ Found(p, d)'
    PROVE  Settled(p, d)'
<1>t. p \in Nat /\ points \subseteq 1 .. created
  BY NaturalBounds DEF Points, QInv, TypeOK
<1>1. Settled(p, d) /\ ~(WriteRow /\ p \in points /\ p = work.point /\ d = work.dest)
  <2>1. CASE ~Untouched(p, d) \/ Found(p, d)
    <3>1. Settled(p, d)
      BY <2>1 DEF FirstTry
    <3>2. ASSUME WriteRow, p = work.point, d = work.dest PROVE FALSE
      <4>1. Unsettled(p, d)
        BY <3>2 DEF WriteRow, FirstTry, AtWork
      <4> QED BY <2>1, <4>1 DEF Unsettled
    <3> QED BY <3>1, <3>2
  <2>2. CASE Untouched(p, d) /\ ~Found(p, d)
    <3>1. Found(p, d)'
      BY <2>2, TombSetUp
    <3>2. p \in points /\ replica[p][d].state = "SUCCESS" /\ UNCHANGED dataVars
      BY <2>2, <3>1, FoundSetUp
    <3>3. ASSUME WriteRow, p = work.point, d = work.dest PROVE FALSE
      <4>1. replica[p][d].state \in Working
        BY <3>2, <3>3 DEF WriteRow, FirstTry, WorkSound, AtWork
      <4> QED BY <3>2, <4>1 DEF Working
    <3> QED BY <1>t, <3>2, <3>3 DEF Settled
  <2> QED BY <2>1, <2>2
<1>2. p <= created /\ p <= created'
  BY <1>t, <1>1, PointsStep DEF Settled
<1>3. ASSUME p \in points' PROVE replica'[p][d].state = "SUCCESS"
  <2>1. p \in points /\ replica[p][d].state = "SUCCESS"
    BY <1>1, <1>2, <1>3, PointsStep DEF Settled
  <2> QED BY <1>1, <1>2, <1>3, <2>1, EntryStep, NoRetry DEF FirstTry
<1> QED BY <1>2, <1>3 DEF Settled

\* What is gone stays away: of a replica that was touched no publication is on its way.
LEMMA GoneKept ==
    ASSUME QInv, FirstTry, [Next]_vars, NEW p \in Points, NEW d \in Dests, ~Untouched(p, d), Gone(d, p)
    PROVE  Gone(d, p)'
<1>1. CASE Receive
  <2>1. PICK c \in Pending : Serve(c)
    BY <1>1 DEF Receive, Reception
  <2>2. /\ c \in Calls /\ c.point \in Points /\ c.dest \in Dests /\ OnWay(c) /\ ReceiverInv
        /\ bundle \in [Dests -> [Points -> {"NONE", "WHOLE", "PARTIAL"}]]
        /\ marker \in [Dests -> [Points -> Tasks \cup {NoTask}]]
    BY <2>1, PendingOnWay DEF Calls, QInv, TypeOK, ReceiverTypeOK
  <2>3. CASE c.point # p \/ c.dest # d
    <3>1. bundle'[d][p] = bundle[d][p] /\ marker'[d][p] = marker[d][p]
      BY <2>1, <2>2, <2>3 DEF Serve, PublishAgain, PublishStarts, WriteIntent, ResumeMoved, Move, WriteMarker,
             DeleteStarts, RemoveSome, RemoveAll, Unlink, StepFails, storeVars, SetBundle
    <3> QED BY <3>1 DEF Gone, Published
  <2>4. CASE c.point = p /\ c.dest = d
    <3>1. c.kind # "PUBLISH"
      BY <2>2, <2>4 DEF FirstTry, Unsettled
    <3>2. ~Move(c) /\ ~WriteMarker(c)
      <4>1. \A s \in Steps : At(c, s) => Sound(c.dest, c, s)
        BY <2>2, ServedIsSound
      <4> QED BY <3>1, <4>1 DEF Move, WriteMarker, Steps, Sound, PublishSound
    <3>3. ~RemoveSome(c)
      BY <2>4 DEF RemoveSome, Gone, Bundle
    <3>4. CASE RemoveAll(c)
      BY <2>2, <2>4, <3>4 DEF RemoveAll, SetBundle, Gone, Published
    <3>5. CASE Unlink(c)
      BY <2>2, <2>4, <3>5 DEF Unlink, Gone, Published
    <3>6. CASE UNCHANGED <<bundle, marker>>
      BY <3>6 DEF Gone, Published
    <3>7. RemoveAll(c) \/ Unlink(c) \/ UNCHANGED <<bundle, marker>>
      BY <2>1, <3>2, <3>3 DEF Serve, PublishAgain, PublishStarts, WriteIntent, ResumeMoved, DeleteStarts,
                              StepFails, storeVars
    <3> QED BY <3>4, <3>5, <3>6, <3>7
  <2> QED BY <2>3, <2>4
<1>2. CASE UNCHANGED <<bundle, marker>>
  BY <1>2 DEF Gone, Published
<1> QED BY <1>1, <1>2, StoreLeft

\* A deletion that is answered with success has left nothing.
LEMMA ErasedIsGone ==
    ASSUME QInv, NEW c \in Pending, Serve(c), c.kind = "DELETE", answer' = "ok", answer # "ok"
    PROVE  Gone(c.dest, c.point)'
<1>t. /\ c \in Calls /\ c.point \in Points /\ c.dest \in Dests /\ ReceiverInv
      /\ marker \in [Dests -> [Points -> Tasks \cup {NoTask}]]
  BY PendingOnWay DEF Calls, QInv, TypeOK, ReceiverTypeOK
<1>0. \A s \in Steps : At(c, s) => Sound(c.dest, c, s)
  BY <1>t, ServedIsSound
<1>1. CASE DeleteStarts(c)
  BY <1>1 DEF DeleteStarts, Goes, Returns, Unlisted, Gone, Published, Bundle, storeVars
<1>2. CASE Unlink(c)
  <2>1. Sound(c.dest, c, "unlink")
    BY <1>2, <1>0 DEF Unlink, Steps
  <2>2. bundle[c.dest][c.point] = "NONE"
    BY <2>1 DEF Sound, DeleteSound, Bundle
  <2> QED BY <1>t, <1>2, <2>2 DEF Unlink, Gone, Published
<1>3. ~(\/ PublishAgain(c) \/ PublishStarts(c) \/ WriteIntent(c) \/ ResumeMoved(c) \/ Move(c) \/ WriteMarker(c))
  BY <1>0 DEF PublishAgain, PublishStarts, WriteIntent, ResumeMoved, Move, WriteMarker, Locks, Steps, Sound,
              PublishSound
<1>4. ~(RemoveSome(c) \/ RemoveAll(c) \/ StepFails(c))
  BY DEF RemoveSome, RemoveAll, StepFails, Returns, Goes
<1> QED BY <1>1, <1>2, <1>3, <1>4 DEF Serve

LEMMA GoneAnswered ==
    ASSUME QInv, FirstTry, [Next]_vars, spc' = "erasing", answer' = "ok",
           NEW p \in Points, NEW d \in Dests, p = doomed'.point, d = doomed'.dest
    PROVE  Gone(d, p)'
<1>1. ~StartErase
  BY DEF StartErase
<1>2. spc \in AtDelete
  <2>1. ~(WorkStep \/ WriteRow \/ ClaimReplica \/ ClaimDelete)
    <3>1. update \in Updates
      BY DEF QInv, TypeOK
    <3> QED BY <3>1, WorkingOn, Written DEF AtWork, ClaimReplica, ClaimDelete
  <2> QED BY <1>1, <2>1, SenderSteps, LeavingWork DEF senderVars, AtDelete
<1>3. spc = "erasing" /\ doomed' = doomed
  BY <1>1, <1>2, DoomedKept DEF AtDelete
<1>4. call = Deletion /\ DoomedTomb.state = "RUNNING" /\ p = doomed.point /\ d = doomed.dest
  BY <1>2, <1>3, DoomedTyped DEF QInv, CallSound
<1>5. CASE answer = "ok"
  <2>1. Gone(d, p) /\ ~Untouched(p, d)
    BY <1>3, <1>4, <1>5 DEF FirstTry, Untouched, DoomedTomb
  <2> QED BY <2>1, GoneKept
<1>6. CASE answer # "ok"
  <2>1. Receive
    <3>1. ~(Aside \/ UNCHANGED vars)
      BY <1>6, AsideLeaves DEF serviceVars, vars, receiver
    <3>2. ~Hangs
      BY HangsUp DEF HangUp
    <3>3. ~(BeginTransfer \/ FinishTransfer \/ StartPublish \/ Outage)
      BY <1>6 DEF BeginTransfer, FinishTransfer, StartPublish, Outage, Interrupted
    <3> QED BY <1>1, <3>1, <3>2, <3>3, StepKinds
  <2>2. PICK c \in Pending : Serve(c)
    BY <2>1 DEF Receive, Reception
  <2>3. c = call
    BY <1>6, <2>2, ServeAnswers
  <2>4. c.kind = "DELETE" /\ c.point = p /\ c.dest = d
    BY <1>4, <2>3 DEF Deletion
  <2> QED BY <1>6, <2>2, <2>4, ErasedIsGone
<1> QED BY <1>5, <1>6

\* A tombstone is completed by an answered deletion.
LEMMA CompletedBy ==
    ASSUME QInv, [Next]_vars, NEW p \in Points, NEW d \in Dests, tomb'[p][d].state = "COMPLETED"
    PROVE  \/ tomb[p][d].state = "COMPLETED"
           \/ EraseAnswered /\ Confirmed /\ p = doomed.point /\ d = doomed.dest
<1>t. TypeOK /\ tomb \in [Points -> [Dests -> Tombs]]
  BY DEF QInv, TypeOK
<1>1. CASE ClaimDelete
  <2>1. PICK q \in Points, e \in Dests :
            /\ Counted(tomb[q][e]) \in Tombs
            /\ tomb' = [tomb EXCEPT ![q][e] = Counted(tomb[q][e])]
    BY <1>1, ClaimSets
  <2>2. CASE p = q /\ d = e
    <3>1. tomb'[p][d] = Counted(tomb[p][d]) /\ tomb[p][d] \in Tombs
      BY <1>t, <2>1, <2>2, TombSet
    <3> QED BY <3>1 DEF Counted, Tombs
  <2>3. CASE p # q \/ d # e
    BY <1>t, <2>1, <2>3, TombSet
  <2> QED BY <2>2, <2>3
<1>2. CASE EraseAnswered \/ EraseUnanswered \/ EraseFails
  <2>1. PICK b \in BOOLEAN : FinishDelete(b) /\ (b => EraseAnswered /\ Confirmed)
    BY <1>2, Erases
  <2>2. PICK t \in Tombs :
            /\ t.state = "COMPLETED" => b
            /\ tomb' = [tomb EXCEPT ![doomed.point][doomed.dest] = t]
            /\ doomed.point \in Points /\ doomed.dest \in Dests
    BY <1>2, <2>1, Erases, FinishSets
  <2>3. tomb'[p][d] = tomb[p][d] \/ (tomb'[p][d] = t /\ p = doomed.point /\ d = doomed.dest)
    BY <1>t, <2>2, TombSet
  <2> QED BY <2>1, <2>2, <2>3
<1>3. CASE Enqueue
  BY <1>3, EnqueueSets
<1>4. CASE \E q \in Points, e \in Dests : DelayPasses(q, e)
  <2>1. PICK q \in Points, e \in Dests : DelayPasses(q, e)
    BY <1>4
  <2>2. PICK t \in Tombs : t.state = "PENDING" /\ tomb' = [tomb EXCEPT ![q][e] = t]
    BY <2>1, DelaySets
  <2>3. tomb'[p][d] = tomb[p][d] \/ tomb'[p][d] = t
    BY <1>t, <2>2, TombSet
  <2> QED BY <2>2, <2>3
<1>5. CASE UNCHANGED tomb
  BY <1>5
<1> QED BY <1>1, <1>2, <1>3, <1>4, <1>5, TombsLeft DEF Marks

LEMMA CompletedKept ==
    ASSUME QInv, FirstTry, [Next]_vars, NEW p \in Points, NEW d \in Dests, tomb'[p][d].state = "COMPLETED"
    PROVE  Gone(d, p)'
<1>1. CASE tomb[p][d].state = "COMPLETED"
  <2>1. Gone(d, p) /\ ~Untouched(p, d)
    BY <1>1 DEF FirstTry, Untouched
  <2> QED BY <2>1, GoneKept
<1>2. CASE EraseAnswered /\ Confirmed /\ p = doomed.point /\ d = doomed.dest
  <2>1. spc = "erasing" /\ answer = "ok" /\ UNCHANGED storeVars
    BY <1>2 DEF EraseAnswered, Confirmed, HangUp
  <2>2. Gone(d, p)
    BY <1>2, <2>1 DEF FirstTry
  <2> QED BY <2>1, <2>2 DEF Gone, Published, storeVars
<1> QED BY <1>1, <1>2, CompletedBy

LEMMA FirstTryKept ==
    ASSUME QInv, FirstTry, [Next]_vars, retries' = 0
    PROVE  FirstTry'
<1>1. apc' = "idle"
  <2>1. ~\E p \in Points, d \in Dests : RetryReads(p, d)
    BY NaturalBounds DEF RetryReads, QInv, TypeOK
  <2> QED BY <2>1 DEF FirstTry, Next, vars, apiVars, Sender, Deleter, Finalize, ReadRow, RowGone, LoadWork, WorkFails,
         ClaimReplica, ClaimNoReplica, ClaimDelete, ClaimNoDelete, EraseFails, FinishDelete, DelayPasses, DeleteBegins,
         Enqueue, EnqueueFails, RemoveLocal, RemoveFails, RemoveRow, BeginTransfer, FinishTransfer, StartPublish,
         WriteRow, RetryWrites, StartErase, PublishAnswered, PublishUnanswered, EraseAnswered, EraseUnanswered, Crash,
         Receive, Outage
<1>2. \A p \in Points, d \in Dests : replica'[p][d].task = 0
  BY TasksFirst
<1>3. \A c \in Calls : OnWay(c)' /\ c.kind = "PUBLISH" => c.id = 0 /\ Unsettled(c.point, c.dest)'
  BY CallsUnsettled
<1>4. ASSUME spc' \in AtWork
      PROVE  work'.id = 0 /\ Unsettled(work.point, work.dest)'
  <2>1. work' \in Works
    BY <1>4, SenderKept DEF SenderSound
  <2>2. PICK p \in Points, d \in Dests : p = work'.point /\ d = work'.dest
    BY <2>1 DEF Works
  <2>3. work'.id = 0 /\ Unsettled(p, d)'
    BY <1>4, <2>2, WorkUnsettled
  <2> QED BY <2>2, <2>3 DEF Unsettled, Untouched, Found
<1>5. RowsInHand' /\ WorkSound'
  BY <1>1, RowsInHandKept, WorkSoundKept DEF FirstTry
<1>6. \A p \in Points, d \in Dests : ~Untouched(p, d)' \/ Found(p, d)' => Settled(p, d)'
  BY SettledKept
<1>7. \A p \in Points, d \in Dests : tomb'[p][d].state = "COMPLETED" => Gone(d, p)'
  BY CompletedKept
<1>8. ASSUME spc' = "erasing", answer' = "ok" PROVE Gone(doomed.dest, doomed.point)'
  <2>1. doomed' \in Attempts
    BY <1>8, SenderKept DEF SenderSound, AtDelete
  <2>2. PICK p \in Points, d \in Dests : p = doomed'.point /\ d = doomed'.dest
    BY <2>1 DEF Attempts
  <2>3. Gone(d, p)'
    BY <1>8, <2>2, GoneAnswered
  <2> QED BY <2>2, <2>3 DEF Gone, Published
<1> QED BY <1>1, <1>2, <1>3, <1>4, <1>5, <1>6, <1>7, <1>8 DEF FirstTry

LEMMA InitFirstTry == Init => FirstTry
<1> SUFFICES ASSUME Init PROVE FirstTry
  OBVIOUS
<1>1. queue = {} /\ (\A d \in Dests : serving[d] = Idle)
  BY DEF Init, ReceiverInit
<1>2. \A c \in Calls : ~OnWay(c)
  BY <1>1 DEF OnWay
<1>3. \A p \in Points, d \in Dests : replica[p][d].task = 0 /\ tomb[p][d].state = "NONE"
  BY DEF Init, NoMetadata, NoEntry, NoTomb
<1>4. apc = "idle" /\ spc = "delete" /\ dpc = "idle"
  BY DEF Init
<1> QED BY <1>2, <1>3, <1>4, InitRows DEF FirstTry, AtWork, Found, Untouched

\* Without a retry a COMPLETED deletion has left nothing of the replica on the
\* receiver, and nothing comes back: no publication was under way.
THEOREM CompletedIsGoneAlways == Spec => []CompletedIsGone
<1>1. Init => FirstInv
  BY InitQueue, InitFirstTry DEF FirstInv
<1>2. FirstInv /\ [Next]_vars => FirstInv'
  <2> SUFFICES ASSUME QInv, retries = 0 => FirstTry, [Next]_vars PROVE QInv' /\ (retries' = 0 => FirstTry')
    BY DEF FirstInv
  <2>1. retries' = 0 => retries = 0
    <3>1. retries \in Nat
      BY NaturalBounds DEF QInv, TypeOK
    <3>2. retries' = retries \/ retries' = retries + 1
      BY DEF Next, vars, bounds, Sender, Deleter, Finalize, ReadRow, RowGone, LoadWork, WorkFails, ClaimReplica,
             ClaimNoReplica, ClaimDelete, ClaimNoDelete, EraseFails, FinishDelete, DelayPasses, DeleteBegins, Enqueue,
             EnqueueFails, RemoveLocal, RemoveFails, RemoveRow, BeginTransfer, FinishTransfer, StartPublish, WriteRow,
             RetryReads, RetryWrites, StartErase, PublishAnswered, PublishUnanswered, EraseAnswered, EraseUnanswered,
             Crash, Receive, Outage
    <3> QED BY <3>1, <3>2
  <2> QED BY <2>1, StepQueue, FirstTryKept
<1>3. FirstInv => CompletedIsGone
  BY DEF FirstInv, FirstTry, CompletedIsGone, Gone
<1> QED BY <1>1, <1>2, <1>3, PTL DEF Spec
=============================================================================
