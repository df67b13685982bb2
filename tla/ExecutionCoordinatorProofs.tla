---------------------- MODULE ExecutionCoordinatorProofs ----------------------
(* Proofs about SessionService and ExecutionCoordinator for every set of   *)
(* providers and any number of lanes, tasks, sessions and restarts: first  *)
(* about the session service, which the coordinator is shown to implement. *)
EXTENDS ExecutionCoordinator, SequenceTheorems, WellFoundedInduction,
        FiniteSetTheorems, TLAPS

(***************************************************************************)
(* The inductive invariant.  The properties are not inductive alone: that  *)
(* a switch to a listed session shows a session, and not a blank chat,     *)
(* needs that only ids that were given out are listed.                     *)
(***************************************************************************)
ListedIdsWereGiven == \A r \in rows : r[2] \in 1..lastId

IInv ==
    /\ TypeOK
    /\ ListedIdsWereGiven
    /\ StoreMirrorsView
    /\ BlankIsWritable
    /\ NoticeIsCurrent

(* The parts that are about the conversation, and the one about rollovers, *)
(* are disturbed by different steps.                                       *)
ViewInv == TypeOK /\ ListedIdsWereGiven /\ StoreMirrorsView /\ BlankIsWritable

LEMMA BlankProviderWritable == BlankProvider \in Writable
  BY ProviderAssumption DEF BlankProvider

LEMMA InitIInv == SessionInit => IInv
<1> SUFFICES ASSUME SessionInit PROVE IInv
  OBVIOUS
<1> USE ProviderAssumption DEF SessionInit
<1>1. \A r \in rows : r \in Providers \X (1..LegacyCount)
  OBVIOUS
<1>2. TypeOK
  BY <1>1 DEF TypeOK, None, Notices
<1>3. ListedIdsWereGiven
  BY <1>1 DEF ListedIdsWereGiven
<1>4. StoreMirrorsView /\ BlankIsWritable /\ NoticeIsCurrent
  BY DEF StoreMirrorsView, BlankIsWritable, NoticeIsCurrent
<1> QED  BY <1>2, <1>3, <1>4 DEF IInv

(***************************************************************************)
(* The conversation on screen and the store.                               *)
(***************************************************************************)
LEMMA NextViewInv ==
    ASSUME ViewInv, [SessionNext]_sessionVars
    PROVE  ViewInv'
<1> USE ProviderAssumption, BlankProviderWritable
    DEF ViewInv, TypeOK, ListedIdsWereGiven, StoreMirrorsView, BlankIsWritable,
        None, Notices, rolloverVars
<1>1. ASSUME NEW interactive \in BOOLEAN, AcceptPrompt(interactive)
      PROVE  ViewInv'
  BY <1>1 DEF AcceptPrompt, CaptureContext, CapturedOc,
              RecordAcceptedPromptTarget, storeVars
<1>2. ASSUME NEW s \in Ids, VisibleInit(s) PROVE ViewInv'
  BY <1>2 DEF VisibleInit, Ids, RecordSessionInitialized, ShowSession, SetActive
<1>3. ASSUME NEW s \in Ids, Interrupted(s) PROVE ViewInv'
  BY <1>3 DEF Interrupted, Ids, RecordInterruptedRun, SwitchState, SetActive
<1>4. ASSUME NEW p \in Writable, NEW s \in Ids, BackgroundInit(p, s)
      PROVE  ViewInv'
  BY <1>4 DEF BackgroundInit, Ids, RecordSessionInitialized, viewVars
<1>5. ASSUME NEW p \in Writable, NEW s \in Ids, BackgroundDone(p, s)
      PROVE  ViewInv'
  BY <1>5 DEF BackgroundDone, Ids, RecordBackgroundCompletion, viewVars
<1>6. CASE VisibleDone
  BY <1>6 DEF VisibleDone, CompleteRun, ShowSession, SetActive
<1>7. CASE InterruptedBlank
  BY <1>7 DEF InterruptedBlank, ClearState, storeVars
<1>8. CASE NewConversation
  BY <1>8 DEF NewConversation, ClearActiveSession, ClearState, RestoreBlankSelection
<1>9. CASE SwitchSession
  <2>1. PICK r \in rows : SwitchToResolvedSession(r[1], r[2])
    BY <1>9 DEF SwitchSession
  <2>2. r[1] \in Providers /\ r[2] \in 1..lastId /\ r = <<r[1], r[2]>>
    OBVIOUS
  <2> QED  BY <1>9, <2>1, <2>2
           DEF SwitchSession, SwitchToResolvedSession, SwitchState, SetActive
<1>10. CASE DeleteSession
  <2>1. PICK r \in rows : DeleteResolvedSession(r[1], r[2])
    BY <1>10 DEF DeleteSession
  <2>2. r[1] \in Providers /\ r[2] \in Nat
    OBVIOUS
  <2>3. CASE providerId = r[1] /\ sessionId = r[2]
    BY <1>10, <2>1, <2>2, <2>3
    DEF DeleteSession, DeleteResolvedSession, ClearState, RestoreBlankSelection
  <2>4. CASE ~(providerId = r[1] /\ sessionId = r[2])
    BY <1>10, <2>1, <2>2, <2>4 DEF DeleteSession, DeleteResolvedSession, viewVars
  <2> QED  BY <2>3, <2>4
<1>11. CASE SelectModel
  BY <1>11 DEF SelectModel, ModelSelect
<1>12. CASE BeginRollover
  BY <1>12 DEF BeginRollover, BeginRolloverAttempt, ClearActiveSession,
               ClearState, RestoreBlankSelection
<1>13. CASE FinishRollover
  BY <1>13 DEF FinishRollover, FinishRolloverAttempt, viewVars, storeVars
<1>14. CASE RestartDaemon
  <2>1. PICK p \in RestoredProviders : Restore(p)
    BY <1>14 DEF RestartDaemon, Restart
  <2>2. p \in Providers
    BY DEF RestoredProviders, Restorable
  <2>3. CASE Restorable(p)
    BY <1>14, <2>1, <2>2, <2>3 DEF RestartDaemon, Restore, Restorable
  <2>4. CASE ~Restorable(p)
    BY <1>14, <2>1, <2>2, <2>4 DEF RestartDaemon, Restore
  <2> QED  BY <2>3, <2>4
<1>15. CASE UNCHANGED sessionVars
  BY <1>15 DEF sessionVars, viewVars, storeVars
<1> QED
  BY <1>1, <1>2, <1>3, <1>4, <1>5, <1>6, <1>7, <1>8, <1>9, <1>10, <1>11, <1>12,
     <1>13, <1>14, <1>15 DEF SessionNext

(***************************************************************************)
(* The notice.                                                             *)
(***************************************************************************)
LEMMA NextNotice ==
    ASSUME NoticeIsCurrent, [SessionNext]_sessionVars
    PROVE  NoticeIsCurrent'
<1> USE DEF NoticeIsCurrent
<1>1. ASSUME NEW interactive \in BOOLEAN, AcceptPrompt(interactive)
      PROVE  NoticeIsCurrent'
  BY <1>1 DEF AcceptPrompt, RecordAcceptedPromptTarget, rolloverVars
<1>2. CASE BeginRollover
  BY <1>2 DEF BeginRollover, BeginRolloverAttempt
<1>3. CASE FinishRollover
  BY <1>3 DEF FinishRollover, FinishRolloverAttempt
<1>4. CASE UNCHANGED rolloverVars
  BY <1>4 DEF rolloverVars
<1> QED
  BY <1>1, <1>2, <1>3, <1>4
  DEF SessionNext, VisibleInit, Interrupted, BackgroundInit, BackgroundDone,
      VisibleDone, InterruptedBlank, NewConversation, SwitchSession,
      DeleteSession, SelectModel, RestartDaemon, sessionVars

LEMMA NextIInv == IInv /\ [SessionNext]_sessionVars => IInv'
  BY NextViewInv, NextNotice DEF IInv, ViewInv

LEMMA SpecIInv == SessionSpec => []IInv
  BY InitIInv, NextIInv, PTL DEF SessionSpec

(* The visible conversation and the session store keep their types.        *)
THEOREM TypeCorrect == SessionSpec => []TypeOK
  BY SpecIInv, PTL DEF IInv

(* However clients, runs, rollovers and restarts follow one another, the   *)
(* session store names the conversation on screen: SessionService writes   *)
(* the two in step.                                                        *)
THEOREM StoreAgrees == SessionSpec => []StoreMirrorsView
  BY SpecIInv, PTL DEF IInv

(* A blank conversation never belongs to a provider that is only kept for  *)
(* its history: restoreBlankSelection is called wherever one appears.      *)
THEOREM BlankChatsCanBeWritten == SessionSpec => []BlankIsWritable
  BY SpecIInv, PTL DEF IInv

(* No rollover notice outlives the next prompt of the user, whichever of   *)
(* recordAcceptedPromptTarget and finishRolloverAttempt comes first.       *)
THEOREM NoticesAreCurrent == SessionSpec => []NoticeIsCurrent
  BY SpecIInv, PTL DEF IInv

(***************************************************************************)
(* Restarts.                                                               *)
(***************************************************************************)
KeepsView ==
    \/ sessionId' = sessionId /\ (sessionId # None => providerId' = providerId)
    \/ sessionId = None /\ \E p \in Providers : Restorable(p)

LEMMA StepRestart ==
    ASSUME IInv, RestartDaemon
    PROVE  KeepsView
<1> USE DEF IInv, TypeOK, StoreMirrorsView
<1>1. CASE sessionId # None
  <2>1. activeProvider = providerId /\ activeProvider # NoProvider
    BY <1>1, ProviderAssumption
  <2>2. Restorable(activeProvider)
    BY <1>1, <2>1 DEF Restorable
  <2>3. RestoredProviders = {providerId}
    BY <2>1, <2>2 DEF RestoredProviders
  <2>4. Restore(providerId)
    BY <2>3 DEF RestartDaemon, Restart
  <2> QED  BY <1>1, <2>1, <2>2, <2>4 DEF Restore, KeepsView
<1>2. CASE sessionId = None /\ \A p \in Providers : ~Restorable(p)
  <2>1. PICK p \in RestoredProviders : Restore(p)
    BY DEF RestartDaemon, Restart
  <2>2. p \in Providers
    BY ProviderAssumption DEF RestoredProviders
  <2> QED  BY <1>2, <2>1, <2>2 DEF Restore, KeepsView
<1> QED  BY <1>1, <1>2 DEF KeepsView

(* The constructor of SessionService finds what was on screen when the     *)
(* daemon stopped, whatever the store holds besides; only a blank chat may *)
(* give way to a session left active elsewhere.                            *)
THEOREM RestartsKeepView == SessionSpec => RestartKeepsView
<1>1. IInv /\ [SessionNext]_sessionVars => [RestartDaemon => KeepsView]_sessionVars
  BY StepRestart
<1> QED  BY <1>1, SpecIInv, PTL DEF SessionSpec, RestartKeepsView, KeepsView

-----------------------------------------------------------------------------
(***************************************************************************)
(* getOrCreateLane                                                         *)
(***************************************************************************)
LEMMA LeastExists ==
    ASSUME NEW T \in SUBSET Nat, T # {}
    PROVE  \E x \in T : \A y \in T : ~(y < x)
<1>1. PICK x \in T : \A y \in T : ~(<<y, x>> \in OpToRel(<, Nat))
  BY NatLessThanWellFounded, WFMin
<1>2. \A y \in T : y < x => <<y, x>> \in OpToRel(<, Nat)
  BY DEF OpToRel
<1> QED  BY <1>1, <1>2

(* The lane that is taken is one that is found, or a new one.              *)
LEMMA LaneForFinds ==
    ASSUME lanes \in Seq(LaneRecords), NEW c
    PROVE  \/ LaneFor(c) \in DOMAIN lanes /\ Finds(c, lanes[LaneFor(c)])
           \/ /\ LaneFor(c) = Len(lanes) + 1
              /\ \A i \in DOMAIN lanes : ~Finds(c, lanes[i])
<1>1. CASE \E i \in DOMAIN lanes : Finds(c, lanes[i])
  <2> DEFINE T == {i \in DOMAIN lanes : Finds(c, lanes[i])}
  <2>a. T \in SUBSET Nat /\ T # {}
    BY <1>1, LenProperties
  <2>b. \E i \in T : \A j \in T : ~(j < i)
    <3> HIDE DEF T
    <3> QED  BY <2>a, LeastExists
  <2>1. PICK i \in T : \A j \in T : ~(j < i)
    BY <2>b
  <2>2. Finds(c, lanes[i]) /\ \A j \in 1..(i - 1) : ~Finds(c, lanes[j])
    BY <2>1
  <2>3. LaneFor(c) \in DOMAIN lanes /\ Finds(c, lanes[LaneFor(c)])
    BY <1>1, <2>2 DEF LaneFor
  <2> QED  BY <2>3
<1>2. CASE \A i \in DOMAIN lanes : ~Finds(c, lanes[i])
  BY <1>2 DEF LaneFor
<1> QED  BY <1>1, <1>2

(***************************************************************************)
(* The lanes and what is in them.  A task belongs to its lane: it is of    *)
(* the lane's provider, and of the session the lane has resolved to if it  *)
(* is of one at all.  A lane that is named after a session has resolved to *)
(* it, and a lane resolves once: to the session its first run reports.     *)
(***************************************************************************)
TaskFits(task, lane, n) ==
    /\ task.ctx.provider = lane.key.provider
    /\ task.ctx.provider \in Writable
    /\ task.ctx.oc \in 1..n
    /\ task.ctx.sid \in {None, lane.resolved}

RunFits(lane, n) ==
    lane.stage \in {"running", "reported", "settling"} =>
        /\ TaskFits(lane.run.task, lane, n)
        /\ IF lane.run.resume # None
           THEN lane.resolved = lane.run.resume /\ lane.stage # "reported"
           ELSE /\ lane.run.task.ctx.sid = None
                /\ lane.resolved = IF lane.run.inited THEN lane.run.task.ctx.oc ELSE None
                /\ lane.stage = "reported" => ~lane.run.inited

LaneFits(lane, n) ==
    /\ lane.resolved \in 0..n
    /\ lane.key.sid \in {None, lane.resolved}
    /\ \A k \in 1..Len(lane.queue) : TaskFits(lane.queue[k], lane, n)
    /\ RunFits(lane, n)

LanesInv ==
    /\ lanes \in Seq(LaneRecords)
    /\ \A i \in 1..Len(lanes) : LaneFits(lanes[i], lastId)

LEMMA LaneTypes ==
    ASSUME lanes \in Seq(LaneRecords)
    PROVE  /\ Len(lanes) \in Nat
           /\ DOMAIN lanes = 1..Len(lanes)
           /\ \A i \in 1..Len(lanes) : lanes[i] \in LaneRecords
  BY LenProperties, ElementOfSeq

LEMMA NoRunTyped == NoTask \in Tasks /\ NoRun \in RunRecords
  BY ProviderAssumption DEF NoTask, NoRun, Tasks, Sources, Interactive, Contexts, RunRecords, None

LEMMA MoreIds ==
    ASSUME NEW lane, NEW m \in Nat, NEW n \in Nat, m <= n, LaneFits(lane, m)
    PROVE  LaneFits(lane, n)
  BY DEF LaneFits, TaskFits, RunFits

LEMMA LaneUpdate ==
    ASSUME LanesInv, lastId \in Nat, lastId' \in Nat, lastId <= lastId',
           NEW i \in 1..Len(lanes), NEW lane \in LaneRecords, LaneFits(lane, lastId'),
           lanes' = [lanes EXCEPT ![i] = lane]
    PROVE  LanesInv'
<1>1. lanes' \in Seq(LaneRecords) /\ Len(lanes') = Len(lanes)
  BY ExceptSeq DEF LanesInv
<1>2. \A j \in 1..Len(lanes) : lanes'[j] = IF j = i THEN lane ELSE lanes[j]
  BY ExceptSeq DEF LanesInv
<1>3. \A j \in 1..Len(lanes) : LaneFits(lanes[j], lastId')
  BY MoreIds DEF LanesInv
<1> QED  BY <1>1, <1>2, <1>3 DEF LanesInv

LEMMA LaneReplaced ==
    ASSUME LanesInv, lastId \in Nat, UNCHANGED lastId,
           NEW i \in 1..Len(lanes), NEW lane \in LaneRecords, LaneFits(lane, lastId),
           lanes' = [lanes EXCEPT ![i] = lane]
    PROVE  LanesInv'
<1>1. lastId' \in Nat /\ lastId <= lastId' /\ LaneFits(lane, lastId')
  OBVIOUS
<1> QED  BY <1>1, LaneUpdate

LEMMA LaneAdded ==
    ASSUME LanesInv, lastId \in Nat, lastId' \in Nat, lastId <= lastId',
           NEW lane \in LaneRecords, LaneFits(lane, lastId'),
           lanes' = Append(lanes, lane)
    PROVE  LanesInv'
<1>1. /\ lanes' \in Seq(LaneRecords) /\ Len(lanes') = Len(lanes) + 1
      /\ \A j \in 1..Len(lanes) : lanes'[j] = lanes[j]
      /\ lanes'[Len(lanes) + 1] = lane
  BY AppendProperties DEF LanesInv
<1>2. \A j \in 1..Len(lanes) : LaneFits(lanes[j], lastId')
  BY MoreIds DEF LanesInv
<1>3. \A j \in 1..(Len(lanes) + 1) : j \in 1..Len(lanes) \/ j = Len(lanes) + 1
  BY LaneTypes DEF LanesInv
<1> QED  BY <1>1, <1>2, <1>3 DEF LanesInv

LEMMA LanesMapped ==
    ASSUME LanesInv, lastId \in Nat, lastId' \in Nat, lastId <= lastId',
           lanes' \in Seq(LaneRecords), Len(lanes') = Len(lanes),
           \A i \in 1..Len(lanes) : LaneFits(lanes[i], lastId') => LaneFits(lanes'[i], lastId')
    PROVE  LanesInv'
  BY MoreIds DEF LanesInv

(* The queue of a lane.                                                    *)
LEMMA QueueTyped ==
    ASSUME NEW lane \in LaneRecords
    PROVE  /\ lane.queue \in Seq(Tasks) /\ Len(lane.queue) \in Nat
           /\ \A k \in 1..Len(lane.queue) : lane.queue[k] \in Tasks
  BY LenProperties, ElementOfSeq DEF LaneRecords

LEMMA Queued ==
    ASSUME NEW lane \in LaneRecords, NEW task \in Tasks, NEW n \in Nat,
           NEW resolved, resolved = lane.resolved, NEW stage \in Stages,
           stage \in {"running", "reported", "settling"} => stage = lane.stage,
           LaneFits(lane, n), TaskFits(task, lane, n)
    PROVE  LET new == [lane EXCEPT !.queue = Append(@, task), !.resolved = resolved,
                                   !.stage = stage]
           IN  new \in LaneRecords /\ LaneFits(new, n)
<1> DEFINE q == Append(lane.queue, task)
           new == [lane EXCEPT !.queue = Append(@, task), !.resolved = resolved,
                               !.stage = stage]
<1>1. lane.queue \in Seq(Tasks) /\ Len(lane.queue) \in Nat
  BY QueueTyped
<1>2. /\ q \in Seq(Tasks) /\ Len(q) = Len(lane.queue) + 1
      /\ \A k \in 1..Len(lane.queue) : q[k] = lane.queue[k]
      /\ q[Len(lane.queue) + 1] = task
  BY <1>1, AppendProperties
<1>3. \A k \in 1..Len(q) : k \in 1..Len(lane.queue) \/ k = Len(lane.queue) + 1
  BY <1>1, <1>2
<1> HIDE DEF q
<1>4. new = [lane EXCEPT !.queue = q, !.resolved = resolved, !.stage = stage]
  BY DEF q
<1>5. new \in LaneRecords
  BY <1>2, <1>4 DEF LaneRecords
<1>6. /\ new.queue = q /\ new.resolved = lane.resolved /\ new.stage = stage
      /\ new.key = lane.key /\ new.run = lane.run
  BY <1>4 DEF LaneRecords
<1> HIDE DEF new
<1>7. \A k \in 1..Len(q) : TaskFits(q[k], new, n)
  BY <1>2, <1>3, <1>6 DEF LaneFits, TaskFits
<1>8. RunFits(new, n)
  BY <1>6 DEF LaneFits, RunFits, TaskFits
<1>9. LaneFits(new, n)
  BY <1>6, <1>7, <1>8 DEF LaneFits
<1> QED  BY <1>5, <1>9 DEF new

(***************************************************************************)
(* Every step keeps the lanes in order.                                    *)
(***************************************************************************)
OcWasGiven == ocSessionId \in 0..lastId

ViewKnown == IInv /\ OcWasGiven

LEMMA ViewFacts ==
    ASSUME ViewKnown
    PROVE  /\ lastId \in Nat /\ lastInteractive \in Nat /\ lastHandled \in Nat
           /\ generation \in Nat /\ providerId \in Providers
           /\ sessionId \in 0..lastId /\ ocSessionId \in 0..lastId
  BY DEF ViewKnown, IInv, TypeOK, StoreMirrorsView, ListedIdsWereGiven, OcWasGiven, None

LEMMA ContextFacts ==
    ASSUME ViewKnown, accepted \in Nat, NEW source \in Sources, CaptureContext
    PROVE  /\ Task(source) \in Tasks /\ Context \in Contexts
           /\ lastId' \in Nat /\ lastId <= lastId' /\ Context.oc \in 1..lastId'
  BY ViewFacts DEF Task, Context, Contexts, Tasks, CapturedOc, CaptureContext, None

(* The lane a task is put into, before and after.                          *)
LEMMA EnqueueLane ==
    ASSUME ViewKnown, LanesInv, accepted \in Nat, NEW source \in Sources, Accept(source)
    PROVE  LET i == LaneFor(Context)
               lane == IF i \in DOMAIN lanes THEN lanes[i] ELSE NewLane(Context)
               new == [lane EXCEPT !.queue = Append(@, Task(source)),
                                   !.resolved = IF Context.sid = None THEN @ ELSE Context.sid,
                                   !.stage = IF @ = "idle" THEN "start" ELSE @]
           IN  /\ lane \in LaneRecords /\ LaneFits(lane, lastId')
               /\ new \in LaneRecords /\ LaneFits(new, lastId')
<1> DEFINE c == Context
           i == LaneFor(c)
           lane == IF i \in DOMAIN lanes THEN lanes[i] ELSE NewLane(c)
           resolved == IF c.sid = None THEN lane.resolved ELSE c.sid
           stage == IF lane.stage = "idle" THEN "start" ELSE lane.stage
           new == [lane EXCEPT !.queue = Append(@, Task(source)), !.resolved = resolved,
                               !.stage = stage]
<1>a. SUFFICES /\ lane \in LaneRecords /\ LaneFits(lane, lastId')
               /\ resolved = lane.resolved /\ TaskFits(Task(source), lane, lastId')
  <2>1. stage \in Stages /\ (stage \in {"running", "reported", "settling"} => stage = lane.stage)
    BY DEF LaneRecords, Stages
  <2>2. Task(source) \in Tasks /\ lastId' \in Nat
    BY ContextFacts DEF Accept
  <2> HIDE DEF lane, resolved, stage
  <2>3. new \in LaneRecords /\ LaneFits(new, lastId')
    BY <2>1, <2>2, Queued
  <2> QED  BY <2>3 DEF lane, resolved, stage
<1>1. /\ Task(source) \in Tasks /\ c \in Contexts /\ c.oc \in 1..lastId'
      /\ lastId \in Nat /\ lastId' \in Nat /\ lastId <= lastId'
      /\ c.provider \in Writable /\ c.sid \in 0..lastId'
      /\ Task(source).ctx = c
  <2>1. CaptureContext /\ providerId \in Writable
    BY DEF Accept
  <2> QED  BY <2>1, ContextFacts, ViewFacts DEF Context, Task
<1>2. CASE i \in DOMAIN lanes /\ Finds(c, lanes[i])
  <2>1. lane \in LaneRecords /\ LaneFits(lane, lastId)
    BY <1>2, LaneTypes DEF LanesInv
  <2>2. LaneFits(lane, lastId')
    BY <1>1, <2>1, MoreIds
  <2>3. /\ c.provider = lane.key.provider
        /\ c.sid # None => lane.resolved = c.sid
    BY <1>2, <2>1 DEF Finds, Key, LaneFits
  <2>4. TaskFits(Task(source), lane, lastId')
    BY <1>1, <2>3 DEF TaskFits
  <2> QED  BY <2>1, <2>2, <2>3, <2>4
<1>3. CASE i \notin DOMAIN lanes
  <2>1. lane = NewLane(c)
    BY <1>3
  <2>2. lane \in LaneRecords
    <3>1. Key(c) \in [provider : Providers, sid : Nat, gen : Nat] /\ c.sid \in Nat
      BY <1>1 DEF Key, Contexts
    <3>2. <<>> \in Seq(Tasks) /\ "idle" \in Stages
      BY EmptySeq DEF Stages
    <3>3. NewLane(c) \in LaneRecords
      <4> HIDE DEF c
      <4> QED  BY <3>1, <3>2, NoRunTyped DEF NewLane, LaneRecords
    <3> QED  BY <2>1, <3>3
  <2>3. LaneFits(lane, lastId') /\ TaskFits(Task(source), lane, lastId')
    BY <1>1, <2>1, EmptySeq DEF NewLane, Key, LaneFits, TaskFits, RunFits, None
  <2>4. (IF c.sid = None THEN lane.resolved ELSE c.sid) = lane.resolved
    BY <2>1 DEF NewLane
  <2> QED  BY <2>2, <2>3, <2>4
<1> QED  BY <1>2, <1>3, LaneForFinds, LaneTypes DEF LanesInv

LEMMA AcceptKeepsLanes ==
    ASSUME ViewKnown, LanesInv, accepted \in Nat, NEW source \in Sources, Accept(source)
    PROVE  LanesInv'
<1>1. lastId \in Nat /\ lastId' \in Nat /\ lastId <= lastId'
  BY ContextFacts, ViewFacts DEF Accept
<1>2. DOMAIN lanes = 1..Len(lanes)
  BY LaneTypes DEF LanesInv
<1> QED  BY <1>1, <1>2, EnqueueLane, LaneUpdate, LaneAdded DEF Accept, Enqueue

LEMMA SameFits ==
    ASSUME NEW lane \in LaneRecords, NEW new \in LaneRecords, NEW n \in Nat, LaneFits(lane, n),
           new.key = lane.key, new.resolved = lane.resolved, new.queue = lane.queue,
           \/ new.stage \in {"idle", "start", "next"}
           \/ /\ lane.stage \in {"running", "reported", "settling"}
              /\ new.run.task = lane.run.task /\ new.run.resume = lane.run.resume
              /\ new.run.inited = lane.run.inited
              /\ new.stage = "reported" => lane.run.resume = None /\ ~lane.run.inited
    PROVE  LaneFits(new, n)
  BY DEF LaneFits, RunFits, TaskFits

LEMMA ShiftKeepsLanes ==
    ASSUME LanesInv, lastId \in Nat, UNCHANGED lastId, NEW i \in 1..Len(lanes),
           lanes[i].queue # <<>>, NEW stage \in {"next", "running"}, NEW run \in RunRecords,
           Shifted(i, stage, run),
           stage = "running" =>
               /\ run.task = Head(lanes[i].queue) /\ ~run.inited
               /\ run.resume = IF lanes[i].resolved # None THEN lanes[i].resolved
                                                           ELSE run.task.ctx.sid
    PROVE  LanesInv'
<1> DEFINE q == Tail(lanes[i].queue)
           new == [lanes[i] EXCEPT !.queue = q, !.stage = stage, !.run = run]
<1>1. lanes[i] \in LaneRecords /\ LaneFits(lanes[i], lastId)
  BY LaneTypes DEF LanesInv
<1>2. /\ q \in Seq(Tasks) /\ Len(q) = Len(lanes[i].queue) - 1
      /\ \A k \in 1..Len(q) : q[k] = lanes[i].queue[k + 1]
      /\ Len(lanes[i].queue) \in Nat \ {0}
      /\ Head(lanes[i].queue) = lanes[i].queue[1]
  BY <1>1, QueueTyped, HeadTailProperties, EmptySeq
<1> HIDE DEF q
<1>3. new \in LaneRecords
  BY <1>1, <1>2 DEF LaneRecords, Stages
<1>4. /\ new.key = lanes[i].key /\ new.resolved = lanes[i].resolved /\ new.queue = q
      /\ new.stage = stage /\ new.run = run
  BY <1>1 DEF LaneRecords
<1>5. lanes' = [lanes EXCEPT ![i] = new]
  BY DEF Shifted, q
<1> HIDE DEF new
<1>6. \A k \in 1..Len(q) : TaskFits(q[k], new, lastId)
  BY <1>1, <1>2, <1>4 DEF LaneFits, TaskFits
<1>7. TaskFits(Head(lanes[i].queue), new, lastId)
  BY <1>1, <1>2, <1>4 DEF LaneFits, TaskFits
<1>8. RunFits(new, lastId)
  BY <1>4, <1>7 DEF RunFits, TaskFits, None
<1>9. LaneFits(new, lastId)
  BY <1>1, <1>4, <1>6, <1>8 DEF LaneFits
<1> QED  BY <1>3, <1>5, <1>9, LaneReplaced

LEMMA RunBegins ==
    ASSUME LanesInv, NEW i \in 1..Len(lanes), NEW task \in Tasks
    PROVE  [NoRun EXCEPT !.task = task,
               !.resume = IF lanes[i].resolved # None THEN lanes[i].resolved
                                                      ELSE task.ctx.sid] \in RunRecords
<1>1. lanes[i].resolved \in Nat
  BY LaneTypes DEF LanesInv, LaneRecords
<1>2. task.ctx.sid \in Nat
  BY DEF Tasks, Contexts
<1> QED  BY <1>1, <1>2, NoRunTyped DEF RunRecords

LEMMA TurnKeepsLanes ==
    ASSUME LanesInv, lastId \in Nat, NEW i \in 1..Len(lanes), Turn(i)
    PROVE  LanesInv'
<1>1. lanes[i] \in LaneRecords /\ LaneFits(lanes[i], lastId)
  BY LaneTypes DEF LanesInv
<1>2. UNCHANGED lastId
  BY DEF Turn, RunPrompt, RunHeartbeat, RunRollover, sessionVars
<1>3. CASE lanes[i].queue = <<>>
  <2> DEFINE new == [lanes[i] EXCEPT !.stage = "idle"]
  <2>1. lanes' = [lanes EXCEPT ![i] = new]
    BY <1>3 DEF Turn
  <2>2. new \in LaneRecords /\ new.key = lanes[i].key /\ new.resolved = lanes[i].resolved
        /\ new.queue = lanes[i].queue /\ new.stage = "idle"
    BY <1>1 DEF LaneRecords, Stages
  <2> HIDE DEF new
  <2>3. LaneFits(new, lastId)
    BY <1>1, <2>1, <2>2, SameFits
  <2> QED  BY <1>2, <2>1, <2>2, <2>3, LaneReplaced
<1>4. CASE lanes[i].queue # <<>>
  <2> DEFINE task == Head(lanes[i].queue)
  <2>1. task \in Tasks
    BY <1>1, <1>4, QueueTyped, HeadTailProperties
  <2>2. CASE BeginRun(i, task)
    <3> DEFINE run == [NoRun EXCEPT !.task = task,
                          !.resume = IF lanes[i].resolved # None THEN lanes[i].resolved
                                                                 ELSE task.ctx.sid]
    <3>1. run \in RunRecords
      BY <2>1, RunBegins
    <3>2. run.task = task /\ ~run.inited
          /\ run.resume = IF lanes[i].resolved # None THEN lanes[i].resolved
                                                      ELSE run.task.ctx.sid
      BY DEF NoRun
    <3>3. Shifted(i, "running", run)
      BY <2>2 DEF BeginRun
    <3> HIDE DEF run
    <3> QED  BY <1>2, <1>4, <3>1, <3>2, <3>3, ShiftKeepsLanes
  <2>3. CASE Shifted(i, "next", NoRun)
    BY <1>2, <1>4, <2>3, NoRunTyped, ShiftKeepsLanes
  <2> QED  BY <1>4, <2>2, <2>3 DEF Turn, RunPrompt, RunHeartbeat, RunRollover
<1> QED  BY <1>3, <1>4

LEMMA EndKeepsLanes ==
    ASSUME LanesInv, lastId \in Nat, UNCHANGED lastId, NEW i \in 1..Len(lanes),
           lanes' = [lanes EXCEPT ![i].stage = "next", ![i].run = NoRun]
    PROVE  LanesInv'
<1> DEFINE new == [lanes[i] EXCEPT !.stage = "next", !.run = NoRun]
<1>1. lanes[i] \in LaneRecords /\ LaneFits(lanes[i], lastId)
  BY LaneTypes DEF LanesInv
<1>2. lanes' = [lanes EXCEPT ![i] = new]
  OBVIOUS
<1>3. new \in LaneRecords /\ new.key = lanes[i].key /\ new.resolved = lanes[i].resolved
      /\ new.queue = lanes[i].queue /\ new.stage = "next"
  BY <1>1, NoRunTyped DEF LaneRecords, Stages
<1> HIDE DEF new
<1>4. LaneFits(new, lastId)
  BY <1>1, <1>3, SameFits
<1> QED  BY <1>2, <1>3, <1>4, LaneReplaced

LEMMA ResolveKeepsLanes ==
    ASSUME LanesInv, lastId \in Nat, UNCHANGED lastId, NEW i \in 1..Len(lanes),
           lanes[i].stage \in {"running", "reported"}, ~lanes[i].run.inited, Resolved(i)
    PROVE  LanesInv'
<1> DEFINE new == [lanes[i] EXCEPT !.stage = "running",
                                   !.run = [lanes[i].run EXCEPT !.inited = TRUE],
                                   !.resolved = ProviderSession(i)]
<1>1. lanes[i] \in LaneRecords /\ LaneFits(lanes[i], lastId)
  BY LaneTypes DEF LanesInv
<1>2. /\ ProviderSession(i) \in 0..lastId
      /\ lanes[i].resolved # None => ProviderSession(i) = lanes[i].resolved
  BY <1>1 DEF ProviderSession, LaneFits, RunFits, TaskFits, LaneRecords, RunRecords, None
<1>3. lanes' = [lanes EXCEPT ![i] = new]
  BY DEF Resolved
<1>4. new \in LaneRecords
  <2>1. [lanes[i].run EXCEPT !.inited = TRUE] \in RunRecords
    BY <1>1 DEF LaneRecords, RunRecords
  <2>2. ProviderSession(i) \in Nat /\ "running" \in Stages
    BY <1>2 DEF Stages
  <2> QED  BY <1>1, <2>1, <2>2 DEF LaneRecords
<1>5. /\ new.key = lanes[i].key /\ new.resolved = ProviderSession(i)
      /\ new.queue = lanes[i].queue /\ new.stage = "running" /\ new.run.inited
      /\ new.run.task = lanes[i].run.task /\ new.run.resume = lanes[i].run.resume
  BY <1>1 DEF LaneRecords, RunRecords
<1> HIDE DEF new
<1>6. RunFits(new, lastId)
  BY <1>1, <1>2, <1>5 DEF RunFits, LaneFits, TaskFits, ProviderSession
<1>7. LaneFits(new, lastId)
  BY <1>1, <1>2, <1>5, <1>6 DEF LaneFits, TaskFits
<1> QED  BY <1>3, <1>4, <1>7, LaneReplaced

LEMMA RunKeepsLanes ==
    ASSUME LanesInv, lastId \in Nat, NEW i \in 1..Len(lanes), RunStep(i)
    PROVE  LanesInv'
<1>1. lanes[i] \in LaneRecords /\ LaneFits(lanes[i], lastId) /\ RunFits(lanes[i], lastId)
  BY LaneTypes DEF LanesInv, LaneFits
<1>2. UNCHANGED lastId
  BY DEF RunStep, SessionInitialized, Resolve, Done, ErrorAfterDone, RunnerReturns,
         Settled, sessionVars
<1>3. CASE Resolved(i) /\ (SessionInitialized(i) \/ Resolve(i))
  BY <1>1, <1>2, <1>3, ResolveKeepsLanes DEF SessionInitialized, Resolve, Running, RunFits
<1>4. CASE (RunnerReturns(i) \/ Settled(i)) /\ EndRun(i)
  BY <1>2, <1>4, EndKeepsLanes DEF EndRun
<1>5. CASE ~Resolved(i) /\ SessionInitialized(i)
  <2> DEFINE new == [lanes[i] EXCEPT !.stage = "reported"]
  <2>1. lanes' = [lanes EXCEPT ![i] = new] /\ lanes[i].run.resume = None
        /\ ~lanes[i].run.inited /\ lanes[i].stage = "running"
    BY <1>5 DEF SessionInitialized, Running
  <2>2. new \in LaneRecords /\ new.key = lanes[i].key /\ new.resolved = lanes[i].resolved
        /\ new.queue = lanes[i].queue /\ new.run = lanes[i].run
    BY <1>1 DEF LaneRecords, Stages
  <2> HIDE DEF new
  <2>3. LaneFits(new, lastId)
    BY <1>1, <2>1, <2>2, SameFits
  <2> QED  BY <1>2, <2>1, <2>2, <2>3, LaneReplaced
<1>6. ASSUME NEW run \in RunRecords, lanes[i].stage = "running",
             run.task = lanes[i].run.task, run.resume = lanes[i].run.resume,
             run.inited = lanes[i].run.inited, lanes' = [lanes EXCEPT ![i].run = run]
      PROVE  LanesInv'
  <2> DEFINE new == [lanes[i] EXCEPT !.run = run]
  <2>1. lanes' = [lanes EXCEPT ![i] = new]
    BY <1>6
  <2>2. new \in LaneRecords /\ new.key = lanes[i].key /\ new.resolved = lanes[i].resolved
        /\ new.queue = lanes[i].queue /\ new.stage = lanes[i].stage /\ new.run = run
    BY <1>1, <1>6 DEF LaneRecords
  <2> HIDE DEF new
  <2>3. LaneFits(new, lastId)
    BY <1>1, <1>6, <2>2, SameFits
  <2> QED  BY <1>2, <2>1, <2>2, <2>3, LaneReplaced
<1>8. CASE Done(i)
  <2> DEFINE run == [lanes[i].run EXCEPT !.completed = TRUE, !.sawDone = TRUE]
  <2>1. lanes' = [lanes EXCEPT ![i].run = run] /\ lanes[i].stage = "running"
    BY <1>8 DEF Done, Running
  <2>2. run \in RunRecords /\ run.task = lanes[i].run.task
        /\ run.resume = lanes[i].run.resume /\ run.inited = lanes[i].run.inited
    BY <1>1 DEF LaneRecords, RunRecords
  <2> HIDE DEF run
  <2> QED  BY <1>6, <2>1, <2>2
<1>9. CASE ErrorAfterDone(i)
  <2> DEFINE run == [lanes[i].run EXCEPT !.completed = FALSE]
  <2>1. lanes' = [lanes EXCEPT ![i].run = run] /\ lanes[i].stage = "running"
    BY <1>9 DEF ErrorAfterDone, Running
  <2>2. run \in RunRecords /\ run.task = lanes[i].run.task
        /\ run.resume = lanes[i].run.resume /\ run.inited = lanes[i].run.inited
    BY <1>1 DEF LaneRecords, RunRecords
  <2> HIDE DEF run
  <2> QED  BY <1>6, <2>1, <2>2
<1>7. CASE RunnerReturns(i) /\ ~EndRun(i)
  <2> DEFINE new == [lanes[i] EXCEPT !.stage = "settling"]
  <2>1. lanes' = [lanes EXCEPT ![i] = new] /\ lanes[i].stage = "running"
    BY <1>7 DEF RunnerReturns, Running
  <2>2. new \in LaneRecords /\ new.key = lanes[i].key /\ new.resolved = lanes[i].resolved
        /\ new.queue = lanes[i].queue /\ new.run = lanes[i].run /\ new.stage = "settling"
    BY <1>1 DEF LaneRecords, Stages
  <2> HIDE DEF new
  <2>3. LaneFits(new, lastId)
    BY <1>1, <2>1, <2>2, SameFits
  <2> QED  BY <1>2, <2>1, <2>2, <2>3, LaneReplaced
<1> QED  BY <1>3, <1>4, <1>5, <1>7, <1>8, <1>9 DEF RunStep, Resolve, Settled

LEMMA AbortedFits ==
    ASSUME LanesInv, lastId \in Nat, lastId' \in Nat, lastId <= lastId',
           DOMAIN lanes' = DOMAIN lanes, Len(lanes') = Len(lanes), lanes' \in Seq(LaneRecords),
           \A i \in DOMAIN lanes :
              /\ lanes'[i].key = lanes[i].key /\ lanes'[i].resolved = lanes[i].resolved
              /\ lanes'[i].queue \in {lanes[i].queue, <<>>} /\ lanes'[i].stage = lanes[i].stage
              /\ \/ lanes'[i].run = lanes[i].run
                 \/ Active(i) /\ lanes'[i].run = [lanes[i].run EXCEPT !.aborted = TRUE]
    PROVE  LanesInv'
<1> SUFFICES ASSUME NEW i \in 1..Len(lanes), LaneFits(lanes[i], lastId')
             PROVE  LaneFits(lanes'[i], lastId')
  BY LanesMapped
<1>1. lanes[i] \in LaneRecords /\ i \in DOMAIN lanes
  BY LaneTypes DEF LanesInv
<1>2. /\ lanes'[i].run.task = lanes[i].run.task /\ lanes'[i].run.resume = lanes[i].run.resume
      /\ lanes'[i].run.inited = lanes[i].run.inited
  BY <1>1 DEF LaneRecords, RunRecords
<1>3. RunFits(lanes'[i], lastId')
  BY <1>1, <1>2 DEF LaneFits, RunFits, TaskFits
<1>4. \A k \in 1..Len(lanes'[i].queue) : TaskFits(lanes'[i].queue[k], lanes'[i], lastId')
  <2>1. CASE lanes'[i].queue = <<>>
    BY <2>1, EmptySeq
  <2>2. CASE lanes'[i].queue = lanes[i].queue
    BY <1>1, <2>2 DEF LaneFits, TaskFits
  <2> QED  BY <1>1, <2>1, <2>2
<1> QED  BY <1>1, <1>3, <1>4 DEF LaneFits

(* A lane of which only the run was told to stop, or the queue emptied.    *)
Emptied(i) ==
    IF Active(i) THEN [lanes[i] EXCEPT !.queue = <<>>, !.run.aborted = TRUE]
                 ELSE [lanes[i] EXCEPT !.queue = <<>>]

LEMMA RecordsChange ==
    ASSUME lanes \in Seq(LaneRecords), NEW i \in DOMAIN lanes
    PROVE  LET aborted == [lanes[i] EXCEPT !.run.aborted = TRUE]
           IN  /\ Emptied(i) \in LaneRecords
               /\ Emptied(i).key = lanes[i].key /\ Emptied(i).resolved = lanes[i].resolved
               /\ Emptied(i).queue = <<>> /\ Emptied(i).stage = lanes[i].stage
               /\ Emptied(i).run = IF Active(i) THEN [lanes[i].run EXCEPT !.aborted = TRUE]
                                                ELSE lanes[i].run
               /\ aborted \in LaneRecords
               /\ aborted.key = lanes[i].key /\ aborted.resolved = lanes[i].resolved
               /\ aborted.queue = lanes[i].queue /\ aborted.stage = lanes[i].stage
               /\ aborted.run = [lanes[i].run EXCEPT !.aborted = TRUE]
<1>1. lanes[i] \in LaneRecords
  BY LaneTypes
<1> DEFINE run == [lanes[i].run EXCEPT !.aborted = TRUE]
<1>2. run \in RunRecords
  BY <1>1 DEF LaneRecords, RunRecords
<1>3. [lanes[i] EXCEPT !.run.aborted = TRUE] = [lanes[i] EXCEPT !.run = run]
  BY <1>1 DEF LaneRecords
<1>4. [lanes[i] EXCEPT !.queue = <<>>, !.run.aborted = TRUE] =
         [lanes[i] EXCEPT !.queue = <<>>, !.run = run]
  BY <1>1 DEF LaneRecords
<1>5. <<>> \in Seq(Tasks)
  BY EmptySeq
<1>6. run = [lanes[i].run EXCEPT !.aborted = TRUE]
  OBVIOUS
<1> HIDE DEF run
<1>7. /\ [lanes[i] EXCEPT !.run = run] \in LaneRecords
      /\ [lanes[i] EXCEPT !.queue = <<>>, !.run = run] \in LaneRecords
      /\ [lanes[i] EXCEPT !.queue = <<>>] \in LaneRecords
  BY <1>1, <1>2, <1>5 DEF LaneRecords
<1>8. CASE Active(i)
  BY <1>1, <1>3, <1>4, <1>6, <1>7, <1>8 DEF LaneRecords, Emptied
<1>9. CASE ~Active(i)
  BY <1>1, <1>3, <1>4, <1>6, <1>7, <1>9 DEF LaneRecords, Emptied
<1> QED  BY <1>8, <1>9

LEMMA MappedSeq ==
    ASSUME lanes \in Seq(LaneRecords), lanes' \in [DOMAIN lanes -> LaneRecords]
    PROVE  /\ lanes' \in Seq(LaneRecords) /\ Len(lanes') = Len(lanes)
           /\ DOMAIN lanes' = DOMAIN lanes
<1>1. DOMAIN lanes = 1..Len(lanes) /\ Len(lanes) \in Nat
  BY LaneTypes
<1>2. lanes' \in [1..Len(lanes) -> LaneRecords]
  BY <1>1
<1>3. lanes' \in Seq(LaneRecords) /\ Len(lanes') = Len(lanes)
  BY <1>1, <1>2, SeqDef, LenProperties
<1> QED  BY <1>1, <1>3

(* What telling a run to stop, or all of them, leaves of the lanes.        *)
LaneKept(i) ==
    /\ lanes'[i].key = lanes[i].key /\ lanes'[i].resolved = lanes[i].resolved
    /\ lanes'[i].queue = lanes[i].queue /\ lanes'[i].stage = lanes[i].stage
    /\ \/ lanes'[i].run = lanes[i].run
       \/ Active(i) /\ lanes'[i].run = [lanes[i].run EXCEPT !.aborted = TRUE]

LEMMA StopAborts ==
    ASSUME lanes \in Seq(LaneRecords), AbortVisible
    PROVE  /\ lanes' \in Seq(LaneRecords) /\ Len(lanes') = Len(lanes)
           /\ DOMAIN lanes' = DOMAIN lanes
           /\ \A i \in DOMAIN lanes : LaneKept(i)
<1> DEFINE first(i) == /\ Active(i) /\ Visible(i)
                       /\ \A j \in 1..(i - 1) : ~(Active(j) /\ Visible(j))
           aborted(i) == [lanes[i] EXCEPT !.run.aborted = TRUE]
<1>1. lanes' = [i \in DOMAIN lanes |-> IF first(i) THEN aborted(i) ELSE lanes[i]]
  BY DEF AbortVisible
<1>2. \A i \in DOMAIN lanes :
        /\ aborted(i) \in LaneRecords /\ lanes[i] \in LaneRecords
        /\ aborted(i).key = lanes[i].key /\ aborted(i).resolved = lanes[i].resolved
        /\ aborted(i).queue = lanes[i].queue /\ aborted(i).stage = lanes[i].stage
        /\ aborted(i).run = [lanes[i].run EXCEPT !.aborted = TRUE]
  BY RecordsChange, LaneTypes
<1>3. \A i \in DOMAIN lanes : first(i) => Active(i)
  OBVIOUS
<1> HIDE DEF first, aborted
<1>4. lanes' \in [DOMAIN lanes -> LaneRecords]
  BY <1>1, <1>2
<1>5. \A i \in DOMAIN lanes : LaneKept(i)
  BY <1>1, <1>2, <1>3 DEF LaneKept
<1> QED  BY <1>4, <1>5, MappedSeq

LEMMA StopKeepsLanes ==
    ASSUME LanesInv, lastId \in Nat, lastId' \in Nat, lastId <= lastId', AbortVisible
    PROVE  LanesInv'
<1>1. lanes \in Seq(LaneRecords)
  BY DEF LanesInv
<1> QED  BY <1>1, StopAborts, AbortedFits DEF LaneKept

LEMMA ShutdownEmpties ==
    ASSUME lanes \in Seq(LaneRecords), BeginShutdown
    PROVE  /\ lanes' \in Seq(LaneRecords) /\ Len(lanes') = Len(lanes)
           /\ DOMAIN lanes' = DOMAIN lanes
           /\ \A i \in DOMAIN lanes : lanes'[i] = Emptied(i)
<1>1. lanes' = [i \in DOMAIN lanes |-> Emptied(i)]
  BY DEF BeginShutdown, Emptied
<1>2. \A i \in DOMAIN lanes : Emptied(i) \in LaneRecords
  BY RecordsChange
<1>3. lanes' \in [DOMAIN lanes -> LaneRecords]
  BY <1>1, <1>2
<1> QED  BY <1>1, <1>3, MappedSeq

LEMMA ShutdownKeepsLanes ==
    ASSUME LanesInv, lastId \in Nat, BeginShutdown
    PROVE  LanesInv'
<1>1. lanes \in Seq(LaneRecords) /\ UNCHANGED lastId
  BY DEF LanesInv, BeginShutdown, sessionVars
<1>2. \A i \in DOMAIN lanes :
         /\ lanes'[i].key = lanes[i].key /\ lanes'[i].resolved = lanes[i].resolved
         /\ lanes'[i].queue = <<>> /\ lanes'[i].stage = lanes[i].stage
         /\ \/ lanes'[i].run = lanes[i].run
            \/ Active(i) /\ lanes'[i].run = [lanes[i].run EXCEPT !.aborted = TRUE]
  BY <1>1, ShutdownEmpties, RecordsChange
<1> QED  BY <1>1, <1>2, ShutdownEmpties, AbortedFits

LEMMA CrashKeepsLanes ==
    ASSUME Crash
    PROVE  LanesInv'
<1>1. lanes' = <<>>
  BY DEF Crash
<1> QED  BY <1>1, EmptySeq DEF LanesInv

(***************************************************************************)
(* The steps of the session service.                                       *)
(***************************************************************************)
LEMMA IdsGrow ==
    ASSUME ViewKnown, [SessionNext]_sessionVars
    PROVE  lastId \in Nat /\ lastId' \in Nat /\ lastId <= lastId'
<1>1. lastId \in Nat
  BY ViewFacts
<1>2. CASE UNCHANGED lastId
  BY <1>1, <1>2
<1>3. CASE \E interactive \in BOOLEAN : AcceptPrompt(interactive)
  BY <1>1, <1>3 DEF AcceptPrompt, CaptureContext
<1> QED
  BY <1>2, <1>3 DEF SessionNext, VisibleInit, Interrupted, BackgroundInit, BackgroundDone,
     VisibleDone, InterruptedBlank, NewConversation, SwitchSession, DeleteSession,
     SelectModel, BeginRollover, FinishRollover, RestartDaemon, sessionVars

LEMMA NextViewKnown ==
    ASSUME ViewKnown, [SessionNext]_sessionVars
    PROVE  ViewKnown'
<1>1. IInv'
  BY NextIInv DEF ViewKnown
<1>2. /\ ocSessionId \in 0..lastId' /\ sessionId \in 0..lastId' /\ None \in 0..lastId'
      /\ \A s \in Ids : s \in 0..lastId'
      /\ \A r \in rows : r[2] \in 0..lastId'
  <2>1. lastId \in Nat /\ lastId' \in Nat /\ lastId <= lastId'
    BY IdsGrow
  <2>2. \A x \in 0..lastId : x \in 0..lastId'
    BY <2>1
  <2>3. \A x \in 1..lastId : x \in 0..lastId'
    BY <2>1
  <2> QED  BY <2>1, <2>2, <2>3, ViewFacts
           DEF ViewKnown, IInv, ListedIdsWereGiven, Ids, None
<1> USE DEF OcWasGiven
<1>3. ASSUME NEW interactive \in BOOLEAN, AcceptPrompt(interactive) PROVE OcWasGiven'
  BY <1>3, ViewFacts DEF AcceptPrompt, CaptureContext, CapturedOc, None
<1>4. ASSUME NEW s \in Ids, VisibleInit(s) \/ Interrupted(s) PROVE OcWasGiven'
  BY <1>2, <1>4 DEF VisibleInit, Interrupted, RecordSessionInitialized, ShowSession,
                    RecordInterruptedRun, SwitchState
<1>5. ASSUME VisibleDone PROVE OcWasGiven'
  BY <1>2, <1>5 DEF VisibleDone, CompleteRun, ShowSession
<1>6. ASSUME ClearState PROVE OcWasGiven'
  BY <1>2, <1>6 DEF ClearState
<1>7. ASSUME SwitchSession PROVE OcWasGiven'
  <2>1. PICK r \in rows : SwitchToResolvedSession(r[1], r[2])
    BY <1>7 DEF SwitchSession
  <2> QED  BY <1>2, <2>1 DEF SwitchToResolvedSession, SwitchState
<1>8. ASSUME UNCHANGED ocSessionId PROVE OcWasGiven'
  BY <1>2, <1>8
<1>9. ASSUME RestartDaemon PROVE OcWasGiven'
  <2>1. PICK p \in RestoredProviders : Restore(p)
    BY <1>9 DEF RestartDaemon, Restart
  <2>2. CASE Restorable(p)
    BY <1>2, <2>1, <2>2 DEF Restore, Restorable
  <2>3. CASE ~Restorable(p)
    BY <1>2, <2>1, <2>3 DEF Restore
  <2> QED  BY <2>2, <2>3
<1>10. ASSUME NEW p, NEW s, BackgroundInit(p, s) \/ BackgroundDone(p, s)
       PROVE  UNCHANGED ocSessionId
  BY <1>10 DEF BackgroundInit, BackgroundDone, RecordSessionInitialized,
               RecordBackgroundCompletion, viewVars
<1>11. InterruptedBlank \/ NewConversation \/ BeginRollover => ClearState
  BY DEF InterruptedBlank, NewConversation, BeginRollover, BeginRolloverAttempt,
         ClearActiveSession
<1>12. DeleteSession => ClearState \/ UNCHANGED ocSessionId
  BY DEF DeleteSession, DeleteResolvedSession, viewVars
<1>13. SelectModel \/ FinishRollover \/ UNCHANGED sessionVars => UNCHANGED ocSessionId
  BY DEF SelectModel, ModelSelect, FinishRollover, sessionVars, viewVars
<1>14. OcWasGiven'
  BY <1>3, <1>4, <1>5, <1>6, <1>7, <1>8, <1>9, <1>10, <1>11, <1>12, <1>13 DEF SessionNext
<1> QED  BY <1>1, <1>14 DEF ViewKnown

(***************************************************************************)
(* What waits or runs.  Place k of lane i holds a task of the source: the  *)
(* run itself at place 0, the queue after it.                              *)
(***************************************************************************)
InLane(source, lane, k) ==
    /\ k \in 0..Len(lane.queue)
    /\ IF k = 0 THEN /\ lane.stage \in {"running", "reported", "settling"}
                     /\ lane.run.task.source = source
                ELSE lane.queue[k].source = source

Waits(source, i, k) == i \in 1..Len(lanes) /\ InLane(source, lanes[i], k)

(* A rollover that waits is due until its turn comes: no other one handles *)
(* the prompt it is about.                                                 *)
QueuedRolloversAreDue ==
    /\ lastHandled <= lastInteractive
    /\ \A i \in Nat, k \in Nat \ {0} :
          Waits("rollover", i, k) => lastHandled < lastInteractive

(* Every step the coordinator takes is one of the session service.         *)
LEMMA AcceptMaps ==
    ASSUME NEW source, Accept(source),
           RecordAcceptedPromptTarget \/ UNCHANGED rolloverVars
    PROVE  SessionNext
<1>1. \E interactive \in BOOLEAN : AcceptPrompt(interactive)
  <2>1. CASE RecordAcceptedPromptTarget
    <3>1. AcceptPrompt(TRUE)
      BY <2>1 DEF Accept, AcceptPrompt
    <3> QED  BY <3>1
  <2>2. CASE UNCHANGED rolloverVars
    <3>1. AcceptPrompt(FALSE)
      BY <2>2 DEF Accept, AcceptPrompt
    <3> QED  BY <3>1
  <2> QED  BY <2>1, <2>2
<1> QED  BY <1>1 DEF SessionNext

LEMMA TurnMaps ==
    ASSUME ViewKnown, lanes \in Seq(LaneRecords), QueuedRolloversAreDue,
           NEW i \in 1..Len(lanes), Turn(i)
    PROVE  [SessionNext]_sessionVars
<1>1. CASE UNCHANGED sessionVars
  BY <1>1
<1>2. CASE ~UNCHANGED sessionVars
  <2> DEFINE task == Head(lanes[i].queue)
  <2>1. lanes[i].queue # <<>> /\ RunRollover(i, task) /\ sessionId # None
    BY <1>2 DEF Turn, RunPrompt, RunHeartbeat, RunRollover
  <2>2. 1 \in 1..Len(lanes[i].queue) /\ task = lanes[i].queue[1]
    BY <2>1, LaneTypes, QueueTyped, HeadTailProperties, EmptySeq
  <2>3. Waits("rollover", i, 1) /\ i \in Nat
    BY <2>1, <2>2 DEF RunRollover, Waits, InLane
  <2>4. lastHandled < lastInteractive /\ lastHandled \in Nat /\ lastInteractive \in Nat
    BY <2>2, <2>3, ViewFacts DEF QueuedRolloversAreDue
  <2>5. RolloverDue
    BY <2>4 DEF RolloverDue
  <2>6. BeginRollover
    BY <2>1, <2>5 DEF RunRollover, BeginRollover
  <2> QED  BY <2>6 DEF SessionNext
<1> QED  BY <1>1, <1>2

LEMMA InitializedMaps ==
    ASSUME ViewKnown, LanesInv, NEW i \in 1..Len(lanes), SessionInitialized(i)
    PROVE  [SessionNext]_sessionVars
<1> DEFINE run == lanes[i].run
<1>1. LaneFits(lanes[i], lastId) /\ lanes[i].stage = "running" /\ ~run.inited
  BY DEF LanesInv, SessionInitialized, Running
<1>2. CASE run.resume # None
  BY <1>2 DEF SessionInitialized, sessionVars
<1>3. CASE run.resume = None
  <2>1. /\ run.task.ctx.oc \in Ids /\ run.task.ctx.provider \in Writable
        /\ run.task.ctx.sid = None /\ lanes[i].resolved = None
        /\ ProviderSession(i) = run.task.ctx.oc
    BY <1>1, <1>3 DEF LaneFits, RunFits, TaskFits, ProviderSession, Ids
  <2>2. CASE Visible(i)
    <3>1. providerId = run.task.ctx.provider /\ sessionId = None
      BY <2>1, <2>2 DEF Visible, MatchesVisible
    <3>2. VisibleInit(run.task.ctx.oc)
      BY <1>3, <2>1, <2>2, <3>1 DEF SessionInitialized, VisibleInit
    <3> QED  BY <2>1, <3>2 DEF SessionNext
  <2>3. CASE ~Visible(i)
    <3>1. BackgroundInit(run.task.ctx.provider, run.task.ctx.oc)
      BY <1>3, <2>1, <2>3 DEF SessionInitialized, BackgroundInit
    <3> QED  BY <2>1, <3>1 DEF SessionNext
  <2> QED  BY <2>2, <2>3
<1> QED  BY <1>2, <1>3

LEMMA DoneMaps ==
    ASSUME ViewKnown, LanesInv, NEW i \in 1..Len(lanes), Done(i)
    PROVE  SessionNext
<1> DEFINE run == lanes[i].run
<1>1. LaneFits(lanes[i], lastId) /\ lanes[i].stage = "running" /\ run.inited
  BY DEF LanesInv, Done, Running
<1>2. /\ ProviderSession(i) = lanes[i].resolved /\ ProviderSession(i) \in Ids
      /\ run.task.ctx.provider \in Writable
  BY <1>1, ViewFacts DEF LaneFits, RunFits, TaskFits, ProviderSession, Ids, None
<1>3. ProviderSession(i) # None
  BY <1>2 DEF Ids, None
<1>4. CASE Visible(i)
  <2>1. sessionId = ProviderSession(i)
    BY <1>2, <1>3, <1>4 DEF Visible, MatchesVisible
  <2>2. VisibleDone
    BY <1>3, <1>4, <2>1 DEF Done, VisibleDone
  <2> QED  BY <2>2 DEF SessionNext
<1>5. CASE ~Visible(i)
  <2>1. BackgroundDone(run.task.ctx.provider, ProviderSession(i))
    BY <1>5 DEF Done, BackgroundDone
  <2> QED  BY <1>2, <2>1 DEF SessionNext
<1> QED  BY <1>4, <1>5

LEMMA EndMaps ==
    ASSUME NEW i, EndRun(i), UNCHANGED <<viewVars, storeVars, lastId>>,
           lanes[i].run.sawDone \in BOOLEAN
    PROVE  [SessionNext]_sessionVars
<1>1. CASE UNCHANGED rolloverVars
  BY <1>1 DEF sessionVars
<1>2. CASE FinishRolloverAttempt(~lanes[i].run.sawDone)
  <2>1. FinishRollover
    BY <1>2 DEF FinishRollover
  <2> QED  BY <2>1 DEF SessionNext
<1> QED  BY <1>1, <1>2 DEF EndRun

LEMMA ReturnMaps ==
    ASSUME ViewKnown, LanesInv, NEW i \in 1..Len(lanes), RunnerReturns(i)
    PROVE  [SessionNext]_sessionVars
<1> DEFINE run == lanes[i].run
           c == run.task.ctx
<1>1. LaneFits(lanes[i], lastId) /\ lanes[i] \in LaneRecords /\ lanes[i].stage = "running"
  BY LaneTypes DEF LanesInv, RunnerReturns, Running
<1>2. CASE UNCHANGED <<viewVars, storeVars>>
  <2>1. CASE EndRun(i)
    BY <1>1, <1>2, <2>1, EndMaps DEF LaneRecords, RunRecords, RunnerReturns
  <2>2. CASE UNCHANGED rolloverVars
    BY <1>2, <2>2 DEF RunnerReturns, sessionVars
  <2> QED  BY <2>1, <2>2 DEF RunnerReturns
<1>3. CASE ~UNCHANGED <<viewVars, storeVars>>
  <2>1. /\ run.task.source \in Interactive
        /\ \/ /\ sessionId = None /\ ClearState
              /\ UNCHANGED <<providerId, storeVars>>
           \/ /\ Visible(i)
              /\ RecordInterruptedRun(c.provider, IF sessionId # None THEN sessionId ELSE c.oc)
    BY <1>3 DEF RunnerReturns, Interrupt, Interactive
  <2>2. UNCHANGED <<rolloverVars, lastId>>
    BY <2>1 DEF RunnerReturns, EndRun, Interactive
  <2>3. CASE Visible(i) /\ RecordInterruptedRun(c.provider,
                              IF sessionId # None THEN sessionId ELSE c.oc)
    <3> DEFINE s == IF sessionId # None THEN sessionId ELSE c.oc
    <3>1. providerId = c.provider
      BY <2>3 DEF Visible, MatchesVisible
    <3>2. s \in Ids /\ sessionId \in {None, s}
      BY <1>1, ViewFacts DEF LaneFits, RunFits, TaskFits, Ids, None
    <3>3. Interrupted(s)
      BY <2>2, <2>3, <3>1, <3>2 DEF Interrupted
    <3> QED  BY <3>2, <3>3 DEF SessionNext
  <2>4. CASE sessionId = None /\ ClearState /\ UNCHANGED <<providerId, storeVars>>
    BY <2>2, <2>4 DEF InterruptedBlank, SessionNext
  <2> QED  BY <2>1, <2>3, <2>4
<1> QED  BY <1>2, <1>3

LEMMA NextMaps ==
    ASSUME ViewKnown, LanesInv, QueuedRolloversAreDue, [Next]_vars
    PROVE  [SessionNext]_sessionVars
<1>1. DOMAIN lanes = 1..Len(lanes) /\ lanes \in Seq(LaneRecords)
  BY LaneTypes DEF LanesInv
<1>2. ASSUME NEW source \in Interactive, EnqueuePrompt(source) PROVE SessionNext
  BY <1>2, AcceptMaps DEF EnqueuePrompt
<1>3. CASE EnqueueAgentPrompt \/ EnqueueHeartbeat \/ EnqueueRollover
  BY <1>3, AcceptMaps DEF EnqueueAgentPrompt, EnqueueHeartbeat, EnqueueRollover
<1>4. ASSUME NEW i \in 1..Len(lanes), Turn(i) PROVE [SessionNext]_sessionVars
  BY <1>1, <1>4, TurnMaps
<1>5. ASSUME NEW i \in 1..Len(lanes), RunStep(i) PROVE [SessionNext]_sessionVars
  <2>1. CASE SessionInitialized(i)
    BY <2>1, InitializedMaps
  <2>2. CASE Done(i)
    BY <2>2, DoneMaps
  <2>3. CASE RunnerReturns(i)
    BY <2>3, ReturnMaps
  <2>4. CASE Settled(i)
    <3>1. lanes[i].run.sawDone \in BOOLEAN
      BY LaneTypes DEF LanesInv, LaneRecords, RunRecords
    <3> QED  BY <2>4, <3>1, EndMaps DEF Settled
  <2>5. CASE Resolve(i) \/ ErrorAfterDone(i)
    BY <2>5 DEF Resolve, ErrorAfterDone
  <2> QED  BY <1>5, <2>1, <2>2, <2>3, <2>4, <2>5 DEF RunStep
<1>6. CASE Stop \/ BeginShutdown
  BY <1>6 DEF Stop, BeginShutdown
<1>7. CASE ChangeView \/ Delete \/ Crash
  BY <1>7 DEF ChangeView, Delete, Crash, SessionNext
<1>8. CASE UNCHANGED vars
  BY <1>8 DEF vars
<1> QED  BY <1>1, <1>2, <1>3, <1>4, <1>5, <1>6, <1>7, <1>8 DEF Next

(***************************************************************************)
(* How the steps move the tasks that wait.                                 *)
(***************************************************************************)
LEMMA WaitsIsPending ==
    ASSUME lanes \in Seq(LaneRecords), NEW source
    PROVE  /\ \A i, k : <<i, k>> \in Pending(source) <=> Waits(source, i, k)
           /\ \A p \in Pending(source) : \E i, k : p = <<i, k>>
  BY LaneTypes DEF Pending, IsPending, Waits, InLane, Active

(* One lane changes.                                                       *)
LEMMA WaitsReplaced ==
    ASSUME lanes \in Seq(LaneRecords), NEW i \in 1..Len(lanes), NEW lane \in LaneRecords,
           lanes' = [lanes EXCEPT ![i] = lane]
    PROVE  \A source, j, k : Waits(source, j, k)' <=>
                IF j = i THEN InLane(source, lane, k) ELSE Waits(source, j, k)
<1>1. Len(lanes') = Len(lanes) /\ lanes'[i] = lane
  BY ExceptSeq
<1>2. \A j \in 1..Len(lanes) : j # i => lanes'[j] = lanes[j]
  BY ExceptSeq
<1> QED  BY <1>1, <1>2 DEF Waits, InLane

LEMMA WaitsSame ==
    ASSUME lanes \in Seq(LaneRecords), lanes' \in Seq(LaneRecords), Len(lanes') = Len(lanes),
           \A i \in 1..Len(lanes) :
              /\ lanes'[i].queue = lanes[i].queue /\ lanes'[i].stage = lanes[i].stage
              /\ lanes'[i].run.task = lanes[i].run.task
    PROVE  \A source, j, k : Waits(source, j, k)' <=> Waits(source, j, k)
  BY DEF Waits, InLane

(* A task joins the end of a queue.                                        *)
LEMMA InLaneAppend ==
    ASSUME NEW lane \in LaneRecords, NEW task \in Tasks, NEW new \in LaneRecords,
           new.queue = Append(lane.queue, task), new.run = lane.run,
           \/ new.stage = lane.stage
           \/ /\ new.stage \notin {"running", "reported", "settling"}
              /\ lane.stage \notin {"running", "reported", "settling"}
    PROVE  /\ Len(lane.queue) \in Nat
           /\ \A source, k : InLane(source, new, k) <=>
                 InLane(source, lane, k) \/ (k = Len(lane.queue) + 1 /\ task.source = source)
<1>1. lane.queue \in Seq(Tasks) /\ Len(lane.queue) \in Nat
  BY QueueTyped
<1>2. /\ Len(new.queue) = Len(lane.queue) + 1
      /\ \A k \in 1..Len(lane.queue) : new.queue[k] = lane.queue[k]
      /\ new.queue[Len(lane.queue) + 1] = task
  BY <1>1, AppendProperties
<1>3. ASSUME NEW source, NEW k
      PROVE  InLane(source, new, k) <=>
                InLane(source, lane, k) \/ (k = Len(lane.queue) + 1 /\ task.source = source)
  <2>1. CASE k = 0
    BY <1>1, <1>2, <2>1 DEF InLane
  <2>2. CASE k \in 1..Len(lane.queue)
    BY <1>1, <1>2, <2>2 DEF InLane
  <2>3. CASE k = Len(lane.queue) + 1
    BY <1>1, <1>2, <2>3 DEF InLane
  <2>4. CASE k \notin 0..(Len(lane.queue) + 1)
    BY <1>1, <1>2, <2>4 DEF InLane
  <2> QED  BY <1>1, <2>1, <2>2, <2>3, <2>4
<1> QED  BY <1>1, <1>3

LEMMA AcceptWaits ==
    ASSUME ViewKnown, LanesInv, accepted \in Nat, NEW src \in Sources, Accept(src)
    PROVE  \E at \in Nat, place \in Nat \ {0} :
               \A source, j, k : Waits(source, j, k)' <=>
                   Waits(source, j, k) \/ (j = at /\ k = place /\ source = src)
<1> DEFINE i == LaneFor(Context)
           lane == IF i \in DOMAIN lanes THEN lanes[i] ELSE NewLane(Context)
           new == [lane EXCEPT !.queue = Append(@, Task(src)),
                               !.resolved = IF Context.sid = None THEN @ ELSE Context.sid,
                               !.stage = IF @ = "idle" THEN "start" ELSE @]
<1>1. lane \in LaneRecords /\ new \in LaneRecords
  BY EnqueueLane
<1>2. /\ new.queue = Append(lane.queue, Task(src)) /\ new.run = lane.run
      /\ \/ new.stage = lane.stage
         \/ /\ new.stage \notin {"running", "reported", "settling"}
            /\ lane.stage \notin {"running", "reported", "settling"}
  <2> HIDE DEF lane
  <2> QED  BY <1>1 DEF LaneRecords
<1>3. Task(src) \in Tasks /\ Task(src).source = src
  BY ContextFacts DEF Accept, Task
<1>4. lanes' = IF i \in DOMAIN lanes THEN [lanes EXCEPT ![i] = new] ELSE Append(lanes, new)
  BY DEF Accept, Enqueue
<1>5. /\ lanes \in Seq(LaneRecords) /\ DOMAIN lanes = 1..Len(lanes) /\ Len(lanes) \in Nat
      /\ i \in DOMAIN lanes \/ i = Len(lanes) + 1
  BY LaneTypes, LaneForFinds DEF LanesInv
<1>6. i \notin DOMAIN lanes => lane = NewLane(Context)
  OBVIOUS
<1>7. i \in DOMAIN lanes => lane = lanes[i]
  OBVIOUS
<1> HIDE DEF i, lane, new
<1>8. /\ Len(lane.queue) \in Nat
      /\ \A source, k : InLane(source, new, k) <=>
            InLane(source, lane, k) \/ (k = Len(lane.queue) + 1 /\ source = src)
  BY <1>1, <1>2, <1>3, InLaneAppend
<1>9. \A source, j, k : Waits(source, j, k)' <=>
         Waits(source, j, k) \/ (j = i /\ k = Len(lane.queue) + 1 /\ source = src)
  <2>1. CASE i \in DOMAIN lanes
    <3>1. \A source, j, k : Waits(source, j, k)' <=>
             IF j = i THEN InLane(source, new, k) ELSE Waits(source, j, k)
      BY <1>1, <1>4, <1>5, <2>1, WaitsReplaced
    <3>2. \A source, k : Waits(source, i, k) <=> InLane(source, lane, k)
      BY <1>5, <1>7, <2>1 DEF Waits
    <3> SUFFICES ASSUME NEW source, NEW j, NEW k
                 PROVE  Waits(source, j, k)' <=> Waits(source, j, k)
                            \/ (j = i /\ k = Len(lane.queue) + 1 /\ source = src)
      OBVIOUS
    <3>3. CASE j = i
      BY <1>8, <3>1, <3>2, <3>3
    <3>4. CASE j # i
      BY <3>1, <3>4
    <3> QED  BY <3>3, <3>4
  <2>2. CASE i \notin DOMAIN lanes
    <3>1. /\ Len(lanes') = Len(lanes) + 1 /\ lanes'[i] = new
          /\ \A j \in 1..Len(lanes) : lanes'[j] = lanes[j]
      BY <1>1, <1>4, <1>5, <2>2, AppendProperties
    <3>2. lane.queue = <<>> /\ lane.stage = "idle"
      BY <1>6, <2>2 DEF NewLane
    <3>3. \A source, k : ~InLane(source, lane, k)
      BY <3>2, EmptySeq DEF InLane
    <3>4. i = Len(lanes) + 1 /\ i \notin 1..Len(lanes)
      BY <1>5, <2>2
    <3>a. i \in 1..Len(lanes')
      BY <1>5, <3>1, <3>4
    <3>5. \A source, j, k : j = i =>
             ~Waits(source, j, k) /\ (Waits(source, j, k)' <=> InLane(source, new, k))
      BY <3>1, <3>4, <3>a DEF Waits, InLane
    <3>6. \A source, j, k : j # i => (Waits(source, j, k)' <=> Waits(source, j, k))
      BY <1>5, <3>1, <3>4 DEF Waits, InLane
    <3> SUFFICES ASSUME NEW source, NEW j, NEW k
                 PROVE  Waits(source, j, k)' <=> Waits(source, j, k)
                            \/ (j = i /\ k = Len(lane.queue) + 1 /\ source = src)
      OBVIOUS
    <3>7. CASE j = i
      BY <1>8, <3>3, <3>5, <3>7
    <3>8. CASE j # i
      BY <3>6, <3>8
    <3> QED  BY <3>7, <3>8
  <2> QED  BY <2>1, <2>2
<1> QED  BY <1>5, <1>8, <1>9

(* The head of a queue leaves it.                                          *)
LEMMA ShiftWaits ==
    ASSUME LanesInv, NEW i \in 1..Len(lanes), lanes[i].stage \in {"start", "next"},
           lanes[i].queue # <<>>, NEW stage \in {"next", "running"}, NEW run \in RunRecords,
           Shifted(i, stage, run), stage = "running" => run.task = Head(lanes[i].queue)
    PROVE  /\ \A source : ~Waits(source, i, 0)
           /\ \A source : Waits(source, i, 1) <=> Head(lanes[i].queue).source = source
           /\ \A source : \A j, k \in Nat : Waits(source, j, k)' <=>
                 IF j = i THEN Waits(source, i, k + 1) /\ (k = 0 => stage = "running")
                          ELSE Waits(source, j, k)
<1> DEFINE q == Tail(lanes[i].queue)
           new == [lanes[i] EXCEPT !.queue = q, !.stage = stage, !.run = run]
<1>1. lanes[i] \in LaneRecords /\ lanes \in Seq(LaneRecords)
  BY LaneTypes DEF LanesInv
<1>2. /\ q \in Seq(Tasks) /\ Len(q) = Len(lanes[i].queue) - 1
      /\ \A k \in 1..Len(q) : q[k] = lanes[i].queue[k + 1]
      /\ Len(lanes[i].queue) \in Nat \ {0}
      /\ Head(lanes[i].queue) = lanes[i].queue[1]
  BY <1>1, QueueTyped, HeadTailProperties, EmptySeq
<1>3. lanes' = [lanes EXCEPT ![i] = new]
  BY DEF Shifted
<1> HIDE DEF q
<1>4. new \in LaneRecords /\ new.queue = q /\ new.stage = stage /\ new.run = run
  BY <1>1, <1>2 DEF LaneRecords, Stages
<1> HIDE DEF new
<1>5. \A source, j, k : Waits(source, j, k)' <=>
         IF j = i THEN InLane(source, new, k) ELSE Waits(source, j, k)
  BY <1>1, <1>3, <1>4, WaitsReplaced
<1>6. \A source : \A k \in Nat : InLane(source, new, k) <=>
         InLane(source, lanes[i], k + 1) /\ (k = 0 => stage = "running")
  BY <1>2, <1>4 DEF InLane
<1>7. \A source : InLane(source, lanes[i], 1) <=> Head(lanes[i].queue).source = source
  BY <1>2 DEF InLane
<1>8. \A source : ~InLane(source, lanes[i], 0)
  BY DEF InLane
<1> QED  BY <1>5, <1>6, <1>7, <1>8 DEF Waits

(* A run ends.                                                             *)
LEMMA EndWaits ==
    ASSUME LanesInv, NEW i \in 1..Len(lanes), Active(i), EndRun(i)
    PROVE  /\ \A source : Waits(source, i, 0) <=> lanes[i].run.task.source = source
           /\ \A source, j, k : Waits(source, j, k)' <=>
                 Waits(source, j, k) /\ ~(j = i /\ k = 0)
<1> DEFINE new == [lanes[i] EXCEPT !.stage = "next", !.run = NoRun]
<1>1. lanes[i] \in LaneRecords /\ lanes \in Seq(LaneRecords)
  BY LaneTypes DEF LanesInv
<1>2. lanes' = [lanes EXCEPT ![i] = new]
  BY DEF EndRun
<1>3. new \in LaneRecords /\ new.queue = lanes[i].queue /\ new.stage = "next"
  BY <1>1, NoRunTyped DEF LaneRecords, Stages
<1> HIDE DEF new
<1>4. \A source, j, k : Waits(source, j, k)' <=>
         IF j = i THEN InLane(source, new, k) ELSE Waits(source, j, k)
  BY <1>1, <1>2, <1>3, WaitsReplaced
<1>5. Len(lanes[i].queue) \in Nat
  BY <1>1, QueueTyped
<1>6. \A source, k : InLane(source, new, k) <=> InLane(source, lanes[i], k) /\ k # 0
  BY <1>3, <1>5 DEF InLane
<1>7. \A source : InLane(source, lanes[i], 0) <=> lanes[i].run.task.source = source
  BY <1>5 DEF InLane, Active
<1> QED  BY <1>4, <1>6, <1>7 DEF Waits

(* Tasks of a source never meet: there is one at most.                     *)
Alone(source) ==
    \A i, j, k, m \in Nat : Waits(source, i, k) /\ Waits(source, j, m) => i = j /\ k = m

Some(source) == \E i, k \in Nat : Waits(source, i, k)

FlagsInv ==
    ~shuttingDown =>
        /\ Alone("rollover") /\ (rolloverQueued <=> Some("rollover"))
        /\ Alone("heartbeat") /\ (heartbeatPending <=> Some("heartbeat"))

LEMMA AloneSame ==
    ASSUME \A source, j, k : Waits(source, j, k)' <=> Waits(source, j, k)
    PROVE  \A source : (Alone(source)' <=> Alone(source)) /\ (Some(source)' <=> Some(source))
  BY DEF Alone, Some

LEMMA AloneAccept ==
    ASSUME NEW src, NEW at \in Nat, NEW place \in Nat,
           \A source, j, k : Waits(source, j, k)' <=>
               Waits(source, j, k) \/ (j = at /\ k = place /\ source = src)
    PROVE  /\ \A source : source # src => (Alone(source)' <=> Alone(source))
                                          /\ (Some(source)' <=> Some(source))
           /\ ~Some(src) => Alone(src)' /\ Some(src)'
<1>1. \A source : source # src => \A j, k : Waits(source, j, k)' <=> Waits(source, j, k)
  OBVIOUS
<1>2. ASSUME ~Some(src) PROVE \A j, k \in Nat : Waits(src, j, k)' <=> j = at /\ k = place
  BY <1>2 DEF Some
<1>3. ASSUME ~Some(src) PROVE Alone(src)' /\ Some(src)'
  BY <1>2, <1>3 DEF Alone, Some
<1>4. ASSUME NEW source, source # src
      PROVE  (Alone(source)' <=> Alone(source)) /\ (Some(source)' <=> Some(source))
  BY <1>1, <1>4 DEF Alone, Some
<1> QED  BY <1>3, <1>4

(* The tasks of lane i move up by one place.                               *)
MovedUp(source, i, stage) ==
    \A j, k \in Nat : Waits(source, j, k)' <=>
        IF j = i THEN Waits(source, i, k + 1) /\ (k = 0 => stage = "running")
                 ELSE Waits(source, j, k)

LEMMA AloneShift ==
    ASSUME NEW i \in Nat, NEW stage \in {"next", "running"}, NEW source, Alone(source),
           ~Waits(source, i, 0), MovedUp(source, i, stage)
    PROVE  /\ Alone(source)'
           /\ (Waits(source, i, 1) => stage = "running") => (Some(source)' <=> Some(source))
           /\ Waits(source, i, 1) /\ stage = "next" => ~Some(source)'
           /\ Waits(source, i, 1) => \A j \in Nat, k \in Nat \ {0} : ~Waits(source, j, k)'
           /\ \A j \in Nat, k \in Nat \ {0} : Waits(source, j, k)' =>
                 \E m \in Nat \ {0} : Waits(source, j, m)
<1> USE DEF MovedUp
<1>1. \A k \in Nat : Waits(source, i, k) => k # 0 /\ k - 1 \in Nat /\ (k - 1) + 1 = k
  OBVIOUS
<1>2. Alone(source)'
  BY DEF Alone
<1>3. ASSUME Waits(source, i, 1) => stage = "running"
      PROVE  Some(source)' <=> Some(source)
  <2>1. ASSUME Some(source)' PROVE Some(source)
    <3>1. PICK j \in Nat, k \in Nat : Waits(source, j, k)'
      BY <2>1 DEF Some
    <3>2. CASE j = i
      BY <3>1, <3>2 DEF Some
    <3>3. CASE j # i
      BY <3>1, <3>3 DEF Some
    <3> QED  BY <3>2, <3>3
  <2>2. ASSUME Some(source) PROVE Some(source)'
    <3>1. PICK j \in Nat, k \in Nat : Waits(source, j, k)
      BY <2>2 DEF Some
    <3>2. CASE j = i
      <4>1. k - 1 \in Nat /\ Waits(source, i, (k - 1) + 1) /\ (k - 1 = 0 => stage = "running")
        BY <1>1, <1>3, <3>1, <3>2
      <4>2. Waits(source, i, k - 1)'
        BY <4>1
      <4> QED  BY <4>1, <4>2 DEF Some
    <3>3. CASE j # i
      BY <3>1, <3>3 DEF Some
    <3> QED  BY <3>2, <3>3
  <2> QED  BY <2>1, <2>2
<1>4. ASSUME Waits(source, i, 1) PROVE \A j \in Nat, k \in Nat \ {0} : ~Waits(source, j, k)'
  <2>1. \A j, k \in Nat : Waits(source, j, k) => j = i /\ k = 1
    BY <1>4 DEF Alone
  <2>2. \A k \in Nat \ {0} : k + 1 \in Nat /\ k + 1 # 1
    OBVIOUS
  <2> QED  BY <2>1, <2>2
<1>5. ASSUME Waits(source, i, 1), stage = "next" PROVE ~Some(source)'
  <2>1. \A j, k \in Nat : Waits(source, j, k) => j = i /\ k = 1
    BY <1>5 DEF Alone
  <2>2. \A j \in Nat : ~Waits(source, j, 0)'
    BY <1>5, <2>1
  <2> QED  BY <1>4, <1>5, <2>2 DEF Some
<1>6. ASSUME NEW j \in Nat, NEW k \in Nat \ {0}, Waits(source, j, k)'
      PROVE  \E m \in Nat \ {0} : Waits(source, j, m)
  <2>1. CASE j = i
    BY <1>6, <2>1
  <2>2. CASE j # i
    BY <1>6, <2>2
  <2> QED  BY <2>1, <2>2
<1> QED  BY <1>2, <1>3, <1>4, <1>5, <1>6

LEMMA AloneEnd ==
    ASSUME NEW i \in Nat, NEW source, Alone(source),
           \A j, k : Waits(source, j, k)' <=> Waits(source, j, k) /\ ~(j = i /\ k = 0)
    PROVE  /\ Alone(source)'
           /\ ~Waits(source, i, 0) => (Some(source)' <=> Some(source))
           /\ Waits(source, i, 0) => ~Some(source)'
<1>1. Alone(source)'
  BY DEF Alone
<1>2. ASSUME ~Waits(source, i, 0) PROVE Some(source)' <=> Some(source)
  BY <1>2 DEF Some
<1>3. ASSUME Waits(source, i, 0) PROVE ~Some(source)'
  BY <1>3 DEF Some, Alone
<1> QED  BY <1>1, <1>2, <1>3

(***************************************************************************)
(* The flags, and the rollover that waits.                                 *)
(***************************************************************************)
(* Until it ends, an event of a run changes only the run and its stage.    *)
RunGoesOn(i, new) ==
    /\ lanes' = [lanes EXCEPT ![i] = new]
    /\ new.queue = lanes[i].queue
    /\ new.stage \in {"running", "reported", "settling"}
    /\ new.run.task = lanes[i].run.task
    /\ new.run.aborted = lanes[i].run.aborted
    /\ UNCHANGED <<rolloverVars, rolloverQueued, heartbeatPending>>

LEMMA RunShape ==
    ASSUME lanes \in Seq(LaneRecords), NEW i \in 1..Len(lanes), RunStep(i),
           lanes[i].resolved \in Nat, ProviderSession(i) \in Nat
    PROVE  /\ Active(i) /\ UNCHANGED <<shuttingDown, accepted>>
           /\ EndRun(i) \/ \E new \in LaneRecords : RunGoesOn(i, new)
<1>1. lanes[i] \in LaneRecords
  BY LaneTypes
<1>2. Active(i) /\ UNCHANGED <<shuttingDown, accepted>>
  BY DEF RunStep, SessionInitialized, Resolve, Done, ErrorAfterDone, RunnerReturns,
         Settled, Running, Active
<1>3. ASSUME NEW stage \in {"running", "reported", "settling"}, NEW run \in RunRecords,
             NEW resolved \in Nat,
             lanes' = [lanes EXCEPT ![i].stage = stage, ![i].run = run, ![i].resolved = resolved],
             run.task = lanes[i].run.task, run.aborted = lanes[i].run.aborted,
             UNCHANGED <<rolloverVars, rolloverQueued, heartbeatPending>>
      PROVE  \E new \in LaneRecords : RunGoesOn(i, new)
  <2> DEFINE new == [lanes[i] EXCEPT !.stage = stage, !.run = run, !.resolved = resolved]
  <2>1. new \in LaneRecords /\ new.queue = lanes[i].queue /\ new.stage = stage /\ new.run = run
    BY <1>1 DEF LaneRecords, Stages
  <2>2. lanes' = [lanes EXCEPT ![i] = new]
    BY <1>3
  <2> HIDE DEF new
  <2> QED  BY <1>3, <2>1, <2>2 DEF RunGoesOn
<1>4. lanes[i].run \in RunRecords /\ lanes[i].stage \in Stages
  BY <1>1 DEF LaneRecords
<1>5. CASE Resolved(i) /\ (SessionInitialized(i) \/ Resolve(i))
  <2> DEFINE run == [lanes[i].run EXCEPT !.inited = TRUE]
  <2>1. lanes' = [lanes EXCEPT ![i].stage = "running", ![i].run = run,
                               ![i].resolved = ProviderSession(i)]
    BY <1>5 DEF Resolved
  <2>2. run \in RunRecords /\ run.task = lanes[i].run.task /\ run.aborted = lanes[i].run.aborted
    BY <1>4 DEF RunRecords
  <2>3. UNCHANGED <<rolloverVars, rolloverQueued, heartbeatPending>>
    BY <1>5 DEF SessionInitialized, Resolve, sessionVars
  <2> HIDE DEF run
  <2> QED  BY <1>2, <1>3, <2>1, <2>2, <2>3
<1>6. ASSUME NEW stage \in {"running", "reported", "settling"},
             lanes' = [lanes EXCEPT ![i].stage = stage],
             UNCHANGED <<rolloverVars, rolloverQueued, heartbeatPending>>
      PROVE  \E new \in LaneRecords : RunGoesOn(i, new)
  <2> DEFINE new == [lanes[i] EXCEPT !.stage = stage]
  <2>1. new \in LaneRecords /\ new.queue = lanes[i].queue /\ new.stage = stage
        /\ new.run = lanes[i].run
    BY <1>1 DEF LaneRecords, Stages
  <2>2. lanes' = [lanes EXCEPT ![i] = new]
    BY <1>6
  <2> HIDE DEF new
  <2> QED  BY <1>6, <2>1, <2>2 DEF RunGoesOn
<1>7. CASE ~Resolved(i) /\ SessionInitialized(i)
  BY <1>2, <1>6, <1>7 DEF SessionInitialized
<1>8. CASE RunnerReturns(i) /\ ~EndRun(i)
  BY <1>2, <1>6, <1>8 DEF RunnerReturns
<1>9. ASSUME NEW run \in RunRecords, lanes' = [lanes EXCEPT ![i].run = run],
             run.task = lanes[i].run.task, run.aborted = lanes[i].run.aborted,
             UNCHANGED <<rolloverVars, rolloverQueued, heartbeatPending>>
      PROVE  \E new \in LaneRecords : RunGoesOn(i, new)
  <2> DEFINE new == [lanes[i] EXCEPT !.run = run]
  <2>1. new \in LaneRecords /\ new.queue = lanes[i].queue /\ new.stage = lanes[i].stage
        /\ new.run = run
    BY <1>1 DEF LaneRecords
  <2>2. lanes' = [lanes EXCEPT ![i] = new]
    BY <1>9
  <2> HIDE DEF new
  <2> QED  BY <1>2, <1>9, <2>1, <2>2 DEF RunGoesOn, Active
<1>10. CASE Done(i)
  <2> DEFINE run == [lanes[i].run EXCEPT !.completed = TRUE, !.sawDone = TRUE]
  <2>1. lanes' = [lanes EXCEPT ![i].run = run]
        /\ UNCHANGED <<rolloverVars, rolloverQueued, heartbeatPending>>
    BY <1>10 DEF Done
  <2>2. run \in RunRecords /\ run.task = lanes[i].run.task /\ run.aborted = lanes[i].run.aborted
    BY <1>4 DEF RunRecords
  <2> HIDE DEF run
  <2> QED  BY <1>2, <1>9, <2>1, <2>2
<1>11. CASE ErrorAfterDone(i)
  <2> DEFINE run == [lanes[i].run EXCEPT !.completed = FALSE]
  <2>1. lanes' = [lanes EXCEPT ![i].run = run]
        /\ UNCHANGED <<rolloverVars, rolloverQueued, heartbeatPending>>
    BY <1>11 DEF ErrorAfterDone, sessionVars
  <2>2. run \in RunRecords /\ run.task = lanes[i].run.task /\ run.aborted = lanes[i].run.aborted
    BY <1>4 DEF RunRecords
  <2> HIDE DEF run
  <2> QED  BY <1>2, <1>9, <2>1, <2>2
<1>12. RunnerReturns(i) \/ Settled(i) => EndRun(i) \/ (RunnerReturns(i) /\ ~EndRun(i))
  BY DEF Settled
<1> QED  BY <1>2, <1>5, <1>7, <1>8, <1>10, <1>11, <1>12 DEF RunStep, Resolve

WaitInv == FlagsInv /\ QueuedRolloversAreDue

LEMMA KeepWaits ==
    ASSUME WaitInv, \A source, j, k : Waits(source, j, k)' <=> Waits(source, j, k),
           UNCHANGED <<shuttingDown, rolloverQueued, heartbeatPending, lastInteractive, lastHandled>>
    PROVE  WaitInv'
<1>1. FlagsInv'
  BY AloneSame DEF WaitInv, FlagsInv
<1>2. QueuedRolloversAreDue'
  BY DEF WaitInv, QueuedRolloversAreDue
<1> QED  BY <1>1, <1>2 DEF WaitInv

LEMMA AcceptKeepsWaits ==
    ASSUME ViewKnown, LanesInv, accepted \in Nat, WaitInv,
           \/ \E source \in Interactive : EnqueuePrompt(source)
           \/ EnqueueAgentPrompt
           \/ EnqueueHeartbeat
           \/ EnqueueRollover
    PROVE  WaitInv'
<1>1. lastInteractive \in Nat /\ lastHandled \in Nat
  BY ViewFacts
<1>2. ASSUME NEW src \in Sources, Accept(src)
      PROVE  /\ ~shuttingDown /\ UNCHANGED shuttingDown
             /\ \E at \in Nat, place \in Nat \ {0} :
                  \A source, j, k : Waits(source, j, k)' <=>
                     Waits(source, j, k) \/ (j = at /\ k = place /\ source = src)
  BY <1>2, AcceptWaits DEF Accept
<1>3. ASSUME NEW src \in {"browser", "tui", "agent"}, Accept(src), lastHandled' = lastHandled,
             lastInteractive' \in {lastInteractive, lastInteractive + 1},
             UNCHANGED <<rolloverQueued, heartbeatPending>>
      PROVE  WaitInv'
  <2>1. src \in Sources
    BY DEF Sources, Interactive
  <2>2. PICK at \in Nat, place \in Nat \ {0} :
           \A source, j, k : Waits(source, j, k)' <=>
              Waits(source, j, k) \/ (j = at /\ k = place /\ source = src)
    BY <1>2, <1>3, <2>1
  <2>3. \A source \in {"rollover", "heartbeat"} :
           (Alone(source)' <=> Alone(source)) /\ (Some(source)' <=> Some(source))
    BY <2>2, AloneAccept
  <2>4. FlagsInv'
    BY <1>2, <1>3, <2>1, <2>3 DEF WaitInv, FlagsInv
  <2>5. \A j, k : Waits("rollover", j, k)' <=> Waits("rollover", j, k)
    BY <2>2
  <2>6. QueuedRolloversAreDue'
    BY <1>1, <1>3, <2>5 DEF WaitInv, QueuedRolloversAreDue
  <2> QED  BY <2>4, <2>6 DEF WaitInv
<1>4. CASE EnqueueHeartbeat
  <2>1. Accept("heartbeat") /\ ~heartbeatPending /\ heartbeatPending'
        /\ UNCHANGED <<rolloverQueued, lastInteractive, lastHandled>> /\ "heartbeat" \in Sources
    BY <1>4 DEF EnqueueHeartbeat, rolloverVars, Sources
  <2>2. PICK at \in Nat, place \in Nat \ {0} :
           \A source, j, k : Waits(source, j, k)' <=>
              Waits(source, j, k) \/ (j = at /\ k = place /\ source = "heartbeat")
    BY <1>2, <2>1
  <2>3. /\ (Alone("rollover")' <=> Alone("rollover")) /\ (Some("rollover")' <=> Some("rollover"))
        /\ ~Some("heartbeat") => Alone("heartbeat")' /\ Some("heartbeat")'
    BY <2>2, AloneAccept
  <2>4. FlagsInv'
    BY <1>2, <2>1, <2>3 DEF WaitInv, FlagsInv
  <2>5. \A j, k : Waits("rollover", j, k)' <=> Waits("rollover", j, k)
    BY <2>2
  <2>6. QueuedRolloversAreDue'
    BY <2>1, <2>5 DEF WaitInv, QueuedRolloversAreDue
  <2> QED  BY <2>4, <2>6 DEF WaitInv
<1>5. CASE EnqueueRollover
  <2>1. Accept("rollover") /\ ~rolloverQueued /\ rolloverQueued' /\ RolloverDue
        /\ UNCHANGED <<heartbeatPending, lastInteractive, lastHandled>> /\ "rollover" \in Sources
    BY <1>5 DEF EnqueueRollover, RolloverPossible, rolloverVars, Sources
  <2>2. PICK at \in Nat, place \in Nat \ {0} :
           \A source, j, k : Waits(source, j, k)' <=>
              Waits(source, j, k) \/ (j = at /\ k = place /\ source = "rollover")
    BY <1>2, <2>1
  <2>3. /\ (Alone("heartbeat")' <=> Alone("heartbeat")) /\ (Some("heartbeat")' <=> Some("heartbeat"))
        /\ ~Some("rollover") => Alone("rollover")' /\ Some("rollover")'
    BY <2>2, AloneAccept
  <2>4. FlagsInv'
    BY <1>2, <2>1, <2>3 DEF WaitInv, FlagsInv
  <2>5. lastHandled < lastInteractive
    BY <1>1, <2>1 DEF RolloverDue, WaitInv, QueuedRolloversAreDue
  <2>6. QueuedRolloversAreDue'
    BY <1>1, <2>1, <2>5 DEF WaitInv, QueuedRolloversAreDue
  <2> QED  BY <2>4, <2>6 DEF WaitInv
<1>6. CASE EnqueueAgentPrompt
  <2>1. Accept("agent") /\ UNCHANGED <<lastInteractive, lastHandled, rolloverQueued, heartbeatPending>>
    BY <1>6 DEF EnqueueAgentPrompt, rolloverVars
  <2> QED  BY <1>3, <2>1
<1>7. CASE \E source \in Interactive : EnqueuePrompt(source)
  <2>1. PICK source \in {"browser", "tui"} : EnqueuePrompt(source)
    BY <1>7 DEF Interactive
  <2> QED  BY <1>3, <2>1 DEF EnqueuePrompt, RecordAcceptedPromptTarget
<1> QED  BY <1>4, <1>5, <1>6, <1>7

LEMMA ShiftKeepsWaits ==
    ASSUME LanesInv, WaitInv, ~shuttingDown, UNCHANGED shuttingDown, NEW i \in 1..Len(lanes),
           lanes[i].stage \in {"start", "next"}, lanes[i].queue # <<>>,
           NEW stage \in {"next", "running"}, NEW run \in RunRecords,
           Shifted(i, stage, run), stage = "running" => run.task = Head(lanes[i].queue),
           rolloverQueued' = (rolloverQueued
               /\ (Head(lanes[i].queue).source = "rollover" => stage = "running")),
           heartbeatPending' = (heartbeatPending
               /\ (Head(lanes[i].queue).source = "heartbeat" => stage = "running")),
           lastInteractive' = lastInteractive,
           \/ lastHandled' = lastHandled
           \/ Head(lanes[i].queue).source = "rollover" /\ lastHandled' = lastInteractive,
           lastInteractive \in Nat
    PROVE  WaitInv'
<1> DEFINE source0 == Head(lanes[i].queue).source
<1>1. i \in Nat
  OBVIOUS
<1>2. /\ \A source : ~Waits(source, i, 0)
      /\ \A source : Waits(source, i, 1) <=> source0 = source
      /\ \A source : \A j, k \in Nat : Waits(source, j, k)' <=>
                 IF j = i THEN Waits(source, i, k + 1) /\ (k = 0 => stage = "running")
                          ELSE Waits(source, j, k)
  BY ShiftWaits
<1> HIDE DEF source0
<1>3. ASSUME NEW source, Alone(source)
      PROVE  /\ Alone(source)'
             /\ (source0 = source => stage = "running") => (Some(source)' <=> Some(source))
             /\ source0 = source /\ stage = "next" => ~Some(source)'
             /\ source0 = source => \A j \in Nat, k \in Nat \ {0} : ~Waits(source, j, k)'
             /\ \A j \in Nat, k \in Nat \ {0} : Waits(source, j, k)' =>
                 \E m \in Nat \ {0} : Waits(source, j, m)
  <2>1. ~Waits(source, i, 0) /\ (Waits(source, i, 1) <=> source0 = source)
    BY <1>2
  <2>2. MovedUp(source, i, stage)
    BY <1>2 DEF MovedUp
  <2>3. /\ Alone(source)'
        /\ (Waits(source, i, 1) => stage = "running") => (Some(source)' <=> Some(source))
        /\ Waits(source, i, 1) /\ stage = "next" => ~Some(source)'
        /\ Waits(source, i, 1) => \A j \in Nat, k \in Nat \ {0} : ~Waits(source, j, k)'
        /\ \A j \in Nat, k \in Nat \ {0} : Waits(source, j, k)' =>
                 \E m \in Nat \ {0} : Waits(source, j, m)
    BY <1>1, <1>3, <2>1, <2>2, AloneShift
  <2> QED  BY <2>1, <2>3
<1>4. /\ Alone("rollover") /\ (rolloverQueued <=> Some("rollover"))
      /\ Alone("heartbeat") /\ (heartbeatPending <=> Some("heartbeat"))
  BY DEF WaitInv, FlagsInv
<1>5. /\ rolloverQueued' = (rolloverQueued /\ (source0 = "rollover" => stage = "running"))
      /\ heartbeatPending' = (heartbeatPending /\ (source0 = "heartbeat" => stage = "running"))
      /\ lastHandled' = lastHandled \/ (source0 = "rollover" /\ lastHandled' = lastInteractive)
  BY DEF source0
<1>6. Alone("rollover")' /\ (rolloverQueued' <=> Some("rollover")')
  <2>1. CASE source0 = "rollover" => stage = "running"
    BY <1>3, <1>4, <1>5, <2>1
  <2>2. CASE source0 = "rollover" /\ stage = "next"
    BY <1>3, <1>4, <1>5, <2>2
  <2> QED  BY <2>1, <2>2
<1>7. Alone("heartbeat")' /\ (heartbeatPending' <=> Some("heartbeat")')
  <2>1. CASE source0 = "heartbeat" => stage = "running"
    BY <1>3, <1>4, <1>5, <2>1
  <2>2. CASE source0 = "heartbeat" /\ stage = "next"
    BY <1>3, <1>4, <1>5, <2>2
  <2> QED  BY <2>1, <2>2
<1>8. QueuedRolloversAreDue'
  <2>1. CASE source0 = "rollover"
    <3>1. \A j \in Nat, k \in Nat \ {0} : ~Waits("rollover", j, k)'
      BY <1>3, <1>4, <2>1
    <3> QED  BY <1>5, <3>1 DEF WaitInv, QueuedRolloversAreDue
  <2>2. CASE source0 # "rollover"
    <3>1. \A j \in Nat, k \in Nat \ {0} : Waits("rollover", j, k)' =>
             \E m \in Nat \ {0} : Waits("rollover", j, m)
      BY <1>3, <1>4
    <3> QED  BY <1>5, <2>2, <3>1 DEF WaitInv, QueuedRolloversAreDue
  <2> QED  BY <2>1, <2>2
<1> QED  BY <1>6, <1>7, <1>8 DEF WaitInv, FlagsInv

FlagTypes ==
    /\ shuttingDown \in BOOLEAN
    /\ rolloverQueued \in BOOLEAN
    /\ heartbeatPending \in BOOLEAN
    /\ accepted \in Nat
    /\ unsettledIds \subseteq Nat

LEMMA TurnKeepsWaits ==
    ASSUME ViewKnown, LanesInv, WaitInv, FlagTypes, ShutdownIsFinal,
           NEW i \in 1..Len(lanes), Turn(i)
    PROVE  WaitInv'
<1>1. lanes[i] \in LaneRecords /\ lanes \in Seq(LaneRecords) /\ i \in DOMAIN lanes
      /\ LaneFits(lanes[i], lastId)
  BY LaneTypes DEF LanesInv
<1>2. CASE lanes[i].queue = <<>>
  <2> DEFINE new == [lanes[i] EXCEPT !.stage = "idle"]
  <2>1. lanes' = [lanes EXCEPT ![i] = new]
    BY <1>2 DEF Turn
  <2>2. new \in LaneRecords /\ new.queue = <<>> /\ new.stage = "idle"
    BY <1>1, <1>2 DEF LaneRecords, Stages
  <2> HIDE DEF new
  <2>3. \A source, j, k : Waits(source, j, k)' <=>
           IF j = i THEN InLane(source, new, k) ELSE Waits(source, j, k)
    BY <1>1, <2>1, <2>2, WaitsReplaced
  <2>4. \A source, k : ~InLane(source, new, k) /\ ~InLane(source, lanes[i], k)
    BY <1>2, <2>2, EmptySeq DEF InLane, Turn
  <2>5. \A source, j, k : Waits(source, j, k)' <=> Waits(source, j, k)
    BY <2>3, <2>4 DEF Waits
  <2> QED  BY <1>2, <2>5, KeepWaits DEF Turn, sessionVars, rolloverVars
<1>3. CASE lanes[i].queue # <<>>
  <2> DEFINE task == Head(lanes[i].queue)
  <2>1. ~shuttingDown /\ UNCHANGED shuttingDown /\ lanes[i].stage \in {"start", "next"}
    BY <1>1, <1>3 DEF ShutdownIsFinal, Turn
  <2>2. task \in Tasks /\ rolloverQueued \in BOOLEAN /\ heartbeatPending \in BOOLEAN
        /\ lastInteractive \in Nat
    BY <1>1, <1>3, QueueTyped, HeadTailProperties, ViewFacts DEF FlagTypes
  <2>3. \E run \in RunRecords : run.task = task /\ (BeginRun(i, task) => Shifted(i, "running", run))
    <3> DEFINE run == [NoRun EXCEPT !.task = task,
                          !.resume = IF lanes[i].resolved # None THEN lanes[i].resolved
                                                                 ELSE task.ctx.sid]
    <3>1. run \in RunRecords
      BY <2>2, RunBegins
    <3>2. run.task = task
      BY DEF NoRun
    <3>3. BeginRun(i, task) => Shifted(i, "running", run)
      BY DEF BeginRun
    <3> HIDE DEF run
    <3> QED  BY <3>1, <3>2, <3>3
  <2>4. PICK run \in RunRecords : run.task = task /\ (BeginRun(i, task) => Shifted(i, "running", run))
    BY <2>3
  <2>5. NoRun \in RunRecords
    BY NoRunTyped
  <2>6. RunPrompt(i, task) \/ RunHeartbeat(i, task) \/ RunRollover(i, task)
    BY <1>3 DEF Turn
  <2>7. CASE RunPrompt(i, task)
    <3>1. /\ Shifted(i, "running", run) /\ UNCHANGED <<rolloverQueued, heartbeatPending>>
          /\ UNCHANGED <<lastInteractive, lastHandled>>
      BY <2>4, <2>7 DEF RunPrompt, sessionVars, rolloverVars
    <3> QED  BY <1>3, <2>1, <2>2, <2>4, <3>1, ShiftKeepsWaits
  <2>8. CASE RunHeartbeat(i, task)
    <3>1. /\ task.source = "heartbeat" /\ UNCHANGED rolloverQueued
          /\ UNCHANGED <<lastInteractive, lastHandled>>
      BY <2>8 DEF RunHeartbeat, sessionVars, rolloverVars
    <3>2. CASE Shifted(i, "next", NoRun) /\ heartbeatPending' = FALSE
      BY <1>3, <2>1, <2>2, <2>5, <3>1, <3>2, ShiftKeepsWaits
    <3>3. CASE Shifted(i, "running", run) /\ UNCHANGED heartbeatPending
      BY <1>3, <2>1, <2>2, <2>4, <3>1, <3>3, ShiftKeepsWaits
    <3> QED  BY <2>4, <2>8, <3>2, <3>3 DEF RunHeartbeat
  <2>9. CASE RunRollover(i, task)
    <3>1. task.source = "rollover" /\ UNCHANGED heartbeatPending
      BY <2>9 DEF RunRollover
    <3>2. CASE /\ Shifted(i, "next", NoRun) /\ rolloverQueued' = FALSE
               /\ UNCHANGED <<lastInteractive, lastHandled>>
      BY <1>3, <2>1, <2>2, <2>5, <3>1, <3>2, ShiftKeepsWaits
    <3>3. CASE /\ Shifted(i, "running", run) /\ UNCHANGED <<rolloverQueued, lastInteractive>>
               /\ lastHandled' = lastInteractive
      BY <1>3, <2>1, <2>2, <2>4, <3>1, <3>3, ShiftKeepsWaits
    <3> QED  BY <2>4, <2>9, <3>2, <3>3
             DEF RunRollover, BeginRolloverAttempt, sessionVars, rolloverVars
  <2> QED  BY <2>6, <2>7, <2>8, <2>9
<1> QED  BY <1>2, <1>3

LEMMA RunKeepsWaits ==
    ASSUME LanesInv, WaitInv, FlagTypes, NEW i \in 1..Len(lanes), RunStep(i)
    PROVE  WaitInv'
<1>1. lanes \in Seq(LaneRecords) /\ lanes[i] \in LaneRecords /\ i \in Nat
  BY LaneTypes DEF LanesInv
<1>2. lanes[i].resolved \in Nat /\ ProviderSession(i) \in Nat
  BY <1>1 DEF LaneRecords, RunRecords, Tasks, Contexts, ProviderSession
<1>3. /\ Active(i) /\ UNCHANGED shuttingDown
      /\ EndRun(i) \/ \E new \in LaneRecords : RunGoesOn(i, new)
  BY <1>1, <1>2, RunShape
<1>4. CASE EndRun(i)
  <2>1. /\ \A source : Waits(source, i, 0) <=> lanes[i].run.task.source = source
        /\ \A source, j, k : Waits(source, j, k)' <=> Waits(source, j, k) /\ ~(j = i /\ k = 0)
    BY <1>3, <1>4, EndWaits
  <2>2. ASSUME NEW source, Alone(source)
        PROVE  /\ Alone(source)'
               /\ lanes[i].run.task.source # source => (Some(source)' <=> Some(source))
               /\ lanes[i].run.task.source = source => ~Some(source)'
    <3>1. Waits(source, i, 0) <=> lanes[i].run.task.source = source
      BY <2>1
    <3>2. \A j, k : Waits(source, j, k)' <=> Waits(source, j, k) /\ ~(j = i /\ k = 0)
      BY <2>1
    <3> QED  BY <1>1, <2>2, <3>1, <3>2, AloneEnd
  <2>3. /\ heartbeatPending' = (heartbeatPending /\ lanes[i].run.task.source # "heartbeat")
        /\ rolloverQueued' = (rolloverQueued /\ lanes[i].run.task.source # "rollover")
        /\ UNCHANGED <<lastInteractive, lastHandled>>
    BY <1>4 DEF EndRun, FinishRolloverAttempt, rolloverVars
  <2>4. FlagsInv'
    BY <1>3, <2>2, <2>3 DEF WaitInv, FlagsInv, FlagTypes
  <2>5. QueuedRolloversAreDue'
    BY <2>1, <2>3 DEF WaitInv, QueuedRolloversAreDue
  <2> QED  BY <2>4, <2>5 DEF WaitInv
<1>5. ASSUME NEW new \in LaneRecords, RunGoesOn(i, new) PROVE WaitInv'
  <2>1. \A source, j, k : Waits(source, j, k)' <=>
           IF j = i THEN InLane(source, new, k) ELSE Waits(source, j, k)
    BY <1>1, <1>5, WaitsReplaced DEF RunGoesOn
  <2>2. \A source, k : InLane(source, new, k) <=> InLane(source, lanes[i], k)
    BY <1>3, <1>5 DEF InLane, RunGoesOn, Active
  <2>3. \A source, j, k : Waits(source, j, k)' <=> Waits(source, j, k)
    BY <2>1, <2>2 DEF Waits
  <2> QED  BY <1>3, <1>5, <2>3, KeepWaits DEF RunGoesOn, rolloverVars
<1> QED  BY <1>3, <1>4, <1>5

LEMMA StopKeepsWaits ==
    ASSUME lanes \in Seq(LaneRecords), AbortVisible, WaitInv,
           UNCHANGED <<shuttingDown, rolloverQueued, heartbeatPending, rolloverVars>>
    PROVE  WaitInv'
<1>1. /\ lanes' \in Seq(LaneRecords) /\ Len(lanes') = Len(lanes)
      /\ \A i \in DOMAIN lanes : LaneKept(i)
  BY StopAborts
<1>2. \A i \in 1..Len(lanes) :
         /\ lanes'[i].queue = lanes[i].queue /\ lanes'[i].stage = lanes[i].stage
         /\ lanes'[i].run.task = lanes[i].run.task
  <2> SUFFICES ASSUME NEW i \in 1..Len(lanes)
               PROVE  /\ lanes'[i].queue = lanes[i].queue /\ lanes'[i].stage = lanes[i].stage
                      /\ lanes'[i].run.task = lanes[i].run.task
    OBVIOUS
  <2>1. lanes[i] \in LaneRecords /\ i \in DOMAIN lanes
    BY LaneTypes
  <2>2. lanes[i].run \in RunRecords
    BY <2>1 DEF LaneRecords
  <2>3. [lanes[i].run EXCEPT !.aborted = TRUE].task = lanes[i].run.task
    BY <2>2 DEF RunRecords
  <2> QED  BY <1>1, <2>1, <2>3 DEF LaneKept
<1>3. \A source, j, k : Waits(source, j, k)' <=> Waits(source, j, k)
  BY <1>1, <1>2, WaitsSame
<1> QED  BY <1>3, KeepWaits DEF rolloverVars

LEMMA ShutdownKeepsWaits ==
    ASSUME lanes \in Seq(LaneRecords), BeginShutdown, WaitInv
    PROVE  WaitInv'
<1>1. /\ DOMAIN lanes = 1..Len(lanes) /\ Len(lanes') = Len(lanes)
      /\ \A i \in DOMAIN lanes : lanes'[i].queue = <<>>
  BY ShutdownEmpties, RecordsChange, LaneTypes
<1>2. \A j, k \in Nat : Waits("rollover", j, k)' => k = 0
  BY <1>1, EmptySeq DEF Waits, InLane
<1>3. shuttingDown' /\ UNCHANGED <<lastInteractive, lastHandled>>
  BY DEF BeginShutdown, sessionVars, rolloverVars
<1> QED  BY <1>2, <1>3 DEF WaitInv, FlagsInv, QueuedRolloversAreDue

LEMMA CrashKeepsWaits ==
    ASSUME Crash, WaitInv
    PROVE  WaitInv'
<1>1. /\ lanes' = <<>> /\ rolloverQueued' = FALSE /\ heartbeatPending' = FALSE
      /\ UNCHANGED <<lastInteractive, lastHandled>>
  BY DEF Crash, RestartDaemon, rolloverVars
<1>2. \A source, j, k : ~Waits(source, j, k)'
  BY <1>1, EmptySeq DEF Waits
<1>3. \A source : Alone(source)' /\ ~Some(source)'
  BY <1>2 DEF Alone, Some
<1> QED  BY <1>1, <1>2, <1>3 DEF WaitInv, FlagsInv, QueuedRolloversAreDue

(***************************************************************************)
(* After the shutdown has begun.                                           *)
(***************************************************************************)
Stopped(lane) ==
    /\ lane.queue = <<>>
    /\ lane.stage \in {"running", "reported", "settling"} => lane.run.aborted

LEMMA StoppedLanes ==
    ASSUME lanes \in Seq(LaneRecords)
    PROVE  ShutdownIsFinal <=> (shuttingDown => \A i \in 1..Len(lanes) : Stopped(lanes[i]))
  BY LaneTypes DEF ShutdownIsFinal, Stopped, Active

LEMMA StoppedReplaced ==
    ASSUME lanes \in Seq(LaneRecords), ShutdownIsFinal, UNCHANGED shuttingDown, shuttingDown,
           NEW i \in 1..Len(lanes), NEW lane \in LaneRecords, Stopped(lane),
           lanes' = [lanes EXCEPT ![i] = lane]
    PROVE  ShutdownIsFinal'
<1>1. /\ lanes' \in Seq(LaneRecords) /\ Len(lanes') = Len(lanes)
      /\ \A j \in 1..Len(lanes) : lanes'[j] = IF j = i THEN lane ELSE lanes[j]
  BY ExceptSeq
<1>2. \A j \in 1..Len(lanes) : Stopped(lanes[j])
  BY StoppedLanes
<1>3. \A j \in 1..Len(lanes') : Stopped(lanes'[j])
  BY <1>1, <1>2
<1>4. DOMAIN lanes' = 1..Len(lanes')
  BY <1>1, LenProperties
<1> QED  BY <1>3, <1>4 DEF ShutdownIsFinal, Stopped, Active

LEMMA NextShutdownIsFinal ==
    ASSUME LanesInv, FlagTypes, ShutdownIsFinal, [Next]_vars
    PROVE  ShutdownIsFinal'
<1>1. lanes \in Seq(LaneRecords) /\ DOMAIN lanes = 1..Len(lanes)
  BY LaneTypes DEF LanesInv
<1>2. CASE ~shuttingDown'
  BY <1>2 DEF ShutdownIsFinal
<1>3. CASE BeginShutdown
  <2>1. /\ DOMAIN lanes' = DOMAIN lanes
        /\ \A i \in DOMAIN lanes : lanes'[i].queue = <<>> /\ lanes'[i].stage = lanes[i].stage
              /\ lanes'[i].run = IF Active(i) THEN [lanes[i].run EXCEPT !.aborted = TRUE]
                                             ELSE lanes[i].run
    BY <1>1, <1>3, ShutdownEmpties, RecordsChange
  <2>2. \A i \in DOMAIN lanes : lanes[i].run \in RunRecords
    BY <1>1, LaneTypes DEF LaneRecords
  <2>3. \A i \in DOMAIN lanes : [lanes[i].run EXCEPT !.aborted = TRUE].aborted
    BY <2>2 DEF RunRecords
  <2> QED  BY <2>1, <2>3 DEF ShutdownIsFinal, Active
<1>4. CASE shuttingDown /\ shuttingDown' /\ ~BeginShutdown
  <2>1. UNCHANGED shuttingDown
    BY <1>4 DEF FlagTypes, Next, Accept, EnqueuePrompt, EnqueueAgentPrompt, EnqueueHeartbeat,
                EnqueueRollover, Turn, RunStep, SessionInitialized, Resolve, Done,
                ErrorAfterDone, RunnerReturns, Settled, Stop, ChangeView, Delete, Crash,
                laneVars, vars
  <2>2. ASSUME NEW i \in 1..Len(lanes), Turn(i) PROVE ShutdownIsFinal'
    <3> DEFINE new == [lanes[i] EXCEPT !.stage = "idle"]
    <3>1. lanes[i].queue = <<>>
      BY <1>1, <1>4 DEF ShutdownIsFinal
    <3>2. lanes' = [lanes EXCEPT ![i] = new]
      BY <2>2, <3>1 DEF Turn
    <3>3. new \in LaneRecords /\ Stopped(new)
      BY <1>1, <3>1, LaneTypes DEF LaneRecords, Stages, Stopped
    <3> HIDE DEF new
    <3> QED  BY <1>1, <1>4, <2>1, <3>2, <3>3, StoppedReplaced
  <2>3. ASSUME NEW i \in 1..Len(lanes), RunStep(i) PROVE ShutdownIsFinal'
    <3>1. lanes[i] \in LaneRecords
      BY <1>1, LaneTypes
    <3>2. lanes[i].resolved \in Nat /\ ProviderSession(i) \in Nat
      BY <3>1 DEF LaneRecords, RunRecords, Tasks, Contexts, ProviderSession
    <3>3. Active(i) /\ (EndRun(i) \/ \E new \in LaneRecords : RunGoesOn(i, new))
      BY <1>1, <2>3, <3>2, RunShape
    <3>4. lanes[i].queue = <<>> /\ lanes[i].run.aborted
      BY <1>1, <1>4, <3>3 DEF ShutdownIsFinal
    <3>5. CASE EndRun(i)
      <4> DEFINE new == [lanes[i] EXCEPT !.stage = "next", !.run = NoRun]
      <4>1. lanes' = [lanes EXCEPT ![i] = new]
        BY <3>5 DEF EndRun
      <4>2. new \in LaneRecords /\ Stopped(new)
        BY <3>1, <3>4, NoRunTyped DEF LaneRecords, Stages, Stopped
      <4> HIDE DEF new
      <4> QED  BY <1>1, <1>4, <2>1, <4>1, <4>2, StoppedReplaced
    <3>6. ASSUME NEW new \in LaneRecords, RunGoesOn(i, new) PROVE ShutdownIsFinal'
      <4>1. Stopped(new)
        BY <3>4, <3>6 DEF RunGoesOn, Stopped
      <4>2. lanes' = [lanes EXCEPT ![i] = new]
        BY <3>6 DEF RunGoesOn
      <4> QED  BY <1>1, <1>4, <2>1, <4>1, <4>2, StoppedReplaced
    <3> QED  BY <3>3, <3>5, <3>6
  <2>4. CASE AbortVisible
    <3>1. DOMAIN lanes' = DOMAIN lanes /\ \A i \in DOMAIN lanes : LaneKept(i)
      BY <1>1, <2>4, StopAborts
    <3>2. \A i \in DOMAIN lanes : lanes[i].run \in RunRecords
      BY <1>1, LaneTypes DEF LaneRecords
    <3>3. \A i \in DOMAIN lanes : [lanes[i].run EXCEPT !.aborted = TRUE].aborted
      BY <3>2 DEF RunRecords
    <3>4. \A i \in DOMAIN lanes' : lanes'[i].queue = <<>>
      BY <1>4, <3>1 DEF LaneKept, ShutdownIsFinal
    <3>5. ASSUME NEW i \in DOMAIN lanes', lanes'[i].stage \in {"running", "reported", "settling"}
          PROVE  lanes'[i].run.aborted
      <4>1. LaneKept(i) /\ Active(i) /\ lanes[i].run.aborted
        BY <1>4, <3>1, <3>5 DEF LaneKept, ShutdownIsFinal, Active
      <4> QED  BY <3>1, <3>3, <4>1 DEF LaneKept
    <3> QED  BY <3>4, <3>5 DEF ShutdownIsFinal, Active
  <2>5. CASE UNCHANGED lanes
    BY <1>4, <2>5 DEF ShutdownIsFinal, Active
  <2> QED  BY <1>1, <1>4, <2>2, <2>3, <2>4, <2>5
           DEF Next, Accept, EnqueuePrompt, EnqueueAgentPrompt, EnqueueHeartbeat,
               EnqueueRollover, Stop, ChangeView, Delete, Crash, laneVars, vars
<1>5. ASSUME ~shuttingDown, shuttingDown', ~BeginShutdown PROVE FALSE
  BY <1>5 DEF FlagTypes, Next, Accept, EnqueuePrompt, EnqueueAgentPrompt, EnqueueHeartbeat,
              EnqueueRollover, Turn, RunStep, SessionInitialized, Resolve, Done,
              ErrorAfterDone, RunnerReturns, Settled, Stop, ChangeView, Delete, Crash,
              laneVars, vars
<1> QED  BY <1>2, <1>3, <1>4, <1>5

(***************************************************************************)
(* The inductive invariant.                                                *)
(***************************************************************************)
CoordInv ==
    /\ ViewKnown
    /\ LanesInv
    /\ FlagTypes
    /\ ShutdownIsFinal
    /\ WaitInv

LEMMA InitCoordInv == Init => CoordInv
<1> SUFFICES ASSUME Init PROVE CoordInv
  OBVIOUS
<1>1. ViewKnown
  BY InitIInv, ProviderAssumption DEF Init, ViewKnown, OcWasGiven, SessionInit, None
<1>2. /\ lanes = <<>> /\ ~shuttingDown /\ rolloverQueued = FALSE /\ heartbeatPending = FALSE
      /\ lastInteractive = 0 /\ lastHandled = 0
  BY DEF Init, SessionInit
<1>3. LanesInv
  BY <1>2, EmptySeq DEF LanesInv
<1>4. FlagTypes /\ ShutdownIsFinal
  BY <1>2 DEF Init, FlagTypes, ShutdownIsFinal
<1>5. \A source, j, k : ~Waits(source, j, k)
  BY <1>2, EmptySeq DEF Waits
<1>6. WaitInv
  BY <1>2, <1>5 DEF WaitInv, FlagsInv, QueuedRolloversAreDue, Alone, Some
<1> QED  BY <1>1, <1>3, <1>4, <1>6 DEF CoordInv

LEMMA NextLanes ==
    ASSUME CoordInv, [Next]_vars
    PROVE  LanesInv'
<1>1. /\ DOMAIN lanes = 1..Len(lanes) /\ ViewKnown /\ LanesInv /\ accepted \in Nat
      /\ lastId \in Nat
  BY LaneTypes, ViewFacts DEF CoordInv, LanesInv, FlagTypes
<1>2. \A source \in Sources : Accept(source) => LanesInv'
  BY <1>1, AcceptKeepsLanes
<1>3. EnqueueAgentPrompt \/ EnqueueHeartbeat \/ EnqueueRollover
         \/ (\E source \in Interactive : EnqueuePrompt(source)) => LanesInv'
  BY <1>2 DEF EnqueuePrompt, EnqueueAgentPrompt, EnqueueHeartbeat, EnqueueRollover, Sources,
              Interactive
<1>4. ASSUME NEW i \in DOMAIN lanes, Turn(i) \/ RunStep(i) PROVE LanesInv'
  BY <1>1, <1>4, TurnKeepsLanes, RunKeepsLanes
<1>5. Stop \/ Delete => AbortVisible /\ UNCHANGED lastId
  BY DEF Stop, Delete, DeleteSession, sessionVars
<1>6. CASE Stop \/ Delete
  BY <1>1, <1>5, <1>6, StopKeepsLanes
<1>7. CASE UNCHANGED <<lanes, lastId>>
  BY <1>1, <1>7 DEF LanesInv
<1>8. ChangeView \/ UNCHANGED vars => UNCHANGED <<lanes, lastId>>
  BY DEF ChangeView, NewConversation, SwitchSession, SelectModel, laneVars, vars, sessionVars
<1> QED  BY <1>1, <1>3, <1>4, <1>6, <1>7, <1>8, ShutdownKeepsLanes, CrashKeepsLanes DEF Next

LEMMA NextFlagTypes ==
    ASSUME CoordInv, [Next]_vars
    PROVE  FlagTypes'
<1> USE DEF CoordInv, FlagTypes
<1>1. DOMAIN lanes = 1..Len(lanes) /\ \A i \in DOMAIN lanes : lanes[i] \in LaneRecords
  BY LaneTypes DEF LanesInv
<1>2. CASE EnqueueAgentPrompt \/ EnqueueHeartbeat \/ EnqueueRollover
           \/ \E source \in Interactive : EnqueuePrompt(source)
  <2>1. /\ accepted' = accepted + 1 /\ UNCHANGED <<shuttingDown, unsettledIds>>
        /\ rolloverQueued' = rolloverQueued \/ rolloverQueued' = TRUE
        /\ heartbeatPending' = heartbeatPending \/ heartbeatPending' = TRUE
    BY <1>2 DEF EnqueuePrompt, EnqueueAgentPrompt, EnqueueHeartbeat, EnqueueRollover, Accept
  <2>2. rolloverQueued' \in BOOLEAN /\ heartbeatPending' \in BOOLEAN
    BY <2>1
  <2>3. accepted' \in Nat
    BY <2>1
  <2> QED  BY <2>1, <2>2, <2>3
<1>3. ASSUME NEW i \in DOMAIN lanes, Turn(i) PROVE FlagTypes'
  BY <1>3 DEF Turn, RunPrompt, RunHeartbeat, RunRollover
<1>4. ASSUME NEW i \in DOMAIN lanes, RunStep(i) PROVE FlagTypes'
  <2>1. UNCHANGED unsettledIds \/ RunnerReturns(i)
    BY <1>4 DEF RunStep, SessionInitialized, Resolve, Done, ErrorAfterDone, Settled
  <2>2. ASSUME RunnerReturns(i) PROVE unsettledIds' \subseteq Nat
    <3>1. sessionId \in Nat /\ lanes[i].run.task.ctx.oc \in Nat
      BY <1>1, ViewFacts DEF LaneRecords, RunRecords, Tasks, Contexts
    <3> QED  BY <2>2, <3>1 DEF RunnerReturns, Interrupt
  <2>3. UNCHANGED <<shuttingDown, accepted>> /\ rolloverQueued' \in BOOLEAN
        /\ heartbeatPending' \in BOOLEAN
    BY <1>4 DEF RunStep, SessionInitialized, Resolve, Done, ErrorAfterDone, Settled,
                RunnerReturns, EndRun
  <2> QED  BY <2>1, <2>2, <2>3
<1>5. CASE Stop \/ ChangeView \/ Delete \/ BeginShutdown \/ Crash \/ UNCHANGED vars
  BY <1>5 DEF Stop, ChangeView, Delete, BeginShutdown, Crash, laneVars, vars
<1> QED  BY <1>2, <1>3, <1>4, <1>5 DEF Next

LEMMA NextWaits ==
    ASSUME CoordInv, [Next]_vars
    PROVE  WaitInv'
<1>1. /\ DOMAIN lanes = 1..Len(lanes) /\ lanes \in Seq(LaneRecords)
      /\ ViewKnown /\ LanesInv /\ FlagTypes /\ ShutdownIsFinal /\ WaitInv /\ accepted \in Nat
  BY LaneTypes DEF CoordInv, LanesInv, FlagTypes
<1>2. CASE EnqueueAgentPrompt \/ EnqueueHeartbeat \/ EnqueueRollover
           \/ \E source \in Interactive : EnqueuePrompt(source)
  BY <1>1, <1>2, AcceptKeepsWaits
<1>3. ASSUME NEW i \in DOMAIN lanes, Turn(i) PROVE WaitInv'
  BY <1>1, <1>3, TurnKeepsWaits
<1>4. ASSUME NEW i \in DOMAIN lanes, RunStep(i) PROVE WaitInv'
  BY <1>1, <1>4, RunKeepsWaits
<1>5. CASE Stop \/ Delete
  BY <1>1, <1>5, StopKeepsWaits DEF Stop, Delete, DeleteSession, sessionVars, rolloverVars
<1>6. CASE BeginShutdown
  BY <1>1, <1>6, ShutdownKeepsWaits
<1>7. CASE Crash
  BY <1>1, <1>7, CrashKeepsWaits
<1>8. CASE ChangeView \/ UNCHANGED vars
  <2>1. UNCHANGED <<lanes, shuttingDown, rolloverQueued, heartbeatPending, lastInteractive,
                    lastHandled>>
    BY <1>8 DEF ChangeView, NewConversation, SwitchSession, SelectModel, laneVars, vars,
                sessionVars, rolloverVars
  <2>2. \A source, j, k : Waits(source, j, k)' <=> Waits(source, j, k)
    BY <2>1 DEF Waits
  <2> QED  BY <1>1, <2>1, <2>2, KeepWaits
<1> QED  BY <1>2, <1>3, <1>4, <1>5, <1>6, <1>7, <1>8 DEF Next

LEMMA NextCoordInv == CoordInv /\ [Next]_vars => CoordInv' /\ [SessionNext]_sessionVars
<1> SUFFICES ASSUME CoordInv, [Next]_vars PROVE CoordInv' /\ [SessionNext]_sessionVars
  OBVIOUS
<1>1. [SessionNext]_sessionVars
  BY NextMaps DEF CoordInv, WaitInv
<1>2. ViewKnown'
  BY <1>1, NextViewKnown DEF CoordInv
<1>3. ShutdownIsFinal'
  BY NextShutdownIsFinal DEF CoordInv
<1> QED  BY <1>1, <1>2, <1>3, NextLanes, NextFlagTypes, NextWaits DEF CoordInv

LEMMA SpecCoordInv == Spec => []CoordInv
  BY InitCoordInv, NextCoordInv, PTL DEF Spec

(***************************************************************************)
(* Conversations are serial.  A conversation is found by three names: the  *)
(* generation in which it was blank, the id it was given then, and the     *)
(* session its lane has resolved to.  The invariant says that the names    *)
(* stay together.                                                          *)
(***************************************************************************)
ActiveStages == {"running", "reported", "settling"}

TasksOf(lane) ==
    {lane.queue[k] : k \in 1..Len(lane.queue)}
      \cup (IF lane.stage \in ActiveStages THEN {lane.run.task} ELSE {})

(* The id that was given to the generation a lane is named after.          *)
Given(lane, o) ==
    /\ lane.key.sid = None /\ o # None
    /\ \/ lane.resolved = o
       \/ \E task \in TasksOf(lane) : task.ctx.sid = None /\ task.ctx.oc = o

(* The lane can be found by this session, or is about to.                  *)
Known(lane, s) ==
    lane.resolved = s \/ (lane.stage = "reported" /\ lane.run.task.ctx.oc = s)

TaskNamed(task, lane) ==
    IF task.ctx.sid = None THEN lane.key.sid = None /\ lane.key.gen = task.ctx.gen
                           ELSE task.ctx.oc = task.ctx.sid

InOrder(lane, n) ==
    /\ \A task \in TasksOf(lane) : task.n <= n
    /\ \A k \in 1..Len(lane.queue) :
          /\ lane.stage \in ActiveStages => lane.run.task.n < lane.queue[k].n
          /\ \A m \in 1..Len(lane.queue) : k < m => lane.queue[k].n < lane.queue[m].n

(* An idle lane has nothing to do, and only a rollover comes early.        *)
Tidy(lane) == lane.stage = "idle" => lane.queue = <<>>

LaneSerial(lane, n) ==
    /\ lane.key.sid # None => lane.key.gen = 0
    /\ \A task \in TasksOf(lane) : TaskNamed(task, lane) /\ (task.early => task.source = "rollover")
    /\ Tidy(lane)
    /\ InOrder(lane, n)

LanesSerial == \A i \in 1..Len(lanes) : LaneSerial(lanes[i], accepted)

KeysDiffer == \A i, j \in 1..Len(lanes) : lanes[i].key = lanes[j].key => i = j

(* A generation has one id, and an id one generation.                      *)
GivenOnce ==
    \A i, j \in 1..Len(lanes) : \A o, q :
        Given(lanes[i], o) /\ Given(lanes[j], q) =>
            (lanes[i].key.gen = lanes[j].key.gen <=> o = q)

GivenToView ==
    \A i \in 1..Len(lanes) : \A o : Given(lanes[i], o) =>
        /\ lanes[i].key.gen <= generation
        /\ lanes[i].key.gen = generation => ocSessionId = o
        /\ sessionId = None /\ ocSessionId = o => lanes[i].key.gen = generation

ViewNamed == sessionId # None => ocSessionId = sessionId

(* As long as a conversation is blank no lane is named after its session;  *)
(* one in the store has run out of sight, and its lane has found out.      *)
BlankIsNew ==
    sessionId = None /\ ocSessionId # None =>
        /\ \A j \in 1..Len(lanes) : lanes[j].key.sid # ocSessionId
        /\ \A p : <<p, ocSessionId>> \in rows /\ ocSessionId \notin unsettledIds =>
              \E i \in 1..Len(lanes) :
                  /\ lanes[i].key = [provider |-> p, sid |-> None, gen |-> generation]
                  /\ lanes[i].resolved = ocSessionId

StoredAreKnown ==
    \A i \in 1..Len(lanes) : \A o :
        /\ Given(lanes[i], o)
        /\ <<lanes[i].key.provider, o>> \in rows
        /\ o \notin unsettledIds
        => Known(lanes[i], o)

(* A session that was blank once may have a lane named after it, behind    *)
(* the one it began in.  Only a rollover that came early is in there, and  *)
(* nothing enters the first lane while it waits.                           *)
Behind(old, new) ==
    /\ Known(old, new.key.sid)
    /\ \A task \in TasksOf(new) : task.early
    /\ \A k \in 1..Len(new.queue), task \in TasksOf(old) : task.n < new.queue[k].n

LanesApart ==
    \A i, j \in 1..Len(lanes) :
        /\ Given(lanes[i], lanes[j].key.sid)
        /\ lanes[i].key.provider = lanes[j].key.provider
        /\ lanes[j].key.sid \notin unsettledIds
        => i < j /\ Behind(lanes[i], lanes[j])

SerialInv ==
    /\ LanesSerial
    /\ KeysDiffer
    /\ GivenOnce
    /\ GivenToView
    /\ ViewNamed
    /\ BlankIsNew
    /\ StoredAreKnown
    /\ LanesApart

(***************************************************************************)
(* Steps that put nothing into a lane                                      *)
(***************************************************************************)
Lesser(old, new) ==
    /\ new.key = old.key
    /\ TasksOf(new) \subseteq TasksOf(old)
    /\ \A k \in 1..Len(new.queue) : \E m \in 1..Len(old.queue) : new.queue[k] = old.queue[m]
    /\ Tidy(old) => Tidy(new)
    /\ \/ new.resolved = old.resolved
       \/ /\ old.resolved = None
          /\ \E task \in TasksOf(old) : task.ctx.sid = None /\ new.resolved = task.ctx.oc
    /\ old.stage = "reported" =>
         \/ new.stage = "reported" /\ new.run.task = old.run.task
         \/ new.resolved = old.run.task.ctx.oc
    /\ \A n : InOrder(old, n) => InOrder(new, n)

NamesKept ==
    /\ Len(lanes') = Len(lanes)
    /\ \A i \in 1..Len(lanes) : Lesser(lanes[i], lanes'[i])

LEMMA GivenBefore ==
    ASSUME NEW old, NEW new, NEW o, Lesser(old, new), Given(new, o)
    PROVE  Given(old, o)
  BY DEF Lesser, Given

LEMMA KnownAfter ==
    ASSUME NEW old, NEW new, NEW o, o # None, Lesser(old, new), Known(old, o)
    PROVE  Known(new, o)
  BY DEF Lesser, Known

LEMMA StillBehind ==
    ASSUME NEW a, NEW b, NEW old, NEW new, Lesser(a, old), Lesser(b, new),
           b.key.sid # None, Behind(a, b)
    PROVE  Behind(old, new)
<1>1. new.key = b.key /\ TasksOf(new) \subseteq TasksOf(b) /\ TasksOf(old) \subseteq TasksOf(a)
      /\ \A k \in 1..Len(new.queue) : \E m \in 1..Len(b.queue) : new.queue[k] = b.queue[m]
  BY DEF Lesser
<1>2. Known(old, b.key.sid)
  BY KnownAfter DEF Behind
<1> QED  BY <1>1, <1>2 DEF Behind

(* What becomes of the view in such a step, and where new rows come from.  *)
ViewStep ==
    \/ UNCHANGED <<sessionId, ocSessionId, generation>>
    \/ generation' = generation + 1 /\ ocSessionId' = sessionId'
    \/ UNCHANGED <<ocSessionId, generation>> /\ sessionId' = ocSessionId

RowsStep ==
    \A p, s : <<p, s>> \in rows' =>
        \/ <<p, s>> \in rows
        \/ s \in unsettledIds'
        \/ \E i \in 1..Len(lanes) :
              /\ lanes[i].key.provider = p
              /\ \/ lanes[i].key.sid = s
                 \/ /\ Given(lanes[i], s)
                    /\ lanes'[i].resolved = s \/ (sessionId' # None /\ Known(lanes'[i], s))

LEMMA NamesKeptSerial ==
    ASSUME SerialInv, LanesInv, generation \in Nat, NamesKept, ViewStep, RowsStep,
           unsettledIds \subseteq unsettledIds', UNCHANGED accepted
    PROVE  SerialInv'
<1> USE DEF SerialInv
<1>1. /\ Len(lanes') = Len(lanes)
      /\ \A i \in 1..Len(lanes) : /\ lanes'[i].key = lanes[i].key
                                  /\ TasksOf(lanes'[i]) \subseteq TasksOf(lanes[i])
      /\ \A i \in 1..Len(lanes) : \A o : Given(lanes'[i], o) => Given(lanes[i], o)
      /\ \A i \in 1..Len(lanes) : \A o : o # None /\ Known(lanes[i], o) => Known(lanes'[i], o)
  <2>1. \A i \in 1..Len(lanes) : Lesser(lanes[i], lanes'[i])
    BY DEF NamesKept
  <2> QED  BY <2>1, GivenBefore, KnownAfter DEF NamesKept, Lesser
<1>2. \A i \in 1..Len(lanes) :
         /\ lanes[i].key \in [provider : Providers, sid : Nat, gen : Nat]
         /\ \A o : Given(lanes[i], o) => o # None
  BY LaneTypes DEF LanesInv, LaneRecords, Given
<1>3. LanesSerial'
  <2>1. ASSUME NEW i \in 1..Len(lanes) PROVE LaneSerial(lanes'[i], accepted)
    <3>1. LaneSerial(lanes[i], accepted) /\ Lesser(lanes[i], lanes'[i])
      BY DEF LanesSerial, NamesKept
    <3>2. /\ InOrder(lanes'[i], accepted) /\ Tidy(lanes'[i])
          /\ lanes'[i].key.sid # None => lanes'[i].key.gen = 0
      BY <3>1 DEF Lesser, LaneSerial
    <3>3. ASSUME NEW task \in TasksOf(lanes'[i])
          PROVE  TaskNamed(task, lanes'[i]) /\ (task.early => task.source = "rollover")
      BY <3>1 DEF Lesser, LaneSerial, TaskNamed
    <3> QED  BY <3>2, <3>3 DEF LaneSerial
  <2> QED  BY <1>1, <2>1 DEF LanesSerial
<1>4. KeysDiffer' /\ GivenOnce'
  <2>1. KeysDiffer'
    BY <1>1 DEF KeysDiffer
  <2>2. ASSUME NEW i \in 1..Len(lanes), NEW j \in 1..Len(lanes), NEW o, NEW q,
               Given(lanes'[i], o), Given(lanes'[j], q)
        PROVE  lanes'[i].key.gen = lanes'[j].key.gen <=> o = q
    <3>1. Given(lanes[i], o) /\ Given(lanes[j], q)
      BY <1>1, <2>2
    <3>2. lanes[i].key.gen = lanes[j].key.gen <=> o = q
      BY <3>1 DEF GivenOnce
    <3> QED  BY <1>1, <3>2
  <2> QED  BY <1>1, <2>1, <2>2 DEF GivenOnce
<1>5. LanesApart'
  <2> SUFFICES ASSUME NEW i \in 1..Len(lanes), NEW j \in 1..Len(lanes),
                      Given(lanes'[i], lanes'[j].key.sid),
                      lanes'[i].key.provider = lanes'[j].key.provider,
                      lanes'[j].key.sid \notin unsettledIds'
               PROVE  i < j /\ Behind(lanes'[i], lanes'[j])
    BY <1>1 DEF LanesApart
  <2>1. Given(lanes[i], lanes[j].key.sid) /\ lanes[j].key.sid \notin unsettledIds
    BY <1>1
  <2>2. i < j /\ Behind(lanes[i], lanes[j])
    BY <1>1, <2>1 DEF LanesApart
  <2>3. Lesser(lanes[i], lanes'[i]) /\ Lesser(lanes[j], lanes'[j])
    BY DEF NamesKept
  <2> QED  BY <1>2, <2>1, <2>2, <2>3, StillBehind
<1>6. GivenToView' /\ ViewNamed'
  <2>1. ViewNamed'
    BY DEF ViewNamed, ViewStep
  <2>2. ASSUME NEW i \in 1..Len(lanes), NEW o, Given(lanes'[i], o)
        PROVE  /\ lanes'[i].key.gen <= generation'
               /\ lanes'[i].key.gen = generation' => ocSessionId' = o
               /\ sessionId' = None /\ ocSessionId' = o => lanes'[i].key.gen = generation'
    <3>1. /\ lanes[i].key.gen \in Nat /\ o # None /\ lanes'[i].key = lanes[i].key
          /\ lanes[i].key.gen <= generation
          /\ lanes[i].key.gen = generation => ocSessionId = o
          /\ sessionId = None /\ ocSessionId = o => lanes[i].key.gen = generation
      BY <1>1, <1>2, <2>2 DEF GivenToView
    <3> QED  BY <3>1 DEF ViewStep
  <2> QED  BY <1>1, <2>1, <2>2 DEF GivenToView
<1>7. StoredAreKnown'
  <2> SUFFICES ASSUME NEW i \in 1..Len(lanes), NEW o, Given(lanes[i], o),
                      <<lanes[i].key.provider, o>> \in rows', o \notin unsettledIds'
               PROVE  Known(lanes'[i], o)
    BY <1>1 DEF StoredAreKnown
  <2>1. o # None /\ o \notin unsettledIds
    BY <1>2
  <2>2. CASE <<lanes[i].key.provider, o>> \in rows
    BY <1>1, <2>1, <2>2 DEF StoredAreKnown
  <2>3. ASSUME NEW j \in 1..Len(lanes), lanes[j].key.provider = lanes[i].key.provider,
               lanes[j].key.sid = o
        PROVE  Known(lanes'[i], o)
    BY <1>1, <2>1, <2>3 DEF LanesApart, Behind
  <2>4. ASSUME NEW j \in 1..Len(lanes), lanes[j].key.provider = lanes[i].key.provider,
               Given(lanes[j], o), Known(lanes'[j], o)
        PROVE  Known(lanes'[i], o)
    <3>1. lanes[j].key.gen = lanes[i].key.gen /\ lanes[j].key.sid = lanes[i].key.sid
      BY <2>4 DEF GivenOnce, Given
    <3>2. lanes[j].key = lanes[i].key
      BY <1>2, <2>4, <3>1
    <3> QED  BY <2>4, <3>2 DEF KeysDiffer
  <2> QED  BY <2>2, <2>3, <2>4 DEF RowsStep, Known
<1>8. BlankIsNew'
  <2> SUFFICES ASSUME sessionId' = None, ocSessionId' # None
               PROVE  /\ \A j \in 1..Len(lanes) : lanes'[j].key.sid # ocSessionId'
                      /\ \A p : <<p, ocSessionId'>> \in rows' /\ ocSessionId' \notin unsettledIds' =>
                           \E i \in 1..Len(lanes) :
                             /\ lanes'[i].key = [provider |-> p, sid |-> None, gen |-> generation']
                             /\ lanes'[i].resolved = ocSessionId'
    BY <1>1 DEF BlankIsNew
  <2>1. UNCHANGED <<sessionId, ocSessionId, generation>>
    BY DEF ViewStep
  <2>2. \A j \in 1..Len(lanes) : lanes[j].key.sid # ocSessionId
    BY <2>1 DEF BlankIsNew
  <2>3. ASSUME NEW p, <<p, ocSessionId>> \in rows', ocSessionId \notin unsettledIds'
        PROVE  \E i \in 1..Len(lanes) :
                  /\ lanes[i].key = [provider |-> p, sid |-> None, gen |-> generation]
                  /\ lanes'[i].resolved = ocSessionId
    <3>1. CASE <<p, ocSessionId>> \in rows
      <4>1. PICK i \in 1..Len(lanes) :
                  /\ lanes[i].key = [provider |-> p, sid |-> None, gen |-> generation]
                  /\ lanes[i].resolved = ocSessionId
        BY <2>1, <2>3, <3>1 DEF BlankIsNew
      <4>2. lanes'[i].resolved = ocSessionId
        BY <2>1, <4>1 DEF NamesKept, Lesser
      <4> QED  BY <4>1, <4>2
    <3>2. ASSUME NEW i \in 1..Len(lanes), lanes[i].key.provider = p,
                 Given(lanes[i], ocSessionId), lanes'[i].resolved = ocSessionId
          PROVE  lanes[i].key = [provider |-> p, sid |-> None, gen |-> generation]
      <4>1. lanes[i].key.gen = generation /\ lanes[i].key.sid = None
        BY <2>1, <3>2 DEF GivenToView, Given
      <4> QED  BY <1>2, <3>2, <4>1
    <3> QED  BY <2>1, <2>2, <2>3, <3>1, <3>2 DEF RowsStep
  <2> QED  BY <1>1, <2>1, <2>2, <2>3
<1> QED  BY <1>3, <1>4, <1>5, <1>6, <1>7, <1>8

LEMMA LesserReplaced ==
    ASSUME lanes \in Seq(LaneRecords), NEW i \in 1..Len(lanes), NEW new \in LaneRecords,
           lanes' = [lanes EXCEPT ![i] = new], Lesser(lanes[i], new)
    PROVE  NamesKept
<1>1. /\ Len(lanes') = Len(lanes)
      /\ \A j \in 1..Len(lanes) : lanes'[j] = IF j = i THEN new ELSE lanes[j]
  BY ExceptSeq
<1>2. \A lane : Lesser(lane, lane)
  BY DEF Lesser
<1> QED  BY <1>1, <1>2 DEF NamesKept

LEMMA LesserSame ==
    ASSUME UNCHANGED lanes
    PROVE  NamesKept
  BY DEF NamesKept, Lesser

(* A lane that goes on with its run, or has ended it.                      *)
LEMMA LesserRun ==
    ASSUME NEW old, NEW new, new.key = old.key, new.resolved = old.resolved,
           new.queue \in {old.queue, <<>>},
           Tidy(old) => Tidy(new),
           \/ new.stage \in {"idle", "start", "next"} /\ old.stage # "reported"
           \/ /\ new.stage \in ActiveStages /\ old.stage \in ActiveStages
              /\ new.run.task = old.run.task
              /\ old.stage = "reported" => new.stage = "reported"
    PROVE  Lesser(old, new)
<1>1. CASE new.queue = old.queue
  BY <1>1 DEF Lesser, TasksOf, InOrder, ActiveStages
<1>2. CASE new.queue = <<>>
  <2>1. 1..Len(new.queue) = {}
    BY <1>2, EmptySeq
  <2> QED  BY <2>1 DEF Lesser, TasksOf, InOrder, ActiveStages
<1> QED  BY <1>1, <1>2

(* The task in front leaves the queue: it runs, or is dropped.             *)
LEMMA LesserShift ==
    ASSUME NEW old \in LaneRecords, NEW new, old.queue # <<>>,
           new.key = old.key, new.resolved = old.resolved, new.queue = Tail(old.queue),
           old.stage \in {"start", "next"},
           \/ new.stage = "next"
           \/ new.stage = "running" /\ new.run.task = Head(old.queue)
    PROVE  Lesser(old, new)
<1>1. /\ Len(new.queue) = Len(old.queue) - 1 /\ Len(old.queue) \in Nat \ {0}
      /\ \A k \in 1..Len(new.queue) : new.queue[k] = old.queue[k + 1]
      /\ Head(old.queue) = old.queue[1]
  BY QueueTyped, HeadTailProperties, EmptySeq
<1>2. /\ 1 \in 1..Len(old.queue)
      /\ \A k \in 1..Len(new.queue) : k + 1 \in 1..Len(old.queue) /\ 1 < k + 1
      /\ \A k, m \in 1..Len(new.queue) : k < m => k + 1 < m + 1
  BY <1>1
<1>3. TasksOf(new) \subseteq TasksOf(old)
  BY <1>1, <1>2 DEF TasksOf, ActiveStages
<1>4. ASSUME NEW n, InOrder(old, n) PROVE InOrder(new, n)
  BY <1>1, <1>2, <1>3, <1>4 DEF InOrder, ActiveStages
<1>5. \A k \in 1..Len(new.queue) : \E m \in 1..Len(old.queue) : new.queue[k] = old.queue[m]
  BY <1>1, <1>2
<1> QED  BY <1>3, <1>4, <1>5 DEF Lesser, Tidy

(* The lane learns its session from its run.                               *)
LEMMA LesserResolved ==
    ASSUME NEW old, NEW new, NEW n, LaneFits(old, n),
           old.stage \in {"running", "reported"}, ~old.run.inited,
           new.key = old.key, new.queue = old.queue, new.stage = "running",
           new.run.task = old.run.task,
           new.resolved = IF old.run.resume # None THEN old.run.resume ELSE old.run.task.ctx.oc
    PROVE  Lesser(old, new)
<1>1. TasksOf(new) = TasksOf(old) /\ old.run.task \in TasksOf(old)
  BY DEF TasksOf, ActiveStages
<1>2. \A m : InOrder(old, m) => InOrder(new, m)
  BY <1>1 DEF InOrder, ActiveStages
<1>3. IF old.run.resume # None
      THEN old.resolved = old.run.resume /\ old.stage # "reported"
      ELSE old.run.task.ctx.sid = None /\ old.resolved = None
  BY DEF LaneFits, RunFits
<1> QED  BY <1>1, <1>2, <1>3 DEF Lesser, Tidy

LEMMA TurnKeepsNames ==
    ASSUME LanesInv, NEW i \in 1..Len(lanes), Turn(i)
    PROVE  NamesKept
<1>1. lanes[i] \in LaneRecords /\ lanes \in Seq(LaneRecords) /\ lanes[i].run \in RunRecords
  BY LaneTypes DEF LanesInv, LaneRecords
<1>2. lanes[i].stage \in {"start", "next"}
  BY DEF Turn
<1>3. CASE lanes[i].queue = <<>>
  <2> DEFINE new == [lanes[i] EXCEPT !.stage = "idle"]
  <2>1. lanes' = [lanes EXCEPT ![i] = new]
    BY <1>3 DEF Turn
  <2>2. new \in LaneRecords /\ new.key = lanes[i].key /\ new.resolved = lanes[i].resolved
        /\ new.queue = lanes[i].queue /\ new.stage = "idle"
    BY <1>1 DEF LaneRecords, Stages
  <2> HIDE DEF new
  <2>3. Tidy(new)
    BY <1>3, <2>2 DEF Tidy
  <2> QED  BY <1>1, <1>2, <2>1, <2>2, <2>3, LesserRun, LesserReplaced
<1>4. ASSUME NEW stage \in {"next", "running"}, NEW run \in RunRecords,
             lanes[i].queue # <<>>, Shifted(i, stage, run),
             stage = "running" => run.task = Head(lanes[i].queue)
      PROVE  NamesKept
  <2> DEFINE q == Tail(lanes[i].queue)
             new == [lanes[i] EXCEPT !.queue = q, !.stage = stage, !.run = run]
  <2>1. q \in Seq(Tasks)
    BY <1>1, <1>4, QueueTyped, HeadTailProperties
  <2>2. lanes' = [lanes EXCEPT ![i] = new]
    BY <1>4 DEF Shifted
  <2> HIDE DEF q
  <2>3. new \in LaneRecords /\ new.key = lanes[i].key /\ new.resolved = lanes[i].resolved
        /\ new.queue = q /\ new.stage = stage /\ new.run = run
    BY <1>1, <2>1 DEF LaneRecords, Stages
  <2> HIDE DEF new
  <2>4. Lesser(lanes[i], new)
    BY <1>1, <1>2, <1>4, <2>3, LesserShift DEF q
  <2> QED  BY <1>1, <2>2, <2>3, <2>4, LesserReplaced
<1>5. CASE lanes[i].queue # <<>>
  <2> DEFINE task == Head(lanes[i].queue)
  <2>1. task \in Tasks
    BY <1>1, <1>5, QueueTyped, HeadTailProperties
  <2>2. CASE BeginRun(i, task)
    <3> DEFINE run == [NoRun EXCEPT !.task = task,
                          !.resume = IF lanes[i].resolved # None THEN lanes[i].resolved
                                                                 ELSE task.ctx.sid]
    <3>1. run \in RunRecords
      BY <2>1, RunBegins
    <3>2. run.task = task
      BY DEF NoRun
    <3>3. Shifted(i, "running", run)
      BY <2>2 DEF BeginRun
    <3> HIDE DEF run
    <3> QED  BY <1>4, <1>5, <3>1, <3>2, <3>3
  <2>3. CASE Shifted(i, "next", NoRun)
    BY <1>4, <1>5, <2>3, NoRunTyped
  <2> QED  BY <1>5, <2>2, <2>3 DEF Turn, RunPrompt, RunHeartbeat, RunRollover
<1> QED  BY <1>3, <1>5

LEMMA RunKeepsNames ==
    ASSUME LanesInv, lastId \in Nat, NEW i \in 1..Len(lanes), RunStep(i)
    PROVE  NamesKept
<1>1. /\ lanes[i] \in LaneRecords /\ lanes \in Seq(LaneRecords)
      /\ LaneFits(lanes[i], lastId) /\ lanes[i].run \in RunRecords
  BY LaneTypes DEF LanesInv, LaneRecords
<1>2. ASSUME NEW run \in RunRecords, NEW stage \in Stages,
             lanes' = [lanes EXCEPT ![i].stage = stage, ![i].run = run],
             \/ stage = "next" /\ lanes[i].stage # "reported"
             \/ /\ stage \in ActiveStages /\ lanes[i].stage = "running"
                /\ run.task = lanes[i].run.task
      PROVE  NamesKept
  <2> DEFINE new == [lanes[i] EXCEPT !.stage = stage, !.run = run]
  <2>1. new \in LaneRecords /\ new.key = lanes[i].key /\ new.resolved = lanes[i].resolved
        /\ new.queue = lanes[i].queue /\ new.stage = stage /\ new.run = run
    BY <1>1 DEF LaneRecords
  <2>2. lanes' = [lanes EXCEPT ![i] = new]
    BY <1>2
  <2> HIDE DEF new
  <2>3. Lesser(lanes[i], new)
    BY <1>2, <2>1, LesserRun DEF ActiveStages, Tidy
  <2> QED  BY <1>1, <2>1, <2>2, <2>3, LesserReplaced
<1>3. CASE Resolved(i) /\ (SessionInitialized(i) \/ Resolve(i))
  <2> DEFINE run == [lanes[i].run EXCEPT !.inited = TRUE]
             new == [lanes[i] EXCEPT !.stage = "running", !.run = run,
                                     !.resolved = ProviderSession(i)]
  <2>1. run \in RunRecords /\ run.task = lanes[i].run.task
    BY <1>1 DEF RunRecords
  <2>2. lanes' = [lanes EXCEPT ![i] = new]
    BY <1>3 DEF Resolved
  <2> HIDE DEF run
  <2>3. ProviderSession(i) \in Nat
    BY <1>1 DEF ProviderSession, RunRecords, Tasks, Contexts
  <2>4. new \in LaneRecords /\ new.key = lanes[i].key /\ new.resolved = ProviderSession(i)
        /\ new.queue = lanes[i].queue /\ new.stage = "running" /\ new.run = run
    BY <1>1, <2>1, <2>3 DEF LaneRecords, Stages
  <2> HIDE DEF new
  <2>5. lanes[i].stage \in {"running", "reported"} /\ ~lanes[i].run.inited
    BY <1>1, <1>3 DEF SessionInitialized, Resolve, Running, LaneFits, RunFits
  <2>6. Lesser(lanes[i], new)
    BY <1>1, <2>1, <2>4, <2>5, LesserResolved DEF ProviderSession
  <2> QED  BY <1>1, <2>2, <2>4, <2>6, LesserReplaced
<1>4. CASE ~Resolved(i) /\ SessionInitialized(i)
  <2>1. lanes' = [lanes EXCEPT ![i].stage = "reported", ![i].run = lanes[i].run]
        /\ lanes[i].stage = "running"
    BY <1>1, <1>4 DEF SessionInitialized, Running, LaneRecords
  <2> QED  BY <1>1, <1>2, <2>1 DEF ActiveStages, Stages
<1>5. CASE (RunnerReturns(i) \/ Settled(i)) /\ EndRun(i)
  BY <1>2, <1>5, NoRunTyped DEF EndRun, RunnerReturns, Settled, Running, Stages
<1>6. CASE RunnerReturns(i) /\ ~EndRun(i)
  <2>1. lanes' = [lanes EXCEPT ![i].stage = "settling", ![i].run = lanes[i].run]
        /\ lanes[i].stage = "running"
    BY <1>1, <1>6 DEF RunnerReturns, Running, LaneRecords
  <2> QED  BY <1>1, <1>2, <2>1 DEF ActiveStages, Stages
<1>7. ASSUME NEW run \in RunRecords, lanes' = [lanes EXCEPT ![i].run = run],
             run.task = lanes[i].run.task, lanes[i].stage = "running"
      PROVE  NamesKept
  <2>1. lanes' = [lanes EXCEPT ![i].stage = "running", ![i].run = run]
    BY <1>1, <1>7 DEF LaneRecords
  <2> QED  BY <1>2, <1>7, <2>1 DEF ActiveStages, Stages
<1>8. CASE Done(i)
  <2> DEFINE run == [lanes[i].run EXCEPT !.completed = TRUE, !.sawDone = TRUE]
  <2>1. lanes' = [lanes EXCEPT ![i].run = run] /\ lanes[i].stage = "running"
    BY <1>8 DEF Done, Running
  <2>2. run \in RunRecords /\ run.task = lanes[i].run.task
    BY <1>1 DEF RunRecords
  <2> HIDE DEF run
  <2> QED  BY <1>7, <2>1, <2>2
<1>9. CASE ErrorAfterDone(i)
  <2> DEFINE run == [lanes[i].run EXCEPT !.completed = FALSE]
  <2>1. lanes' = [lanes EXCEPT ![i].run = run] /\ lanes[i].stage = "running"
    BY <1>9 DEF ErrorAfterDone, Running
  <2>2. run \in RunRecords /\ run.task = lanes[i].run.task
    BY <1>1 DEF RunRecords
  <2> HIDE DEF run
  <2> QED  BY <1>7, <2>1, <2>2
<1> QED  BY <1>3, <1>4, <1>5, <1>6, <1>8, <1>9 DEF RunStep, Resolve, Settled

LEMMA StopKeepsNames ==
    ASSUME lanes \in Seq(LaneRecords), AbortVisible
    PROVE  NamesKept
<1>1. Len(lanes') = Len(lanes) /\ DOMAIN lanes = 1..Len(lanes)
  BY StopAborts, LaneTypes
<1>2. ASSUME NEW i \in 1..Len(lanes) PROVE Lesser(lanes[i], lanes'[i])
  <2>1. LaneKept(i) /\ lanes[i] \in LaneRecords
    BY <1>1, StopAborts, LaneTypes
  <2>2. lanes'[i].run.task = lanes[i].run.task
    BY <2>1 DEF LaneKept, LaneRecords, RunRecords
  <2>3. CASE lanes[i].stage \in ActiveStages
    BY <2>1, <2>2, <2>3, LesserRun DEF LaneKept, Tidy
  <2>4. CASE lanes[i].stage \in {"idle", "start", "next"}
    BY <2>1, <2>2, <2>4, LesserRun DEF LaneKept, Tidy
  <2> QED  BY <2>1, <2>3, <2>4 DEF LaneRecords, Stages, ActiveStages
<1> QED  BY <1>1, <1>2 DEF NamesKept

LEMMA ShutdownKeepsNames ==
    ASSUME lanes \in Seq(LaneRecords), BeginShutdown
    PROVE  NamesKept
<1>1. Len(lanes') = Len(lanes) /\ DOMAIN lanes = 1..Len(lanes)
  BY ShutdownEmpties, LaneTypes
<1>2. ASSUME NEW i \in 1..Len(lanes) PROVE Lesser(lanes[i], lanes'[i])
  <2>1. /\ lanes[i] \in LaneRecords /\ lanes'[i].key = lanes[i].key
        /\ lanes'[i].resolved = lanes[i].resolved /\ lanes'[i].queue = <<>>
        /\ lanes'[i].stage = lanes[i].stage
        /\ lanes'[i].run = IF Active(i) THEN [lanes[i].run EXCEPT !.aborted = TRUE]
                                        ELSE lanes[i].run
    BY <1>1, ShutdownEmpties, RecordsChange, LaneTypes
  <2>2. lanes'[i].run.task = lanes[i].run.task
    BY <2>1 DEF LaneRecords, RunRecords
  <2>3. CASE lanes[i].stage \in ActiveStages
    BY <2>1, <2>2, <2>3, LesserRun DEF Tidy
  <2>4. CASE lanes[i].stage \in {"idle", "start", "next"}
    BY <2>1, <2>2, <2>4, LesserRun DEF Tidy
  <2> QED  BY <2>1, <2>3, <2>4 DEF LaneRecords, Stages, ActiveStages
<1> QED  BY <1>1, <1>2 DEF NamesKept

(* The conversation of a run, for the view and the store.                  *)
LEMMA RunNames ==
    ASSUME ViewKnown, LanesInv, SerialInv, NEW i \in 1..Len(lanes), Active(i)
    PROVE  LET lane == lanes[i]
               c == lane.run.task.ctx
               s == ProviderSession(i)
           IN  /\ lane \in LaneRecords /\ lane.run.task \in TasksOf(lane)
               /\ c.provider = lane.key.provider /\ s # None /\ c.oc # None
               /\ lane.key.sid \in {None, lane.resolved}
               /\ lane.resolved \in {None, s}
               /\ lane.run.inited => lane.resolved = s
               /\ lane.run.resume = None =>
                    /\ c.sid = None /\ s = c.oc /\ Given(lane, s)
                    /\ lane.key.gen = c.gen
                    /\ ~lane.run.inited => lane.resolved = None
<1> DEFINE lane == lanes[i]
           c == lane.run.task.ctx
<1>1. lane \in LaneRecords /\ LaneFits(lane, lastId) /\ lastId \in Nat
  BY LaneTypes, ViewFacts DEF LanesInv
<1>2. lane.run.task \in TasksOf(lane) /\ lane.stage \in ActiveStages
  BY DEF Active, TasksOf, ActiveStages
<1>3. TaskNamed(lane.run.task, lane)
  BY <1>2 DEF SerialInv, LanesSerial, LaneSerial
<1>4. /\ c.provider = lane.key.provider /\ c.oc \in 1..lastId
      /\ lane.key.sid \in {None, lane.resolved}
      /\ IF lane.run.resume # None
         THEN lane.resolved = lane.run.resume
         ELSE c.sid = None /\ lane.resolved = IF lane.run.inited THEN c.oc ELSE None
  BY <1>1, <1>2 DEF LaneFits, RunFits, TaskFits, ActiveStages
<1>5. c.oc # None
  BY <1>1, <1>4 DEF None
<1>6. ProviderSession(i) = IF lane.run.resume # None THEN lane.run.resume ELSE c.oc
  BY DEF ProviderSession
<1> QED  BY <1>1, <1>2, <1>3, <1>4, <1>5, <1>6 DEF TaskNamed, Given

LEMMA InitializedSteps ==
    ASSUME ViewKnown, LanesInv, SerialInv, NEW i \in 1..Len(lanes), SessionInitialized(i)
    PROVE  ViewStep /\ RowsStep
<1> DEFINE lane == lanes[i]
           c == lane.run.task.ctx
           s == ProviderSession(i)
<1>1. Active(i) /\ ~lane.run.inited /\ lanes \in Seq(LaneRecords)
  BY DEF SessionInitialized, Running, Active, LanesInv
<1>2. CASE lane.run.resume # None
  BY <1>2 DEF SessionInitialized, viewVars, storeVars, ViewStep, RowsStep
<1>3. CASE lane.run.resume = None
  <2>1. /\ c.provider = lane.key.provider /\ s # None
        /\ c.sid = None /\ s = c.oc /\ Given(lane, s) /\ lane.key.gen = c.gen
        /\ lane.resolved = None /\ lane \in LaneRecords
    BY <1>1, <1>3, RunNames
  <2>2. rows' = rows \cup {<<c.provider, s>>}
    BY <1>3 DEF SessionInitialized, RecordSessionInitialized
  <2>3. CASE Visible(i)
    <3>1. sessionId = None /\ generation = c.gen
      BY <2>1, <2>3 DEF Visible, MatchesVisible, LaneRecords, RunRecords, Tasks, Contexts
    <3>2. ocSessionId = s
      BY <2>1, <3>1 DEF SerialInv, GivenToView
    <3>3. /\ sessionId' = s /\ UNCHANGED <<ocSessionId, generation>>
          /\ lanes' = [lanes EXCEPT ![i].stage = "reported"]
      BY <1>3, <2>1, <2>3, <3>2 DEF SessionInitialized, RecordSessionInitialized, ShowSession
    <3>4. lanes'[i] = [lane EXCEPT !.stage = "reported"]
      BY <1>1, <3>3, ExceptSeq
    <3>5. Known(lanes'[i], s)
      BY <2>1, <3>4 DEF Known, LaneRecords
    <3> QED  BY <2>1, <2>2, <3>2, <3>3, <3>5 DEF ViewStep, RowsStep
  <2>4. CASE ~Visible(i)
    <3>1. UNCHANGED viewVars /\ Resolved(i)
      BY <1>3, <2>4 DEF SessionInitialized, RecordSessionInitialized
    <3>2. lanes'[i].resolved = s
      <4>1. lanes' = [lanes EXCEPT ![i] = [lane EXCEPT !.stage = "running",
                        !.run.inited = TRUE, !.resolved = ProviderSession(i)]]
        BY <3>1 DEF Resolved
      <4>2. lanes'[i] = [lane EXCEPT !.stage = "running", !.run.inited = TRUE,
                                     !.resolved = ProviderSession(i)]
        BY <1>1, <4>1, LaneTypes
      <4> QED  BY <2>1, <4>2 DEF LaneRecords
    <3> QED  BY <2>1, <2>2, <3>1, <3>2 DEF ViewStep, RowsStep, viewVars
  <2> QED  BY <2>3, <2>4
<1> QED  BY <1>2, <1>3

LEMMA DoneSteps ==
    ASSUME ViewKnown, LanesInv, SerialInv, NEW i \in 1..Len(lanes), Done(i)
    PROVE  ViewStep /\ RowsStep
<1> DEFINE lane == lanes[i]
           c == lane.run.task.ctx
           s == ProviderSession(i)
<1>1. Active(i) /\ lane.run.inited /\ lanes \in Seq(LaneRecords)
  BY DEF Done, Running, Active, LanesInv
<1>2. /\ c.provider = lane.key.provider /\ s # None /\ lane \in LaneRecords
      /\ lane.key.sid \in {None, s} /\ lane.resolved = s
  BY <1>1, RunNames
<1>3. lane.key.sid = s \/ Given(lane, s)
  BY <1>2 DEF Given
<1>4. lanes'[i].resolved = s
  <2>1. lanes' = [lanes EXCEPT ![i] = [lane EXCEPT !.run.completed = TRUE, !.run.sawDone = TRUE]]
    BY DEF Done
  <2>2. lanes'[i] = [lane EXCEPT !.run.completed = TRUE, !.run.sawDone = TRUE]
    BY <1>1, <2>1, LaneTypes
  <2> QED  BY <1>2, <2>2 DEF LaneRecords
<1>5. CASE Visible(i)
  <2>1. providerId = c.provider /\ sessionId = s
    BY <1>2, <1>5 DEF Visible, MatchesVisible, LaneRecords, RunRecords, Tasks, Contexts
  <2>2. ocSessionId = s
    BY <1>2, <2>1 DEF SerialInv, ViewNamed
  <2>3. rows' = rows \cup {<<c.provider, s>>} /\ UNCHANGED <<sessionId, ocSessionId, generation>>
    BY <1>2, <1>5, <2>1, <2>2 DEF Done, CompleteRun, ShowSession
  <2> QED  BY <1>2, <1>3, <1>4, <2>3 DEF ViewStep, RowsStep
<1>6. CASE ~Visible(i)
  <2>1. rows' = rows \cup {<<c.provider, s>>} /\ UNCHANGED <<sessionId, ocSessionId, generation>>
    BY <1>6 DEF Done, RecordBackgroundCompletion, viewVars
  <2> QED  BY <1>2, <1>3, <1>4, <2>1 DEF ViewStep, RowsStep
<1> QED  BY <1>5, <1>6

LEMMA InterruptSteps ==
    ASSUME ViewKnown, LanesInv, SerialInv, NEW i \in 1..Len(lanes), Active(i), Interrupt(i)
    PROVE  ViewStep /\ RowsStep /\ unsettledIds \subseteq unsettledIds'
<1> DEFINE run == lanes[i].run
           c == run.task.ctx
           fresh == run.aborted /\ ~run.completed /\ run.resume = None
           s == IF sessionId # None THEN sessionId ELSE c.oc
<1>1. CASE fresh /\ run.task.source = "browser" /\ sessionId = None
  BY <1>1 DEF Interrupt, ClearState, storeVars, ViewStep, RowsStep
<1>2. CASE /\ ~(fresh /\ run.task.source = "browser" /\ sessionId = None)
           /\ fresh /\ Visible(i) /\ run.task.source \in Interactive
  <2>1. /\ RecordInterruptedRun(c.provider, s)
        /\ unsettledIds' = IF run.inited THEN unsettledIds ELSE unsettledIds \cup {s}
    BY <1>2 DEF Interrupt
  <2>2. /\ generation' = generation + 1 /\ sessionId' = s /\ ocSessionId' = s
        /\ rows' = rows \cup {<<c.provider, s>>}
    BY <2>1 DEF RecordInterruptedRun, SwitchState
  <2>3. /\ lanes[i] \in LaneRecords /\ c.sid = None /\ c.oc # None
        /\ lanes[i].resolved = IF run.inited THEN c.oc ELSE None
    BY <1>2, RunNames
  <2>4. providerId = c.provider /\ (run.inited => sessionId # None)
    BY <1>2, <2>3 DEF Visible, MatchesVisible, LaneRecords, RunRecords, Tasks, Contexts
  <2>5. <<c.provider, s>> \in rows \/ s \in unsettledIds'
    BY <2>1, <2>4 DEF ViewKnown, IInv, StoreMirrorsView
  <2> QED  BY <2>1, <2>2, <2>5 DEF ViewStep, RowsStep
<1>3. CASE /\ ~(fresh /\ run.task.source = "browser" /\ sessionId = None)
           /\ ~(fresh /\ Visible(i) /\ run.task.source \in Interactive)
  BY <1>3 DEF Interrupt, viewVars, storeVars, ViewStep, RowsStep
<1> QED  BY <1>1, <1>2, <1>3

LEMMA RunSteps ==
    ASSUME ViewKnown, LanesInv, SerialInv, NEW i \in 1..Len(lanes), RunStep(i)
    PROVE  ViewStep /\ RowsStep /\ unsettledIds \subseteq unsettledIds' /\ UNCHANGED accepted
<1>1. CASE SessionInitialized(i)
  BY <1>1, InitializedSteps DEF SessionInitialized
<1>2. CASE Done(i)
  BY <1>2, DoneSteps DEF Done
<1>3. CASE RunnerReturns(i)
  BY <1>3, InterruptSteps DEF RunnerReturns, Running, Active
<1>4. CASE Resolve(i) \/ ErrorAfterDone(i) \/ Settled(i)
  <2>1. UNCHANGED <<viewVars, rows, unsettledIds, accepted>>
    BY <1>4 DEF Resolve, ErrorAfterDone, Settled, sessionVars, storeVars
  <2> QED  BY <2>1 DEF viewVars, ViewStep, RowsStep
<1> QED  BY <1>1, <1>2, <1>3, <1>4 DEF RunStep

(***************************************************************************)
(* A task is put into a lane.                                              *)
(***************************************************************************)
LEMMA LaneForFirst ==
    ASSUME lanes \in Seq(LaneRecords), NEW c, NEW j \in DOMAIN lanes, Finds(c, lanes[j])
    PROVE  LaneFor(c) \in DOMAIN lanes /\ LaneFor(c) <= j
<1> DEFINE T == {i \in DOMAIN lanes : Finds(c, lanes[i])}
<1>1. T \in SUBSET Nat /\ T # {} /\ j \in T
  BY LenProperties
<1>2. \E i \in T : \A k \in T : ~(k < i)
  <2> HIDE DEF T
  <2> QED  BY <1>1, LeastExists
<1>3. PICK i \in T : \A k \in T : ~(k < i)
  BY <1>2
<1>4. Finds(c, lanes[i]) /\ \A k \in 1..(i - 1) : ~Finds(c, lanes[k])
  BY <1>3, LenProperties
<1>5. /\ LaneFor(c) \in DOMAIN lanes /\ Finds(c, lanes[LaneFor(c)])
      /\ \A k \in 1..(LaneFor(c) - 1) : ~Finds(c, lanes[k])
  BY <1>3, <1>4 DEF LaneFor
<1>6. LaneFor(c) \in Nat /\ j \in Nat /\ j >= 1
  BY <1>5, LenProperties
<1> QED  BY <1>5, <1>6

(* The lane as it was, or as it would have been, and as it is.             *)
Takes(lane, new, task) ==
    /\ new.key = lane.key /\ new.resolved = lane.resolved /\ new.run = lane.run
    /\ new.queue = Append(lane.queue, task)
    /\ new.stage = IF lane.stage = "idle" THEN "start" ELSE lane.stage

LEMMA EnqueueShape ==
    ASSUME ViewKnown, LanesInv, accepted \in Nat, NEW source \in Sources, Accept(source)
    PROVE  LET i == LaneFor(Context)
           IN  \E lane, new \in LaneRecords :
                 /\ Takes(lane, new, Task(source))
                 /\ \/ /\ i \in 1..Len(lanes) /\ lane = lanes[i] /\ Finds(Context, lane)
                       /\ Len(lanes') = Len(lanes)
                       /\ \A j \in 1..Len(lanes) : lanes'[j] = IF j = i THEN new ELSE lanes[j]
                    \/ /\ i = Len(lanes) + 1 /\ lane = NewLane(Context)
                       /\ \A j \in 1..Len(lanes) : ~Finds(Context, lanes[j])
                       /\ Len(lanes') = Len(lanes) + 1
                       /\ \A j \in 1..Len(lanes) : lanes'[j] = lanes[j]
                       /\ lanes'[i] = new
<1> DEFINE i == LaneFor(Context)
           lane == IF i \in DOMAIN lanes THEN lanes[i] ELSE NewLane(Context)
           new == [lane EXCEPT !.queue = Append(@, Task(source)),
                               !.resolved = IF Context.sid = None THEN @ ELSE Context.sid,
                               !.stage = IF @ = "idle" THEN "start" ELSE @]
<1>1. /\ lanes \in Seq(LaneRecords) /\ DOMAIN lanes = 1..Len(lanes) /\ Len(lanes) \in Nat
      /\ \A j \in 1..Len(lanes) : lanes[j] \in LaneRecords /\ LaneFits(lanes[j], lastId)
  BY LaneTypes DEF LanesInv
<1>2. lane \in LaneRecords /\ new \in LaneRecords
  BY EnqueueLane
<1>3. lanes' = IF i \in DOMAIN lanes THEN [lanes EXCEPT ![i] = new] ELSE Append(lanes, new)
  BY DEF Accept, Enqueue
<1>4. \/ i \in 1..Len(lanes) /\ lane = lanes[i] /\ Finds(Context, lane)
      \/ /\ i = Len(lanes) + 1 /\ lane = NewLane(Context) /\ i \notin DOMAIN lanes
         /\ \A j \in 1..Len(lanes) : ~Finds(Context, lanes[j])
  BY <1>1, LaneForFinds
<1>5. Context.sid # None => lane.resolved = Context.sid
  BY <1>1, <1>2, <1>4 DEF Finds, Key, LaneFits, NewLane
<1>6. Takes(lane, new, Task(source))
  <2> HIDE DEF lane
  <2> QED  BY <1>2, <1>5 DEF Takes, LaneRecords
<1> HIDE DEF i, new, lane
<1>7. CASE i \in 1..Len(lanes) /\ lane = lanes[i] /\ Finds(Context, lane)
  <2>1. /\ Len(lanes') = Len(lanes)
        /\ \A j \in 1..Len(lanes) : lanes'[j] = IF j = i THEN new ELSE lanes[j]
    BY <1>1, <1>2, <1>3, <1>7, ExceptSeq
  <2> QED  BY <1>2, <1>6, <1>7, <2>1 DEF i
<1>8. CASE /\ i = Len(lanes) + 1 /\ lane = NewLane(Context) /\ i \notin DOMAIN lanes
           /\ \A j \in 1..Len(lanes) : ~Finds(Context, lanes[j])
  <2>1. /\ Len(lanes') = Len(lanes) + 1
        /\ \A j \in 1..Len(lanes) : lanes'[j] = lanes[j]
        /\ lanes'[i] = new
    BY <1>1, <1>2, <1>3, <1>8, AppendProperties
  <2> QED  BY <1>2, <1>6, <1>8, <2>1 DEF i
<1> QED  BY <1>4, <1>7, <1>8

LEMMA TakesFacts ==
    ASSUME NEW lane \in LaneRecords, NEW new, NEW task, Takes(lane, new, task)
    PROVE  /\ TasksOf(new) = TasksOf(lane) \cup {task} /\ Tidy(new)
           /\ \A k \in 1..Len(new.queue) :
                 new.queue[k] = task \/ \E m \in 1..Len(lane.queue) : new.queue[k] = lane.queue[m]
           /\ \A o : Given(new, o) <=>
                 \/ Given(lane, o)
                 \/ lane.key.sid = None /\ o # None /\ task.ctx.sid = None /\ task.ctx.oc = o
           /\ \A o : Known(lane, o) => Known(new, o)
           /\ \A n \in Nat : InOrder(lane, n) /\ task.n = n + 1 => InOrder(new, n + 1)
<1>1. /\ Len(lane.queue) \in Nat /\ Len(new.queue) = Len(lane.queue) + 1
      /\ \A k \in 1..Len(lane.queue) : new.queue[k] = lane.queue[k] /\ lane.queue[k] \in Tasks
      /\ new.queue[Len(lane.queue) + 1] = task
  BY QueueTyped, AppendProperties DEF Takes
<1>2. /\ \A k \in 1..Len(new.queue) : k \in 1..Len(lane.queue) \/ k = Len(lane.queue) + 1
      /\ \A k \in 1..Len(lane.queue) : k \in 1..Len(new.queue)
      /\ Len(lane.queue) + 1 \in 1..Len(new.queue)
  BY <1>1
<1>3. TasksOf(new) = TasksOf(lane) \cup {task}
  BY <1>1, <1>2 DEF TasksOf, Takes, ActiveStages
<1>4. ASSUME NEW n \in Nat, InOrder(lane, n), task.n = n + 1
      PROVE  InOrder(new, n + 1)
  <2>1. /\ lane.run.task.n \in Nat
        /\ \A k \in 1..Len(lane.queue) : lane.queue[k].n \in Nat /\ lane.queue[k] \in TasksOf(lane)
        /\ lane.stage \in ActiveStages => lane.run.task \in TasksOf(lane)
    BY <1>1 DEF LaneRecords, RunRecords, Tasks, TasksOf
  <2>2. new.stage \in ActiveStages => lane.stage \in ActiveStages /\ new.run = lane.run
    BY DEF Takes, ActiveStages
  <2>3. \A t \in TasksOf(new) : t.n <= n + 1
    <3>1. \A t \in TasksOf(lane) : t.n \in Nat /\ t.n <= n
      BY <1>4, <2>1 DEF InOrder, TasksOf
    <3> QED  BY <1>3, <1>4, <3>1
  <2>4. ASSUME NEW k \in 1..Len(new.queue)
        PROVE  /\ new.stage \in ActiveStages => new.run.task.n < new.queue[k].n
               /\ \A m \in 1..Len(new.queue) : k < m => new.queue[k].n < new.queue[m].n
    <3>1. CASE k \in 1..Len(lane.queue)
      <4>1. /\ new.queue[k] = lane.queue[k] /\ lane.queue[k].n <= n
            /\ lane.stage \in ActiveStages => lane.run.task.n < lane.queue[k].n
        BY <1>1, <1>4, <2>1, <3>1 DEF InOrder
      <4>2. ASSUME NEW m \in 1..Len(new.queue), k < m PROVE new.queue[k].n < new.queue[m].n
        <5>1. CASE m \in 1..Len(lane.queue)
          BY <1>1, <1>4, <3>1, <4>2, <5>1 DEF InOrder
        <5>2. CASE m = Len(lane.queue) + 1
          BY <1>1, <1>4, <2>1, <3>1, <4>1, <5>2
        <5> QED  BY <1>2, <5>1, <5>2
      <4> QED  BY <2>2, <4>1, <4>2
    <3>2. CASE k = Len(lane.queue) + 1
      <4>1. lane.stage \in ActiveStages => lane.run.task.n <= n
        BY <1>4, <2>1 DEF InOrder
      <4>2. new.queue[k].n = n + 1 /\ \A m \in 1..Len(new.queue) : ~(k < m)
        BY <1>1, <1>4, <3>2
      <4> QED  BY <1>4, <2>1, <2>2, <4>1, <4>2
    <3> QED  BY <1>2, <3>1, <3>2
  <2> QED  BY <2>3, <2>4 DEF InOrder
<1>5. \A o : Known(lane, o) => Known(new, o)
  BY DEF Known, Takes
<1>6. \A o : Given(new, o) <=>
          \/ Given(lane, o)
          \/ lane.key.sid = None /\ o # None /\ task.ctx.sid = None /\ task.ctx.oc = o
  BY <1>3 DEF Given, Takes
<1>7. /\ Tidy(new)
      /\ \A k \in 1..Len(new.queue) :
            new.queue[k] = task \/ \E m \in 1..Len(lane.queue) : new.queue[k] = lane.queue[m]
  BY <1>1, <1>2 DEF Tidy, Takes
<1> QED  BY <1>3, <1>4, <1>5, <1>6, <1>7

LEMMA GivenIds ==
    ASSUME ViewKnown, LanesInv, NEW i \in 1..Len(lanes)
    PROVE  /\ lanes[i].key \in [provider : Providers, sid : Nat, gen : Nat]
           /\ lanes[i].key.sid \in 0..lastId
           /\ \A o : Given(lanes[i], o) => o \in 0..lastId /\ o # None
<1>1. lanes[i] \in LaneRecords /\ LaneFits(lanes[i], lastId) /\ lastId \in Nat
  BY LaneTypes, ViewFacts DEF LanesInv
<1>2. \A task \in TasksOf(lanes[i]) : task.ctx.oc \in 0..lastId
  BY <1>1 DEF LaneFits, RunFits, TaskFits, TasksOf, ActiveStages
<1> QED  BY <1>1, <1>2 DEF LaneFits, LaneRecords, Given, None

(* Giving the visible conversation its id.                                 *)
LEMMA Captured ==
    ASSUME ViewKnown, LanesInv, SerialInv, CaptureContext
    PROVE  /\ UNCHANGED <<sessionId, generation>>
           /\ ocSessionId' = CapturedOc /\ CapturedOc # None
           /\ \A i \in 1..Len(lanes) : \A o : Given(lanes[i], o) =>
                 /\ lanes[i].key.gen <= generation
                 /\ lanes[i].key.gen = generation => CapturedOc = o
                 /\ sessionId = None /\ CapturedOc = o => lanes[i].key.gen = generation
           /\ sessionId # None => CapturedOc = sessionId
           /\ sessionId = None =>
                 /\ \A j \in 1..Len(lanes) : lanes[j].key.sid # CapturedOc
                 /\ \A p : <<p, CapturedOc>> \in rows /\ CapturedOc \notin unsettledIds =>
                       \E i \in 1..Len(lanes) :
                          /\ lanes[i].key = [provider |-> p, sid |-> None, gen |-> generation]
                          /\ lanes[i].resolved = CapturedOc
<1> USE DEF SerialInv
<1>1. UNCHANGED <<sessionId, generation>> /\ ocSessionId' = CapturedOc /\ lastId \in Nat
  BY ViewFacts DEF CaptureContext
<1>2. CASE ocSessionId # None
  BY <1>1, <1>2 DEF CapturedOc, GivenToView, ViewNamed, BlankIsNew
<1>3. CASE ocSessionId = None
  <2>1. CapturedOc = lastId + 1 /\ CapturedOc \notin 0..lastId /\ CapturedOc # None
    BY <1>1, <1>3 DEF CapturedOc, None
  <2>2. \A p : <<p, CapturedOc>> \notin rows
    <3>1. \A r \in rows : r[2] \in 0..lastId
      BY <1>1 DEF ViewKnown, IInv, ListedIdsWereGiven
    <3> QED  BY <2>1, <3>1
  <2>3. sessionId = None
    BY <1>3 DEF ViewNamed
  <2>4. ASSUME NEW i \in 1..Len(lanes), NEW o, Given(lanes[i], o)
        PROVE  /\ lanes[i].key.gen <= generation
               /\ lanes[i].key.gen # generation
               /\ CapturedOc # o
    BY <1>3, <2>1, <2>4, GivenIds DEF GivenToView
  <2> QED  BY <1>1, <2>1, <2>2, <2>3, <2>4, GivenIds
<1> QED  BY <1>2, <1>3

(* What has become of the lanes when a task was accepted.                  *)
LEMMA Accepted ==
    ASSUME ViewKnown, LanesInv, accepted \in Nat, NEW source \in Sources, Accept(source)
    PROVE  LET i == LaneFor(Context)
               task == Task(source)
               new == lanes'[i]
           IN  /\ i \in 1..Len(lanes') /\ Len(lanes') \in Nat
               /\ \A j \in 1..Len(lanes) : j \in 1..Len(lanes') /\ (j # i => lanes'[j] = lanes[j])
               /\ \A j \in 1..Len(lanes') : j # i => j \in 1..Len(lanes)
               /\ i \in 1..Len(lanes) =>
                    /\ Finds(Context, lanes[i])
                    /\ new.key = lanes[i].key /\ new.resolved = lanes[i].resolved
                    /\ new.run = lanes[i].run /\ (Active(i) => new.stage = lanes[i].stage)
                    /\ TasksOf(new) = TasksOf(lanes[i]) \cup {task}
                    /\ \A k \in 1..Len(new.queue) : new.queue[k] = task \/
                          \E m \in 1..Len(lanes[i].queue) : new.queue[k] = lanes[i].queue[m]
                    /\ \A o : Known(lanes[i], o) => Known(new, o)
               /\ i \notin 1..Len(lanes) =>
                    /\ \A j \in 1..Len(lanes) : j < i /\ ~Finds(Context, lanes[j])
                    /\ new.key = Key(Context) /\ TasksOf(new) = {task}
                    /\ \A k \in 1..Len(new.queue) : new.queue[k] = task
               /\ Tidy(new)
               /\ \A o : Given(new, o) =>
                    \/ i \in 1..Len(lanes) /\ Given(lanes[i], o)
                    \/ new.key.sid = None /\ task.ctx.sid = None /\ task.ctx.oc = o
               /\ (i \in 1..Len(lanes) => InOrder(lanes[i], accepted)) => InOrder(new, accepted + 1)
<1> DEFINE i == LaneFor(Context)
           task == Task(source)
<1>1. PICK lane \in LaneRecords, new \in LaneRecords :
                 /\ Takes(lane, new, task)
                 /\ \/ /\ i \in 1..Len(lanes) /\ lane = lanes[i] /\ Finds(Context, lane)
                       /\ Len(lanes') = Len(lanes)
                       /\ \A j \in 1..Len(lanes) : lanes'[j] = IF j = i THEN new ELSE lanes[j]
                    \/ /\ i = Len(lanes) + 1 /\ lane = NewLane(Context)
                       /\ \A j \in 1..Len(lanes) : ~Finds(Context, lanes[j])
                       /\ Len(lanes') = Len(lanes) + 1
                       /\ \A j \in 1..Len(lanes) : lanes'[j] = lanes[j]
                       /\ lanes'[i] = new
  BY EnqueueShape
<1>2. Len(lanes) \in Nat
  BY LaneTypes DEF LanesInv
<1>3. task.n = accepted + 1
  BY DEF Task
<1> HIDE DEF i, task
<1>4. /\ TasksOf(new) = TasksOf(lane) \cup {task}
      /\ \A o : Given(new, o) <=>
            \/ Given(lane, o)
            \/ lane.key.sid = None /\ o # None /\ task.ctx.sid = None /\ task.ctx.oc = o
      /\ \A o : Known(lane, o) => Known(new, o)
      /\ InOrder(lane, accepted) => InOrder(new, accepted + 1)
      /\ new.key = lane.key /\ new.resolved = lane.resolved /\ Tidy(new)
      /\ \A k \in 1..Len(new.queue) :
            new.queue[k] = task \/ \E m \in 1..Len(lane.queue) : new.queue[k] = lane.queue[m]
  <2>1. Takes(lane, new, task)
    BY <1>1
  <2>2. /\ TasksOf(new) = TasksOf(lane) \cup {task} /\ Tidy(new)
        /\ \A k \in 1..Len(new.queue) :
              new.queue[k] = task \/ \E m \in 1..Len(lane.queue) : new.queue[k] = lane.queue[m]
        /\ \A o : Given(new, o) <=>
              \/ Given(lane, o)
              \/ lane.key.sid = None /\ o # None /\ task.ctx.sid = None /\ task.ctx.oc = o
        /\ \A o : Known(lane, o) => Known(new, o)
        /\ \A n \in Nat : InOrder(lane, n) /\ task.n = n + 1 => InOrder(new, n + 1)
    BY <2>1, TakesFacts
  <2>3. new.key = lane.key /\ new.resolved = lane.resolved
    BY <2>1 DEF Takes
  <2> QED  BY <1>3, <2>2, <2>3
<1>5. CASE /\ i \in 1..Len(lanes) /\ lane = lanes[i] /\ Finds(Context, lane)
           /\ Len(lanes') = Len(lanes)
           /\ \A j \in 1..Len(lanes) : lanes'[j] = IF j = i THEN new ELSE lanes[j]
  <2>1. new.run = lane.run /\ (Active(i) => new.stage = lane.stage)
    BY <1>1, <1>5 DEF Takes, Active
  <2> QED  BY <1>2, <1>4, <1>5, <2>1 DEF i, task
<1>6. CASE /\ i = Len(lanes) + 1 /\ lane = NewLane(Context)
           /\ \A j \in 1..Len(lanes) : ~Finds(Context, lanes[j])
           /\ Len(lanes') = Len(lanes) + 1
           /\ \A j \in 1..Len(lanes) : lanes'[j] = lanes[j]
           /\ lanes'[i] = new
  <2>1. /\ i \in 1..Len(lanes') /\ i \notin 1..Len(lanes)
        /\ \A j \in 1..Len(lanes') : j # i => j \in 1..Len(lanes)
        /\ \A j \in 1..Len(lanes) : j < i /\ j \in 1..Len(lanes') /\ j # i
    BY <1>2, <1>6
  <2>2. lane.key = Key(Context) /\ lane.stage = "idle" /\ 1..Len(lane.queue) = {}
        /\ lane.resolved = Context.sid
    BY <1>6, EmptySeq DEF NewLane
  <2>3. TasksOf(lane) = {} /\ InOrder(lane, accepted) /\ (\A o : ~Given(lane, o))
    <3>1. TasksOf(lane) = {}
      BY <2>2 DEF TasksOf, ActiveStages
    <3> QED  BY <2>2, <3>1 DEF InOrder, Given, Key
  <2>4. \A k \in 1..Len(new.queue) : new.queue[k] = task
    BY <1>4, <2>2
  <2>5. TasksOf(new) = {task} /\ InOrder(new, accepted + 1) /\ new.key = Key(Context)
        /\ \A o : Given(new, o) => new.key.sid = None /\ task.ctx.sid = None /\ task.ctx.oc = o
    BY <1>4, <2>2, <2>3
  <2>6. Tidy(new) /\ lanes'[i] = new
    BY <1>4, <1>6
  <2> QED  BY <1>2, <1>6, <2>1, <2>4, <2>5, <2>6 DEF i, task
<1> QED  BY <1>1, <1>5, <1>6

(* While a rollover waits in a lane of its own no task is taken at all.    *)
LEMMA EarlyAlone ==
    ASSUME LanesInv, SerialInv, FlagsInv, ~shuttingDown, Quiet \/ ~rolloverQueued,
           NEW i \in 1..Len(lanes), NEW j \in 1..Len(lanes),
           Given(lanes[i], lanes[j].key.sid), lanes[i].key.provider = lanes[j].key.provider,
           lanes[j].key.sid \notin unsettledIds
    PROVE  1..Len(lanes[j].queue) = {}
<1> SUFFICES ASSUME NEW k \in 1..Len(lanes[j].queue) PROVE FALSE
  OBVIOUS
<1>1. /\ lanes[j] \in LaneRecords /\ Len(lanes) \in Nat /\ DOMAIN lanes = 1..Len(lanes)
      /\ Len(lanes[j].queue) \in Nat
  BY LaneTypes, QueueTyped DEF LanesInv
<1>2. \A task \in TasksOf(lanes[j]) : task.source = "rollover"
  <2>1. LaneSerial(lanes[j], accepted) /\ Behind(lanes[i], lanes[j])
    BY DEF SerialInv, LanesSerial, LanesApart
  <2> QED  BY <2>1 DEF LaneSerial, Behind
<1>3. Waits("rollover", j, k) /\ k \in Nat /\ j \in Nat /\ k # 0
  <2>1. lanes[j].queue[k].source = "rollover"
    BY <1>2 DEF TasksOf
  <2> QED  BY <1>1, <2>1 DEF Waits, InLane
<1>4. rolloverQueued /\ Alone("rollover")
  BY <1>3 DEF FlagsInv, Some
<1>5. lanes[j].stage \notin ActiveStages
  <2>1. lanes[j].stage \in ActiveStages => Waits("rollover", j, 0)
    BY <1>1, <1>2 DEF Waits, InLane, TasksOf, ActiveStages
  <2> QED  BY <1>3, <1>4, <2>1 DEF Alone
<1>6. lanes[j].stage # "idle"
  <2>1. lanes[j].queue # <<>>
    BY <1>1, EmptySeq
  <2> QED  BY <2>1 DEF SerialInv, LanesSerial, LaneSerial, Tidy
<1> QED  BY <1>1, <1>4, <1>5, <1>6 DEF Quiet, LaneRecords, Stages, ActiveStages

(* What is put into a lane whose name it bears keeps the names together.   *)
LEMMA AcceptKeepsOrder ==
    ASSUME ViewKnown, LanesInv, SerialInv, accepted \in Nat, NEW source \in Sources,
           Accept(source), Quiet \/ source = "rollover"
    PROVE  /\ (LanesSerial /\ KeysDiffer)'
           /\ lanes'[LaneFor(Context)].key.provider = providerId
           /\ sessionId = None => lanes'[LaneFor(Context)].key = Key(Context)
<1> DEFINE i == LaneFor(Context)
           task == Task(source)
<1>1. /\ i \in 1..Len(lanes') /\ Len(lanes') \in Nat
      /\ \A j \in 1..Len(lanes) : j \in 1..Len(lanes') /\ (j # i => lanes'[j] = lanes[j])
      /\ \A j \in 1..Len(lanes') : j # i => j \in 1..Len(lanes)
      /\ i \in 1..Len(lanes) =>
           /\ Finds(Context, lanes[i])
           /\ lanes'[i].key = lanes[i].key
           /\ TasksOf(lanes'[i]) = TasksOf(lanes[i]) \cup {task}
      /\ i \notin 1..Len(lanes) =>
           /\ \A j \in 1..Len(lanes) : ~Finds(Context, lanes[j])
           /\ lanes'[i].key = Key(Context) /\ TasksOf(lanes'[i]) = {task}
      /\ Tidy(lanes'[i])
      /\ (i \in 1..Len(lanes) => InOrder(lanes[i], accepted)) => InOrder(lanes'[i], accepted + 1)
  BY Accepted
<1>2. /\ task.ctx = Context /\ Context.sid = sessionId /\ Context.oc = CapturedOc
      /\ Context.provider = providerId /\ Context.gen = generation
      /\ accepted' = accepted + 1 /\ (task.early => task.source = "rollover")
  BY DEF Task, Context, Accept, Quiet
<1>3. sessionId # None => CapturedOc = sessionId
  BY Captured DEF Accept
<1> HIDE DEF i, task
<1>4. \A j \in 1..Len(lanes) : LaneSerial(lanes[j], accepted)
  BY DEF SerialInv, LanesSerial
<1>5. /\ lanes'[i].key.provider = providerId
      /\ sessionId = None => lanes'[i].key = Key(Context)
  BY <1>1, <1>2 DEF Finds, Key
<1>6. LaneSerial(lanes'[i], accepted + 1)
  <2>1. TaskNamed(task, lanes'[i])
    BY <1>2, <1>3, <1>5 DEF TaskNamed, Key
  <2>2. i \in 1..Len(lanes) =>
           \A t \in TasksOf(lanes[i]) :
              TaskNamed(t, lanes'[i]) /\ (t.early => t.source = "rollover")
    BY <1>1, <1>4 DEF LaneSerial, TaskNamed
  <2>3. \A t \in TasksOf(lanes'[i]) :
           TaskNamed(t, lanes'[i]) /\ (t.early => t.source = "rollover")
    BY <1>1, <1>2, <2>1, <2>2
  <2>4. InOrder(lanes'[i], accepted + 1)
    BY <1>1, <1>4 DEF LaneSerial
  <2>5. lanes'[i].key.sid # None => lanes'[i].key.gen = 0
    BY <1>1, <1>4 DEF LaneSerial, Key
  <2> QED  BY <1>1, <2>3, <2>4, <2>5 DEF LaneSerial
<1>7. ASSUME NEW j \in 1..Len(lanes') PROVE LaneSerial(lanes'[j], accepted + 1)
  <2>1. CASE j # i
    <3>1. /\ LaneSerial(lanes[j], accepted) /\ lanes'[j] = lanes[j]
          /\ \A t \in TasksOf(lanes[j]) : t.n \in Nat
      <4>1. lanes[j] \in LaneRecords
        BY <1>1, <2>1, LaneTypes DEF LanesInv
      <4>2. \A t \in TasksOf(lanes[j]) : t.n \in Nat
        BY <4>1, QueueTyped DEF TasksOf, LaneRecords, RunRecords, Tasks
      <4> QED  BY <1>1, <1>4, <2>1, <4>2
    <3> QED  BY <3>1 DEF LaneSerial, InOrder
  <2> QED  BY <1>6, <2>1
<1>8. KeysDiffer'
  <2>1. \A j, k \in 1..Len(lanes) : lanes[j].key = lanes[k].key => j = k
    BY DEF SerialInv, KeysDiffer
  <2>2. CASE i \in 1..Len(lanes)
    BY <1>1, <2>1, <2>2 DEF KeysDiffer
  <2>3. CASE i \notin 1..Len(lanes)
    <3>1. \A j \in 1..Len(lanes) : lanes[j].key # Key(Context)
      BY <1>1, <2>3 DEF Finds
    <3> QED  BY <1>1, <2>1, <2>3, <3>1 DEF KeysDiffer
  <2> QED  BY <2>2, <2>3
<1> QED  BY <1>2, <1>5, <1>7, <1>8 DEF LanesSerial, i

LEMMA AcceptBlankKeepsSerial ==
    ASSUME ViewKnown, LanesInv, SerialInv, accepted \in Nat, NEW source \in Sources,
           Accept(source), FlagsInv, Quiet \/ (source = "rollover" /\ ~rolloverQueued),
           sessionId = None
    PROVE  SerialInv'
<1> DEFINE i == LaneFor(Context)
           task == Task(source)
           o1 == CapturedOc
<1>1. /\ i \in 1..Len(lanes')
      /\ \A j \in 1..Len(lanes) : j \in 1..Len(lanes') /\ (j # i => lanes'[j] = lanes[j])
      /\ \A j \in 1..Len(lanes') : j # i => j \in 1..Len(lanes)
      /\ i \in 1..Len(lanes) =>
           /\ lanes'[i].key = lanes[i].key /\ lanes'[i].resolved = lanes[i].resolved
           /\ TasksOf(lanes'[i]) = TasksOf(lanes[i]) \cup {task}
           /\ \A o : Known(lanes[i], o) => Known(lanes'[i], o)
      /\ \A o : Given(lanes'[i], o) =>
           \/ i \in 1..Len(lanes) /\ Given(lanes[i], o)
           \/ task.ctx.oc = o
  BY Accepted
<1>2. task.ctx.oc = o1 /\ UNCHANGED <<rows, unsettledIds>>
  BY DEF Task, Context, Accept, storeVars
<1>3. /\ UNCHANGED <<sessionId, generation>> /\ ocSessionId' = o1 /\ o1 # None
      /\ \A j \in 1..Len(lanes) : \A o : Given(lanes[j], o) =>
            /\ lanes[j].key.gen <= generation
            /\ lanes[j].key.gen = generation <=> o1 = o
      /\ \A j \in 1..Len(lanes) : lanes[j].key.sid # o1
      /\ \A p : <<p, o1>> \in rows /\ o1 \notin unsettledIds =>
            \E j \in 1..Len(lanes) :
               /\ lanes[j].key = [provider |-> p, sid |-> None, gen |-> generation]
               /\ lanes[j].resolved = o1
  BY Captured DEF Accept
<1>4. /\ (LanesSerial /\ KeysDiffer)'
      /\ lanes'[i].key = [provider |-> providerId, sid |-> None, gen |-> generation]
  BY AcceptKeepsOrder DEF Key, Context
<1>5. generation \in Nat
  BY ViewFacts
<1> HIDE DEF i, task, o1
<1>6. \A j \in 1..Len(lanes') : \A o : Given(lanes'[j], o) =>
          /\ \/ j \in 1..Len(lanes) /\ Given(lanes[j], o) /\ lanes'[j].key = lanes[j].key
             \/ j = i /\ o = o1
          /\ lanes'[j].key.gen <= generation
          /\ lanes'[j].key.gen = generation <=> o1 = o
  <2> SUFFICES ASSUME NEW j \in 1..Len(lanes'), NEW o, Given(lanes'[j], o)
               PROVE  /\ \/ j \in 1..Len(lanes) /\ Given(lanes[j], o) /\ lanes'[j].key = lanes[j].key
                         \/ j = i /\ o = o1
                      /\ lanes'[j].key.gen <= generation
                      /\ lanes'[j].key.gen = generation <=> o1 = o
    OBVIOUS
  <2>1. \/ j \in 1..Len(lanes) /\ Given(lanes[j], o) /\ lanes'[j].key = lanes[j].key
        \/ j = i /\ o = o1
    BY <1>1, <1>2
  <2>2. CASE j \in 1..Len(lanes) /\ Given(lanes[j], o) /\ lanes'[j].key = lanes[j].key
    BY <1>3, <2>2
  <2>3. CASE j = i /\ o = o1
    BY <1>4, <1>5, <2>3
  <2> QED  BY <2>1, <2>2, <2>3
<1>7. GivenOnce'
  <2> SUFFICES ASSUME NEW j \in 1..Len(lanes'), NEW k \in 1..Len(lanes'), NEW o, NEW q,
                      Given(lanes'[j], o), Given(lanes'[k], q)
               PROVE  lanes'[j].key.gen = lanes'[k].key.gen <=> o = q
    BY DEF GivenOnce
  <2>1. CASE /\ j \in 1..Len(lanes) /\ Given(lanes[j], o) /\ lanes'[j].key = lanes[j].key
             /\ k \in 1..Len(lanes) /\ Given(lanes[k], q) /\ lanes'[k].key = lanes[k].key
    BY <2>1 DEF SerialInv, GivenOnce
  <2>2. CASE (j = i /\ o = o1) \/ (k = i /\ q = o1)
    BY <1>4, <1>6, <2>2
  <2> QED  BY <1>6, <2>1, <2>2
<1>8. GivenToView' /\ ViewNamed'
  <2>1. UNCHANGED <<sessionId, generation>> /\ ocSessionId' = o1
    BY <1>3
  <2>2. GivenToView'
    BY <1>6, <2>1 DEF GivenToView
  <2> QED  BY <2>1, <2>2 DEF ViewNamed
<1>9. \A j \in 1..Len(lanes) : /\ lanes'[j].key = lanes[j].key
                               /\ lanes'[j].resolved = lanes[j].resolved
                               /\ \A o : Known(lanes[j], o) => Known(lanes'[j], o)
  BY <1>1
<1>10. BlankIsNew'
  <2>1. \A j \in 1..Len(lanes') : lanes'[j].key.sid # o1
    BY <1>1, <1>3, <1>4, <1>9
  <2>2. ASSUME NEW p, <<p, o1>> \in rows, o1 \notin unsettledIds
        PROVE  \E j \in 1..Len(lanes') :
                  /\ lanes'[j].key = [provider |-> p, sid |-> None, gen |-> generation]
                  /\ lanes'[j].resolved = o1
    BY <1>1, <1>3, <1>9, <2>2
  <2> QED  BY <1>2, <1>3, <2>1, <2>2 DEF BlankIsNew
<1>11. StoredAreKnown'
  <2> SUFFICES ASSUME NEW j \in 1..Len(lanes'), NEW o, Given(lanes'[j], o),
                      <<lanes'[j].key.provider, o>> \in rows, o \notin unsettledIds
               PROVE  Known(lanes'[j], o)
    BY <1>2 DEF StoredAreKnown
  <2>1. CASE j \in 1..Len(lanes) /\ Given(lanes[j], o) /\ lanes'[j].key = lanes[j].key
    BY <1>9, <2>1 DEF SerialInv, StoredAreKnown
  <2>2. CASE j = i /\ o = o1
    <3>1. PICK k \in 1..Len(lanes) :
               /\ lanes[k].key = [provider |-> providerId, sid |-> None, gen |-> generation]
               /\ lanes[k].resolved = o1
      BY <1>3, <1>4, <2>2
    <3>2. k = i
      BY <1>1, <1>4, <1>9, <3>1 DEF KeysDiffer
    <3> QED  BY <1>9, <2>2, <3>1, <3>2 DEF Known
  <2> QED  BY <1>6, <2>1, <2>2
<1>12. LanesApart'
  <2> SUFFICES ASSUME NEW a \in 1..Len(lanes'), NEW b \in 1..Len(lanes'),
                      Given(lanes'[a], lanes'[b].key.sid),
                      lanes'[a].key.provider = lanes'[b].key.provider,
                      lanes'[b].key.sid \notin unsettledIds
               PROVE  a < b /\ Behind(lanes'[a], lanes'[b])
    BY <1>2 DEF LanesApart
  <2>1. b # i
    BY <1>4 DEF Given
  <2>2. b \in 1..Len(lanes) /\ lanes'[b] = lanes[b]
    BY <1>1, <2>1
  <2>3. a \in 1..Len(lanes) /\ Given(lanes[a], lanes[b].key.sid) /\ lanes'[a].key = lanes[a].key
    BY <1>3, <1>6, <2>2
  <2>4. a < b /\ Behind(lanes[a], lanes[b])
    BY <1>9, <2>2, <2>3 DEF SerialInv, LanesApart
  <2>5. CASE a # i
    BY <1>1, <2>2, <2>4, <2>5
  <2>6. CASE a = i
    <3>1. 1..Len(lanes[b].queue) = {}
      BY <1>2, <1>9, <2>2, <2>3, EarlyAlone DEF Accept
    <3> QED  BY <1>9, <2>2, <2>3, <2>4, <3>1 DEF Behind
  <2> QED  BY <2>5, <2>6
<1> QED  BY <1>4, <1>7, <1>8, <1>10, <1>11, <1>12 DEF SerialInv

LEMMA AcceptSessionKeepsSerial ==
    ASSUME ViewKnown, LanesInv, SerialInv, accepted \in Nat, NEW source \in Sources,
           Accept(source), FlagsInv, Quiet \/ (source = "rollover" /\ ~rolloverQueued),
           sessionId # None
    PROVE  SerialInv'
<1> DEFINE i == LaneFor(Context)
           task == Task(source)
<1>1. /\ i \in 1..Len(lanes')
      /\ \A j \in 1..Len(lanes) : j \in 1..Len(lanes') /\ (j # i => lanes'[j] = lanes[j])
      /\ \A j \in 1..Len(lanes') : j # i => j \in 1..Len(lanes)
      /\ i \in 1..Len(lanes) =>
           /\ Finds(Context, lanes[i])
           /\ lanes'[i].key = lanes[i].key
           /\ TasksOf(lanes'[i]) = TasksOf(lanes[i]) \cup {task}
           /\ \A k \in 1..Len(lanes'[i].queue) : lanes'[i].queue[k] = task \/
                 \E m \in 1..Len(lanes[i].queue) : lanes'[i].queue[k] = lanes[i].queue[m]
           /\ \A o : Known(lanes[i], o) => Known(lanes'[i], o)
      /\ i \notin 1..Len(lanes) =>
           /\ \A j \in 1..Len(lanes) : j < i /\ ~Finds(Context, lanes[j])
           /\ lanes'[i].key = Key(Context) /\ TasksOf(lanes'[i]) = {task}
           /\ \A k \in 1..Len(lanes'[i].queue) : lanes'[i].queue[k] = task
      /\ \A o : Given(lanes'[i], o) =>
           \/ i \in 1..Len(lanes) /\ Given(lanes[i], o)
           \/ task.ctx.sid = None
  BY Accepted
<1>2. /\ Context.sid = sessionId /\ Context.provider = providerId /\ task.ctx.sid = sessionId
      /\ UNCHANGED <<rows, unsettledIds>>
      /\ task.n = accepted + 1
      /\ task.early <=> \E j \in DOMAIN lanes : lanes[j].stage = "reported"
  BY DEF Task, Context, Accept, storeVars
<1>3. /\ UNCHANGED <<sessionId, generation>> /\ ocSessionId' = sessionId
      /\ \A j \in 1..Len(lanes) : \A o : Given(lanes[j], o) =>
            /\ lanes[j].key.gen <= generation
            /\ lanes[j].key.gen = generation => sessionId = o
  BY Captured DEF Accept
<1>4. (LanesSerial /\ KeysDiffer)' /\ lanes'[i].key.provider = providerId
  BY AcceptKeepsOrder
<1>5. DOMAIN lanes = 1..Len(lanes) /\ lanes \in Seq(LaneRecords)
  BY LaneTypes DEF LanesInv
<1>6. \A j \in DOMAIN lanes : Finds(Context, lanes[j]) => i <= j
  BY <1>5, LaneForFirst
<1> HIDE DEF i, task
<1>7. \A j \in 1..Len(lanes) : lanes'[j].key = lanes[j].key
                               /\ \A o : Known(lanes[j], o) => Known(lanes'[j], o)
  BY <1>1
<1>8. \A j \in 1..Len(lanes') : \A o : Given(lanes'[j], o) =>
          j \in 1..Len(lanes) /\ Given(lanes[j], o)
  BY <1>1, <1>2
<1>9. GivenOnce' /\ GivenToView' /\ ViewNamed' /\ BlankIsNew' /\ StoredAreKnown'
  <2>1. GivenOnce'
    <3> SUFFICES ASSUME NEW j \in 1..Len(lanes'), NEW k \in 1..Len(lanes'), NEW o, NEW q,
                        Given(lanes'[j], o), Given(lanes'[k], q)
                 PROVE  lanes'[j].key.gen = lanes'[k].key.gen <=> o = q
      BY DEF GivenOnce
    <3>1. /\ j \in 1..Len(lanes) /\ Given(lanes[j], o)
          /\ k \in 1..Len(lanes) /\ Given(lanes[k], q)
      BY <1>8
    <3>2. lanes[j].key.gen = lanes[k].key.gen <=> o = q
      BY <3>1 DEF SerialInv, GivenOnce
    <3> QED  BY <1>7, <3>1, <3>2
  <2>2. GivenToView' /\ ViewNamed' /\ BlankIsNew'
    BY <1>3, <1>7, <1>8 DEF GivenToView, ViewNamed, BlankIsNew
  <2>3. StoredAreKnown'
    BY <1>2, <1>7, <1>8 DEF SerialInv, StoredAreKnown
  <2> QED  BY <2>1, <2>2, <2>3
<1>10. LanesApart'
  <2> SUFFICES ASSUME NEW a \in 1..Len(lanes'), NEW b \in 1..Len(lanes'),
                      Given(lanes'[a], lanes'[b].key.sid),
                      lanes'[a].key.provider = lanes'[b].key.provider,
                      lanes'[b].key.sid \notin unsettledIds
               PROVE  a < b /\ Behind(lanes'[a], lanes'[b])
    BY <1>2 DEF LanesApart
  <2> DEFINE s == lanes'[b].key.sid
  <2>1. /\ a \in 1..Len(lanes) /\ Given(lanes[a], s) /\ s # None
        /\ lanes[a].key.provider = lanes'[b].key.provider
    BY <1>7, <1>8 DEF Given
  <2>2. CASE b # i
    <3>1. b \in 1..Len(lanes) /\ lanes'[b] = lanes[b]
      BY <1>1, <2>2
    <3>2. a < b /\ Behind(lanes[a], lanes[b])
      BY <1>7, <2>1, <3>1 DEF SerialInv, LanesApart
    <3>3. CASE a # i
      BY <1>1, <2>1, <3>1, <3>2, <3>3
    <3>4. CASE a = i
      <4>1. 1..Len(lanes[b].queue) = {}
        BY <1>2, <1>7, <2>1, <3>1, EarlyAlone DEF Accept
      <4> QED  BY <1>7, <2>1, <3>1, <3>2, <4>1 DEF Behind
    <3> QED  BY <3>3, <3>4
  <2>3. ASSUME b = i, s = sessionId, a < i, Known(lanes[a], s)
        PROVE  task.early
    <3>1. ~Finds(Context, lanes[a])
      BY <1>1, <1>5, <1>6, <2>1, <2>3, LaneTypes
    <3>2. lanes[a].resolved # s
      BY <1>2, <1>4, <2>1, <2>3, <3>1 DEF Finds
    <3> QED  BY <1>2, <1>5, <2>1, <2>3, <3>2 DEF Known
  <2>a. \A t \in TasksOf(lanes[a]) : t.n < task.n
    <3>1. \A t \in TasksOf(lanes[a]) : t.n \in Nat /\ t.n <= accepted
      <4>1. lanes[a] \in LaneRecords /\ InOrder(lanes[a], accepted)
        BY <1>5, <2>1, LaneTypes DEF SerialInv, LanesSerial, LaneSerial
      <4> QED  BY <4>1, QueueTyped DEF TasksOf, LaneRecords, RunRecords, Tasks, InOrder
    <3> QED  BY <1>2, <3>1
  <2>4. CASE b = i /\ i \in 1..Len(lanes)
    <3>1. s = lanes[i].key.sid /\ lanes[i].key.provider = lanes[a].key.provider
      BY <1>1, <2>1, <2>4
    <3>2. a < i /\ Behind(lanes[a], lanes[i])
      BY <2>1, <2>4, <3>1 DEF SerialInv, LanesApart
    <3>3. s = sessionId
      <4>1. LaneFits(lanes[i], lastId)
        BY <2>4 DEF LanesInv
      <4> QED  BY <1>1, <1>2, <2>1, <2>4, <3>1, <4>1 DEF Finds, Key, LaneFits
    <3>4. task.early
      BY <2>3, <2>4, <3>1, <3>2, <3>3 DEF Behind
    <3>5. lanes'[a] = lanes[a] /\ a < b
      BY <1>1, <1>5, <2>1, <2>4, <3>2, LaneTypes
    <3> QED  BY <1>1, <2>a, <2>4, <3>1, <3>2, <3>4, <3>5 DEF Behind
  <2>5. CASE b = i /\ i \notin 1..Len(lanes)
    <3>1. s = sessionId /\ a < i
      BY <1>1, <1>2, <2>1, <2>5 DEF Key
    <3>2. <<providerId, sessionId>> \in rows
      BY DEF ViewKnown, IInv, StoreMirrorsView
    <3>3. Known(lanes[a], s)
      BY <1>2, <1>4, <2>1, <2>5, <3>1, <3>2 DEF SerialInv, StoredAreKnown
    <3>4. task.early
      BY <2>3, <2>5, <3>1, <3>3
    <3>5. lanes'[a] = lanes[a] /\ a < b
      BY <1>1, <1>5, <2>1, <2>5, <3>1, LaneTypes
    <3> QED  BY <1>1, <2>a, <2>5, <3>3, <3>4, <3>5 DEF Behind
  <2> QED  BY <2>2, <2>4, <2>5
<1> QED  BY <1>4, <1>9, <1>10 DEF SerialInv

LEMMA AcceptKeepsSerial ==
    ASSUME ViewKnown, LanesInv, SerialInv, accepted \in Nat, FlagsInv,
           \/ \E source \in Interactive : EnqueuePrompt(source)
           \/ EnqueueAgentPrompt
           \/ EnqueueHeartbeat
           \/ EnqueueRollover
    PROVE  SerialInv'
<1>1. PICK source \in Sources :
          Accept(source) /\ (Quiet \/ (source = "rollover" /\ ~rolloverQueued))
  BY DEF EnqueuePrompt, EnqueueAgentPrompt, EnqueueHeartbeat, EnqueueRollover,
         RolloverPossible, Sources
<1> QED  BY <1>1, AcceptBlankKeepsSerial, AcceptSessionKeepsSerial

(* What turns and commands make of the view and the store.                 *)
LEMMA OtherSteps ==
    ASSUME \/ \E i \in DOMAIN lanes : Turn(i)
           \/ Stop \/ ChangeView \/ Delete \/ BeginShutdown \/ UNCHANGED vars
    PROVE  ViewStep /\ RowsStep /\ UNCHANGED <<unsettledIds, accepted>>
<1>1. ASSUME UNCHANGED <<viewVars, rows>> PROVE ViewStep /\ RowsStep
  BY <1>1 DEF viewVars, ViewStep, RowsStep
<1>2. ASSUME ClearState, rows' \subseteq rows PROVE ViewStep /\ RowsStep
  BY <1>2 DEF ClearState, ViewStep, RowsStep
<1>3. CASE \E i \in DOMAIN lanes : Turn(i)
  <2>1. PICK i \in DOMAIN lanes : Turn(i)
    BY <1>3
  <2>2. UNCHANGED sessionVars \/ (ClearState /\ UNCHANGED rows)
    BY <2>1 DEF Turn, RunPrompt, RunHeartbeat, RunRollover, BeginRolloverAttempt,
                ClearActiveSession
  <2> QED  BY <1>1, <1>2, <2>1, <2>2 DEF Turn, sessionVars, storeVars
<1>4. CASE Stop \/ BeginShutdown \/ UNCHANGED vars
  BY <1>1, <1>4 DEF Stop, BeginShutdown, vars, sessionVars, storeVars
<1>5. CASE ChangeView
  <2>1. CASE NewConversation
    BY <1>2, <1>5, <2>1 DEF ChangeView, NewConversation, ClearActiveSession
  <2>2. CASE SwitchSession
    BY <1>5, <2>2 DEF ChangeView, SwitchSession, SwitchToResolvedSession, SwitchState,
                      ViewStep, RowsStep
  <2>3. CASE SelectModel
    BY <1>5, <2>3 DEF ChangeView, SelectModel, ModelSelect, ViewStep, RowsStep
  <2> QED  BY <1>5, <2>1, <2>2, <2>3 DEF ChangeView
<1>6. CASE Delete
  BY <1>1, <1>2, <1>6 DEF Delete, DeleteSession, DeleteResolvedSession, viewVars,
                          ViewStep, RowsStep
<1> QED  BY <1>3, <1>4, <1>5, <1>6

LEMMA NextSerial ==
    ASSUME CoordInv, SerialInv, [Next]_vars
    PROVE  SerialInv'
<1>1. /\ DOMAIN lanes = 1..Len(lanes) /\ lanes \in Seq(LaneRecords)
      /\ ViewKnown /\ LanesInv /\ accepted \in Nat /\ FlagsInv
      /\ lastId \in Nat /\ generation \in Nat
  BY LaneTypes, ViewFacts DEF CoordInv, LanesInv, FlagTypes, WaitInv
<1>2. CASE EnqueueAgentPrompt \/ EnqueueHeartbeat \/ EnqueueRollover
           \/ \E source \in Interactive : EnqueuePrompt(source)
  BY <1>1, <1>2, AcceptKeepsSerial
<1>3. ASSUME NEW i \in DOMAIN lanes, Turn(i) PROVE SerialInv'
  <2>1. NamesKept /\ ViewStep /\ RowsStep /\ UNCHANGED <<unsettledIds, accepted>>
    BY <1>1, <1>3, TurnKeepsNames, OtherSteps
  <2> QED  BY <1>1, <2>1, NamesKeptSerial
<1>4. ASSUME NEW i \in DOMAIN lanes, RunStep(i) PROVE SerialInv'
  <2>1. NamesKept /\ ViewStep /\ RowsStep /\ unsettledIds \subseteq unsettledIds'
        /\ UNCHANGED accepted
    BY <1>1, <1>4, RunKeepsNames, RunSteps
  <2> QED  BY <1>1, <2>1, NamesKeptSerial
<1>5. CASE Stop \/ ChangeView \/ Delete \/ BeginShutdown \/ UNCHANGED vars
  <2>1. NamesKept
    <3>1. ChangeView \/ UNCHANGED vars => UNCHANGED lanes
      BY DEF ChangeView, vars, laneVars
    <3>2. Stop \/ Delete => AbortVisible
      BY DEF Stop, Delete
    <3> QED  BY <1>1, <1>5, <3>1, <3>2, LesserSame, StopKeepsNames, ShutdownKeepsNames
  <2>2. ViewStep /\ RowsStep /\ UNCHANGED <<unsettledIds, accepted>>
    BY <1>5, OtherSteps
  <2> QED  BY <1>1, <2>1, <2>2, NamesKeptSerial
<1>6. CASE Crash
  <2>1. lanes' = <<>> /\ Len(lanes') = 0 /\ ocSessionId' = sessionId'
    BY <1>6, EmptySeq DEF Crash, RestartDaemon, Restart, Restore
  <2>2. 1..Len(lanes') = {}
    BY <2>1
  <2> QED  BY <2>1, <2>2 DEF SerialInv, LanesSerial, KeysDiffer, GivenOnce, GivenToView,
                             ViewNamed, BlankIsNew, StoredAreKnown, LanesApart
<1> QED  BY <1>2, <1>3, <1>4, <1>5, <1>6 DEF Next

LEMMA SpecSerialInv == Spec => [](CoordInv /\ SerialInv)
<1>1. Init => SerialInv
  <2> SUFFICES ASSUME Init PROVE SerialInv
    OBVIOUS
  <2>1. 1..Len(lanes) = {} /\ ocSessionId = None /\ sessionId = None
    BY EmptySeq DEF Init, SessionInit
  <2> QED  BY <2>1 DEF SerialInv, LanesSerial, KeysDiffer, GivenOnce, GivenToView,
                       ViewNamed, BlankIsNew, StoredAreKnown, LanesApart
<1> QED  BY <1>1, InitCoordInv, NextCoordInv, NextSerial, PTL DEF Spec

(* The conversation of a task is one its lane goes by.                     *)
LEMMA TaskConversation ==
    ASSUME LanesInv, SerialInv, lastId \in Nat,
           NEW i \in 1..Len(lanes), NEW task \in TasksOf(lanes[i])
    PROVE  \E s : /\ Conversation(task) = <<lanes[i].key.provider, s>> /\ s # None
                  /\ Given(lanes[i], s) \/ lanes[i].key.sid = s
<1>1. lanes[i] \in LaneRecords /\ LaneFits(lanes[i], lastId)
  BY LaneTypes DEF LanesInv
<1>2. TaskFits(task, lanes[i], lastId)
  BY <1>1 DEF LaneFits, RunFits, TasksOf, ActiveStages
<1>3. TaskNamed(task, lanes[i])
  BY DEF SerialInv, LanesSerial, LaneSerial
<1>4. CASE task.ctx.sid = None
  BY <1>2, <1>3, <1>4 DEF TaskFits, TaskNamed, Given, Conversation, None
<1>5. CASE task.ctx.sid # None
  BY <1>1, <1>2, <1>5 DEF TaskFits, LaneFits, Given, Conversation
<1> QED  BY <1>4, <1>5

(* Two lanes of one conversation: the first it began in, and one that only *)
(* an early rollover has come to.                                          *)
LEMMA LanesOfConversation ==
    ASSUME LanesInv, SerialInv, NEW i \in 1..Len(lanes), NEW j \in 1..Len(lanes), i # j,
           NEW s, s # None, s \notin unsettledIds,
           lanes[i].key.provider = lanes[j].key.provider,
           Given(lanes[i], s) \/ lanes[i].key.sid = s,
           Given(lanes[j], s) \/ lanes[j].key.sid = s
    PROVE  Behind(lanes[i], lanes[j]) \/ Behind(lanes[j], lanes[i])
<1>1. \A k \in 1..Len(lanes) :
          /\ lanes[k].key \in [provider : Providers, sid : Nat, gen : Nat]
          /\ lanes[k].key.sid # None => lanes[k].key.gen = 0
  BY LaneTypes DEF LanesInv, LaneRecords, SerialInv, LanesSerial, LaneSerial
<1>2. lanes[i].key # lanes[j].key
  BY DEF SerialInv, KeysDiffer
<1>3. CASE Given(lanes[i], s) /\ Given(lanes[j], s)
  <2>1. lanes[i].key.gen = lanes[j].key.gen /\ lanes[i].key.sid = lanes[j].key.sid
    BY <1>3 DEF SerialInv, GivenOnce, Given
  <2> QED  BY <1>1, <1>2, <2>1
<1>4. CASE lanes[i].key.sid = s /\ lanes[j].key.sid = s
  BY <1>1, <1>2, <1>4
<1>5. CASE Given(lanes[i], s) /\ lanes[j].key.sid = s
  BY <1>5 DEF SerialInv, LanesApart
<1>6. CASE lanes[i].key.sid = s /\ Given(lanes[j], s)
  BY <1>6 DEF SerialInv, LanesApart
<1> QED  BY <1>3, <1>4, <1>5, <1>6

(***************************************************************************)
(* Theorems                                                                *)
(***************************************************************************)
(* The lanes, the flags and the conversation keep their types.             *)
THEOREM LaneTypeCorrect == Spec => []LaneTypeOK
<1>1. CoordInv => LaneTypeOK
  BY DEF CoordInv, ViewKnown, IInv, LanesInv, FlagTypes, LaneTypeOK
<1> QED  BY <1>1, SpecCoordInv, PTL

(* However runs, commands, timers and restarts interleave, once            *)
(* beginShutdown() has been called every run has been told to stop and     *)
(* nothing waits in any lane.                                              *)
THEOREM ShutdownStopsRuns == Spec => []ShutdownIsFinal
  BY SpecCoordInv, PTL DEF CoordInv

(* rolloverQueued and pendingHeartbeat are up exactly while one rollover,  *)
(* or one heartbeat, waits or runs, and there is never a second one.       *)
THEOREM FlagsCountTasks == Spec => []FlagsAreExact
<1>1. ASSUME NEW source, lanes \in Seq(LaneRecords), Alone(source)
      PROVE  Cardinality(Pending(source)) = IF Some(source) THEN 1 ELSE 0
  <2>1. /\ \A i, k : <<i, k>> \in Pending(source) <=> Waits(source, i, k)
        /\ \A p \in Pending(source) : \E i, k : p = <<i, k>>
    BY <1>1, WaitsIsPending
  <2>2. \A i, k : Waits(source, i, k) => i \in Nat /\ k \in Nat
    BY <1>1, LaneTypes, QueueTyped DEF Waits, InLane
  <2>3. CASE Some(source)
    <3>1. PICK i \in Nat, k \in Nat : Waits(source, i, k)
      BY <2>3 DEF Some
    <3>2. ASSUME NEW p \in Pending(source) PROVE p = <<i, k>>
      BY <1>1, <2>1, <2>2, <3>1 DEF Alone
    <3>3. Pending(source) = {<<i, k>>}
      BY <2>1, <3>1, <3>2
    <3> QED  BY <2>3, <3>3, FS_Singleton
  <2>4. CASE ~Some(source)
    <3>1. Pending(source) = {}
      BY <2>1, <2>2, <2>4 DEF Some
    <3> QED  BY <2>4, <3>1, FS_EmptySet
  <2> QED  BY <2>3, <2>4
<1>2. CoordInv => FlagsAreExact
  BY <1>1 DEF CoordInv, LanesInv, WaitInv, FlagsInv, FlagsAreExact, FlagTypes
<1> QED  BY <1>2, SpecCoordInv, PTL

(* The coordinator and the dispatcher use the session service as its own   *)
(* specification allows: what is proved of SessionService holds with them. *)
THEOREM CoordinatorImplementsService == Spec => ImplementsSessionService
<1>1. Init => SessionInit
  BY DEF Init
<1> QED  BY <1>1, SpecCoordInv, NextCoordInv, PTL DEF Spec, SessionSpec, ImplementsSessionService

(* With the coordinator in charge, a daemon killed at any point comes back *)
(* to the conversation on screen.                                          *)
THEOREM StoreAgreesWithRuns == Spec => []StoreMirrorsView
  BY CoordinatorImplementsService, StoreAgrees, PTL DEF ImplementsSessionService

(* The events of a run that is not visible never change what is on screen, *)
(* other than the generation of a blank conversation.                      *)
THEOREM HiddenRunsAreSilent == Spec => HiddenRunsKeepView
<1> DEFINE P == \/ UNCHANGED <<providerId, sessionId, generation>>
                \/ \A i \in DOMAIN lanes : RunStep(i) =>
                     \/ Visible(i)
                     \/ /\ lanes[i].run.task.source = "browser" /\ lanes[i].run.aborted
                        /\ UNCHANGED <<providerId, sessionId>>
<1>1. [Next]_vars => P
  <2> SUFFICES ASSUME NEW i \in DOMAIN lanes, RunStep(i), ~Visible(i),
                      ~UNCHANGED <<providerId, sessionId, generation>>
               PROVE  /\ lanes[i].run.task.source = "browser" /\ lanes[i].run.aborted
                      /\ UNCHANGED <<providerId, sessionId>>
    OBVIOUS
  <2>1. SessionInitialized(i) \/ Resolve(i) \/ Done(i) \/ ErrorAfterDone(i) \/ Settled(i) =>
           UNCHANGED viewVars
    BY DEF SessionInitialized, Resolve, Done, ErrorAfterDone, Settled, sessionVars,
           RecordSessionInitialized, RecordBackgroundCompletion
  <2>2. RunnerReturns(i)
    BY <2>1 DEF RunStep, viewVars
  <2> QED  BY <2>2 DEF RunnerReturns, Interrupt, ClearState, viewVars
<1> QED  BY <1>1, PTL DEF Spec, HiddenRunsKeepView

(* While a prompt of a conversation runs no other run uses its session,    *)
(* and what waits for it came later: for any number of conversations,      *)
(* agents' prompts, timers, commands and restarts, with the exceptions     *)
(* that the property names.                                                *)
THEOREM RunsAreSerial == Spec => []ConversationsAreSerial
<1> SUFFICES ASSUME CoordInv, SerialInv PROVE ConversationsAreSerial
  BY SpecSerialInv, PTL
<1>1. /\ LanesInv /\ lastId \in Nat /\ DOMAIN lanes = 1..Len(lanes)
      /\ \A i \in 1..Len(lanes) : DOMAIN lanes[i].queue = 1..Len(lanes[i].queue)
  BY LaneTypes, QueueTyped, LenProperties, ViewFacts DEF CoordInv, LanesInv
<1> SUFFICES ASSUME NEW i \in Runs, NEW j \in DOMAIN lanes,
                    Conversation(lanes[i].run.task)[2] \notin unsettledIds,
                    ~lanes[i].run.task.early
             PROVE  /\ j \in Runs /\ j # i =>
                         \/ Conversation(lanes[j].run.task) # Conversation(lanes[i].run.task)
                         \/ lanes[j].run.task.early
                    /\ \A task \in QueuedIn(j) :
                         Conversation(task) = Conversation(lanes[i].run.task) =>
                            task.n > lanes[i].run.task.n
  BY DEF ConversationsAreSerial, OrderedConversation
<1> DEFINE mine == lanes[i].run.task
<1>2. /\ i \in 1..Len(lanes) /\ mine \in TasksOf(lanes[i]) /\ j \in 1..Len(lanes)
      /\ lanes[i].stage \in ActiveStages
      /\ j \in Runs => lanes[j].run.task \in TasksOf(lanes[j])
  BY <1>1 DEF Runs, Active, TasksOf, ActiveStages
<1>3. ASSUME NEW task \in TasksOf(lanes[j]), j # i, Conversation(task) = Conversation(mine)
      PROVE  Behind(lanes[i], lanes[j])
  <2>1. PICK s : /\ Conversation(mine) = <<lanes[i].key.provider, s>> /\ s # None
                 /\ Given(lanes[i], s) \/ lanes[i].key.sid = s
    BY <1>1, <1>2, TaskConversation
  <2>2. PICK q : /\ Conversation(task) = <<lanes[j].key.provider, q>>
                 /\ Given(lanes[j], q) \/ lanes[j].key.sid = q
    BY <1>1, <1>2, TaskConversation
  <2>3. q = s /\ lanes[i].key.provider = lanes[j].key.provider /\ s \notin unsettledIds
    BY <1>3, <2>1, <2>2
  <2>4. Behind(lanes[i], lanes[j]) \/ Behind(lanes[j], lanes[i])
    BY <1>1, <1>2, <1>3, <2>1, <2>2, <2>3, LanesOfConversation
  <2> QED  BY <1>2, <2>4 DEF Behind
<1>4. \A k \in 1..Len(lanes[j].queue) :
          /\ lanes[j].queue[k] \in TasksOf(lanes[j]) /\ lanes[j].queue[k].n \in Nat
          /\ mine.n \in Nat
  BY <1>1, <1>2, LaneTypes, QueueTyped DEF TasksOf, LanesInv, LaneRecords, RunRecords, Tasks
<1>5. \A k \in 1..Len(lanes[j].queue) :
          Conversation(lanes[j].queue[k]) = Conversation(mine) => mine.n < lanes[j].queue[k].n
  <2>1. CASE j # i
    BY <1>2, <1>3, <1>4, <2>1 DEF Behind
  <2>2. CASE j = i
    BY <1>2, <2>2 DEF SerialInv, LanesSerial, LaneSerial, InOrder
  <2> QED  BY <2>1, <2>2
<1> QED  BY <1>1, <1>2, <1>3, <1>4, <1>5 DEF Behind, QueuedIn

=============================================================================
