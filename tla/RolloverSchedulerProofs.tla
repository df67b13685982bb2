----------------------- MODULE RolloverSchedulerProofs -----------------------
(* Proofs about RolloverScheduler, on top of those about the coordinator.  *)
EXTENDS RolloverScheduler, ExecutionCoordinatorProofs

(***************************************************************************)
(* The scheduler only watches: whatever is true of the coordinator alone   *)
(* is true of the two together.                                            *)
(***************************************************************************)
LEMMA SchedulerSteps == [RolloverNext]_rolloverSystem => [Next]_vars
<1> SUFFICES ASSUME [RolloverNext]_rolloverSystem PROVE [Next]_vars
  OBVIOUS
<1>1. CASE Work
  BY <1>1 DEF Work, UserPrompt, OtherWork, LaneTurn, SessionReported, QuietEvent, RunOver,
              Next, RunStep
<1>2. CASE Intervention
  BY <1>2 DEF Intervention, Command, Shutdown, CrashAndStart, Next
<1>3. CASE Attempt
  BY <1>3 DEF Attempt, Next
<1>4. CASE TimerFires \/ IdleMinutesPass \/ UNCHANGED rolloverSystem
  BY <1>4 DEF TimerFires, IdleMinutesPass, rolloverSystem
<1> QED  BY <1>1, <1>2, <1>3, <1>4 DEF RolloverNext

LEMMA SchedulerCoord == RolloverSpec => Spec /\ [](CoordInv /\ SerialInv)
<1>1. RolloverInit => Init
  BY DEF RolloverInit
<1> QED  BY <1>1, SchedulerSteps, SpecSerialInv, PTL DEF RolloverSpec, Spec

SchedulerTypes == elapsed \in BOOLEAN /\ timer \in BOOLEAN /\ checking \in BOOLEAN

(***************************************************************************)
(* What is possible stays announced.  An attempt is about to be made, or   *)
(* the timer is set, whenever a rollover is possible: a step of which the  *)
(* scheduler is not told makes none possible.                              *)
(***************************************************************************)
Announced == RolloverPossible => timer \/ checking

LEMMA Noted ==
    ASSUME elapsed' \in BOOLEAN, NoteStateChanged
    PROVE  Announced'
  BY DEF NoteStateChanged, Announced, RolloverPossible

(* A visible run goes on as long as neither it nor the view changes.       *)
RunStays(i) == Active(i) /\ Visible(i) => (i \in DOMAIN lanes /\ Active(i) /\ Visible(i))'

LEMMA Silent ==
    ASSUME \A i \in DOMAIN lanes : RunStays(i), Announced,
           UNCHANGED <<sessionId, providerId, lastInteractive, lastHandled, shuttingDown,
                       rolloverQueued, timer, checking>>
    PROVE  Announced'
  BY DEF Announced, RolloverPossible, RolloverDue, HasVisibleRun, RunStays

LEMMA SameRunStays ==
    ASSUME NEW i \in DOMAIN lanes, i \in DOMAIN lanes',
           UNCHANGED <<sessionId, providerId, generation>>,
           lanes'[i].resolved = lanes[i].resolved,
           Active(i) => lanes'[i].run.task = lanes[i].run.task /\ Active(i)'
    PROVE  RunStays(i)
  BY DEF RunStays, Visible, MatchesVisible

LEMMA AcceptIsSilent ==
    ASSUME CoordInv, NEW source \in Sources, Accept(source)
    PROVE  \A i \in DOMAIN lanes : RunStays(i)
<1>1. /\ DOMAIN lanes = 1..Len(lanes) /\ ViewKnown /\ LanesInv /\ accepted \in Nat
      /\ UNCHANGED <<sessionId, providerId, generation>>
  BY LaneTypes DEF CoordInv, LanesInv, FlagTypes, Accept, CaptureContext
<1>2. LanesInv' /\ DOMAIN lanes' = 1..Len(lanes')
  BY <1>1, AcceptKeepsLanes, LaneTypes DEF LanesInv
<1>3. ASSUME NEW i \in DOMAIN lanes PROVE RunStays(i)
  <2>1. /\ i \in DOMAIN lanes' /\ lanes'[i].resolved = lanes[i].resolved
        /\ lanes'[i].run = lanes[i].run /\ (Active(i) => lanes'[i].stage = lanes[i].stage)
    BY <1>1, <1>2, Accepted
  <2> QED  BY <1>1, <2>1, SameRunStays DEF Active
<1> QED  BY <1>3

(* A step of one lane.                                                     *)
LEMMA LaneIsSilent ==
    ASSUME LanesInv, NEW i \in 1..Len(lanes), NEW new,
           lanes' = [lanes EXCEPT ![i] = new],
           UNCHANGED <<sessionId, providerId, generation>>,
           \/ ~(Active(i) /\ Visible(i))
           \/ /\ new.resolved = lanes[i].resolved /\ new.run.task = lanes[i].run.task
              /\ new.stage \in ActiveStages
    PROVE  \A j \in DOMAIN lanes : RunStays(j)
<1>1. /\ DOMAIN lanes = 1..Len(lanes) /\ DOMAIN lanes' = DOMAIN lanes
      /\ \A j \in 1..Len(lanes) : lanes'[j] = IF j = i THEN new ELSE lanes[j]
  BY LaneTypes DEF LanesInv
<1>2. ASSUME NEW j \in DOMAIN lanes, j # i PROVE RunStays(j)
  BY <1>1, <1>2, SameRunStays DEF Active
<1>3. CASE ~(Active(i) /\ Visible(i))
  BY <1>2, <1>3 DEF RunStays
<1>4. CASE /\ new.resolved = lanes[i].resolved /\ new.run.task = lanes[i].run.task
           /\ new.stage \in ActiveStages
  <2>1. RunStays(i)
    BY <1>1, <1>4, SameRunStays DEF Active, ActiveStages
  <2> QED  BY <1>2, <2>1
<1> QED  BY <1>3, <1>4

(* Stopping a run does not end it.                                         *)
LEMMA StopIsSilent ==
    ASSUME LanesInv, AbortVisible, UNCHANGED <<sessionId, providerId, generation>>
    PROVE  \A j \in DOMAIN lanes : RunStays(j)
<1>1. /\ DOMAIN lanes = 1..Len(lanes) /\ lanes \in Seq(LaneRecords)
      /\ lanes' \in Seq(LaneRecords) /\ Len(lanes') = Len(lanes)
  BY StopAborts, LaneTypes DEF LanesInv
<1>2. ASSUME NEW j \in DOMAIN lanes PROVE RunStays(j)
  <2>1. LaneKept(j) /\ lanes[j] \in LaneRecords
    BY <1>1, StopAborts, LaneTypes
  <2>2. /\ lanes'[j].resolved = lanes[j].resolved /\ lanes'[j].stage = lanes[j].stage
        /\ lanes'[j].run.task = lanes[j].run.task
    BY <2>1 DEF LaneKept, LaneRecords, RunRecords
  <2>3. j \in DOMAIN lanes'
    BY <1>1, LaneTypes
  <2> QED  BY <2>2, <2>3, SameRunStays DEF Active
<1> QED  BY <1>2

LEMMA TurnIsSilent ==
    ASSUME LanesInv, NEW i \in 1..Len(lanes), Turn(i),
           UNCHANGED <<sessionId, providerId, generation>>
    PROVE  \A j \in DOMAIN lanes : RunStays(j)
<1>1. ~Active(i)
  BY DEF Turn, Active
<1>2. ASSUME NEW stage, NEW run, Shifted(i, stage, run)
      PROVE  \E new : lanes' = [lanes EXCEPT ![i] = new]
  BY <1>2 DEF Shifted
<1>3. CASE lanes[i].queue = <<>>
  BY <1>1, <1>3, LaneIsSilent DEF Turn
<1>4. CASE lanes[i].queue # <<>>
  BY <1>1, <1>2, <1>4, LaneIsSilent DEF Turn, RunPrompt, RunHeartbeat, RunRollover, BeginRun
<1> QED  BY <1>3, <1>4

LEMMA InitializedIsSilent ==
    ASSUME CoordInv, NEW i \in 1..Len(lanes), SessionInitialized(i),
           lanes'[i].stage # "reported"
    PROVE  UNCHANGED viewVars /\ \A j \in DOMAIN lanes : RunStays(j)
<1> DEFINE run == lanes[i].run
           new == [lanes[i] EXCEPT !.stage = "running", !.run = [run EXCEPT !.inited = TRUE],
                                   !.resolved = ProviderSession(i)]
<1>1. LanesInv /\ lanes[i] \in LaneRecords /\ LaneFits(lanes[i], lastId) /\ run \in RunRecords
  BY LaneTypes DEF CoordInv, LanesInv, LaneRecords
<1>2. ~(run.resume = None /\ Visible(i))
  <2>1. SUFFICES ASSUME lanes' = [lanes EXCEPT ![i].stage = "reported"] PROVE FALSE
    BY DEF SessionInitialized
  <2>2. lanes'[i] = [lanes[i] EXCEPT !.stage = "reported"]
    BY <1>1, <2>1, LaneTypes DEF LanesInv
  <2> QED  BY <1>1, <2>2 DEF LaneRecords
<1>3. UNCHANGED viewVars /\ lanes' = [lanes EXCEPT ![i] = new]
  <2>1. UNCHANGED viewVars /\ Resolved(i)
    BY <1>2 DEF SessionInitialized, RecordSessionInitialized
  <2> QED  BY <2>1 DEF Resolved
<1>4. CASE run.resume = None
  BY <1>1, <1>2, <1>3, <1>4, LaneIsSilent DEF viewVars
<1>5. CASE run.resume # None
  <2>1. lanes[i].resolved = run.resume /\ ProviderSession(i) = run.resume
    BY <1>1, <1>5 DEF SessionInitialized, Running, LaneFits, RunFits, ProviderSession
  <2>2. new.resolved = lanes[i].resolved /\ new.run.task = run.task /\ new.stage \in ActiveStages
    BY <1>1, <2>1 DEF LaneRecords, RunRecords, ActiveStages
  <2> HIDE DEF new
  <2> QED  BY <1>1, <1>3, <2>2, LaneIsSilent DEF viewVars
<1> QED  BY <1>4, <1>5

LEMMA EventIsSilent ==
    ASSUME CoordInv, SerialInv, NEW i \in 1..Len(lanes),
           Resolve(i) \/ Done(i) \/ ErrorAfterDone(i)
    PROVE  /\ UNCHANGED <<sessionId, providerId, generation>>
           /\ sessionId # None => \A j \in DOMAIN lanes : RunStays(j)
<1> DEFINE run == lanes[i].run
           c == run.task.ctx
<1>1. /\ LanesInv /\ ViewKnown /\ lanes[i] \in LaneRecords /\ LaneFits(lanes[i], lastId)
      /\ run \in RunRecords
  BY LaneTypes DEF CoordInv, LanesInv, LaneRecords
<1>2. ASSUME NEW r \in RunRecords, lanes' = [lanes EXCEPT ![i].run = r], r.task = run.task,
             lanes[i].stage = "running", UNCHANGED <<sessionId, providerId, generation>>
      PROVE  \A j \in DOMAIN lanes : RunStays(j)
  <2> DEFINE new == [lanes[i] EXCEPT !.run = r]
  <2>1. new.resolved = lanes[i].resolved /\ new.run.task = run.task /\ new.stage \in ActiveStages
    BY <1>1, <1>2 DEF LaneRecords, ActiveStages
  <2>2. lanes' = [lanes EXCEPT ![i] = new]
    BY <1>2
  <2> HIDE DEF new
  <2> QED  BY <1>1, <1>2, <2>1, <2>2, LaneIsSilent
<1>3. CASE Resolve(i)
  <2>1. UNCHANGED <<sessionId, providerId, generation>>
    BY <1>3 DEF Resolve, sessionVars, viewVars
  <2>2. Visible(i) => sessionId = None
    <3>1. c.sid = None /\ lanes[i].resolved = None
      BY <1>1, <1>3 DEF Resolve, LaneFits, RunFits
    <3> QED  BY <1>1, <3>1 DEF Visible, MatchesVisible, RunRecords, Tasks, Contexts
  <2>3. ASSUME ~Visible(i) PROVE \A j \in DOMAIN lanes : RunStays(j)
    <3> DEFINE new == [lanes[i] EXCEPT !.stage = "running", !.run.inited = TRUE,
                                       !.resolved = ProviderSession(i)]
    <3>1. Resolved(i)
      BY <1>3 DEF Resolve
    <3>2. lanes' = [lanes EXCEPT ![i] = new]
      BY <3>1 DEF Resolved
    <3> HIDE DEF new
    <3> QED  BY <1>1, <2>1, <2>3, <3>2, LaneIsSilent
  <2> QED  BY <2>1, <2>2, <2>3
<1>4. CASE Done(i)
  <2>1. Active(i) /\ run.inited /\ lanes[i].stage = "running"
    BY <1>4 DEF Done, Running, Active
  <2>2. UNCHANGED <<sessionId, providerId, generation>>
    <3>1. lanes[i].resolved = ProviderSession(i) /\ ProviderSession(i) # None
      BY <1>1, <2>1, RunNames
    <3>2. Visible(i) => sessionId = ProviderSession(i)
      BY <1>1, <3>1 DEF Visible, MatchesVisible, RunRecords, Tasks, Contexts
    <3> QED  BY <1>4, <3>2 DEF Done, CompleteRun, ShowSession, RecordBackgroundCompletion,
                               viewVars
  <2>3. \A j \in DOMAIN lanes : RunStays(j)
    <3> DEFINE r == [run EXCEPT !.completed = TRUE, !.sawDone = TRUE]
    <3>1. r \in RunRecords /\ r.task = run.task /\ lanes' = [lanes EXCEPT ![i].run = r]
      BY <1>1, <1>4 DEF RunRecords, Done
    <3> HIDE DEF r
    <3> QED  BY <1>2, <2>1, <2>2, <3>1
  <2> QED  BY <2>2, <2>3
<1>5. CASE ErrorAfterDone(i)
  <2> DEFINE r == [run EXCEPT !.completed = FALSE]
  <2>1. r \in RunRecords /\ r.task = run.task /\ lanes' = [lanes EXCEPT ![i].run = r]
    BY <1>1, <1>5 DEF RunRecords, ErrorAfterDone
  <2>2. UNCHANGED <<sessionId, providerId, generation>> /\ lanes[i].stage = "running"
    BY <1>5 DEF ErrorAfterDone, Running, sessionVars, viewVars
  <2> HIDE DEF r
  <2> QED  BY <1>2, <2>1, <2>2
<1> QED  BY <1>3, <1>4, <1>5

(* A run that still has something to settle.                               *)
LEMMA ReturnIsSilent ==
    ASSUME CoordInv, NEW i \in 1..Len(lanes), RunnerReturns(i) \/ Settled(i),
           lanes'[i].stage # "next"
    PROVE  /\ UNCHANGED <<sessionId, providerId, generation, rolloverVars, rolloverQueued>>
           /\ \A j \in DOMAIN lanes : RunStays(j)
<1> DEFINE run == lanes[i].run
           new == [lanes[i] EXCEPT !.stage = "settling"]
<1>1. LanesInv /\ lanes[i] \in LaneRecords /\ lanes \in Seq(LaneRecords)
  BY LaneTypes DEF CoordInv, LanesInv
<1>2. ~EndRun(i)
  <2>1. SUFFICES ASSUME lanes' = [lanes EXCEPT ![i].stage = "next", ![i].run = NoRun]
                 PROVE  FALSE
    BY DEF EndRun
  <2>2. lanes'[i] = [lanes[i] EXCEPT !.stage = "next", !.run = NoRun]
    BY <1>1, <2>1, LaneTypes
  <2> QED  BY <1>1, <2>2 DEF LaneRecords
<1>3. RunnerReturns(i)
  BY <1>2 DEF Settled
<1>4. /\ run.completed \/ run.task.source = "heartbeat"
      /\ lanes' = [lanes EXCEPT ![i] = new]
      /\ UNCHANGED <<rolloverVars, rolloverQueued>>
  BY <1>2, <1>3 DEF RunnerReturns
<1>5. UNCHANGED <<sessionId, providerId, generation>>
  BY <1>3, <1>4 DEF RunnerReturns, Interrupt, Interactive, viewVars
<1>6. new.resolved = lanes[i].resolved /\ new.run.task = run.task /\ new.stage \in ActiveStages
  BY <1>1 DEF LaneRecords, ActiveStages
<1> HIDE DEF new
<1> QED  BY <1>1, <1>4, <1>5, <1>6, LaneIsSilent

LEMMA NextAnnounced ==
    ASSUME CoordInv, SerialInv, SchedulerTypes, Announced, [RolloverNext]_rolloverSystem
    PROVE  SchedulerTypes' /\ Announced'
<1>1. DOMAIN lanes = 1..Len(lanes) /\ LanesInv
  BY LaneTypes DEF CoordInv, LanesInv
<1>2. SchedulerTypes'
  BY DEF SchedulerTypes, RolloverNext, Work, UserPrompt, OtherWork, LaneTurn, SessionReported,
         QuietEvent, RunOver, Intervention, Command, Shutdown, CrashAndStart, Attempt,
         TimerFires, IdleMinutesPass, NoteStateChanged, schedulerVars, rolloverSystem
<1> SUFFICES Announced'
  BY <1>2
<1>3. CASE NoteStateChanged
  BY <1>2, <1>3, Noted DEF SchedulerTypes
<1>4. CASE OtherWork
  <2>1. PICK source \in Sources : Accept(source)
    BY <1>4 DEF OtherWork, EnqueueAgentPrompt, EnqueueHeartbeat, Sources
  <2>2. UNCHANGED <<sessionId, providerId, lastInteractive, lastHandled, shuttingDown,
                    rolloverQueued, timer, checking>>
    BY <1>4 DEF OtherWork, EnqueueAgentPrompt, EnqueueHeartbeat, Accept, CaptureContext,
                rolloverVars, schedulerVars
  <2> QED  BY <2>1, <2>2, AcceptIsSilent, Silent
<1>5. ASSUME NEW i \in DOMAIN lanes, LaneTurn(i), ~NoteStateChanged PROVE Announced'
  <2>1. /\ Turn(i) /\ UNCHANGED <<timer, checking, shuttingDown>>
        /\ ~(lanes[i].queue # <<>> /\ Head(lanes[i].queue).source = "rollover")
    BY <1>5 DEF LaneTurn, Turn
  <2>2. UNCHANGED <<sessionVars, rolloverQueued>>
    BY <2>1 DEF Turn, RunPrompt, RunHeartbeat, RunRollover
  <2>3. \A j \in DOMAIN lanes : RunStays(j)
    BY <1>1, <2>1, <2>2, TurnIsSilent DEF sessionVars, viewVars
  <2> QED  BY <2>1, <2>2, <2>3, Silent DEF sessionVars, viewVars, rolloverVars
<1>6. ASSUME NEW i \in DOMAIN lanes, SessionReported(i), ~NoteStateChanged PROVE Announced'
  <2>1. /\ SessionInitialized(i) /\ lanes'[i].stage # "reported"
        /\ UNCHANGED <<timer, checking>>
    BY <1>6 DEF SessionReported
  <2>2. UNCHANGED <<rolloverVars, shuttingDown, rolloverQueued>>
    BY <2>1 DEF SessionInitialized
  <2> QED  BY <1>1, <2>1, <2>2, InitializedIsSilent, Silent DEF viewVars, rolloverVars
<1>7. ASSUME NEW i \in DOMAIN lanes, QuietEvent(i) PROVE Announced'
  <2>1. /\ Resolve(i) \/ Done(i) \/ ErrorAfterDone(i)
        /\ UNCHANGED <<rolloverVars, shuttingDown, rolloverQueued, timer, checking>>
    BY <1>7 DEF QuietEvent, Resolve, Done, ErrorAfterDone, schedulerVars, sessionVars
  <2>2. UNCHANGED <<sessionId, providerId>>
    BY <1>1, <2>1, EventIsSilent
  <2>3. CASE sessionId = None
    BY <2>2, <2>3 DEF Announced, RolloverPossible
  <2>4. CASE sessionId # None
    BY <1>1, <2>1, <2>2, <2>4, EventIsSilent, Silent DEF rolloverVars
  <2> QED  BY <2>3, <2>4
<1>8. ASSUME NEW i \in DOMAIN lanes, RunOver(i), ~NoteStateChanged PROVE Announced'
  <2>1. /\ RunnerReturns(i) \/ Settled(i)
        /\ lanes'[i].stage # "next" /\ UNCHANGED <<timer, checking, shuttingDown>>
    BY <1>8 DEF RunOver, RunnerReturns, Settled
  <2> QED  BY <1>1, <2>1, ReturnIsSilent, Silent DEF rolloverVars
<1>9. CASE Command /\ ~NoteStateChanged
  <2>1. /\ Stop \/ ChangeView \/ Delete
        /\ generation' = generation /\ UNCHANGED <<timer, checking>>
    BY <1>9 DEF Command
  <2>2. UNCHANGED <<rolloverVars, shuttingDown, rolloverQueued>>
    BY <2>1 DEF Stop, ChangeView, Delete, NewConversation, SwitchSession, SelectModel,
                DeleteSession, laneVars, sessionVars
  <2>3. generation \in Nat
    BY ViewFacts DEF CoordInv
  <2>4. CASE ChangeView
    <3>1. SelectModel
      BY <2>1, <2>3, <2>4 DEF ChangeView, NewConversation, ClearActiveSession, ClearState,
                SwitchSession, SwitchToResolvedSession, SwitchState
    <3> QED  BY <3>1 DEF SelectModel, ModelSelect, Announced, RolloverPossible
  <2>5. CASE Stop \/ Delete
    <3>1. AbortVisible /\ UNCHANGED <<sessionId, providerId, generation>>
      BY <2>1, <2>3, <2>5 DEF Stop, Delete, DeleteSession, DeleteResolvedSession, ClearState,
                              sessionVars, viewVars
    <3> QED  BY <1>1, <2>1, <2>2, <3>1, StopIsSilent, Silent DEF rolloverVars
  <2> QED  BY <2>1, <2>4, <2>5
<1>10. CASE Shutdown
  BY <1>10 DEF Shutdown, BeginShutdown, Announced, RolloverPossible
<1>11. CASE Attempt
  <2>1. CASE RolloverPossible
    BY <1>11, <2>1 DEF Attempt, EnqueueRollover, Announced, RolloverPossible
  <2>2. CASE ~RolloverPossible
    BY <1>11, <2>2 DEF Attempt, vars, sessionVars, viewVars, rolloverVars, laneVars,
          Announced, RolloverPossible, RolloverDue, HasVisibleRun, Active, Visible, MatchesVisible
  <2> QED  BY <2>1, <2>2
<1>12. CASE TimerFires
  BY <1>12 DEF TimerFires, Announced
<1>13. CASE IdleMinutesPass \/ UNCHANGED rolloverSystem
  BY <1>13 DEF IdleMinutesPass, rolloverSystem, vars, sessionVars, viewVars, rolloverVars,
          laneVars, schedulerVars, Announced, RolloverPossible, RolloverDue, HasVisibleRun,
          Active, Visible, MatchesVisible
<1>14. CASE UserPrompt \/ CrashAndStart
  BY <1>3, <1>14 DEF UserPrompt, CrashAndStart
<1> QED  BY <1>3, <1>4, <1>5, <1>6, <1>7, <1>8, <1>9, <1>10, <1>11, <1>12, <1>13, <1>14
         DEF RolloverNext, Work, Intervention

(***************************************************************************)
(* A rollover that waits.  The user was away when it was asked for, and as *)
(* long as nobody has left the conversation it is about its session is the *)
(* one on screen.                                                          *)
(***************************************************************************)
RolloverFits(task) ==
    task.source = "rollover" =>
        /\ task.at <= lastInteractive
        /\ elapsed \/ lastInteractive # task.at
        /\ task.ctx.sid # None
        /\ task.ctx.gen <= generation
        /\ task.ctx.gen = generation => sessionId = task.ctx.sid

IdleInv ==
    /\ checking => elapsed
    /\ \A i \in 1..Len(lanes) : \A k \in 1..Len(lanes[i].queue) : RolloverFits(lanes[i].queue[k])

(* Nothing is put into a lane.                                             *)
LEMMA StillFits ==
    ASSUME CoordInv, SerialInv, IdleInv, SchedulerTypes, SchedulerTypes', NamesKept, ViewStep,
           UNCHANGED <<lastInteractive, elapsed>>, checking' => elapsed'
    PROVE  IdleInv'
<1>1. /\ generation \in Nat /\ lanes \in Seq(LaneRecords)
      /\ \A i \in 1..Len(lanes) : lanes[i] \in LaneRecords
  BY ViewFacts, LaneTypes DEF CoordInv, LanesInv
<1>2. ASSUME NEW task \in Tasks, RolloverFits(task) PROVE RolloverFits(task)'
  <2>1. task.ctx.gen \in Nat
    BY DEF Tasks, Contexts
  <2>2. sessionId # None => ocSessionId = sessionId
    BY DEF SerialInv, ViewNamed
  <2> QED  BY <1>1, <1>2, <2>1, <2>2 DEF RolloverFits, ViewStep
<1>3. ASSUME NEW i \in 1..Len(lanes'), NEW k \in 1..Len(lanes'[i].queue)
      PROVE  RolloverFits(lanes[i].queue[k])'
  <2>1. i \in 1..Len(lanes) /\ Lesser(lanes[i], lanes'[i])
    BY DEF NamesKept
  <2>2. PICK m \in 1..Len(lanes[i].queue) : lanes'[i].queue[k] = lanes[i].queue[m]
    BY <2>1 DEF Lesser
  <2>3. RolloverFits(lanes[i].queue[m]) /\ lanes[i].queue[m] \in Tasks
    BY <1>1, <2>1, QueueTyped DEF IdleInv
  <2> QED  BY <1>2, <2>2, <2>3 DEF RolloverFits
<1> QED  BY <1>3 DEF IdleInv

LEMMA AcceptedFits ==
    ASSUME CoordInv, IdleInv, NEW source \in Sources, Accept(source),
           lastInteractive' \in {lastInteractive, lastInteractive + 1},
           elapsed' = elapsed \/ lastInteractive' = lastInteractive + 1,
           source = "rollover" => UNCHANGED lastInteractive /\ elapsed' /\ sessionId # None,
           checking' => elapsed', elapsed \in BOOLEAN, elapsed' \in BOOLEAN
    PROVE  IdleInv'
<1> DEFINE i == LaneFor(Context)
           task == Task(source)
<1>1. /\ ViewKnown /\ LanesInv /\ accepted \in Nat
      /\ generation \in Nat /\ lastInteractive \in Nat
      /\ UNCHANGED <<sessionId, generation>>
      /\ \A j \in 1..Len(lanes) : lanes[j] \in LaneRecords
  BY ViewFacts, LaneTypes DEF CoordInv, LanesInv, FlagTypes, Accept, CaptureContext
<1>2. ASSUME NEW t \in Tasks, RolloverFits(t) PROVE RolloverFits(t)'
  BY <1>1, <1>2 DEF RolloverFits, Tasks
<1>3. ASSUME NEW t, t = task PROVE RolloverFits(t)'
  BY <1>1, <1>3 DEF RolloverFits, Task, Context
<1>4. ASSUME NEW j \in 1..Len(lanes'), NEW k \in 1..Len(lanes'[j].queue)
      PROVE  RolloverFits(lanes[j].queue[k])'
  <2>1. ASSUME NEW a \in 1..Len(lanes), NEW m \in 1..Len(lanes[a].queue),
               lanes'[j].queue[k] = lanes[a].queue[m]
        PROVE  RolloverFits(lanes[j].queue[k])'
    <3>1. RolloverFits(lanes[a].queue[m]) /\ lanes[a].queue[m] \in Tasks
      BY <1>1, QueueTyped DEF IdleInv
    <3> QED  BY <1>2, <2>1, <3>1 DEF RolloverFits
  <2>2. /\ j # i => j \in 1..Len(lanes) /\ lanes'[j] = lanes[j]
        /\ j = i => \/ lanes'[j].queue[k] = task
                    \/ /\ i \in 1..Len(lanes)
                       /\ \E m \in 1..Len(lanes[i].queue) : lanes'[j].queue[k] = lanes[i].queue[m]
    BY <1>1, Accepted
  <2>3. CASE lanes'[j].queue[k] = task
    BY <1>3, <2>3 DEF RolloverFits
  <2> HIDE DEF i, task
  <2> QED  BY <2>1, <2>2, <2>3
<1> QED  BY <1>4 DEF IdleInv

LEMMA NextIdle ==
    ASSUME CoordInv, SerialInv, SchedulerTypes, SchedulerTypes', IdleInv,
           [RolloverNext]_rolloverSystem
    PROVE  IdleInv'
<1>1. /\ DOMAIN lanes = 1..Len(lanes) /\ LanesInv /\ ViewKnown /\ lanes \in Seq(LaneRecords)
      /\ lastId \in Nat
      /\ elapsed \in BOOLEAN /\ elapsed' \in BOOLEAN /\ checking \in BOOLEAN
      /\ checking' \in BOOLEAN
  BY LaneTypes, ViewFacts DEF CoordInv, LanesInv, SchedulerTypes
<1>2. NoteStateChanged => (checking' => elapsed')
  BY <1>1 DEF NoteStateChanged
<1>3. CASE UserPrompt
  <2>1. PICK source \in Interactive : EnqueuePrompt(source)
    BY <1>3 DEF UserPrompt
  <2>2. source \in Sources /\ source # "rollover" /\ Accept(source)
        /\ lastInteractive' = lastInteractive + 1
    BY <2>1 DEF EnqueuePrompt, Sources, Interactive, RecordAcceptedPromptTarget
  <2>3. checking' => elapsed'
    BY <1>2, <1>3 DEF UserPrompt
  <2> QED  BY <1>1, <2>2, <2>3, AcceptedFits
<1>4. CASE OtherWork
  <2>1. PICK source \in {"agent", "heartbeat"} : Accept(source) /\ UNCHANGED rolloverVars
    BY <1>4 DEF OtherWork, EnqueueAgentPrompt, EnqueueHeartbeat
  <2>2. source \in Sources /\ source # "rollover"
        /\ UNCHANGED <<lastInteractive, elapsed, checking>> /\ (checking => elapsed)
    BY <1>4, <2>1 DEF OtherWork, Sources, rolloverVars, schedulerVars, IdleInv
  <2> QED  BY <1>1, <2>1, <2>2, AcceptedFits
<1>5. CASE Attempt /\ RolloverPossible
  <2>1. Accept("rollover") /\ UNCHANGED <<rolloverVars, elapsed>> /\ sessionId # None
        /\ elapsed /\ ~checking'
    BY <1>1, <1>5 DEF Attempt, EnqueueRollover, RolloverPossible, IdleInv
  <2>2. "rollover" \in Sources /\ UNCHANGED lastInteractive
    BY <2>1 DEF Sources, rolloverVars
  <2> QED  BY <1>1, <2>1, <2>2, AcceptedFits
<1>6. ASSUME NEW i \in DOMAIN lanes,
             LaneTurn(i) \/ SessionReported(i) \/ QuietEvent(i) \/ RunOver(i)
      PROVE  IdleInv'
  <2>1. NamesKept /\ ViewStep /\ UNCHANGED lastInteractive
    <3>1. CASE LaneTurn(i)
      <4>1. Turn(i) /\ UNCHANGED lastInteractive
        BY <3>1 DEF LaneTurn, Turn, RunPrompt, RunHeartbeat, RunRollover,
                    BeginRolloverAttempt, sessionVars, rolloverVars
      <4> QED  BY <1>1, <4>1, TurnKeepsNames, OtherSteps
    <3>2. CASE SessionReported(i) \/ QuietEvent(i) \/ RunOver(i)
      <4>1. RunStep(i)
        BY <3>2 DEF SessionReported, QuietEvent, RunOver, RunStep
      <4>2. UNCHANGED lastInteractive
        BY <4>1 DEF RunStep, SessionInitialized, Resolve, Done, ErrorAfterDone, RunnerReturns,
                    Settled, EndRun, FinishRolloverAttempt, sessionVars, rolloverVars
      <4> QED  BY <1>1, <4>1, <4>2, RunKeepsNames, RunSteps
    <3> QED  BY <1>6, <3>1, <3>2
  <2>2. UNCHANGED elapsed /\ (checking' => elapsed')
    BY <1>1, <1>2, <1>6 DEF LaneTurn, SessionReported, QuietEvent, RunOver, schedulerVars
  <2> QED  BY <2>1, <2>2, StillFits
<1>7. CASE Command \/ Shutdown
  <2>1. Stop \/ ChangeView \/ Delete \/ BeginShutdown
    BY <1>7 DEF Command, Shutdown
  <2>2. ViewStep
    BY <2>1, OtherSteps
  <2>3. UNCHANGED lastInteractive
    BY <2>1 DEF Stop, ChangeView, Delete, BeginShutdown, NewConversation, SwitchSession,
                SelectModel, DeleteSession, sessionVars, rolloverVars
  <2>4. NamesKept
    <3>1. ChangeView => UNCHANGED lanes
      BY DEF ChangeView, laneVars
    <3>2. Stop \/ Delete => AbortVisible
      BY DEF Stop, Delete
    <3> QED  BY <1>1, <2>1, <3>1, <3>2, LesserSame, StopKeepsNames, ShutdownKeepsNames
  <2>5. UNCHANGED elapsed /\ (checking' => elapsed')
    BY <1>1, <1>2, <1>7 DEF Command, Shutdown, IdleInv
  <2> QED  BY <2>2, <2>3, <2>4, <2>5, StillFits
<1>8. CASE CrashAndStart
  <2>1. 1..Len(lanes') = {}
    BY <1>8, EmptySeq DEF CrashAndStart, Crash
  <2>2. checking' => elapsed'
    BY <1>2, <1>8 DEF CrashAndStart
  <2> QED  BY <2>1, <2>2 DEF IdleInv
<1>9. CASE \/ (Attempt /\ ~RolloverPossible) \/ TimerFires \/ IdleMinutesPass
           \/ UNCHANGED rolloverSystem
  <2>1. UNCHANGED vars
    BY <1>9 DEF Attempt, TimerFires, IdleMinutesPass, rolloverSystem
  <2>2. (elapsed => elapsed') /\ (checking' => elapsed')
    BY <1>1, <1>9 DEF Attempt, TimerFires, IdleMinutesPass, rolloverSystem, schedulerVars,
                      IdleInv
  <2> QED  BY <1>1, <2>1, <2>2 DEF IdleInv, RolloverFits, vars, sessionVars, viewVars,
                                   rolloverVars, laneVars
<1> QED  BY <1>3, <1>4, <1>5, <1>6, <1>7, <1>8, <1>9 DEF RolloverNext, Work, Intervention

(***************************************************************************)
(* The inductive invariant, and the theorems                               *)
(***************************************************************************)
SchedulerInv == SchedulerTypes /\ Announced /\ IdleInv

LEMMA SpecSchedulerInv == RolloverSpec => [](CoordInv /\ SerialInv /\ SchedulerInv)
<1>1. RolloverInit => SchedulerInv
  <2> SUFFICES ASSUME RolloverInit PROVE SchedulerInv
    OBVIOUS
  <2>1. 1..Len(lanes) = {} /\ sessionId = None
    BY EmptySeq DEF RolloverInit, Init, SessionInit
  <2> QED  BY <2>1 DEF RolloverInit, SchedulerInv, SchedulerTypes, Announced, IdleInv,
                       RolloverPossible
<1>2. CoordInv /\ SerialInv /\ SchedulerInv /\ [RolloverNext]_rolloverSystem => SchedulerInv'
  BY NextAnnounced, NextIdle DEF SchedulerInv
<1> QED  BY <1>1, <1>2, SchedulerCoord, PTL DEF RolloverSpec

(* With the scheduler in charge the coordinator does what its own          *)
(* specification allows, so that conversations stay serial.                *)
THEOREM SchedulerImplementsCoordinator == RolloverSpec => Spec /\ []ConversationsAreSerial
  BY SchedulerCoord, RunsAreSerial, PTL

(* However prompts, runs, commands and restarts interleave, a rollover     *)
(* that has become possible while nothing else moves still has its timer.  *)
THEOREM RolloversAreAnnounced == RolloverSpec => []NoRolloverMissed
<1>1. SchedulerInv => NoRolloverMissed
  BY DEF SchedulerInv, Announced, NoRolloverMissed
<1> QED  BY <1>1, SpecSchedulerInv, PTL

(* What was true when a rollover was asked for still is when its turn      *)
(* comes: the user has been away, no other rollover has handled that, and  *)
(* the session it resumes is the one it takes off the screen -- unless the *)
(* user has come back, or moved on, while it had to wait.                  *)
THEOREM RolloversFindIdleSessions == RolloverSpec => OnlyIdleSessionsRollOver
<1> DEFINE Allowed(i) ==
        LaneTurn(i) /\ BeginRolloverAttempt
         => LET rollover == Head(lanes[i].queue)
            IN  /\ RolloverDue
                /\ elapsed \/ lastInteractive # rollover.at
                /\ sessionId = lanes'[i].run.resume \/ generation # rollover.ctx.gen
<1>1. ASSUME CoordInv, SchedulerInv, NEW i \in DOMAIN lanes, LaneTurn(i), BeginRolloverAttempt
      PROVE  Allowed(i)
  <2> DEFINE task == Head(lanes[i].queue)
  <2>1. /\ Turn(i) /\ i \in 1..Len(lanes) /\ generation \in Nat /\ i \in Nat
        /\ lanes[i] \in LaneRecords /\ LaneFits(lanes[i], lastId) /\ lanes \in Seq(LaneRecords)
        /\ lastHandled \in Nat /\ lastInteractive \in Nat
    BY <1>1, LaneTypes, ViewFacts DEF LaneTurn, CoordInv, LanesInv
  <2>2. ~UNCHANGED sessionVars
    BY <1>1, <2>1 DEF BeginRolloverAttempt, ClearActiveSession, ClearState, sessionVars, viewVars
  <2>3. lanes[i].queue # <<>> /\ task.source = "rollover" /\ BeginRun(i, task)
    BY <2>1, <2>2 DEF Turn, RunPrompt, RunHeartbeat, RunRollover
  <2>4. /\ 1 \in 1..Len(lanes[i].queue) /\ task = lanes[i].queue[1]
        /\ task \in Tasks /\ Len(lanes[i].queue) \in Nat
    BY <2>1, <2>3, QueueTyped, HeadTailProperties, EmptySeq
  <2> HIDE DEF task
  <2>5. RolloverFits(lanes[i].queue[1]) /\ TaskFits(lanes[i].queue[1], lanes[i], lastId)
    BY <1>1, <2>1, <2>4 DEF SchedulerInv, IdleInv, LaneFits
  <2>6. lastHandled < lastInteractive
    <3>1. Waits("rollover", i, 1)
      BY <2>1, <2>3, <2>4 DEF Waits, InLane
    <3> QED  BY <1>1, <2>1, <3>1 DEF CoordInv, WaitInv, QueuedRolloversAreDue
  <2>7. lanes'[i].run.resume = task.ctx.sid
    <3> DEFINE resume == IF lanes[i].resolved # None THEN lanes[i].resolved ELSE task.ctx.sid
               run == [NoRun EXCEPT !.task = task, !.resume = resume]
               new == [lanes[i] EXCEPT !.queue = Tail(@), !.stage = "running", !.run = run]
    <3>1. lanes'[i] = new
      BY <2>1, <2>3, LaneTypes DEF BeginRun, Shifted
    <3>2. lanes'[i].run = run
      BY <2>1, <3>1 DEF LaneRecords
    <3>3. run.resume = resume
      BY DEF NoRun
    <3>4. resume = task.ctx.sid
      BY <2>3, <2>4, <2>5 DEF RolloverFits, TaskFits
    <3> HIDE DEF run, resume
    <3> QED  BY <3>2, <3>3, <3>4
  <2> QED  BY <2>1, <2>3, <2>4, <2>5, <2>6, <2>7 DEF RolloverFits, RolloverDue, task
<1>2. CoordInv /\ SchedulerInv => \A i \in DOMAIN lanes : Allowed(i)
  BY <1>1
<1> QED  BY <1>2, SpecSchedulerInv, PTL DEF RolloverSpec, OnlyIdleSessionsRollOver
=============================================================================
