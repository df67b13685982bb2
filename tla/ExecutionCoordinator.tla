------------------------ MODULE ExecutionCoordinator ------------------------
(***************************************************************************)
(* How a chat agent runs prompts: RuntimeExecutionCoordinator              *)
(* (application/runtime-execution-coordinator.ts), the PromptDispatcher it *)
(* calls for each run (prompt-execution/prompt-dispatcher.ts), and the     *)
(* SessionService both of them write through.                              *)
(*                                                                         *)
(* Every conversation has a lane, a MessageQueue of its own.  A prompt is  *)
(* bound to the visible conversation when it is accepted; it runs when its *)
(* lane gets to it, and by then the user may be looking at another one.    *)
(* Whether a run is visible is asked again at each of its events.          *)
(*                                                                         *)
(* The runtime is one JavaScript thread.  An action is what it does from   *)
(* one await to the next.  The continuation of a lane after a task, and    *)
(* the start of a task handed to an idle lane, happen before any message,  *)
(* timer or provider event is looked at: while a lane is in such a turn    *)
(* nothing else moves (Quiet), except the rollover check that the end of   *)
(* a run makes.  The same check is made in the middle of a provider event, *)
(* by the callback that tells of a newly visible session.                  *)
(*                                                                         *)
(* Only detached lanes are left out: no caller of a chat agent makes one.  *)
(***************************************************************************)
EXTENDS SessionService, Sequences

VARIABLES
    lanes,             \* this.lanes, in insertion order
    shuttingDown,
    rolloverQueued,
    heartbeatPending,  \* of HeartbeatRuntimePolicy
    accepted,          \* history: how many tasks have been accepted
    unsettledIds       \* history: ids recorded for runs that ended before
                       \* their provider session was known

laneVars == <<lanes, shuttingDown, rolloverQueued, heartbeatPending>>
vars == <<sessionVars, laneVars, accepted, unsettledIds>>

(* "tui" stands for the terminal and for Telegram: they differ in where    *)
(* answers are delivered.                                                  *)
Interactive == {"browser", "tui"}
Sources == Interactive \cup {"agent", "heartbeat", "rollover"}

(* Stages of a lane: nothing to do; process() about to look at its queue,  *)
(* called by enqueue() or coming back from a task; a run waiting for the   *)
(* provider; one whose new session has been shown and stored, but of which *)
(* the lane does not know yet (the dispatcher's emit, before it calls      *)
(* task.onEvent); a run that is over waiting for the transcript snapshot   *)
(* or the delivery of a heartbeat.                                         *)
Stages == {"idle", "start", "next", "running", "reported", "settling"}

Contexts == [provider : Providers, sid : Nat, oc : Nat, gen : Nat]

(* at is the time a heartbeat was scheduled, in user prompts accepted.  n  *)
(* and early are history: the number of the task, and whether it came when *)
(* the session on screen was not known to its lane yet.                    *)
Tasks == [source : Sources, ctx : Contexts, at : Nat, n : Nat, early : BOOLEAN]

RunRecords ==
    [task : Tasks, resume : Nat, aborted : BOOLEAN, inited : BOOLEAN,
     completed : BOOLEAN, sawDone : BOOLEAN]

LaneRecords ==
    [key : [provider : Providers, sid : Nat, gen : Nat], resolved : Nat,
     queue : Seq(Tasks), stage : Stages, run : RunRecords]

NoTask == [source |-> "agent", ctx |-> [provider |-> DefaultProvider, sid |-> None,
             oc |-> None, gen |-> 0], at |-> 0, n |-> 0, early |-> FALSE]

NoRun == [task |-> NoTask, resume |-> None, aborted |-> FALSE,
          inited |-> FALSE, completed |-> FALSE, sawDone |-> FALSE]

-----------------------------------------------------------------------------
(* Lanes                                                                   *)

(* laneKeyForSession and laneKeyForPending                                 *)
Key(c) == [provider |-> c.provider, sid |-> c.sid,
           gen |-> IF c.sid = None THEN c.gen ELSE 0]

NewLane(c) == [key |-> Key(c), resolved |-> c.sid, queue |-> <<>>,
               stage |-> "idle", run |-> NoRun]

FindsByKey(c, lane) == lane.key = Key(c)  \* mutant of Finds

(* getOrCreateLane.  The provider a lane has resolved to is the one in its *)
(* key: only contexts of that provider ever find the lane.                 *)
Finds(c, lane) ==
    \/ lane.key = Key(c)
    \/ c.sid # None /\ lane.key.provider = c.provider /\ lane.resolved = c.sid

LaneFor(c) ==
    IF \E i \in DOMAIN lanes : Finds(c, lanes[i])
    THEN CHOOSE i \in DOMAIN lanes :
            Finds(c, lanes[i]) /\ \A j \in 1..(i - 1) : ~Finds(c, lanes[j])
    ELSE Len(lanes) + 1

(* MessageQueue.enqueue on the lane of c                                   *)
Enqueue(c, task) ==
    LET i == LaneFor(c)
        lane == IF i \in DOMAIN lanes THEN lanes[i] ELSE NewLane(c)
        queued == [lane EXCEPT !.queue = Append(@, task),
                               !.resolved = IF c.sid = None THEN @ ELSE c.sid,
                               !.stage = IF @ = "idle" THEN "start" ELSE @]
    IN  lanes' = IF i \in DOMAIN lanes
                 THEN [lanes EXCEPT ![i] = queued]
                 ELSE Append(lanes, queued)

Active(i) == lanes[i].stage \in {"running", "reported", "settling"}

(* isLaneVisible                                                           *)
Visible(i) ==
    LET c == lanes[i].run.task.ctx
        s == IF lanes[i].resolved # None THEN lanes[i].resolved ELSE c.sid
    IN  MatchesVisible([c EXCEPT !.sid = s])

HasVisibleRun == \E i \in DOMAIN lanes : Active(i) /\ Visible(i)

(* abortActiveRun: the first visible run, in the order of the lanes        *)
AbortVisible ==
    lanes' = [i \in DOMAIN lanes |->
        IF /\ Active(i) /\ Visible(i)
           /\ \A j \in 1..(i - 1) : ~(Active(j) /\ Visible(j))
        THEN [lanes[i] EXCEPT !.run.aborted = TRUE]
        ELSE lanes[i]]

Quiet == \A i \in DOMAIN lanes : lanes[i].stage \notin {"start", "next", "reported"}

-----------------------------------------------------------------------------
(* Accepting work                                                          *)

Task(source) == [source |-> source, ctx |-> Context, at |-> lastInteractive,
                 n |-> accepted + 1,
                 early |-> \E i \in DOMAIN lanes : lanes[i].stage = "reported"]

Accept(source) ==
    /\ ~shuttingDown
    /\ providerId \in Writable
    /\ CaptureContext
    /\ Enqueue(Context, Task(source))
    /\ accepted' = accepted + 1
    /\ UNCHANGED <<storeVars, shuttingDown, unsettledIds>>

EnqueuePrompt(source) ==
    /\ Quiet
    /\ source \in Interactive
    /\ Accept(source)
    /\ RecordAcceptedPromptTarget
    /\ UNCHANGED <<rolloverQueued, heartbeatPending>>

(* enqueueAgentPrompt and enqueueAgentMessage                              *)
EnqueueAgentPrompt ==
    /\ Quiet
    /\ Accept("agent")
    /\ UNCHANGED <<rolloverVars, rolloverQueued, heartbeatPending>>

(* The heartbeat timer: deferring it is the scheduler's affair.            *)
EnqueueHeartbeat ==
    /\ Quiet
    /\ sessionId # None
    /\ ~heartbeatPending
    /\ Accept("heartbeat")
    /\ heartbeatPending' = TRUE
    /\ UNCHANGED <<rolloverVars, rolloverQueued>>

(* What attemptRollover and enqueueRollover ask for.                       *)
RolloverPossible ==
    /\ RolloverDue
    /\ sessionId # None
    /\ ~HasVisibleRun
    /\ ~shuttingDown
    /\ ~rolloverQueued
    /\ providerId \in Writable

(* The rollover check: by its timer, when a run has just ended, or on any  *)
(* change of the visible session.                                          *)
EnqueueRollover ==
    /\ \A i \in DOMAIN lanes : lanes[i].stage # "start"
    /\ RolloverPossible
    /\ Accept("rollover")
    /\ rolloverQueued' = TRUE
    /\ UNCHANGED <<rolloverVars, heartbeatPending>>

-----------------------------------------------------------------------------
(* A turn of a lane: process() looks at its queue                          *)

Shifted(i, stage, run) ==
    lanes' = [lanes EXCEPT ![i].queue = Tail(@), ![i].stage = stage, ![i].run = run]

(* runPromptInLane up to the call of the provider                          *)
BeginRun(i, task) ==
    Shifted(i, "running", [NoRun EXCEPT
        !.task = task,
        !.resume = IF lanes[i].resolved # None THEN lanes[i].resolved
                                               ELSE task.ctx.sid])

RunPrompt(i, task) ==
    /\ task.source \in Interactive \cup {"agent"}
    /\ BeginRun(i, task)
    /\ UNCHANGED <<sessionVars, rolloverQueued, heartbeatPending>>

(* Mutant of RunHeartbeat: a stale heartbeat leaves its flag up. *)
RunHeartbeatKeepsFlag(i, task) ==
    /\ task.source = "heartbeat"
    /\ IF sessionId # task.ctx.sid \/ lastInteractive > task.at
       THEN Shifted(i, "next", NoRun)
       ELSE BeginRun(i, task)
    /\ UNCHANGED <<sessionVars, rolloverQueued, heartbeatPending>>

(* Mutant of RunHeartbeat: a stale heartbeat ends the loop of the lane. *)
RunHeartbeatEndsLoop(i, task) ==
    /\ task.source = "heartbeat"
    /\ IF sessionId # task.ctx.sid \/ lastInteractive > task.at
       THEN Shifted(i, "idle", NoRun) /\ heartbeatPending' = FALSE
       ELSE BeginRun(i, task) /\ UNCHANGED heartbeatPending
    /\ UNCHANGED <<sessionVars, rolloverQueued>>

RunHeartbeat(i, task) ==
    /\ task.source = "heartbeat"
    /\ IF sessionId # task.ctx.sid \/ lastInteractive > task.at
       THEN Shifted(i, "next", NoRun) /\ heartbeatPending' = FALSE
       ELSE BeginRun(i, task) /\ UNCHANGED heartbeatPending
    /\ UNCHANGED <<sessionVars, rolloverQueued>>

RunRollover(i, task) ==
    /\ task.source = "rollover"
    /\ IF sessionId = None
       THEN /\ Shifted(i, "next", NoRun)
            /\ rolloverQueued' = FALSE
            /\ UNCHANGED sessionVars
       ELSE /\ BeginRolloverAttempt
            /\ BeginRun(i, task)
            /\ UNCHANGED <<lastId, rolloverQueued>>
    /\ UNCHANGED heartbeatPending

Turn(i) ==
    /\ lanes[i].stage \in {"start", "next"}
    /\ IF lanes[i].queue = <<>>
       THEN /\ lanes' = [lanes EXCEPT ![i].stage = "idle"]
            /\ UNCHANGED <<sessionVars, rolloverQueued, heartbeatPending>>
       ELSE LET task == Head(lanes[i].queue)
            IN  RunPrompt(i, task) \/ RunHeartbeat(i, task) \/ RunRollover(i, task)
    /\ UNCHANGED <<shuttingDown, accepted, unsettledIds>>

-----------------------------------------------------------------------------
(* Events of a run.  A provider reports its session before anything else,  *)
(* then perhaps done, then perhaps an error, and may end at any point; it  *)
(* creates a new session under the id it is given.                         *)

Running(i) == Quiet /\ lanes[i].stage = "running"

ProviderSession(i) ==
    LET run == lanes[i].run
    IN  IF run.resume # None THEN run.resume ELSE run.task.ctx.oc

(* onEvent of runPromptInLane: the lane learns its session.                *)
Resolved(i) ==
    lanes' = [lanes EXCEPT ![i].stage = "running", ![i].run.inited = TRUE,
                           ![i].resolved = ProviderSession(i)]

(* A session that becomes the visible one is announced to the rollover     *)
(* scheduler before the lane learns of it.                                 *)
SessionInitialized(i) ==
    LET run == lanes[i].run
        shown == run.resume = None /\ Visible(i)
    IN  /\ Running(i)
        /\ ~run.inited
        /\ IF run.resume = None
           THEN RecordSessionInitialized(shown, run.task.ctx.provider,
                                         ProviderSession(i))
           ELSE UNCHANGED <<viewVars, storeVars>>
        /\ IF shown
           THEN lanes' = [lanes EXCEPT ![i].stage = "reported"]
           ELSE Resolved(i)
        /\ UNCHANGED <<rolloverVars, lastId, shuttingDown, rolloverQueued,
                       heartbeatPending, accepted, unsettledIds>>

Resolve(i) ==
    /\ lanes[i].stage = "reported"
    /\ \A j \in DOMAIN lanes : lanes[j].stage # "start"
    /\ Resolved(i)
    /\ UNCHANGED <<sessionVars, shuttingDown, rolloverQueued, heartbeatPending,
                   accepted, unsettledIds>>

(* Mutant of Done: visibility is not asked again when the run completes. *)
DoneInView(i) ==
    /\ Running(i)
    /\ lanes[i].run.inited
    /\ ~lanes[i].run.sawDone
    /\ lanes' = [lanes EXCEPT ![i].run.completed = TRUE, ![i].run.sawDone = TRUE]
    /\ CompleteRun(ProviderSession(i))
    /\ UNCHANGED <<rolloverVars, lastId, shuttingDown, rolloverQueued,
                   heartbeatPending, accepted, unsettledIds>>

Done(i) ==
    LET run == lanes[i].run
    IN  /\ Running(i)
        /\ run.inited
        /\ ~run.sawDone
        /\ lanes' = [lanes EXCEPT ![i].run.completed = TRUE, ![i].run.sawDone = TRUE]
        /\ IF Visible(i)
           THEN CompleteRun(ProviderSession(i))
           ELSE RecordBackgroundCompletion(run.task.ctx.provider, ProviderSession(i))
        /\ UNCHANGED <<rolloverVars, lastId, shuttingDown, rolloverQueued,
                       heartbeatPending, accepted, unsettledIds>>

ErrorAfterDone(i) ==
    /\ Running(i)
    /\ lanes[i].run.completed
    /\ lanes' = [lanes EXCEPT ![i].run.completed = FALSE]
    /\ UNCHANGED <<sessionVars, shuttingDown, rolloverQueued,
                   heartbeatPending, accepted, unsettledIds>>

(* The finally blocks of runPromptInLane, runHeartbeat and runRollover     *)
EndRun(i) ==
    LET run == lanes[i].run
        source == run.task.source
    IN  /\ lanes' = [lanes EXCEPT ![i].stage = "next", ![i].run = NoRun]
        /\ heartbeatPending' = (heartbeatPending /\ source # "heartbeat")
        /\ rolloverQueued' = (rolloverQueued /\ source # "rollover")
        /\ IF source = "rollover"
           THEN FinishRolloverAttempt(~run.sawDone)
           ELSE UNCHANGED rolloverVars

(* What the dispatcher makes of a run that was aborted before it completed *)
Interrupt(i) ==
    LET run == lanes[i].run
        c == run.task.ctx
        fresh == run.aborted /\ ~run.completed /\ run.resume = None
    IN  IF fresh /\ run.task.source = "browser" /\ sessionId = None
        THEN /\ ClearState
             /\ UNCHANGED <<providerId, storeVars, unsettledIds>>
        ELSE IF fresh /\ Visible(i) /\ run.task.source \in Interactive
        THEN LET s == IF sessionId # None THEN sessionId ELSE c.oc
             IN  /\ RecordInterruptedRun(c.provider, s)
                 /\ unsettledIds' = IF run.inited THEN unsettledIds
                                    ELSE unsettledIds \cup {s}
        ELSE UNCHANGED <<viewVars, storeVars, unsettledIds>>

(* promptRunner.run returns.  The transcript of a completed run is read    *)
(* again, and a heartbeat delivered, before the run is over.               *)
RunnerReturns(i) ==
    LET run == lanes[i].run
        awaits == run.completed \/ run.task.source = "heartbeat"
    IN  /\ Running(i)
        /\ Interrupt(i)
        /\ IF awaits
           THEN /\ lanes' = [lanes EXCEPT ![i].stage = "settling"]
                /\ UNCHANGED <<rolloverVars, rolloverQueued, heartbeatPending>>
           ELSE EndRun(i)
        /\ UNCHANGED <<lastId, shuttingDown, accepted>>

Settled(i) ==
    /\ Quiet
    /\ lanes[i].stage = "settling"
    /\ EndRun(i)
    /\ UNCHANGED <<viewVars, storeVars, lastId, shuttingDown, accepted, unsettledIds>>

-----------------------------------------------------------------------------
(* Commands of the clients                                                 *)

Stop ==
    /\ Quiet
    /\ HasVisibleRun
    /\ AbortVisible
    /\ UNCHANGED <<sessionVars, shuttingDown, rolloverQueued,
                   heartbeatPending, accepted, unsettledIds>>

(* /new, /session <id> and the choice of a model leave the runs alone.     *)
ChangeView ==
    /\ Quiet
    /\ NewConversation \/ SwitchSession \/ SelectModel
    /\ UNCHANGED <<laneVars, accepted, unsettledIds>>

(* /session delete <id> first aborts the visible run, whichever session it *)
(* is about.                                                               *)
Delete ==
    /\ Quiet
    /\ AbortVisible
    /\ DeleteSession
    /\ UNCHANGED <<shuttingDown, rolloverQueued, heartbeatPending, accepted,
                   unsettledIds>>

(* Mutant of BeginShutdown: close() without discarding what waits. *)
BeginShutdownKeepsQueues ==
    /\ Quiet
    /\ ~shuttingDown
    /\ shuttingDown' = TRUE
    /\ heartbeatPending' = FALSE
    /\ lanes' = [i \in DOMAIN lanes |->
           IF Active(i) THEN [lanes[i] EXCEPT !.run.aborted = TRUE] ELSE lanes[i]]
    /\ UNCHANGED <<sessionVars, rolloverQueued, accepted, unsettledIds>>

BeginShutdown ==
    /\ Quiet
    /\ ~shuttingDown
    /\ shuttingDown' = TRUE
    /\ heartbeatPending' = FALSE
    /\ lanes' = [i \in DOMAIN lanes |->
           IF Active(i) THEN [lanes[i] EXCEPT !.queue = <<>>, !.run.aborted = TRUE]
                        ELSE [lanes[i] EXCEPT !.queue = <<>>]]
    /\ UNCHANGED <<sessionVars, rolloverQueued, accepted, unsettledIds>>

(* The daemon dies, at any point, and a new one opens the store.           *)
Crash ==
    /\ RestartDaemon
    /\ lanes' = <<>>
    /\ shuttingDown' = FALSE
    /\ rolloverQueued' = FALSE
    /\ heartbeatPending' = FALSE
    /\ UNCHANGED <<accepted, unsettledIds>>

-----------------------------------------------------------------------------
Init ==
    /\ SessionInit
    /\ lanes = <<>>
    /\ shuttingDown = FALSE
    /\ rolloverQueued = FALSE
    /\ heartbeatPending = FALSE
    /\ accepted = 0
    /\ unsettledIds = {}

RunStep(i) ==
    \/ SessionInitialized(i) \/ Resolve(i)
    \/ Done(i) \/ ErrorAfterDone(i)
    \/ RunnerReturns(i) \/ Settled(i)

Next ==
    \/ \E source \in Interactive : EnqueuePrompt(source)
    \/ EnqueueAgentPrompt
    \/ EnqueueHeartbeat
    \/ EnqueueRollover
    \/ \E i \in DOMAIN lanes : Turn(i) \/ RunStep(i)
    \/ Stop
    \/ ChangeView
    \/ Delete
    \/ BeginShutdown
    \/ Crash

Spec == Init /\ [][Next]_vars

(* A lane's turn is a microtask.  That a run ends is the provider's        *)
(* promise: its stream ends by itself or after an abort.                   *)
LaneFairness(i) ==
    /\ WF_vars(i \in DOMAIN lanes /\ Turn(i))
    /\ WF_vars(i \in DOMAIN lanes /\ Resolve(i))
    /\ WF_vars(i \in DOMAIN lanes /\ RunnerReturns(i))
    /\ WF_vars(i \in DOMAIN lanes /\ Settled(i))

(***************************************************************************)
(* Properties                                                              *)
(***************************************************************************)
LaneTypeOK ==
    /\ TypeOK
    /\ lanes \in Seq(LaneRecords)
    /\ shuttingDown \in BOOLEAN
    /\ rolloverQueued \in BOOLEAN
    /\ heartbeatPending \in BOOLEAN
    /\ accepted \in Nat
    /\ unsettledIds \subseteq Nat

(* The conversation a task belongs to.                                     *)
Conversation(task) ==
    <<task.ctx.provider, IF task.ctx.sid # None THEN task.ctx.sid ELSE task.ctx.oc>>

QueuedIn(i) == {lanes[i].queue[k] : k \in DOMAIN lanes[i].queue}

Runs == {i \in DOMAIN lanes : Active(i)}

(* A conversation is one thread of turns: while one of its prompts runs no *)
(* other run uses the same provider session, and the prompts that wait for *)
(* it were accepted after it.  Lanes are found by a generation at first    *)
(* and by a session id later, so this is about the moment the one becomes  *)
(* the other.  The lanes of getOrCreateLane keep it, with two exceptions:  *)
(* a session that was recorded for a run which ended before its provider   *)
(* session was known (see OneLanePerSession), and an early task, which can *)
(* only be a rollover: it is asked for by the event that reports a         *)
(* session, before that event has told the lane of the run.                *)
OrderedConversation(settled(_)) ==
    \A i \in Runs, j \in DOMAIN lanes :
        LET mine == lanes[i].run.task
            conversation == Conversation(mine)
        IN  settled(conversation[2]) /\ ~mine.early =>
              /\ j \in Runs /\ j # i =>
                    \/ Conversation(lanes[j].run.task) # conversation
                    \/ lanes[j].run.task.early
              /\ \A task \in QueuedIn(j) :
                    Conversation(task) = conversation => task.n > mine.n

ConversationsAreSerial ==
    LET Settled_(s) == s \notin unsettledIds
    IN  OrderedConversation(Settled_)

(* "instead of opening a duplicate lane for the same session"              *)
(* (runtime-execution-coordinator.ts:578-579), for every session.          *)
OneLanePerSession ==
    LET Any(s) == TRUE
    IN  OrderedConversation(Any)

(* The flags that keep a second rollover and a second heartbeat out are up *)
(* exactly as long as one is waiting or running: one that never came down  *)
(* would silence them for good, one that came down early would let two     *)
(* finalize the same session.                                              *)
IsPending(source, i, k) ==
    IF k = 0 THEN Active(i) /\ lanes[i].run.task.source = source
             ELSE lanes[i].queue[k].source = source

Pending(source) ==
    UNION {{<<i, k>> : k \in {k \in 0..Len(lanes[i].queue) : IsPending(source, i, k)}} :
           i \in DOMAIN lanes}

FlagsAreExact ==
    ~shuttingDown =>
        /\ Cardinality(Pending("rollover")) = IF rolloverQueued THEN 1 ELSE 0
        /\ Cardinality(Pending("heartbeat")) = IF heartbeatPending THEN 1 ELSE 0

(* Once the daemon shuts down every run has been told to stop, nothing     *)
(* waits, and so nothing starts afterwards.                                *)
ShutdownIsFinal ==
    shuttingDown =>
        \A i \in DOMAIN lanes :
            /\ lanes[i].queue = <<>>
            /\ Active(i) => lanes[i].run.aborted

(* A run the user is not looking at leaves the screen alone: "/new during  *)
(* active run does not let background completion overwrite session"        *)
(* (runtime-controller.test.ts:2563).  The exception is a browser run that *)
(* was stopped before its session was known: it ends with clearSession()   *)
(* on whichever blank conversation is visible, whose generation moves on,  *)
(* so that a prompt running there is no longer taken for the visible one.  *)
HiddenRunsKeepView ==
    [][\/ UNCHANGED <<providerId, sessionId, generation>>
       \/ \A i \in DOMAIN lanes : RunStep(i) =>
            \/ Visible(i)
            \/ /\ lanes[i].run.task.source = "browser" /\ lanes[i].run.aborted
               /\ UNCHANGED <<providerId, sessionId>>]_vars

(* Each step the coordinator takes is one that SessionService allows.      *)
ImplementsSessionService == SessionSpec

(* An accepted prompt gets its turn: no lane is left with work waiting.    *)
LanesDrain == \A i \in 1..3 : (i \in DOMAIN lanes /\ lanes[i].queue # <<>>)
                  ~> (i \in DOMAIN lanes => lanes[i].queue = <<>>)
=============================================================================
