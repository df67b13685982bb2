----------------------------- MODULE CodexClient -----------------------------
(***************************************************************************)
(* Prompts of the Codex app-server: one process, which all runs share and  *)
(* speak JSON-RPC to over its pipes (backend/adapters/codex).              *)
(*                                                                         *)
(* A request waits in the transport's map of pending ones until its answer *)
(* is read, 30 seconds are over, or the process exits (rpc-transport.ts).  *)
(* A run subscribes to notifications, resumes or starts its thread, starts *)
(* a turn and then listens, to the notifications of its own turns only,    *)
(* until one of them ends it (index.ts, stream-normalizer.ts).  Meanwhile  *)
(* it can be stopped, which sends a request to interrupt the turn, and     *)
(* steered: a prompt is added to the turn, and the server may go on under  *)
(* another turn id.                                                        *)
(*                                                                         *)
(* What a promise resolves is done in the step that resolves it: between   *)
(* the two, only lines are read, and they are just put into queues.        *)
(***************************************************************************)
EXTENDS Naturals, Sequences

CONSTANTS
    Runs,      \* calls of run()
    Steers,    \* calls of steerCodingSession()
    Threads,
    ThreadOf,  \* the thread a run resumes or starts
    None,
    MaxLines   \* bound: lines of the server that have not been read

ASSUME CodexAssumption ==
    /\ ThreadOf \in [Runs -> Threads]
    /\ Runs \cap Steers = {}
    /\ None \notin Runs \cup Steers
    /\ MaxLines \in Nat

VARIABLES
    alive,        \* the process
    initialized,  \* initializePromise
    run,          \* the runs
    queue,        \* their CodexNotificationQueues
    activeTurns,  \* the run to steer, for each thread
    steer,        \* the steer calls
    pending,      \* the transport's map of requests
    asked,        \* requests the server has not handled
    interrupts,   \* turns it has been asked to interrupt, and has not yet
    lines,        \* what it has written
    turn          \* its turns, named for the run or steer that began them

clientVars == <<initialized, run, queue, activeTurns, steer, pending>>
serverVars == <<asked, interrupts, lines, turn>>
vars == <<alive, clientVars, serverVars>>

Turns == Runs \cup Steers

Stages == {"idle", "initializing", "opening", "opened", "asking", "listening", "over"}
Outcomes == {"none", "done", "aborted", "error"}
RunRecords ==
    [stage : Stages, kind : {"prompt", "compact"}, stopped : BOOLEAN, erred : BOOLEAN,
     current : Turns \cup {None}, observed : SUBSET Turns, outcome : Outcomes]
NoRun == [stage |-> "idle", kind |-> "prompt", stopped |-> FALSE, erred |-> FALSE,
          current |-> None, observed |-> {}, outcome |-> "none"]

SteerRecords == [stage : {"idle", "preparing", "asked", "over"}, run : Runs \cup {None}]
NoSteer == [stage |-> "idle", run |-> None]

Initialize == [method |-> "initialize", by |-> None, of |-> None]
Request(method, r) == [method |-> method, by |-> r, of |-> None]
Requests ==
    {Initialize}
    \cup [method : {"thread", "turn", "compact"}, by : Runs, of : {None}]
    \cup [method : {"steer"}, by : Steers, of : Turns \cup {None}]

Methods == {"error", "final", "completed", "failed", "aborted"}
Lines ==
    [type : {"answer", "refusal"}, req : Requests, turn : Turns \cup {None}]
    \cup [type : Methods, turn : Turns]

Init ==
    /\ alive = TRUE
    /\ initialized = "no"
    /\ run = [r \in Runs |-> NoRun]
    /\ queue = [r \in Runs |-> <<>>]
    /\ activeTurns = [th \in Threads |-> None]
    /\ steer = [k \in Steers |-> NoSteer]
    /\ pending = {}
    /\ asked = {}
    /\ interrupts = {}
    /\ lines = <<>>
    /\ turn = [t \in Turns |-> "none"]

Listening(r) == run[r].stage = "listening"
Subscribed(r) == run[r].stage \notin {"idle", "over"}

-----------------------------------------------------------------------------
(* Requests: request() of the transport.  What is written to a process     *)
(* that has died is lost.                                                  *)
Send(Q) ==
    /\ pending' = pending \cup Q
    /\ asked' = IF alive THEN asked \cup Q ELSE asked

(* The end of run(): its finally block.  Only its own entry is removed.    *)
Ended(R, outcome) ==
    /\ run' = [r \in Runs |->
                 IF r \in R THEN [run[r] EXCEPT !.stage = "over", !.outcome = outcome]
                            ELSE run[r]]
    /\ queue' = [r \in Runs |-> IF r \in R THEN <<>> ELSE queue[r]]
    /\ activeTurns' = [th \in Threads |->
                         IF activeTurns[th] \in R THEN None ELSE activeTurns[th]]

(* Requests are rejected: run() reports the error and is over.             *)
WaitsFor(r, q) ==
    \/ q.by = r /\ q.method \in {"thread", "turn", "compact"}
    \/ q = Initialize /\ run[r].stage = "initializing"

Rejected(Q) ==
    /\ Ended({r \in Runs : \E q \in Q : WaitsFor(r, q)}, "error")
    /\ steer' = [k \in Steers |->
                   IF \E q \in Q : q.by = k THEN [steer[k] EXCEPT !.stage = "over"]
                                            ELSE steer[k]]
    /\ initialized' = IF Initialize \in Q THEN "failed" ELSE initialized

-----------------------------------------------------------------------------
(* run()                                                                   *)

(* A rejected initializePromise is kept: the run is over at once.          *)
Begin(r, kind) ==
    LET stage == CASE initialized = "failed" -> "over"
                   [] initialized = "yes" -> "opening"
                   [] OTHER -> "initializing"
    IN  /\ run[r].stage = "idle"
        /\ run' = [run EXCEPT ![r] =
                     [NoRun EXCEPT !.stage = stage, !.kind = kind,
                                   !.outcome = IF stage = "over" THEN "error" ELSE "none"]]
        /\ initialized' = IF initialized = "no" THEN "asked" ELSE initialized
        /\ Send(CASE initialized = "no" -> {Initialize}
                  [] stage = "opening" -> {Request("thread", r)}
                  [] OTHER -> {})
        /\ UNCHANGED <<alive, queue, activeTurns, steer, interrupts, lines, turn>>

(* session_initialized has been taken and the input is built.              *)
Ask(r) ==
    /\ run[r].stage = "opened"
    /\ run' = [run EXCEPT ![r].stage = "asking"]
    /\ Send({Request(IF run[r].kind = "compact" THEN "compact" ELSE "turn", r)})
    /\ UNCHANGED <<alive, initialized, queue, activeTurns, steer, interrupts, lines, turn>>

(* The abort listener, there once the turn is known; it names the turn the *)
(* run began with.  Nobody waits for the answer, which is left out.        *)
Interrupt(R) == interrupts' = IF alive THEN interrupts \cup R ELSE interrupts

Stop(r) ==
    /\ Subscribed(r) /\ ~run[r].stopped
    /\ run' = [run EXCEPT ![r].stopped = TRUE]
    /\ Interrupt(IF Listening(r) /\ run[r].kind = "prompt" THEN {r} ELSE {})
    /\ UNCHANGED <<alive, initialized, queue, activeTurns, steer, pending, asked, lines, turn>>

-----------------------------------------------------------------------------
(* handleLine: answers.  One that nobody waits for any more is dropped.    *)

Line == Head(lines)
LineRead == lines /= <<>> /\ lines' = Tail(lines)

AnswerDropped ==
    /\ LineRead
    /\ Line.type \in {"answer", "refusal"} /\ Line.req \notin pending
    /\ UNCHANGED <<alive, clientVars, asked, interrupts, turn>>

Answered(method) ==
    /\ LineRead
    /\ Line.type = "answer" /\ Line.req \in pending /\ Line.req.method = method

InitializeAnswered ==
    LET waiting == {r \in Runs : run[r].stage = "initializing"}
        opens == {Request("thread", r) : r \in waiting}
    IN  /\ Answered("initialize")
        /\ initialized' = "yes"
        /\ run' = [r \in Runs |->
                     IF r \in waiting THEN [run[r] EXCEPT !.stage = "opening"] ELSE run[r]]
        /\ pending' = (pending \ {Line.req}) \cup opens
        /\ asked' = IF alive THEN asked \cup opens ELSE asked
        /\ UNCHANGED <<alive, queue, activeTurns, steer, interrupts, turn>>

ThreadAnswered ==
    /\ Answered("thread")
    /\ run' = [run EXCEPT ![Line.req.by].stage = "opened"]
    /\ pending' = pending \ {Line.req}
    /\ UNCHANGED <<alive, initialized, queue, activeTurns, steer, asked, interrupts, turn>>

(* Mutant of TurnAnswered: a run stopped before is not interrupted. *)
TurnAnsweredTooLate ==
    LET r == Line.req.by
    IN  /\ Answered("turn")
        /\ run' = [run EXCEPT ![r].stage = "listening", ![r].current = r, ![r].observed = {r}]
        /\ activeTurns' = [activeTurns EXCEPT ![ThreadOf[r]] = r]
        /\ pending' = pending \ {Line.req}
        /\ UNCHANGED <<alive, initialized, queue, steer, asked, interrupts, turn>>

TurnAnswered ==
    LET r == Line.req.by
    IN  /\ Answered("turn")
        /\ run' = [run EXCEPT ![r].stage = "listening", ![r].current = r, ![r].observed = {r}]
        /\ activeTurns' = [activeTurns EXCEPT ![ThreadOf[r]] = r]
        /\ pending' = pending \ {Line.req}
        /\ Interrupt(IF run[r].stopped THEN {r} ELSE {})
        /\ UNCHANGED <<alive, initialized, queue, steer, asked, turn>>

(* A compaction accepts every turn of its thread, cannot be interrupted,   *)
(* and is not there to be steered.                                         *)
CompactAnswered ==
    /\ Answered("compact")
    /\ run' = [run EXCEPT ![Line.req.by].stage = "listening"]
    /\ pending' = pending \ {Line.req}
    /\ UNCHANGED <<alive, initialized, queue, activeTurns, steer, asked, interrupts, turn>>

(* Mutant of SteerAnswered: the turn id is not found in the answer. *)
SteerAnsweredUnread ==
    LET k == Line.req.by
        r == steer[k].run
    IN  /\ Answered("steer")
        /\ run' = [run EXCEPT ![r].current = None, ![r].observed = @ \cup {None}]
        /\ steer' = [steer EXCEPT ![k].stage = "over"]
        /\ pending' = pending \ {Line.req}
        /\ UNCHANGED <<alive, initialized, queue, activeTurns, asked, interrupts, turn>>

(* The entry the steer call took is written, be its run over by now.       *)
SteerAnswered ==
    LET k == Line.req.by
        r == steer[k].run
    IN  /\ Answered("steer")
        /\ run' = [run EXCEPT ![r].current = Line.turn, ![r].observed = @ \cup {Line.turn}]
        /\ steer' = [steer EXCEPT ![k].stage = "over"]
        /\ pending' = pending \ {Line.req}
        /\ UNCHANGED <<alive, initialized, queue, activeTurns, asked, interrupts, turn>>

RefusalRead ==
    /\ LineRead
    /\ Line.type = "refusal" /\ Line.req \in pending
    /\ Rejected({Line.req})
    /\ pending' = pending \ {Line.req}
    /\ UNCHANGED <<alive, asked, interrupts, turn>>

(* The timer of a request.                                                 *)
TimesOut(q) ==
    /\ q \in pending
    /\ Rejected({q})
    /\ pending' = pending \ {q}
    /\ UNCHANGED <<alive, serverVars>>

(* The process exits; what it had written may still be read.               *)
Exit ==
    /\ alive
    /\ alive' = FALSE
    /\ asked' = {} /\ interrupts' = {}
    /\ Rejected(pending)
    /\ pending' = {}
    /\ UNCHANGED <<lines, turn>>

-----------------------------------------------------------------------------
(* Notifications.  They are put into the queue of every run that is        *)
(* subscribed; the normalizer drops what is not of its turns.              *)

NotificationRead ==
    /\ LineRead
    /\ Line.type \in Methods
    /\ queue' = [r \in Runs |-> IF Subscribed(r) THEN Append(queue[r], Line) ELSE queue[r]]
    /\ UNCHANGED <<alive, initialized, run, activeTurns, steer, pending, asked, interrupts, turn>>

ThreadOfTurn(t) == ThreadOf[IF t \in Runs THEN t ELSE steer[t].run]

(* Mutant of IsForTurn: every turn of the thread counts. *)
IsForThread(r, n) == ThreadOfTurn(n.turn) = ThreadOf[r]

(* isNotificationForTurn                                                   *)
IsForTurn(r, n) ==
    /\ ThreadOfTurn(n.turn) = ThreadOf[r]
    /\ run[r].kind = "compact" \/ n.turn \in run[r].observed

IsCurrentTurn(r, n) == run[r].kind = "compact" \/ n.turn = run[r].current

(* normalizeCodexTurnNotifications.  An error is reported and the loop     *)
(* goes on; a final answer, or the end of the turn, only counts for the    *)
(* current turn, an abort for any.  The end may say that the turn failed.  *)
Normalize(r) ==
    LET n == Head(queue[r])
        ends == /\ IsForTurn(r, n)
                /\ \/ n.type = "aborted"
                   \/ n.type \in {"final", "completed", "failed"} /\ IsCurrentTurn(r, n)
    IN  /\ Listening(r) /\ queue[r] /= <<>>
        /\ IF ends
           THEN Ended({r}, CASE n.type = "aborted" -> "aborted"
                             [] n.type = "failed" -> "error"
                             [] n.type = "completed" /\ run[r].erred -> "error"
                             [] OTHER -> "done")
           ELSE /\ queue' = [queue EXCEPT ![r] = Tail(@)]
                /\ run' = [run EXCEPT ![r].erred =
                             @ \/ (n.type = "error" /\ IsForTurn(r, n))]
                /\ UNCHANGED activeTurns
        /\ UNCHANGED <<alive, initialized, steer, pending, serverVars>>

-----------------------------------------------------------------------------
(* steerCodingSession takes the entry first; the id of its turn is read    *)
(* when the request is sent.                                               *)
TakeTurn(k, th) ==
    /\ steer[k] = NoSteer
    /\ activeTurns[th] # None
    /\ steer' = [steer EXCEPT ![k] = [stage |-> "preparing", run |-> activeTurns[th]]]
    /\ UNCHANGED <<alive, initialized, run, queue, activeTurns, pending, serverVars>>

AskToSteer(k) ==
    /\ steer[k].stage = "preparing"
    /\ steer' = [steer EXCEPT ![k].stage = "asked"]
    /\ Send({[method |-> "steer", by |-> k, of |-> run[steer[k].run].current]})
    /\ UNCHANGED <<alive, initialized, run, queue, activeTurns, interrupts, lines, turn>>

-----------------------------------------------------------------------------
(* The server.  It handles requests in any order and answers a steer       *)
(* before it reports anything of the turn; the first notifications of a    *)
(* turn it starts may be ahead of the answer.                              *)

Write(out) ==
    /\ alive
    /\ Len(lines) + Len(out) <= MaxLines
    /\ lines' = lines \o out

Answer(q, t) == [type |-> "answer", req |-> q, turn |-> t]
Refusal(q) == [type |-> "refusal", req |-> q, turn |-> None]
Note(type, t) == [type |-> type, turn |-> t]

Handled(q) ==
    /\ q \in asked
    /\ asked' = asked \ {q}
    /\ UNCHANGED <<alive, clientVars, interrupts>>

InProgress(t) == turn[t] \in {"running", "finishing"}

Refuses(q) ==
    /\ Handled(q) /\ Write(<<Refusal(q)>>)
    /\ UNCHANGED turn

(* What begins a turn is answered later, or never.                         *)
BeginsTurn(q) ==
    /\ Handled(q) /\ alive
    /\ q.method \in {"turn", "compact"}
    /\ turn' = [turn EXCEPT ![q.by] = "running"]
    /\ UNCHANGED lines

AnswersTurn(r) ==
    LET q == Request(IF run[r].kind = "compact" THEN "compact" ELSE "turn", r)
    IN  /\ turn[r] # "none" /\ q \in pending
        /\ ~\E i \in DOMAIN lines : lines[i] = Answer(q, None)
        /\ Write(<<Answer(q, None)>>)
        /\ UNCHANGED <<alive, clientVars, asked, interrupts, turn>>

Serves(q) ==
    /\ Handled(q) /\ Write(<<Answer(q, None)>>)
    /\ q.method \in {"initialize", "thread"}
    /\ UNCHANGED turn

(* Only a turn that is running is interrupted or steered.                  *)
Interrupts(t) ==
    /\ t \in interrupts
    /\ interrupts' = interrupts \ {t}
    /\ IF InProgress(t)
       THEN /\ turn' = [turn EXCEPT ![t] = "ended"]
            /\ Write(<<Note("aborted", t)>>)
       ELSE /\ alive
            /\ UNCHANGED <<turn, lines>>
    /\ UNCHANGED <<alive, clientVars, asked>>

SteersInPlace(q) ==
    /\ Handled(q)
    /\ q.method = "steer" /\ turn[q.of] = "running"
    /\ Write(<<Answer(q, q.of)>>)
    /\ UNCHANGED turn

SteersIntoNewTurn(q) ==
    /\ Handled(q)
    /\ q.method = "steer" /\ turn[q.of] = "running"
    /\ turn' = [turn EXCEPT ![q.of] = "ended", ![q.by] = "running"]
    /\ Write(<<Answer(q, q.by), Note("completed", q.of)>>)

ReportsError(t) ==
    /\ turn[t] = "running"
    /\ Write(<<Note("error", t)>>)
    /\ UNCHANGED <<alive, clientVars, asked, interrupts, turn>>

(* The final answer is there a moment before the turn is over.             *)
FinalAnswer(t) ==
    /\ turn[t] = "running"
    /\ turn' = [turn EXCEPT ![t] = "finishing"]
    /\ Write(<<Note("final", t)>>)
    /\ UNCHANGED <<alive, clientVars, asked, interrupts>>

Completes(t) ==
    /\ InProgress(t)
    /\ turn' = [turn EXCEPT ![t] = "ended"]
    /\ \E type \in {"completed", "failed"} : Write(<<Note(type, t)>>)
    /\ UNCHANGED <<alive, clientVars, asked, interrupts>>

Reads ==
    \/ AnswerDropped \/ InitializeAnswered \/ ThreadAnswered \/ TurnAnswered
    \/ CompactAnswered \/ SteerAnswered
    \/ RefusalRead \/ NotificationRead

Server ==
    \/ \E q \in asked :
          Refuses(q) \/ BeginsTurn(q) \/ Serves(q)
          \/ SteersInPlace(q) \/ SteersIntoNewTurn(q)
    \/ \E r \in Runs : AnswersTurn(r)
    \/ \E t \in Turns : 
          ReportsError(t) \/ FinalAnswer(t) \/ Completes(t) \/ Interrupts(t)

Next ==
    \/ \E r \in Runs :
          \/ \E kind \in {"prompt", "compact"} : Begin(r, kind)
          \/ Ask(r) \/ Stop(r) \/ Normalize(r)
    \/ \E k \in Steers : AskToSteer(k)
    \/ \E k \in Steers, th \in Threads : TakeTurn(k, th)
    \/ Reads
    \/ \E q \in pending : TimesOut(q)
    \/ Exit
    \/ Server

Spec == Init /\ [][Next]_vars

(* The event loop reads and runs what it can, timers fire, and the server  *)
(* handles an interrupt; that it ever ends a turn by itself is not assumed. *)
CodexFairness ==
    /\ WF_vars(Reads)
    /\ \A r \in Runs : WF_vars(Ask(r)) /\ WF_vars(Normalize(r))
    /\ WF_vars(\E q \in pending : TimesOut(q))
    /\ \A r \in Runs : SF_vars(Interrupts(r))

FairSpec == Spec /\ CodexFairness

(***************************************************************************)
(* Properties                                                              *)
(***************************************************************************)
CodexTypeOK ==
    /\ alive \in BOOLEAN
    /\ initialized \in {"no", "asked", "yes", "failed"}
    /\ run \in [Runs -> RunRecords]
    /\ queue \in [Runs -> Seq(Lines)]
    /\ activeTurns \in [Threads -> Runs \cup {None}]
    /\ steer \in [Steers -> SteerRecords]
    /\ pending \subseteq Requests /\ asked \subseteq Requests
    /\ lines \in Seq(Lines)
    /\ turn \in [Turns -> {"none", "running", "finishing", "ended"}]

(* A prompt is reported as done, or as aborted, only after its own turn    *)
(* was, however many turns its thread has had and whatever the server      *)
(* still says of them; if it was steered into another turn, that one.  And *)
(* whoever steers a thread finds a run that is listening.                  *)
RunsFollowTheirTurns ==
    /\ \A r \in Runs : run[r].kind = "prompt" =>
         /\ run[r].outcome = "done" => turn[run[r].current] \in {"finishing", "ended"}
         /\ run[r].outcome = "aborted" => \E t \in run[r].observed : turn[t] = "ended"
    /\ \A th \in Threads : activeTurns[th] # None => Listening(activeTurns[th])

(* A prompt that is stopped comes to its end, whether its turn was known   *)
(* by then or not, although nobody but the server can end a turn.  There   *)
(* are two exceptions: a run that listens is not told that the process has *)
(* died, and one steered into another turn interrupts the one before.      *)
Unstoppable(r) ==
    /\ Listening(r)
    /\ ~alive \/ run[r].current # r

StoppedRunsEnd ==
    \A r \in Runs :
        run[r].kind = "prompt" /\ run[r].stopped
        ~> (run[r].stage = "over" \/ Unstoppable(r))
=============================================================================
