------------------------- MODULE HeartbeatScheduler -------------------------
(***************************************************************************)
(* When an agent is given a heartbeat: HeartbeatScheduler                  *)
(* (heartbeat/scheduler.ts), HeartbeatRuntimePolicy                        *)
(* (heartbeat/runtime-policy.ts), and what RuntimeExecutionCoordinator     *)
(* does between a request and the end of the heartbeat's run.              *)
(*                                                                         *)
(* A tick finds the user active and defers the heartbeat to a timer of the *)
(* policy, or requests it, or skips it; each way has to leave exactly one  *)
(* timer armed.  Timers and times are counted down to their due date, so   *)
(* that the model runs for ever.  A timer may fire late, and up to Slack   *)
(* early, because setTimeout and Date.now are different clocks.            *)
(*                                                                         *)
(* The lane is reduced to the heartbeat's own task: it waits in a queue    *)
(* for any time, then runs for any time.                                   *)
(***************************************************************************)
EXTENDS Integers

CONSTANTS
    Interval,   \* config.intervalMinutes
    Defer,      \* config.deferMinutes
    Slack,      \* by how much a timer may be early
    Sessions,   \* provider sessions that may be visible
    ReadOnly,   \* those whose provider runs no prompts
    NoSession   \* the visible conversation is blank

(* A scheduler with intervalMinutes = 0 never does anything.               *)
ASSUME HeartbeatAssumption ==
    /\ Interval \in Nat \ {0}
    /\ Defer \in Nat
    /\ Slack \in Nat
    /\ ReadOnly \subseteq Sessions
    /\ NoSession \notin Sessions

VARIABLES
    tickIn,    \* time left on the scheduler's timer, or Off
    deferIn,   \* time left on the policy's defer timer, or Off
    deferred,  \* the flag shown to clients
    nextIn,    \* nextHeartbeatAt shown to clients, as time left, or Off
    quietFor,  \* time since the last prompt of the user, up to Defer
    content,   \* HEARTBEAT.md has something to say
    session,   \* the visible session
    beat,      \* the heartbeat accepted by the coordinator, if any
    stopped

timers == <<tickIn, deferIn>>
shown == <<deferred, nextIn>>
world == <<content, session>>
vars == <<timers, shown, quietFor, world, beat, stopped>>

Off == -1
Conversations == Sessions \cup {NoSession}

(* age is the time since the heartbeat was scheduled, up to Defer;         *)
(* overtaken says that userActivityAt is later than that.                  *)
Beats == [stage : {"none", "queued", "running"}, session : Conversations,
          age : 0..Defer, overtaken : BOOLEAN]

NoBeat == [stage |-> "none", session |-> NoSession, age |-> 0, overtaken |-> FALSE]

-----------------------------------------------------------------------------
(* HeartbeatRuntimePolicy.shouldAttempt                                    *)
ShouldAttempt ==
    IF session = NoSession \/ beat.stage # "none" THEN "skip"
    ELSE IF Defer = 0 \/ quietFor >= Defer THEN "attempt"
    ELSE "defer"

(* enqueueHeartbeat asks again, and refuses silently.                      *)
EnqueueHeartbeat ==
    beat' = IF ~stopped /\ session \notin ReadOnly /\ ShouldAttempt = "attempt"
            THEN [NoBeat EXCEPT !.stage = "queued", !.session = session]
            ELSE beat

ScheduleTimer == tickIn' = Interval

(* The request is answered at once, so that nothing gets in between.       *)
FireHeartbeat ==
    /\ EnqueueHeartbeat
    /\ deferred' = FALSE
    /\ nextIn' = Interval
    /\ ScheduleTimer

NoContent ==
    /\ deferred' = FALSE
    /\ nextIn' = Off
    /\ ScheduleTimer
    /\ UNCHANGED beat

(* Mutant of DeferHeartbeat: the time left is computed the wrong way round. *)
DeferHeartbeatSwapped ==
    /\ deferred' = TRUE
    /\ deferIn' = quietFor - Defer
    /\ tickIn' = Off
    /\ UNCHANGED <<nextIn, beat>>

(* onDeferred, that is startDeferTimer                                     *)
DeferHeartbeat ==
    /\ deferred' = TRUE
    /\ deferIn' = Defer - quietFor
    /\ tickIn' = Off
    /\ UNCHANGED <<nextIn, beat>>

(* Mutant of SkipHeartbeat: the shown time stays in the past. *)
SkipHeartbeatSilently ==
    /\ deferred' = FALSE
    /\ ScheduleTimer
    /\ UNCHANGED <<nextIn, beat>>

SkipHeartbeat ==
    /\ deferred' = FALSE
    /\ nextIn' = Interval
    /\ ScheduleTimer
    /\ UNCHANGED beat

Tick ==
    /\ tickIn \in 0..Slack
    /\ IF content /\ ShouldAttempt = "defer"
       THEN DeferHeartbeat
       ELSE /\ IF ~content THEN NoContent
               ELSE IF ShouldAttempt = "skip" THEN SkipHeartbeat
               ELSE FireHeartbeat
            /\ UNCHANGED deferIn
    /\ UNCHANGED <<quietFor, world, stopped>>

FireDeferred ==
    /\ deferIn \in 0..Slack
    /\ deferIn' = Off
    /\ IF content THEN FireHeartbeat ELSE NoContent
    /\ UNCHANGED <<quietFor, world, stopped>>

-----------------------------------------------------------------------------
(* An accepted prompt of the user: noteUserActivity                        *)
UserPrompt ==
    /\ ~stopped
    /\ session \notin ReadOnly
    /\ quietFor' = 0
    /\ deferIn' = IF deferIn = Off THEN Off ELSE Defer
    /\ beat' = [beat EXCEPT !.overtaken =
                   @ \/ (beat.stage = "queued" /\ beat.age > 0)]
    /\ UNCHANGED <<tickIn, shown, world, stopped>>

(* Mutant of RunHeartbeat: what the user has done since is not looked at. *)
RunHeartbeatAnyway ==
    /\ beat.stage = "queued"
    /\ beat' = IF session # beat.session
               THEN NoBeat
               ELSE [beat EXCEPT !.stage = "running"]
    /\ UNCHANGED <<timers, shown, quietFor, world, stopped>>

(* Mutant of RunHeartbeat: a stale heartbeat leaves its flag up. *)
RunHeartbeatForgets ==
    /\ beat.stage = "queued"
    /\ session = beat.session
    /\ ~beat.overtaken
    /\ beat' = [beat EXCEPT !.stage = "running"]
    /\ UNCHANGED <<timers, shown, quietFor, world, stopped>>

(* runHeartbeat, when the lane gets to it                                  *)
RunHeartbeat ==
    /\ beat.stage = "queued"
    /\ beat' = IF session # beat.session \/ beat.overtaken
               THEN NoBeat
               ELSE [beat EXCEPT !.stage = "running"]
    /\ UNCHANGED <<timers, shown, quietFor, world, stopped>>

CompleteHeartbeat ==
    /\ beat.stage = "running"
    /\ beat' = NoBeat
    /\ UNCHANGED <<timers, shown, quietFor, world, stopped>>

(* Another conversation becomes visible; the user edits HEARTBEAT.md.      *)
ChangeSession ==
    /\ session' \in Conversations \ {session}
    /\ UNCHANGED <<timers, shown, quietFor, content, beat, stopped>>

ChangeContent ==
    /\ content' = ~content
    /\ UNCHANGED <<timers, shown, quietFor, session, beat, stopped>>

(* Mutant of Stop: the policy's timer is left to itself. *)
StopScheduler ==
    /\ ~stopped
    /\ stopped' = TRUE
    /\ tickIn' = Off
    /\ deferred' = FALSE
    /\ nextIn' = Off
    /\ UNCHANGED <<deferIn, quietFor, world, beat>>

(* AgentRuntime.stop(): the scheduler's stop() and the coordinator's       *)
(* beginShutdown(), which discards a heartbeat that waits.                 *)
Stop ==
    /\ ~stopped
    /\ stopped' = TRUE
    /\ tickIn' = Off
    /\ deferIn' = Off
    /\ deferred' = FALSE
    /\ nextIn' = Off
    /\ beat' = IF beat.stage = "queued" THEN NoBeat ELSE beat
    /\ UNCHANGED <<quietFor, world>>

-----------------------------------------------------------------------------
Less(t) == IF t > 0 THEN t - 1 ELSE t
More(t) == IF t < Defer THEN t + 1 ELSE t

Elapse ==
    /\ tickIn' = Less(tickIn)
    /\ deferIn' = Less(deferIn)
    /\ nextIn' = Less(nextIn)
    /\ quietFor' = More(quietFor)
    /\ beat' = IF beat.stage = "queued" THEN [beat EXCEPT !.age = More(@)] ELSE beat
    /\ UNCHANGED <<deferred, world, stopped>>

(* start(), on a policy whose user counts as just active                   *)
Init ==
    /\ content \in BOOLEAN
    /\ session \in Conversations
    /\ tickIn = Interval
    /\ deferIn = Off
    /\ deferred = FALSE
    /\ nextIn = IF content THEN Interval ELSE Off
    /\ quietFor = 0
    /\ beat = NoBeat
    /\ stopped = FALSE

Next ==
    \/ Tick
    \/ FireDeferred
    \/ UserPrompt
    \/ RunHeartbeat
    \/ CompleteHeartbeat
    \/ ChangeSession
    \/ ChangeContent
    \/ Stop
    \/ Elapse

Spec == Init /\ [][Next]_vars

(* Time passes, timers that are due fire, the lane gets to what waits in   *)
(* it, and the run of a heartbeat ends.                                    *)
Fairness ==
    /\ WF_vars(Elapse)
    /\ WF_vars(Tick)
    /\ WF_vars(FireDeferred)
    /\ WF_vars(RunHeartbeat)
    /\ WF_vars(CompleteHeartbeat)

FairSpec == Spec /\ Fairness

(***************************************************************************)
(* Properties                                                              *)
(***************************************************************************)
TypeOK ==
    /\ tickIn \in 0..Interval \cup {Off}
    /\ deferIn \in 0..Defer \cup {Off}
    /\ deferred \in BOOLEAN
    /\ nextIn \in 0..Interval \cup {Off}
    /\ quietFor \in 0..Defer
    /\ content \in BOOLEAN
    /\ session \in Conversations
    /\ beat \in Beats
    /\ stopped \in BOOLEAN

(* A running scheduler always has exactly one timer to wake it up, its own *)
(* or the policy's, and shows which; a stopped one has none.  With no      *)
(* timer there would never be a heartbeat again; with two, a second series *)
(* of heartbeats would start.                                              *)
OneTimerArmed ==
    IF stopped
    THEN tickIn = Off /\ deferIn = Off /\ ~deferred
    ELSE (tickIn = Off <=> deferred) /\ (deferIn # Off <=> deferred)

(* The time clients are shown is the time the timer is set for.            *)
ShownTimeIsTheTimers ==
    nextIn # Off /\ ~deferred => nextIn = tickIn

(* A heartbeat begins only when the user had been quiet for deferMinutes   *)
(* when it was scheduled, and has sent nothing since, however long it      *)
(* waited; a prompt of the very instant it was scheduled in goes unseen    *)
(* (userActivityAt > scheduledAt).                                         *)
HeartbeatsLeaveTheUserAlone ==
    [][beat.stage = "queued" /\ beat'.stage = "running"
         => quietFor = Defer \/ quietFor = beat.age]_vars

(* When things stay as they should be -- a writable session in view,       *)
(* something in HEARTBEAT.md, a user who is away -- heartbeats go on being *)
(* run, whatever was deferred, skipped, refused or stale before.           *)
Calm(s) == session = s /\ content /\ ~stopped /\ quietFor = Defer

HeartbeatsGoOn ==
    \A s \in Sessions \ ReadOnly : <>[]Calm(s) => []<>(beat.stage = "running")
=============================================================================
