-------------------------- MODULE RolloverScheduler --------------------------
(***************************************************************************)
(* When an idle session is rolled over: RolloverScheduler                  *)
(* (rollover/scheduler.ts) on top of ExecutionCoordinator, wired as        *)
(* create-agent-runtime.ts does it.                                        *)
(*                                                                         *)
(* The scheduler has one timer and no poll.  Whenever it is told that      *)
(* something changed it looks again: a rollover that is not due yet arms   *)
(* the timer, one that is due is attempted at once, and an attempt that    *)
(* finds the session busy or absent is simply dropped, to be made again at *)
(* the next change.  So each change that could make a rollover possible    *)
(* has to be announced.                                                    *)
(***************************************************************************)
EXTENDS ExecutionCoordinator

VARIABLES
    elapsed,   \* idleMinutes have passed since the last prompt of a user
    timer,     \* timerId is set
    checking   \* noteStateChanged is about to call attemptRollover

schedulerVars == <<elapsed, timer, checking>>
rolloverSystem == <<vars, schedulerVars>>

-----------------------------------------------------------------------------
(* Mutant of NoteStateChanged: a rollover that is not due yet is attempted. *)
NoteStateChangedEarly ==
    /\ timer' = FALSE
    /\ checking' = RolloverDue'

(* noteStateChanged, on the state its caller has left                      *)
NoteStateChanged ==
    /\ timer' = (RolloverDue' /\ ~elapsed')
    /\ checking' = (RolloverDue' /\ elapsed')

(* attemptRollover.  A timer that fires does not look at the clock again.  *)
Attempt ==
    /\ checking
    /\ checking' = FALSE
    /\ IF RolloverPossible THEN EnqueueRollover ELSE UNCHANGED vars
    /\ UNCHANGED <<elapsed, timer>>

TimerFires ==
    /\ Quiet /\ ~checking
    /\ timer /\ elapsed
    /\ timer' = FALSE
    /\ checking' = TRUE
    /\ UNCHANGED <<vars, elapsed>>

IdleMinutesPass ==
    /\ Quiet /\ ~checking
    /\ ~elapsed
    /\ elapsed' = TRUE
    /\ UNCHANGED <<vars, timer, checking>>

-----------------------------------------------------------------------------
(* What the coordinator and the session service do, and whether they tell  *)
(* the scheduler of it: onAcceptedInteractivePrompt, onSessionStateChange  *)
(* and onExecutionStateChange.                                             *)

UserPrompt ==
    /\ ~checking
    /\ \E source \in Interactive : EnqueuePrompt(source)
    /\ elapsed' = FALSE
    /\ NoteStateChanged

OtherWork ==
    /\ ~checking
    /\ EnqueueAgentPrompt \/ EnqueueHeartbeat
    /\ UNCHANGED schedulerVars

(* beginRolloverAttempt clears the session; a rollover without one to work *)
(* on is over at once.                                                     *)
LaneTurn(i) ==
    /\ ~checking
    /\ Turn(i)
    /\ UNCHANGED elapsed
    /\ IF lanes[i].queue # <<>> /\ Head(lanes[i].queue).source = "rollover"
       THEN NoteStateChanged
       ELSE UNCHANGED <<timer, checking>>

SessionReported(i) ==
    /\ ~checking
    /\ SessionInitialized(i)
    /\ UNCHANGED elapsed
    /\ IF lanes'[i].stage = "reported"
       THEN NoteStateChanged
       ELSE UNCHANGED <<timer, checking>>

QuietEvent(i) ==
    /\ ~checking
    /\ Resolve(i) \/ Done(i) \/ ErrorAfterDone(i)
    /\ UNCHANGED schedulerVars

(* Mutant of RunOver: the end of a run is not announced. *)
RunOverUnannounced(i) ==
    /\ ~checking
    /\ RunnerReturns(i) \/ Settled(i)
    /\ UNCHANGED schedulerVars

(* onStatusChange in the finally blocks of the lane                        *)
RunOver(i) ==
    /\ ~checking
    /\ RunnerReturns(i) \/ Settled(i)
    /\ UNCHANGED elapsed
    /\ IF lanes'[i].stage = "next"
       THEN NoteStateChanged
       ELSE UNCHANGED <<timer, checking>>

(* /new, /session and a deletion announce that another conversation became *)
(* visible; choosing a model, or deleting a hidden session, is silent.     *)
Command ==
    /\ ~checking
    /\ Stop \/ ChangeView \/ Delete
    /\ UNCHANGED elapsed
    /\ IF generation' # generation
       THEN NoteStateChanged
       ELSE UNCHANGED <<timer, checking>>

(* AgentRuntime.stop(): the timer goes before the coordinator closes.      *)
Shutdown ==
    /\ ~checking
    /\ BeginShutdown
    /\ timer' = FALSE
    /\ UNCHANGED <<elapsed, checking>>

(* The new daemon starts its scheduler over the store it has opened.       *)
CrashAndStart ==
    /\ Crash
    /\ UNCHANGED elapsed
    /\ NoteStateChanged

-----------------------------------------------------------------------------
RolloverInit ==
    /\ Init
    /\ elapsed = FALSE
    /\ timer = FALSE
    /\ checking = FALSE

Work ==
    \/ UserPrompt
    \/ OtherWork
    \/ \E i \in DOMAIN lanes :
          LaneTurn(i) \/ SessionReported(i) \/ QuietEvent(i) \/ RunOver(i)

Intervention == Command \/ Shutdown \/ CrashAndStart

RolloverNext ==
    \/ Work
    \/ Intervention
    \/ Attempt
    \/ TimerFires
    \/ IdleMinutesPass

RolloverSpec == RolloverInit /\ [][RolloverNext]_rolloverSystem

(***************************************************************************)
(* Properties                                                              *)
(***************************************************************************)

(* No rollover is forgotten: once one has become possible, the timer is    *)
(* still set for it.  Whatever stood in its way -- a visible run, a blank  *)
(* or read-only conversation, another rollover, a daemon that was down --  *)
(* has been announced when it went away.                                   *)
NoRolloverMissed ==
    Quiet /\ ~checking /\ elapsed /\ RolloverPossible => timer

(* A session is taken off the screen only after the user has been away for *)
(* idleMinutes, and only once for each time of being away: what was true   *)
(* when the rollover was asked for still is when its turn comes.  And it   *)
(* is the session the rollover resumes: "Previous session auto-finalized   *)
(* after 8h idle" (session-service.ts:809).  The exceptions are about a    *)
(* rollover that had to wait, which happens when it is asked for at the    *)
(* end of a run while the next prompt of the lane waits: runRollover asks  *)
(* only whether some session is visible, not whether the user has come     *)
(* back or has moved to another conversation since.                        *)
OnlyIdleSessionsRollOver ==
    [][\A i \in DOMAIN lanes : LaneTurn(i) /\ BeginRolloverAttempt
         => LET rollover == Head(lanes[i].queue)
            IN  /\ RolloverDue
                /\ elapsed \/ lastInteractive # rollover.at
                /\ sessionId = lanes'[i].run.resume \/ generation # rollover.ctx.gen
       ]_rolloverSystem
=============================================================================
