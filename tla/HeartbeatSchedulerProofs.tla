---------------------- MODULE HeartbeatSchedulerProofs ----------------------
(***************************************************************************)
(* The safety of HeartbeatScheduler, for every interval, defer time and    *)
(* earliness of timers, and any set of sessions.                           *)
(***************************************************************************)
EXTENDS HeartbeatScheduler, TLAPS

(* Why a heartbeat that waits may still be run: nobody has written since   *)
(* it was scheduled, unless in that very instant.                          *)
WaitingIsQuiet ==
    beat.stage = "queued" /\ ~beat.overtaken
        => quietFor = Defer \/ quietFor = beat.age

IInv == TypeOK /\ OneTimerArmed /\ ShownTimeIsTheTimers /\ WaitingIsQuiet

-----------------------------------------------------------------------------
(* Counting down neither arms a timer nor disarms one; counting up stays   *)
(* within Defer.                                                           *)
LEMMA LessIsDown ==
    ASSUME NEW limit \in Nat, NEW t \in 0..limit \cup {Off}
    PROVE  Less(t) \in 0..limit \cup {Off} /\ (Less(t) = Off <=> t = Off)
  BY DEF Less, Off

LEMMA MoreIsUp ==
    ASSUME NEW t \in 0..Defer
    PROVE  More(t) \in 0..Defer /\ (t = Defer => More(t) = Defer)
  BY HeartbeatAssumption DEF More

(* A request leaves a heartbeat as it was, or makes one of a user who has  *)
(* been quiet for long enough.                                             *)
LEMMA EnqueuedIsQuiet ==
    ASSUME IInv, EnqueueHeartbeat
    PROVE  /\ beat' \in Beats
           /\ beat' # beat => beat'.stage = "queued" /\ quietFor = Defer
  <1>1. CASE ~(~stopped /\ session \notin ReadOnly /\ ShouldAttempt = "attempt")
    BY <1>1 DEF IInv, TypeOK, EnqueueHeartbeat
  <1>2. CASE ~stopped /\ session \notin ReadOnly /\ ShouldAttempt = "attempt"
    <2>1. beat' = [NoBeat EXCEPT !.stage = "queued", !.session = session]
      BY <1>2 DEF EnqueueHeartbeat
    <2>2. beat' = [stage |-> "queued", session |-> session, age |-> 0, overtaken |-> FALSE]
      BY <2>1 DEF NoBeat
    <2>3. beat' \in Beats /\ beat'.stage = "queued"
      BY <2>2, HeartbeatAssumption DEF IInv, TypeOK, Beats
    <2>4. quietFor = Defer
      BY <1>2, HeartbeatAssumption DEF ShouldAttempt, IInv, TypeOK
    <2>5. QED
      BY <2>3, <2>4
  <1>3. QED
    BY <1>1, <1>2

LEMMA NoBeatIsABeat == NoBeat \in Beats /\ NoBeat.stage = "none"
  BY HeartbeatAssumption DEF NoBeat, Beats, Conversations

LEMMA InitIsSafe == Init => IInv
  <1> SUFFICES ASSUME Init PROVE IInv
    OBVIOUS
  <1>1. TypeOK
    <2>1. tickIn \in 0..Interval /\ nextIn \in 0..Interval \cup {Off} /\ quietFor \in 0..Defer
      BY HeartbeatAssumption DEF Init
    <2>2. QED
      BY <2>1, NoBeatIsABeat DEF Init, TypeOK
  <1>2. OneTimerArmed /\ ShownTimeIsTheTimers
    BY HeartbeatAssumption DEF Init, OneTimerArmed, ShownTimeIsTheTimers, Off
  <1>3. WaitingIsQuiet
    BY NoBeatIsABeat DEF Init, WaitingIsQuiet
  <1>4. QED
    BY <1>1, <1>2, <1>3 DEF IInv

-----------------------------------------------------------------------------
(* The three ways a tick or a deferred heartbeat can end with the          *)
(* scheduler's own timer armed.                                            *)
LEMMA RescheduledIsSafe ==
    ASSUME IInv, deferIn' = Off, ~stopped,
           NoContent \/ SkipHeartbeat \/ FireHeartbeat,
           UNCHANGED <<quietFor, world, stopped>>
    PROVE  IInv'
  <1>1. tickIn' = Interval /\ deferred' = FALSE /\ nextIn' \in {Interval, Off}
    BY DEF NoContent, SkipHeartbeat, FireHeartbeat, ScheduleTimer
  <1>2. beat' = beat \/ (beat' \in Beats /\ quietFor = Defer)
    BY EnqueuedIsQuiet DEF NoContent, SkipHeartbeat, FireHeartbeat
  <1>3. TypeOK'
    <2>1. tickIn' \in 0..Interval /\ nextIn' \in 0..Interval \cup {Off}
      BY <1>1, HeartbeatAssumption
    <2>2. beat' \in Beats
      BY <1>2 DEF IInv, TypeOK
    <2>3. QED
      BY <1>1, <2>1, <2>2 DEF IInv, TypeOK, world
  <1>4. OneTimerArmed' /\ ShownTimeIsTheTimers'
    BY <1>1, HeartbeatAssumption DEF OneTimerArmed, ShownTimeIsTheTimers, Off
  <1>5. WaitingIsQuiet'
    BY <1>2 DEF IInv, WaitingIsQuiet
  <1>6. QED
    BY <1>3, <1>4, <1>5 DEF IInv

(* Every step leaves one timer armed and the shown time right.             *)
LEMMA StepsAreSafe == IInv /\ [Next]_vars => IInv'
  <1> SUFFICES ASSUME IInv, [Next]_vars PROVE IInv'
    OBVIOUS
  <1> USE DEF IInv
  <1>1. ASSUME Tick PROVE IInv'
    <2>1. ~stopped /\ deferIn = Off /\ ~deferred
      BY <1>1, HeartbeatAssumption DEF Tick, OneTimerArmed, TypeOK, Off
    <2>2. CASE ~(content /\ ShouldAttempt = "defer")
      BY <1>1, <2>1, <2>2, RescheduledIsSafe DEF Tick
    <2>3. CASE content /\ ShouldAttempt = "defer"
      <3>1. DeferHeartbeat /\ UNCHANGED <<quietFor, world, stopped>>
        BY <1>1, <2>3 DEF Tick
      <3>2. Defer - quietFor \in 0..Defer
        BY HeartbeatAssumption DEF TypeOK
      <3>3. TypeOK'
        BY <3>1, <3>2 DEF DeferHeartbeat, TypeOK, world
      <3>4. OneTimerArmed' /\ ShownTimeIsTheTimers' /\ WaitingIsQuiet'
        BY <2>1, <3>1, <3>2, HeartbeatAssumption
           DEF DeferHeartbeat, OneTimerArmed, ShownTimeIsTheTimers, WaitingIsQuiet, Off
      <3>5. QED
        BY <3>3, <3>4
    <2>4. QED
      BY <2>2, <2>3
  <1>2. ASSUME FireDeferred PROVE IInv'
    <2>1. ~stopped
      BY <1>2, HeartbeatAssumption DEF FireDeferred, OneTimerArmed, TypeOK, Off
    <2>2. QED
      BY <1>2, <2>1, RescheduledIsSafe DEF FireDeferred
  <1>3. ASSUME UserPrompt PROVE IInv'
    <2>1. beat' \in Beats
      BY <1>3 DEF UserPrompt, TypeOK, Beats
    <2>2. TypeOK'
      BY <1>3, <2>1, HeartbeatAssumption DEF UserPrompt, TypeOK, shown, world
    <2>3. OneTimerArmed' /\ ShownTimeIsTheTimers'
      BY <1>3, HeartbeatAssumption
         DEF UserPrompt, OneTimerArmed, ShownTimeIsTheTimers, shown, Off
    <2>4. WaitingIsQuiet'
      <3>1. beat'.stage = beat.stage /\ beat'.age = beat.age /\ quietFor' = 0
        BY <1>3 DEF UserPrompt, TypeOK, Beats
      <3>2. CASE beat.stage = "queued" /\ beat.age > 0
        <4>1. beat'.overtaken
          BY <1>3, <3>2 DEF UserPrompt, TypeOK, Beats
        <4>2. QED
          BY <4>1 DEF WaitingIsQuiet
      <3>3. CASE beat.age = 0
        BY <3>1, <3>3 DEF WaitingIsQuiet
      <3>4. beat.age \in 0..Defer
        BY DEF TypeOK, Beats
      <3>5. QED
        BY <3>1, <3>2, <3>3, <3>4, HeartbeatAssumption DEF WaitingIsQuiet
    <2>5. QED
      BY <2>2, <2>3, <2>4
  <1>4. ASSUME RunHeartbeat PROVE IInv'
    <2>1. beat' \in Beats /\ beat'.stage # "queued"
      BY <1>4, NoBeatIsABeat DEF RunHeartbeat, TypeOK, Beats
    <2>2. QED
      BY <1>4, <2>1 DEF RunHeartbeat, TypeOK, OneTimerArmed, ShownTimeIsTheTimers,
                        WaitingIsQuiet, timers, shown, world
  <1>5. ASSUME CompleteHeartbeat PROVE IInv'
    BY <1>5, NoBeatIsABeat
       DEF CompleteHeartbeat, TypeOK, OneTimerArmed, ShownTimeIsTheTimers,
           WaitingIsQuiet, timers, shown, world
  <1>6. ASSUME ChangeSession \/ ChangeContent PROVE IInv'
    <2>1. session' \in Conversations /\ content' \in BOOLEAN
      BY <1>6 DEF ChangeSession, ChangeContent, TypeOK
    <2>2. UNCHANGED <<timers, shown, quietFor, beat, stopped>>
      BY <1>6 DEF ChangeSession, ChangeContent
    <2>3. QED
      BY <2>1, <2>2 DEF TypeOK, OneTimerArmed, ShownTimeIsTheTimers,
                        WaitingIsQuiet, timers, shown
  <1>7. ASSUME Stop PROVE IInv'
    <2>1. beat' \in Beats /\ beat'.stage # "queued"
      BY <1>7, NoBeatIsABeat DEF Stop, TypeOK
    <2>2. QED
      BY <1>7, <2>1 DEF Stop, TypeOK, OneTimerArmed, ShownTimeIsTheTimers,
                        WaitingIsQuiet, world, Off
  <1>8. ASSUME Elapse PROVE IInv'
    <2>1. /\ tickIn' \in 0..Interval \cup {Off} /\ (tickIn' = Off <=> tickIn = Off)
          /\ deferIn' \in 0..Defer \cup {Off} /\ (deferIn' = Off <=> deferIn = Off)
          /\ nextIn' \in 0..Interval \cup {Off} /\ (nextIn' = Off <=> nextIn = Off)
      BY <1>8, LessIsDown, HeartbeatAssumption DEF Elapse, TypeOK
    <2>2. quietFor' \in 0..Defer /\ (quietFor = Defer => quietFor' = Defer)
      BY <1>8, MoreIsUp DEF Elapse, TypeOK
    <2>3. beat' \in Beats
      <3>1. beat.age \in 0..Defer
        BY DEF TypeOK, Beats
      <3>2. More(beat.age) \in 0..Defer
        BY <3>1, MoreIsUp
      <3>3. QED
        BY <1>8, <3>2 DEF Elapse, TypeOK, Beats
    <2>4. OneTimerArmed' /\ ShownTimeIsTheTimers'
      BY <1>8, <2>1 DEF Elapse, OneTimerArmed, ShownTimeIsTheTimers
    <2>5. WaitingIsQuiet'
      BY <1>8, <2>2 DEF Elapse, WaitingIsQuiet, TypeOK, Beats
    <2>6. QED
      BY <1>8, <2>1, <2>2, <2>3, <2>4, <2>5 DEF Elapse, TypeOK, world
  <1>9. CASE UNCHANGED vars
    BY <1>9 DEF vars, timers, shown, world, TypeOK, OneTimerArmed,
                ShownTimeIsTheTimers, WaitingIsQuiet
  <1>10. QED
    BY <1>1, <1>2, <1>3, <1>4, <1>5, <1>6, <1>7, <1>8, <1>9 DEF Next

LEMMA IInvHolds == Spec => []IInv
  BY InitIsSafe, StepsAreSafe, PTL DEF Spec

-----------------------------------------------------------------------------
(* The timers, the flags and the waiting heartbeat keep their types.       *)
THEOREM TypeCorrect == Spec => []TypeOK
  <1>1. IInv => TypeOK
    BY DEF IInv
  <1>2. QED
    BY IInvHolds, <1>1, PTL

(* The scheduler is never left without a timer, nor with two.              *)
THEOREM SchedulerStaysAwake == Spec => []OneTimerArmed
  <1>1. IInv => OneTimerArmed
    BY DEF IInv
  <1>2. QED
    BY IInvHolds, <1>1, PTL

(* Clients are shown the time the timer is set for.                        *)
THEOREM ShownTimeIsRight == Spec => []ShownTimeIsTheTimers
  <1>1. IInv => ShownTimeIsTheTimers
    BY DEF IInv
  <1>2. QED
    BY IInvHolds, <1>1, PTL

(* No heartbeat begins on top of a user who is there.                      *)
THEOREM TheUserIsLeftAlone == Spec => HeartbeatsLeaveTheUserAlone
  <1>1. IInv /\ [Next]_vars =>
          [beat.stage = "queued" /\ beat'.stage = "running"
             => quietFor = Defer \/ quietFor = beat.age]_vars
    <2> SUFFICES ASSUME IInv, Next, beat.stage = "queued", beat'.stage = "running"
                 PROVE  quietFor = Defer \/ quietFor = beat.age
      BY DEF vars
    <2>1. RunHeartbeat
      <3>1. CASE EnqueueHeartbeat
        BY <3>1, EnqueuedIsQuiet DEF NoBeat, Beats
      <3>2. CASE UNCHANGED beat
        BY <3>2
      <3>3. QED
        BY <3>1, <3>2, NoBeatIsABeat
           DEF Next, Tick, FireDeferred, NoContent, DeferHeartbeat, SkipHeartbeat,
               FireHeartbeat, UserPrompt, CompleteHeartbeat, ChangeSession,
               ChangeContent, Stop, Elapse, IInv, TypeOK, Beats
    <2>2. ~beat.overtaken
      BY <2>1, NoBeatIsABeat DEF RunHeartbeat
    <2>3. QED
      BY <2>2 DEF IInv, WaitingIsQuiet
  <1>2. QED
    BY IInvHolds, <1>1, PTL DEF Spec, HeartbeatsLeaveTheUserAlone
=============================================================================
