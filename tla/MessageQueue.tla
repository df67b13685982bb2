---------------------------- MODULE MessageQueue ----------------------------
(***************************************************************************)
(* application/gateway/message-queue.ts: the queue every execution lane    *)
(* owns.  enqueue() runs the asynchronous function process() up to its     *)
(* first await, so a task handed to an idle queue is started before        *)
(* enqueue() returns; from then on process() moves only when the promise   *)
(* of the current task settles.  Between that moment and the next          *)
(* iteration of its loop the queue is "processing" with no task running.   *)
(***************************************************************************)
EXTENDS Naturals, Sequences, FiniteSets

CONSTANTS
    Tasks,    \* the tasks callers may hand over
    NoTask,   \* not a task
    Drainers  \* the calls of drain()

ASSUME NoTaskAssumption == NoTask \notin Tasks

VARIABLES
    queue,       \* this.queue
    current,     \* the task process() is awaiting, or NoTask
    processing,  \* this.processing
    closed,      \* this.closed
    waiting,     \* the drain() calls in this.drainResolvers
    resolved,    \* the drain() calls whose promise has been resolved
    started      \* history: the tasks process() has called, in order

vars == <<queue, current, processing, closed, waiting, resolved, started>>

RangeOf(s) == {s[i] : i \in DOMAIN s}

Idle == ~processing /\ queue = <<>>

Init ==
    /\ queue = <<>>
    /\ current = NoTask
    /\ processing = FALSE
    /\ closed = FALSE
    /\ waiting = {}
    /\ resolved = {}
    /\ started = <<>>

(* One turn of the loop of process(): the first task of q is called. *)
Shift(q) ==
    /\ current' = Head(q)
    /\ queue' = Tail(q)
    /\ started' = Append(started, Head(q))

ResolveDrainers ==
    /\ resolved' = resolved \cup waiting
    /\ waiting' = {}

(* A caller hands over each task once: every call builds a new closure. *)
New(t) == t \notin RangeOf(started) \cup RangeOf(queue)

EnqueueIdle(t) ==
    /\ ~closed
    /\ ~processing
    /\ New(t)
    /\ processing' = TRUE
    /\ Shift(Append(queue, t))
    /\ UNCHANGED <<closed, waiting, resolved>>

(* Mutant of EnqueueBusy: a late task jumps the queue. *)
EnqueueBusyInFront(t) ==
    /\ ~closed
    /\ processing
    /\ New(t)
    /\ queue' = <<t>> \o queue
    /\ UNCHANGED <<current, processing, closed, waiting, resolved, started>>

EnqueueBusy(t) ==
    /\ ~closed
    /\ processing
    /\ New(t)
    /\ queue' = Append(queue, t)
    /\ UNCHANGED <<current, processing, closed, waiting, resolved, started>>

(* The awaited promise settles; a rejection is swallowed. *)
Settle ==
    /\ current # NoTask
    /\ current' = NoTask
    /\ UNCHANGED <<queue, processing, closed, waiting, resolved, started>>

(* Mutant of Continue: the loop shifts an empty queue once more. *)
ContinueOnEmpty ==
    /\ processing
    /\ current = NoTask
    /\ IF queue = <<>>
       THEN started' = Append(started, NoTask) /\ UNCHANGED <<queue, current>>
       ELSE Shift(queue)
    /\ UNCHANGED <<processing, closed, waiting, resolved>>

Continue ==
    /\ processing
    /\ current = NoTask
    /\ queue # <<>>
    /\ Shift(queue)
    /\ UNCHANGED <<processing, closed, waiting, resolved>>

(* Mutant of Finish: the loop ends after every task. *)
FinishEarly ==
    /\ processing
    /\ current = NoTask
    /\ processing' = FALSE
    /\ ResolveDrainers
    /\ UNCHANGED <<queue, current, closed, started>>

(* Mutant of Finish: nobody tells those who wait in drain(). *)
FinishSilently ==
    /\ processing
    /\ current = NoTask
    /\ queue = <<>>
    /\ processing' = FALSE
    /\ UNCHANGED <<queue, current, closed, waiting, resolved, started>>

Finish ==
    /\ processing
    /\ current = NoTask
    /\ queue = <<>>
    /\ processing' = FALSE
    /\ ResolveDrainers
    /\ UNCHANGED <<queue, current, closed, started>>

(* Mutant of Close: an empty queue is taken for an idle one. *)
CloseOverRunningTask(discardPending) ==
    /\ closed' = TRUE
    /\ queue' = IF discardPending THEN <<>> ELSE queue
    /\ IF queue' = <<>>
       THEN ResolveDrainers
       ELSE UNCHANGED <<waiting, resolved>>
    /\ UNCHANGED <<current, processing, started>>

Close(discardPending) ==
    /\ closed' = TRUE
    /\ queue' = IF discardPending THEN <<>> ELSE queue
    /\ IF ~processing /\ queue' = <<>>
       THEN ResolveDrainers
       ELSE UNCHANGED <<waiting, resolved>>
    /\ UNCHANGED <<current, processing, started>>

Drain(d) ==
    /\ d \notin waiting \cup resolved
    /\ IF Idle
       THEN resolved' = resolved \cup {d} /\ UNCHANGED waiting
       ELSE waiting' = waiting \cup {d} /\ UNCHANGED resolved
    /\ UNCHANGED <<queue, current, processing, closed, started>>

Next ==
    \/ \E t \in Tasks : EnqueueIdle(t) \/ EnqueueBusy(t)
    \/ Settle
    \/ Continue
    \/ Finish
    \/ \E discardPending \in BOOLEAN : Close(discardPending)
    \/ \E d \in Drainers : Drain(d)

(* A task is a prompt run: the provider ends it or an abort does, so its   *)
(* promise settles; the continuation of process() is then a microtask.     *)
Fairness == WF_vars(Settle) /\ WF_vars(Continue) /\ WF_vars(Finish)

Spec == Init /\ [][Next]_vars /\ Fairness

(***************************************************************************)
(* Properties                                                              *)
(***************************************************************************)
TypeOK ==
    /\ queue \in Seq(Tasks)
    /\ current \in Tasks \cup {NoTask}
    /\ processing \in BOOLEAN
    /\ closed \in BOOLEAN
    /\ waiting \subseteq Drainers
    /\ resolved \subseteq Drainers
    /\ started \in Seq(Tasks)

(* No task is stranded: whenever tasks wait, or a drain() call waits, some *)
(* activation of process() is under way that will get to them; and the     *)
(* running task is the last one that was started.                          *)
NothingStranded ==
    /\ (queue # <<>> \/ waiting # {} \/ current # NoTask) => processing
    /\ current # NoTask => started # <<>> /\ current = started[Len(started)]

(* The promise of drain() is resolved only at a moment when no task runs   *)
(* and none waits: shutdown may then let go of what the tasks use.         *)
DrainedOnlyWhenIdle ==
    [][resolved' # resolved => ~processing' /\ current' = NoTask /\ queue' = <<>>]_vars

(* Tasks are started in the order they were accepted, one at a time, at    *)
(* most once, and only close(true) loses one.                              *)
Executor == INSTANCE SerialExecutor WITH
    log <- started \o queue,
    begun <- Len(started),
    busy <- current # NoTask,
    open <- ~closed

ImplementsExecutor == Executor!Spec

(* Whoever waits in drain() is answered once callers stop handing over     *)
(* tasks: the tasks before it have been started or discarded by then.      *)
DrainAnswered == \A d \in Drainers : d \in waiting ~> d \in resolved
=============================================================================
