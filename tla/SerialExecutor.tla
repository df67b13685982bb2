--------------------------- MODULE SerialExecutor ---------------------------
(***************************************************************************)
(* What a lane of the runtime promises to whoever hands it a task,         *)
(* independent of promises, flags and callbacks: the tasks it accepts form *)
(* a log, they are started in the order of the log, one at a time, each at *)
(* most once, and the only way an accepted task is not started is that the *)
(* executor is closed with its waiting tasks thrown away.                  *)
(*                                                                         *)
(* MessageQueue (application/gateway/message-queue.ts) implements it, and  *)
(* so does every lane of ExecutionCoordinator.                             *)
(***************************************************************************)
EXTENDS Naturals, Sequences

CONSTANT Tasks

VARIABLES
    log,    \* the accepted tasks, in order, without the discarded ones
    begun,  \* how many tasks of the log have been started
    busy,   \* the last started task has not settled yet
    open    \* tasks are still accepted

vars == <<log, begun, busy, open>>

Init ==
    /\ log = <<>>
    /\ begun = 0
    /\ busy = FALSE
    /\ open = TRUE

(* A task is taken while another one runs or waits: it goes last. *)
Accept(t) ==
    /\ open
    /\ log' = Append(log, t)
    /\ UNCHANGED <<begun, busy, open>>

(* A task is taken while nothing runs or waits: it starts at once. *)
AcceptIdle(t) ==
    /\ open
    /\ ~busy
    /\ begun = Len(log)
    /\ log' = Append(log, t)
    /\ begun' = begun + 1
    /\ busy' = TRUE
    /\ UNCHANGED open

(* The next task of the log starts. *)
Start ==
    /\ ~busy
    /\ begun < Len(log)
    /\ begun' = begun + 1
    /\ busy' = TRUE
    /\ UNCHANGED <<log, open>>

Settle ==
    /\ busy
    /\ busy' = FALSE
    /\ UNCHANGED <<log, begun, open>>

Close ==
    /\ open' = FALSE
    /\ UNCHANGED <<log, begun, busy>>

(* Closing may forget every task that has not started. *)
CloseDiscarding ==
    /\ open' = FALSE
    /\ log' = SubSeq(log, 1, begun)
    /\ UNCHANGED <<begun, busy>>

Next ==
    \/ \E t \in Tasks : Accept(t) \/ AcceptIdle(t)
    \/ Start
    \/ Settle
    \/ Close
    \/ CloseDiscarding

Spec == Init /\ [][Next]_vars
=============================================================================
