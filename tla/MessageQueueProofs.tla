------------------------- MODULE MessageQueueProofs -------------------------
(* Proofs about MessageQueue for every set of tasks and drain() calls.     *)
EXTENDS MessageQueue, SequenceTheorems, TLAPS

(***************************************************************************)
(* Sequences                                                               *)
(***************************************************************************)

(* Moving the head of one sequence to the end of another leaves their      *)
(* concatenation as it was: process() takes the next task from the queue.  *)
LEMMA ShiftKeepsLog ==
    ASSUME NEW S, NEW s \in Seq(S), NEW q \in Seq(S), q # <<>>
    PROVE  Append(s, Head(q)) \o Tail(q) = s \o q
<1> DEFINE l == Append(s, Head(q)) \o Tail(q)
           r == s \o q
<1>1. Head(q) \in S /\ Tail(q) \in Seq(S) /\ Len(q) \in Nat \ {0}
  BY EmptySeq, HeadTailProperties
<1>2. l \in Seq(S) /\ r \in Seq(S)
  BY <1>1
<1>3. Len(l) = Len(s) + Len(q) /\ Len(r) = Len(s) + Len(q)
  BY <1>1
<1>4. ASSUME NEW i \in 1..(Len(s) + Len(q))
      PROVE  l[i] = r[i]
  <2>1. CASE i <= Len(s)
    BY <1>1, <2>1
  <2>2. CASE i = Len(s) + 1
    BY <1>1, <2>2
  <2>3. CASE i > Len(s) + 1
    BY <1>1, <2>3
  <2> QED  BY <2>1, <2>2, <2>3
<1> HIDE DEF l, r
<1>5. l = r
  BY <1>2, <1>3, <1>4, SeqEqual
<1> QED  BY <1>5 DEF l, r

(* A task accepted behind the waiting ones is the last of the log.         *)
LEMMA AppendToLog ==
    ASSUME NEW S, NEW s \in Seq(S), NEW q \in Seq(S), NEW t \in S
    PROVE  s \o Append(q, t) = Append(s \o q, t)
<1> DEFINE l == s \o Append(q, t)
           r == Append(s \o q, t)
<1>1. l \in Seq(S) /\ r \in Seq(S) /\ Len(l) = Len(r)
  OBVIOUS
<1>2. ASSUME NEW i \in 1..Len(l)
      PROVE  l[i] = r[i]
  OBVIOUS
<1> HIDE DEF l, r
<1>3. l = r
  BY <1>1, <1>2, SeqEqual
<1> QED  BY <1>3 DEF l, r

(* Forgetting the waiting tasks leaves the started ones.                   *)
LEMMA StartedPrefix ==
    ASSUME NEW S, NEW s \in Seq(S), NEW q \in Seq(S)
    PROVE  /\ SubSeq(s \o q, 1, Len(s)) = s
           /\ s \o <<>> = s
<1> DEFINE l == SubSeq(s \o q, 1, Len(s))
<1>1. l \in Seq(S) /\ Len(l) = Len(s)
  BY SubSeqProperties
<1>2. ASSUME NEW i \in 1..Len(s)
      PROVE  l[i] = s[i]
  OBVIOUS
<1> HIDE DEF l
<1>3. l = s
  BY <1>1, <1>2, SeqEqual
<1>4. s \o <<>> = s
  BY EmptySeq, ConcatEmptySeq
<1> QED  BY <1>3, <1>4 DEF l

(***************************************************************************)
(* The inductive invariant: NothingStranded is inductive once the types    *)
(* are known.                                                              *)
(***************************************************************************)
IInv == TypeOK /\ NothingStranded

LEMMA InitIInv == Init => IInv
  BY EmptySeq DEF Init, IInv, TypeOK, NothingStranded

LEMMA ShiftIInv ==
    ASSUME IInv, processing', NEW q \in Seq(Tasks), q # <<>>, Shift(q),
           UNCHANGED <<closed, waiting, resolved>>
    PROVE  IInv'
<1>1. Head(q) \in Tasks /\ Tail(q) \in Seq(Tasks)
  BY EmptySeq, HeadTailProperties
<1>2. TypeOK'
  BY <1>1 DEF IInv, TypeOK, Shift
<1>3. NothingStranded'
  <2>1. started' \in Seq(Tasks) /\ started' = Append(started, Head(q))
    BY <1>1 DEF IInv, TypeOK, Shift
  <2>2. started' # <<>> /\ started'[Len(started')] = Head(q)
    BY <1>1, <2>1 DEF IInv, TypeOK
  <2> QED  BY <2>2 DEF NothingStranded, Shift
<1> QED  BY <1>2, <1>3 DEF IInv

LEMMA NextIInv == IInv /\ [Next]_vars => IInv'
<1> SUFFICES ASSUME IInv, [Next]_vars PROVE IInv'
  OBVIOUS
<1> USE DEF IInv
<1>1. ASSUME NEW t \in Tasks, EnqueueIdle(t) PROVE IInv'
  <2>1. Append(queue, t) \in Seq(Tasks) /\ Append(queue, t) # <<>>
    BY DEF TypeOK
  <2>2. processing' /\ UNCHANGED <<closed, waiting, resolved>> /\ Shift(Append(queue, t))
    BY <1>1 DEF EnqueueIdle
  <2> QED  BY <2>1, <2>2, ShiftIInv
<1>2. ASSUME NEW t \in Tasks, EnqueueBusy(t) PROVE IInv'
  BY <1>2 DEF EnqueueBusy, TypeOK, NothingStranded
<1>3. CASE Settle
  BY <1>3, NoTaskAssumption DEF Settle, TypeOK, NothingStranded
<1>4. CASE Continue
  <2>1. processing' /\ queue \in Seq(Tasks) /\ queue # <<>> /\ Shift(queue)
    BY <1>4 DEF Continue, TypeOK
  <2>2. UNCHANGED <<closed, waiting, resolved>>
    BY <1>4 DEF Continue
  <2> QED  BY <2>1, <2>2, ShiftIInv
<1>5. CASE Finish
  BY <1>5 DEF Finish, ResolveDrainers, TypeOK, NothingStranded
<1>6. ASSUME NEW discardPending \in BOOLEAN, Close(discardPending) PROVE IInv'
  <2>1. TypeOK'
    BY <1>6, EmptySeq DEF Close, ResolveDrainers, TypeOK
  <2>2. NothingStranded'
    BY <1>6 DEF Close, ResolveDrainers, TypeOK, NothingStranded
  <2> QED  BY <2>1, <2>2
<1>7. ASSUME NEW d \in Drainers, Drain(d) PROVE IInv'
  BY <1>7 DEF Drain, Idle, TypeOK, NothingStranded
<1>8. CASE UNCHANGED vars
  BY <1>8 DEF vars, TypeOK, NothingStranded
<1> QED  BY <1>1, <1>2, <1>3, <1>4, <1>5, <1>6, <1>7, <1>8 DEF Next

LEMMA SpecIInv == Spec => []IInv
  BY InitIInv, NextIInv, PTL DEF Spec

(* The variables of message-queue.ts keep their types.                     *)
THEOREM TypeCorrect == Spec => []TypeOK
  BY SpecIInv, PTL DEF IInv

(* Whatever tasks are handed over and however close() and drain() come in  *)
(* between, no task and no drain() call of message-queue.ts is left behind *)
(* by a process() that has ended.                                          *)
THEOREM NoTaskIsStranded == Spec => []NothingStranded
  BY SpecIInv, PTL DEF IInv

(***************************************************************************)
(* drain() answers only when the queue is at rest.                         *)
(***************************************************************************)
LEMMA StepDrained ==
    ASSUME IInv, [Next]_vars, resolved' # resolved
    PROVE  ~processing' /\ current' = NoTask /\ queue' = <<>>
<1> USE DEF IInv, TypeOK, NothingStranded
<1>1. CASE Finish
  BY <1>1 DEF Finish
<1>2. ASSUME NEW discardPending \in BOOLEAN, Close(discardPending)
      PROVE  ~processing' /\ current' = NoTask /\ queue' = <<>>
  BY <1>2 DEF Close, ResolveDrainers
<1>3. ASSUME NEW d \in Drainers, Drain(d)
      PROVE  ~processing' /\ current' = NoTask /\ queue' = <<>>
  BY <1>3 DEF Drain, Idle
<1> QED
  BY <1>1, <1>2, <1>3 DEF Next, EnqueueIdle, EnqueueBusy, Settle, Continue, vars

(* A shutdown that waits in drain() goes on only when no task of the queue *)
(* runs or waits, so what the tasks use may then be closed.                *)
THEOREM DrainsWhenIdle == Spec => DrainedOnlyWhenIdle
<1>1. IInv /\ [Next]_vars =>
        [resolved' # resolved => ~processing' /\ current' = NoTask /\ queue' = <<>>]_vars
  BY StepDrained
<1> QED  BY <1>1, InitIInv, NextIInv, PTL DEF Spec, DrainedOnlyWhenIdle

(***************************************************************************)
(* The queue implements the serial executor.                               *)
(***************************************************************************)
LEMMA InitExecutor == Init => Executor!Init
  BY EmptySeq, ConcatEmptySeq DEF Init, Executor!Init

LEMMA StepExecutor ==
    ASSUME IInv, [Next]_vars
    PROVE  [Executor!Next]_(Executor!vars)
<1> DEFINE log == started \o queue
<1> USE DEF IInv, TypeOK, NothingStranded
<1>0. /\ started \in Seq(Tasks) /\ queue \in Seq(Tasks)
      /\ Len(log) = Len(started) + Len(queue)
  OBVIOUS
<1>1. ASSUME NEW t \in Tasks, EnqueueIdle(t) PROVE Executor!AcceptIdle(t)
  <2>1. queue = <<>> /\ current = NoTask /\ ~closed
    BY <1>1 DEF EnqueueIdle
  <2>2. Append(queue, t) \in Seq(Tasks) /\ Append(queue, t) # <<>>
    OBVIOUS
  <2>3. Shift(Append(queue, t)) /\ closed' = closed
    BY <1>1 DEF EnqueueIdle
  <2>4. started' \o queue' = Append(log, t)
    <3>1. started' \o queue' = started \o Append(queue, t)
      BY <2>2, <2>3, ShiftKeepsLog DEF Shift
    <3>2. started \o Append(queue, t) = Append(log, t)
      BY AppendToLog
    <3> QED  BY <3>1, <3>2
  <2>5. Len(started') = Len(started) + 1 /\ current' \in Tasks
    BY <2>1, <2>3 DEF Shift
  <2> QED
    BY <1>0, <2>1, <2>3, <2>4, <2>5, NoTaskAssumption DEF Executor!AcceptIdle
<1>2. ASSUME NEW t \in Tasks, EnqueueBusy(t) PROVE Executor!Accept(t)
  BY <1>2, AppendToLog DEF EnqueueBusy, Executor!Accept
<1>3. ASSUME Settle PROVE Executor!Settle
  BY <1>3 DEF Settle, Executor!Settle
<1>4. ASSUME Continue PROVE Executor!Start
  <2>1. started' \o queue' = log
    BY <1>4, ShiftKeepsLog DEF Continue, Shift
  <2>2. Head(queue) \in Tasks /\ Len(queue) > 0
    BY <1>4, EmptySeq, HeadTailProperties DEF Continue
  <2>3. Len(started') = Len(started) + 1 /\ current' \in Tasks /\ closed' = closed
    BY <1>4, <2>2 DEF Continue, Shift
  <2>4. Len(started) < Len(log) /\ current = NoTask
    BY <1>0, <1>4, <2>2 DEF Continue
  <2> QED  BY <2>1, <2>3, <2>4, NoTaskAssumption DEF Executor!Start
<1>5. ASSUME Finish PROVE UNCHANGED Executor!vars
  BY <1>5 DEF Finish, Executor!vars
<1>6. ASSUME Close(FALSE) PROVE Executor!Close
  BY <1>6 DEF Close, Executor!Close
<1>7. ASSUME Close(TRUE) PROVE Executor!CloseDiscarding
  <2>1. started' = started /\ queue' = <<>> /\ closed' /\ current' = current
    BY <1>7 DEF Close
  <2>2. started' \o queue' = SubSeq(log, 1, Len(started))
    BY <2>1, StartedPrefix
  <2> QED  BY <2>1, <2>2 DEF Executor!CloseDiscarding
<1>8. ASSUME NEW d \in Drainers, Drain(d) PROVE UNCHANGED Executor!vars
  BY <1>8 DEF Drain, Executor!vars
<1>9. ASSUME UNCHANGED vars PROVE UNCHANGED Executor!vars
  BY <1>9 DEF vars, Executor!vars
<1> QED
  BY <1>1, <1>2, <1>3, <1>4, <1>5, <1>6, <1>7, <1>8, <1>9 DEF Next, Executor!Next

(* Every lane runs the tasks it accepts in order, one at a time and each   *)
(* at most once; close(true) is the only thing that loses one.             *)
THEOREM IsSerialExecutor == Spec => ImplementsExecutor
  BY InitExecutor, StepExecutor, InitIInv, NextIInv, PTL
  DEF Spec, ImplementsExecutor, Executor!Spec
=============================================================================
