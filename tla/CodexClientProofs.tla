--------------------------- MODULE CodexClientProofs ---------------------------
(* Proofs about CodexClient for any number of runs, steers, threads and    *)
(* lines.                                                                  *)
EXTENDS CodexClient, TLAPS

(***************************************************************************)
(* The inductive invariant.                                                *)
(***************************************************************************)
TurnRequest(r) == Request(IF run[r].kind = "compact" THEN "compact" ELSE "turn", r)

(* Whoever has asked waits for the answer, and for one at a time.          *)
RequestsAreAwaited ==
    \A q \in pending :
        /\ q.method = "thread" => run[q.by].stage = "opening"
        /\ q.method \in {"turn", "compact"} =>
              run[q.by].stage = "asking" /\ q = TurnRequest(q.by)
        /\ q.method = "steer" => steer[q.by].stage \in {"asked", "over"}

(* A run listens to the turn it has begun, and has no outcome before it is *)
(* over; whoever is there to be steered, or was, is a prompt that listens, *)
(* or did.                                                                 *)
RunsListen ==
    /\ \A r \in Runs :
          /\ run[r].outcome # "none" => run[r].stage = "over"
          /\ Listening(r) /\ run[r].kind = "prompt" => run[r].current \in Turns
    /\ \A th \in Threads : activeTurns[th] # None =>
          Listening(activeTurns[th]) /\ run[activeTurns[th]].kind = "prompt"
    /\ \A k \in Steers :
          LET r == steer[k].run
          IN  IF steer[k].stage = "idle" THEN r = None
              ELSE /\ r \in Runs
                   /\ run[r].stage \in {"listening", "over"}
                   /\ run[r].kind = "prompt" /\ run[r].current \in Turns

(* What the server has not handled has not begun a turn, and a turn can be *)
(* steered as long as it is the current one of its run.                    *)
AskedAreNew ==
    /\ \A r \in Runs : run[r].stage \in {"idle", "initializing", "opening", "opened"} =>
          turn[r] = "none"
    /\ \A k \in Steers : steer[k].stage \in {"idle", "preparing"} => turn[k] = "none"
    /\ \A q \in asked : q.method \in {"turn", "compact"} =>
          /\ run[q.by].stage \in {"asking", "listening", "over"}
          /\ q = TurnRequest(q.by)
          /\ turn[q.by] = "none"
    /\ \A q \in asked : q.method = "steer" =>
          /\ steer[q.by].stage \in {"asked", "over"}
          /\ turn[q.by] = "none"
          /\ q.of \in Turns
          /\ q.of = run[steer[q.by].run].current \/ turn[q.of] = "ended"
          /\ \A p \in asked : p.method = "steer" /\ p.by = q.by => p = q

(* What the server has said of a turn goes on to be true.                  *)
NoteFits(n, turns) ==
    /\ n.type \in {"final", "completed", "failed"} => turns[n.turn] \in {"finishing", "ended"}
    /\ n.type \in {"completed", "failed", "aborted"} => turns[n.turn] = "ended"

NotesFit ==
    /\ \A i \in 1..Len(lines) : NoteFits(lines[i], turn)
    /\ \A r \in Runs : \A i \in 1..Len(queue[r]) : NoteFits(queue[r][i], turn)

(* An answer to a steer that has not been read is about the current turn,  *)
(* of which nobody has heard the end; it is the last one if the turn is    *)
(* replaced.                                                               *)
IsSteered(l) == l.type = "answer" /\ l.req.method = "steer"
Steered(l) == steer[l.req.by].run
Ends(n, t) == n.type \in {"final", "completed", "failed"} /\ n.turn = t

SteersComeFirst ==
    \A i \in 1..Len(lines) : IsSteered(lines[i]) =>
        LET r == Steered(lines[i])
            t == lines[i].req.of
        IN  /\ steer[lines[i].req.by].stage \in {"asked", "over"}
            /\ run[r].current = t /\ run[r].outcome # "done"
            /\ lines[i].turn \in Turns
            /\ lines[i].turn # t => turn[t] = "ended"
            /\ \A k \in 1..Len(queue[r]) : ~Ends(queue[r][k], t)
            /\ \A j \in 1..(i-1) :
                  /\ ~Ends(lines[j], t)
                  /\ IsSteered(lines[j]) /\ Steered(lines[j]) = r =>
                        lines[j].turn = lines[j].req.of

(* A prompt that is done has had a turn.                                   *)
DoneHadTurns ==
    \A r \in Runs : run[r].kind = "prompt" /\ run[r].outcome = "done" => run[r].current \in Turns

CodexInv ==
    /\ CodexTypeOK /\ RequestsAreAwaited /\ RunsListen /\ AskedAreNew
    /\ NotesFit /\ SteersComeFirst /\ DoneHadTurns /\ RunsFollowTheirTurns
-----------------------------------------------------------------------------
(* Requests and lines.                                                     *)

LEMMA Names ==
    /\ None \notin Runs /\ None \notin Steers /\ None \notin Turns
    /\ Runs \cap Steers = {} /\ Runs \subseteq Turns /\ Steers \subseteq Turns
    /\ \A t \in Turns : t \in Runs \/ t \in Steers
    /\ ThreadOf \in [Runs -> Threads] /\ MaxLines \in Nat
  BY CodexAssumption DEF Turns

LEMMA RequestTypes ==
    ASSUME NEW q \in Requests
    PROVE  /\ q.method \in {"initialize", "thread", "turn", "compact", "steer"}
           /\ q.method = "initialize" => q = Initialize
           /\ q.method \in {"thread", "turn", "compact"} => q.by \in Runs /\ q.of = None
           /\ q.method = "steer" => q.by \in Steers /\ q.of \in Turns \cup {None}
           /\ q.by \in Runs => q.method \in {"thread", "turn", "compact"}
           /\ q.by \in Steers => q.method = "steer"
           /\ q = [method |-> q.method, by |-> q.by, of |-> q.of]
  BY Names DEF Requests, Initialize

LEMMA MakeRequests ==
    /\ Initialize \in Requests
    /\ \A r \in Runs : /\ Request("thread", r) \in Requests
                       /\ Request("turn", r) \in Requests
                       /\ Request("compact", r) \in Requests
                       /\ TurnRequest(r) \in Requests
    /\ \A k \in Steers, t \in Turns \cup {None} :
          [method |-> "steer", by |-> k, of |-> t] \in Requests
  BY DEF Requests, Request, TurnRequest

LEMMA LineTypes ==
    ASSUME NEW l \in Lines
    PROVE  /\ l.type \in {"answer", "refusal", "error", "final", "completed", "failed", "aborted"}
           /\ l.type \in {"answer", "refusal"} => l.req \in Requests /\ l.turn \in Turns \cup {None}
           /\ l.type \in Methods => l.turn \in Turns
  BY DEF Lines, Methods

LEMMA MakeLines ==
    /\ \A q \in Requests, t \in Turns \cup {None} : Answer(q, t) \in Lines
    /\ \A q \in Requests : Refusal(q) \in Lines
    /\ \A m \in Methods, t \in Turns : Note(m, t) \in Lines
  BY DEF Lines, Answer, Refusal, Note

LEMMA RunTypes ==
    ASSUME CodexTypeOK, NEW r \in Runs
    PROVE  /\ run[r] \in RunRecords
           /\ run[r].stage \in Stages /\ run[r].outcome \in Outcomes
           /\ run[r].kind \in {"prompt", "compact"}
           /\ run[r].current \in Turns \cup {None} /\ run[r].observed \in SUBSET Turns
           /\ run[r].stopped \in BOOLEAN /\ run[r].erred \in BOOLEAN
  BY DEF CodexTypeOK, RunRecords

LEMMA SteerTypes ==
    ASSUME CodexTypeOK, NEW k \in Steers
    PROVE  /\ steer[k] \in SteerRecords /\ steer[k].run \in Runs \cup {None}
           /\ steer[k].stage \in {"idle", "preparing", "asked", "over"}
  BY DEF CodexTypeOK, SteerRecords

(* A line is read, or lines are written.                                   *)
LEMMA ReadLine ==
    ASSUME CodexTypeOK, LineRead
    PROVE  /\ Len(lines) \in Nat /\ Len(lines) > 0 /\ Line = lines[1] /\ Line \in Lines
           /\ lines' \in Seq(Lines) /\ Len(lines') = Len(lines) - 1
           /\ \A i \in 1..Len(lines') : i + 1 \in 1..Len(lines) /\ lines'[i] = lines[i + 1]
  BY DEF CodexTypeOK, LineRead, Line

LEMMA WriteOne ==
    ASSUME CodexTypeOK, NEW l \in Lines, Write(<<l>>)
    PROVE  /\ Len(lines) \in Nat
           /\ lines' \in Seq(Lines) /\ Len(lines') = Len(lines) + 1
           /\ \A i \in 1..Len(lines) : lines'[i] = lines[i]
           /\ lines'[Len(lines) + 1] = l
           /\ \A i \in 1..Len(lines') : i \in 1..Len(lines) \/ i = Len(lines) + 1
  BY DEF CodexTypeOK, Write

LEMMA WriteTwo ==
    ASSUME CodexTypeOK, NEW l \in Lines, NEW m \in Lines, Write(<<l, m>>)
    PROVE  /\ Len(lines) \in Nat
           /\ lines' \in Seq(Lines) /\ Len(lines') = Len(lines) + 2
           /\ \A i \in 1..Len(lines) : lines'[i] = lines[i]
           /\ lines'[Len(lines) + 1] = l /\ lines'[Len(lines) + 2] = m
           /\ \A i \in 1..Len(lines') :
                 i \in 1..Len(lines) \/ i = Len(lines) + 1 \/ i = Len(lines) + 2
  BY DEF CodexTypeOK, Write

-----------------------------------------------------------------------------
(* Types.                                                                  *)

LEMMA InitCodexInv == Init => CodexInv
<1> SUFFICES ASSUME Init PROVE CodexInv
  OBVIOUS
<1> USE Names DEF Init
<1>1. NoRun \in RunRecords /\ NoSteer \in SteerRecords
  BY DEF NoRun, NoSteer, RunRecords, SteerRecords, Stages, Outcomes
<1>2. <<>> \in Seq(Lines) /\ Len(<<>>) = 0
  OBVIOUS
<1>3. CodexTypeOK
  BY <1>1, <1>2 DEF CodexTypeOK
<1>4. RequestsAreAwaited /\ RunsListen
  BY DEF RequestsAreAwaited, RunsListen, NoRun, NoSteer, Listening
<1>5. AskedAreNew
  BY DEF AskedAreNew
<1>6. NotesFit /\ SteersComeFirst
  BY <1>2 DEF NotesFit, SteersComeFirst
<1>7. DoneHadTurns /\ RunsFollowTheirTurns
  BY DEF DoneHadTurns, RunsFollowTheirTurns, NoRun, Listening
<1> QED  BY <1>3, <1>4, <1>5, <1>6, <1>7 DEF CodexInv

LEMMA EndedTypes ==
    ASSUME CodexTypeOK, NEW R \in SUBSET Runs, NEW outcome \in Outcomes, Ended(R, outcome)
    PROVE  /\ run' \in [Runs -> RunRecords]
           /\ queue' \in [Runs -> Seq(Lines)]
           /\ activeTurns' \in [Threads -> Runs \cup {None}]
<1>1. \A r \in Runs : [run[r] EXCEPT !.stage = "over", !.outcome = outcome] \in RunRecords
  BY DEF CodexTypeOK, RunRecords, Stages
<1>2. <<>> \in Seq(Lines)
  OBVIOUS
<1> QED  BY <1>1, <1>2 DEF Ended, CodexTypeOK

LEMMA RejectedTypes ==
    ASSUME CodexTypeOK, NEW Q \in SUBSET Requests, Rejected(Q)
    PROVE  /\ run' \in [Runs -> RunRecords]
           /\ queue' \in [Runs -> Seq(Lines)]
           /\ activeTurns' \in [Threads -> Runs \cup {None}]
           /\ steer' \in [Steers -> SteerRecords]
           /\ initialized' \in {"no", "asked", "yes", "failed"}
<1>1. \A k \in Steers : [steer[k] EXCEPT !.stage = "over"] \in SteerRecords
  BY DEF CodexTypeOK, SteerRecords
<1>2. {r \in Runs : \E q \in Q : WaitsFor(r, q)} \in SUBSET Runs /\ "error" \in Outcomes
  BY DEF Outcomes
<1>3. Ended({r \in Runs : \E q \in Q : WaitsFor(r, q)}, "error")
  BY DEF Rejected
<1> QED  BY <1>1, <1>2, <1>3, EndedTypes DEF Rejected, CodexTypeOK

LEMMA SendTypes ==
    ASSUME CodexTypeOK, NEW Q \in SUBSET Requests, Send(Q)
    PROVE  pending' \subseteq Requests /\ asked' \subseteq Requests
  BY DEF CodexTypeOK, Send

LEMMA RunUpdates ==
    ASSUME NEW x \in RunRecords
    PROVE  /\ \A stage \in Stages : [x EXCEPT !.stage = stage] \in RunRecords
           /\ [x EXCEPT !.stopped = TRUE] \in RunRecords
           /\ \A erred \in BOOLEAN : [x EXCEPT !.erred = erred] \in RunRecords
           /\ \A r \in Runs : [x EXCEPT !.stage = "listening", !.current = r, !.observed = {r}]
                              \in RunRecords
           /\ \A t \in Turns : [x EXCEPT !.current = t, !.observed = @ \cup {t}] \in RunRecords
  BY Names DEF RunRecords, Stages

(* The server's steps change nothing but what is asked of it, what it has  *)
(* written and the turns.                                                  *)
LEMMA ServerTypes ==
    ASSUME CodexInv, Server
    PROVE  CodexTypeOK'
<1> USE Names
<1>1. CodexTypeOK
  BY DEF CodexInv
<1>2. ASSUME UNCHANGED <<alive, clientVars>>, lines' \in Seq(Lines),
             asked' \subseteq Requests,
             turn' \in [Turns -> {"none", "running", "finishing", "ended"}]
      PROVE  CodexTypeOK'
  BY <1>1, <1>2 DEF CodexTypeOK, clientVars
<1>3. ASSUME NEW q \in asked, Refuses(q) PROVE CodexTypeOK'
  BY <1>1, <1>2, <1>3, MakeLines, WriteOne DEF Refuses, Handled, CodexTypeOK
<1>4. ASSUME NEW q \in asked, BeginsTurn(q) PROVE CodexTypeOK'
  <2>1. q.by \in Runs
    BY <1>1, <1>4, RequestTypes DEF BeginsTurn, CodexTypeOK
  <2> QED  BY <1>1, <1>2, <1>4, <2>1 DEF BeginsTurn, Handled, CodexTypeOK
<1>5. ASSUME NEW q \in asked, Serves(q) PROVE CodexTypeOK'
  BY <1>1, <1>2, <1>5, MakeLines, WriteOne DEF Serves, Handled, CodexTypeOK
<1>6. ASSUME NEW q \in asked, SteersInPlace(q) PROVE CodexTypeOK'
  <2>1. q \in Requests /\ q.of \in Turns \cup {None}
    BY <1>1, <1>6, RequestTypes DEF SteersInPlace, CodexTypeOK
  <2> QED
    BY <1>1, <1>2, <1>6, <2>1, MakeLines, WriteOne DEF SteersInPlace, Handled, CodexTypeOK
<1>7. ASSUME NEW q \in asked, SteersIntoNewTurn(q) PROVE CodexTypeOK'
  <2>1. q \in Requests /\ q.of \in Turns /\ q.by \in Turns
    BY <1>1, <1>7, RequestTypes DEF SteersIntoNewTurn, CodexTypeOK, CodexInv, AskedAreNew
  <2>2. Answer(q, q.by) \in Lines /\ Note("completed", q.of) \in Lines
    BY <2>1, MakeLines DEF Methods
  <2>3. lines' \in Seq(Lines)
    BY <1>1, <1>7, <2>2, WriteTwo DEF SteersIntoNewTurn
  <2> QED  BY <1>1, <1>2, <1>7, <2>1, <2>3 DEF SteersIntoNewTurn, Handled, CodexTypeOK
<1>8. ASSUME NEW r \in Runs, AnswersTurn(r) PROVE CodexTypeOK'
  <2>1. Answer(TurnRequest(r), None) \in Lines
    BY MakeLines, MakeRequests
  <2>2. Write(<<Answer(TurnRequest(r), None)>>)
    BY <1>8 DEF AnswersTurn, TurnRequest
  <2>3. lines' \in Seq(Lines)
    BY <1>1, <2>1, <2>2, WriteOne
  <2> QED  BY <1>1, <1>2, <1>8, <2>3 DEF AnswersTurn, CodexTypeOK
<1>9. ASSUME NEW t \in Turns, ReportsError(t) \/ FinalAnswer(t) \/ Completes(t)
      PROVE  CodexTypeOK'
  <2>1. PICK m \in Methods : Write(<<Note(m, t)>>)
    BY <1>9 DEF ReportsError, FinalAnswer, Completes, Methods
  <2>2. lines' \in Seq(Lines)
    BY <1>1, <2>1, MakeLines, WriteOne
  <2> QED  BY <1>1, <1>2, <1>9, <2>2 DEF ReportsError, FinalAnswer, Completes, CodexTypeOK
<1>10. ASSUME NEW t \in Turns, Interrupts(t) PROVE CodexTypeOK'
  <2>1. CASE InProgress(t)
    <3>1. Note("aborted", t) \in Lines /\ Write(<<Note("aborted", t)>>)
      BY <1>10, <2>1, MakeLines DEF Interrupts, Methods
    <3>2. lines' \in Seq(Lines)
      BY <1>1, <3>1, WriteOne
    <3> QED  BY <1>1, <1>2, <1>10, <2>1, <3>2 DEF Interrupts, CodexTypeOK
  <2>2. CASE ~InProgress(t)
    BY <1>1, <1>2, <1>10, <2>2 DEF Interrupts, CodexTypeOK
  <2> QED  BY <2>1, <2>2
<1> QED
  BY <1>3, <1>4, <1>5, <1>6, <1>7, <1>8, <1>9, <1>10 DEF Server

(* A line that is read: what is waited for is there.                       *)
LEMMA AnsweredOne ==
    ASSUME CodexInv, NEW method \in {"thread", "turn", "compact", "steer"}, Answered(method)
    PROVE  /\ Line \in Lines /\ Line = lines[1] /\ Line.type = "answer"
           /\ Line.req \in pending /\ Line.req \in Requests /\ Line.req.method = method
           /\ method # "steer" => Line.req.by \in Runs
           /\ method = "steer" => /\ Line.req.by \in Steers
                                  /\ steer[Line.req.by].run \in Runs
                                  /\ Line.turn \in Turns
           /\ method = "thread" => run[Line.req.by].stage = "opening"
           /\ method = "turn" => /\ run[Line.req.by].stage = "asking"
                                 /\ run[Line.req.by].kind = "prompt"
           /\ method = "compact" => /\ run[Line.req.by].stage = "asking"
                                    /\ run[Line.req.by].kind = "compact"
<1>1. CodexTypeOK /\ RequestsAreAwaited /\ SteersComeFirst /\ RunsListen
  BY DEF CodexInv
<1>2. LineRead /\ Line.type = "answer" /\ Line.req \in pending /\ Line.req.method = method
  BY DEF Answered
<1>3. Line \in Lines /\ Line = lines[1] /\ 1 \in 1..Len(lines)
  BY <1>1, <1>2, ReadLine
<1>4. Line.req \in Requests
  BY <1>2, <1>3, LineTypes
<1>5. /\ method # "steer" => Line.req.by \in Runs
      /\ method = "steer" => Line.req.by \in Steers
  BY <1>2, <1>4, RequestTypes
<1>6. CASE method = "steer"
  <2>1. Line.turn \in Turns /\ steer[Line.req.by].stage \in {"asked", "over"}
    BY <1>1, <1>2, <1>3, <1>6 DEF SteersComeFirst, IsSteered
  <2>2. steer[Line.req.by].run \in Runs
    BY <1>1, <1>5, <1>6, <2>1 DEF RunsListen
  <2> QED  BY <1>2, <1>3, <1>4, <1>5, <1>6, <2>1, <2>2
<1>7. CASE method # "steer"
  <2>1. /\ method = "thread" => run[Line.req.by].stage = "opening"
        /\ method \in {"turn", "compact"} =>
              run[Line.req.by].stage = "asking" /\ Line.req = TurnRequest(Line.req.by)
    BY <1>1, <1>2 DEF RequestsAreAwaited
  <2>2. TurnRequest(Line.req.by).method =
           IF run[Line.req.by].kind = "compact" THEN "compact" ELSE "turn"
    BY DEF TurnRequest, Request
  <2>3. run[Line.req.by].kind \in {"prompt", "compact"}
    BY <1>1, <1>5, <1>7, RunTypes
  <2>4. method = "turn" => run[Line.req.by].kind = "prompt"
    BY <1>2, <2>1, <2>2, <2>3
  <2>5. method = "compact" => run[Line.req.by].kind = "compact"
    BY <1>2, <2>1, <2>2
  <2> QED  BY <1>2, <1>3, <1>4, <1>5, <1>7, <2>1, <2>4, <2>5
<1> QED  BY <1>6, <1>7

LEMMA NextCodexTypes == CodexInv /\ [Next]_vars => CodexTypeOK'
<1> SUFFICES ASSUME CodexInv, [Next]_vars PROVE CodexTypeOK'
  OBVIOUS
<1> USE Names
<1>1. CodexTypeOK /\ RunsListen /\ RequestsAreAwaited
  BY DEF CodexInv
<1>2. ASSUME NEW r \in Runs, NEW kind \in {"prompt", "compact"}, Begin(r, kind)
      PROVE  CodexTypeOK'
  <2> DEFINE stage == CASE initialized = "failed" -> "over"
                        [] initialized = "yes" -> "opening"
                        [] OTHER -> "initializing"
             outcome == IF stage = "over" THEN "error" ELSE "none"
             Q == CASE initialized = "no" -> {Initialize}
                    [] stage = "opening" -> {Request("thread", r)}
                    [] OTHER -> {}
  <2>1. stage \in Stages /\ outcome \in Outcomes
    BY DEF Stages, Outcomes
  <2>2. run' = [run EXCEPT ![r] =
                  [NoRun EXCEPT !.stage = stage, !.kind = kind, !.outcome = outcome]]
        /\ Send(Q)
    BY <1>2 DEF Begin
  <2>3. [NoRun EXCEPT !.stage = stage, !.kind = kind, !.outcome = outcome] \in RunRecords
    BY <2>1 DEF NoRun, RunRecords
  <2>4. Q \in SUBSET Requests
    BY MakeRequests
  <2> HIDE DEF stage, outcome, Q
  <2>5. pending' \subseteq Requests /\ asked' \subseteq Requests
    BY <1>1, <2>2, <2>4, SendTypes
  <2> QED  BY <1>1, <1>2, <2>2, <2>3, <2>5 DEF Begin, CodexTypeOK
<1>3. ASSUME NEW r \in Runs, Ask(r) PROVE CodexTypeOK'
  <2>1. Send({TurnRequest(r)}) /\ {TurnRequest(r)} \in SUBSET Requests
    BY <1>3, MakeRequests DEF Ask, TurnRequest
  <2>2. pending' \subseteq Requests /\ asked' \subseteq Requests
    BY <1>1, <2>1, SendTypes
  <2>3. [run[r] EXCEPT !.stage = "asking"] \in RunRecords
    BY <1>1, RunUpdates, RunTypes DEF Stages
  <2> QED  BY <1>1, <1>3, <2>2, <2>3 DEF Ask, CodexTypeOK
<1>4. ASSUME NEW r \in Runs, Stop(r) PROVE CodexTypeOK'
  BY <1>1, <1>4, RunUpdates, RunTypes DEF Stop, CodexTypeOK
<1>5. ASSUME NEW r \in Runs, Normalize(r) PROVE CodexTypeOK'
  <2>1. CASE \E outcome \in Outcomes : Ended({r}, outcome)
    <3>1. {r} \in SUBSET Runs
      OBVIOUS
    <3> QED
      BY <1>1, <1>5, <2>1, <3>1, EndedTypes DEF Normalize, serverVars, CodexTypeOK
  <2>2. CASE ~\E outcome \in Outcomes : Ended({r}, outcome)
    <3>1. PICK erred \in BOOLEAN :
             /\ queue' = [queue EXCEPT ![r] = Tail(@)]
             /\ run' = [run EXCEPT ![r].erred = erred]
             /\ UNCHANGED activeTurns
      BY <1>1, <1>5, <2>2, RunTypes DEF Normalize, Outcomes
    <3>2. queue[r] \in Seq(Lines) /\ queue[r] # <<>>
      BY <1>1, <1>5 DEF Normalize, CodexTypeOK
    <3>3. Tail(queue[r]) \in Seq(Lines)
      BY <3>2
    <3>4. run' \in [Runs -> RunRecords] /\ queue' \in [Runs -> Seq(Lines)]
      BY <1>1, <3>1, <3>3, RunUpdates DEF CodexTypeOK
    <3> QED  BY <1>1, <1>5, <3>1, <3>4 DEF Normalize, serverVars, CodexTypeOK
  <2> QED  BY <2>1, <2>2
<1>6. ASSUME NEW k \in Steers, AskToSteer(k) PROVE CodexTypeOK'
  <2> DEFINE q == [method |-> "steer", by |-> k, of |-> run[steer[k].run].current]
  <2>1. steer[k].run \in Runs
    BY <1>1, <1>6 DEF AskToSteer, RunsListen
  <2>2. {q} \in SUBSET Requests /\ Send({q})
    BY <1>1, <1>6, <2>1, RunTypes, MakeRequests DEF AskToSteer
  <2>3. pending' \subseteq Requests /\ asked' \subseteq Requests
    BY <1>1, <2>2, SendTypes
  <2>4. steer' \in [Steers -> SteerRecords]
    BY <1>1, <1>6 DEF AskToSteer, CodexTypeOK, SteerRecords
  <2> QED  BY <1>1, <1>6, <2>3, <2>4 DEF AskToSteer, CodexTypeOK
<1>7. ASSUME NEW k \in Steers, NEW th \in Threads, TakeTurn(k, th) PROVE CodexTypeOK'
  BY <1>1, <1>7 DEF TakeTurn, CodexTypeOK, SteerRecords, serverVars
<1>8. CASE AnswerDropped
  BY <1>1, <1>8, ReadLine DEF AnswerDropped, clientVars, CodexTypeOK
<1>9. CASE InitializeAnswered
  <2> DEFINE waiting == {r \in Runs : run[r].stage = "initializing"}
             opens == {Request("thread", r) : r \in waiting}
  <2>1. opens \in SUBSET Requests
    BY MakeRequests
  <2>2. run' \in [Runs -> RunRecords]
    BY <1>1, <1>9, RunUpdates DEF InitializeAnswered, CodexTypeOK, Stages
  <2>3. lines' \in Seq(Lines)
    BY <1>1, <1>9, ReadLine DEF InitializeAnswered, Answered
  <2> QED  BY <1>1, <1>9, <2>1, <2>2, <2>3 DEF InitializeAnswered, CodexTypeOK
<1>10. CASE ThreadAnswered
  <2>1. Line.req.by \in Runs /\ lines' \in Seq(Lines)
    BY <1>1, <1>10, AnsweredOne, ReadLine DEF ThreadAnswered, Answered
  <2> QED
    BY <1>1, <1>10, <2>1, RunUpdates DEF ThreadAnswered, CodexTypeOK, Stages
<1>11. CASE TurnAnswered
  <2> DEFINE r == Line.req.by
  <2>1. r \in Runs /\ lines' \in Seq(Lines)
    BY <1>1, <1>11, AnsweredOne, ReadLine DEF TurnAnswered, Answered
  <2>2. run' = [run EXCEPT ![r] = [run[r] EXCEPT !.stage = "listening", !.current = r,
                                                 !.observed = {r}]]
    BY <1>1, <1>11, <2>1 DEF TurnAnswered, CodexTypeOK
  <2>3. run' \in [Runs -> RunRecords]
    BY <1>1, <2>1, <2>2, RunUpdates DEF CodexTypeOK
  <2>4. activeTurns' \in [Threads -> Runs \cup {None}]
    BY <1>1, <1>11, <2>1 DEF TurnAnswered, CodexTypeOK
  <2> QED  BY <1>1, <1>11, <2>1, <2>3, <2>4 DEF TurnAnswered, CodexTypeOK
<1>12. CASE CompactAnswered
  <2>1. Line.req.by \in Runs /\ lines' \in Seq(Lines)
    BY <1>1, <1>12, AnsweredOne, ReadLine DEF CompactAnswered, Answered
  <2> QED
    BY <1>1, <1>12, <2>1, RunUpdates DEF CompactAnswered, CodexTypeOK, Stages
<1>13. CASE SteerAnswered
  <2> DEFINE k == Line.req.by
             r == steer[k].run
  <2>1. k \in Steers /\ r \in Runs /\ Line.turn \in Turns /\ lines' \in Seq(Lines)
    BY <1>1, <1>13, AnsweredOne, ReadLine DEF SteerAnswered, Answered
  <2>2. run' = [run EXCEPT ![r] = [run[r] EXCEPT !.current = Line.turn,
                                                 !.observed = @ \cup {Line.turn}]]
    BY <1>1, <1>13, <2>1 DEF SteerAnswered, CodexTypeOK
  <2>3. run' \in [Runs -> RunRecords]
    BY <1>1, <2>1, <2>2, RunUpdates DEF CodexTypeOK
  <2>4. steer' \in [Steers -> SteerRecords]
    <3>1. [steer[k] EXCEPT !.stage = "over"] \in SteerRecords
      BY <1>1, <2>1 DEF CodexTypeOK, SteerRecords
    <3> QED  BY <1>1, <1>13, <2>1, <3>1 DEF SteerAnswered, CodexTypeOK
  <2> QED  BY <1>1, <1>13, <2>1, <2>3, <2>4 DEF SteerAnswered, CodexTypeOK
<1>14. CASE RefusalRead
  <2>1. {Line.req} \in SUBSET Requests /\ lines' \in Seq(Lines)
    BY <1>1, <1>14, ReadLine DEF RefusalRead, CodexTypeOK
  <2> QED
    BY <1>1, <1>14, <2>1, RejectedTypes DEF RefusalRead, CodexTypeOK
<1>15. CASE NotificationRead
  <2>1. Line \in Lines /\ lines' \in Seq(Lines)
    BY <1>1, <1>15, ReadLine DEF NotificationRead
  <2>2. \A r \in Runs : Append(queue[r], Line) \in Seq(Lines)
    BY <1>1, <2>1 DEF CodexTypeOK
  <2> QED  BY <1>1, <1>15, <2>1, <2>2 DEF NotificationRead, CodexTypeOK
<1>16. ASSUME NEW q \in pending, TimesOut(q) PROVE CodexTypeOK'
  <2>1. {q} \in SUBSET Requests
    BY <1>1 DEF CodexTypeOK
  <2> QED
    BY <1>1, <1>16, <2>1, RejectedTypes DEF TimesOut, serverVars, CodexTypeOK
<1>17. CASE Exit
  <2>1. pending \in SUBSET Requests
    BY <1>1 DEF CodexTypeOK
  <2> QED
    BY <1>1, <1>17, <2>1, RejectedTypes DEF Exit, CodexTypeOK
<1>18. CASE Server
  BY <1>18, ServerTypes
<1>19. CASE UNCHANGED vars
  BY <1>1, <1>19 DEF vars, clientVars, serverVars, CodexTypeOK
<1> QED
  BY <1>2, <1>3, <1>4, <1>5, <1>6, <1>7, <1>8, <1>9, <1>10, <1>11, <1>12, <1>13, <1>14, <1>15,
     <1>16, <1>17, <1>18, <1>19
  DEF Next, Reads

-----------------------------------------------------------------------------
(* What no step takes back.                                                *)

Early == {"idle", "initializing", "opening", "opened"}
Late == {"asking", "listening", "over"}
Heard == {"listening", "over"}

KeepsRuns ==
    \A r \in Runs :
        /\ run'[r].stage \in Early => run[r].stage \in Early
        /\ run[r].stage \in Late => run'[r].stage \in Late /\ run'[r].kind = run[r].kind
        /\ run[r].stage \in Heard =>
              run'[r].stage \in Heard /\ run[r].observed \subseteq run'[r].observed

KeepsCurrent ==
    \A r \in Runs : run[r].stage \in Heard => run'[r].current = run[r].current

KeepsSteers ==
    \A k \in Steers :
        /\ steer'[k].stage \in {"idle", "preparing"} => steer[k].stage \in {"idle", "preparing"}
        /\ steer[k].stage \in {"asked", "over"} => steer'[k].stage \in {"asked", "over"}
        /\ steer[k].stage # "idle" => steer'[k].stage # "idle" /\ steer'[k].run = steer[k].run
        /\ steer[k].stage = "idle" => steer'[k] = steer[k] \/ \E th \in Threads : TakeTurn(k, th)

LEMMA EndedFacts ==
    ASSUME CodexTypeOK, NEW R \in SUBSET Runs, NEW outcome \in Outcomes, Ended(R, outcome)
    PROVE  /\ \A r \in Runs \ R : run'[r] = run[r] /\ queue'[r] = queue[r]
           /\ \A r \in R : /\ run'[r].stage = "over" /\ run'[r].outcome = outcome
                           /\ run'[r].kind = run[r].kind /\ run'[r].current = run[r].current
                           /\ run'[r].observed = run[r].observed
                           /\ queue'[r] = <<>>
           /\ \A th \in Threads : activeTurns'[th] # None =>
                 activeTurns'[th] = activeTurns[th] /\ activeTurns[th] \notin R
  BY DEF Ended, CodexTypeOK, RunRecords

LEMMA RejectedFacts ==
    ASSUME CodexTypeOK, RunsListen, RequestsAreAwaited, NEW Q \in SUBSET pending, Rejected(Q)
    PROVE  /\ \E R \in SUBSET Runs : Ended(R, "error")
           /\ "error" \in Outcomes
           /\ KeepsSteers
<1>1. \E R \in SUBSET Runs : Ended(R, "error")
  BY DEF Rejected
<1>2. \A k \in Steers : steer'[k] = steer[k] \/ (/\ \E q \in Q : q.by = k
                                                 /\ steer'[k].stage = "over"
                                                 /\ steer'[k].run = steer[k].run)
  BY DEF Rejected, CodexTypeOK, SteerRecords
<1>3. ASSUME NEW k \in Steers, NEW q \in Q, q.by = k PROVE steer[k].stage \in {"asked", "over"}
  <2>1. q \in Requests /\ q.method = "steer"
    BY <1>3, RequestTypes DEF CodexTypeOK
  <2> QED  BY <1>3, <2>1 DEF RequestsAreAwaited
<1> QED  BY <1>1, <1>2, <1>3 DEF KeepsSteers, Outcomes

LEMMA EndedKeeps ==
    ASSUME CodexTypeOK, NEW R \in SUBSET Runs, NEW outcome \in Outcomes, Ended(R, outcome)
    PROVE  KeepsRuns /\ KeepsCurrent
  BY EndedFacts DEF KeepsRuns, KeepsCurrent, Early, Late, Heard

LEMMA NextKeeps ==
    ASSUME CodexInv, [Next]_vars
    PROVE  KeepsRuns /\ KeepsSteers /\ (KeepsCurrent \/ SteerAnswered)
<1> USE DEF Early, Late, Heard
<1>1. CodexTypeOK /\ RunsListen /\ RequestsAreAwaited
  BY DEF CodexInv
<1>2. CASE UNCHANGED <<run, steer>>
  BY <1>2 DEF KeepsRuns, KeepsCurrent, KeepsSteers
<1>3. UNCHANGED steer => KeepsSteers
  BY DEF KeepsSteers
<1>4. UNCHANGED run => KeepsRuns /\ KeepsCurrent
  BY DEF KeepsRuns, KeepsCurrent
<1>5. ASSUME NEW r \in Runs, NEW kind \in {"prompt", "compact"}, Begin(r, kind)
      PROVE  KeepsRuns /\ KeepsSteers /\ KeepsCurrent
  <2>1. run[r].stage = "idle" /\ steer' = steer /\ \A p \in Runs \ {r} : run'[p] = run[p]
    BY <1>1, <1>5 DEF Begin, CodexTypeOK
  <2> QED  BY <1>3, <2>1 DEF KeepsRuns, KeepsCurrent
<1>6. ASSUME NEW r \in Runs, Ask(r) \/ Stop(r) PROVE KeepsRuns /\ KeepsSteers /\ KeepsCurrent
  <2>1. steer' = steer /\ \A p \in Runs \ {r} : run'[p] = run[p]
    BY <1>1, <1>6 DEF Ask, Stop, CodexTypeOK
  <2>2. /\ run'[r].kind = run[r].kind /\ run'[r].current = run[r].current
        /\ run'[r].observed = run[r].observed
        /\ \/ run'[r].stage = run[r].stage
           \/ run[r].stage = "opened" /\ run'[r].stage = "asking"
    BY <1>1, <1>6 DEF Ask, Stop, CodexTypeOK, RunRecords
  <2> QED  BY <1>3, <2>1, <2>2 DEF KeepsRuns, KeepsCurrent
<1>7. ASSUME NEW r \in Runs, Normalize(r) PROVE KeepsRuns /\ KeepsSteers /\ KeepsCurrent
  <2>1. CASE \E outcome \in Outcomes : Ended({r}, outcome)
    BY <1>1, <1>3, <1>7, <2>1, EndedKeeps DEF Normalize
  <2>2. CASE ~\E outcome \in Outcomes : Ended({r}, outcome)
    <3>1. /\ \A p \in Runs \ {r} : run'[p] = run[p]
          /\ run'[r].stage = run[r].stage /\ run'[r].kind = run[r].kind
          /\ run'[r].current = run[r].current /\ run'[r].observed = run[r].observed
      BY <1>1, <1>7, <2>2 DEF Normalize, Outcomes, CodexTypeOK, RunRecords
    <3> QED  BY <1>3, <1>7, <3>1 DEF Normalize, KeepsRuns, KeepsCurrent
  <2> QED  BY <2>1, <2>2
<1>8. ASSUME NEW k \in Steers, AskToSteer(k) PROVE KeepsRuns /\ KeepsSteers /\ KeepsCurrent
  <2>1. /\ \A j \in Steers \ {k} : steer'[j] = steer[j]
        /\ steer[k].stage = "preparing" /\ steer'[k].stage = "asked"
        /\ steer'[k].run = steer[k].run /\ run' = run
    BY <1>1, <1>8 DEF AskToSteer, CodexTypeOK, SteerRecords
  <2> QED  BY <1>4, <2>1 DEF KeepsSteers
<1>9. ASSUME NEW k \in Steers, NEW th \in Threads, TakeTurn(k, th)
       PROVE  KeepsRuns /\ KeepsSteers /\ KeepsCurrent
  <2>1. /\ \A j \in Steers \ {k} : steer'[j] = steer[j]
        /\ steer[k].stage = "idle" /\ steer'[k].stage = "preparing" /\ run' = run
    BY <1>1, <1>9 DEF TakeTurn, CodexTypeOK, SteerRecords, NoSteer
  <2> QED  BY <1>4, <1>9, <2>1 DEF KeepsSteers
<1>10. CASE InitializeAnswered
  <2>1. steer' = steer /\ \A r \in Runs :
           \/ run'[r] = run[r]
           \/ run[r].stage = "initializing" /\ run'[r].stage = "opening"
    BY <1>1, <1>10 DEF InitializeAnswered, CodexTypeOK, RunRecords
  <2> QED  BY <1>3, <2>1 DEF KeepsRuns, KeepsCurrent
<1>11. CASE ThreadAnswered
  <2>1. /\ Line.req.by \in Runs /\ run[Line.req.by].stage = "opening"
        /\ run' = [run EXCEPT ![Line.req.by].stage = "opened"] /\ steer' = steer
    BY <1>11, AnsweredOne DEF ThreadAnswered
  <2>2. \A p \in Runs : run'[p] = run[p] \/ (/\ run[p].stage = "opening"
                                             /\ run'[p].stage = "opened")
    BY <1>1, <2>1 DEF CodexTypeOK, RunRecords
  <2> QED  BY <1>3, <2>1, <2>2 DEF KeepsRuns, KeepsCurrent
<1>12. CASE TurnAnswered \/ CompactAnswered
  <2> DEFINE r == Line.req.by
  <2>1. r \in Runs /\ run[r].stage = "asking" /\ steer' = steer
    BY <1>12, AnsweredOne DEF TurnAnswered, CompactAnswered
  <2>2. /\ \A p \in Runs \ {r} : run'[p] = run[p]
        /\ run'[r].stage = "listening" /\ run'[r].kind = run[r].kind
    BY <1>1, <1>12, <2>1 DEF TurnAnswered, CompactAnswered, CodexTypeOK, RunRecords
  <2> QED  BY <1>3, <2>1, <2>2 DEF KeepsRuns, KeepsCurrent
<1>13. CASE SteerAnswered
  <2> DEFINE k == Line.req.by
             r == steer[k].run
  <2>1. k \in Steers /\ r \in Runs
    BY <1>13, AnsweredOne DEF SteerAnswered
  <2>2. steer[k].stage \in {"asked", "over"}
    BY <1>1, <1>13, AnsweredOne DEF SteerAnswered, RequestsAreAwaited
  <2>3. /\ \A j \in Steers \ {k} : steer'[j] = steer[j]
        /\ steer'[k].stage = "over" /\ steer'[k].run = steer[k].run
    BY <1>1, <1>13, <2>1 DEF SteerAnswered, CodexTypeOK, SteerRecords
  <2>4. run' = [run EXCEPT ![r] = [run[r] EXCEPT !.current = Line.turn,
                                                 !.observed = @ \cup {Line.turn}]]
    BY <1>1, <1>13, <2>1 DEF SteerAnswered, CodexTypeOK
  <2>5. /\ \A p \in Runs \ {r} : run'[p] = run[p]
        /\ run'[r].stage = run[r].stage /\ run'[r].kind = run[r].kind
        /\ run'[r].observed = run[r].observed \cup {Line.turn}
    BY <1>1, <2>1, <2>4 DEF CodexTypeOK, RunRecords
  <2> QED  BY <1>13, <2>2, <2>3, <2>5 DEF KeepsRuns, KeepsSteers
<1>14. ASSUME NEW Q \in SUBSET pending, Rejected(Q)
       PROVE  KeepsRuns /\ KeepsSteers /\ KeepsCurrent
  BY <1>1, <1>14, RejectedFacts, EndedKeeps
<1>15. CASE RefusalRead
  BY <1>14, <1>15 DEF RefusalRead
<1>16. CASE Exit \/ \E q \in pending : TimesOut(q)
  BY <1>14, <1>16 DEF Exit, TimesOut
<1>17. CASE AnswerDropped \/ NotificationRead \/ Server \/ UNCHANGED vars
  BY <1>2, <1>17
  DEF AnswerDropped, NotificationRead, Server, Refuses, BeginsTurn, Serves, SteersInPlace,
      SteersIntoNewTurn, AnswersTurn, ReportsError, FinalAnswer, Completes, Interrupts, Handled,
      clientVars, vars
<1> QED
  BY <1>5, <1>6, <1>7, <1>8, <1>9, <1>10, <1>11, <1>12, <1>13, <1>15, <1>16, <1>17
  DEF Next, Reads

(* Turns come to their end, and do not begin again.                        *)
KeepsTurns ==
    \A t \in Turns : /\ turn[t] \in {"finishing", "ended"} => turn'[t] \in {"finishing", "ended"}
                     /\ turn[t] = "ended" => turn'[t] = "ended"

LEMMA TurnsKept ==
    ASSUME CodexInv, [Next]_vars
    PROVE  KeepsTurns
<1>1. CodexTypeOK /\ AskedAreNew /\ asked \subseteq Requests
  BY DEF CodexInv, CodexTypeOK
<1>2. CASE turn' = turn
  BY <1>2 DEF KeepsTurns
<1>3. ASSUME NEW q \in asked, BeginsTurn(q) PROVE KeepsTurns
  BY <1>1, <1>3, RequestTypes DEF BeginsTurn, AskedAreNew, KeepsTurns, CodexTypeOK
<1>4. ASSUME NEW q \in asked, SteersIntoNewTurn(q) PROVE KeepsTurns
  <2>1. turn[q.by] = "none" /\ turn[q.of] = "running"
    BY <1>1, <1>4 DEF SteersIntoNewTurn, AskedAreNew
  <2> QED  BY <1>1, <1>4, <2>1 DEF SteersIntoNewTurn, KeepsTurns, CodexTypeOK
<1>5. ASSUME NEW t \in Turns, FinalAnswer(t) \/ Completes(t) \/ Interrupts(t) PROVE KeepsTurns
  BY <1>1, <1>5 DEF FinalAnswer, Completes, Interrupts, InProgress, KeepsTurns, CodexTypeOK
<1> QED
  BY <1>2, <1>3, <1>4, <1>5
  DEF Next, Begin, Ask, Stop, Normalize, AskToSteer, TakeTurn, Reads, AnswerDropped,
      InitializeAnswered, ThreadAnswered, TurnAnswered, CompactAnswered, SteerAnswered,
      RefusalRead, NotificationRead, TimesOut, Exit, Server, Refuses, Serves, SteersInPlace,
      AnswersTurn, ReportsError, serverVars, vars

-----------------------------------------------------------------------------
(* Requests.                                                               *)

LEMMA OneRequest ==
    ASSUME CodexInv, NEW p \in pending, NEW q \in pending, p.by = q.by, q.by \in Runs
    PROVE  /\ p = q
           /\ run[q.by].stage \in {"opening", "asking"}
<1>1. p \in Requests /\ q \in Requests /\ RequestsAreAwaited
  BY DEF CodexInv, CodexTypeOK
<1>2. /\ p.method \in {"thread", "turn", "compact"} /\ p.of = None
      /\ q.method \in {"thread", "turn", "compact"} /\ q.of = None
      /\ p = [method |-> p.method, by |-> p.by, of |-> p.of]
      /\ q = [method |-> q.method, by |-> q.by, of |-> q.of]
  BY <1>1, RequestTypes
<1> QED  BY <1>1, <1>2 DEF RequestsAreAwaited

LEMMA SameAwaited ==
    ASSUME CodexInv, KeepsSteers, pending' \subseteq pending,
           \A r \in Runs : (\E q \in pending' : q.by = r)
                           => run'[r].stage = run[r].stage /\ run'[r].kind = run[r].kind
    PROVE  RequestsAreAwaited'
<1> SUFFICES ASSUME NEW q \in pending'
             PROVE  /\ q.method = "thread" => run'[q.by].stage = "opening"
                    /\ q.method \in {"turn", "compact"} =>
                          run'[q.by].stage = "asking" /\ q = TurnRequest(q.by)'
                    /\ q.method = "steer" => steer'[q.by].stage \in {"asked", "over"}
  BY DEF RequestsAreAwaited
<1>1. q \in pending /\ q \in Requests /\ RequestsAreAwaited
  BY DEF CodexInv, CodexTypeOK
<1>2. CASE q.method \in {"thread", "turn", "compact"}
  BY <1>1, <1>2, RequestTypes DEF RequestsAreAwaited, TurnRequest
<1>3. CASE q.method = "steer"
  BY <1>1, <1>3, RequestTypes DEF RequestsAreAwaited, KeepsSteers
<1> QED  BY <1>1, <1>2, <1>3, RequestTypes

LEMMA NextAwaited == CodexInv /\ [Next]_vars => RequestsAreAwaited'
<1> SUFFICES ASSUME CodexInv, [Next]_vars PROVE RequestsAreAwaited'
  OBVIOUS
<1>1. /\ CodexTypeOK /\ RunsListen /\ RequestsAreAwaited
      /\ KeepsRuns /\ KeepsSteers
      /\ pending \subseteq Requests
  BY NextKeeps DEF CodexInv, CodexTypeOK
<1>2. ASSUME NEW q \in pending, q.by \in Runs PROVE run[q.by].stage \in {"opening", "asking"}
  BY <1>2, OneRequest
<1>3. ASSUME NEW q \in pending, q.method \in {"thread", "turn", "compact"} PROVE q.by \in Runs
  BY <1>1, <1>3, RequestTypes
<1>4. ASSUME NEW r \in Runs, \A p \in Runs \ {r} : run'[p] = run[p],
             run[r].stage \notin {"opening", "asking"}, pending' \subseteq pending
      PROVE  RequestsAreAwaited'
  BY <1>1, <1>2, <1>4, SameAwaited
<1>5. ASSUME NEW r \in Runs, NEW kind \in {"prompt", "compact"}, Begin(r, kind)
      PROVE  RequestsAreAwaited'
  <2>1. /\ run[r].stage = "idle" /\ steer' = steer /\ \A p \in Runs \ {r} : run'[p] = run[p]
        /\ \A q \in pending' : \/ q \in pending
                               \/ q = Initialize
                               \/ q = Request("thread", r) /\ run'[r].stage = "opening"
    BY <1>1, <1>5 DEF Begin, Send, CodexTypeOK, NoRun
  <2>2. ASSUME NEW q \in pending, q.by \in Runs PROVE run'[q.by] = run[q.by]
    BY <1>2, <2>1, <2>2
  <2> QED
    BY <1>1, <1>3, <2>1, <2>2 DEF RequestsAreAwaited, TurnRequest, Initialize, Request
<1>6. ASSUME NEW r \in Runs, Ask(r) PROVE RequestsAreAwaited'
  <2>1. /\ run[r].stage = "opened" /\ steer' = steer /\ \A p \in Runs \ {r} : run'[p] = run[p]
        /\ run'[r].stage = "asking" /\ run'[r].kind = run[r].kind
        /\ pending' = pending \cup {TurnRequest(r)}
    BY <1>1, <1>6 DEF Ask, Send, TurnRequest, CodexTypeOK, RunRecords
  <2>2. ASSUME NEW q \in pending, q.by \in Runs PROVE run'[q.by] = run[q.by]
    BY <1>2, <2>1, <2>2
  <2>3. TurnRequest(r).method \in {"turn", "compact"} /\ TurnRequest(r).by = r
        /\ TurnRequest(r) = TurnRequest(r)'
    BY <2>1 DEF TurnRequest, Request
  <2> QED
    BY <1>1, <1>3, <2>1, <2>2, <2>3 DEF RequestsAreAwaited, TurnRequest
<1>7. ASSUME NEW r \in Runs, Stop(r) PROVE RequestsAreAwaited'
  <2>1. \A p \in Runs : run'[p].stage = run[p].stage /\ run'[p].kind = run[p].kind
    BY <1>1, <1>7 DEF Stop, CodexTypeOK, RunRecords
  <2> QED  BY <1>1, <1>7, <2>1, SameAwaited DEF Stop
<1>8. ASSUME NEW r \in Runs, Normalize(r) PROVE RequestsAreAwaited'
  <2>1. run[r].stage = "listening" /\ pending' = pending
    BY <1>8 DEF Normalize, Listening
  <2>2. \A p \in Runs \ {r} : run'[p] = run[p]
    BY <1>1, <1>8 DEF Normalize, Ended, CodexTypeOK
  <2> QED  BY <1>4, <2>1, <2>2
<1>9. ASSUME NEW k \in Steers, AskToSteer(k) PROVE RequestsAreAwaited'
  <2>1. /\ steer'[k].stage = "asked" /\ run' = run
        /\ Send({[method |-> "steer", by |-> k, of |-> run[steer[k].run].current]})
    BY <1>1, <1>9 DEF AskToSteer, CodexTypeOK, SteerRecords
  <2>2. \A q \in pending' : q \in pending \/ (q.method = "steer" /\ q.by = k)
    BY <2>1 DEF Send
  <2> QED
    BY <1>1, <2>1, <2>2, RequestTypes DEF RequestsAreAwaited, KeepsSteers, TurnRequest
<1>10. CASE InitializeAnswered
  <2> DEFINE waiting == {r \in Runs : run[r].stage = "initializing"}
  <2>1. /\ \A q \in pending' : q \in pending \/ \E r \in waiting : q = Request("thread", r)
        /\ \A r \in waiting : run'[r].stage = "opening"
        /\ \A r \in Runs \ waiting : run'[r] = run[r]
        /\ steer' = steer
    BY <1>1, <1>10 DEF InitializeAnswered, CodexTypeOK, RunRecords
  <2>2. ASSUME NEW q \in pending, q.by \in Runs PROVE run'[q.by] = run[q.by]
    BY <1>2, <2>1, <2>2
  <2> QED
    BY <1>1, <1>3, <2>1, <2>2 DEF RequestsAreAwaited, TurnRequest, Request
<1>11. CASE ThreadAnswered \/ TurnAnswered \/ CompactAnswered
  <2> DEFINE r == Line.req.by
  <2>1. r \in Runs /\ Line.req \in pending /\ pending' = pending \ {Line.req}
    BY <1>11, AnsweredOne DEF ThreadAnswered, TurnAnswered, CompactAnswered
  <2>2. \A p \in Runs \ {r} : run'[p] = run[p]
    BY <1>1, <1>11, <2>1 DEF ThreadAnswered, TurnAnswered, CompactAnswered, CodexTypeOK
  <2>3. \A q \in pending' : q.by # r
    BY <2>1, OneRequest
  <2> QED  BY <1>1, <2>1, <2>2, <2>3, SameAwaited
<1>12. CASE SteerAnswered
  <2> DEFINE r == steer[Line.req.by].run
  <2>1. r \in Runs /\ pending' \subseteq pending
    BY <1>12, AnsweredOne DEF SteerAnswered
  <2>2. Line.req.by \in Steers /\ steer[Line.req.by].stage # "idle"
    BY <1>1, <1>12, AnsweredOne DEF SteerAnswered, RequestsAreAwaited
  <2>3. run[r].stage \in {"listening", "over"}
    BY <1>1, <2>1, <2>2 DEF RunsListen
  <2>4. \A p \in Runs \ {r} : run'[p] = run[p]
    BY <1>1, <1>12, <2>1 DEF SteerAnswered, CodexTypeOK
  <2> QED  BY <1>4, <2>1, <2>3, <2>4
<1>13. ASSUME NEW Q \in SUBSET pending, Rejected(Q), pending' = pending \ Q
       PROVE  RequestsAreAwaited'
  <2>1. ASSUME NEW q \in pending', q.by \in Runs PROVE run'[q.by] = run[q.by]
    <3>1. ~\E p \in Q : WaitsFor(q.by, p)
      <4>1. ASSUME NEW p \in Q, p.by = q.by PROVE FALSE
        BY <1>13, <2>1, <4>1, OneRequest
      <4>2. run[q.by].stage # "initializing"
        BY <1>2, <1>13, <2>1
      <4> QED  BY <4>1, <4>2 DEF WaitsFor
    <3> QED  BY <1>1, <1>13, <2>1, <3>1 DEF Rejected, Ended, CodexTypeOK
  <2> QED  BY <1>1, <1>13, <2>1, SameAwaited
<1>14. CASE RefusalRead
  BY <1>13, <1>14 DEF RefusalRead
<1>15. CASE \E q \in pending : TimesOut(q)
  BY <1>13, <1>15 DEF TimesOut
<1>16. CASE Exit
  BY <1>16 DEF Exit, RequestsAreAwaited
<1>17. CASE run' = run /\ pending' = pending
  BY <1>1, <1>17, SameAwaited
<1> QED
  BY <1>5, <1>6, <1>7, <1>8, <1>9, <1>10, <1>11, <1>12, <1>14, <1>15, <1>16, <1>17
  DEF Next, Reads, TakeTurn, AnswerDropped, NotificationRead, Server, Refuses, BeginsTurn,
      Serves, SteersInPlace, SteersIntoNewTurn, AnswersTurn, ReportsError, FinalAnswer,
      Completes, Interrupts, Handled, clientVars, vars

-----------------------------------------------------------------------------
(* Who listens.                                                            *)

LEMMA CurrentKept ==
    ASSUME CodexInv, [Next]_vars, NEW r \in Runs, run[r].stage \in Heard, run[r].current \in Turns
    PROVE  run'[r].current \in Turns
<1>1. CASE KeepsCurrent
  BY <1>1 DEF KeepsCurrent
<1>2. CASE SteerAnswered
  <2> DEFINE s == steer[Line.req.by].run
  <2>1. Line.turn \in Turns /\ s \in Runs /\ CodexTypeOK
    BY <1>2, AnsweredOne DEF SteerAnswered, CodexInv
  <2>2. run' = [run EXCEPT ![s] = [run[s] EXCEPT !.current = Line.turn,
                                                 !.observed = @ \cup {Line.turn}]]
    BY <1>2, <2>1 DEF SteerAnswered, CodexTypeOK
  <2> HIDE DEF s
  <2> QED  BY <2>1, <2>2 DEF CodexTypeOK, RunRecords
<1> QED  BY <1>1, <1>2, NextKeeps

RunsFit ==
    \A r \in Runs :
        /\ run[r].outcome # "none" => run[r].stage = "over"
        /\ Listening(r) /\ run[r].kind = "prompt" => run[r].current \in Turns

ActiveFit ==
    \A th \in Threads : activeTurns[th] # None =>
        Listening(activeTurns[th]) /\ run[activeTurns[th]].kind = "prompt"

LEMMA SameListen ==
    ASSUME CodexTypeOK, RunsListen, activeTurns' = activeTurns,
           NEW r \in Runs, \A p \in Runs \ {r} : run'[p] = run[p],
           Listening(r) => run'[r].stage = "listening" /\ run'[r].kind = run[r].kind,
           run'[r].outcome # "none" => run'[r].stage = "over",
           run'[r].stage = "listening" /\ run'[r].kind = "prompt" => run'[r].current \in Turns
    PROVE  RunsFit' /\ ActiveFit'
<1>1. RunsFit'
  BY DEF RunsListen, RunsFit, Listening
<1>2. ASSUME NEW th \in Threads, activeTurns[th] # None
      PROVE  /\ run'[activeTurns[th]].stage = "listening"
             /\ run'[activeTurns[th]].kind = "prompt"
  <2>1. activeTurns[th] \in Runs /\ Listening(activeTurns[th])
        /\ run[activeTurns[th]].kind = "prompt"
    BY <1>2 DEF RunsListen, CodexTypeOK
  <2> QED  BY <2>1 DEF Listening
<1>3. ActiveFit'
  BY <1>2 DEF ActiveFit, Listening
<1> QED  BY <1>1, <1>3

LEMMA EndedListen ==
    ASSUME CodexTypeOK, RunsListen, NEW R \in SUBSET Runs, NEW outcome \in Outcomes,
           Ended(R, outcome)
    PROVE  RunsFit' /\ ActiveFit'
<1>0. /\ \A r \in Runs \ R : run'[r] = run[r]
      /\ \A r \in R : run'[r].stage = "over"
      /\ \A th \in Threads : activeTurns'[th] # None =>
            activeTurns'[th] = activeTurns[th] /\ activeTurns[th] \notin R
  BY EndedFacts
<1>1. RunsFit'
  BY <1>0 DEF RunsListen, RunsFit, Listening
<1>2. ASSUME NEW th \in Threads, activeTurns'[th] # None
      PROVE  /\ run'[activeTurns'[th]].stage = "listening"
             /\ run'[activeTurns'[th]].kind = "prompt"
  <2>1. activeTurns'[th] = activeTurns[th] /\ activeTurns[th] \notin R
    BY <1>0, <1>2
  <2>2. activeTurns[th] \in Runs /\ Listening(activeTurns[th])
        /\ run[activeTurns[th]].kind = "prompt"
    BY <1>2, <2>1 DEF RunsListen, CodexTypeOK
  <2>3. run'[activeTurns[th]] = run[activeTurns[th]]
    BY <1>0, <2>1, <2>2
  <2> QED  BY <2>1, <2>2, <2>3 DEF Listening
<1>3. ActiveFit'
  BY <1>2 DEF ActiveFit, Listening
<1> QED  BY <1>1, <1>3

LEMMA NextListen == CodexInv /\ [Next]_vars => RunsListen'
<1> SUFFICES ASSUME CodexInv, [Next]_vars PROVE RunsListen'
  OBVIOUS
<1>1. /\ CodexTypeOK /\ RunsListen /\ RequestsAreAwaited /\ RunsFit /\ ActiveFit
      /\ KeepsRuns /\ KeepsSteers
  BY NextKeeps DEF CodexInv, RunsListen, RunsFit, ActiveFit
<1>2. ASSUME NEW k \in Steers
      PROVE  LET r == steer'[k].run
             IN  IF steer'[k].stage = "idle" THEN r = None
                 ELSE /\ r \in Runs
                      /\ run'[r].stage \in {"listening", "over"}
                      /\ run'[r].kind = "prompt" /\ run'[r].current \in Turns
  <2>1. CASE steer[k].stage = "idle" /\ steer'[k] = steer[k]
    BY <1>1, <2>1 DEF RunsListen
  <2>2. ASSUME NEW th \in Threads, TakeTurn(k, th)
        PROVE  /\ steer'[k].stage = "preparing" /\ steer'[k].run = activeTurns[th]
               /\ run' = run /\ activeTurns[th] \in Runs
    BY <1>1, <2>2 DEF TakeTurn, CodexTypeOK
  <2>3. CASE \E th \in Threads : TakeTurn(k, th)
    <3>1. PICK th \in Threads : TakeTurn(k, th)
      BY <2>3
    <3>2. Listening(activeTurns[th]) /\ run[activeTurns[th]].kind = "prompt"
      BY <1>1, <3>1 DEF ActiveFit, TakeTurn
    <3> QED  BY <1>1, <2>2, <3>1, <3>2 DEF RunsFit, Listening
  <2>4. CASE steer[k].stage # "idle"
    <3> DEFINE r == steer[k].run
    <3>1. /\ r \in Runs /\ run[r].stage \in Heard /\ run[r].kind = "prompt"
          /\ run[r].current \in Turns
      BY <1>1, <2>4 DEF RunsListen, Heard
    <3>2. steer'[k].stage # "idle" /\ steer'[k].run = r
      BY <1>1, <2>4 DEF KeepsSteers
    <3>3. run'[r].current \in Turns
      BY <3>1, CurrentKept
    <3> QED  BY <1>1, <3>1, <3>2, <3>3 DEF KeepsRuns, Heard, Late
  <2> QED  BY <1>1, <2>1, <2>3, <2>4 DEF KeepsSteers
<1>3. SUFFICES RunsFit' /\ ActiveFit'
  BY <1>2 DEF RunsListen, RunsFit, ActiveFit
<1>4. ASSUME NEW r \in Runs, NEW kind \in {"prompt", "compact"}, Begin(r, kind)
      PROVE  RunsFit' /\ ActiveFit'
  <2>1. /\ run[r].stage = "idle" /\ activeTurns' = activeTurns
        /\ \A p \in Runs \ {r} : run'[p] = run[p]
        /\ run'[r].stage # "listening"
        /\ run'[r].outcome # "none" => run'[r].stage = "over"
    BY <1>1, <1>4 DEF Begin, CodexTypeOK, NoRun
  <2> QED  BY <1>1, <2>1, SameListen DEF Listening
<1>5. ASSUME NEW r \in Runs, Ask(r) \/ Stop(r) PROVE RunsFit' /\ ActiveFit'
  <2>1. /\ activeTurns' = activeTurns
        /\ \A p \in Runs \ {r} : run'[p] = run[p]
        /\ run'[r].kind = run[r].kind /\ run'[r].current = run[r].current
        /\ run'[r].outcome = run[r].outcome
        /\ \/ run'[r].stage = run[r].stage
           \/ run[r].stage = "opened" /\ run'[r].stage = "asking"
    BY <1>1, <1>5 DEF Ask, Stop, CodexTypeOK, RunRecords
  <2> QED  BY <1>1, <2>1, SameListen DEF Listening, RunsFit
<1>6. ASSUME NEW r \in Runs, Normalize(r) PROVE RunsFit' /\ ActiveFit'
  <2>1. CASE \E outcome \in Outcomes : Ended({r}, outcome)
    <3>1. {r} \in SUBSET Runs
      OBVIOUS
    <3> QED  BY <1>1, <2>1, <3>1, EndedListen
  <2>2. CASE ~\E outcome \in Outcomes : Ended({r}, outcome)
    <3>1. /\ activeTurns' = activeTurns
          /\ \A p \in Runs \ {r} : run'[p] = run[p]
          /\ run'[r].stage = run[r].stage /\ run'[r].kind = run[r].kind
          /\ run'[r].current = run[r].current /\ run'[r].outcome = run[r].outcome
      BY <1>1, <1>6, <2>2 DEF Normalize, Outcomes, CodexTypeOK, RunRecords
    <3> QED  BY <1>1, <3>1, SameListen DEF Listening, RunsFit
  <2> QED  BY <2>1, <2>2
<1>7. CASE InitializeAnswered
  <2>1. activeTurns' = activeTurns /\ \A r \in Runs :
           \/ run'[r] = run[r]
           \/ /\ run[r].stage = "initializing" /\ run'[r].stage = "opening"
              /\ run'[r].outcome = run[r].outcome
    BY <1>1, <1>7 DEF InitializeAnswered, CodexTypeOK, RunRecords
  <2>2. RunsFit'
    BY <1>1, <2>1 DEF RunsFit, Listening
  <2>3. ASSUME NEW th \in Threads, activeTurns[th] # None
        PROVE  run'[activeTurns[th]] = run[activeTurns[th]]
    BY <1>1, <2>1, <2>3 DEF ActiveFit, Listening, CodexTypeOK
  <2>4. ActiveFit'
    BY <1>1, <2>1, <2>3 DEF ActiveFit, Listening
  <2> QED  BY <2>2, <2>4
<1>8. CASE ThreadAnswered \/ CompactAnswered
  <2> DEFINE r == Line.req.by
  <2>1. /\ r \in Runs /\ run[r].stage \in {"opening", "asking"} /\ activeTurns' = activeTurns
        /\ CompactAnswered => run[r].kind = "compact"
    BY <1>8, AnsweredOne DEF ThreadAnswered, CompactAnswered
  <2>2. /\ \A p \in Runs \ {r} : run'[p] = run[p]
        /\ run'[r].outcome = run[r].outcome /\ run'[r].kind = run[r].kind
        /\ run'[r].stage = "listening" => CompactAnswered
    <3>1. CASE ThreadAnswered
      BY <1>1, <2>1, <3>1 DEF ThreadAnswered, CodexTypeOK, RunRecords
    <3>2. CASE CompactAnswered
      BY <1>1, <2>1, <3>2 DEF CompactAnswered, CodexTypeOK, RunRecords
    <3> QED  BY <1>8, <3>1, <3>2
  <2> QED  BY <1>1, <2>1, <2>2, SameListen DEF Listening, RunsFit
<1>9. CASE TurnAnswered
  <2> DEFINE r == Line.req.by
  <2>1. r \in Runs /\ run[r].stage = "asking" /\ run[r].kind = "prompt"
    BY <1>9, AnsweredOne DEF TurnAnswered
  <2>2. run' = [run EXCEPT ![r] = [run[r] EXCEPT !.stage = "listening", !.current = r,
                                                 !.observed = {r}]]
    BY <1>1, <1>9, <2>1 DEF TurnAnswered, CodexTypeOK
  <2>3. /\ \A p \in Runs \ {r} : run'[p] = run[p]
        /\ run'[r].outcome = run[r].outcome /\ run'[r].kind = "prompt"
        /\ run'[r].stage = "listening" /\ run'[r].current = r
    BY <1>1, <2>1, <2>2 DEF CodexTypeOK, RunRecords
  <2>4. \A th \in Threads : activeTurns'[th] = activeTurns[th] \/ activeTurns'[th] = r
    BY <1>1, <1>9 DEF TurnAnswered, CodexTypeOK
  <2>5. RunsFit'
    BY <1>1, <2>1, <2>3, Names DEF RunsFit, Listening
  <2>6. ActiveFit'
    BY <1>1, <2>1, <2>3, <2>4 DEF ActiveFit, Listening, CodexTypeOK
  <2> QED  BY <2>5, <2>6
<1>10. CASE SteerAnswered
  <2> DEFINE r == steer[Line.req.by].run
  <2>1. r \in Runs /\ Line.turn \in Turns /\ activeTurns' = activeTurns
    BY <1>10, AnsweredOne DEF SteerAnswered
  <2>2. run' = [run EXCEPT ![r] = [run[r] EXCEPT !.current = Line.turn,
                                                 !.observed = @ \cup {Line.turn}]]
    BY <1>1, <1>10, <2>1 DEF SteerAnswered, CodexTypeOK
  <2>3. /\ \A p \in Runs \ {r} : run'[p] = run[p]
        /\ run'[r].outcome = run[r].outcome /\ run'[r].kind = run[r].kind
        /\ run'[r].stage = run[r].stage /\ run'[r].current = Line.turn
    BY <1>1, <2>1, <2>2 DEF CodexTypeOK, RunRecords
  <2> QED  BY <1>1, <2>1, <2>3, SameListen DEF Listening, RunsFit
<1>11. ASSUME NEW Q \in SUBSET pending, Rejected(Q) PROVE RunsFit' /\ ActiveFit'
  BY <1>1, <1>11, RejectedFacts, EndedListen
<1>12. CASE RefusalRead
  BY <1>11, <1>12 DEF RefusalRead
<1>13. CASE Exit \/ \E q \in pending : TimesOut(q)
  BY <1>11, <1>13 DEF Exit, TimesOut
<1>14. CASE run' = run /\ activeTurns' = activeTurns
  BY <1>1, <1>14 DEF RunsFit, ActiveFit, Listening
<1> QED
  BY <1>4, <1>5, <1>6, <1>7, <1>8, <1>9, <1>10, <1>12, <1>13, <1>14
  DEF Next, Reads, AskToSteer, TakeTurn, AnswerDropped, NotificationRead, Server, Refuses,
      BeginsTurn, Serves, SteersInPlace, SteersIntoNewTurn, AnswersTurn, ReportsError,
      FinalAnswer, Completes, Interrupts, Handled, clientVars, vars

-----------------------------------------------------------------------------
(* What the server is asked for.                                           *)

RunsAsk(q) ==
    /\ run[q.by].stage \in Late
    /\ q = TurnRequest(q.by)
    /\ turn[q.by] = "none"

SteerAsks(q) ==
    /\ steer[q.by].stage \in {"asked", "over"}
    /\ turn[q.by] = "none"
    /\ q.of \in Turns
    /\ q.of = run[steer[q.by].run].current \/ turn[q.of] = "ended"

OneAsks(q) == \A p \in asked : p.method = "steer" /\ p.by = q.by => p = q

LEMMA AskedInParts ==
    AskedAreNew <=>
        /\ \A r \in Runs : run[r].stage \in Early => turn[r] = "none"
        /\ \A k \in Steers : steer[k].stage \in {"idle", "preparing"} => turn[k] = "none"
        /\ \A q \in asked : q.method \in {"turn", "compact"} => RunsAsk(q)
        /\ \A q \in asked : q.method = "steer" => SteerAsks(q) /\ OneAsks(q)
  BY DEF AskedAreNew, RunsAsk, SteerAsks, OneAsks, Early, Late

LEMMA AskedInPartsPrimed ==
    AskedAreNew' <=>
        /\ \A r \in Runs : run'[r].stage \in Early => turn'[r] = "none"
        /\ \A k \in Steers : steer'[k].stage \in {"idle", "preparing"} => turn'[k] = "none"
        /\ \A q \in asked' : q.method \in {"turn", "compact"} => RunsAsk(q)'
        /\ \A q \in asked' : q.method = "steer" => SteerAsks(q)' /\ OneAsks(q)'
  BY DEF AskedAreNew, RunsAsk, SteerAsks, OneAsks, Early, Late

LEMMA RunsAskStill ==
    ASSUME CodexTypeOK, KeepsRuns, NEW q \in Requests, q.method \in {"turn", "compact"},
           RunsAsk(q), turn'[q.by] = turn[q.by]
    PROVE  RunsAsk(q)'
  BY RequestTypes DEF RunsAsk, TurnRequest, KeepsRuns

LEMMA SteerAsksStill ==
    ASSUME CodexInv, [Next]_vars, NEW q \in Requests, q.method = "steer",
           SteerAsks(q), turn'[q.by] = turn[q.by]
    PROVE  SteerAsks(q)'
<1> DEFINE k == q.by
           r == steer[k].run
<1>1. k \in Steers /\ KeepsSteers /\ KeepsTurns /\ RunsListen /\ SteersComeFirst /\ CodexTypeOK
  BY RequestTypes, NextKeeps, TurnsKept DEF CodexInv
<1>2. steer'[k].stage \in {"asked", "over"} /\ steer'[k].run = r
      /\ r \in Runs /\ run[r].stage \in Heard
  BY <1>1 DEF SteerAsks, KeepsSteers, RunsListen, Heard
<1>3. q.of \in Turns /\ (turn[q.of] = "ended" => turn'[q.of] = "ended")
  BY <1>1 DEF SteerAsks, KeepsTurns
<1>4. ASSUME q.of = run[r].current
      PROVE  q.of = run'[r].current \/ turn'[q.of] = "ended"
  <2>1. CASE KeepsCurrent
    BY <1>2, <1>4, <2>1 DEF KeepsCurrent
  <2>2. CASE SteerAnswered
    <3>1. /\ Line = lines[1] /\ IsSteered(lines[1]) /\ Len(lines) \in Nat /\ Len(lines) > 0
          /\ Steered(lines[1]) \in Runs /\ lines[1].turn \in Turns
          /\ turn' = turn
      BY <1>1, <2>2, AnsweredOne, ReadLine DEF SteerAnswered, Answered, IsSteered, Steered
    <3>2. /\ run[Steered(lines[1])].current = lines[1].req.of
          /\ lines[1].turn # lines[1].req.of => turn[lines[1].req.of] = "ended"
      BY <1>1, <3>1 DEF SteersComeFirst
    <3>3. CASE r # Steered(lines[1])
      BY <1>1, <1>2, <1>4, <2>2, <3>1, <3>3 DEF SteerAnswered, Steered, CodexTypeOK
    <3>4. CASE r = Steered(lines[1])
      <4>1. run' = [run EXCEPT ![r] = [run[r] EXCEPT !.current = lines[1].turn,
                                                     !.observed = @ \cup {lines[1].turn}]]
        BY <1>1, <1>2, <2>2, <3>1, <3>4 DEF SteerAnswered, Steered, CodexTypeOK
      <4>2. run'[r].current = lines[1].turn
        BY <1>1, <1>2, <4>1 DEF CodexTypeOK, RunRecords
      <4> QED  BY <1>4, <3>1, <3>2, <3>4, <4>2
    <3> QED  BY <3>3, <3>4
  <2> QED  BY <2>1, <2>2, NextKeeps
<1> QED  BY <1>2, <1>3, <1>4 DEF SteerAsks

LEMMA SameAsked ==
    ASSUME CodexInv, [Next]_vars, turn' = turn,
           \A q \in asked' : q \in asked \/ q.method \in {"initialize", "thread"}
    PROVE  AskedAreNew'
<1>1. KeepsRuns /\ KeepsSteers /\ CodexTypeOK /\ asked \subseteq Requests /\ AskedAreNew
  BY NextKeeps DEF CodexInv, CodexTypeOK
<1>2. \A r \in Runs : run'[r].stage \in Early => turn'[r] = "none"
  BY <1>1, AskedInParts DEF KeepsRuns
<1>3. \A k \in Steers : steer'[k].stage \in {"idle", "preparing"} => turn'[k] = "none"
  BY <1>1, AskedInParts DEF KeepsSteers
<1>4. \A q \in asked' : q.method \in {"turn", "compact"} => RunsAsk(q)'
  BY <1>1, AskedInParts, RunsAskStill
<1>5. ASSUME NEW q \in asked', q.method = "steer" PROVE SteerAsks(q)' /\ OneAsks(q)'
  <2>1. q \in asked /\ SteerAsks(q) /\ OneAsks(q)
    BY <1>1, <1>5, AskedInParts
  <2>2. SteerAsks(q)'
    BY <1>1, <1>5, <2>1, SteerAsksStill
  <2> QED  BY <2>1, <2>2 DEF OneAsks
<1> QED  BY <1>2, <1>3, <1>4, <1>5, AskedInPartsPrimed

(* The server handles a request, and begins the turn of it or none.        *)
LEMMA HandledAsked ==
    ASSUME CodexInv, [Next]_vars, NEW q \in asked, Handled(q),
           \A t \in Turns : turn'[t] = turn[t] \/ turn[t] # "none"
                            \/ (t = q.by /\ q.method \in {"turn", "compact", "steer"})
    PROVE  AskedAreNew'
<1>1. /\ KeepsRuns /\ KeepsSteers /\ CodexTypeOK /\ asked \subseteq Requests /\ AskedAreNew
      /\ asked' = asked \ {q} /\ run' = run /\ steer' = steer
  BY NextKeeps DEF CodexInv, CodexTypeOK, Handled, clientVars
<1>2. ASSUME NEW p \in asked', p.method \in {"turn", "compact", "steer"} PROVE p.by # q.by
             \/ q.method \notin {"turn", "compact", "steer"}
  <2> SUFFICES ASSUME p.by = q.by, q.method \in {"turn", "compact", "steer"} PROVE FALSE
    OBVIOUS
  <2>1. p \in asked /\ p # q /\ p \in Requests /\ q \in Requests
    BY <1>1
  <2>2. CASE p.method = "steer"
    <3>1. q.method = "steer"
      BY <2>1, <2>2, RequestTypes
    <3> QED  BY <1>1, <2>1, <2>2, <3>1, AskedInParts DEF OneAsks
  <2>3. CASE p.method # "steer"
    <3>1. q.method \in {"turn", "compact"}
      BY <1>2, <2>1, <2>3, RequestTypes, Names
    <3>2. p = TurnRequest(p.by) /\ q = TurnRequest(q.by)
      BY <1>1, <1>2, <2>1, <2>3, <3>1, AskedInParts DEF RunsAsk
    <3> QED  BY <2>1, <3>2
  <2> QED  BY <2>2, <2>3
<1>3. ASSUME NEW p \in asked', p.method \in {"turn", "compact", "steer"}
      PROVE  turn'[p.by] = turn[p.by]
  <2>1. p \in asked /\ p \in Requests /\ p.by \in Turns /\ turn[p.by] = "none"
    BY <1>1, <1>3, RequestTypes, Names, AskedInParts DEF RunsAsk, SteerAsks
  <2> QED  BY <1>2, <1>3, <2>1
<1>4. \A r \in Runs : run'[r].stage \in Early => turn'[r] = "none"
  <2> SUFFICES ASSUME NEW r \in Runs, run[r].stage \in Early PROVE turn'[r] = "none"
    BY <1>1
  <2>1. turn[r] = "none" /\ r \in Turns
    BY <1>1, AskedInParts, Names
  <2>2. ASSUME r = q.by, q.method \in {"turn", "compact", "steer"} PROVE FALSE
    <3>1. q.method \in {"turn", "compact"}
      BY <1>1, <2>2, RequestTypes, Names
    <3> QED  BY <1>1, <2>2, <3>1, AskedInParts DEF RunsAsk, Early, Late
  <2> QED  BY <2>1, <2>2
<1>5. \A k \in Steers : steer'[k].stage \in {"idle", "preparing"} => turn'[k] = "none"
  <2> SUFFICES ASSUME NEW k \in Steers, steer[k].stage \in {"idle", "preparing"}
               PROVE  turn'[k] = "none"
    BY <1>1
  <2>1. turn[k] = "none" /\ k \in Turns
    BY <1>1, AskedInParts, Names
  <2>2. ASSUME k = q.by, q.method \in {"turn", "compact", "steer"} PROVE FALSE
    <3>1. q.method = "steer"
      BY <1>1, <2>2, RequestTypes, Names
    <3> QED  BY <1>1, <2>2, <3>1, AskedInParts DEF SteerAsks
  <2> QED  BY <2>1, <2>2
<1>6. \A p \in asked' : p.method \in {"turn", "compact"} => RunsAsk(p)'
  BY <1>1, <1>3, AskedInParts, RunsAskStill
<1>7. ASSUME NEW p \in asked', p.method = "steer" PROVE SteerAsks(p)' /\ OneAsks(p)'
  <2>1. p \in asked /\ SteerAsks(p) /\ OneAsks(p)
    BY <1>1, <1>7, AskedInParts
  <2>2. SteerAsks(p)'
    BY <1>1, <1>3, <1>7, <2>1, SteerAsksStill
  <2> QED  BY <1>1, <2>1, <2>2 DEF OneAsks
<1> QED  BY <1>4, <1>5, <1>6, <1>7, AskedInPartsPrimed

LEMMA NextAsked == CodexInv /\ [Next]_vars => AskedAreNew'
<1> SUFFICES ASSUME CodexInv, [Next]_vars PROVE AskedAreNew'
  OBVIOUS
<1>1. /\ CodexTypeOK /\ RunsListen /\ AskedAreNew /\ KeepsRuns /\ KeepsSteers
      /\ asked \subseteq Requests
  BY NextKeeps DEF CodexInv, CodexTypeOK
<1>2. ASSUME NEW r \in Runs, NEW kind \in {"prompt", "compact"}, Begin(r, kind)
      PROVE  AskedAreNew'
  <2>1. turn' = turn
        /\ \A q \in asked' : q \in asked \/ q = Initialize \/ q = Request("thread", r)
    BY <1>2 DEF Begin, Send
  <2> QED  BY <2>1, SameAsked DEF Initialize, Request
<1>3. ASSUME NEW r \in Runs, Ask(r) PROVE AskedAreNew'
  <2> DEFINE q == TurnRequest(r)
  <2>1. /\ run[r].stage = "opened" /\ run'[r].stage = "asking" /\ run'[r].kind = run[r].kind
        /\ turn' = turn /\ steer' = steer
        /\ asked' = asked \cup {q} \/ asked' = asked
    BY <1>1, <1>3 DEF Ask, Send, TurnRequest, CodexTypeOK, RunRecords
  <2>2. q \in Requests /\ q.by = r /\ q.method \in {"turn", "compact"} /\ TurnRequest(r)' = q
    BY <2>1, MakeRequests DEF TurnRequest, Request
  <2>3. ASSUME NEW p \in Requests, p = q PROVE RunsAsk(p)'
    <3>1. turn[r] = "none"
      BY <1>1, <2>1, AskedInParts DEF Early
    <3>2. p = TurnRequest(p.by)'
      BY <2>2, <2>3
    <3> QED  BY <2>1, <2>2, <2>3, <3>1, <3>2 DEF RunsAsk, Late
  <2>4. \A p \in asked' : p.method \in {"turn", "compact"} => RunsAsk(p)'
    <3> SUFFICES ASSUME NEW p \in asked', p.method \in {"turn", "compact"} PROVE RunsAsk(p)'
      OBVIOUS
    <3>1. CASE p = q
      BY <2>2, <2>3, <3>1
    <3>2. CASE p \in asked
      BY <1>1, <2>1, <3>2, AskedInParts, RunsAskStill
    <3> QED  BY <2>1, <3>1, <3>2
  <2>5. ASSUME NEW p \in asked', p.method = "steer" PROVE SteerAsks(p)' /\ OneAsks(p)'
    <3>1. p \in asked /\ SteerAsks(p) /\ OneAsks(p)
      BY <1>1, <2>1, <2>2, <2>5, AskedInParts
    <3>2. SteerAsks(p)'
      BY <1>1, <2>1, <2>5, <3>1, SteerAsksStill
    <3> QED  BY <2>1, <2>2, <3>1, <3>2 DEF OneAsks
  <2>6. \A p \in Runs : run'[p].stage \in Early => turn'[p] = "none"
    BY <1>1, <2>1, AskedInParts DEF KeepsRuns
  <2>7. \A k \in Steers : steer'[k].stage \in {"idle", "preparing"} => turn'[k] = "none"
    BY <1>1, <2>1, AskedInParts
  <2> QED  BY <2>4, <2>5, <2>6, <2>7, AskedInPartsPrimed
<1>4. ASSUME NEW k \in Steers, AskToSteer(k) PROVE AskedAreNew'
  <2> DEFINE q == [method |-> "steer", by |-> k, of |-> run[steer[k].run].current]
  <2>1. /\ steer[k].stage = "preparing" /\ steer'[k].stage = "asked"
        /\ steer'[k].run = steer[k].run /\ turn' = turn /\ run' = run
        /\ asked' = asked \cup {q} \/ asked' = asked
    BY <1>1, <1>4 DEF AskToSteer, Send, CodexTypeOK, SteerRecords
  <2>2. run[steer[k].run].current \in Turns
    BY <1>1, <2>1 DEF RunsListen
  <2>3. ASSUME NEW p, p = q PROVE SteerAsks(p)'
    <3>1. turn[k] = "none"
      BY <1>1, <2>1, AskedInParts
    <3> QED  BY <2>1, <2>2, <2>3, <3>1 DEF SteerAsks
  <2>4. ASSUME NEW p \in asked, p.method = "steer" PROVE p.by # k
    BY <1>1, <2>1, <2>4, AskedInParts DEF SteerAsks
  <2>5. q.method = "steer" /\ q.by = k
    OBVIOUS
  <2>6. \A p \in asked' : p.method \in {"turn", "compact"} => RunsAsk(p)'
    BY <1>1, <2>1, <2>5, AskedInParts, RunsAskStill
  <2>7. ASSUME NEW p \in asked', p.method = "steer" PROVE SteerAsks(p)' /\ OneAsks(p)'
    <3>1. CASE p \in asked
      <4>1. SteerAsks(p) /\ OneAsks(p)
        BY <1>1, <2>7, <3>1, AskedInParts
      <4>2. SteerAsks(p)'
        BY <1>1, <2>1, <2>7, <3>1, <4>1, SteerAsksStill
      <4> QED  BY <2>1, <2>4, <2>5, <2>7, <3>1, <4>1, <4>2 DEF OneAsks
    <3>2. CASE p = q
      <4>1. SteerAsks(p)'
        BY <2>3, <3>2
      <4> QED  BY <2>1, <2>4, <2>5, <3>2, <4>1 DEF OneAsks
    <3> QED  BY <2>1, <3>1, <3>2
  <2>8. \A p \in Runs : run'[p].stage \in Early => turn'[p] = "none"
    BY <1>1, <2>1, AskedInParts
  <2>9. \A j \in Steers : steer'[j].stage \in {"idle", "preparing"} => turn'[j] = "none"
    BY <1>1, <2>1, AskedInParts DEF KeepsSteers
  <2> QED  BY <2>6, <2>7, <2>8, <2>9, AskedInPartsPrimed
<1>5. CASE InitializeAnswered
  BY <1>5, SameAsked DEF InitializeAnswered, Request
<1>6. CASE turn' = turn /\ asked' \subseteq asked
  BY <1>6, SameAsked
<1>7. ASSUME NEW q \in asked, BeginsTurn(q) PROVE AskedAreNew'
  BY <1>1, <1>7, HandledAsked DEF BeginsTurn, CodexTypeOK
<1>8. ASSUME NEW q \in asked, SteersIntoNewTurn(q) PROVE AskedAreNew'
  BY <1>1, <1>8, HandledAsked DEF SteersIntoNewTurn, CodexTypeOK
<1>9. ASSUME NEW t \in Turns, FinalAnswer(t) \/ Completes(t) \/ Interrupts(t)
      PROVE  AskedAreNew'
  <2>1. CASE turn' = turn
    BY <1>9, <2>1, SameAsked DEF FinalAnswer, Completes, Interrupts
  <2>2. CASE turn' # turn
    <3>1. /\ turn[t] \in {"running", "finishing"} /\ asked' = asked
          /\ run' = run /\ steer' = steer
          /\ \A u \in Turns \ {t} : turn'[u] = turn[u]
      BY <1>1, <1>9, <2>2
      DEF FinalAnswer, Completes, Interrupts, InProgress, clientVars, CodexTypeOK
    <3>2. \A u \in Turns : turn[u] = "none" => turn'[u] = "none"
      BY <3>1
    <3>3. ASSUME NEW p \in asked, p.method \in {"turn", "compact", "steer"}
          PROVE  turn'[p.by] = turn[p.by]
      <4>1. p.by \in Turns /\ turn[p.by] = "none"
        BY <1>1, <3>3, RequestTypes, Names, AskedInParts DEF RunsAsk, SteerAsks
      <4> QED  BY <3>2, <4>1
    <3>4. \A p \in asked' : p.method \in {"turn", "compact"} => RunsAsk(p)'
      BY <1>1, <3>1, <3>3, AskedInParts, RunsAskStill
    <3>5. ASSUME NEW p \in asked', p.method = "steer" PROVE SteerAsks(p)' /\ OneAsks(p)'
      <4>1. p \in asked /\ SteerAsks(p) /\ OneAsks(p)
        BY <1>1, <3>1, <3>5, AskedInParts
      <4>2. SteerAsks(p)'
        BY <1>1, <3>3, <3>5, <4>1, SteerAsksStill
      <4> QED  BY <3>1, <4>1, <4>2 DEF OneAsks
    <3> QED
      BY <1>1, <3>1, <3>2, <3>4, <3>5, Names, AskedInParts, AskedInPartsPrimed
  <2> QED  BY <2>1, <2>2
<1> QED
  BY <1>2, <1>3, <1>4, <1>5, <1>6, <1>7, <1>8, <1>9
  DEF Next, Stop, Normalize, TakeTurn, Reads, AnswerDropped, ThreadAnswered, TurnAnswered,
      CompactAnswered, SteerAnswered, RefusalRead, NotificationRead, TimesOut, Exit, Server,
      Refuses, Serves, SteersInPlace, AnswersTurn, ReportsError, Handled, serverVars, vars

-----------------------------------------------------------------------------
(* What is heard of a turn.                                                *)

(* What is in a queue was there, or has just been read.                    *)
LEMMA QueuesHold ==
    ASSUME CodexInv, [Next]_vars, NEW r \in Runs, NEW k \in 1..Len(queue'[r])
    PROVE  \/ \E j \in 1..Len(queue[r]) : queue'[r][k] = queue[r][j]
           \/ NotificationRead /\ queue'[r][k] = lines[1]
<1>1. CodexTypeOK /\ RunsListen /\ RequestsAreAwaited /\ queue[r] \in Seq(Lines)
  BY DEF CodexInv, CodexTypeOK
<1>2. CASE queue' = queue
  BY <1>2
<1>3. ASSUME NEW R \in SUBSET Runs, NEW outcome \in Outcomes, Ended(R, outcome)
      PROVE  \E j \in 1..Len(queue[r]) : queue'[r][k] = queue[r][j]
  <2>1. queue'[r] = <<>> \/ queue'[r] = queue[r]
    BY <1>3 DEF Ended
  <2> QED  BY <2>1
<1>4. ASSUME NEW p \in Runs, Normalize(p)
      PROVE  \E j \in 1..Len(queue[r]) : queue'[r][k] = queue[r][j]
  <2>1. CASE \E outcome \in Outcomes : Ended({p}, outcome)
    <3>1. {p} \in SUBSET Runs
      OBVIOUS
    <3> QED  BY <1>3, <2>1, <3>1
  <2>2. CASE ~\E outcome \in Outcomes : Ended({p}, outcome)
    <3>1. queue' = [queue EXCEPT ![p] = Tail(@)] /\ queue[p] # <<>>
      BY <1>4, <2>2 DEF Normalize, Outcomes
    <3>2. queue'[r] = queue[r] \/ (queue[r] # <<>> /\ queue'[r] = Tail(queue[r]))
      BY <1>1, <3>1 DEF CodexTypeOK
    <3>3. CASE queue[r] # <<>> /\ queue'[r] = Tail(queue[r])
      <4>1. k + 1 \in 1..Len(queue[r]) /\ queue'[r][k] = queue[r][k + 1]
        BY <1>1, <3>3
      <4> QED  BY <4>1
    <3> QED  BY <3>2, <3>3
  <2> QED  BY <2>1, <2>2
<1>5. ASSUME NEW Q \in SUBSET pending, Rejected(Q)
      PROVE  \E j \in 1..Len(queue[r]) : queue'[r][k] = queue[r][j]
  BY <1>1, <1>3, <1>5, RejectedFacts
<1>6. CASE NotificationRead
  <2>1. Line = lines[1]
    BY <1>1, <1>6, ReadLine DEF NotificationRead
  <2>2. queue'[r] = queue[r] \/ queue'[r] = Append(queue[r], lines[1])
    BY <1>6, <2>1 DEF NotificationRead
  <2> QED  BY <1>1, <1>6, <2>2
<1>7. CASE RefusalRead \/ Exit \/ \E q \in pending : TimesOut(q)
  BY <1>5, <1>7 DEF RefusalRead, Exit, TimesOut
<1> QED
  BY <1>2, <1>4, <1>6, <1>7
  DEF Next, Begin, Ask, Stop, AskToSteer, TakeTurn, Reads, AnswerDropped, InitializeAnswered,
      ThreadAnswered, TurnAnswered, CompactAnswered, SteerAnswered, Server, Refuses, BeginsTurn,
      Serves, SteersInPlace, SteersIntoNewTurn, AnswersTurn, ReportsError, FinalAnswer,
      Completes, Interrupts, Handled, clientVars, vars

(* An outcome is what the front of the queue says.                         *)
LEMMA OutcomesCome ==
    ASSUME CodexInv, [Next]_vars, NEW r \in Runs, run'[r].outcome \in {"done", "aborted"},
           run'[r].kind = "prompt", run'[r].outcome # run[r].outcome
    PROVE  /\ run[r].kind = "prompt" /\ Listening(r) /\ turn' = turn
           /\ run'[r].current = run[r].current /\ run'[r].observed = run[r].observed
           /\ 1 \in 1..Len(queue[r]) /\ queue[r][1] \in Lines
           /\ run'[r].outcome = "aborted" =>
                 queue[r][1].type = "aborted" /\ queue[r][1].turn \in run[r].observed
           /\ run'[r].outcome = "done" => Ends(queue[r][1], run[r].current)
<1>1. /\ CodexTypeOK /\ RunsListen /\ RequestsAreAwaited
      /\ queue[r] \in Seq(Lines) /\ run[r] \in RunRecords
  BY DEF CodexInv, CodexTypeOK
<1>2. CASE run'[r].outcome = run[r].outcome
  BY <1>2
<1>3. ASSUME NEW R \in SUBSET Runs, Ended(R, "error")
      PROVE  run'[r].outcome = run[r].outcome \/ run'[r].outcome = "error"
  BY <1>1, <1>3 DEF Ended, RunRecords
<1>4. CASE Normalize(r)
  <2> DEFINE n == Head(queue[r])
             ends == /\ IsForTurn(r, n)
                     /\ \/ n.type = "aborted"
                        \/ n.type \in {"final", "completed", "failed"} /\ IsCurrentTurn(r, n)
             outcome == CASE n.type = "aborted" -> "aborted"
                          [] n.type = "failed" -> "error"
                          [] n.type = "completed" /\ run[r].erred -> "error"
                          [] OTHER -> "done"
  <2>1. Listening(r) /\ queue[r] # <<>> /\ n = queue[r][1] /\ n \in Lines
        /\ 1 \in 1..Len(queue[r]) /\ turn' = turn
    BY <1>1, <1>4 DEF Normalize, serverVars
  <2>2. CASE ~ends
    <3>1. run'[r].outcome = run[r].outcome
      BY <1>1, <1>4, <2>2 DEF Normalize, RunRecords, CodexTypeOK
    <3> QED  BY <3>1
  <2>3. CASE ends
    <3>1. Ended({r}, outcome)
      BY <1>4, <2>3 DEF Normalize
    <3>2. /\ run'[r].outcome = outcome /\ run'[r].kind = run[r].kind
          /\ run'[r].current = run[r].current /\ run'[r].observed = run[r].observed
      BY <1>1, <3>1 DEF Ended, RunRecords
    <3>3. n.turn \in run[r].observed
      BY <2>3, <3>2 DEF IsForTurn
    <3>4. outcome = "aborted" => n.type = "aborted"
      OBVIOUS
    <3>5. outcome = "done" => n.type \in {"final", "completed"} /\ n.turn = run[r].current
      BY <2>3, <3>2 DEF IsCurrentTurn
    <3> QED  BY <2>1, <3>2, <3>3, <3>4, <3>5 DEF Ends
  <2> QED  BY <2>2, <2>3
<1>5. ASSUME NEW p \in Runs \ {r}, Normalize(p) PROVE run'[r] = run[r]
  BY <1>1, <1>5 DEF Normalize, Ended, CodexTypeOK
<1>6. ASSUME NEW p \in Runs, NEW kind \in {"prompt", "compact"}, Begin(p, kind)
      PROVE  run'[r].outcome = run[r].outcome \/ run'[r].outcome \in {"none", "error"}
  <2>1. CASE p = r
    <3>1. run'[r].outcome \in {"none", "error"}
      BY <1>1, <1>6, <2>1 DEF Begin, NoRun, CodexTypeOK
    <3> QED  BY <3>1
  <2>2. CASE p # r
    BY <1>1, <1>6, <2>2 DEF Begin, CodexTypeOK
  <2> QED  BY <2>1, <2>2
<1>7. ASSUME NEW p \in Runs, Ask(p) \/ Stop(p) PROVE run'[r].outcome = run[r].outcome
  <2>1. CASE Ask(p)
    BY <1>1, <2>1 DEF Ask, CodexTypeOK, RunRecords
  <2>2. CASE Stop(p)
    BY <1>1, <2>2 DEF Stop, CodexTypeOK, RunRecords
  <2> QED  BY <1>7, <2>1, <2>2
<1>8. CASE InitializeAnswered
  BY <1>1, <1>2, <1>8 DEF InitializeAnswered, CodexTypeOK, RunRecords
<1>9. CASE ThreadAnswered
  BY <1>1, <1>2, <1>9 DEF ThreadAnswered, CodexTypeOK, RunRecords
<1>10. CASE CompactAnswered
  BY <1>1, <1>2, <1>10 DEF CompactAnswered, CodexTypeOK, RunRecords
<1>11. CASE TurnAnswered
  <2> DEFINE p == Line.req.by
  <2>1. run' = [run EXCEPT ![p] = [run[p] EXCEPT !.stage = "listening", !.current = p,
                                                 !.observed = {p}]]
    BY <1>1, <1>11, AnsweredOne DEF TurnAnswered, CodexTypeOK
  <2> HIDE DEF p
  <2> QED  BY <1>1, <1>2, <2>1 DEF CodexTypeOK, RunRecords
<1>12. CASE SteerAnswered
  <2> DEFINE p == steer[Line.req.by].run
  <2>1. run' = [run EXCEPT ![p] = [run[p] EXCEPT !.current = Line.turn,
                                                 !.observed = @ \cup {Line.turn}]]
    BY <1>1, <1>12, AnsweredOne DEF SteerAnswered, CodexTypeOK
  <2> HIDE DEF p
  <2> QED  BY <1>1, <1>2, <2>1 DEF CodexTypeOK, RunRecords
<1>13. CASE RefusalRead \/ Exit \/ \E q \in pending : TimesOut(q)
  <2>1. \E Q \in SUBSET pending : Rejected(Q)
    BY <1>13 DEF RefusalRead, Exit, TimesOut
  <2> QED  BY <1>1, <1>2, <1>3, <2>1, RejectedFacts
<1>14. CASE run' = run
  BY <1>14
<1> QED
  BY <1>2, <1>4, <1>5, <1>6, <1>7, <1>8, <1>9, <1>10, <1>11, <1>12, <1>13, <1>14
  DEF Next, AskToSteer, TakeTurn, Reads, AnswerDropped, NotificationRead, Server, Refuses,
      BeginsTurn, Serves, SteersInPlace, SteersIntoNewTurn, AnswersTurn, ReportsError,
      FinalAnswer, Completes, Interrupts, Handled, clientVars, vars

LEMMA NextFollow == CodexInv /\ [Next]_vars => DoneHadTurns' /\ RunsFollowTheirTurns'
<1> SUFFICES ASSUME CodexInv, [Next]_vars PROVE DoneHadTurns' /\ RunsFollowTheirTurns'
  OBVIOUS
<1>1. /\ CodexTypeOK /\ RunsListen /\ RunsListen' /\ NotesFit /\ SteersComeFirst
      /\ RunsFollowTheirTurns /\ DoneHadTurns /\ KeepsTurns /\ KeepsRuns
  BY NextListen, TurnsKept, NextKeeps DEF CodexInv
<1>2. ASSUME NEW r \in Runs, run'[r].kind = "prompt", run'[r].outcome = "done"
      PROVE  run'[r].current \in Turns /\ turn'[run'[r].current] \in {"finishing", "ended"}
  <2>1. CASE run[r].outcome = "done"
    <3>1. run[r].stage = "over" /\ run[r].kind = "prompt"
      BY <1>1, <1>2, <2>1 DEF RunsListen, KeepsRuns, Late
    <3>2. run[r].current \in Turns /\ turn[run[r].current] \in {"finishing", "ended"}
      BY <1>1, <2>1, <3>1 DEF DoneHadTurns, RunsFollowTheirTurns
    <3>3. CASE KeepsCurrent
      BY <1>1, <3>1, <3>2, <3>3 DEF KeepsCurrent, KeepsTurns, Heard
    <3>4. CASE SteerAnswered
      <4>1. /\ Line = lines[1] /\ IsSteered(lines[1]) /\ Len(lines) \in Nat /\ Len(lines) > 0
        BY <1>1, <3>4, AnsweredOne, ReadLine DEF SteerAnswered, Answered, IsSteered
      <4>2. run[steer[Line.req.by].run].outcome # "done"
        BY <1>1, <4>1 DEF SteersComeFirst, Steered
      <4>3. run'[r] = run[r]
        BY <1>1, <2>1, <3>4, <4>2 DEF SteerAnswered, CodexTypeOK
      <4> QED  BY <1>1, <3>2, <4>3 DEF KeepsTurns
    <3> QED  BY <3>3, <3>4, NextKeeps
  <2>2. CASE run[r].outcome # "done"
    <3>1. /\ turn' = turn /\ run'[r].current = run[r].current
          /\ 1 \in 1..Len(queue[r]) /\ queue[r][1] \in Lines
          /\ Ends(queue[r][1], run[r].current)
      BY <1>2, <2>2, OutcomesCome
    <3>2. queue[r][1].turn \in Turns
      BY <3>1, LineTypes DEF Ends, Methods
    <3> QED  BY <1>1, <3>1, <3>2 DEF NotesFit, NoteFits, Ends
  <2> QED  BY <2>1, <2>2
<1>3. ASSUME NEW r \in Runs, run'[r].kind = "prompt", run'[r].outcome = "aborted"
      PROVE  \E t \in run'[r].observed : turn'[t] = "ended"
  <2>1. CASE run[r].outcome = "aborted"
    <3>1. run[r].stage = "over" /\ run[r].kind = "prompt"
      BY <1>1, <1>3, <2>1 DEF RunsListen, KeepsRuns, Late
    <3>2. PICK t \in run[r].observed : turn[t] = "ended"
      BY <1>1, <2>1, <3>1 DEF RunsFollowTheirTurns
    <3> QED  BY <1>1, <3>1, <3>2, RunTypes DEF KeepsRuns, KeepsTurns, Heard
  <2>2. CASE run[r].outcome # "aborted"
    <3>1. /\ turn' = turn /\ run'[r].observed = run[r].observed
          /\ 1 \in 1..Len(queue[r])
          /\ queue[r][1].type = "aborted" /\ queue[r][1].turn \in run[r].observed
      BY <1>3, <2>2, OutcomesCome
    <3> QED  BY <1>1, <3>1 DEF NotesFit, NoteFits
  <2> QED  BY <2>1, <2>2
<1>4. \A th \in Threads : activeTurns'[th] # None => Listening(activeTurns[th])'
  BY <1>1 DEF RunsListen
<1> QED  BY <1>2, <1>3, <1>4 DEF DoneHadTurns, RunsFollowTheirTurns

-----------------------------------------------------------------------------
(* What the server writes.                                                 *)

(* The answer to a steer, when it is written.                              *)
FreshAnswer(q, l) ==
    /\ q.method = "steer" /\ l.req = q
    /\ turn[q.of] = "running"
    /\ l.turn \in {q.of, q.by}
    /\ l.turn # q.of => turn'[q.of] = "ended"

NewLine(l, i) ==
    /\ NoteFits(l, turn')
    /\ IsSteered(l) => i = Len(lines) + 1 /\ \E q \in asked : FreshAnswer(q, l)

LEMMA MadeLines ==
    ASSUME NEW q \in Requests, NEW t \in Turns \cup {None}, NEW m \in Methods, NEW i
    PROVE  /\ NewLine(Refusal(q), i)
           /\ q.method # "steer" => NewLine(Answer(q, t), i)
           /\ t \in Turns /\ NoteFits(Note(m, t), turn') => NewLine(Note(m, t), i)
           /\ NoteFits(Answer(q, t), turn')
  BY DEF NewLine, NoteFits, IsSteered, Refusal, Answer, Note, Methods

LEMMA Written ==
    ASSUME CodexInv, [Next]_vars, ~LineRead
    PROVE  /\ Len(lines) \in Nat /\ Len(lines') \in Nat /\ Len(lines) <= Len(lines')
           /\ \A i \in 1..Len(lines) : lines'[i] = lines[i]
           /\ \A i \in 1..Len(lines') : i > Len(lines) => NewLine(lines'[i], i)
           /\ Len(lines') # Len(lines) => UNCHANGED <<run, steer, queue>>
<1>1. CodexTypeOK /\ AskedAreNew /\ Len(lines) \in Nat /\ asked \subseteq Requests
  BY DEF CodexInv, CodexTypeOK
<1>2. CASE lines' = lines
  BY <1>1, <1>2
<1> DEFINE Goal ==
        /\ Len(lines') \in Nat /\ Len(lines) <= Len(lines')
        /\ \A i \in 1..Len(lines) : lines'[i] = lines[i]
        /\ \A i \in 1..Len(lines') : i > Len(lines) => NewLine(lines'[i], i)
<1>3. ASSUME NEW l \in Lines, Write(<<l>>), NewLine(l, Len(lines) + 1) PROVE Goal
  BY <1>1, <1>3, WriteOne
<1>4. ASSUME NEW l \in Lines, NEW m \in Lines, Write(<<l, m>>),
             NewLine(l, Len(lines) + 1), NewLine(m, Len(lines) + 2)
      PROVE  Goal
  BY <1>1, <1>4, WriteTwo
<1> HIDE DEF Goal
<1>5. ASSUME NEW q \in asked, Refuses(q) PROVE Goal
  BY <1>1, <1>3, <1>5, MakeLines, MadeLines DEF Refuses, Methods
<1>6. ASSUME NEW q \in asked, Serves(q) PROVE Goal
  <2>1. Write(<<Answer(q, None)>>) /\ q.method # "steer" /\ "final" \in Methods
    BY <1>6 DEF Serves, Methods
  <2> QED  BY <1>1, <1>3, <2>1, MakeLines, MadeLines
<1>7. ASSUME NEW q \in asked, SteersInPlace(q) PROVE Goal
  <2>1. /\ q \in Requests /\ q.of \in Turns /\ Write(<<Answer(q, q.of)>>)
        /\ q.method = "steer" /\ turn[q.of] = "running" /\ turn' = turn
    BY <1>1, <1>7 DEF SteersInPlace, AskedAreNew
  <2>2. FreshAnswer(q, Answer(q, q.of))
    BY <2>1 DEF FreshAnswer, Answer
  <2>3. NewLine(Answer(q, q.of), Len(lines) + 1)
    BY <2>1, <2>2 DEF NewLine, NoteFits, Answer
  <2> QED  BY <1>3, <2>1, <2>3, MakeLines
<1>8. ASSUME NEW q \in asked, SteersIntoNewTurn(q) PROVE Goal
  <2>1. /\ q \in Requests /\ q.of \in Turns /\ q.by \in Turns
        /\ q.method = "steer" /\ turn[q.of] = "running" /\ turn[q.by] = "none"
        /\ turn' = [turn EXCEPT ![q.of] = "ended", ![q.by] = "running"]
        /\ Write(<<Answer(q, q.by), Note("completed", q.of)>>)
    BY <1>1, <1>8, RequestTypes, Names DEF SteersIntoNewTurn, AskedAreNew
  <2>2. turn'[q.of] = "ended"
    BY <1>1, <2>1 DEF CodexTypeOK
  <2>3. NewLine(Answer(q, q.by), Len(lines) + 1)
    <3>1. FreshAnswer(q, Answer(q, q.by))
      BY <2>1, <2>2 DEF FreshAnswer, Answer
    <3> QED  BY <2>1, <3>1 DEF NewLine, NoteFits, Answer
  <2>4. NewLine(Note("completed", q.of), Len(lines) + 2)
    BY <2>2 DEF NewLine, NoteFits, IsSteered, Note
  <2>5. Answer(q, q.by) \in Lines /\ Note("completed", q.of) \in Lines
    BY <2>1, MakeLines DEF Methods
  <2> QED  BY <1>4, <2>1, <2>3, <2>4, <2>5
<1>9. ASSUME NEW r \in Runs, AnswersTurn(r) PROVE Goal
  <2>1. /\ TurnRequest(r) \in Requests /\ TurnRequest(r).method # "steer"
        /\ Write(<<Answer(TurnRequest(r), None)>>) /\ "final" \in Methods
    BY <1>9, MakeRequests DEF AnswersTurn, TurnRequest, Request, Methods
  <2> QED  BY <1>3, <2>1, MakeLines, MadeLines
<1>10. ASSUME NEW t \in Turns, ReportsError(t) \/ FinalAnswer(t) \/ Completes(t) \/ Interrupts(t)
       PROVE  Goal \/ lines' = lines
  <2>1. \/ lines' = lines
        \/ \E m \in Methods : Write(<<Note(m, t)>>) /\ NoteFits(Note(m, t), turn')
    <3>1. CASE ReportsError(t)
      BY <3>1 DEF ReportsError, Methods, NoteFits, Note
    <3>2. CASE FinalAnswer(t)
      BY <1>1, <3>2 DEF FinalAnswer, Methods, NoteFits, Note, CodexTypeOK
    <3>3. CASE Completes(t)
      BY <1>1, <3>3 DEF Completes, Methods, NoteFits, Note, CodexTypeOK
    <3>4. CASE Interrupts(t)
      BY <1>1, <3>4 DEF Interrupts, Methods, NoteFits, Note, CodexTypeOK
    <3> QED  BY <1>10, <3>1, <3>2, <3>3, <3>4
  <2>2. ASSUME NEW m \in Methods, Write(<<Note(m, t)>>), NoteFits(Note(m, t), turn')
        PROVE  Goal
    <3>1. NewLine(Note(m, t), Len(lines) + 1)
      BY <2>2 DEF NewLine, IsSteered, Note, Methods
    <3> QED  BY <1>3, <2>2, <3>1, MakeLines
  <2> QED  BY <2>1, <2>2
<1>11. ~Server => lines' = lines
  BY DEF Next, Begin, Ask, Stop, Normalize, AskToSteer, TakeTurn, Reads, AnswerDropped,
         InitializeAnswered, ThreadAnswered, TurnAnswered, CompactAnswered, SteerAnswered,
         RefusalRead, NotificationRead, Answered, TimesOut, Exit, serverVars, vars
<1>12. Server => Goal \/ lines' = lines
  BY <1>5, <1>6, <1>7, <1>8, <1>9, <1>10 DEF Server, BeginsTurn
<1>13. Server => UNCHANGED <<run, steer, queue>>
  BY DEF Server, Refuses, BeginsTurn, Serves, SteersInPlace, SteersIntoNewTurn, AnswersTurn,
         ReportsError, FinalAnswer, Completes, Interrupts, Handled, clientVars
<1> QED  BY <1>1, <1>2, <1>11, <1>12, <1>13 DEF Goal

LEMMA NextNotes == CodexInv /\ [Next]_vars => NotesFit'
<1> SUFFICES ASSUME CodexInv, [Next]_vars PROVE NotesFit'
  OBVIOUS
<1>1. CodexTypeOK /\ NotesFit /\ KeepsTurns /\ Len(lines) \in Nat
  BY TurnsKept DEF CodexInv, CodexTypeOK
<1>2. ASSUME NEW n \in Lines, NoteFits(n, turn) PROVE NoteFits(n, turn')
  BY <1>1, <1>2, LineTypes DEF NoteFits, KeepsTurns, Methods
<1>3. \A i \in 1..Len(lines) : lines[i] \in Lines /\ NoteFits(lines[i], turn')
  BY <1>1, <1>2 DEF NotesFit, CodexTypeOK
<1>4. \A r \in Runs : \A i \in 1..Len(queue[r]) : NoteFits(queue[r][i], turn')
  BY <1>1, <1>2 DEF NotesFit, CodexTypeOK
<1>5. \A i \in 1..Len(lines') : NoteFits(lines'[i], turn')
  <2>1. CASE LineRead
    BY <1>1, <1>3, <2>1, ReadLine
  <2>2. CASE ~LineRead
    <3> SUFFICES ASSUME NEW i \in 1..Len(lines') PROVE NoteFits(lines'[i], turn')
      OBVIOUS
    <3>1. CASE i \in 1..Len(lines)
      BY <1>3, <2>2, <3>1, Written
    <3>2. CASE i > Len(lines)
      BY <2>2, <3>2, Written DEF NewLine
    <3> QED  BY <1>1, <3>1, <3>2
  <2> QED  BY <2>1, <2>2
<1>6. ASSUME NEW r \in Runs, NEW k \in 1..Len(queue'[r]) PROVE NoteFits(queue'[r][k], turn')
  <2>1. CASE \E j \in 1..Len(queue[r]) : queue'[r][k] = queue[r][j]
    BY <1>4, <2>1
  <2>2. CASE NotificationRead /\ queue'[r][k] = lines[1]
    <3>1. 1 \in 1..Len(lines)
      BY <1>1, <2>2, ReadLine DEF NotificationRead
    <3> QED  BY <1>3, <2>2, <3>1
  <2> QED  BY <2>1, <2>2, QueuesHold
<1> QED  BY <1>5, <1>6 DEF NotesFit

-----------------------------------------------------------------------------
(* Steers come first.                                                      *)

LEMMA SteeredStays ==
    ASSUME CodexInv, [Next]_vars, NEW i \in 1..Len(lines), IsSteered(lines[i])
    PROVE  LET k == lines[i].req.by
               r == Steered(lines[i])
               t == lines[i].req.of
           IN  /\ k \in Steers /\ steer'[k].stage \in {"asked", "over"} /\ steer'[k].run = r
               /\ r \in Runs /\ run'[r].outcome # "done"
               /\ lines[i].turn \in Turns
               /\ lines[i].turn # t => turn'[t] = "ended"
               /\ KeepsCurrent \/ i > 1 => run'[r].current = t
               /\ ~NotificationRead \/ i > 1 =>
                     \A n \in 1..Len(queue'[r]) : ~Ends(queue'[r][n], t)
<1> DEFINE k == lines[i].req.by
           r == Steered(lines[i])
           t == lines[i].req.of
<1>1. /\ CodexTypeOK /\ RunsListen /\ SteersComeFirst /\ KeepsSteers /\ KeepsTurns /\ KeepsRuns
      /\ lines[i] \in Lines /\ lines[i].type = "answer" /\ lines[i].req.method = "steer"
  BY NextKeeps, TurnsKept DEF CodexInv, CodexTypeOK, IsSteered
<1>2. lines[i].req \in Requests
  BY <1>1, LineTypes
<1>3. k \in Steers
  BY <1>1, <1>2, RequestTypes
<1>4. /\ steer[k].stage \in {"asked", "over"}
      /\ run[r].current = t /\ run[r].outcome # "done" /\ lines[i].turn \in Turns
      /\ lines[i].turn # t => turn[t] = "ended"
      /\ \A n \in 1..Len(queue[r]) : ~Ends(queue[r][n], t)
      /\ \A j \in 1..(i-1) : /\ ~Ends(lines[j], t)
                             /\ IsSteered(lines[j]) /\ Steered(lines[j]) = r =>
                                   lines[j].turn = lines[j].req.of
  BY <1>1 DEF SteersComeFirst
<1>5. /\ r = steer[k].run /\ r \in Runs /\ run[r].stage \in Heard /\ run[r].kind = "prompt"
      /\ run[r].current \in Turns
  BY <1>1, <1>3, <1>4 DEF RunsListen, Steered, Heard
<1>6. steer'[k].stage \in {"asked", "over"} /\ steer'[k].run = r
  BY <1>1, <1>3, <1>4, <1>5 DEF KeepsSteers
<1>7. run'[r].outcome # "done"
  <2> SUFFICES ASSUME run'[r].outcome = "done" PROVE FALSE
    OBVIOUS
  <2>1. run'[r].kind = "prompt"
    BY <1>1, <1>5 DEF KeepsRuns, Heard, Late
  <2>2. 1 \in 1..Len(queue[r]) /\ Ends(queue[r][1], run[r].current)
    BY <1>4, <1>5, <2>1, OutcomesCome
  <2> QED  BY <1>4, <2>2
<1>8. lines[i].turn # t => turn'[t] = "ended"
  BY <1>1, <1>4, <1>5 DEF KeepsTurns
<1>9. KeepsCurrent => run'[r].current = t
  BY <1>4, <1>5 DEF KeepsCurrent
<1>10. ASSUME SteerAnswered, i > 1 PROVE run'[r].current = t
  <2> DEFINE p == steer[Line.req.by].run
  <2>1. /\ Line = lines[1] /\ IsSteered(lines[1]) /\ p \in Runs /\ 1 \in 1..(i-1)
        /\ p = Steered(lines[1]) /\ 1 \in 1..Len(lines)
    <3>1. Answered("steer") /\ LineRead
      BY <1>10 DEF SteerAnswered, Answered
    <3>2. Line = lines[1] /\ Line.type = "answer" /\ Line.req.method = "steer" /\ p \in Runs
      BY <1>1, <3>1, AnsweredOne
    <3>3. Len(lines) \in Nat /\ Len(lines) > 0
      BY <1>1, <3>1, ReadLine
    <3> QED  BY <1>1, <1>10, <3>2, <3>3 DEF IsSteered, Steered
  <2>2. CASE p # r
    BY <1>1, <1>4, <1>5, <1>10, <2>1, <2>2 DEF SteerAnswered, CodexTypeOK
  <2>3. CASE p = r
    <3>1. run' = [run EXCEPT ![p] = [run[p] EXCEPT !.current = Line.turn,
                                                   !.observed = @ \cup {Line.turn}]]
      BY <1>1, <1>10, <2>1 DEF SteerAnswered, CodexTypeOK
    <3>2. run'[r].current = lines[1].turn
      BY <1>1, <1>5, <2>1, <2>3, <3>1 DEF CodexTypeOK, RunRecords
    <3>3. lines[1].turn = lines[1].req.of
      BY <1>4, <2>1, <2>3
    <3>4. run[r].current = lines[1].req.of
      BY <1>1, <2>1, <2>3 DEF SteersComeFirst
    <3> QED  BY <1>4, <3>2, <3>3, <3>4
  <2> QED  BY <2>2, <2>3
<1>11. ASSUME ~NotificationRead \/ i > 1, NEW n \in 1..Len(queue'[r])
       PROVE  ~Ends(queue'[r][n], t)
  <2>1. CASE \E j \in 1..Len(queue[r]) : queue'[r][n] = queue[r][j]
    BY <1>4, <2>1
  <2>2. CASE NotificationRead /\ queue'[r][n] = lines[1]
    <3>1. 1 \in 1..(i-1)
      BY <1>1, <1>11, <2>2
    <3> QED  BY <1>4, <2>2, <3>1
  <2> QED  BY <1>5, <2>1, <2>2, QueuesHold
<1> QED
  BY <1>3, <1>4, <1>5, <1>6, <1>7, <1>8, <1>9, <1>10, <1>11, NextKeeps

LEMMA FreshSteered ==
    ASSUME CodexInv, NEW q \in asked, NEW l, IsSteered(l), FreshAnswer(q, l)
    PROVE  LET r == Steered(l)
               t == l.req.of
           IN  /\ l.req.by \in Steers /\ steer[l.req.by].stage \in {"asked", "over"}
               /\ r \in Runs /\ run[r].current = t /\ run[r].outcome # "done"
               /\ l.turn \in Turns
               /\ l.turn # t => turn'[t] = "ended"
               /\ \A n \in 1..Len(queue[r]) : ~Ends(queue[r][n], t)
               /\ \A j \in 1..Len(lines) :
                     /\ ~Ends(lines[j], t)
                     /\ IsSteered(lines[j]) /\ Steered(lines[j]) = r =>
                           lines[j].turn = lines[j].req.of
<1> DEFINE k == q.by
           r == steer[k].run
           t == q.of
<1>1. /\ CodexTypeOK /\ RunsListen /\ SteersComeFirst /\ NotesFit /\ AskedAreNew
      /\ RunsFollowTheirTurns /\ q \in Requests
  BY DEF CodexInv, CodexTypeOK
<1>2. /\ l.req = q /\ Steered(l) = r /\ q.method = "steer" /\ turn[t] = "running"
      /\ l.turn \in {t, k} /\ (l.turn # t => turn'[t] = "ended")
  BY DEF FreshAnswer, Steered
<1>3. k \in Steers /\ steer[k].stage \in {"asked", "over"} /\ t \in Turns
      /\ (t = run[r].current \/ turn[t] = "ended")
  BY <1>1, <1>2, RequestTypes DEF AskedAreNew
<1>4. r \in Runs /\ run[r].kind = "prompt"
  BY <1>1, <1>3 DEF RunsListen
<1>5. run[r].current = t
  BY <1>2, <1>3
<1>6. run[r].outcome # "done"
  BY <1>1, <1>2, <1>4, <1>5 DEF RunsFollowTheirTurns
<1>7. ASSUME NEW n, NoteFits(n, turn) PROVE ~Ends(n, t)
  BY <1>2, <1>7 DEF NoteFits, Ends
<1>8. \A n \in 1..Len(queue[r]) : ~Ends(queue[r][n], t)
  BY <1>1, <1>4, <1>7 DEF NotesFit
<1>9. \A j \in 1..Len(lines) : ~Ends(lines[j], t)
  BY <1>1, <1>7 DEF NotesFit
<1>10. ASSUME NEW j \in 1..Len(lines), IsSteered(lines[j]), Steered(lines[j]) = r
       PROVE  lines[j].turn = lines[j].req.of
  <2>1. run[r].current = lines[j].req.of
        /\ (lines[j].turn # lines[j].req.of => turn[lines[j].req.of] = "ended")
    BY <1>1, <1>10 DEF SteersComeFirst
  <2> QED  BY <1>2, <1>5, <2>1
<1> QED
  BY <1>2, <1>3, <1>4, <1>5, <1>6, <1>8, <1>9, <1>10, Names

LEMMA NextSteersFirst == CodexInv /\ [Next]_vars => SteersComeFirst'
<1> SUFFICES ASSUME CodexInv, [Next]_vars, NEW i \in 1..Len(lines'), IsSteered(lines'[i])
             PROVE  LET r == steer'[lines'[i].req.by].run
                        t == lines'[i].req.of
                    IN  /\ steer'[lines'[i].req.by].stage \in {"asked", "over"}
                        /\ run'[r].current = t /\ run'[r].outcome # "done"
                        /\ lines'[i].turn \in Turns
                        /\ lines'[i].turn # t => turn'[t] = "ended"
                        /\ \A k \in 1..Len(queue'[r]) : ~Ends(queue'[r][k], t)
                        /\ \A j \in 1..(i-1) :
                              /\ ~Ends(lines'[j], t)
                              /\ IsSteered(lines'[j]) /\ steer'[lines'[j].req.by].run = r =>
                                    lines'[j].turn = lines'[j].req.of
  BY DEF SteersComeFirst, IsSteered, Ends, Steered
<1>1. CodexTypeOK /\ SteersComeFirst /\ Len(lines) \in Nat
  BY DEF CodexInv, CodexTypeOK
<1>2. CASE LineRead
  <2>1. /\ i + 1 \in 1..Len(lines) /\ lines'[i] = lines[i + 1] /\ i + 1 > 1
        /\ \A j \in 1..(i-1) : j + 1 \in 1..Len(lines) /\ j + 1 \in 1..i
                               /\ lines'[j] = lines[j + 1]
    BY <1>1, <1>2, ReadLine
  <2>2. \A j \in 1..(i+1-1) : /\ ~Ends(lines[j], lines[i + 1].req.of)
                              /\ IsSteered(lines[j]) /\ Steered(lines[j]) = Steered(lines[i + 1])
                                    => lines[j].turn = lines[j].req.of
    BY <1>1, <2>1 DEF SteersComeFirst
  <2>3. \A j \in 1..(i-1) : IsSteered(lines[j + 1]) =>
           steer'[lines[j + 1].req.by].run = Steered(lines[j + 1])
    BY <2>1, SteeredStays
  <2> QED  BY <2>1, <2>2, <2>3, SteeredStays
<1>3. CASE ~LineRead /\ i \in 1..Len(lines)
  <2>1. KeepsCurrent /\ ~NotificationRead
    BY <1>3, NextKeeps DEF NotificationRead, SteerAnswered, Answered
  <2>2. lines'[i] = lines[i] /\ \A j \in 1..(i-1) : j \in 1..Len(lines) /\ lines'[j] = lines[j]
    BY <1>1, <1>3, Written
  <2>3. \A j \in 1..(i-1) : /\ ~Ends(lines[j], lines[i].req.of)
                            /\ IsSteered(lines[j]) /\ Steered(lines[j]) = Steered(lines[i])
                                  => lines[j].turn = lines[j].req.of
    BY <1>1, <1>3, <2>2 DEF SteersComeFirst
  <2>4. \A j \in 1..(i-1) : IsSteered(lines[j]) =>
           steer'[lines[j].req.by].run = Steered(lines[j])
    BY <2>2, SteeredStays
  <2> QED  BY <1>3, <2>1, <2>2, <2>3, <2>4, SteeredStays
<1>4. CASE ~LineRead /\ i \notin 1..Len(lines)
  <2>1. i > Len(lines) /\ Len(lines') # Len(lines)
    BY <1>1, <1>4, Written
  <2>2. /\ i = Len(lines) + 1 /\ run' = run /\ steer' = steer /\ queue' = queue
        /\ \A j \in 1..(i-1) : j \in 1..Len(lines) /\ lines'[j] = lines[j]
    BY <1>1, <1>4, <2>1, Written DEF NewLine
  <2>3. PICK q \in asked : FreshAnswer(q, lines'[i])
    BY <1>4, <2>1, Written DEF NewLine
  <2> DEFINE l == lines'[i]
  <2>4. /\ steer[l.req.by].stage \in {"asked", "over"}
        /\ run[Steered(l)].current = l.req.of /\ run[Steered(l)].outcome # "done"
        /\ l.turn \in Turns
        /\ l.turn # l.req.of => turn'[l.req.of] = "ended"
        /\ \A n \in 1..Len(queue[Steered(l)]) : ~Ends(queue[Steered(l)][n], l.req.of)
        /\ \A j \in 1..Len(lines) :
              /\ ~Ends(lines[j], l.req.of)
              /\ IsSteered(lines[j]) /\ Steered(lines[j]) = Steered(l) =>
                    lines[j].turn = lines[j].req.of
    BY <2>3, FreshSteered
  <2> QED  BY <2>2, <2>4 DEF Steered
<1> QED  BY <1>2, <1>3, <1>4

-----------------------------------------------------------------------------
THEOREM SpecCodexInv == Spec => []CodexInv
<1>1. CodexInv /\ [Next]_vars => CodexInv'
  BY NextCodexTypes, NextAwaited, NextListen, NextAsked, NextNotes, NextSteersFirst, NextFollow
  DEF CodexInv
<1> QED  BY InitCodexInv, <1>1, PTL DEF Spec

(* The records of the model are what the actions leave.                    *)
THEOREM CodexTypes == Spec => []CodexTypeOK
<1>1. CodexInv => CodexTypeOK
  BY DEF CodexInv
<1> QED  BY <1>1, SpecCodexInv, PTL

(* A prompt is done, or aborted, when its own turn is.                     *)
THEOREM PromptsFollowTheirTurns == Spec => []RunsFollowTheirTurns
<1>1. CodexInv => RunsFollowTheirTurns
  BY DEF CodexInv
<1> QED  BY <1>1, SpecCodexInv, PTL
=============================================================================
