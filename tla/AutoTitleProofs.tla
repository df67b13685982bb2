---------------------------- MODULE AutoTitleProofs ----------------------------
(* Proofs about AutoTitle for any number of prompts and chats.             *)
EXTENDS AutoTitle, TLAPS

(***************************************************************************)
(* The inductive invariant.                                                *)
(***************************************************************************)
(* Who has not come to an end is in the lane of his chat, and it is the    *)
(* one in front that runs.                                                 *)
LanesInOrder ==
    \A p \in Prompts :
        LET c == prompt[p].chat
        IN  /\ prompt[p].stage \in {"waiting", "running", "known"} =>
                  c # None /\ \E i \in 1..Len(lane[c]) : lane[c][i] = p
            /\ Running(p) => p = Head(lane[c])

(* A run goes on with the session its lane knew when it began, or with the *)
(* one that it has begun itself.                                           *)
RunsKnowTheirSession ==
    \A p \in Prompts :
        LET s == resolved[prompt[p].chat]
        IN  /\ prompt[p].stage = "running" => s = prompt[p].resume
            /\ prompt[p].stage = "known" =>
                  s = IF prompt[p].resume = None THEN p ELSE prompt[p].resume

(* Sessions are recorded when they begin, and before they are mentioned.   *)
SessionsAreRecorded ==
    /\ \A p \in Prompts : prompt[p].stage \in {"new", "waiting", "running"} => row[p] = None
    /\ \A c \in Chats : resolved[c] # None => row[resolved[c]] # None

(* A chat without a session has no title that was given to it, nor is one  *)
(* given meanwhile expected by an attempt.                                 *)
FirstTitles ==
    /\ view.session = None => view.title \in {None, "image"}
    /\ \A p \in Prompts :
          /\ prompt[p].title \in {None, "image"}
          /\ attempt[p].expected \in {"pending", "image"}

TitleInv ==
    /\ TitleTypeOK /\ LanesInOrder /\ RunsKnowTheirSession
    /\ SessionsAreRecorded /\ FirstTitles /\ ShownTitleIsStored
LEMMA Names ==
    /\ None \notin Prompts /\ None \notin Chats /\ None \notin Titles /\ None \notin Sessions
    /\ Prompts \cap Chats = {}
    /\ Prompts \subseteq Sessions /\ Chats \subseteq Sessions
    /\ Given \subseteq Titles /\ {"image", "pending", "auto", "fallback", "manual"} = Titles
  BY TitleAssumption DEF Sessions, Titles, Given

LEMMA PromptTypes ==
    ASSUME TitleTypeOK, NEW p \in Prompts
    PROVE  /\ prompt[p] \in PromptRecords
           /\ prompt[p].chat \in Chats \cup {None}
           /\ prompt[p].resume \in Sessions \cup {None}
           /\ prompt[p].title \in Titles \cup {None}
           /\ prompt[p].source \in Sources /\ prompt[p].stopped \in BOOLEAN
           /\ prompt[p].stage \in {"new", "waiting", "running", "known", "over"}
  BY DEF TitleTypeOK, PromptRecords

LEMMA AttemptTypes ==
    ASSUME TitleTypeOK, NEW a \in Prompts
    PROVE  /\ attempt[a] \in AttemptRecords
           /\ attempt[a].title \in {"auto", "fallback"}
           /\ attempt[a].expected \in Titles
           /\ attempt[a].session \in Sessions \cup {None}
  BY DEF TitleTypeOK, AttemptRecords

LEMMA ViewTypes ==
    ASSUME TitleTypeOK
    PROVE  /\ view.chat \in Chats \cup {None} /\ view.session \in Sessions \cup {None}
           /\ view.title \in Titles \cup {None} /\ view.deferred \in BOOLEAN
  BY DEF TitleTypeOK, ViewRecords

LEMMA PromptUpdates ==
    ASSUME NEW r \in PromptRecords
    PROVE  /\ \A stage \in {"running", "known", "over"} :
                 [r EXCEPT !.stage = stage] \in PromptRecords
           /\ \A s \in Sessions \cup {None} :
                 [r EXCEPT !.stage = "running", !.resume = s] \in PromptRecords
           /\ [r EXCEPT !.stopped = TRUE] \in PromptRecords
  BY DEF PromptRecords

LEMMA AttemptUpdates ==
    ASSUME NEW r \in AttemptRecords
    PROVE  /\ [r EXCEPT !.stage = "over"] \in AttemptRecords
           /\ \A title \in {"auto", "fallback"} :
                 [r EXCEPT !.stage = "generated", !.title = title] \in AttemptRecords
           /\ \A s \in Sessions \cup {None} :
                 [r EXCEPT !.session = s, !.settled = TRUE] \in AttemptRecords
           /\ [r EXCEPT !.cancelled = TRUE, !.settled = TRUE] \in AttemptRecords
  BY DEF AttemptRecords

LEMMA EmptySeq == \A S : <<>> \in Seq(S)
  OBVIOUS

LEMMA NewRecords ==
    /\ NoPrompt \in PromptRecords /\ NoAttempt \in AttemptRecords
    /\ \A c \in Chats : Blank(c) \in ViewRecords
    /\ \A s \in Sessions, title \in Titles : Showing(s, title) \in ViewRecords
<1>1. NoPrompt \in PromptRecords
  BY DEF NoPrompt, PromptRecords, Sources
<1>2. NoAttempt \in AttemptRecords
  BY Names DEF NoAttempt, AttemptRecords
<1>3. \A c \in Chats : Blank(c) \in ViewRecords
  BY DEF Blank, ViewRecords
<1>4. \A s \in Sessions, title \in Titles : Showing(s, title) \in ViewRecords
  BY DEF Showing, ViewRecords
<1> QED  BY <1>1, <1>2, <1>3, <1>4

LEMMA InitTitleInv == Init => TitleInv
<1> SUFFICES ASSUME Init PROVE TitleInv
  OBVIOUS
<1> USE Names DEF Init
<1>1. TitleTypeOK
  BY NewRecords, EmptySeq DEF TitleTypeOK
<1>2. LanesInOrder /\ RunsKnowTheirSession
  BY DEF LanesInOrder, RunsKnowTheirSession, NoPrompt, Running
<1>3. SessionsAreRecorded /\ FirstTitles /\ ShownTitleIsStored
  BY DEF SessionsAreRecorded, FirstTitles, ShownTitleIsStored, NoPrompt, NoAttempt, Blank
<1> QED  BY <1>1, <1>2, <1>3 DEF TitleInv

-----------------------------------------------------------------------------
(* What the parts of the handlers leave well-typed.                        *)

AttemptsOK ==
    /\ attempt \in [Prompts -> AttemptRecords]
    /\ pending \in [Chats -> Prompts \cup {None}]
    /\ started \subseteq Chats

LEMMA ResolveTypes ==
    ASSUME AttemptsOK, NEW c \in Chats, NEW s \in Sessions, ResolveSession(c, s)
    PROVE  AttemptsOK' /\ \A a \in Prompts : attempt'[a].expected = attempt[a].expected
  BY DEF AttemptsOK, ResolveSession, AttemptRecords

LEMMA CancelTypes ==
    ASSUME AttemptsOK, NEW C \in SUBSET Chats, attempt' = CancelledAttempts(C)
    PROVE  /\ attempt' \in [Prompts -> AttemptRecords]
           /\ \A a \in Prompts : attempt'[a].expected = attempt[a].expected
  BY DEF AttemptsOK, CancelledAttempts, AttemptRecords

ViewOK ==
    /\ view \in ViewRecords
    /\ row \in [Sessions -> Titles \cup {None}]
    /\ attempted \subseteq Sessions

LEMMA AppliesTypes ==
    ASSUME TitleTypeOK, NEW a \in Prompts, NEW s \in Sessions, Applies(a, s)
    PROVE  ViewOK'
  BY AttemptTypes, Names DEF TitleTypeOK, ViewOK, Applies, ViewRecords

RunsOK ==
    /\ prompt \in [Prompts -> PromptRecords]
    /\ lane \in [Chats -> Seq(Prompts)]
    /\ resolved \in [Chats -> Sessions \cup {None}]

HistoryOK == stopping \in BOOLEAN /\ troubled \subseteq Chats /\ cutOff \subseteq Sessions

LEMMA TypesInParts == TitleTypeOK <=> ViewOK /\ RunsOK /\ AttemptsOK /\ HistoryOK
  BY DEF TitleTypeOK, ViewOK, RunsOK, AttemptsOK, HistoryOK

LEMMA TypesInPartsPrimed ==
    TitleTypeOK' <=> ViewOK' /\ RunsOK' /\ AttemptsOK' /\ HistoryOK'
  BY DEF TitleTypeOK, ViewOK, RunsOK, AttemptsOK, HistoryOK

(* The prompt of a run that ends was in front.                             *)
LEMMA InFront ==
    ASSUME TitleTypeOK, LanesInOrder, NEW p \in Prompts, Running(p)
    PROVE  /\ prompt[p].chat \in Chats
           /\ lane[prompt[p].chat] \in Seq(Prompts)
           /\ Len(lane[prompt[p].chat]) \in Nat /\ Len(lane[prompt[p].chat]) > 0
           /\ lane[prompt[p].chat] # <<>>
           /\ p = Head(lane[prompt[p].chat])
           /\ Head(lane[prompt[p].chat]) = lane[prompt[p].chat][1]
<1>1. prompt[p].chat \in Chats
  BY PromptTypes DEF LanesInOrder, Running
<1>2. PICK i \in 1..Len(lane[prompt[p].chat]) : lane[prompt[p].chat][i] = p
  BY DEF LanesInOrder, Running
<1>3. lane[prompt[p].chat] \in Seq(Prompts) /\ Len(lane[prompt[p].chat]) \in Nat
  BY <1>1 DEF TitleTypeOK
<1>4. p = Head(lane[prompt[p].chat])
  BY DEF LanesInOrder
<1> QED  BY <1>1, <1>2, <1>3, <1>4

LEMMA OverTypes ==
    ASSUME TitleTypeOK, LanesInOrder, NEW p \in Prompts, Running(p), Over(p)
    PROVE  /\ prompt' \in [Prompts -> PromptRecords] /\ lane' \in [Chats -> Seq(Prompts)]
<1>1. prompt' \in [Prompts -> PromptRecords]
  BY DEF Over, TitleTypeOK, PromptRecords
<1>2. Tail(lane[prompt[p].chat]) \in Seq(Prompts)
  BY InFront
<1> QED  BY <1>1, <1>2, InFront DEF Over, TitleTypeOK

LEMMA NextTitleTypes == TitleInv /\ [Next]_vars => TitleTypeOK'
<1> SUFFICES ASSUME TitleInv, [Next]_vars PROVE TitleTypeOK'
  OBVIOUS
<1> USE Names
<1>1. TitleTypeOK /\ ViewOK /\ RunsOK /\ AttemptsOK /\ HistoryOK /\ LanesInOrder
  BY TypesInParts DEF TitleInv
<1>2. ASSUME NEW p \in Prompts, NEW source \in Sources, NEW image \in BOOLEAN,
             NewPrompt(p, source, image)
      PROVE  TitleTypeOK'
  <2> DEFINE c == view.chat
  <2>1. c \in Chats /\ view.session = None /\ view.title \in Titles \cup {None}
    BY <1>1, <1>2, ViewTypes DEF NewPrompt
  <2>2. ViewOK'
    BY <1>1, <1>2 DEF NewPrompt, ViewOK, ViewRecords
  <2>3. view'.title \in Titles \cup {None}
    BY <2>2 DEF ViewOK, ViewRecords
  <2> DEFINE untitled == view.title = None /\ ~view.deferred
             now == [view EXCEPT !.deferred = @ \/ (untitled /\ ~image),
                                 !.title = IF untitled /\ image THEN "image" ELSE @]
  <2>4. /\ view' = now
        /\ prompt' = [prompt EXCEPT ![p] = [NoPrompt EXCEPT !.stage = "waiting", !.chat = c,
                                              !.source = source, !.title = now.title]]
        /\ \/ attempt' = attempt
           \/ attempt' = [attempt EXCEPT ![p] = [NoAttempt EXCEPT !.stage = "generating",
                            !.expected = IF now.title = None THEN "pending" ELSE now.title]]
    BY <1>2 DEF NewPrompt
  <2> HIDE DEF now
  <2>5. prompt' \in [Prompts -> PromptRecords]
    BY <1>1, <2>1, <2>3, <2>4 DEF RunsOK, PromptRecords, NoPrompt
  <2>6. lane' \in [Chats -> Seq(Prompts)] /\ resolved' = resolved
    BY <1>1, <1>2, <2>1 DEF NewPrompt, RunsOK
  <2>7. attempt' \in [Prompts -> AttemptRecords]
    <3>1. \A title \in Titles :
             [NoAttempt EXCEPT !.stage = "generating", !.expected = title] \in AttemptRecords
      BY NewRecords DEF AttemptRecords
    <3>2. (IF now.title = None THEN "pending" ELSE now.title) \in Titles
      BY <2>3, <2>4
    <3> QED  BY <1>1, <2>4, <3>1, <3>2 DEF AttemptsOK
  <2>8. AttemptsOK'
    BY <1>1, <1>2, <2>1, <2>7 DEF NewPrompt, AttemptsOK
  <2>9. HistoryOK'
    BY <1>1, <1>2 DEF NewPrompt, historyVars, HistoryOK
  <2> QED  BY <2>2, <2>5, <2>6, <2>8, <2>9, <1>1, TypesInPartsPrimed DEF RunsOK
<1>3. ASSUME NEW p \in Prompts, Starts(p) PROVE TitleTypeOK'
  <2>1. resolved[prompt[p].chat] \in Sessions \cup {None}
    BY <1>1, <1>3, PromptTypes DEF Starts, LanesInOrder, RunsOK
  <2>2. RunsOK'
    BY <1>1, <1>3, <2>1, PromptUpdates DEF Starts, RunsOK
  <2> QED
    BY <1>1, <1>3, <2>2, TypesInPartsPrimed
    DEF Starts, viewVars, titleVars, historyVars, ViewOK, AttemptsOK, HistoryOK
<1>4. ASSUME NEW p \in Prompts, SessionKnown(p) PROVE TitleTypeOK'
  <2> DEFINE s == IF prompt[p].resume = None THEN p ELSE prompt[p].resume
  <2>1. s \in Sessions /\ prompt[p].chat \in Chats
    BY <1>1, <1>4, PromptTypes, InFront DEF SessionKnown, Running
  <2>2. TitleToStore(prompt[p].title) \in Titles
    BY <1>1, PromptTypes DEF TitleToStore
  <2>3. ViewOK'
    BY <1>1, <1>4, <2>1, <2>2 DEF SessionKnown, ViewOK, ViewRecords
  <2>4. RunsOK'
    BY <1>1, <1>4, <2>1, PromptUpdates DEF SessionKnown, RunsOK
  <2>5. AttemptsOK'
    BY <1>1, <1>4, <2>1, ResolveTypes DEF SessionKnown
  <2> QED
    BY <1>1, <1>4, <2>3, <2>4, <2>5, TypesInPartsPrimed DEF SessionKnown, historyVars, HistoryOK
<1>5. ASSUME NEW p \in Prompts, Done(p) PROVE TitleTypeOK'
  <2>1. Running(p)
    BY <1>5 DEF Done, Running
  <2>2. prompt[p].chat \in Chats
    BY <1>1, <2>1, InFront
  <2>3. resolved[prompt[p].chat] \in Sessions
    BY <1>1, <1>5, <2>2, PromptTypes DEF Done, TitleInv, RunsKnowTheirSession, RunsOK
  <2>4. ViewOK'
    BY <1>1, <1>5, <2>3, ViewTypes DEF Done, ViewOK
  <2>5. RunsOK'
    BY <1>1, <1>5, <2>1, OverTypes DEF Done, RunsOK
  <2>6. AttemptsOK'
    BY <1>1, <1>5, <2>2, <2>3, ResolveTypes DEF Done
  <2> QED
    BY <1>1, <1>5, <2>4, <2>5, <2>6, TypesInPartsPrimed DEF Done, historyVars, HistoryOK
<1>6. ASSUME NEW p \in Prompts, Fails(p) PROVE TitleTypeOK'
  <2>1. Running(p) /\ prompt[p].chat \in Chats
    BY <1>1, <1>6, InFront DEF Fails
  <2>2. RunsOK'
    BY <1>1, <1>6, <2>1, OverTypes DEF Fails, RunsOK
  <2>3. CASE resolved[prompt[p].chat] # None
    <3>1. resolved[prompt[p].chat] \in Sessions
      BY <1>1, <2>1, <2>3 DEF RunsOK
    <3>2. AttemptsOK'
      BY <1>1, <1>6, <2>1, <2>3, <3>1, ResolveTypes DEF Fails
    <3> QED
      BY <1>1, <1>6, <2>1, <2>2, <3>2, TypesInPartsPrimed
      DEF Fails, Troubles, viewVars, ViewOK, HistoryOK
  <2>4. CASE resolved[prompt[p].chat] = None
    <3>1. Cancel(prompt[p].chat)
      BY <1>6, <2>4 DEF Fails
    <3>2. AttemptsOK'
      BY <1>1, <2>1, <3>1, CancelTypes DEF Cancel, AttemptsOK
    <3> QED
      BY <1>1, <1>6, <2>1, <2>2, <3>2, TypesInPartsPrimed
      DEF Fails, Troubles, viewVars, ViewOK, HistoryOK
  <2> QED  BY <2>3, <2>4
<1>7. ASSUME NEW p \in Prompts, Stop(p) PROVE TitleTypeOK'
  <2>1. prompt[p].chat \in Chats
    BY <1>1, <1>7, InFront DEF Stop
  <2>2. RunsOK'
    BY <1>1, <1>7, PromptUpdates DEF Stop, RunsOK
  <2> QED
    BY <1>1, <1>7, <2>1, <2>2, TypesInPartsPrimed
    DEF Stop, Troubles, viewVars, titleVars, ViewOK, AttemptsOK, HistoryOK
<1>8. ASSUME NEW p \in Prompts, EndsStopped(p) PROVE TitleTypeOK'
  <2> DEFINE c == prompt[p].chat
  <2>1. Running(p) /\ c \in Chats
    BY <1>1, <1>8, InFront DEF EndsStopped
  <2>2. RunsOK'
    BY <1>1, <1>8, <2>1, OverTypes DEF EndsStopped, RunsOK
  <2>3. ViewOK'
    <3>1. CASE Leaves(p)
      <4>1. PICK next \in Chats : view' = Blank(next) /\ UNCHANGED <<row, attempted>>
        BY <1>8, <3>1, Zenon DEF EndsStopped, Interrupted
      <4> QED  BY <1>1, <4>1, NewRecords DEF ViewOK
    <3>2. CASE ~Leaves(p) /\ Interrupted(p)
      <4>1. RecordInterruptedRun(p)
        BY <1>8, <3>2 DEF EndsStopped
      <4>2. TitleToStore(prompt[p].title) \in Titles
        BY <1>1, PromptTypes DEF TitleToStore
      <4> QED
        BY <1>1, <2>1, <4>1, <4>2, ViewTypes DEF RecordInterruptedRun, Showing, ViewRecords, ViewOK
    <3>3. CASE ~Leaves(p) /\ ~Interrupted(p)
      BY <1>1, <1>8, <3>3 DEF EndsStopped, viewVars, ViewOK
    <3> QED  BY <3>1, <3>2, <3>3
  <2>4. AttemptsOK'
    <3>1. \/ \E s \in Sessions : ResolveSession(c, s)
          \/ Cancel(c)
      BY <1>1, <1>8, <2>1 DEF EndsStopped, RunsOK
    <3>2. ASSUME NEW s \in Sessions, ResolveSession(c, s) PROVE AttemptsOK'
      BY <1>1, <2>1, <3>2, ResolveTypes
    <3>3. ASSUME Cancel(c) PROVE AttemptsOK'
      BY <1>1, <2>1, <3>3, CancelTypes DEF Cancel, AttemptsOK
    <3> QED  BY <3>1, <3>2, <3>3
  <2> QED
    BY <1>1, <1>8, <2>2, <2>3, <2>4, TypesInPartsPrimed DEF EndsStopped, historyVars, HistoryOK
<1>9. ASSUME NEW a \in Prompts, Generates(a) PROVE TitleTypeOK'
  <2>1. AttemptsOK'
    <3>1. PICK title \in {"auto", "fallback"} :
             attempt' = [attempt EXCEPT ![a].stage = "generated", ![a].title = title]
      BY <1>9 DEF Generates
    <3>2. [attempt[a] EXCEPT !.stage = "generated", !.title = title] \in AttemptRecords
      BY <1>1, AttemptUpdates DEF AttemptsOK
    <3>3. attempt' = [attempt EXCEPT
                        ![a] = [attempt[a] EXCEPT !.stage = "generated", !.title = title]]
      BY <1>1, <3>1 DEF AttemptsOK
    <3> QED  BY <1>1, <1>9, <3>2, <3>3 DEF Generates, AttemptsOK
  <2> QED
    BY <1>1, <1>9, <2>1, TypesInPartsPrimed
    DEF Generates, viewVars, runVars, historyVars, ViewOK, RunsOK, HistoryOK
<1>10. ASSUME NEW a \in Prompts, Finishes(a) PROVE TitleTypeOK'
  <2>1. ViewOK'
    BY <1>1, <1>10, AppliesTypes, AttemptTypes DEF Finishes, viewVars, ViewOK
  <2>2. AttemptsOK'
    BY <1>1, <1>10 DEF Finishes, AttemptsOK, AttemptRecords
  <2> QED
    BY <1>1, <1>10, <2>1, <2>2, TypesInPartsPrimed
    DEF Finishes, runVars, historyVars, RunsOK, HistoryOK
<1>11. ASSUME NEW c \in Chats, NewChat(c) PROVE TitleTypeOK'
  <2>1. ViewOK'
    BY <1>1, <1>11 DEF NewChat, Blank, ViewRecords, ViewOK
  <2> QED
    BY <1>1, <1>11, <2>1, TypesInPartsPrimed
    DEF NewChat, runVars, titleVars, historyVars, RunsOK, AttemptsOK, HistoryOK
<1>12. ASSUME NEW s \in Sessions, Switch(s) PROVE TitleTypeOK'
  <2>1. ViewOK'
    BY <1>1, <1>12 DEF Switch, Showing, ViewRecords, ViewOK
  <2> QED
    BY <1>1, <1>12, <2>1, TypesInPartsPrimed
    DEF Switch, runVars, titleVars, historyVars, RunsOK, AttemptsOK, HistoryOK
<1>13. ASSUME NEW s \in Sessions, Rename(s) PROVE TitleTypeOK'
  <2>1. ViewOK'
    BY <1>1, <1>13 DEF Rename, ViewRecords, ViewOK
  <2> QED
    BY <1>1, <1>13, <2>1, TypesInPartsPrimed
    DEF Rename, runVars, titleVars, historyVars, RunsOK, AttemptsOK, HistoryOK
<1>14. CASE Shutdown
  <2>1. prompt' \in [Prompts -> PromptRecords]
    BY <1>1, <1>14, PromptUpdates DEF Shutdown, RunsOK
  <2>2. lane' \in [Chats -> Seq(Prompts)]
    <3>1. ASSUME NEW c \in Chats, lane[c] # <<>> PROVE <<Head(lane[c])>> \in Seq(Prompts)
      BY <1>1, <3>1 DEF RunsOK
    <3>2. <<>> \in Seq(Prompts)
      OBVIOUS
    <3> QED  BY <1>14, <3>1, <3>2 DEF Shutdown
  <2>3. AttemptsOK'
    BY <1>1, <1>14, CancelTypes DEF Shutdown, AttemptsOK
  <2>4. HistoryOK'
    BY <1>1, <1>14, InFront DEF Shutdown, HistoryOK
  <2> QED
    BY <1>1, <1>14, <2>1, <2>2, <2>3, <2>4, TypesInPartsPrimed
    DEF Shutdown, viewVars, ViewOK, RunsOK
<1>15. CASE Crash
  <2>1. ViewOK'
    BY <1>1, <1>15, NewRecords DEF Crash, ViewOK
  <2>2. RunsOK'
    BY <1>1, <1>15, PromptUpdates, EmptySeq DEF Crash, RunsOK
  <2>3. AttemptsOK' /\ HistoryOK'
    BY <1>1, <1>15, AttemptUpdates DEF Crash, AttemptsOK, HistoryOK
  <2> QED  BY <2>1, <2>2, <2>3, TypesInPartsPrimed
<1>16. CASE UNCHANGED vars
  BY <1>1, <1>16
  DEF vars, viewVars, runVars, titleVars, historyVars, TitleTypeOK
<1> QED
  BY <1>2, <1>3, <1>4, <1>5, <1>6, <1>7, <1>8, <1>9, <1>10, <1>11, <1>12, <1>13, <1>14, <1>15,
     <1>16
  DEF Next, RunStep

-----------------------------------------------------------------------------
(* The lanes.                                                              *)

Active(p) == prompt[p].stage \in {"waiting", "running", "known"}

LEMMA SameLanes ==
    ASSUME LanesInOrder, UNCHANGED lane,
           \A p \in Prompts : /\ Active(p)' => Active(p) /\ prompt'[p].chat = prompt[p].chat
                              /\ Running(p)' => Running(p)
    PROVE  LanesInOrder'
  BY DEF LanesInOrder, Active, Running

LEMMA OverLanes ==
    ASSUME TitleTypeOK, LanesInOrder, NEW p \in Prompts, Running(p), Over(p)
    PROVE  LanesInOrder'
<1> SUFFICES ASSUME NEW q \in Prompts, Active(q)'
             PROVE  /\ prompt'[q].chat # None
                    /\ \E i \in 1..Len(lane'[prompt'[q].chat]) : lane'[prompt'[q].chat][i] = q
                    /\ Running(q)' => q = Head(lane'[prompt'[q].chat])
  BY DEF LanesInOrder, Active, Running
<1> DEFINE c == prompt[q].chat
<1>1. q # p /\ prompt'[q] = prompt[q]
  BY DEF Over, TitleTypeOK, Active
<1>2. c \in Chats /\ \E i \in 1..Len(lane[c]) : lane[c][i] = q
  BY <1>1, PromptTypes DEF LanesInOrder, Active
<1>3. CASE c # prompt[p].chat
  <2>1. lane'[c] = lane[c]
    BY <1>2, <1>3 DEF Over, TitleTypeOK
  <2> QED  BY <1>1, <1>2, <2>1 DEF LanesInOrder, Active, Running
<1>4. CASE c = prompt[p].chat
  <2>1. lane'[c] = Tail(lane[c]) /\ lane[c] \in Seq(Prompts) /\ Len(lane[c]) > 0 /\ lane[c][1] = p
    BY <1>2, <1>4, InFront DEF Over, TitleTypeOK
  <2>2. PICK i \in 1..Len(lane[c]) : lane[c][i] = q
    BY <1>2
  <2>3. i # 1 /\ i - 1 \in 1..Len(Tail(lane[c])) /\ Tail(lane[c])[i - 1] = q
    BY <1>1, <2>1, <2>2
  <2>4. ~Running(q)
    BY <1>1, <1>4, InFront DEF LanesInOrder
  <2>5. \E k \in 1..Len(lane'[c]) : lane'[c][k] = q
    BY <2>1, <2>3
  <2>6. prompt'[q].chat = c /\ prompt'[q].chat # None /\ ~Running(q)'
    BY <1>1, <1>2, <2>4, Names DEF Running
  <2> QED  BY <2>5, <2>6
<1> QED  BY <1>3, <1>4

LEMMA NextLanes == TitleInv /\ [Next]_vars => LanesInOrder'
<1> SUFFICES ASSUME TitleInv, [Next]_vars PROVE LanesInOrder'
  OBVIOUS
<1> USE Names
<1>1. TitleTypeOK /\ LanesInOrder
  BY DEF TitleInv
<1>2. ASSUME NEW p \in Prompts, NEW source \in Sources, NEW image \in BOOLEAN,
             NewPrompt(p, source, image)
      PROVE  LanesInOrder'
  <2> DEFINE c == view.chat
  <2>1. /\ c \in Chats /\ lane[c] \in Seq(Prompts)
        /\ lane' = [lane EXCEPT ![c] = Append(@, p)]
        /\ prompt'[p].stage = "waiting" /\ prompt'[p].chat = c
        /\ \A q \in Prompts \ {p} : prompt'[q] = prompt[q]
    BY <1>1, <1>2, ViewTypes DEF NewPrompt, TitleTypeOK, NoPrompt
  <2> SUFFICES ASSUME NEW q \in Prompts, Active(q)'
               PROVE  /\ prompt'[q].chat # None
                      /\ \E i \in 1..Len(lane'[prompt'[q].chat]) : lane'[prompt'[q].chat][i] = q
                      /\ Running(q)' => q = Head(lane'[prompt'[q].chat])
    BY DEF LanesInOrder, Active, Running
  <2>2. CASE q = p
    <3>1. /\ Len(lane'[c]) \in 1..Len(lane'[c])
          /\ lane'[c][Len(lane'[c])] = p
      BY <1>1, <2>1 DEF TitleTypeOK
    <3> QED  BY <2>1, <2>2, <3>1 DEF Running
  <2>3. CASE q # p /\ prompt[q].chat # c
    <3>1. lane'[prompt[q].chat] = lane[prompt[q].chat] /\ prompt'[q] = prompt[q]
      BY <1>1, <2>1, <2>3, PromptTypes DEF TitleTypeOK, LanesInOrder, Active
    <3> QED  BY <1>1, <3>1 DEF LanesInOrder, Active, Running
  <2>4. CASE q # p /\ prompt[q].chat = c
    <3>1. lane'[c] = Append(lane[c], p) /\ prompt'[q] = prompt[q]
      BY <1>1, <2>1, <2>4 DEF TitleTypeOK
    <3>2. PICK i \in 1..Len(lane[c]) : lane[c][i] = q
      BY <1>1, <2>4, <3>1 DEF LanesInOrder, Active
    <3>3. i \in 1..Len(lane'[c]) /\ lane'[c][i] = q /\ Head(lane'[c]) = Head(lane[c])
      BY <2>1, <3>1, <3>2
    <3> QED  BY <1>1, <2>1, <2>4, <3>1, <3>3 DEF LanesInOrder, Running
  <2> QED  BY <2>2, <2>3, <2>4
<1>3. ASSUME NEW p \in Prompts, Starts(p) PROVE LanesInOrder'
  <2>1. /\ prompt[p].stage = "waiting" /\ Head(lane[prompt[p].chat]) = p /\ lane' = lane
        /\ prompt'[p].chat = prompt[p].chat
        /\ \A q \in Prompts \ {p} : prompt'[q] = prompt[q]
    BY <1>1, <1>3 DEF Starts, TitleTypeOK
  <2> QED  BY <1>1, <2>1 DEF LanesInOrder, Running
<1>4. ASSUME NEW p \in Prompts, SessionKnown(p) PROVE LanesInOrder'
  <2>1. /\ Running(p) /\ lane' = lane
        /\ prompt'[p].chat = prompt[p].chat
        /\ \A q \in Prompts \ {p} : prompt'[q] = prompt[q]
    BY <1>1, <1>4 DEF SessionKnown, TitleTypeOK, Running
  <2> QED  BY <1>1, <2>1, SameLanes DEF Active, Running
<1>5. ASSUME NEW p \in Prompts, Done(p) \/ Fails(p) \/ EndsStopped(p) PROVE LanesInOrder'
  BY <1>1, <1>5, OverLanes DEF Done, Fails, EndsStopped, Running
<1>6. ASSUME NEW p \in Prompts, Stop(p) PROVE LanesInOrder'
  <2>1. lane' = lane /\ \A q \in Prompts : /\ prompt'[q].chat = prompt[q].chat
                                           /\ prompt'[q].stage = prompt[q].stage
    BY <1>1, <1>6 DEF Stop, TitleTypeOK
  <2> QED  BY <1>1, <2>1, SameLanes DEF Active, Running
<1>7. CASE Shutdown
  <2> SUFFICES ASSUME NEW q \in Prompts, Active(q)'
               PROVE  /\ prompt'[q].chat # None
                      /\ \E i \in 1..Len(lane'[prompt'[q].chat]) : lane'[prompt'[q].chat][i] = q
                      /\ Running(q)' => q = Head(lane'[prompt'[q].chat])
    BY DEF LanesInOrder, Active, Running
  <2>1. Running(q) /\ prompt'[q].chat = prompt[q].chat
    BY <1>1, <1>7 DEF Shutdown, TitleTypeOK, Active, Running
  <2>2. lane'[prompt[q].chat] = <<q>> /\ prompt[q].chat # None
    BY <1>1, <1>7, <2>1, InFront DEF Shutdown
  <2>3. Head(<<q>>) = q /\ <<q>>[1] = q /\ 1 \in 1..Len(<<q>>)
    OBVIOUS
  <2> QED  BY <2>1, <2>2, <2>3
<1>8. CASE Crash
  BY <1>1, <1>8 DEF Crash, LanesInOrder, Running, TitleTypeOK
<1>9. CASE UNCHANGED runVars
  BY <1>1, <1>9 DEF runVars, LanesInOrder, Running
<1> QED
  BY <1>2, <1>3, <1>4, <1>5, <1>6, <1>7, <1>8, <1>9
  DEF Next, RunStep, Generates, Finishes, NewChat, Switch, Rename, vars

-----------------------------------------------------------------------------
(* The sessions of the runs.                                               *)

LEMMA SameSessions ==
    ASSUME RunsKnowTheirSession, UNCHANGED resolved,
           \A p \in Prompts : Running(p)' => /\ prompt'[p].stage = prompt[p].stage
                                             /\ prompt'[p].chat = prompt[p].chat
                                             /\ prompt'[p].resume = prompt[p].resume
    PROVE  RunsKnowTheirSession'
  BY DEF RunsKnowTheirSession, Running

LEMMA NextKnown == TitleInv /\ [Next]_vars => RunsKnowTheirSession'
<1> SUFFICES ASSUME TitleInv, [Next]_vars PROVE RunsKnowTheirSession'
  OBVIOUS
<1>1. TitleTypeOK /\ LanesInOrder /\ RunsKnowTheirSession
  BY DEF TitleInv
<1>2. ASSUME NEW p \in Prompts, NEW source \in Sources, NEW image \in BOOLEAN,
             NewPrompt(p, source, image)
      PROVE  RunsKnowTheirSession'
  <2>1. /\ prompt'[p].stage = "waiting" /\ resolved' = resolved
        /\ \A q \in Prompts \ {p} : prompt'[q] = prompt[q]
    BY <1>1, <1>2 DEF NewPrompt, TitleTypeOK, NoPrompt
  <2> QED  BY <1>1, <2>1, SameSessions DEF Running
<1>3. ASSUME NEW p \in Prompts, Starts(p) PROVE RunsKnowTheirSession'
  <2>1. /\ prompt'[p].stage = "running" /\ resolved' = resolved
        /\ prompt'[p].chat = prompt[p].chat
        /\ prompt'[p].resume = resolved[prompt[p].chat]
        /\ \A q \in Prompts \ {p} : prompt'[q] = prompt[q]
    BY <1>1, <1>3 DEF Starts, TitleTypeOK, PromptRecords
  <2> QED  BY <1>1, <2>1 DEF RunsKnowTheirSession
<1>4. ASSUME NEW p \in Prompts, SessionKnown(p) PROVE RunsKnowTheirSession'
  <2> DEFINE s == IF prompt[p].resume = None THEN p ELSE prompt[p].resume
  <2>1. /\ Running(p) /\ prompt'[p].stage = "known"
        /\ prompt'[p].chat = prompt[p].chat /\ prompt'[p].resume = prompt[p].resume
        /\ resolved' = [resolved EXCEPT ![prompt[p].chat] = s]
        /\ \A q \in Prompts \ {p} : prompt'[q] = prompt[q]
    BY <1>1, <1>4 DEF SessionKnown, TitleTypeOK, PromptRecords, Running
  <2>2. prompt[p].chat \in Chats /\ resolved'[prompt[p].chat] = s
    BY <1>1, <2>1, InFront DEF TitleTypeOK
  <2>3. ASSUME NEW q \in Prompts \ {p}, Running(q)
        PROVE  resolved'[prompt[q].chat] = resolved[prompt[q].chat]
    <3>1. prompt[q].chat \in Chats /\ prompt[q].chat # prompt[p].chat
      BY <1>1, <2>1, <2>3, InFront
    <3> QED  BY <1>1, <2>1, <3>1 DEF TitleTypeOK
  <2> QED  BY <1>1, <2>1, <2>2, <2>3 DEF RunsKnowTheirSession, Running
<1>5. ASSUME NEW p \in Prompts, Done(p) \/ Fails(p) \/ EndsStopped(p)
      PROVE  RunsKnowTheirSession'
  <2>1. Over(p) /\ resolved' = resolved
    BY <1>5 DEF Done, Fails, EndsStopped
  <2>2. prompt'[p].stage = "over" /\ \A q \in Prompts \ {p} : prompt'[q] = prompt[q]
    BY <1>1, <2>1 DEF Over, TitleTypeOK, PromptRecords
  <2> QED  BY <1>1, <2>1, <2>2, SameSessions DEF Running
<1>6. ASSUME NEW p \in Prompts, Stop(p) PROVE RunsKnowTheirSession'
  <2>1. resolved' = resolved /\ \A q \in Prompts : /\ prompt'[q].chat = prompt[q].chat
                                                   /\ prompt'[q].stage = prompt[q].stage
                                                   /\ prompt'[q].resume = prompt[q].resume
    BY <1>1, <1>6 DEF Stop, TitleTypeOK
  <2> QED  BY <1>1, <2>1, SameSessions
<1>7. CASE Shutdown
  <2>1. resolved' = resolved /\ \A q \in Prompts : Running(q)' =>
                                  /\ prompt'[q].chat = prompt[q].chat
                                  /\ prompt'[q].stage = prompt[q].stage
                                  /\ prompt'[q].resume = prompt[q].resume
    BY <1>1, <1>7 DEF Shutdown, TitleTypeOK, PromptRecords, Running
  <2> QED  BY <1>1, <2>1, SameSessions
<1>8. CASE Crash
  <2>1. \A q \in Prompts : prompt'[q].stage \in {"new", "over"}
    BY <1>1, <1>8 DEF Crash, TitleTypeOK, PromptRecords
  <2> QED  BY <2>1 DEF RunsKnowTheirSession
<1>9. CASE UNCHANGED runVars
  BY <1>1, <1>9 DEF runVars, RunsKnowTheirSession
<1> QED
  BY <1>2, <1>3, <1>4, <1>5, <1>6, <1>7, <1>8, <1>9
  DEF Next, RunStep, Generates, Finishes, NewChat, Switch, Rename, vars

-----------------------------------------------------------------------------
(* What is recorded.                                                       *)

LEMMA ShownIsRecorded ==
    ASSUME TitleInv, view.session # None
    PROVE  /\ view.session \in Sessions
           /\ row[view.session] # None
           /\ row[view.session] = IF view.title = None THEN "pending" ELSE view.title
  BY ViewTypes, Names DEF TitleInv, ShownTitleIsStored

LEMMA SessionOfRun ==
    ASSUME TitleInv, NEW p \in Prompts, Running(p)
    PROVE  /\ prompt[p].chat \in Chats
           /\ prompt[p].stage = "known" =>
                 /\ resolved[prompt[p].chat] \in Sessions
                 /\ row[resolved[prompt[p].chat]] # None
           /\ prompt[p].stage = "running" /\ prompt[p].resume # None =>
                 /\ prompt[p].resume \in Sessions
                 /\ row[prompt[p].resume] # None
<1>1. TitleTypeOK /\ LanesInOrder /\ RunsKnowTheirSession /\ SessionsAreRecorded
  BY DEF TitleInv
<1>2. prompt[p].chat \in Chats
  BY <1>1, InFront
<1> QED
  BY <1>1, <1>2, PromptTypes, Names DEF RunsKnowTheirSession, SessionsAreRecorded

(* The title a run leaves its session with when it is done.                *)
LEMMA TitleWhenDone ==
    ASSUME TitleInv, NEW p \in Prompts, Done(p)
    PROVE  LET s == resolved[prompt[p].chat]
           IN  /\ s \in Sessions /\ row[s] # None
               /\ row' = row
<1>1. prompt[p].stage = "known" /\ Running(p) /\ TitleTypeOK
  BY DEF Done, Running, TitleInv
<1> DEFINE s == resolved[prompt[p].chat]
<1>2. s \in Sessions /\ row[s] # None
  BY <1>1, SessionOfRun
<1>3. ASSUME Visible(p)
      PROVE  view.session = s /\ row[s] = IF view.title = None THEN "pending" ELSE view.title
  BY <1>2, <1>3, ShownIsRecorded, Names DEF Visible
<1>4. row' = [row EXCEPT ![s] = IF ~Visible(p) THEN row[s]
                                ELSE IF view.title # None THEN view.title
                                ELSE IF view.deferred THEN "pending"
                                ELSE row[s]]
  BY DEF Done
<1>5. row' = [row EXCEPT ![s] = row[s]]
  BY <1>3, <1>4
<1> QED  BY <1>1, <1>2, <1>5 DEF TitleTypeOK

(* A stopped run that is recorded as interrupted has begun the session on  *)
(* screen, or has none.                                                    *)
LEMMA RecordedAgain ==
    ASSUME TitleInv, NEW p \in Prompts, Running(p), Interrupted(p), RecordInterruptedRun(p)
    PROVE  \E s \in {p, prompt[p].chat} :
              /\ s \in Sessions /\ s \notin Prompts \ {p}
              /\ s = p => prompt[p].stage = "known"
              /\ row' = [row EXCEPT ![s] = TitleToStore(prompt[p].title)]
              /\ view' = Showing(s, TitleToStore(prompt[p].title))
              /\ TitleToStore(prompt[p].title) \in Titles
<1>1. TitleTypeOK /\ RunsKnowTheirSession /\ prompt[p].resume = None /\ Visible(p)
  BY DEF TitleInv, Interrupted
<1>2. prompt[p].chat \in Chats
  BY SessionOfRun
<1>3. TitleToStore(prompt[p].title) \in Titles
  BY <1>1, PromptTypes, Names DEF TitleToStore
<1>4. CASE prompt[p].stage = "running"
  <2>1. view.session = None
    BY <1>1, <1>4, Names DEF RunsKnowTheirSession, Visible
  <2> QED  BY <1>2, <1>3, <1>4, <2>1, Names DEF RecordInterruptedRun
<1>5. CASE prompt[p].stage = "known"
  <2>1. view.session = p
    BY <1>1, <1>5, Names DEF RunsKnowTheirSession, Visible
  <2> QED  BY <1>3, <1>5, <2>1, Names DEF RecordInterruptedRun
<1> QED  BY <1>4, <1>5 DEF Running

LEMMA SameRecords ==
    ASSUME SessionsAreRecorded,
           \A s \in Sessions : row[s] # None <=> row'[s] # None,
           resolved' = resolved, resolved \in [Chats -> Sessions \cup {None}],
           \A p \in Prompts : prompt'[p].stage \in {"new", "waiting", "running"}
                              => prompt[p].stage \in {"new", "waiting", "running"}
    PROVE  SessionsAreRecorded'
  BY Names DEF SessionsAreRecorded

Early == {"new", "waiting", "running"}

LEMMA NextRecorded == TitleInv /\ [Next]_vars => SessionsAreRecorded'
<1> SUFFICES ASSUME TitleInv, [Next]_vars PROVE SessionsAreRecorded'
  OBVIOUS
<1>1. /\ TitleTypeOK /\ SessionsAreRecorded
      /\ resolved \in [Chats -> Sessions \cup {None}]
      /\ row \in [Sessions -> Titles \cup {None}]
  BY DEF TitleInv, TitleTypeOK
<1>2. ASSUME NEW p \in Prompts, NEW source \in Sources, NEW image \in BOOLEAN,
             NewPrompt(p, source, image)
      PROVE  SessionsAreRecorded'
  <2>1. /\ row' = row /\ resolved' = resolved /\ prompt[p].stage = "new"
        /\ \A q \in Prompts \ {p} : prompt'[q] = prompt[q]
    BY <1>1, <1>2 DEF NewPrompt, TitleTypeOK
  <2> QED  BY <1>1, <2>1, SameRecords
<1>3. ASSUME NEW p \in Prompts, Starts(p) PROVE SessionsAreRecorded'
  <2>1. /\ row' = row /\ resolved' = resolved /\ prompt[p].stage = "waiting"
        /\ \A q \in Prompts \ {p} : prompt'[q] = prompt[q]
    BY <1>1, <1>3 DEF Starts, viewVars, TitleTypeOK
  <2> QED  BY <1>1, <2>1, SameRecords
<1>4. ASSUME NEW p \in Prompts, SessionKnown(p) PROVE SessionsAreRecorded'
  <2> DEFINE c == prompt[p].chat
             s == IF prompt[p].resume = None THEN p ELSE prompt[p].resume
  <2>1. /\ Running(p) /\ prompt[p].stage = "running" /\ prompt'[p].stage = "known"
        /\ resolved' = [resolved EXCEPT ![c] = s]
        /\ \A q \in Prompts \ {p} : prompt'[q] = prompt[q]
        /\ row' = IF prompt[p].resume = None
                  THEN [row EXCEPT ![p] = TitleToStore(prompt[p].title)] ELSE row
    BY <1>1, <1>4 DEF SessionKnown, TitleTypeOK, PromptRecords, Running
  <2>2. TitleToStore(prompt[p].title) # None
    BY <1>1, PromptTypes, Names DEF TitleToStore
  <2>3. /\ \A q \in Sessions \ {p} : row'[q] = row[q]
        /\ row[p] # None => row'[p] # None
        /\ row'[s] # None
    BY <1>1, <2>1, <2>2, SessionOfRun, Names
  <2>4. \A d \in Chats : resolved'[d] = resolved[d] \/ resolved'[d] = s
    BY <1>1, <2>1
  <2> QED  BY <1>1, <2>1, <2>3, <2>4, Names DEF SessionsAreRecorded
<1>5. ASSUME NEW p \in Prompts, Done(p) PROVE SessionsAreRecorded'
  <2>1. /\ row' = row /\ resolved' = resolved /\ prompt'[p].stage = "over"
        /\ \A q \in Prompts \ {p} : prompt'[q] = prompt[q]
    BY <1>1, <1>5, TitleWhenDone DEF Done, Over, TitleTypeOK, PromptRecords
  <2> QED  BY <1>1, <2>1, SameRecords
<1>6. ASSUME NEW p \in Prompts, Fails(p) PROVE SessionsAreRecorded'
  <2>1. /\ row' = row /\ resolved' = resolved /\ prompt'[p].stage = "over"
        /\ \A q \in Prompts \ {p} : prompt'[q] = prompt[q]
    BY <1>1, <1>6 DEF Fails, viewVars, Over, TitleTypeOK, PromptRecords
  <2> QED  BY <1>1, <2>1, SameRecords
<1>7. ASSUME NEW p \in Prompts, EndsStopped(p) PROVE SessionsAreRecorded'
  <2>1. /\ resolved' = resolved /\ prompt'[p].stage = "over" /\ Running(p)
        /\ \A q \in Prompts \ {p} : prompt'[q] = prompt[q]
    BY <1>1, <1>7 DEF EndsStopped, Over, TitleTypeOK, PromptRecords
  <2>2. CASE row' = row
    BY <1>1, <2>1, <2>2, SameRecords
  <2>3. CASE Interrupted(p) /\ RecordInterruptedRun(p)
    <3>1. PICK s \in Sessions :
             /\ s \notin Prompts \ {p}
             /\ row' = [row EXCEPT ![s] = TitleToStore(prompt[p].title)]
             /\ TitleToStore(prompt[p].title) \in Titles
      BY <2>1, <2>3, RecordedAgain
    <3>2. \A q \in Sessions : q # s => row'[q] = row[q]
      BY <1>1, <3>1
    <3>3. row'[s] # None
      BY <1>1, <3>1, Names
    <3> QED  BY <1>1, <2>1, <3>1, <3>2, <3>3, Names DEF SessionsAreRecorded
  <2>4. row' = row \/ (Interrupted(p) /\ RecordInterruptedRun(p))
    BY <1>7 DEF EndsStopped, viewVars
  <2> QED  BY <2>2, <2>3, <2>4
<1>8. ASSUME NEW p \in Prompts, Stop(p) PROVE SessionsAreRecorded'
  <2>1. /\ row' = row /\ resolved' = resolved
        /\ \A q \in Prompts : prompt'[q].stage = prompt[q].stage
    BY <1>1, <1>8 DEF Stop, viewVars, TitleTypeOK
  <2> QED  BY <1>1, <2>1, SameRecords
<1>9. ASSUME NEW a \in Prompts, Finishes(a) PROVE SessionsAreRecorded'
  <2> DEFINE s == attempt[a].session
  <2>1. /\ resolved' = resolved /\ prompt' = prompt
        /\ \/ row' = row
           \/ /\ row[s] = attempt[a].expected
              /\ row' = [row EXCEPT ![s] = attempt[a].title]
    BY <1>9 DEF Finishes, Applies, runVars, viewVars
  <2>2. attempt[a].expected # None /\ attempt[a].title # None
    BY <1>1, AttemptTypes, Names
  <2>3. \A q \in Sessions : row[q] # None <=> row'[q] # None
    BY <1>1, <2>1, <2>2
  <2> QED  BY <1>1, <2>1, <2>3, SameRecords
<1>10. ASSUME NEW s \in Sessions, Rename(s) PROVE SessionsAreRecorded'
  <2>1. /\ resolved' = resolved /\ prompt' = prompt
        /\ row[s] # None /\ row' = [row EXCEPT ![s] = "manual"]
    BY <1>10 DEF Rename, runVars
  <2>2. \A q \in Sessions : row[q] # None <=> row'[q] # None
    BY <1>1, <2>1, Names
  <2> QED  BY <1>1, <2>1, <2>2, SameRecords
<1>11. CASE Shutdown
  <2>1. /\ row' = row /\ resolved' = resolved
        /\ \A q \in Prompts : prompt'[q].stage \in Early => prompt'[q].stage = prompt[q].stage
    BY <1>1, <1>11 DEF Shutdown, viewVars, TitleTypeOK, PromptRecords, Early
  <2> QED  BY <1>1, <2>1, SameRecords DEF Early
<1>12. CASE Crash
  <2>1. /\ row' = row
        /\ \A c \in Chats : resolved'[c] = None
        /\ \A q \in Prompts : prompt'[q].stage \in Early => prompt[q].stage = "new"
    BY <1>1, <1>12 DEF Crash, TitleTypeOK, PromptRecords, Early
  <2> QED  BY <1>1, <2>1 DEF SessionsAreRecorded, Early
<1>13. CASE UNCHANGED <<row, prompt, resolved>>
  BY <1>1, <1>13, SameRecords
<1> QED
  BY <1>2, <1>3, <1>4, <1>5, <1>6, <1>7, <1>8, <1>9, <1>10, <1>11, <1>12, <1>13
  DEF Next, RunStep, Generates, NewChat, Switch, vars, viewVars, runVars

-----------------------------------------------------------------------------
(* The titles.                                                             *)

LEMMA NextFirstTitles == TitleInv /\ [Next]_vars => FirstTitles'
<1> SUFFICES ASSUME TitleInv, [Next]_vars PROVE FirstTitles'
  OBVIOUS
<1> DEFINE ViewFirst == view.session = None => view.title \in {None, "image"}
           PromptsFirst == \A p \in Prompts : prompt[p].title \in {None, "image"}
           AttemptsFirst == \A p \in Prompts : attempt[p].expected \in {"pending", "image"}
<1>1. TitleTypeOK /\ AttemptsOK /\ ViewFirst /\ PromptsFirst /\ AttemptsFirst
  BY TypesInParts DEF TitleInv, FirstTitles
<1>2. ASSUME ViewFirst', PromptsFirst', AttemptsFirst' PROVE FirstTitles'
  BY <1>2 DEF FirstTitles
<1>3. ASSUME NEW p \in Prompts, NEW source \in Sources, NEW image \in BOOLEAN,
             NewPrompt(p, source, image)
      PROVE  FirstTitles'
  <2> DEFINE untitled == view.title = None /\ ~view.deferred
             now == [view EXCEPT !.deferred = @ \/ (untitled /\ ~image),
                                 !.title = IF untitled /\ image THEN "image" ELSE @]
  <2>1. /\ view' = now /\ view.session = None
        /\ prompt' = [prompt EXCEPT ![p] =
              [NoPrompt EXCEPT !.stage = "waiting", !.chat = view.chat, !.source = source,
                               !.title = now.title]]
        /\ \/ attempt' = attempt
           \/ attempt' = [attempt EXCEPT ![p] = [NoAttempt EXCEPT !.stage = "generating",
                            !.expected = IF now.title = None THEN "pending" ELSE now.title]]
    BY <1>3 DEF NewPrompt
  <2>2. now.title \in {None, "image"} /\ now.session = None
    BY <1>1, <2>1 DEF TitleTypeOK, ViewRecords
  <2> HIDE DEF now
  <2>3. ViewFirst'
    BY <2>1, <2>2
  <2>4. PromptsFirst'
    BY <1>1, <2>1, <2>2 DEF TitleTypeOK, NoPrompt
  <2>5. AttemptsFirst'
    BY <1>1, <2>1, <2>2 DEF TitleTypeOK, NoAttempt
  <2> QED  BY <1>2, <2>3, <2>4, <2>5
<1>4. ASSUME NEW p \in Prompts, RunStep(p) \/ Stop(p)
      PROVE  PromptsFirst' /\ AttemptsFirst'
  <2>1. \A q \in Prompts : prompt'[q].title = prompt[q].title
    <3>1. CASE Starts(p)
      BY <1>1, <3>1 DEF Starts, TitleTypeOK, PromptRecords
    <3>2. CASE SessionKnown(p)
      BY <1>1, <3>2 DEF SessionKnown, TitleTypeOK, PromptRecords
    <3>3. CASE Over(p)
      BY <1>1, <3>3 DEF Over, TitleTypeOK, PromptRecords
    <3>4. CASE Stop(p)
      BY <1>1, <3>4 DEF Stop, TitleTypeOK, PromptRecords
    <3> QED
      BY <1>4, <3>1, <3>2, <3>3, <3>4 DEF RunStep, Done, Fails, EndsStopped
  <2>2. AttemptsFirst'
    <3>1. CASE attempt' = attempt
      BY <1>1, <3>1
    <3>2. ASSUME NEW c \in Chats, NEW s \in Sessions, ResolveSession(c, s) PROVE AttemptsFirst'
      BY <1>1, <3>2, ResolveTypes
    <3>3. ASSUME NEW c \in Chats, Cancel(c) PROVE AttemptsFirst'
      BY <1>1, <3>3, CancelTypes DEF Cancel
    <3>4. CASE Starts(p) \/ Stop(p)
      BY <3>1, <3>4 DEF Starts, Stop, titleVars
    <3>5. ASSUME Running(p)
          PROVE  prompt[p].chat \in Chats
                 /\ resolved[prompt[p].chat] \in Sessions \cup {None}
      BY <1>1, <3>5, SessionOfRun DEF TitleTypeOK
    <3>6. CASE SessionKnown(p)
      BY <3>2, <3>5, <3>6, <1>1, PromptTypes, Names DEF SessionKnown, Running
    <3>7. CASE Done(p)
      <4>1. Running(p) /\ ResolveSession(prompt[p].chat, resolved[prompt[p].chat])
            /\ resolved[prompt[p].chat] \in Sessions
        BY <3>7, SessionOfRun DEF Done, Running
      <4> QED  BY <3>2, <3>5, <4>1
    <3>8. CASE Fails(p)
      BY <3>2, <3>3, <3>5, <3>8 DEF Fails
    <3>9. CASE EndsStopped(p)
      BY <3>2, <3>3, <3>5, <3>9, Names DEF EndsStopped
    <3> QED  BY <1>4, <3>4, <3>6, <3>7, <3>8, <3>9 DEF RunStep
  <2> QED  BY <1>1, <2>1, <2>2
<1>5. ASSUME NEW p \in Prompts, RunStep(p) \/ Stop(p)
      PROVE  ViewFirst'
  <2>1. CASE view' = view
    BY <1>1, <2>1
  <2>2. CASE SessionKnown(p)
    <3>1. (IF prompt[p].resume = None THEN p ELSE prompt[p].resume) # None
      BY Names
    <3>2. view' = view \/ view' = [view EXCEPT !.session = p]
      BY <2>2 DEF SessionKnown
    <3> QED  BY <1>1, <3>1, <3>2, Names DEF TitleTypeOK, ViewRecords
  <2>3. CASE \E next \in Chats : view' = Blank(next)
    BY <2>3 DEF Blank
  <2>4. CASE Running(p) /\ Interrupted(p) /\ RecordInterruptedRun(p)
    BY <2>4, RecordedAgain, Names DEF Showing
  <2>5. view' = view \/ SessionKnown(p) \/ EndsStopped(p)
    BY <1>5 DEF RunStep, Starts, Done, Fails, Stop, viewVars
  <2>6. EndsStopped(p) =>
           \/ view' = view
           \/ \E next \in Chats : view' = Blank(next)
           \/ Running(p) /\ Interrupted(p) /\ RecordInterruptedRun(p)
    BY DEF EndsStopped, viewVars
  <2> QED  BY <2>1, <2>2, <2>3, <2>4, <2>5, <2>6
<1>6. ASSUME NEW a \in Prompts, Generates(a) \/ Finishes(a) PROVE FirstTitles'
  <2>1. PromptsFirst'
    BY <1>1, <1>6 DEF Generates, Finishes, runVars
  <2>2. AttemptsFirst'
    BY <1>1, <1>6 DEF Generates, Finishes, TitleTypeOK, AttemptRecords
  <2>3. CASE view' = view
    BY <1>1, <1>2, <2>1, <2>2, <2>3
  <2>4. CASE view' # view
    <3>1. view'.session = view.session /\ view.session = attempt[a].session
          /\ attempt[a].session # None
      BY <1>1, <1>6, <2>4 DEF Generates, Finishes, Applies, viewVars, TitleTypeOK, ViewRecords
    <3> QED  BY <1>2, <2>1, <2>2, <3>1
  <2> QED  BY <2>3, <2>4
<1>7. ASSUME NEW c \in Chats, NewChat(c) PROVE FirstTitles'
  BY <1>1, <1>2, <1>7 DEF NewChat, Blank, runVars, titleVars
<1>8. ASSUME NEW s \in Sessions, Switch(s) \/ Rename(s) PROVE FirstTitles'
  <2>1. PromptsFirst' /\ AttemptsFirst'
    BY <1>1, <1>8 DEF Switch, Rename, runVars, titleVars
  <2>2. view' = view \/ view'.session = s
    <3>1. CASE Switch(s)
      BY <3>1 DEF Switch, Showing
    <3>2. CASE Rename(s)
      BY <1>1, <3>2 DEF Rename, TitleTypeOK, ViewRecords
    <3> QED  BY <1>8, <3>1, <3>2
  <2> QED  BY <1>1, <1>2, <2>1, <2>2, Names
<1>9. CASE Shutdown
  <2>1. PromptsFirst'
    BY <1>1, <1>9 DEF Shutdown, TitleTypeOK, PromptRecords
  <2>2. AttemptsFirst'
    BY <1>1, <1>9, CancelTypes DEF Shutdown
  <2> QED  BY <1>1, <1>2, <1>9, <2>1, <2>2 DEF Shutdown, viewVars
<1>10. CASE Crash
  <2>1. PromptsFirst'
    BY <1>1, <1>10 DEF Crash, TitleTypeOK, PromptRecords
  <2>2. AttemptsFirst'
    BY <1>1, <1>10 DEF Crash, TitleTypeOK, AttemptRecords
  <2>3. ViewFirst'
    BY <1>10, Names DEF Crash, Blank, Showing
  <2> QED  BY <1>2, <2>1, <2>2, <2>3
<1>11. CASE UNCHANGED vars
  BY <1>1, <1>2, <1>11 DEF vars, viewVars, runVars, titleVars
<1> QED
  BY <1>2, <1>3, <1>4, <1>5, <1>6, <1>7, <1>8, <1>9, <1>10, <1>11 DEF Next

LEMMA NextShown == TitleInv /\ [Next]_vars => ShownTitleIsStored'
<1> SUFFICES ASSUME TitleInv, [Next]_vars, view'.session # None
             PROVE  row'[view'.session] = IF view'.title = None THEN "pending" ELSE view'.title
  BY DEF ShownTitleIsStored
<1> DEFINE Shown == row'[view'.session] = IF view'.title = None THEN "pending" ELSE view'.title
<1>1. /\ TitleTypeOK /\ RunsKnowTheirSession /\ SessionsAreRecorded
      /\ row \in [Sessions -> Titles \cup {None}] /\ view \in ViewRecords
  BY DEF TitleInv, TitleTypeOK
<1>2. CASE view' = view /\ row' = row
  BY <1>2, ShownIsRecorded
<1>3. ASSUME NEW p \in Prompts, NEW source \in Sources, NEW image \in BOOLEAN,
             NewPrompt(p, source, image)
      PROVE  FALSE
  BY <1>1, <1>3 DEF NewPrompt, ViewRecords
<1>4. ASSUME NEW p \in Prompts, SessionKnown(p) PROVE Shown
  <2>1. Running(p) /\ prompt[p].stage = "running"
    BY <1>4 DEF SessionKnown, Running
  <2>2. CASE prompt[p].resume # None
    BY <1>2, <1>4, <2>2 DEF SessionKnown
  <2>3. CASE prompt[p].resume = None /\ Visible(p)
    <3>1. row' = [row EXCEPT ![p] = TitleToStore(prompt[p].title)]
          /\ view' = [view EXCEPT !.session = p]
      BY <1>4, <2>3 DEF SessionKnown
    <3>2. view.title = prompt[p].title
      BY <1>1, <2>1, <2>3 DEF RunsKnowTheirSession, Visible
    <3> QED  BY <1>1, <3>1, <3>2, Names DEF TitleToStore, ViewRecords
  <2>4. CASE prompt[p].resume = None /\ ~Visible(p)
    <3>1. row' = [row EXCEPT ![p] = TitleToStore(prompt[p].title)] /\ view' = view
      BY <1>4, <2>4 DEF SessionKnown
    <3>2. row[p] = None /\ view.session # p
      BY <1>1, <2>1, ShownIsRecorded, Names DEF SessionsAreRecorded
    <3> QED  BY <1>1, <3>1, <3>2, ShownIsRecorded
  <2> QED  BY <2>2, <2>3, <2>4
<1>5. ASSUME NEW p \in Prompts, Done(p) PROVE Shown
  BY <1>2, <1>5, TitleWhenDone DEF Done
<1>6. ASSUME NEW p \in Prompts, EndsStopped(p) PROVE Shown
  <2>1. CASE \E next \in Chats : view' = Blank(next)
    BY <2>1 DEF Blank
  <2>2. CASE Running(p) /\ Interrupted(p) /\ RecordInterruptedRun(p)
    <3>1. PICK s \in Sessions :
             /\ row' = [row EXCEPT ![s] = TitleToStore(prompt[p].title)]
             /\ view' = Showing(s, TitleToStore(prompt[p].title))
             /\ TitleToStore(prompt[p].title) \in Titles
      BY <2>2, RecordedAgain
    <3> QED  BY <1>1, <3>1, Names DEF Showing
  <2>3. \/ view' = view /\ row' = row
        \/ \E next \in Chats : view' = Blank(next)
        \/ Running(p) /\ Interrupted(p) /\ RecordInterruptedRun(p)
    BY <1>6 DEF EndsStopped, viewVars
  <2> QED  BY <1>2, <2>1, <2>2, <2>3
<1>7. ASSUME NEW a \in Prompts, Finishes(a) PROVE Shown
  <2> DEFINE s == attempt[a].session
  <2>1. CASE row' = row /\ view' = view
    BY <1>2, <2>1
  <2>2. CASE /\ s # None
             /\ row' = [row EXCEPT ![s] = attempt[a].title]
             /\ view' = IF view.session = s
                        THEN [view EXCEPT !.title = attempt[a].title, !.deferred = FALSE]
                        ELSE view
    BY <1>1, <2>2, ShownIsRecorded, AttemptTypes, Names DEF ViewRecords
  <2> QED  BY <1>7, <2>1, <2>2 DEF Finishes, Applies, viewVars
<1>8. ASSUME NEW s \in Sessions, Switch(s) PROVE Shown
  BY <1>8 DEF Switch, Showing
<1>9. ASSUME NEW s \in Sessions, Rename(s) PROVE Shown
  BY <1>1, <1>9, ShownIsRecorded, Names DEF Rename, ViewRecords
<1>10. ASSUME NEW c \in Chats, NewChat(c) PROVE Shown
  BY <1>10 DEF NewChat, Blank
<1>11. CASE Crash
  BY <1>11 DEF Crash, Blank, Showing
<1> QED
  BY <1>2, <1>3, <1>4, <1>5, <1>6, <1>7, <1>8, <1>9, <1>10, <1>11
  DEF Next, RunStep, Starts, Fails, Stop, Generates, Shutdown, vars, viewVars

-----------------------------------------------------------------------------
THEOREM SpecTitleInv == Spec => []TitleInv
<1>1. TitleInv /\ [Next]_vars => TitleInv'
  BY NextTitleTypes, NextLanes, NextKnown, NextRecorded, NextFirstTitles, NextShown DEF TitleInv
<1> QED  BY InitTitleInv, <1>1, PTL DEF Spec

(* The records of the model are what the actions leave.                    *)
THEOREM TitleTypes == Spec => []TitleTypeOK
<1>1. TitleInv => TitleTypeOK
  BY DEF TitleInv
<1> QED  BY <1>1, SpecTitleInv, PTL

(* What the screen calls a session is what the store calls it.             *)
THEOREM ShownTitlesAreStored == Spec => []ShownTitleIsStored
<1>1. TitleInv => ShownTitleIsStored
  BY DEF TitleInv
<1> QED  BY <1>1, SpecTitleInv, PTL

Sticks(s) ==
    row[s] \in Given /\ row'[s] # row[s] => row'[s] = "manual" \/ StopForgetsTitle(s)

LEMMA StepSticks ==
    ASSUME TitleInv, [Next]_vars, NEW s \in Sessions
    PROVE  Sticks(s)
<1> SUFFICES ASSUME row[s] \in Given, row'[s] # row[s]
             PROVE  row'[s] = "manual" \/ StopForgetsTitle(s)
  BY DEF Sticks
<1>1. /\ TitleTypeOK /\ SessionsAreRecorded /\ FirstTitles
      /\ row \in [Sessions -> Titles \cup {None}]
  BY DEF TitleInv, TitleTypeOK
<1>2. ASSUME NEW p \in Prompts, SessionKnown(p) PROVE FALSE
  <2>1. row[p] = None /\ (row' = row \/ row' = [row EXCEPT ![p] = TitleToStore(prompt[p].title)])
    BY <1>1, <1>2 DEF SessionKnown, SessionsAreRecorded
  <2>2. s # p
    BY <2>1, Names
  <2> QED  BY <1>1, <2>1, <2>2
<1>3. ASSUME NEW p \in Prompts, Done(p) PROVE FALSE
  BY <1>3, TitleWhenDone
<1>4. ASSUME NEW p \in Prompts, EndsStopped(p) PROVE StopForgetsTitle(s)
  <2>1. Running(p) /\ Interrupted(p) /\ RecordInterruptedRun(p)
    BY <1>4 DEF EndsStopped, viewVars
  <2>2. PICK t \in {p, prompt[p].chat} :
           row' = [row EXCEPT ![t] = TitleToStore(prompt[p].title)]
    BY <2>1, RecordedAgain
  <2>3. s = t
    BY <1>1, <2>2
  <2> QED  BY <1>4, <2>1, <2>2, <2>3 DEF StopForgetsTitle
<1>5. ASSUME NEW a \in Prompts, Finishes(a) PROVE FALSE
  <2>1. \/ row' = row
        \/ /\ row[attempt[a].session] = attempt[a].expected
           /\ row' = [row EXCEPT ![attempt[a].session] = attempt[a].title]
    BY <1>5 DEF Finishes, Applies, viewVars
  <2>2. attempt[a].expected \notin Given
    BY <1>1 DEF FirstTitles, Given
  <2> QED  BY <1>1, <2>1, <2>2
<1>6. ASSUME NEW t \in Sessions, Rename(t) PROVE row'[s] = "manual"
  BY <1>1, <1>6 DEF Rename
<1> QED
  BY <1>2, <1>3, <1>4, <1>5, <1>6
  DEF Next, RunStep, NewPrompt, Starts, Fails, Stop, Generates, NewChat, Switch, Shutdown,
      Crash, vars, viewVars

(* A title the user gave, or the model, is replaced by the user only.      *)
THEOREM TitlesStick == Spec => TitlesStickUnlessStopped
<1>1. TitleInv /\ [Next]_vars => [\A s \in Sessions : Sticks(s)]_vars
  BY StepSticks
<1> QED
  BY <1>1, SpecTitleInv, PTL DEF Spec, TitlesStickUnlessStopped, Sticks
=============================================================================
