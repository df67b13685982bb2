------------------------------ MODULE AutoTitle ------------------------------
(***************************************************************************)
(* The titles of chats: AutoTitleCoordinator (application/auto-title.ts),  *)
(* the calls the execution coordinator makes to it, and what the session   *)
(* service and the visible conversation make of a title meanwhile.         *)
(*                                                                         *)
(* The first prompt of a blank chat starts an attempt: a model is asked    *)
(* for a title while the prompt runs, and the session of the chat, once it *)
(* is known, is recorded under a pending title that the generated one is   *)
(* to replace.  The attempt is filed under the chat (its oc session id),   *)
(* waits for both the title and the session, and writes the title only if  *)
(* the session still has the one it was recorded under.                    *)
(***************************************************************************)
EXTENDS Naturals, Sequences

CONSTANTS
    Prompts,  \* prompts there can ever be; also the sessions they begin
    Chats,    \* blank conversations: generations, each with its oc session id
    None

(* What a session may be called: after its first prompt, which is just an  *)
(* image; "New conversation"; by the model; after its first prompt if the  *)
(* model fails; by the user.                                               *)
Titles == {"image", "pending", "auto", "fallback", "manual"}
Given == {"auto", "fallback", "manual"}

ASSUME TitleAssumption ==
    /\ Prompts \cap Chats = {}
    /\ None \notin Prompts \cup Chats /\ None \notin Titles

VARIABLES
    view,      \* the visible conversation
    row,       \* titles of the sessions in the store
    attempted, \* sessions with auto_title_attempted = 1
    prompt,
    lane,      \* prompts in the lane of each chat, the running one in front
    resolved,  \* the lane's session
    attempt,   \* attempts, named for the prompt that started them
    pending,   \* the coordinator's pending attempt of each chat
    started,   \* chats
    stopping,
    troubled,  \* history: chats with a prompt that failed, or was stopped,
               \* before it was done
    cutOff     \* history: sessions the end of the daemon left untitled

viewVars == <<view, row, attempted>>
runVars == <<prompt, lane, resolved>>
titleVars == <<attempt, pending, started>>
historyVars == <<stopping, troubled, cutOff>>
vars == <<viewVars, runVars, titleVars, historyVars>>

(* A run stopped before its session was known is recorded under the id of  *)
(* its chat.                                                               *)
Sessions == Prompts \cup Chats

Sources == {"browser", "tui"}

(* deferred: there is a fallback title but no title yet.                   *)
ViewRecords ==
    [chat : Chats \cup {None}, session : Sessions \cup {None},
     title : Titles \cup {None}, deferred : BOOLEAN]
Blank(c) == [chat |-> c, session |-> None, title |-> None, deferred |-> FALSE]
Showing(s, title) == [chat |-> None, session |-> s, title |-> title, deferred |-> FALSE]

(* A prompt and the context captured for it.                               *)
PromptRecords ==
    [stage : {"new", "waiting", "running", "known", "over"},
     chat : Chats \cup {None}, source : Sources,
     title : Titles \cup {None}, resume : Sessions \cup {None}, stopped : BOOLEAN]
NoPrompt == [stage |-> "new", chat |-> None, source |-> "tui", title |-> None,
             resume |-> None, stopped |-> FALSE]

(* session: what its deferred is resolved to, once it is.                  *)
AttemptRecords ==
    [stage : {"none", "generating", "generated", "over"}, expected : Titles,
     title : {"auto", "fallback"}, session : Sessions \cup {None}, settled : BOOLEAN,
     cancelled : BOOLEAN]
NoAttempt == [stage |-> "none", expected |-> "pending", title |-> "fallback",
              session |-> None, settled |-> FALSE, cancelled |-> FALSE]

Running(p) == prompt[p].stage \in {"running", "known"}
Used(c) == view.chat = c \/ \E p \in Prompts : prompt[p].chat = c

Init ==
    /\ \E c \in Chats : view = Blank(c)
    /\ row = [s \in Sessions |-> None]
    /\ attempted = {}
    /\ prompt = [p \in Prompts |-> NoPrompt]
    /\ lane = [c \in Chats |-> <<>>]
    /\ resolved = [c \in Chats |-> None]
    /\ attempt = [p \in Prompts |-> NoAttempt]
    /\ pending = [c \in Chats |-> None]
    /\ started = {}
    /\ stopping = FALSE
    /\ troubled = {}
    /\ cutOff = {}

-----------------------------------------------------------------------------
(* The attempt                                                             *)

(* resolveSession: only the first call counts.                             *)
ResolveSession(c, s) ==
    /\ attempt' = [p \in Prompts |->
                     IF pending[c] = p /\ ~attempt[p].settled
                     THEN [attempt[p] EXCEPT !.session = s, !.settled = TRUE]
                     ELSE attempt[p]]
    /\ started' = started \ {c}
    /\ UNCHANGED pending

CancelledAttempts(C) ==
    [p \in Prompts |->
       IF \E c \in C : pending[c] = p
       THEN [attempt[p] EXCEPT !.cancelled = TRUE, !.settled = TRUE]
       ELSE attempt[p]]

Cancel(c) ==
    /\ attempt' = CancelledAttempts({c})
    /\ started' = IF pending[c] = None THEN started ELSE started \ {c}
    /\ UNCHANGED pending

(* The model answers, fails, or is aborted.                                *)
Generates(a) ==
    /\ attempt[a].stage = "generating"
    /\ \E title \in {"auto", "fallback"} :
          /\ attempt[a].cancelled => title = "fallback"
          /\ attempt' = [attempt EXCEPT ![a].stage = "generated", ![a].title = title]
    /\ UNCHANGED <<viewVars, runVars, pending, started, historyVars>>

(* Mutants of Applies: the title is written whatever the session is called *)
(* by now; the one on screen is forgotten.                                 *)
AppliesAnyway(a, s) ==
    /\ row' = [row EXCEPT ![s] = IF @ = None THEN None ELSE attempt[a].title]
    /\ view' = IF view.session = s /\ row[s] # None
               THEN [view EXCEPT !.title = attempt[a].title, !.deferred = FALSE] ELSE view
    /\ attempted' = IF row[s] # None THEN attempted \cup {s} ELSE attempted
AppliesUnseen(a, s) ==
    LET renames == row[s] = attempt[a].expected /\ s \notin attempted
    IN  /\ row' = IF renames THEN [row EXCEPT ![s] = attempt[a].title] ELSE row
        /\ attempted' = IF row[s] # None THEN attempted \cup {s} ELSE attempted
        /\ UNCHANGED view

(* applyAutoTitle of the session service, and its statement in the store   *)
Applies(a, s) ==
    LET renames == row[s] = attempt[a].expected /\ s \notin attempted
    IN  /\ row' = IF renames THEN [row EXCEPT ![s] = attempt[a].title] ELSE row
        /\ view' = IF renames /\ view.session = s
                   THEN [view EXCEPT !.title = attempt[a].title, !.deferred = FALSE]
                   ELSE view
        /\ attempted' = IF row[s] # None THEN attempted \cup {s} ELSE attempted

(* Mutant of Finishes: without a generated title nothing is written. *)
FinishesWithTitle(a) ==
    LET s == attempt[a].session
    IN  /\ attempt[a].stage = "generated" /\ attempt[a].settled
        /\ IF attempt[a].cancelled \/ s = None \/ attempt[a].title = "fallback"
           THEN UNCHANGED viewVars ELSE Applies(a, s)
        /\ attempt' = [attempt EXCEPT ![a].stage = "over"]
        /\ pending' = [c \in Chats |-> IF pending[c] = a THEN None ELSE pending[c]]
        /\ UNCHANGED <<runVars, started, historyVars>>

Finishes(a) ==
    LET s == attempt[a].session
    IN  /\ attempt[a].stage = "generated" /\ attempt[a].settled
        /\ IF attempt[a].cancelled \/ s = None THEN UNCHANGED viewVars ELSE Applies(a, s)
        /\ attempt' = [attempt EXCEPT ![a].stage = "over"]
        /\ pending' = [c \in Chats |-> IF pending[c] = a THEN None ELSE pending[c]]
        /\ UNCHANGED <<runVars, started, historyVars>>

-----------------------------------------------------------------------------
(* Prompts                                                                 *)

(* enqueuePrompt in a blank chat.  A text defers the title, an image is    *)
(* the title; the first text starts an attempt.                            *)
NewPrompt(p, source, image) ==
    LET c == view.chat
        untitled == view.title = None /\ ~view.deferred
        now == [view EXCEPT !.deferred = @ \/ (untitled /\ ~image),
                            !.title = IF untitled /\ image THEN "image" ELSE @]
        starts == ~image /\ c \notin started
    IN  /\ ~stopping
        /\ prompt[p].stage = "new" /\ c # None /\ view.session = None
        /\ view' = now
        /\ prompt' = [prompt EXCEPT ![p] =
              [NoPrompt EXCEPT !.stage = "waiting", !.chat = c, !.source = source,
                               !.title = now.title]]
        /\ lane' = [lane EXCEPT ![c] = Append(@, p)]
        /\ attempt' = IF starts
                      THEN [attempt EXCEPT ![p] =
                              [NoAttempt EXCEPT !.stage = "generating",
                                 !.expected = IF now.title = None THEN "pending" ELSE now.title]]
                      ELSE attempt
        /\ pending' = IF starts THEN [pending EXCEPT ![c] = p] ELSE pending
        /\ started' = IF starts THEN started \cup {c} ELSE started
        /\ UNCHANGED <<row, attempted, resolved, historyVars>>

(* Mutant of TitleToStore: what there is to fall back on is not looked at. *)
TitleOrUntitled(title) == IF title = None THEN "Untitled" ELSE title

(* titleForPersistence                                                     *)
TitleToStore(title) == IF title = None THEN "pending" ELSE title

(* isLaneVisible.  A chat whose session is not known is the visible one    *)
(* only as long as its title has not changed since.                        *)
Visible(p) ==
    LET c == prompt[p].chat
    IN  IF resolved[c] # None
        THEN view.session = resolved[c]
        ELSE view.session = None /\ view.chat = c /\ view.title = prompt[p].title

Starts(p) ==
    LET c == prompt[p].chat
    IN  /\ prompt[p].stage = "waiting" /\ Head(lane[c]) = p
        /\ prompt' = [prompt EXCEPT ![p].stage = "running", ![p].resume = resolved[c]]
        /\ UNCHANGED <<viewVars, lane, resolved, titleVars, historyVars>>

(* session_initialized.  Of a prompt that resumes, nothing is recorded.    *)
SessionKnown(p) ==
    LET c == prompt[p].chat
        fresh == prompt[p].resume = None
        s == IF fresh THEN p ELSE prompt[p].resume
    IN  /\ prompt[p].stage = "running"
        /\ prompt' = [prompt EXCEPT ![p].stage = "known"]
        /\ row' = IF fresh THEN [row EXCEPT ![s] = TitleToStore(prompt[p].title)] ELSE row
        /\ view' = IF fresh /\ Visible(p) THEN [view EXCEPT !.session = s] ELSE view
        /\ resolved' = [resolved EXCEPT ![c] = s]
        /\ ResolveSession(c, s)
        /\ UNCHANGED <<attempted, lane, historyVars>>

(* The prompt leaves its lane.                                             *)
Over(p) ==
    /\ prompt' = [prompt EXCEPT ![p].stage = "over"]
    /\ lane' = [lane EXCEPT ![prompt[p].chat] = Tail(@)]

(* done: completeRun and persistActiveSession, or, out of sight,           *)
(* recordBackgroundCompletion                                              *)
Done(p) ==
    LET s == resolved[prompt[p].chat]
        title == IF ~Visible(p) THEN row[s]
                 ELSE IF view.title # None THEN view.title
                 ELSE IF view.deferred THEN "pending"
                 ELSE row[s]
    IN  /\ prompt[p].stage = "known"
        /\ row' = [row EXCEPT ![s] = title]
        /\ Over(p)
        /\ ResolveSession(prompt[p].chat, s)
        /\ UNCHANGED <<view, attempted, resolved, historyVars>>

Troubles(p) == troubled' = troubled \cup {prompt[p].chat}

Fails(p) ==
    LET c == prompt[p].chat
    IN  /\ Running(p) /\ ~prompt[p].stopped
        /\ Over(p)
        /\ IF resolved[c] # None THEN ResolveSession(c, resolved[c]) ELSE Cancel(c)
        /\ Troubles(p)
        /\ UNCHANGED <<viewVars, resolved, stopping, cutOff>>

(* /stop: the visible run                                                  *)
Stop(p) ==
    /\ Running(p) /\ Visible(p) /\ ~prompt[p].stopped
    /\ prompt' = [prompt EXCEPT ![p].stopped = TRUE]
    /\ Troubles(p)
    /\ UNCHANGED <<viewVars, lane, resolved, titleVars, stopping, cutOff>>

(* The end of a stopped run: a browser's blank chat is left for a new one; *)
(* another is recorded as interrupted, under the title of its context.     *)
Leaves(p) == prompt[p].resume = None /\ prompt[p].source = "browser" /\ view.session = None
Interrupted(p) == ~Leaves(p) /\ prompt[p].resume = None /\ Visible(p)

RecordInterruptedRun(p) ==
    LET s == IF view.session # None THEN view.session ELSE prompt[p].chat
        title == TitleToStore(prompt[p].title)
    IN  /\ row' = [row EXCEPT ![s] = title]
        /\ view' = Showing(s, title)
        /\ UNCHANGED attempted

EndsStopped(p) ==
    LET c == prompt[p].chat
    IN  /\ Running(p) /\ prompt[p].stopped
        /\ CASE Leaves(p) -> /\ \E next \in Chats : ~Used(next) /\ view' = Blank(next)
                             /\ UNCHANGED <<row, attempted>>
             [] Interrupted(p) -> RecordInterruptedRun(p)
             [] OTHER -> UNCHANGED viewVars
        /\ Over(p)
        /\ CASE resolved[c] # None -> ResolveSession(c, resolved[c])
             [] prompt[p].source = "browser" -> Cancel(c)
             [] OTHER -> ResolveSession(c, c)
        /\ UNCHANGED <<resolved, historyVars>>

-----------------------------------------------------------------------------
(* The user                                                                *)

NewChat(c) ==
    /\ ~Used(c)
    /\ view' = Blank(c)
    /\ UNCHANGED <<row, attempted, runVars, titleVars, historyVars>>

Switch(s) ==
    /\ row[s] # None /\ view.session # s
    /\ view' = Showing(s, row[s])
    /\ UNCHANGED <<row, attempted, runVars, titleVars, historyVars>>

Rename(s) ==
    /\ row[s] # None
    /\ row' = [row EXCEPT ![s] = "manual"]
    /\ view' = IF view.session = s
               THEN [view EXCEPT !.title = "manual", !.deferred = FALSE] ELSE view
    /\ UNCHANGED <<attempted, runVars, titleVars, historyVars>>

(* beginShutdown: cancelAll, runs are aborted, what waits is discarded.    *)
Shutdown ==
    /\ ~stopping
    /\ stopping' = TRUE
    /\ attempt' = CancelledAttempts(Chats)
    /\ started' = {}
    /\ prompt' = [p \in Prompts |->
                    IF Running(p) THEN [prompt[p] EXCEPT !.stopped = TRUE]
                    ELSE IF prompt[p].stage = "waiting" THEN [prompt[p] EXCEPT !.stage = "over"]
                    ELSE prompt[p]]
    /\ lane' = [c \in Chats |->
                 IF lane[c] # <<>> /\ Running(Head(lane[c])) THEN <<Head(lane[c])>> ELSE <<>>]
    /\ troubled' = troubled \cup {prompt[p].chat : p \in {q \in Prompts : Running(q)}}
    /\ cutOff' = cutOff \cup {s \in Sessions : row[s] = "pending"}
    /\ UNCHANGED <<viewVars, resolved, pending>>

(* The daemon dies and starts again, with a session of the store on screen *)
(* or with a blank chat.                                                   *)
Crash ==
    /\ \/ \E c \in Chats : ~Used(c) /\ view' = Blank(c)
       \/ \E s \in Sessions : row[s] # None /\ view' = Showing(s, row[s])
    /\ prompt' = [p \in Prompts |->
                    IF prompt[p].stage = "new" THEN prompt[p] ELSE [prompt[p] EXCEPT !.stage = "over"]]
    /\ lane' = [c \in Chats |-> <<>>]
    /\ resolved' = [c \in Chats |-> None]
    /\ attempt' = [p \in Prompts |->
                     IF attempt[p].stage = "none" THEN attempt[p]
                     ELSE [attempt[p] EXCEPT !.stage = "over"]]
    /\ pending' = [c \in Chats |-> None]
    /\ started' = {}
    /\ stopping' = FALSE
    /\ cutOff' = cutOff \cup {s \in Sessions : row[s] = "pending"}
    /\ UNCHANGED <<row, attempted, troubled>>

RunStep(p) == Starts(p) \/ SessionKnown(p) \/ Done(p) \/ Fails(p) \/ EndsStopped(p)

Next ==
    \/ \E p \in Prompts, source \in Sources, image \in BOOLEAN : NewPrompt(p, source, image)
    \/ \E p \in Prompts : RunStep(p) \/ Stop(p)
    \/ \E a \in Prompts : Generates(a) \/ Finishes(a)
    \/ \E c \in Chats : NewChat(c)
    \/ \E s \in Sessions : Switch(s) \/ Rename(s)
    \/ Shutdown
    \/ Crash

Spec == Init /\ [][Next]_vars

(* The model's answer ends, and what is resolved goes on.                  *)
TitleFairness == \A a \in Prompts : WF_vars(Generates(a)) /\ WF_vars(Finishes(a))

FairSpec == Spec /\ TitleFairness

(***************************************************************************)
(* Properties                                                              *)
(***************************************************************************)
TitleTypeOK ==
    /\ view \in ViewRecords
    /\ row \in [Sessions -> Titles \cup {None}]
    /\ attempted \subseteq Sessions
    /\ prompt \in [Prompts -> PromptRecords]
    /\ lane \in [Chats -> Seq(Prompts)]
    /\ resolved \in [Chats -> Sessions \cup {None}]
    /\ attempt \in [Prompts -> AttemptRecords]
    /\ pending \in [Chats -> Prompts \cup {None}]
    /\ started \subseteq Chats
    /\ stopping \in BOOLEAN
    /\ troubled \subseteq Chats
    /\ cutOff \subseteq Sessions

(* The title on screen is the one the store has for the session, however   *)
(* titles, renames and completions follow each other.                      *)
ShownTitleIsStored ==
    view.session # None =>
        row[view.session] = IF view.title = None THEN "pending" ELSE view.title

(* "manual rename wins over a late auto-title result"                      *)
(* (runtime-controller.test.ts:1201), and a generated title stays, too.    *)
(* The exception is what the code does when the run that began a session   *)
(* is stopped: it records the session again under its first title.         *)
StopForgetsTitle(s) ==
    \E p \in Prompts :
        Running(p) /\ Interrupted(p) /\ EndsStopped(p) /\ s \in {p, prompt[p].chat}

TitlesStickUnlessStopped ==
    [][\A s \in Sessions :
         row[s] \in Given /\ row'[s] # row[s] => row'[s] = "manual" \/ StopForgetsTitle(s)]_vars

(* A session does not keep the pending title, be it on screen or not, and  *)
(* whichever prompt of its chat began it.  Three things can leave it so:   *)
(* the end of the daemon, and a prompt of the chat that fails or is        *)
(* stopped, with which the attempt may be lost to those that wait.         *)
ChatOf(s) == IF s \in Chats THEN s ELSE prompt[s].chat

TitlesArrive ==
    \A s \in Sessions :
        row[s] = "pending" ~> (row[s] # "pending" \/ s \in cutOff \/ ChatOf(s) \in troubled)
=============================================================================
