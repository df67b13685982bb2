-------------------------- MODULE CodingTranscript --------------------------
(***************************************************************************)
(* What the browser shows of a coding session: the events of its           *)
(* conversation, from three sources.  The provider keeps a transcript on   *)
(* disk.  The daemon keeps the events of the turns it has run, numbers     *)
(* them and sends each to every page (coding/coding-session-event-hub.ts). *)
(* A page caches what it is sent; when the session is opened it may ask    *)
(* for all events, which the daemon puts together from the transcript and  *)
(* its own (coding/coding-session-event-stream.ts), and merges the answer  *)
(* with what it has by then (frontend/browser/coding/                      *)
(* coding-session-event-cache.ts).                                         *)
(*                                                                         *)
(* The transcript may be behind the live events or ahead of them, the      *)
(* answer to a request may come before events sent earlier, the page may   *)
(* be loaded or lose its connection at any time, and the daemon may be     *)
(* restarted between two turns, after which it numbers from one again.     *)
(* Some of what the daemon is told while a turn goes on is never written   *)
(* to the transcript: the tokens used so far, the output of a command as   *)
(* it comes.  The daemon keeps and sends these like all the others.        *)
(***************************************************************************)
EXTENDS EventMerge

CONSTANTS
    Prompts,  \* what the user may say
    Pieces,   \* the pieces of text a provider may answer with
    Tools     \* what else it may do

VARIABLES
    told,       \* the conversation
    busy,       \* a turn is under way at the provider
    written,    \* how much of the conversation the transcript covers
    hub,        \* the events of the daemon, an event's place is its number
    published,  \* how much of the conversation the hub has been given
    since,      \* how much the hub of an earlier daemon had been given
    sent,       \* how many of the hub's events the page has been sent, or has missed
    delivered,  \* how much of the conversation that is
    cache,      \* the page's events of the session
    cursor,     \* lastLiveSequence
    runStatus,  \* of the session, as the page knows it
    opened,     \* the page shows the session
    request,    \* its request for the events
    attended,   \* history: the page has missed nothing of a turn, and no answer
                \* has been ahead of the events it was sent, mistaken, or about
                \* more than the transcript may tell
    loaded      \* history: an answer has been merged into the cache

providerVars == <<told, busy, written>>
hubVars == <<hub, published, since>>
pageVars == <<sent, delivered>>
cacheVars == <<cache, cursor>>
panelVars == <<runStatus, opened, request>>
historyVars == <<attended, loaded>>
vars == <<providerVars, hubVars, pageVars, cacheVars, panelVars, historyVars>>

NoRequest == [stage |-> "none", upto |-> 0, rows |-> 0, events |-> <<>>]

Init ==
    /\ told = <<>> /\ busy = FALSE /\ written = 0
    /\ hub = <<>> /\ published = 0 /\ since = 0 /\ sent = 0 /\ delivered = 0
    /\ cache = <<>> /\ cursor = 0
    /\ runStatus = "idle" /\ opened = FALSE /\ request = NoRequest
    /\ attended = TRUE /\ loaded = FALSE

-----------------------------------------------------------------------------
(* The provider and the hub                                                *)

Said(type, text) == [type |-> type, text |-> text]

Numbered(said, n, source) ==
    [type |-> said.type, text |-> said.text, from |-> n, to |-> n, source |-> source]

Event(n, source) == Numbered(told[n], n, source)

(* recordEvent.  The prompt is recorded when its turn begins, and for a    *)
(* new session as soon as there is one.                                    *)
Prompt(text) ==
    LET begun == (IF told = <<>> THEN <<Said("session_initialized", <<>>)>> ELSE <<>>)
                    \o <<Said("user_prompt", <<text>>)>>
    IN  /\ ~busy /\ published = Len(told)
        /\ busy' = TRUE
        /\ told' = told \o begun
        /\ hub' = hub \o [k \in DOMAIN begun |-> Numbered(begun[k], published + k, "hub")]
        /\ published' = Len(told')
        /\ UNCHANGED <<written, since, pageVars, cacheVars, panelVars, historyVars>>

Provider(e) ==
    /\ busy
    /\ told' = Append(told, e)
    /\ UNCHANGED <<written, hubVars, pageVars, cacheVars, panelVars, historyVars>>

Speak ==
    /\ \/ \E piece \in Pieces : Provider(Said("text", <<piece>>))
       \/ \E tool \in Tools : Provider(Said("tool", <<tool>>))
    /\ UNCHANGED busy

Finish ==
    /\ busy /\ Last(told).type = "text"
    /\ Provider(Said("done", <<>>))
    /\ busy' = FALSE

Publish ==
    /\ published < Len(told)
    /\ published' = published + 1
    /\ hub' = Append(hub, Event(published + 1, "hub"))
    /\ UNCHANGED <<providerVars, since, pageVars, cacheVars, panelVars, historyVars>>

BetweenTurns(n) == n = 0 \/ told[n].type = "done"

(* What the transcript never tells: the tokens used or an image, which the *)
(* page leaves out, and the output of a command, which it shows.  Such an  *)
(* event stands for nothing of the conversation, and comes after a part.   *)
LiveOnly(e) == e.type \in {"usage", "output"}

Remark ==
    /\ ~BetweenTurns(published)
    /\ \E e \in {Said("usage", <<>>)} \cup {Said("output", <<tool>>) : tool \in Tools} :
          hub' = Append(hub, [Numbered(e, published, "hub") EXCEPT !.from = published + 1])
    /\ UNCHANGED <<providerVars, published, since, pageVars, cacheVars, panelVars, historyVars>>

(* A message is written when it is complete; with the last one of a turn   *)
(* the turn is over.                                                       *)
EndsRow(n) ==
    \/ told[n].type \in {"user_prompt", "tool", "done"}
    \/ told[n].type = "text" /\ n < Len(told) /\ told[n + 1].type = "tool"

WriteRow ==
    LET ends == {n \in (written + 1)..Len(told) : EndsRow(n)}
    IN  /\ ends # {}
        /\ written' = Min(ends)
        /\ UNCHANGED <<told, busy, hubVars, pageVars, cacheVars, panelVars, historyVars>>

-----------------------------------------------------------------------------
(* The answer to a request                                                 *)

(* normalizeCodexJsonlEvents                                               *)
WithRow(rows, n) ==
    CASE told[n].type = "session_initialized" -> rows
      [] told[n].type = "text" /\ Last(rows).type = "text" ->
           [rows EXCEPT ![Len(rows)].text = @ \o told[n].text, ![Len(rows)].to = n]
      [] OTHER -> Append(rows, Event(n, "transcript"))

Rows ==
    LET rows[n \in 0..written] == IF n = 0 THEN <<>> ELSE WithRow(rows[n - 1], n)
    IN  rows[written]

(* mergeHistoryAndLiveSnapshot                                             *)
MergedHistory(history, snapshot) ==
    LET suffix == SuffixCovered(history, snapshot)
        prefix == PrefixCovered(history, snapshot)
        older == SubSeq(history, 1, Len(history) - suffix)
    IN  IF snapshot = <<>> THEN history
        ELSE IF SettlesLatestTurn(snapshot) /\ (history = <<>> \/ suffix > 0)
        THEN older \o snapshot
        ELSE IF prefix > 0 THEN history \o From(snapshot, prefix + 1)
        ELSE older \o snapshot

(* hub.snapshot()                                                          *)
TakeSnapshot ==
    /\ request.stage = "asked"
    /\ request' = [request EXCEPT !.stage = "reading", !.upto = published, !.events = hub]
    /\ UNCHANGED <<providerVars, hubVars, pageVars, cacheVars, runStatus, opened, historyVars>>

ReadTranscript ==
    /\ request.stage = "reading"
    /\ request' = [request EXCEPT !.stage = "answered", !.rows = written,
                                  !.events = MergedHistory(Rows, request.events)]
    /\ UNCHANGED <<providerVars, hubVars, pageVars, cacheVars, runStatus, opened, historyVars>>

-----------------------------------------------------------------------------
(* The page                                                                *)

(* The effect of ActiveSessionPanel: when the session is opened, or its    *)
(* runStatus has changed, what was asked before is ignored, and events are *)
(* asked for if the session is running or none are there.                  *)
Asked(events, status) ==
    IF events = <<>> \/ status = "running"
    THEN [NoRequest EXCEPT !.stage = "asked"] ELSE NoRequest

(* readCodingRunStatusFromEvent                                            *)
StatusAfter(e, status) ==
    CASE e.type \in {"session_initialized", "user_prompt"} -> "running"
      [] e.type = "done" -> "idle"
      [] OTHER -> status

Knows(status, events) ==
    /\ runStatus' = status
    /\ request' = IF opened /\ status # runStatus THEN Asked(events, status) ELSE request

(* shouldOmitFromCachedTranscript                                          *)
Omitted(e) == e.type = "usage"

(* coding_session_event: appendCodingSessionCachedEvent                    *)
Receive ==
    LET e == hub[sent + 1]
        isNew == sent + 1 > cursor
    IN  /\ sent < Len(hub)
        /\ sent' = sent + 1
        /\ delivered' = e.to
        /\ cache' = IF isNew /\ ~Omitted(e) THEN Append(cache, e) ELSE cache
        /\ cursor' = IF isNew THEN sent + 1 ELSE cursor
        /\ Knows(StatusAfter(e, runStatus), cache')
        /\ UNCHANGED <<opened, providerVars, hubVars, historyVars>>

Open ==
    /\ ~opened /\ told # <<>>
    /\ opened' = TRUE
    /\ request' = Asked(cache, runStatus)
    /\ UNCHANGED <<runStatus, cacheVars, providerVars, hubVars, pageVars, historyVars>>

Close ==
    /\ opened
    /\ opened' = FALSE
    /\ request' = NoRequest
    /\ UNCHANGED <<runStatus, cacheVars, providerVars, hubVars, pageVars, historyVars>>

(* JSON.stringify of an event: a row has its own timestamp, a turn's end   *)
(* its own duration.                                                       *)
Json(e) ==
    IF e.source = "transcript" \/ e.type = "done" THEN e
    ELSE [e EXCEPT !.from = 0, !.to = 0]

WithEvent(merged, e) ==
    IF \E i \in DOMAIN merged : Json(merged[i]) = Json(e) THEN merged ELSE Append(merged, e)

(* What is kept of an answer (appendCodingSessionEventBatch).              *)
Kept(events) ==
    LET kept[n \in 0..Len(events)] ==
            IF n = 0 THEN <<>>
            ELSE IF Omitted(events[n]) THEN kept[n - 1] ELSE Append(kept[n - 1], events[n])
    IN  kept[Len(events)]

(* Mutant of Hydrated: what the answer covers is not left out. *)
HydratedWithoutPrefix(events, current) ==
    LET kept == Kept(events)
        merged[n \in 0..Len(current)] ==
            IF n = 0 THEN kept ELSE WithEvent(merged[n - 1], current[n])
    IN  merged[Len(current)]

(* mergeCodingSessionHydration                                             *)
Hydrated(events, current) ==
    LET kept == Kept(events)
        rest == From(current, PrefixCovered(kept, current) + 1)
        merged[n \in 0..Len(rest)] ==
            IF n = 0 THEN kept ELSE WithEvent(merged[n - 1], rest[n])
    IN  merged[Len(rest)]

(* What SuffixCovered takes for the end of a turn of the snapshot is the   *)
(* end of another one: the transcript stops where the daemon before this   *)
(* one did, or goes on after the snapshot's last turn by whole turns.      *)
Mistaken(answer) ==
    LET dones == {n \in 1..Len(told) : told[n].type = "done"}
    IN  /\ answer.rows \in dones
        /\ (since + 1)..answer.upto \cap dones # {}
        /\ \/ answer.rows = since
           \/ answer.upto < answer.rows /\ answer.upto \in dones

(* Both accounts may have all of it.                                       *)
Comparable(events) == \A i \in DOMAIN events : ~LiveOnly(events[i])

Lands ==
    /\ request.stage = "answered"
    /\ cache' = Hydrated(request.events, cache)
    /\ request' = NoRequest
    /\ attended' = (/\ attended /\ ~Mistaken(request)
                    /\ Comparable(request.events) /\ Comparable(cache)
                    /\ request.rows <= delivered /\ request.upto <= delivered)
    /\ loaded' = TRUE
    /\ UNCHANGED <<cursor, runStatus, opened, providerVars, hubVars, pageVars>>

RequestFails ==
    /\ request # NoRequest
    /\ request' = NoRequest
    /\ UNCHANGED <<runStatus, opened, cacheVars, providerVars, hubVars, pageVars, historyVars>>

(* The page is loaded, again.                                              *)
LoadPage ==
    /\ cache' = <<>> /\ cursor' = 0
    /\ runStatus' = "idle" /\ opened' = FALSE /\ request' = NoRequest
    /\ sent' = Len(hub) /\ delivered' = published
    /\ attended' = BetweenTurns(published)
    /\ loaded' = FALSE
    /\ UNCHANGED <<providerVars, hubVars>>

(* Other sessions take the place of this one in the cache.                 *)
Evict ==
    /\ cache # <<>> /\ ~opened
    /\ cache' = <<>> /\ cursor' = 0
    /\ attended' = BetweenTurns(delivered)
    /\ loaded' = FALSE
    /\ UNCHANGED <<panelVars, providerVars, hubVars, pageVars>>

(* The page comes into view, or is loaded: it asks for the session's       *)
(* status, and the answer may be an older one.                             *)
RefreshStatus ==
    \E status \in {"idle", "running"} :
        /\ status # runStatus
        /\ \E n \in 1..published : StatusAfter(told[n], "none") = status
        /\ Knows(status, cache)
        /\ UNCHANGED <<opened, providerVars, hubVars, pageVars, cacheVars, historyVars>>

(* The connection is lost and made again: the events between are missed.   *)
Reconnect ==
    /\ sent < Len(hub)
    /\ sent' = Len(hub) /\ delivered' = published
    /\ attended' = FALSE
    /\ UNCHANGED <<panelVars, loaded, cacheVars, providerVars, hubVars>>

(* The daemon is restarted, between turns and with the transcript written. *)
Restart ==
    /\ ~busy /\ published = Len(told) /\ written = Len(told) /\ since < published
    /\ hub' = <<>> /\ since' = published
    /\ sent' = 0 /\ delivered' = published
    /\ attended' = (attended /\ sent = Len(hub) /\ cursor = 0)
    /\ request' = NoRequest
    /\ UNCHANGED <<published, loaded, runStatus, opened, cacheVars, providerVars>>

Next ==
    \/ \E text \in Prompts : Prompt(text)
    \/ Speak \/ Finish \/ WriteRow \/ Publish \/ Remark
    \/ TakeSnapshot \/ ReadTranscript
    \/ Receive \/ Open \/ Close \/ Lands \/ RequestFails
    \/ LoadPage \/ Evict \/ RefreshStatus \/ Reconnect \/ Restart

Spec == Init /\ [][Next]_vars

(***************************************************************************)
(* What may go wrong, and what the code leaves out of account              *)
(***************************************************************************)

(* Texts are what events are told apart by.                                *)
NothingRepeated ==
    \A i, j \in DOMAIN told : i # j /\ told[i].type # "done" => told[i] # told[j]

(* What an event says is what the conversation says there: one piece, or   *)
(* the texts of a message.                                                 *)
StandsFor(e) ==
    /\ e.from \in 1..e.to /\ e.to <= Len(told)
    /\ \A n \in e.from..e.to : told[n].type = e.type
    /\ IF e.type = "text"
       THEN e.text = [k \in 1..(e.to - e.from + 1) |-> told[e.from + k - 1].text[1]]
       ELSE e.from = e.to /\ e.text = told[e.from].text

(* What the conversation does not have is between two parts of it.         *)
StandsAside(e) == LiveOnly(e) /\ e.to \in DOMAIN told /\ e.from = e.to + 1

(* The events say all of the conversation from i to j, each piece once and *)
(* in order.                                                               *)
Tells(events, i, j) ==
    LET end(k) == IF k = 0 THEN i - 1 ELSE events[k].to
    IN  /\ \A k \in DOMAIN events :
              /\ StandsFor(events[k]) \/ StandsAside(events[k])
              /\ events[k].from = end(k - 1) + 1
        /\ end(Len(events)) = j

(* The page shows all of a part of the conversation that goes up to the    *)
(* last event it was sent, each piece once and in order, and the whole of  *)
(* it once an answer has come (rows do not tell of its beginning); however *)
(* the transcript, the answer and the live events overlap.  `attended'     *)
(* names what the code does not make up for: events missed in the middle   *)
(* of a turn or while the connection was down, an answer that overtakes    *)
(* events on their way or in which one turn's end is taken for another's,  *)
(* events of a new daemon whose numbers a page that stayed has seen, and   *)
(* an answer that is merged while the hub or the page has a live event of  *)
(* which there is no row: tokens or output in the middle of a turn keep    *)
(* that turn from being recognized, and it may be shown twice.             *)
PageIsFaithful ==
    attended /\ NothingRepeated =>
        IF loaded THEN \E i \in {1, 2} : Tells(cache, i, delivered)
                  ELSE \E i \in 1..(delivered + 1) : Tells(cache, i, delivered)
=============================================================================
