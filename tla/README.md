# A TLA+ verification of outclaw

outclaw keeps one long-running daemon per machine. Each *agent* of the daemon
has a runtime that accepts prompts from a terminal, a browser, Telegram, other
agents and its own timers, runs them one conversation at a time against a model
provider, and keeps track of which conversation the user is looking at, in
memory and in a SQLite store that survives the daemon.

Paths below are relative to the repository; `application/...` stands for
`src/runtime/application/...`.

## 1. Inventory

| Component | State | Operations | Talks to |
| --- | --- | --- | --- |
| Message queue (`application/gateway/message-queue.ts`) | waiting tasks, processing flag, closed flag, drain resolvers | enqueue, process, close, drain | owned by each lane |
| Execution coordinator (`application/runtime-execution-coordinator.ts`) | lanes (key, resolved session, queue, active run), shutdown and rollover flags | enqueue prompt / agent prompt / heartbeat / rollover, abort, shutdown, drain | queue, dispatcher, session service, heartbeat policy, auto title |
| Prompt dispatcher (`application/prompt-execution/prompt-dispatcher.ts`) | one run: completed event, heartbeat buffer | run | provider facade, session service, clients |
| Runtime state (`application/state`) | visible provider, session, pending id, generation, titles, model | clear, switch, initialize, complete, capture context | everyone in the runtime |
| Session service (`application/session-service.ts`) | none of its own: it writes runtime state and store together | clear, delete, switch, record ..., rollover, restore | state, store, rollover timer |
| Session store (`persistence/session-store`) | sessions, active session per provider, active provider, blank selection, rollover marks | upsert, delete, rename, queries | SQLite |
| Control plane and commands (`application/runtime-control-plane.ts`, `commands`) | none | /stop, /new, /session, model choice, /restart | coordinator, session service |
| Heartbeat (`heartbeat/scheduler.ts`, `heartbeat/runtime-policy.ts`) | interval timer, defer timer, pending flag, last user activity | tick, fireDeferred, noteUserActivity | coordinator |
| Rollover (`rollover/scheduler.ts`) | one timer | noteStateChanged, attempt | coordinator, store |
| Auto title (`application/auto-title.ts`) | attempts by pending id | start, resolve, cancel, drain | provider, session service |
| Cron (`cron`) | jobs, timers, running jobs | tick, start job | provider, broadcaster |
| Coding catalog (`coding/coding-session-store.ts`, `coding-repository-store.ts`, requests of `browser/create-browser-api.ts`, `coding/create-coding-service.ts`) | repositories and sessions, each open, archived, in the trash or deleted; the provider's own record of them | register, archive, trash, restore, delete, purge, reconcile, resume | SQLite, provider |
| Coding runtime (`coding/coding-runtime.ts`) | active turns, cancelled turns, run status, its own coordinator | start, resume, steer, cancel, shut down | coordinator (detached lanes), catalog, event hub |
| Coding session events (`coding/coding-session-event-hub.ts`, `coding-session-event-stream.ts`, `src/common/coding-session-event-merge.ts`, `src/frontend/browser/coding/coding-session-event-cache.ts`) | the daemon's events of each session, numbered; each page's events and its place among the numbers | append, snapshot, merge with the transcript, merge with the page's events, evict | transcript of the provider, web sockets |
| Codex client (`backend/adapters/codex`) | pending requests, one notification queue per run, active turns, process | run, steer, stop, request, read a line, exit | child process |
| Telegram bridge (`frontend/telegram`) | pending prompt | prompt, settle | runtime socket |
| Gateway, streaming state (`application/gateway`, `prompt-execution/streaming-state-store.ts`) | clients, partial answers | send, replay | web sockets |
| Supervisor, browser services, memory index, configuration, native tools, front ends | routing tables, caches, views | | |

### How the parts of the runtime interact

A prompt is *bound* when it is accepted: `capturePromptContext` copies the
visible conversation (provider, session, pending id, generation), and
`getOrCreateLane` picks the lane of that conversation. It *runs* when the lane's
queue gets to it, perhaps much later. While it runs, the dispatcher asks at each
event whether its conversation is still the visible one, and writes through the
session service accordingly. Meanwhile the user can send more prompts, stop the
visible run, start a blank chat, switch, delete, or shut the daemon down; the
heartbeat and rollover timers add tasks of their own; and the daemon can die
between any two events and restart from the store.

There is one JavaScript thread. What interleaves is what happens between two
`await`s; the continuation of a settled promise is a microtask and runs before
any message, timer or provider event.

### What is hard

* *Two names for one conversation.* A blank conversation is known by its
  generation until the provider reports a session; lanes, contexts and
  visibility all change names at that moment.
* *Stale captures.* What was visible when a task was queued is not what is
  visible when it runs or ends.
* *Two copies of the view*, in memory and on disk, written by seven methods.
* *Flags raised when a task is queued and lowered when it ends*, with early
  returns in between.
* *Restart*: three places in the store say which conversation to show.
* *Shutdown* while runs go on reporting.

`PROJECT.json` lists every hazard at its line.

### What makes each component correct

* Queue: tasks start in order, one at a time, at most once; only `close(true)`
  loses one; `drain()` answers, and only at rest.
* Coordinator: one thread of turns per conversation; background runs neither
  surface nor hide a conversation; flags are exact; nothing starts after
  shutdown; no lane is left with work.
* Session service: the store names the conversation on screen; a blank chat can
  be written to; the rollover notice is current; a restart shows what was shown.
* Heartbeats: exactly one timer is armed; heartbeats go on; none bothers a user
  who is there; clients are shown the time of the timer.
* Rollovers: none is forgotten; none takes a session from a user who is there.
* Auto title: the title on screen is the stored one; what the user wrote stays;
  no session keeps the pending title.
* Coding catalog: what was put away stays away; a cascade that was not cut short
  can be undone; store and provider come to agree.
* Coding turns: a session says it is running exactly while one turn of it is; a
  cancellation is not overwritten; shutdown reaches every turn.
* Codex client: a run ends as its own turn did; one that is stopped ends.
* Coding session events: a page shows a conversation once, in order, without gaps.

## 2. Plan

1. `SerialExecutor`, `MessageQueue`: the queue and its abstract specification.
   *Done, with proofs.*
2. `SessionService`: the visible conversation, the store and restarts. *Done,
   with proofs.*
3. `ExecutionCoordinator` (extends `SessionService`): lanes, runs, commands,
   crashes; shown to implement `SessionService`. *Done, with proofs, the
   refinement included.*
4. `HeartbeatScheduler`, `RolloverScheduler` (extends `ExecutionCoordinator`):
   timers against user activity and state changes. *Done, with proofs.*
5. `AutoTitle`: attempts, renames by hand, interrupts, shutdown. *Done, with proofs.*
6. `CodingCatalog`, and `CodingTurns` on top of it: lifecycles, reconciliation,
   turns in detached lanes. *Done, with proofs, the refinement included.*
7. `CodexClient`: requests, notifications, process death. *Done, with proofs.*
8. `EventMerge`, `CodingTranscript`: one conversation from three accounts. *Done,
   with proofs.*
9. Left: streams that follow a coding session; `CronScheduler`; `TelegramBridge`.

## 3. Modules

**`SerialExecutor`** is what whoever hands over a task may rely on: accepted
tasks form a log, they start in its order, one at a time.

**`MessageQueue`** is `message-queue.ts`. `current` is the task `process()`
awaits; `processing` stays up between the moment it settles (`Settle`) and the
next turn of the loop (`Continue`, `Finish`). `EnqueueIdle` and `EnqueueBusy` are
the two outcomes of `enqueue()`, which runs `process()` up to its first await.
`Close(discardPending)` and `Drain` are the methods. `ImplementsExecutor` maps
the log to `started \o queue`.

**`SessionService`** has one operator per method of `session-service.ts` and of
the runtime state it writes. The in-memory half is `providerId`, `sessionId`,
`ocSessionId` and `generation`; the store's half is `rows`, `activeSession` (per
provider), `activeProvider` and `blank`. Ids are numbers given out once, 0 is
"undefined". `Restart` is the constructor of a new process: `RestoredProviders`
gives the outcomes of `resolvePersistedActiveProviderId`. `SessionNext` lets
callers invoke the methods in every order they could. Providers other than
`Writable` are kept for their history; their sessions (`LegacySessions`) can be
shown, not continued.

**`ExecutionCoordinator`** extends it with `lanes`, a sequence in the insertion
order of the `Map`, each with its key, resolved session, queue and run. A lane's
`stage` is where its `process()` is: `idle`; `start` or `next`, about to look at
the queue; `running`, awaiting the provider; `reported`, inside the
`session_initialized` event, with the session on screen and the lane not told
yet; `settling`, awaiting the transcript snapshot or the delivery of a
heartbeat. `Quiet` says that no lane has a microtask to run or an event to
finish: every outside event waits for it. What happens earlier is the rollover
check made by callbacks, so `EnqueueRollover` may come while a lane is in stage
`next` (`onStatusChange` at the end of a run) or `reported`
(`onSessionStateChange`). Of the latter, which the lane cannot recognise as its own,
the history field `early` of a task says that it is one.

| Action | Code |
| --- | --- |
| `EnqueuePrompt`, `EnqueueAgentPrompt`, `EnqueueHeartbeat`, `EnqueueRollover` | the enqueue methods, from the check of the shutdown flag to the queue |
| `Turn` | one turn of `process()`: `RunPrompt`, `RunHeartbeat`, `RunRollover`, or the end of the loop |
| `SessionInitialized`, `Done`, `ErrorAfterDone` | the dispatcher's `emit` |
| `Resolve` | the rest of `session_initialized`: the lane's `onEvent` |
| `RunnerReturns`, `Settled` | the dispatcher after the provider's stream has ended, and the finally blocks |
| `Stop`, `ChangeView`, `Delete` | the control plane |
| `BeginShutdown`, `Crash` | `beginShutdown`; the death of the process and `restorePersistedState` |

What the provider may do is an assumption of the model: it reports its session
first, then perhaps `done`, then perhaps an error, and its stream may end at any
point, aborted or not; a new session is created under the id the runtime asks
for, as the only writable provider does.

**`RolloverScheduler`** extends `ExecutionCoordinator` with the state of
`rollover/scheduler.ts`: `timer` (`timerId` is set), `elapsed` (the clock has
passed `lastInteractiveAt + idleMinutes`) and `checking` (`noteStateChanged` is
about to call `attemptRollover`, which it does before anything else happens).
`noteStateChanged` is called by callbacks, not polled; so each action of the
coordinator is put together with the call it makes, or does not make, as wired
in `createAgentRuntime`: `UserPrompt`, `LaneTurn`, `SessionReported`, `RunOver`
and `Command` call it, `OtherWork` and `QuietEvent` do not. Where
`ExecutionCoordinator` allows a rollover whenever its conditions hold, here one
comes only from `Attempt`. `Work` is what users, agents and lanes do,
`Intervention` a command, a shutdown or a crash.

**`HeartbeatScheduler`** is `heartbeat/scheduler.ts` with
`heartbeat/runtime-policy.ts`. `tickIn` and `deferIn` are the time left on the
two timers, `deferred` and `nextIn` what clients are shown, `quietFor` the time
since the user's last prompt, and `beat` the heartbeat the coordinator has
accepted: its `stage` is `heartbeatPending`, its `age` the time since
`scheduledAt`. `Tick` and `FireDeferred` are the timers' callbacks with all they
call: `ShouldAttempt` is asked by the scheduler and again by `EnqueueHeartbeat`.
Times stop counting at the configured minutes, so that no bound is needed. The
queue in front of a heartbeat is left to `ExecutionCoordinator`: here it takes
any time.

**`CodingCatalog`** keeps the lifecycle of each coding session as the store has
it (`lifecycle`, `cascaded` for `cascaded_from_repo`, `repo`) and as the provider
has it (`thread`). A request (`call`) asks the provider first and writes the store
when the answer is there: `Send`, `Performed`, `MutationLands` are the halves of
`archiveCodingSession` and its like, `Listed` (twice) and `ReconcileLands` of
`reconcileCodingSessions`, and a resume goes on to bring back what is put away.
Requests about repositories (`RepositoryStep`) write the store at once, in two
commits: the repository's row, then its sessions. `ArchiveRepository` and its like
are both, `RepositoryCutShort` is the first without the second, because the daemon
died or the second failed; `strayed` remembers which repositories left the archive
without their sessions.
`CallFails` is a provider that refuses or is too late; `OtherClient` another
program that archives or unarchives a thread; `CatalogCrash` forgets the requests.

**`CodingTurns`** extends it with the turns of `coding-runtime.ts`: `runStatus` in
the store, `activeTurns` and `cancelledTurns` in memory, and the coordinator's map
of detached lanes (`mapped`). These are kept per session and not per turn, so
`Settles` (`consumeCancelledTurn`) may take the end of one turn for that of
another; `overlapped` and `cutOff` are history variables that name the sessions
this can happen to. `ResumeFromBrowser` follows a resume of the catalog,
`ResumeFromTool` has none; `Filed` and `LaneOver` are the two ends of
`createDetachedLane`.

**`CodexClient`** is `rpc-transport.ts`, `app-server-client.ts`, `index.ts` and the
control flow of `stream-normalizer.ts`: runs and steer calls of one process, the requests that
are `pending` at the client and `asked` of the server, the `lines` the server has
written, and each run's `queue` of notifications. Client actions are `Begin`,
`Ask`, `Stop`, `TakeTurn`, `AskToSteer`, the readers of a line (`Reads`), `Normalize`,
`TimesOut` and `Exit`. The server is outside the repository; its actions
(`Server`) are what the client's code is prepared for: it may answer in any order,
refuse, not answer, report the end of a turn before the answer that names it, or
steer a turn into a new one.

**`AutoTitle`** is `auto-title.ts` with everything that writes a title: `attempt` is
one `generate` call and the session it waits for, `pending` and `started` the
coordinator's maps, `prompt`, `lane` and `resolved` as much of the execution
coordinator as calls it, `view` and `row` the titles on screen and in the store.

**`EventMerge`** is `src/common/coding-session-event-merge.ts`: how much of one list of events another
one covers. A text is a sequence of pieces, so that a row of the transcript is what
several live events make together, and a prefix of it what some of them do.

**`CodingTranscript`** is one session as the provider tells it (`told`), with the
transcript (`written`), the hub (`published`) and the page (`delivered`) at different
points of it. `hub` is the list of events the daemon keeps, of which the page has been
sent the first `sent`. Besides the conversation (`Publish`) the hub is given what is
never written to the transcript: the tokens used so far, and the output of a command
as it comes (`Remark`). `Rows` is what the transcript makes of the conversation;
`TakeSnapshot` and `ReadTranscript` are the two halves of an answer,
`MergedHistory` the answer, and `Lands` its merge with the page's `cache`
(`Hydrated`), to which `Receive` has been adding live events all along; the page keeps
no usage (`Omitted`), but the hub's snapshot has it, and the merge compares it. A page asks
(`Asked`) when it opens the session or its `runStatus` changes, and ignores the
answer to what it asked before. `from`, `to` and `told` do not exist in the code: they
say which part of the conversation an event stands for, and only the properties,
the comparison of durations and timestamps (`Json`) and the history variable
`attended` look at them. The loops of the code are recursive functions (`Signature`,
`Rows`, `Kept`, `Hydrated`), one operator being what the loop does with one item
(`Extended`, `WithRow`, `WithEvent`), so that they can be proved about.

**`MCxxx`** modules give the constants their values. **`xxxProofs`** hold proofs.
Operators marked *mutant* are wrong versions of the definition that follows
them; each property is shown to fail when one of them takes its place.

## 4. Runs

| Run | Question |
| --- | --- |
| `queue` | 4 tasks, 2 `drain()` calls: every moment of `process()` meets every call |
| `session_service` | two writable providers and a read-only one with a session in the store; 2 ids, 2 changes of view, 2 prompts; restarts |
| `coordinator` | 3 prompts, the first from the browser or the terminal and the others from the terminal, the third possibly a rollover, 2 changes of view by clients, stop, delete, shutdown |
| `background_work` | 3 tasks: a browser prompt, then prompts of the terminal and of other agents, heartbeats and rollovers, with crashes and a read-only session; refinement of `SessionService`, exact flags, liveness of the lanes |
| `rollover_scheduler` | 4 tasks of the user, other agents and the timer, with commands, crashes and shutdown |
| `heartbeat` | interval 3, deferral 2, timers up to 1 early; two writable sessions and a read-only one |
| `coding_catalog` | two sessions of a repository, two requests at a time, another client of the provider, crashes, also between the two writes of a cascade |
| `coding_turns` | three turns of one session, prompts of the browser and of agents, cancellations, errors, shutdown, crashes |
| `codex_client` | two prompts and a steer on one thread; stops, timeouts, a refusal, an error or a turn that fails, the death of the process |
| `auto_title` | two prompts in two chats, text or image, renames, switches, stops, failures, shutdown, crashes |
| `coding_transcript` | a conversation of up to 8 events in up to two turns; transcript, hub, answer and page each ahead of the others or behind, pages loaded, reconnected, evicted, a restart; events without a row |
| `duplicate_lane` | a disagreement between code and documentation, see below |

Why the bounds are enough. In the coordinator three tasks are a running one, one
behind it and one in another lane, or a task for each of the three names a
conversation goes through (generation, session id seen by the lane, session id in
the key). Two changes of view are away and back; the run about background work
makes do with one, because heartbeats and rollovers only ask whether the view is
still theirs. Only what comes from outside is bounded, so a run in progress can
always go on, and TLC's deadlock check is on; `AtRest` is the runtime waiting for
its clients. In `rollover_scheduler` a rollover that waits behind a prompt while
the user comes back takes four tasks: the prompt that makes the session due, the
one that stands in the way, the rollover, and the prompt of the returning user;
commands and crashes are of interest while no more than `MaxDisturbed` of them
have been accepted. In `heartbeat` an interval longer than the deferral lets both
timers, and both orders of them and the user's prompts, occur; the state space is
finite as it is. In `coding_catalog` two requests are a reconciliation and what
it overtakes; one session is handled one by one, the other only with the
repository, since sessions meet nowhere but in cascades. In `coding_turns` three
turns are one given up, one taken for it and one after both. In `codex_client` two
turns and a steer are what the late notifications of one turn can be mistaken
for; `MaxLines` is two because the client looks at one line at a time. In
`auto_title` two prompts are the one that started the attempt and the one that
waits behind it or is in another chat. In `coding_transcript` seven events are two
whole turns, or, since a tool counts as two, one of a text, a tool and a text; with
six, no answer is `Mistaken`, and what is said of such answers would not be tried; the
eighth is a second text in a turn, or an event more beside one without a row. The hub
lacks at most one event of what the provider has said, since the daemon reads as it is
written to. An event without a row counts as three, as long as the hub or a page has
it: one in a turn of a prompt and one or two texts, which is enough for the turn to be
shown twice when `Comparable` is taken out of `Lands`. A page that has not attended
gets nothing more until it is loaded or evicted, as the property says nothing of it.
Texts are numbered in the order in which they are said, as they are only compared.
`coding_turns`, `codex_client` and
`auto_title` come to an end when their prompts are used up; the latter two
say so with `CHECK_DEADLOCK FALSE`.

Fairness: `MessageQueue` assumes that a task settles, because a run ends when its
provider does or when it is aborted, and that the continuation of a settled
promise runs. `LaneFairness` (`background_work`) and `TurnFairness` assume the same
of runs and turns. `HeartbeatScheduler` assumes that time passes, that a timer that
is due fires, that the lane gets to a waiting heartbeat (`LanesDrain`) and that its
run ends. `CodexFairness` assumes the event loop, timers, and a server that
handles an interrupt, not one that ever ends a turn by itself; `TitleFairness`
that the model's answer ends. `DriftHeals` has its condition in itself: sessions
go on being listed and nothing else happens. Nothing is assumed of clients, users
or crashes. `HeartbeatsGoOn` asks for heartbeats only once the user is away and
things stay as they are: a user who keeps typing may defer heartbeats for ever,
as the code means it.

### Disagreements found

* `duplicate_lane`: a session recorded for an interrupted run gets a second lane,
  and two of its prompts run at once, against the comment at
  `application/runtime-execution-coordinator.ts:576`. `ConversationsAreSerial`
  says the same of every other session, and is proved.

### Exceptions the properties name

Where the code does something a reader may not expect, and no document says
otherwise, the property states the exact exception, and TLC reaches it:

* `RestartKeepsView`: a blank chat does not stay blank over a restart when another
  provider has an active session left in the store.
* `HiddenRunsKeepView`: a stopped browser run of a left conversation bumps the
  generation of the blank conversation on screen, and hides the prompt there.
* `OnlyIdleSessionsRollOver`: a rollover asked for at the end of a run, while the
  lane's next prompt waits, comes after that prompt. By then the user may be back,
  or have moved to another session, which is the one it clears; the notice still
  says "auto-finalized after 8h idle".
* `ConversationsAreSerial`: a rollover asked for while the provider reports the
  session of a run (`early`) opens a lane of its own and runs beside it, since the
  run's lane does not go by that session yet. It takes a restart and another
  agent's run in a blank chat; nothing but such a rollover may run beside a run.
* `TurnsAreKnown`, `CancellationSticks`, `ShutdownReachesTurns`: sessions prompted
  again before a cancelled or failed turn was over (`overlapped`) lose track of
  their turns; a session whose daemon died stays "running" (`cutOff`), and prompts
  for it are taken for steering.
* `TitlesStickUnlessStopped`: stopping the run that began a session records the
  session again under its first title and so takes back what the user has called it.
* `PageIsFaithful` (`attended`, `NothingRepeated`): a page loaded, or whose events are
  evicted, in the middle of a turn has live events that begin inside a message, and
  shows them next to the message; so does one whose answer overtakes events on their
  way. What is missed while the connection is down is not asked for again, and a page
  that stays over a restart of the daemon drops the events of the new one up to the
  number it had reached: the test "appends live websocket events after hydrated history
  when live sequence restarts" (coding-session-event-cache.test.ts:201) is about pages
  that had received none. Two equal events are one for the cache.
  The ends of two turns look alike, too: when the transcript stops where the daemon
  was restarted, or goes on after a settled snapshot by whole turns,
  `countCodingSessionHistorySuffixCoveredByLive` takes the last end of a turn in the
  transcript for one in the snapshot, which is then put in its place or before what
  the transcript has more (`Mistaken`).
  The last exception is an ordinary one. The hub is given every event of a turn
  (`coding-runtime.ts:186`, `297`), and Codex and Pi report the tokens used in the middle
  of it (`stream-normalizer.ts:304`), Codex also the output of a command as it comes
  (`:254`); the transcript has neither. `countCodingSessionHistorySuffixCoveredByLive`
  compares all events, so it does not recognize a turn that has such an event, and finds
  only its end: of a turn with a tool, a page that is loaded afterwards may show the
  prompt and the tool twice. `Comparable` excepts the answers that are merged while such
  an event is in the snapshot or the cache. Claude reports no usage in the middle of a
  turn, and of a turn without such events the property holds as it stands.
* `CascadeCanBeUndone` (`strayed`): a repository registered anew while archived becomes
  active without its sessions, and so does one whose restoration is cut short between
  its two writes; a request to trash it that is cut short leaves them in the archive.
  Restoring the repository once more does not help, as it is not archived then
  (`create-browser-api.ts:814`); archiving and restoring it does.
* `StoppedRunsEnd`: a run that listens is not told that the process has died, and a
  run steered into a new turn interrupts the old one.
* `TitlesArrive`: an attempt is lost with the end of the daemon, and with a prompt
  of the chat that fails or is stopped.

## 5. Proofs

The proofs assume only what the modules' `ASSUME`s say of their constants
(`NoTaskAssumption`, `ProviderAssumption`, `HeartbeatAssumption`,
`CatalogAssumption`, `TurnAssumption`, `TitleAssumption`, `CodexAssumption`). Each
invariant was model-checked before it was proved.

`MessageQueueProofs`: `IInv == TypeOK /\ NothingStranded` is inductive.
`NothingStranded` is what makes the rest go through: an idle queue is empty, so
a task handed to it is the next of the log, and a `drain()` call can only wait
while `process()` is under way. From it follow `DrainsWhenIdle` and, step by
step, `IsSerialExecutor`, with three lemmas on sequences.

`ExecutionCoordinatorProofs` begins with the session service, whose invariant is the
conjunction of the properties with `ListedIdsWereGiven`: without it a switch to a listed session could show "no
session" while the store calls a provider active. `RestartsKeepView` follows from
`StoreMirrorsView` alone: the provider that is asked first is the one on screen.

For the coordinator itself, `CoordInv` has five parts. `LanesInv` says that what
is in a lane fits it: tasks are of the lane's provider, and of the session it has
resolved to if they are of one; a lane named after a session has resolved to it,
and a lane resolves once, to the session its first run reports. `WaitInv` says
that at most one heartbeat and one rollover wait or run, which is when their flags
are up, and that a queued rollover is still due or will find no session. `ViewKnown`
says that what is on screen has been given out, and `FlagTypes` and
`ShutdownIsFinal` are as their names say. Each has its lemma per operation, because
each is disturbed by few of them. From `CoordInv` every step maps to one of
`SessionService` (`NextMaps` and the lemmas before it): what is needed is that a run
reports a session that was given out, and that a rollover which clears a session
is due. So `StoreAgreesWithRuns` carries `StoreMirrorsView` over to the coordinator
by refinement, without a proof of its own.

`RunsAreSerial` (that two runs of a conversation never overlap, and that its prompts
run in order) needs a second invariant, `SerialInv`, about the names of lanes. A
conversation goes by a generation while it is blank, by the id the runtime has
chosen for its session, and by the session its lane has resolved to; what has to be
excluded is that two of these names lead to different lanes. `LanesSerial`: what is
in a lane carries the names of the lane, in the order in which it was accepted.
`KeysDiffer`: no two lanes have the same key. `GivenOnce`: a generation has one id,
and an id one generation. `GivenToView` and `ViewNamed`: the generation on screen
has the id on screen. `BlankIsNew`: while a conversation is blank no lane is named
after its session, and if that session is in the store, its lane has resolved to it.
`StoredAreKnown`: once the session of a blank conversation is in the store, the lane it
ran in goes by it, so that a switch to the session finds that lane. `LanesApart` says what these are
for: if a lane is named after a session all the same, its first lane comes before it in
the map, and only an early rollover is in it. The exception of early rollovers came
out of the proof, in which `EnqueueRollover` did not keep `LanesApart`; TLC then showed
the run.

`RolloverSchedulerProofs`: `SchedulerImplementsCoordinator` first: the scheduler's
steps are the coordinator's, so that `CoordInv` and `SerialInv` can be used.
`RolloversAreAnnounced` is inductive in the form `Announced`, without `Quiet` and
`elapsed`: whenever a rollover is possible the timer is set or a check is about to
be made, so what has to be shown is that each step of which the scheduler is not
told makes none possible. `IdleInv` says of a rollover that waits that its user was
away when it was asked for, and that its session is on screen as long as the
generation is the same.

`AutoTitleProofs`: `TitleInv` adds to `ShownTitleIsStored` that lanes hold what has
not ended, the running prompt in front (`LanesInOrder`); that a run knows the session
it resumed or began (`RunsKnowTheirSession`); that a session is recorded before it is
mentioned (`SessionsAreRecorded`), so that there is a row to write its title to; and
that a chat without a session has only a first title (`FirstTitles`). `TitlesStick` follows from it for each step.

`CodexClientProofs`: `CodexInv` relates what the client waits for, what the server
has been asked, what it has written and what it has done. `NotesFit` says that
what has been written of a turn stays true however late it is read. The difficult part is
a steer, which replaces the turn a run listens to: by `AskedAreNew` a steer the server
has not handled is about the current turn of its run or one that has ended, and by
`SteersComeFirst` the answer to it is read before any end of that turn, so the run
never takes the end of the old turn for that of the new one.

`CodingTurnsProofs` begins with the catalog. `CatalogInv` adds to `CascadeCanBeUndone`,
which has its exception in the history variable `strayed`,
that a session being started has no row yet (`StartingAreNew`), without which its first
record could overwrite a session put away, and that only a resume goes on after its
first answer (`OnlyResumesGoOn`). `PutAwaySessionsStayAway` is proved from it for each
step.

`ImplementsCatalog` shows that a step of the turns is one of the
catalog, so the catalog's theorems hold of it. `TurnInv` is about the sessions that
are not `overlapped`: they have one live turn, its lane is in the map, a turn
that has been cancelled is awaited by `cancelledTurns` until its first event
(`CancelledIsAwaited`, `AwaitedIsCancelled`), and one that was cut off has no turn
any more (`CutOffIsOver`).

`HeartbeatSchedulerProofs`: the properties are inductive together with
`WaitingIsQuiet`, which says that a heartbeat waits in its lane only if the user
had been quiet when it was scheduled and that `overtaken` remembers every later
prompt. Without it nothing relates the flag the code looks at, when the
heartbeat's turn comes, to how long the user has been away.

`CodingTranscriptProofs` shows `PageIsFaithful` for conversations of any length. The
invariant (`TranscriptInv`) says what each account is at each moment: the
conversation is made of turns (`ToldInTurns`), daemons change between turns and nobody
is ahead of the provider (`HubInOrder`), the hub tells what it has been given, with
events without a row between two parts of it (`HubTells`, `OfHub`), an answer tells all that its transcript
and snapshot had (`AnswerTells`), and the cache tells what the page was sent, all of
it or from the beginning of a turn on (`CacheTells`). The last is why the merge
works: the cache begins where the answer reaches, never behind a gap. `Parted` adds
that an event of several pieces is a row, and ends by what the transcript had when it was
read: a later answer, which has at least these rows, never ends inside it.

What has to be shown of the code is that comparing texts finds the overlap:
`PrefixCoveredIs` for the live events that the history covers, `SuffixOfTurns` and
`SuffixOfNothing` for the rows that the snapshot covers. The lemmas before them
relate signatures and the conversation: if events tell the part from i to j, their
signature is that of this part, however texts are cut (`EventsAccount`); a longer
part covers a shorter one from the same place (`AccountGrows`); and parts that begin
alike begin at the same place if nothing is repeated (`AlikeIsSame`). `MergedTells` and
`HydratedTells` put them together for the two merges. The loops are recursive functions,
so what they compute has to be shown for every length; as the induction theorems of the
library cannot be used here (they take an operator), `InductionUpTo` states induction
with a set, the numbers for which something holds, and `Iterates` that such functions
exist and are unique.

The attempt to prove `PageIsFaithful` as it had been checked, on conversations of six
events, failed at the suffix covered by a snapshot, and TLC found the two cases with
seven: what `Mistaken` excepts. It also showed that the model of
`countCodingSessionLivePrefixCoveredByHistory` left out one condition of the code, that the
history does not begin with the session itself.

Every safety property that a passing run checks is a theorem. Only model-checked are the
liveness properties (`DrainAnswered`, `LanesDrain`, `HeartbeatsGoOn`, `DriftHeals`,
`RunningEnds`, `StoppedRunsEnd`, `TitlesArrive`), which are outside the prover's reach.

## 6. Not modelled

*In the modules.* Models, usage and transcripts; delivery to clients; a prompt of
blanks only, which has no title. `ExecutionCoordinator` has no clock: a heartbeat
or a rollover is due whenever the code's other conditions hold; the two schedulers
add time, each on its own. `CodingCatalog` leaves out pins, labels and names of
sessions. (The comment at `browser/create-browser-api.ts:688` says that the purge
goes by last activity for want of a `trashed_at` column; the store has one and
uses it.) `CodexClient` leaves out the archiving of ephemeral threads, write errors
of the pipe, requests of the server, `dispose`, listings, and what items of a turn
become as events. `CodingTranscript` leaves out steering in the middle of a turn,
errors and aborts, thinking, the replay limit of 5000 events, the cache's limit as a
number, the events of an image (which the page omits like usage), the rows a
transcript may have of a command's output (which only exist where there have been live
outputs, so that what is merged with them is excepted by `Comparable`), streams that follow a session, turns run by other programs,
which only the transcript has, and a restart during a turn or before the provider has
written its transcript. `AutoTitle` leaves out deletions and a second provider; a later
prompt of a known session writes back the title on screen, which changes nothing.

*Components.* `PROJECT.json` lists them with the reason. Cron, the Telegram bridge
and the client gateway are left for later. The session
store is modelled as the sets `SessionService` keeps. The supervisor, browser
services, memory index, configuration, native tools and front ends are mostly
input and output around the parts above: what they keep is a cache or a copy.
