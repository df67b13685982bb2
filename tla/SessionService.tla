--------------------------- MODULE SessionService ---------------------------
(***************************************************************************)
(* The conversation a chat agent shows and what it keeps of it on disk.    *)
(*                                                                         *)
(* RuntimeState / RuntimeSessionState (application/state) hold the visible *)
(* conversation in memory; SessionService (application/session-service.ts) *)
(* is the only writer of both that state and the session store, which      *)
(* survives the process.  Each method of SessionService is an operator     *)
(* here.  ExecutionCoordinator calls them from its own actions; the        *)
(* specification of this module calls them in any order the callers could, *)
(* and adds the restart of the daemon.                                     *)
(*                                                                         *)
(* A session id is a number, 0 standing for "undefined"; the ids given out *)
(* by randomUUID() are the numbers not given out before.  Titles, models,  *)
(* usage and transcripts are left out: no property is about them.  A title *)
(* takes part in matchesVisiblePromptContext, but it is set by the first   *)
(* prompt of a generation and then kept until the session is known, so the *)
(* generation says as much.                                                *)
(***************************************************************************)
EXTENDS Naturals, FiniteSets

CONSTANTS
    Providers,        \* provider ids with sessions in the store
    Writable,         \* those that can still run prompts
    DefaultProvider,  \* providerId of the default blank selection
    LegacyCount,      \* how many ids were given out before this history
    LegacySessions    \* sessions of read-only providers found in the store

None == 0
NoProvider == "none"

ASSUME ProviderAssumption ==
    /\ Writable \subseteq Providers
    /\ DefaultProvider \in Writable
    /\ LegacyCount \in Nat
    /\ LegacySessions \in SUBSET ((Providers \ Writable) \X (1..LegacyCount))
    /\ NoProvider \notin Providers

VARIABLES
    \* in memory: RuntimeState
    providerId,       \* provider of the visible conversation
    sessionId,        \* its provider session, None while it is blank
    ocSessionId,      \* the id under which a blank one will be created
    generation,       \* bumped whenever another conversation becomes visible
    \* on disk: the session store
    rows,             \* the sessions it lists, as <<provider, id>>
    activeSession,    \* active session id of each provider
    activeProvider,   \* provider of the active chat session, or NoProvider
    blank,            \* provider of the stored blank selection, or NoProvider
    lastInteractive,  \* lastInteractiveAt: how many prompts users sent
    lastHandled,      \* lastHandledRolloverInteractiveAt
    notice,           \* the rollover notice shown to the user
    \* the supply of fresh ids
    lastId

viewVars == <<providerId, sessionId, ocSessionId, generation>>
storeVars == <<rows, activeSession, activeProvider, blank>>
rolloverVars == <<lastInteractive, lastHandled, notice>>
sessionVars == <<viewVars, storeVars, rolloverVars, lastId>>

Notices == {"none", "started", "failed"}

-----------------------------------------------------------------------------
(* RuntimeState                                                            *)

ClearState ==
    /\ generation' = generation + 1
    /\ sessionId' = None
    /\ ocSessionId' = None

SwitchState(p, s) ==
    /\ generation' = generation + 1
    /\ providerId' = p
    /\ sessionId' = s
    /\ ocSessionId' = s

(* initializeRun and completeRun                                           *)
ShowSession(s) ==
    /\ sessionId' = s
    /\ ocSessionId' = IF ocSessionId = None THEN s ELSE ocSessionId
    /\ UNCHANGED <<providerId, generation>>

(* capturePromptContext: the conversation a prompt is bound to when it is  *)
(* accepted.  Capturing gives a blank conversation its id.                 *)
CapturedOc == IF ocSessionId = None THEN lastId + 1 ELSE ocSessionId

Context == [provider |-> providerId, sid |-> sessionId,
            oc |-> CapturedOc, gen |-> generation]

CaptureContext ==
    /\ ocSessionId' = CapturedOc
    /\ lastId' = IF ocSessionId = None THEN lastId + 1 ELSE lastId
    /\ UNCHANGED <<providerId, sessionId, generation>>

MatchesVisible(c) ==
    /\ providerId = c.provider
    /\ IF c.sid # None
       THEN sessionId = c.sid
       ELSE sessionId = None /\ generation = c.gen

-----------------------------------------------------------------------------
(* SessionService                                                          *)

(* restoreBlankSelection: a blank conversation belongs to the provider the *)
(* user chose last, or to the default one when that can no longer run.     *)
BlankProviderUnchecked == blank  \* mutant of BlankProvider

BlankProvider == IF blank \in Writable THEN blank ELSE DefaultProvider

RestoreBlankSelection ==
    /\ providerId' = BlankProvider
    /\ blank' = IF blank = NoProvider THEN NoProvider ELSE BlankProvider

(* Mutant of ClearActiveSession: the provider of the last session stays. *)
ClearActiveSessionOnly ==
    /\ ClearState
    /\ activeSession' = [activeSession EXCEPT ![providerId] = None]
    /\ activeProvider' = NoProvider
    /\ UNCHANGED <<providerId, rows, blank>>

ClearActiveSession ==
    /\ ClearState
    /\ activeSession' = [activeSession EXCEPT ![providerId] = None]
    /\ activeProvider' = NoProvider
    /\ RestoreBlankSelection
    /\ UNCHANGED rows

DeleteResolvedSession(p, s) ==
    /\ rows' = rows \ {<<p, s>>}
    /\ activeSession' = [activeSession EXCEPT ![p] = IF @ = s THEN None ELSE @]
    /\ IF providerId = p /\ sessionId = s
       THEN ClearState /\ activeProvider' = NoProvider /\ RestoreBlankSelection
       ELSE UNCHANGED <<viewVars, activeProvider, blank>>

SetActive(p, s) ==
    /\ activeSession' = [activeSession EXCEPT ![p] = s]
    /\ activeProvider' = p

CompleteRun(s) ==
    /\ ShowSession(s)
    /\ SetActive(providerId, s)
    /\ rows' = rows \cup {<<providerId, s>>}
    /\ UNCHANGED blank

(* Mutant of RecordBackgroundCompletion: any completion makes a session    *)
(* the active one.                                                         *)
RecordCompletionAsActive(p, s) ==
    /\ SetActive(p, s)
    /\ rows' = rows \cup {<<p, s>>}
    /\ UNCHANGED <<viewVars, blank>>

RecordBackgroundCompletion(p, s) ==
    /\ rows' = rows \cup {<<p, s>>}
    /\ UNCHANGED <<viewVars, activeSession, activeProvider, blank>>

RecordSessionInitialized(active, p, s) ==
    /\ rows' = rows \cup {<<p, s>>}
    /\ IF active
       THEN ShowSession(s) /\ SetActive(p, s)
       ELSE UNCHANGED <<viewVars, activeSession, activeProvider>>
    /\ UNCHANGED blank

RecordInterruptedRun(p, s) ==
    /\ SetActive(p, s)
    /\ rows' = rows \cup {<<p, s>>}
    /\ SwitchState(p, s)
    /\ UNCHANGED blank

RecordAcceptedPromptTarget ==
    /\ lastInteractive' = lastInteractive + 1
    /\ notice' = "none"
    /\ UNCHANGED lastHandled

SwitchToResolvedSession(p, s) ==
    /\ SwitchState(p, s)
    /\ SetActive(p, s)
    /\ blank' = IF p \in Writable THEN p ELSE blank
    /\ UNCHANGED rows

BeginRolloverAttempt ==
    /\ lastHandled' = lastInteractive
    /\ ClearActiveSession
    /\ notice' = "started"
    /\ UNCHANGED lastInteractive

(* Mutant of FinishRolloverAttempt: the notice may be gone by then. *)
FinishRolloverUnchecked(failed) ==
    /\ notice' = IF failed THEN "failed" ELSE notice
    /\ UNCHANGED <<lastInteractive, lastHandled>>

FinishRolloverAttempt(failed) ==
    /\ notice' = IF failed /\ notice = "started" THEN "failed" ELSE notice
    /\ UNCHANGED <<lastInteractive, lastHandled>>

(* handleModelSelect of the control plane: another provider may be chosen  *)
(* only while the conversation is blank.                                   *)
ModelSelect(p) ==
    /\ sessionId = None
    /\ providerId' = p
    /\ blank' = p
    /\ UNCHANGED <<sessionId, ocSessionId, generation, rows, activeSession, activeProvider>>

(* A rollover is due when the user has been idle long enough (time is not  *)
(* modelled) since a prompt that no rollover has handled yet.              *)
RolloverDue == lastInteractive # 0 /\ lastHandled # lastInteractive

-----------------------------------------------------------------------------
(* The constructor of SessionService, run on a new RuntimeState by a new   *)
(* process: restorePersistedState().                                       *)

Restorable(p) == activeSession[p] # None /\ <<p, activeSession[p]>> \in rows

(* Mutant of RestoredProviders: the blank selection is asked first. *)
RestoredBlankFirst ==
    IF blank # NoProvider /\ Restorable(blank)
    THEN {blank}
    ELSE IF activeProvider # NoProvider /\ Restorable(activeProvider)
    THEN {activeProvider}
    ELSE {DefaultProvider}

(* resolvePersistedActiveProviderId; among several candidates the last     *)
(* active one is taken, which the model leaves open.                       *)
RestoredProviders ==
    IF activeProvider # NoProvider /\ Restorable(activeProvider)
    THEN {activeProvider}
    ELSE IF blank # NoProvider /\ Restorable(blank)
    THEN {blank}
    ELSE IF \E p \in Providers : Restorable(p)
    THEN {p \in Providers : Restorable(p)}
    ELSE {DefaultProvider}

(* getActiveChatSession forgets the active session of a provider it is     *)
(* asked about when the store does not list that session.                  *)
Consulted(p) ==
    IF activeProvider # NoProvider /\ Restorable(activeProvider)
    THEN {activeProvider}
    ELSE {activeProvider, blank, p}

Restore(p) ==
    /\ generation' = 0
    /\ blank' = IF blank = NoProvider THEN NoProvider ELSE BlankProvider
    /\ IF Restorable(p)
       THEN /\ providerId' = p
            /\ sessionId' = activeSession[p]
            /\ ocSessionId' = activeSession[p]
            /\ activeProvider' = p
       ELSE /\ providerId' = BlankProvider
            /\ sessionId' = None
            /\ ocSessionId' = None
            /\ activeProvider' = NoProvider
    /\ activeSession' = [q \in Providers |->
           IF q \in Consulted(p) /\ ~Restorable(q) THEN None ELSE activeSession[q]]
    /\ UNCHANGED rows

Restart == \E p \in RestoredProviders : Restore(p)

-----------------------------------------------------------------------------
(* A fresh daemon over a store without an active session.                  *)
SessionInit ==
    /\ providerId = DefaultProvider
    /\ sessionId = None
    /\ ocSessionId = None
    /\ generation = 0
    /\ rows = LegacySessions
    /\ activeSession = [p \in Providers |-> None]
    /\ activeProvider = NoProvider
    /\ blank = NoProvider
    /\ lastInteractive = 0
    /\ lastHandled = 0
    /\ notice = "none"
    /\ lastId = LegacyCount

(* What the rest of the runtime asks of the service.  A run calls it with  *)
(* the id of a session given out earlier and says whether it is visible.   *)
AcceptPrompt(interactive) ==
    /\ providerId \in Writable
    /\ CaptureContext
    /\ IF interactive THEN RecordAcceptedPromptTarget ELSE UNCHANGED rolloverVars
    /\ UNCHANGED storeVars

VisibleInit(s) ==
    /\ sessionId = None
    /\ RecordSessionInitialized(TRUE, providerId, s)
    /\ UNCHANGED <<rolloverVars, lastId>>

BackgroundInit(p, s) ==
    /\ RecordSessionInitialized(FALSE, p, s)
    /\ UNCHANGED <<rolloverVars, lastId>>

VisibleDone ==
    /\ sessionId # None
    /\ CompleteRun(sessionId)
    /\ UNCHANGED <<rolloverVars, lastId>>

BackgroundDone(p, s) ==
    /\ RecordBackgroundCompletion(p, s)
    /\ UNCHANGED <<rolloverVars, lastId>>

Interrupted(s) ==
    /\ sessionId \in {None, s}
    /\ RecordInterruptedRun(providerId, s)
    /\ UNCHANGED <<rolloverVars, lastId>>

InterruptedBlank ==
    /\ sessionId = None
    /\ ClearState
    /\ UNCHANGED <<providerId, storeVars, rolloverVars, lastId>>

NewConversation ==
    /\ ClearActiveSession
    /\ UNCHANGED <<rolloverVars, lastId>>

SwitchSession ==
    /\ \E r \in rows : SwitchToResolvedSession(r[1], r[2])
    /\ UNCHANGED <<rolloverVars, lastId>>

DeleteSession ==
    /\ \E r \in rows : DeleteResolvedSession(r[1], r[2])
    /\ UNCHANGED <<rolloverVars, lastId>>

SelectModel ==
    /\ \E p \in Writable : ModelSelect(p)
    /\ UNCHANGED <<rolloverVars, lastId>>

BeginRollover ==
    /\ RolloverDue
    /\ sessionId # None
    /\ BeginRolloverAttempt
    /\ UNCHANGED lastId

FinishRollover ==
    /\ \E failed \in BOOLEAN : FinishRolloverAttempt(failed)
    /\ UNCHANGED <<viewVars, storeVars, lastId>>

RestartDaemon ==
    /\ Restart
    /\ UNCHANGED <<rolloverVars, lastId>>

(* The sessions a run may report: any id given out so far.                 *)
Ids == 1..lastId

SessionNext ==
    \/ \E interactive \in BOOLEAN : AcceptPrompt(interactive)
    \/ \E s \in Ids : VisibleInit(s) \/ Interrupted(s)
    \/ \E p \in Writable, s \in Ids : BackgroundInit(p, s) \/ BackgroundDone(p, s)
    \/ VisibleDone
    \/ InterruptedBlank
    \/ NewConversation
    \/ SwitchSession
    \/ DeleteSession
    \/ SelectModel
    \/ BeginRollover
    \/ FinishRollover
    \/ RestartDaemon

SessionSpec == SessionInit /\ [][SessionNext]_sessionVars

(***************************************************************************)
(* Properties                                                              *)
(***************************************************************************)
TypeOK ==
    /\ providerId \in Providers
    /\ sessionId \in Nat
    /\ ocSessionId \in Nat
    /\ generation \in Nat
    /\ rows \subseteq Providers \X Nat
    /\ activeSession \in [Providers -> Nat]
    /\ activeProvider \in Providers \cup {NoProvider}
    /\ blank \in Providers \cup {NoProvider}
    /\ lastInteractive \in Nat
    /\ lastHandled \in Nat
    /\ notice \in Notices
    /\ lastId \in Nat

(* The store always names exactly the conversation on screen, and lists    *)
(* it: whatever a client does, whatever background runs report, and in     *)
(* whatever order, a daemon killed now comes back to the same session.     *)
StoreMirrorsView ==
    IF sessionId = None
    THEN activeProvider = NoProvider
    ELSE /\ activeProvider = providerId
         /\ activeSession[providerId] = sessionId
         /\ <<providerId, sessionId>> \in rows

(* A blank conversation can always be written to: leaving a session of a   *)
(* read-only provider (by /new, by deleting it, by a rollover) selects a   *)
(* provider that runs prompts.                                             *)
BlankIsWritable == sessionId = None => providerId \in Writable

(* The rollover notice says "a new session will begin with your next       *)
(* message": it is gone as soon as the user has sent one, even when the    *)
(* background run of the rollover fails after that.                        *)
NoticeIsCurrent == notice # "none" => lastHandled = lastInteractive

(* A restart shows what was on screen before it: the same session, or a    *)
(* blank chat again.  The exception is the fallback that                   *)
(* findVisibleActiveChatProviderId makes: a session which a provider other *)
(* than the visible one left active comes back in place of a blank chat.   *)
RestartKeepsView ==
    [][RestartDaemon =>
         \/ sessionId' = sessionId /\ (sessionId # None => providerId' = providerId)
         \/ sessionId = None /\ \E p \in Providers : Restorable(p)]_sessionVars
=============================================================================
