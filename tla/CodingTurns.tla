----------------------------- MODULE CodingTurns -----------------------------
(***************************************************************************)
(* Turns of coding sessions: CodingRuntime (coding/coding-runtime.ts) and  *)
(* the detached lanes its execution coordinator runs them in.              *)
(*                                                                         *)
(* A turn is a run of the provider in a lane of its own.  A session has    *)
(* one at a time, in principle: a prompt for a session that is running is  *)
(* handed to the running turn instead.  Whether it is running is read from *)
(* run_status in the store and from activeTurns, both of which the events  *)
(* of its turns write.  They are kept per session, though, not per turn,   *)
(* and so is cancelledTurns, which tells that the next event of a          *)
(* cancelled turn is no news: once a turn has been cancelled or has        *)
(* reported an error the next may begin, and the late events of the one    *)
(* are taken for events of the other.                                      *)
(***************************************************************************)
EXTENDS CodingCatalog

CONSTANTS
    Runs,  \* the turns there can ever be
    None

ASSUME TurnAssumption == None \notin Runs \cup Sessions

VARIABLES
    runStatus,       \* coding_sessions.run_status
    run,             \* the turns
    activeTurn,      \* activeTurns: the turn to abort, for each session
    cancelledTurns,  \* sessions
    mapped,          \* turns whose lane is in the coordinator's map
    stopping,        \* the coordinator is shutting down
    overlapped,      \* history: sessions with a turn begun before a cancelled
                     \* or failed one was over
    cutOff           \* history: sessions whose turn the daemon did not survive

turnVars == <<runStatus, run, activeTurn, cancelledTurns, mapped, stopping,
              overlapped, cutOff>>
vars == <<catalogVars, turnVars>>

RunStatuses == {"idle", "running", "failed", "cancelled"}

(* A turn that starts a session waits for the provider to report it.       *)
RunStages == {"unused", "starting", "working", "over"}
RunRecords ==
    [stage : RunStages, session : Sessions \cup {None}, resumed : BOOLEAN,
     aborted : BOOLEAN, erred : BOOLEAN]

NoRun == [stage |-> "unused", session |-> None, resumed |-> FALSE,
          aborted |-> FALSE, erred |-> FALSE]

Live(r) == run[r].stage \in {"starting", "working"}
LiveIn(s) == {r \in Runs : Live(r) /\ run[r].session = s}

(* What neither the user nor the provider has given up.                    *)
Healthy(r) == Live(r) /\ ~run[r].aborted /\ ~run[r].erred
HealthyIn(s) == {r \in LiveIn(s) : Healthy(r)}

Init ==
    /\ CatalogInit
    /\ runStatus = [s \in Sessions |-> "idle"]
    /\ run = [r \in Runs |-> NoRun]
    /\ activeTurn = [s \in Sessions |-> None]
    /\ cancelledTurns = {}
    /\ mapped = {}
    /\ stopping = FALSE
    /\ overlapped = {}
    /\ cutOff = {}

-----------------------------------------------------------------------------
(* Lanes.  The lane of a resumed turn is filed under its session, that of  *)
(* a new session under an id of its own.                                   *)

SameLaneKey(s) == {r \in Runs : run[r].resumed /\ run[r].session = s}

(* createDetachedLane: a lane of the same key is no longer found.          *)
Filed(r, s, resumed) ==
    mapped' = (IF resumed THEN mapped \ SameLaneKey(s) ELSE mapped) \cup {r}

(* The end of runPromptInLane: whatever is filed under the key is removed. *)
LaneOver(r) ==
    /\ run' = [run EXCEPT ![r].stage = "over"]
    /\ mapped' = IF run[r].resumed THEN mapped \ SameLaneKey(run[r].session)
                                   ELSE mapped \ {r}

-----------------------------------------------------------------------------
(* updateRunStatus: there may be no row any more.                          *)
Mark(s, status) ==
    runStatus' = IF Stored(s) THEN [runStatus EXCEPT ![s] = status] ELSE runStatus

Forget(s) == activeTurn' = [activeTurn EXCEPT ![s] = None]
Track(s, r) == activeTurn' = [activeTurn EXCEPT ![s] = r]

StartPrompt(r, s) ==
    /\ run[r] = NoRun
    /\ ~stopping
    /\ StartSession(s)
    /\ run' = [run EXCEPT ![r] = [NoRun EXCEPT !.stage = "starting", !.session = s]]
    /\ Filed(r, s, FALSE)
    /\ UNCHANGED <<runStatus, activeTurn, cancelledTurns, stopping, overlapped, cutOff>>

(* session_initialized of a new session                                    *)
Reported(r) ==
    LET s == run[r].session
    IN  /\ run[r].stage = "starting"
        /\ RecordSession(s)
        /\ runStatus' = [runStatus EXCEPT ![s] = "running"]
        /\ Track(s, r)
        /\ run' = [run EXCEPT ![r].stage = "working"]
        /\ UNCHANGED <<cancelledTurns, mapped, stopping, overlapped, cutOff>>

(* An error, or the end, before the session is known: no session.          *)
Unreported(r) ==
    /\ run[r].stage = "starting"
    /\ StartFails(run[r].session)
    /\ LaneOver(r)
    /\ UNCHANGED <<runStatus, activeTurn, cancelledTurns, stopping, overlapped, cutOff>>

(* resumePrompt for an open session that is not running.                   *)
NewTurn(r, s) ==
    /\ run[r] = NoRun
    /\ run' = [run EXCEPT ![r] =
          [NoRun EXCEPT !.stage = "working", !.session = s, !.resumed = TRUE]]
    /\ Filed(r, s, TRUE)
    /\ Track(s, r)
    /\ runStatus' = [runStatus EXCEPT ![s] = "running"]
    /\ overlapped' = IF LiveIn(s) \ HealthyIn(s) # {} THEN overlapped \cup {s} ELSE overlapped
    /\ UNCHANGED <<cancelledTurns, stopping, cutOff>>

Busy(s) == runStatus[s] = "running" \/ activeTurn[s] # None

(* Mutants of Resume: the prompt is not given to a running turn; a turn    *)
(* begins while the coordinator shuts down.                                *)
ResumeAlways(s, status) ==
    IF status = "open" /\ ~stopping
    THEN \E r \in Runs : NewTurn(r, s)
    ELSE UNCHANGED turnVars

ResumeInShutdown(s, status) ==
    IF status = "open" /\ ~Busy(s)
    THEN \E r \in Runs : NewTurn(r, s)
    ELSE UNCHANGED turnVars

(* resumePrompt.  A prompt for a busy session is given to the provider, to *)
(* steer its turn; nothing is written here.                                *)
Resume(s, status) ==
    IF status = "open" /\ ~Busy(s) /\ ~stopping
    THEN \E r \in Runs : NewTurn(r, s)
    ELSE UNCHANGED turnVars

(* A prompt of the browser, when its request about the session is through; *)
(* one of an agent's tool, which makes no such request.                    *)
ResumeFromBrowser(c) ==
    /\ ResumeFindsItOpen(c) \/ ResumeRestores(c)
    /\ \E s \in call[c].ids : Resume(s, lifecycle'[s])

ResumeFromTool(s) ==
    /\ lifecycle[s] = "open"
    /\ Resume(s, "open")
    /\ UNCHANGED catalogVars

-----------------------------------------------------------------------------
(* Events of a turn.  The provider reports any number of errors; a turn is *)
(* over when it is done or aborted, or without a word after an error.      *)

(* Mutants of Settles: a cancelled turn is not told apart; the mark stays; *)
(* the end of a turn is written as the provider calls it.                  *)
SettlesUncancelled(s, status) ==
    /\ Mark(s, status)
    /\ UNCHANGED cancelledTurns
SettlesKeepingMark(s, status) ==
    /\ IF s \in cancelledTurns THEN UNCHANGED runStatus ELSE Mark(s, status)
    /\ UNCHANGED cancelledTurns

SettlesAsReported(s, status) ==
    /\ Mark(s, IF status = "idle" THEN "completed" ELSE status)
    /\ UNCHANGED cancelledTurns

(* consumeCancelledTurn, or else the status                                *)
Settles(s, status) ==
    IF s \in cancelledTurns
    THEN /\ cancelledTurns' = cancelledTurns \ {s}
         /\ UNCHANGED runStatus
    ELSE /\ Mark(s, status)
         /\ UNCHANGED cancelledTurns

Errs(r) ==
    LET s == run[r].session
    IN  /\ run[r].stage = "working"
        /\ Settles(s, "failed")
        /\ Forget(s)
        /\ run' = [run EXCEPT ![r].erred = TRUE]
        /\ UNCHANGED <<catalogVars, mapped, stopping, overlapped, cutOff>>

Completes(r) ==
    LET s == run[r].session
    IN  /\ run[r].stage = "working"
        /\ Settles(s, "idle")
        /\ Forget(s)
        /\ LaneOver(r)
        /\ UNCHANGED <<catalogVars, stopping, overlapped, cutOff>>

(* turn_aborted: markAborted                                               *)
IsAborted(r) ==
    LET s == run[r].session
    IN  /\ run[r].stage = "working"
        /\ cancelledTurns' = cancelledTurns \ {s}
        /\ Mark(s, "cancelled")
        /\ Forget(s)
        /\ LaneOver(r)
        /\ UNCHANGED <<catalogVars, stopping, overlapped, cutOff>>

EndsAfterError(r) ==
    /\ run[r].stage = "working" /\ run[r].erred
    /\ LaneOver(r)
    /\ UNCHANGED <<catalogVars, runStatus, activeTurn, cancelledTurns, stopping,
                   overlapped, cutOff>>

-----------------------------------------------------------------------------
(* cancelPrompt, for a session in the store.  Without an active turn it    *)
(* only answers.                                                           *)
Cancel(s) ==
    LET r == activeTurn[s]
    IN  /\ Stored(s)
        /\ r # None
        /\ Forget(s)
        /\ IF Live(r) /\ ~run[r].aborted
           THEN /\ run' = [run EXCEPT ![r].aborted = TRUE]
                /\ cancelledTurns' = cancelledTurns \cup {s}
                /\ Mark(s, "cancelled")
           ELSE UNCHANGED <<run, cancelledTurns, runStatus>>
        /\ UNCHANGED <<catalogVars, mapped, stopping, overlapped, cutOff>>

(* beginShutdown of the coordinator: the lanes it finds in its map.        *)
Shutdown ==
    /\ ~stopping
    /\ stopping' = TRUE
    /\ run' = [r \in Runs |->
                  IF r \in mapped THEN [run[r] EXCEPT !.aborted = TRUE] ELSE run[r]]
    /\ UNCHANGED <<catalogVars, runStatus, activeTurn, cancelledTurns, mapped,
                   overlapped, cutOff>>

(* The daemon dies, or is stopped, and starts again.                       *)
Crash ==
    /\ CatalogCrash
    /\ run' = [r \in Runs |-> IF Live(r) THEN [run[r] EXCEPT !.stage = "over"] ELSE run[r]]
    /\ activeTurn' = [s \in Sessions |-> None]
    /\ cancelledTurns' = {}
    /\ mapped' = {}
    /\ stopping' = FALSE
    /\ cutOff' = cutOff \cup {s \in Sessions : Stored(s) /\ runStatus[s] = "running"}
    /\ UNCHANGED <<runStatus, overlapped>>

-----------------------------------------------------------------------------
(* What leaves the turns alone                                             *)
CatalogOnly ==
    /\ \/ \E r \in Repos : RepositoryStep(r)
       \/ \E s \in Sessions : DeleteSession(s) \/ OtherClient(s)
       \/ SessionRequest
       \/ \E c \in Calls :
             \/ Performed(c) \/ Listed(c) \/ MutationLands(c)
             \/ ReconcileLands(c) \/ ResumeAsksForRestore(c) \/ CallFails(c)
    /\ UNCHANGED turnVars

RunEnds(r) == Unreported(r) \/ Completes(r) \/ IsAborted(r) \/ EndsAfterError(r)

RunStep(r) == Reported(r) \/ Errs(r) \/ RunEnds(r)

Next ==
    \/ CatalogOnly
    \/ \E r \in Runs, s \in Sessions : StartPrompt(r, s)
    \/ \E r \in Runs : RunStep(r)
    \/ \E c \in Calls : ResumeFromBrowser(c)
    \/ \E s \in Sessions : ResumeFromTool(s) \/ Cancel(s)
    \/ Shutdown
    \/ Crash

Spec == Init /\ [][Next]_vars

(* The provider's stream ends, by itself or when it is aborted.            *)
TurnFairness == \A r \in Runs : WF_vars(RunEnds(r))

FairSpec == Spec /\ TurnFairness

(***************************************************************************)
(* Properties                                                              *)
(***************************************************************************)
TurnTypeOK ==
    /\ CatalogTypeOK
    /\ runStatus \in [Sessions -> RunStatuses]
    /\ run \in [Runs -> RunRecords]
    /\ activeTurn \in [Sessions -> Runs \cup {None}]
    /\ cancelledTurns \subseteq Sessions
    /\ mapped \subseteq Runs
    /\ stopping \in BOOLEAN
    /\ overlapped \subseteq Sessions
    /\ cutOff \subseteq Sessions

(* What a session says of itself is true: it is running, and can be        *)
(* cancelled, exactly as long as one turn of it is under way that nobody   *)
(* has given up, and then there is no other.  Except for the two kinds of  *)
(* sessions the code loses track of: those prompted again before a         *)
(* cancelled or failed turn was over, and those whose turn was cut off by  *)
(* the end of the daemon.  The code "steers a running coding session        *)
(* instead of starting another turn" (coding-runtime.test.ts:757).         *)
TurnsAreKnown ==
    \A s \in Sessions \ (overlapped \cup cutOff) :
        Stored(s) /\ ~stopping =>
            IF runStatus[s] = "running"
            THEN LiveIn(s) = {activeTurn[s]} /\ Healthy(activeTurn[s])
            ELSE activeTurn[s] = None /\ HealthyIn(s) = {}

(* "keeps late provider errors from overwriting cancellation"              *)
(* (coding-runtime.test.ts:553): a cancelled session stays so until it is  *)
(* prompted again.  Only the first late event of the turn is recognised,   *)
(* though: what comes after an error is believed.                          *)
CancellationSticks ==
    [][\A s \in Sessions \ overlapped :
         /\ runStatus[s] = "cancelled" /\ runStatus'[s] \in {"idle", "failed"}
         => \E r \in LiveIn(s) : run[r].erred]_vars

(* A shutdown stops every turn, and waits for it, unless its lane was      *)
(* filed under the key of a turn that had been given up but was not over.  *)
ShutdownReachesTurns ==
    stopping => \A r \in Runs :
        Live(r) /\ run[r].session \notin overlapped => run[r].aborted /\ r \in mapped

(* A session does not stay "running" for good, even if the end of one turn *)
(* has been taken for that of another: somebody may be waiting for it.     *)
(* Only the end of the daemon leaves one that no prompt, and no            *)
(* cancellation, ever gets out of this state.                              *)
RunningEnds ==
    \A s \in Sessions :
        runStatus[s] = "running" ~> (runStatus[s] # "running" \/ s \in cutOff \/ ~Stored(s))
=============================================================================
