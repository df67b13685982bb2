-------------------------- MODULE CodingTurnsProofs --------------------------
(* Proofs about CodingTurns, and about CodingCatalog, which it extends, for *)
(* any number of sessions, repositories, turns and requests.               *)
EXTENDS CodingTurns, TLAPS

(***************************************************************************)
(* The inductive invariant.  That a session is recorded once, and not over *)
(* one that has been archived meanwhile, needs that the ids of sessions    *)
(* being started are new; that only a resume restores on the way needs to  *)
(* be known of its stages.                                                 *)
(***************************************************************************)
StartingAreNew == \A s \in starting : lifecycle[s] = "new"

OnlyResumesGoOn ==
    \A c \in Calls : call[c].stage \in {"restoring", "restored"} => call[c].op = "resume"

CatalogInv == CatalogTypeOK /\ StartingAreNew /\ CascadeCanBeUndone /\ OnlyResumesGoOn

LEMMA CallTypes ==
    ASSUME CatalogTypeOK, NEW c \in Calls
    PROVE  /\ call[c].ids \in SUBSET Sessions
           /\ call[c].seen \in [Sessions -> ThreadStates \cup {"unseen"}]
           /\ call[c] # NoCall => call[c] \in CallRecords
  BY DEF CatalogTypeOK, CallRecords, NoCall, Unseen

LEMMA InitCatalogInv == CatalogInit => CatalogInv
<1> SUFFICES ASSUME CatalogInit PROVE CatalogInv
  OBVIOUS
<1>1. CatalogTypeOK
  BY DEF CatalogInit, CatalogTypeOK, RepoStates, Lifecycles, ThreadStates
<1>2. StartingAreNew /\ CascadeCanBeUndone /\ OnlyResumesGoOn
  BY DEF CatalogInit, StartingAreNew, CascadeCanBeUndone, OnlyResumesGoOn, NoCall
<1> QED  BY <1>1, <1>2 DEF CatalogInv

(***************************************************************************)
(* What the store keeps, for each way it is written.                       *)
(***************************************************************************)
StoreInv ==
    /\ repo \in [Repos -> RepoStates]
    /\ lifecycle \in [Sessions -> Lifecycles]
    /\ cascaded \subseteq Sessions
    /\ starting \subseteq Sessions
    /\ strayed \subseteq Repos
    /\ StartingAreNew
    /\ CascadeCanBeUndone

LEMMA RepositoryKeepsStore ==
    ASSUME StoreInv, NEW r \in Repos, RepositoryStep(r)
    PROVE  StoreInv'
<1> USE CatalogAssumption
    DEF StoreInv, RepoStates, Lifecycles, StartingAreNew, CascadeCanBeUndone
<1>1. CASE RegisterRepository(r)
  BY <1>1 DEF RegisterRepository, Register, WriteRow
<1>2. CASE ArchiveRepository(r)
  BY <1>2 DEF ArchiveRepository, Cascade, SessionsOf
<1>3. CASE TrashRepository(r)
  BY <1>3 DEF TrashRepository, Cascade, SessionsOf
<1>4. CASE RestoreRepository(r)
  BY <1>4 DEF RestoreRepository, SessionsOf
<1>5. CASE RepositoryCutShort(r)
  BY <1>5 DEF RepositoryCutShort, WriteRow
<1> QED  BY <1>1, <1>2, <1>3, <1>4, <1>5 DEF RepositoryStep

LEMMA SessionKeepsStore ==
    ASSUME StoreInv, NEW s \in Sessions,
           StartSession(s) \/ RecordSession(s) \/ StartFails(s) \/ DeleteSession(s)
    PROVE  StoreInv'
<1> USE CatalogAssumption
    DEF StoreInv, RepoStates, Lifecycles, StartingAreNew, CascadeCanBeUndone
<1>1. CASE StartSession(s)
  BY <1>1 DEF StartSession, Register, WriteRow
<1>2. CASE RecordSession(s)
  BY <1>2 DEF RecordSession
<1>3. CASE StartFails(s)
  BY <1>3 DEF StartFails, storeVars
<1>4. CASE DeleteSession(s)
  BY <1>4 DEF DeleteSession, Stored
<1> QED  BY <1>1, <1>2, <1>3, <1>4

LEMMA UpdateKeepsStore ==
    ASSUME StoreInv, NEW ids \in SUBSET Sessions, NEW to \in {"open", "archived", "trashed"},
           UpdateLifecycle(ids, to), UNCHANGED <<repo, strayed, starting>>
    PROVE  StoreInv'
  BY DEF StoreInv, Lifecycles, StartingAreNew, CascadeCanBeUndone, UpdateLifecycle, Stored

LEMMA MergeKeepsStore ==
    ASSUME StoreInv, NEW seen \in [Sessions -> ThreadStates \cup {"unseen"}],
           Merge(seen), UNCHANGED <<repo, strayed, starting>>
    PROVE  StoreInv'
<1>1. \A s \in Sessions : Merged(seen)[s] = lifecycle[s] \/
         (lifecycle[s] \in {"open", "archived"} /\ Merged(seen)[s] \in {"open", "archived"})
  BY DEF StoreInv, Merged
<1>2. lifecycle' \in [Sessions -> Lifecycles]
  BY DEF StoreInv, Merge, Merged, Lifecycles
<1> QED  BY <1>1, <1>2 DEF StoreInv, StartingAreNew, CascadeCanBeUndone, Merge

(***************************************************************************)
(* The requests under way.                                                 *)
(***************************************************************************)
CallsInv == call \in [Calls -> CallRecords \cup {NoCall}] /\ OnlyResumesGoOn

LEMMA CallTurnsInto ==
    ASSUME CallsInv, NEW c \in Calls, NEW new \in CallRecords \cup {NoCall},
           call' = [call EXCEPT ![c] = new],
           new.stage \in {"restoring", "restored"} => new.op = "resume"
    PROVE  CallsInv'
  BY DEF CallsInv, OnlyResumesGoOn

LEMMA OverKeepsCalls ==
    ASSUME CallsInv, NEW c \in Calls, Over(c)
    PROVE  CallsInv'
  BY CallTurnsInto DEF Over, NoCall

LEMMA SendKeepsInv ==
    ASSUME CatalogInv, NEW c \in Calls, NEW op \in Ops, NEW ids \in SUBSET Sessions,
           Send(c, op, ids)
    PROVE  CatalogInv'
<1> DEFINE new == [op |-> op, ids |-> ids, stage |-> "sent", seen |-> Unseen]
<1>1. Unseen \in [Sessions -> ThreadStates \cup {"unseen"}]
  BY DEF Unseen
<1>2. new \in CallRecords
  BY <1>1 DEF CallRecords, CallStages
<1>3. CallsInv'
  BY <1>2, CallTurnsInto DEF CatalogInv, CatalogTypeOK, CallsInv, Send
<1> QED  BY <1>3 DEF CatalogInv, CatalogTypeOK, CallsInv, Send, storeVars,
                     StartingAreNew, CascadeCanBeUndone

LEMMA PerformedKeepsInv ==
    ASSUME CatalogInv, NEW c \in Calls, Performed(c)
    PROVE  CatalogInv'
<1> DEFINE new == [call[c] EXCEPT !.stage =
                     IF call[c].stage = "restoring" THEN "restored" ELSE "answered"]
<1>1. call[c] \in CallRecords
  BY CallTypes DEF CatalogInv, Performed, NoCall
<1>2. new \in CallRecords
  BY <1>1 DEF CallRecords, CallStages
<1>3. CallsInv'
  <2>1. call' = [call EXCEPT ![c] = new]
    BY DEF Performed, CatalogInv, CatalogTypeOK
  <2>2. new.stage \in {"restoring", "restored"} => new.op = "resume"
    BY <1>1 DEF CatalogInv, OnlyResumesGoOn, CallRecords
  <2>3. CallsInv
    BY DEF CatalogInv, CatalogTypeOK, CallsInv
  <2> HIDE DEF new
  <2> QED  BY <1>2, <2>1, <2>2, <2>3, CallTurnsInto
<1>4. thread' \in [Sessions -> ThreadStates]
  BY DEF CatalogInv, CatalogTypeOK, Performed, ProviderArchives, ProviderUnarchives,
         ThreadStates
<1> QED  BY <1>3, <1>4 DEF CatalogInv, CatalogTypeOK, CallsInv, Performed, storeVars,
                           StartingAreNew, CascadeCanBeUndone

LEMMA ListedKeepsInv ==
    ASSUME CatalogInv, NEW c \in Calls, Listed(c)
    PROVE  CatalogInv'
<1>1. PICK now \in [Sessions -> ThreadStates \cup {"unseen"}],
           stage \in {"answered", "halfway"} :
         call' = [call EXCEPT ![c] = [@ EXCEPT !.seen = now, !.stage = stage]]
  <2> DEFINE list == IF call[c].stage = "sent" THEN "open" ELSE "archived"
             now == [s \in Sessions |->
                       IF s \in call[c].ids /\ call[c].seen[s] = "unseen" /\ thread[s] = list
                       THEN list ELSE call[c].seen[s]]
  <2>1. now \in [Sessions -> ThreadStates \cup {"unseen"}]
    BY CallTypes DEF CatalogInv, ThreadStates
  <2> QED  BY <2>1 DEF Listed
<1>2. call[c] \in CallRecords
  BY CallTypes DEF CatalogInv, Listed, NoCall, Mutations
<1> DEFINE new == [call[c] EXCEPT !.seen = now, !.stage = stage]
<1>3. new \in CallRecords /\ new.stage \in {"answered", "halfway"}
  BY <1>2 DEF CallRecords, CallStages
<1>4. call' = [call EXCEPT ![c] = new]
  BY <1>1 DEF CatalogInv, CatalogTypeOK
<1>5. CallsInv'
  BY <1>3, <1>4, CallTurnsInto DEF CatalogInv, CatalogTypeOK, CallsInv
<1> QED  BY <1>5 DEF CatalogInv, CatalogTypeOK, CallsInv, Listed, storeVars,
                     StartingAreNew, CascadeCanBeUndone

LEMMA AnswerKeepsInv ==
    ASSUME CatalogInv, NEW c \in Calls,
           \/ MutationLands(c) \/ ReconcileLands(c)
           \/ ResumeAsksForRestore(c) \/ ResumeFindsItOpen(c) \/ ResumeRestores(c)
    PROVE  CatalogInv'
<1>1. StoreInv
  BY DEF CatalogInv, CatalogTypeOK, StoreInv
<1>2. UNCHANGED <<repo, strayed, starting, thread>>
  BY DEF MutationLands, ReconcileLands, ResumeAsksForRestore, ResumeFindsItOpen,
         ResumeRestores
<1>3. StoreInv'
  <2>1. CASE MutationLands(c)
    BY <1>1, <1>2, <2>1, CallTypes, UpdateKeepsStore DEF MutationLands, CatalogInv
  <2>2. CASE ReconcileLands(c) \/ ResumeAsksForRestore(c) \/ ResumeFindsItOpen(c)
    BY <1>1, <1>2, <2>2, CallTypes, MergeKeepsStore
    DEF ReconcileLands, ResumeAsksForRestore, ResumeFindsItOpen, CatalogInv
  <2>3. CASE ResumeRestores(c)
    BY <1>1, <1>2, <2>3, CallTypes, UpdateKeepsStore DEF ResumeRestores, CatalogInv
  <2> QED  BY <2>1, <2>2, <2>3
<1>4. CallsInv'
  <2>1. CallsInv
    BY DEF CatalogInv, CatalogTypeOK, CallsInv
  <2>2. CASE Over(c)
    BY <2>1, <2>2, OverKeepsCalls
  <2>3. CASE ResumeAsksForRestore(c)
    <3> DEFINE new == [call[c] EXCEPT !.stage = "restoring"]
    <3>1. call[c] \in CallRecords
      BY <2>3, CallTypes DEF CatalogInv, ResumeAsksForRestore, NoCall
    <3>2. new \in CallRecords /\ new.op = "resume"
      BY <2>3, <3>1 DEF CallRecords, CallStages, ResumeAsksForRestore
    <3>3. call' = [call EXCEPT ![c] = new]
      BY <2>3 DEF ResumeAsksForRestore, CatalogInv, CatalogTypeOK
    <3> QED  BY <2>1, <3>2, <3>3, CallTurnsInto
  <2> QED  BY <2>2, <2>3 DEF MutationLands, ReconcileLands, ResumeFindsItOpen, ResumeRestores
<1> QED  BY <1>2, <1>3, <1>4 DEF CatalogInv, CatalogTypeOK, StoreInv, CallsInv

LEMMA FailureKeepsInv ==
    ASSUME CatalogInv, NEW c \in Calls, CallFails(c)
    PROVE  CatalogInv'
<1>1. CallsInv
  BY DEF CatalogInv, CatalogTypeOK, CallsInv
<1>2. CallsInv'
  <2>1. CASE Over(c)
    BY <1>1, <2>1, OverKeepsCalls
  <2>2. CASE ~Over(c)
    <3> DEFINE new == [call[c] EXCEPT !.stage = "answered", !.seen = Unseen]
    <3>1. call[c] \in CallRecords
      BY CallTypes DEF CatalogInv, CallFails
    <3>2. Unseen \in [Sessions -> ThreadStates \cup {"unseen"}]
      BY DEF Unseen
    <3>3. new \in CallRecords /\ new.stage = "answered"
      BY <3>1, <3>2 DEF CallRecords, CallStages
    <3>4. call' = [call EXCEPT ![c] = new]
      BY <2>2 DEF CallFails, CatalogInv, CatalogTypeOK
    <3> QED  BY <1>1, <3>3, <3>4, CallTurnsInto
  <2> QED  BY <2>1, <2>2
<1> QED  BY <1>2 DEF CatalogInv, CatalogTypeOK, CallsInv, CallFails, storeVars,
                     StartingAreNew, CascadeCanBeUndone

(***************************************************************************)
(* All steps.                                                              *)
(***************************************************************************)
LEMMA StoreStep ==
    ASSUME CatalogInv, StoreInv', UNCHANGED call, thread' \in [Sessions -> ThreadStates]
    PROVE  CatalogInv'
  BY DEF CatalogInv, CatalogTypeOK, StoreInv, OnlyResumesGoOn

LEMMA NextCatalogInv ==
    ASSUME CatalogInv, [CatalogNext]_catalogVars
    PROVE  CatalogInv'
<1>1. StoreInv /\ thread \in [Sessions -> ThreadStates]
  BY DEF CatalogInv, CatalogTypeOK, StoreInv
<1>2. ASSUME NEW r \in Repos, RepositoryStep(r) PROVE CatalogInv'
  <2>1. UNCHANGED <<call, thread>>
    BY <1>2 DEF RepositoryStep, RegisterRepository, ArchiveRepository,
                TrashRepository, RestoreRepository, RepositoryCutShort
  <2> QED  BY <1>1, <1>2, <2>1, RepositoryKeepsStore, StoreStep
<1>3. ASSUME NEW s \in Sessions,
             StartSession(s) \/ RecordSession(s) \/ StartFails(s) \/ DeleteSession(s)
      PROVE  CatalogInv'
  <2>1. UNCHANGED <<call, thread>>
    BY <1>3 DEF StartSession, RecordSession, StartFails, DeleteSession
  <2> QED  BY <1>1, <1>3, <2>1, SessionKeepsStore, StoreStep
<1>4. ASSUME NEW s \in Sessions, OtherClient(s) PROVE CatalogInv'
  <2>1. StoreInv'
    BY <1>1, <1>4 DEF OtherClient, storeVars, StoreInv, StartingAreNew, CascadeCanBeUndone
  <2>2. UNCHANGED call /\ thread' \in [Sessions -> ThreadStates]
    BY <1>1, <1>4 DEF OtherClient, ThreadStates
  <2> QED  BY <2>1, <2>2, StoreStep
<1>5. CASE SessionRequest
  <2>1. PICK c \in Calls, op \in Ops, ids \in SUBSET Sessions : Send(c, op, ids)
    <3>1. ASSUME NEW c \in Calls, NEW op \in Mutations \cup {"resume"}, NEW s \in Sessions,
                 AskForSession(c, op, s)
          PROVE  \E o \in Ops, ids \in SUBSET Sessions : Send(c, o, ids)
      BY <3>1 DEF AskForSession, Ops
    <3>2. ASSUME NEW c \in Calls, NEW r \in Repos, AskForRepository(c, r)
          PROVE  \E o \in Ops, ids \in SUBSET Sessions : Send(c, o, ids)
      <4>1. {s \in SessionsOf(r) : Stored(s)} \in SUBSET Sessions
        BY DEF SessionsOf
      <4> QED  BY <3>2, <4>1 DEF AskForRepository, Ops
    <3> QED  BY <1>5, <3>1, <3>2 DEF SessionRequest
  <2> QED  BY <2>1, SendKeepsInv
<1>6. ASSUME NEW c \in Calls, CallStep(c) PROVE CatalogInv'
  BY <1>6, PerformedKeepsInv, ListedKeepsInv, AnswerKeepsInv, FailureKeepsInv DEF CallStep
<1>7. CASE CatalogCrash
  <2>1. OnlyResumesGoOn'
    BY <1>7 DEF CatalogCrash, OnlyResumesGoOn, NoCall
  <2>2. CatalogTypeOK' /\ StartingAreNew' /\ CascadeCanBeUndone'
    BY <1>1, <1>7
    DEF CatalogInv, CatalogCrash, CatalogTypeOK, storeVars, StartingAreNew, CascadeCanBeUndone
  <2> QED  BY <2>1, <2>2 DEF CatalogInv
<1>8. CASE UNCHANGED catalogVars
  BY <1>8 DEF catalogVars, storeVars, CatalogInv, CatalogTypeOK, StartingAreNew,
              CascadeCanBeUndone, OnlyResumesGoOn
<1> QED
  BY <1>2, <1>3, <1>4, <1>5, <1>6, <1>7, <1>8 DEF CatalogNext

LEMMA SpecCatalogInv == CatalogSpec => []CatalogInv
  BY InitCatalogInv, NextCatalogInv, PTL DEF CatalogSpec

(* The catalog keeps its types, whatever requests are under way.           *)
THEOREM CatalogTypeCorrect == CatalogSpec => []CatalogTypeOK
  BY SpecCatalogInv, PTL DEF CatalogInv

(* However requests, reconciliations and crashes interleave, what          *)
(* archiveCascaded moved can be brought back by restoreCascaded, unless    *)
(* the repository was registered again in between, or the daemon died (or  *)
(* a write failed) between the two writes that restore or trash it.        *)
THEOREM CascadesCanBeUndone == CatalogSpec => []CascadeCanBeUndone
  BY SpecCatalogInv, PTL DEF CatalogInv

(***************************************************************************)
(* Who brings a session back.                                              *)
(***************************************************************************)
StaysAway ==
    \A s \in Sessions :
        (lifecycle[s] = "trashed" \/ s \in cascaded) /\ lifecycle'[s] = "open"
        => BroughtBack(s)

LEMMA StepStaysAway ==
    ASSUME CatalogInv, [CatalogNext]_catalogVars
    PROVE  StaysAway
<1> SUFFICES ASSUME NEW s \in Sessions,
                    lifecycle[s] = "trashed" \/ s \in cascaded, lifecycle'[s] = "open"
             PROVE  BroughtBack(s)
  BY DEF StaysAway
<1>1. lifecycle[s] \in {"archived", "trashed"} /\ s \notin starting
  BY DEF CatalogInv, CascadeCanBeUndone, StartingAreNew
<1>2. ASSUME NEW c \in Calls, MutationLands(c) \/ ResumeRestores(c) PROVE BroughtBack(s)
  <2>1. s \in call[c].ids /\ call[c].op \in {"restore", "resume"}
    BY <1>1, <1>2
    DEF MutationLands, ResumeRestores, UpdateLifecycle, Mutations, CatalogInv, CatalogTypeOK,
        OnlyResumesGoOn
  <2>2. call'[c] = NoCall
    BY <1>2 DEF MutationLands, ResumeRestores, Over, CatalogInv, CatalogTypeOK
  <2> QED  BY <2>1, <2>2 DEF BroughtBack
<1>3. ASSUME NEW c \in Calls,
             ReconcileLands(c) \/ ResumeAsksForRestore(c) \/ ResumeFindsItOpen(c)
      PROVE  FALSE
  BY <1>1, <1>3
  DEF ReconcileLands, ResumeAsksForRestore, ResumeFindsItOpen, Merge, Merged
<1>4. ASSUME NEW r \in Repos, RepositoryStep(r) PROVE BroughtBack(s)
  <2>1. CASE RestoreRepository(r)
    <3>1. /\ s \in SessionsOf(r) \cap cascaded /\ repo[r] = "archived"
          /\ repo' = [repo EXCEPT ![r] = "active"]
      BY <1>1, <2>1 DEF RestoreRepository
    <3> QED  BY <3>1 DEF BroughtBack, SessionsOf, CatalogInv, CatalogTypeOK
  <2>2. CASE ~RestoreRepository(r)
    BY <1>1, <1>4, <2>2
    DEF RepositoryStep, RegisterRepository, ArchiveRepository, TrashRepository, Cascade,
        RepositoryCutShort
  <2> QED  BY <2>1, <2>2
<1>5. ASSUME NEW t \in Sessions, RecordSession(t) PROVE FALSE
  BY <1>1, <1>5 DEF RecordSession, CatalogInv, CatalogTypeOK
<1>6. ASSUME NEW t \in Sessions,
             StartSession(t) \/ StartFails(t) \/ DeleteSession(t) \/ OtherClient(t)
      PROVE  FALSE
  BY <1>1, <1>6
  DEF StartSession, StartFails, DeleteSession, OtherClient, storeVars, CatalogInv, CatalogTypeOK
<1>7. ASSUME NEW c \in Calls, Performed(c) \/ Listed(c) \/ CallFails(c) PROVE FALSE
  BY <1>1, <1>7 DEF Performed, Listed, CallFails, storeVars
<1>8. SessionRequest => FALSE
  BY <1>1 DEF SessionRequest, AskForSession, AskForRepository, Send, storeVars
<1>9. CatalogCrash \/ UNCHANGED catalogVars => FALSE
  BY <1>1 DEF CatalogCrash, catalogVars, storeVars
<1> QED
  BY <1>2, <1>3, <1>4, <1>5, <1>6, <1>7, <1>8, <1>9 DEF CatalogNext, CallStep

(* What was put away comes back by a request for it only: no               *)
(* reconciliation, of however many with however old lists, brings it back. *)
THEOREM PutAwaySessionsStayAway == CatalogSpec => PutAwayStaysAway
<1>1. CatalogInv /\ [CatalogNext]_catalogVars => [StaysAway]_catalogVars
  BY StepStaysAway
<1> QED  BY <1>1, SpecCatalogInv, PTL DEF CatalogSpec, PutAwayStaysAway, StaysAway

-----------------------------------------------------------------------------

(***************************************************************************)
(* The inductive invariant.  A session being started has its turn, which   *)
(* is the only one; the other sessions' turns are told apart by the        *)
(* records the code keeps of them as long as no turn has been begun before *)
(* another was over.                                                       *)
(***************************************************************************)
StartsAreNew ==
    /\ \A r \in Runs : run[r].stage = "starting" =>
          /\ run[r].session \in starting
          /\ ~run[r].resumed /\ ~run[r].erred
          /\ run[r].aborted => stopping
    /\ \A r, q \in Runs :
          /\ run[r].stage = "starting" /\ run[q].stage = "starting"
          /\ run[r].session = run[q].session
          => r = q

NewIsUntouched ==
    \A s \in Sessions : lifecycle[s] = "new" =>
        /\ runStatus[s] = "idle" /\ activeTurn[s] = None
        /\ s \notin cancelledTurns /\ s \notin cutOff
        /\ \A r \in Runs : run[r].session = s => run[r].stage # "working"

(* Whoever is to be aborted is a turn of the session.                      *)
ActiveTurnIsOwn ==
    \A s \in Sessions : activeTurn[s] # None =>
        run[activeTurn[s]].session = s /\ run[activeTurn[s]].stage # "unused"

TurnsHaveSessions == \A r \in Runs : run[r].session = None <=> run[r].stage = "unused"

OneLiveTurn ==
    \A s \in Sessions \ overlapped : \A r, q \in LiveIn(s) : r = q

LiveIsMapped ==
    \A s \in Sessions \ overlapped : \A r \in LiveIn(s) : r \in mapped

StoppingStops ==
    stopping => \A s \in Sessions \ overlapped : \A r \in LiveIn(s) : run[r].aborted

(* A cancelled turn is awaited, and nothing else is.                       *)
CancelledIsAwaited ==
    \A s \in (Sessions \ overlapped) \cap cancelledTurns :
        \E r \in LiveIn(s) : run[r].stage = "working" /\ run[r].aborted /\ ~run[r].erred

AwaitedIsCancelled ==
    \A s \in Sessions \ overlapped : runStatus[s] = "cancelled" =>
        \A r \in LiveIn(s) : run[r].erred \/ s \in cancelledTurns

(* A session whose turn was cut off never has another.                     *)
CutOffIsOver ==
    \A s \in cutOff :
        /\ runStatus[s] = "running" /\ activeTurn[s] = None
        /\ LiveIn(s) = {}

TurnTypes ==
    /\ runStatus \in [Sessions -> RunStatuses]
    /\ run \in [Runs -> RunRecords]
    /\ activeTurn \in [Sessions -> Runs \cup {None}]
    /\ cancelledTurns \subseteq Sessions
    /\ mapped \subseteq Runs
    /\ stopping \in BOOLEAN
    /\ overlapped \subseteq Sessions
    /\ cutOff \subseteq Sessions

TurnInv ==
    /\ TurnTypes
    /\ StartsAreNew
    /\ NewIsUntouched
    /\ ActiveTurnIsOwn
    /\ TurnsHaveSessions
    /\ OneLiveTurn
    /\ LiveIsMapped
    /\ StoppingStops
    /\ CancelledIsAwaited
    /\ AwaitedIsCancelled
    /\ CutOffIsOver
    /\ TurnsAreKnown

(***************************************************************************)
(* The catalog under the turns.                                            *)
(***************************************************************************)
LEMMA TurnsKeepCatalog ==
    ASSUME CatalogInv, [Next]_vars
    PROVE  [CatalogNext]_catalogVars
<1> \A s \in starting : s \in Sessions
  BY DEF CatalogInv, CatalogTypeOK
<1>1. CASE CatalogOnly
  BY <1>1 DEF CatalogOnly, CatalogNext, CallStep
<1>2. ASSUME NEW r \in Runs, NEW s \in Sessions, StartPrompt(r, s)
      PROVE  CatalogNext
  BY <1>2 DEF StartPrompt, CatalogNext
<1>3. ASSUME NEW r \in Runs, RunStep(r)
      PROVE  [CatalogNext]_catalogVars
  <2>1. CASE Reported(r)
    BY <2>1 DEF Reported, CatalogNext, RecordSession
  <2>2. CASE Unreported(r)
    BY <2>2 DEF Unreported, CatalogNext, StartFails
  <2>3. CASE Errs(r) \/ Completes(r) \/ IsAborted(r) \/ EndsAfterError(r)
    BY <2>3 DEF Errs, Completes, IsAborted, EndsAfterError
  <2> QED  BY <1>3, <2>1, <2>2, <2>3 DEF RunStep, RunEnds
<1>4. ASSUME NEW c \in Calls, ResumeFromBrowser(c) PROVE CatalogNext
  BY <1>4 DEF ResumeFromBrowser, CatalogNext, CallStep
<1>5. ASSUME NEW s \in Sessions, ResumeFromTool(s) \/ Cancel(s)
      PROVE  UNCHANGED catalogVars
  BY <1>5 DEF ResumeFromTool, Cancel
<1>6. CASE Shutdown \/ Crash
  BY <1>6 DEF Shutdown, Crash, CatalogNext
<1> QED  BY <1>1, <1>2, <1>3, <1>4, <1>5, <1>6 DEF Next, vars

(* Sessions come and go in the catalog as if there were no turns: every    *)
(* behaviour of CodingTurns is one of CodingCatalog.                       *)
THEOREM ImplementsCatalog == Spec => CatalogSpec
<1>1. Init => CatalogInit
  BY DEF Init
<1>2. CatalogInit => CatalogInv
  BY InitCatalogInv
<1>3. CatalogInv /\ [Next]_vars => [CatalogNext]_catalogVars
  BY TurnsKeepCatalog
<1>4. CatalogInv /\ [CatalogNext]_catalogVars => CatalogInv'
  BY NextCatalogInv
<1> QED  BY <1>1, <1>2, <1>3, <1>4, PTL DEF Spec, CatalogSpec

(***************************************************************************)
(* One lemma per action.  What happens in the catalog meanwhile matters    *)
(* little: rows of sessions appear only with a report of the provider.     *)
(***************************************************************************)
KeepsRows ==
    /\ UNCHANGED starting
    /\ \A s \in Sessions : lifecycle'[s] = "new" <=> lifecycle[s] = "new"
    /\ \A s \in Sessions : Stored(s)' => Stored(s)

LEMMA CatalogKeepsRows ==
    ASSUME CatalogInv,
           \/ CatalogOnly
           \/ \E c \in Calls : ResumeFindsItOpen(c) \/ ResumeRestores(c)
           \/ UNCHANGED catalogVars
    PROVE  KeepsRows
<1> USE DEF KeepsRows, Stored
<1>0. lifecycle \in [Sessions -> Lifecycles]
  BY DEF CatalogInv, CatalogTypeOK
<1>1. CASE UNCHANGED <<lifecycle, starting>>
  BY <1>1
<1>2. ASSUME NEW ids, NEW to \in {"open", "archived", "trashed"},
             UpdateLifecycle(ids, to), UNCHANGED starting
      PROVE  KeepsRows
  BY <1>2 DEF UpdateLifecycle
<1>3. ASSUME NEW seen, Merge(seen), UNCHANGED starting
      PROVE  KeepsRows
  BY <1>3 DEF Merge, Merged
<1>4. ASSUME NEW r \in Repos, RepositoryStep(r) PROVE KeepsRows
  BY <1>0, <1>4 DEF RepositoryStep, RegisterRepository, ArchiveRepository, TrashRepository,
     RestoreRepository, RepositoryCutShort, Cascade
<1>5. ASSUME NEW s \in Sessions, DeleteSession(s) PROVE KeepsRows
  BY <1>0, <1>5 DEF DeleteSession
<1>6. ASSUME NEW s \in Sessions, OtherClient(s) PROVE KeepsRows
  BY <1>1, <1>6 DEF OtherClient, storeVars
<1>7. CASE SessionRequest
  BY <1>1, <1>7 DEF SessionRequest, AskForSession, AskForRepository, Send, storeVars
<1>8. ASSUME NEW c \in Calls, Performed(c) \/ Listed(c) \/ CallFails(c) PROVE KeepsRows
  BY <1>1, <1>8 DEF Performed, Listed, CallFails, storeVars
<1>9. ASSUME NEW c \in Calls, MutationLands(c) \/ ResumeRestores(c) PROVE KeepsRows
  BY <1>2, <1>9 DEF MutationLands, ResumeRestores
<1>10. ASSUME NEW c \in Calls,
              ReconcileLands(c) \/ ResumeAsksForRestore(c) \/ ResumeFindsItOpen(c)
       PROVE  KeepsRows
  BY <1>3, <1>10 DEF ReconcileLands, ResumeAsksForRestore, ResumeFindsItOpen
<1> QED  BY <1>1, <1>4, <1>5, <1>6, <1>7, <1>8, <1>9, <1>10 DEF CatalogOnly, catalogVars, storeVars

LEMMA QuietKeepsInv ==
    ASSUME TurnInv, KeepsRows, UNCHANGED turnVars
    PROVE  TurnInv'
  BY DEF TurnInv, KeepsRows, turnVars, TurnTypes, StartsAreNew, NewIsUntouched,
     ActiveTurnIsOwn, TurnsHaveSessions, OneLiveTurn, LiveIsMapped, StoppingStops,
     CancelledIsAwaited, AwaitedIsCancelled, CutOffIsOver, TurnsAreKnown,
     LiveIn, HealthyIn, Live, Healthy

LEMMA RecordKeepsType ==
    ASSUME NEW rec \in RunRecords
    PROVE  /\ [rec EXCEPT !.stage = "over"] \in RunRecords
           /\ [rec EXCEPT !.aborted = TRUE] \in RunRecords
           /\ [rec EXCEPT !.erred = TRUE] \in RunRecords
  BY DEF RunRecords, RunStages

LEMMA RunsKeepType ==
    ASSUME run \in [Runs -> RunRecords],
           \/ \E r \in Runs : run' = [run EXCEPT ![r].erred = TRUE]
           \/ \E r \in Runs : run' = [run EXCEPT ![r].aborted = TRUE]
           \/ \E r \in Runs : run' = [run EXCEPT ![r].stage = "over"]
           \/ Shutdown
           \/ Crash
    PROVE  run' \in [Runs -> RunRecords]
<1>1. CASE Shutdown \/ Crash
  BY <1>1, RecordKeepsType DEF Shutdown, Crash
<1>2. ASSUME NEW r \in Runs, run' = [run EXCEPT ![r].erred = TRUE]
      PROVE  run' \in [Runs -> RunRecords]
  BY <1>2, RecordKeepsType
<1>3. ASSUME NEW r \in Runs, run' = [run EXCEPT ![r].aborted = TRUE]
      PROVE  run' \in [Runs -> RunRecords]
  BY <1>3, RecordKeepsType
<1>4. ASSUME NEW r \in Runs, run' = [run EXCEPT ![r].stage = "over"]
      PROVE  run' \in [Runs -> RunRecords]
  BY <1>4, RecordKeepsType
<1> QED  BY <1>1, <1>2, <1>3, <1>4

LEMMA StartKeepsInv ==
    ASSUME CatalogInv, TurnInv, NEW r \in Runs, NEW s \in Sessions, StartPrompt(r, s)
    PROVE  TurnInv'
<1> USE TurnAssumption
    DEF catalogVars, storeVars, RunRecords, RunStages, RunStatuses, LiveIn,
        HealthyIn, Live, Healthy, KeepsRows, Stored, StartPrompt,
        StartSession, Filed, NoRun
<1> lifecycle \in [Sessions -> Lifecycles] /\ starting \subseteq Sessions
  BY DEF CatalogInv, CatalogTypeOK
<1>1. TurnTypes'
  <2>1. run' \in [Runs -> RunRecords]
    BY DEF TurnInv, TurnTypes
  <2> HIDE DEF RunRecords
  <2> QED  BY <2>1 DEF TurnInv, TurnTypes, TurnsHaveSessions
<1>2. StartsAreNew'
  BY DEF TurnInv, TurnTypes, StartsAreNew
<1>3. NewIsUntouched'
  BY DEF TurnInv, TurnTypes, NewIsUntouched
<1>4. ActiveTurnIsOwn'
  BY DEF TurnInv, TurnTypes, ActiveTurnIsOwn
<1>5. TurnsHaveSessions'
  BY DEF TurnInv, TurnTypes, TurnsHaveSessions
<1>6. OneLiveTurn'
  BY DEF TurnInv, TurnTypes, StartsAreNew, NewIsUntouched, OneLiveTurn,
         TurnsAreKnown
<1>7. LiveIsMapped'
  BY DEF TurnInv, TurnTypes, LiveIsMapped
<1>8. StoppingStops'
  BY DEF TurnInv, TurnTypes, StoppingStops
<1>9. CancelledIsAwaited'
  BY DEF TurnInv, TurnTypes, CancelledIsAwaited
<1>10. AwaitedIsCancelled'
  BY DEF TurnInv, TurnTypes, StartsAreNew, NewIsUntouched, ActiveTurnIsOwn,
         TurnsHaveSessions, OneLiveTurn, LiveIsMapped, StoppingStops,
         CancelledIsAwaited, AwaitedIsCancelled, CutOffIsOver, TurnsAreKnown
<1>11. CutOffIsOver'
  BY DEF TurnInv, TurnTypes, NewIsUntouched, TurnsHaveSessions, CutOffIsOver
<1>12. TurnsAreKnown'
  BY DEF TurnInv, TurnTypes, TurnsAreKnown
<1> QED  BY <1>1, <1>2, <1>3, <1>4, <1>5, <1>6, <1>7, <1>8, <1>9, <1>10, <1>11, <1>12 DEF TurnInv

LEMMA ReportKeepsInv ==
    ASSUME CatalogInv, TurnInv, NEW r \in Runs, Reported(r)
    PROVE  TurnInv'
<1> USE TurnAssumption
    DEF catalogVars, storeVars, RunRecords, RunStages, RunStatuses, LiveIn,
        HealthyIn, Live, Healthy, KeepsRows, Stored, Reported,
        RecordSession, Track
<1> lifecycle \in [Sessions -> Lifecycles] /\ starting \subseteq Sessions
  BY DEF CatalogInv, CatalogTypeOK
<1>1. TurnTypes'
  <2>1. run' \in [Runs -> RunRecords]
    BY DEF TurnInv, TurnTypes
  <2> HIDE DEF RunRecords
  <2> QED  BY <2>1 DEF TurnInv, TurnTypes, TurnsHaveSessions
<1>2. StartsAreNew'
  BY DEF TurnInv, TurnTypes, StartsAreNew
<1>3. NewIsUntouched'
  BY DEF TurnInv, TurnTypes, NewIsUntouched
<1>4. ActiveTurnIsOwn'
  BY DEF TurnInv, TurnTypes, ActiveTurnIsOwn
<1>5. TurnsHaveSessions'
  BY DEF TurnInv, TurnTypes, TurnsHaveSessions
<1>6. OneLiveTurn'
  BY DEF TurnInv, TurnTypes, OneLiveTurn
<1>7. LiveIsMapped'
  BY DEF TurnInv, TurnTypes, LiveIsMapped
<1>8. StoppingStops'
  BY DEF TurnInv, TurnTypes, StoppingStops
<1>9. CancelledIsAwaited'
  BY DEF TurnInv, TurnTypes, CancelledIsAwaited
<1>10. AwaitedIsCancelled'
  BY DEF TurnInv, TurnTypes, AwaitedIsCancelled
<1>11. CutOffIsOver'
  BY DEF TurnInv, TurnTypes, CutOffIsOver
<1>12. TurnsAreKnown'
  BY DEF TurnInv, TurnTypes, StartsAreNew, NewIsUntouched, ActiveTurnIsOwn,
         TurnsHaveSessions, OneLiveTurn, LiveIsMapped, StoppingStops,
         CancelledIsAwaited, AwaitedIsCancelled, CutOffIsOver, TurnsAreKnown
<1> QED  BY <1>1, <1>2, <1>3, <1>4, <1>5, <1>6, <1>7, <1>8, <1>9, <1>10, <1>11, <1>12 DEF TurnInv

LEMMA NoReportKeepsInv ==
    ASSUME CatalogInv, TurnInv, NEW r \in Runs, Unreported(r)
    PROVE  TurnInv'
<1> USE TurnAssumption
    DEF catalogVars, storeVars, RunRecords, RunStages, RunStatuses, LiveIn,
        HealthyIn, Live, Healthy, KeepsRows, Stored, Unreported, StartFails,
        LaneOver, SameLaneKey
<1> lifecycle \in [Sessions -> Lifecycles] /\ starting \subseteq Sessions
  BY DEF CatalogInv, CatalogTypeOK
<1>1. TurnTypes'
  <2>1. run' \in [Runs -> RunRecords]
    BY RunsKeepType DEF TurnInv, TurnTypes
  <2> HIDE DEF RunRecords
  <2> QED  BY <2>1 DEF TurnInv, TurnTypes, TurnsHaveSessions
<1>2. StartsAreNew'
  BY DEF TurnInv, TurnTypes, StartsAreNew
<1>3. NewIsUntouched'
  BY DEF TurnInv, TurnTypes, NewIsUntouched
<1>4. ActiveTurnIsOwn'
  BY DEF TurnInv, TurnTypes, ActiveTurnIsOwn
<1>5. TurnsHaveSessions'
  BY DEF TurnInv, TurnTypes, TurnsHaveSessions
<1>6. OneLiveTurn'
  BY DEF TurnInv, TurnTypes, OneLiveTurn
<1>7. LiveIsMapped'
  BY DEF TurnInv, TurnTypes, OneLiveTurn, LiveIsMapped, TurnsAreKnown
<1>8. StoppingStops'
  BY DEF TurnInv, TurnTypes, StoppingStops
<1>9. CancelledIsAwaited'
  BY DEF TurnInv, TurnTypes, CancelledIsAwaited
<1>10. AwaitedIsCancelled'
  BY DEF TurnInv, TurnTypes, AwaitedIsCancelled
<1>11. CutOffIsOver'
  BY DEF TurnInv, TurnTypes, CutOffIsOver
<1>12. TurnsAreKnown'
  <2> SUFFICES ASSUME NEW s \in Sessions \ (overlapped \cup cutOff), Stored(s), ~stopping
               PROVE  IF runStatus[s] = "running"
                      THEN LiveIn(s)' = {activeTurn[s]} /\ Healthy(activeTurn[s])'
                      ELSE activeTurn[s] = None /\ HealthyIn(s)' = {}
    BY DEF TurnsAreKnown
  <2>1. run[r].session # s
    BY DEF TurnInv, StartsAreNew, CatalogInv, StartingAreNew
  <2>2. \A q \in Runs : run[q].session = s => run'[q] = run[q]
    BY <2>1 DEF TurnInv, TurnTypes
  <2>3. \A q \in Runs : run'[q].session = run[q].session
    BY DEF TurnInv, TurnTypes
  <2>4. LiveIn(s)' = LiveIn(s) /\ HealthyIn(s)' = HealthyIn(s)
    BY <2>2, <2>3
  <2>5. activeTurn[s] # None => run'[activeTurn[s]] = run[activeTurn[s]]
    BY <2>2 DEF TurnInv, ActiveTurnIsOwn, TurnTypes
  <2> QED  BY <2>4, <2>5 DEF TurnInv, TurnsAreKnown, TurnTypes
<1> QED  BY <1>1, <1>2, <1>3, <1>4, <1>5, <1>6, <1>7, <1>8, <1>9, <1>10, <1>11, <1>12 DEF TurnInv

LEMMA TurnKeepsInv ==
    ASSUME CatalogInv, TurnInv, KeepsRows, NEW r \in Runs, NEW s \in Sessions,
           NewTurn(r, s), lifecycle'[s] = "open", ~Busy(s), ~stopping
    PROVE  TurnInv'
<1> USE TurnAssumption
    DEF catalogVars, storeVars, RunRecords, RunStages, RunStatuses, LiveIn,
        HealthyIn, Live, Healthy, KeepsRows, Stored, NewTurn, Filed, Track,
        NoRun, Busy, SameLaneKey
<1> lifecycle \in [Sessions -> Lifecycles] /\ starting \subseteq Sessions
  BY DEF CatalogInv, CatalogTypeOK
<1>1. TurnTypes'
  <2>1. run' \in [Runs -> RunRecords]
    BY DEF TurnInv, TurnTypes
  <2> HIDE DEF RunRecords
  <2> QED  BY <2>1 DEF TurnInv, TurnTypes, TurnsHaveSessions
<1>2. StartsAreNew'
  BY DEF TurnInv, TurnTypes, StartsAreNew
<1>3. NewIsUntouched'
  BY DEF TurnInv, TurnTypes, NewIsUntouched
<1>4. ActiveTurnIsOwn'
  BY DEF TurnInv, TurnTypes, ActiveTurnIsOwn
<1>5. TurnsHaveSessions'
  BY DEF TurnInv, TurnTypes, TurnsHaveSessions
<1>6. OneLiveTurn'
  BY DEF TurnInv, TurnTypes, StartsAreNew, NewIsUntouched, ActiveTurnIsOwn,
         TurnsHaveSessions, OneLiveTurn, LiveIsMapped, StoppingStops,
         CancelledIsAwaited, AwaitedIsCancelled, CutOffIsOver, TurnsAreKnown
<1>7. LiveIsMapped'
  BY DEF TurnInv, TurnTypes, StartsAreNew, NewIsUntouched, ActiveTurnIsOwn,
         TurnsHaveSessions, OneLiveTurn, LiveIsMapped, StoppingStops,
         CancelledIsAwaited, AwaitedIsCancelled, CutOffIsOver, TurnsAreKnown
<1>8. StoppingStops'
  BY DEF TurnInv, TurnTypes, StoppingStops
<1>9. CancelledIsAwaited'
  BY DEF TurnInv, TurnTypes, CancelledIsAwaited
<1>10. AwaitedIsCancelled'
  BY DEF TurnInv, TurnTypes, AwaitedIsCancelled
<1>11. CutOffIsOver'
  BY DEF TurnInv, TurnTypes, CutOffIsOver
<1>12. TurnsAreKnown'
  BY DEF TurnInv, TurnTypes, TurnsAreKnown
<1> QED  BY <1>1, <1>2, <1>3, <1>4, <1>5, <1>6, <1>7, <1>8, <1>9, <1>10, <1>11, <1>12 DEF TurnInv

LEMMA ErrorKeepsInv ==
    ASSUME CatalogInv, TurnInv, NEW r \in Runs, Errs(r)
    PROVE  TurnInv'
<1> USE TurnAssumption
    DEF catalogVars, storeVars, RunRecords, RunStages, RunStatuses, LiveIn,
        HealthyIn, Live, Healthy, KeepsRows, Stored, Errs, Settles, Mark,
        Forget
<1> lifecycle \in [Sessions -> Lifecycles] /\ starting \subseteq Sessions
  BY DEF CatalogInv, CatalogTypeOK
<1>1. TurnTypes'
  <2>1. run' \in [Runs -> RunRecords]
    BY RunsKeepType DEF TurnInv, TurnTypes
  <2> HIDE DEF RunRecords
  <2> QED  BY <2>1 DEF TurnInv, TurnTypes, TurnsHaveSessions
<1>2. StartsAreNew'
  BY DEF TurnInv, TurnTypes, StartsAreNew
<1>3. NewIsUntouched'
  BY DEF TurnInv, TurnTypes, NewIsUntouched
<1>4. ActiveTurnIsOwn'
  BY DEF TurnInv, TurnTypes, ActiveTurnIsOwn
<1>5. TurnsHaveSessions'
  BY DEF TurnInv, TurnTypes, TurnsHaveSessions
<1>6. OneLiveTurn'
  BY DEF TurnInv, TurnTypes, OneLiveTurn
<1>7. LiveIsMapped'
  BY DEF TurnInv, TurnTypes, LiveIsMapped
<1>8. StoppingStops'
  BY DEF TurnInv, TurnTypes, StoppingStops
<1>9. CancelledIsAwaited'
  BY DEF TurnInv, TurnTypes, CancelledIsAwaited
<1>10. AwaitedIsCancelled'
  BY DEF TurnInv, TurnTypes, TurnsHaveSessions, OneLiveTurn,
         AwaitedIsCancelled
<1>11. CutOffIsOver'
  BY DEF TurnInv, TurnTypes, CutOffIsOver
<1>12. TurnsAreKnown'
  BY DEF TurnInv, TurnTypes, NewIsUntouched, TurnsHaveSessions, OneLiveTurn,
         CancelledIsAwaited, TurnsAreKnown
<1> QED  BY <1>1, <1>2, <1>3, <1>4, <1>5, <1>6, <1>7, <1>8, <1>9, <1>10, <1>11, <1>12 DEF TurnInv

LEMMA EndKeepsInv ==
    ASSUME CatalogInv, TurnInv, NEW r \in Runs, Completes(r)
    PROVE  TurnInv'
<1> USE TurnAssumption
    DEF catalogVars, storeVars, RunRecords, RunStages, RunStatuses, LiveIn,
        HealthyIn, Live, Healthy, KeepsRows, Stored, Completes, Settles,
        Mark, Forget, LaneOver, SameLaneKey
<1> lifecycle \in [Sessions -> Lifecycles] /\ starting \subseteq Sessions
  BY DEF CatalogInv, CatalogTypeOK
<1>1. TurnTypes'
  <2>1. run' \in [Runs -> RunRecords]
    BY RunsKeepType DEF TurnInv, TurnTypes
  <2> HIDE DEF RunRecords
  <2> QED  BY <2>1 DEF TurnInv, TurnTypes, TurnsHaveSessions
<1>2. StartsAreNew'
  BY DEF TurnInv, TurnTypes, StartsAreNew
<1>3. NewIsUntouched'
  BY DEF TurnInv, TurnTypes, NewIsUntouched
<1>4. ActiveTurnIsOwn'
  BY DEF TurnInv, TurnTypes, ActiveTurnIsOwn
<1>5. TurnsHaveSessions'
  BY DEF TurnInv, TurnTypes, TurnsHaveSessions
<1>6. OneLiveTurn'
  BY DEF TurnInv, TurnTypes, OneLiveTurn
<1>7. LiveIsMapped'
  BY DEF TurnInv, TurnTypes, OneLiveTurn, LiveIsMapped, TurnsAreKnown
<1>8. StoppingStops'
  BY DEF TurnInv, TurnTypes, StoppingStops
<1>9. CancelledIsAwaited'
  BY DEF TurnInv, TurnTypes, CancelledIsAwaited
<1>10. AwaitedIsCancelled'
  BY DEF TurnInv, TurnTypes, TurnsHaveSessions, OneLiveTurn,
         AwaitedIsCancelled
<1>11. CutOffIsOver'
  BY DEF TurnInv, TurnTypes, CutOffIsOver
<1>12. TurnsAreKnown'
  BY DEF TurnInv, TurnTypes, NewIsUntouched, TurnsHaveSessions, OneLiveTurn,
         CancelledIsAwaited, TurnsAreKnown
<1> QED  BY <1>1, <1>2, <1>3, <1>4, <1>5, <1>6, <1>7, <1>8, <1>9, <1>10, <1>11, <1>12 DEF TurnInv

LEMMA AbortKeepsInv ==
    ASSUME CatalogInv, TurnInv, NEW r \in Runs, IsAborted(r)
    PROVE  TurnInv'
<1> USE TurnAssumption
    DEF catalogVars, storeVars, RunRecords, RunStages, RunStatuses, LiveIn,
        HealthyIn, Live, Healthy, KeepsRows, Stored, IsAborted, Mark,
        Forget, LaneOver, SameLaneKey
<1> lifecycle \in [Sessions -> Lifecycles] /\ starting \subseteq Sessions
  BY DEF CatalogInv, CatalogTypeOK
<1>1. TurnTypes'
  <2>1. run' \in [Runs -> RunRecords]
    BY RunsKeepType DEF TurnInv, TurnTypes
  <2> HIDE DEF RunRecords
  <2> QED  BY <2>1 DEF TurnInv, TurnTypes, TurnsHaveSessions
<1>2. StartsAreNew'
  BY DEF TurnInv, TurnTypes, StartsAreNew
<1>3. NewIsUntouched'
  BY DEF TurnInv, TurnTypes, NewIsUntouched
<1>4. ActiveTurnIsOwn'
  BY DEF TurnInv, TurnTypes, ActiveTurnIsOwn
<1>5. TurnsHaveSessions'
  BY DEF TurnInv, TurnTypes, TurnsHaveSessions
<1>6. OneLiveTurn'
  BY DEF TurnInv, TurnTypes, OneLiveTurn
<1>7. LiveIsMapped'
  BY DEF TurnInv, TurnTypes, OneLiveTurn, LiveIsMapped, TurnsAreKnown
<1>8. StoppingStops'
  BY DEF TurnInv, TurnTypes, StoppingStops
<1>9. CancelledIsAwaited'
  BY DEF TurnInv, TurnTypes, CancelledIsAwaited
<1>10. AwaitedIsCancelled'
  BY DEF TurnInv, TurnTypes, TurnsHaveSessions, OneLiveTurn,
         AwaitedIsCancelled
<1>11. CutOffIsOver'
  BY DEF TurnInv, TurnTypes, CutOffIsOver
<1>12. TurnsAreKnown'
  BY DEF TurnInv, TurnTypes, TurnsAreKnown
<1> QED  BY <1>1, <1>2, <1>3, <1>4, <1>5, <1>6, <1>7, <1>8, <1>9, <1>10, <1>11, <1>12 DEF TurnInv

LEMMA SilenceKeepsInv ==
    ASSUME CatalogInv, TurnInv, NEW r \in Runs, EndsAfterError(r)
    PROVE  TurnInv'
<1> USE TurnAssumption
    DEF catalogVars, storeVars, RunRecords, RunStages, RunStatuses, LiveIn,
        HealthyIn, Live, Healthy, KeepsRows, Stored, EndsAfterError,
        LaneOver, SameLaneKey
<1> lifecycle \in [Sessions -> Lifecycles] /\ starting \subseteq Sessions
  BY DEF CatalogInv, CatalogTypeOK
<1>1. TurnTypes'
  <2>1. run' \in [Runs -> RunRecords]
    BY RunsKeepType DEF TurnInv, TurnTypes
  <2> HIDE DEF RunRecords
  <2> QED  BY <2>1 DEF TurnInv, TurnTypes, TurnsHaveSessions
<1>2. StartsAreNew'
  BY DEF TurnInv, TurnTypes, StartsAreNew
<1>3. NewIsUntouched'
  BY DEF TurnInv, TurnTypes, NewIsUntouched
<1>4. ActiveTurnIsOwn'
  BY DEF TurnInv, TurnTypes, ActiveTurnIsOwn
<1>5. TurnsHaveSessions'
  BY DEF TurnInv, TurnTypes, TurnsHaveSessions
<1>6. OneLiveTurn'
  BY DEF TurnInv, TurnTypes, OneLiveTurn
<1>7. LiveIsMapped'
  BY DEF TurnInv, TurnTypes, OneLiveTurn, LiveIsMapped, TurnsAreKnown
<1>8. StoppingStops'
  BY DEF TurnInv, TurnTypes, StoppingStops
<1>9. CancelledIsAwaited'
  BY DEF TurnInv, TurnTypes, CancelledIsAwaited
<1>10. AwaitedIsCancelled'
  BY DEF TurnInv, TurnTypes, AwaitedIsCancelled
<1>11. CutOffIsOver'
  BY DEF TurnInv, TurnTypes, CutOffIsOver
<1>12. TurnsAreKnown'
  BY DEF TurnInv, TurnTypes, TurnsAreKnown
<1> QED  BY <1>1, <1>2, <1>3, <1>4, <1>5, <1>6, <1>7, <1>8, <1>9, <1>10, <1>11, <1>12 DEF TurnInv

LEMMA CancelKeepsInv ==
    ASSUME CatalogInv, TurnInv, NEW s \in Sessions, Cancel(s),
           NEW r \in Runs, r = activeTurn[s], Live(r), ~run[r].aborted
    PROVE  TurnInv'
<1> USE TurnAssumption
    DEF catalogVars, storeVars, RunRecords, RunStages, RunStatuses, LiveIn,
        HealthyIn, Live, Healthy, KeepsRows, Stored, Cancel, Mark, Forget
<1> lifecycle \in [Sessions -> Lifecycles] /\ starting \subseteq Sessions
  BY DEF CatalogInv, CatalogTypeOK
<1>a. run[r].session = s /\ run[r].stage = "working"
  BY DEF TurnInv, TurnTypes, StartsAreNew, NewIsUntouched, ActiveTurnIsOwn,
         CatalogInv, StartingAreNew
<1>b. s \notin overlapped => ~run[r].erred /\ ~stopping
  BY <1>a DEF TurnInv, TurnTypes, StoppingStops, CutOffIsOver, TurnsAreKnown
<1>1. TurnTypes'
  <2>1. run' \in [Runs -> RunRecords]
    BY RunsKeepType DEF TurnInv, TurnTypes
  <2> HIDE DEF RunRecords
  <2> QED  BY <2>1 DEF TurnInv, TurnTypes, TurnsHaveSessions
<1>2. StartsAreNew'
  BY <1>a DEF TurnInv, TurnTypes, StartsAreNew
<1>3. NewIsUntouched'
  BY DEF TurnInv, TurnTypes, NewIsUntouched
<1>4. ActiveTurnIsOwn'
  BY DEF TurnInv, TurnTypes, ActiveTurnIsOwn
<1>5. TurnsHaveSessions'
  BY DEF TurnInv, TurnTypes, TurnsHaveSessions
<1>6. OneLiveTurn'
  BY DEF TurnInv, TurnTypes, OneLiveTurn
<1>7. LiveIsMapped'
  BY DEF TurnInv, TurnTypes, LiveIsMapped
<1>8. StoppingStops'
  BY DEF TurnInv, TurnTypes, StoppingStops
<1>9. CancelledIsAwaited'
  BY <1>a, <1>b DEF TurnInv, TurnTypes, NewIsUntouched, TurnsHaveSessions, OneLiveTurn,
         CancelledIsAwaited
<1>10. AwaitedIsCancelled'
  BY DEF TurnInv, TurnTypes, AwaitedIsCancelled
<1>11. CutOffIsOver'
  BY DEF TurnInv, TurnTypes, CutOffIsOver
<1>12. TurnsAreKnown'
  BY DEF TurnInv, TurnTypes, StartsAreNew, NewIsUntouched, ActiveTurnIsOwn,
         TurnsHaveSessions, OneLiveTurn, LiveIsMapped, StoppingStops,
         CancelledIsAwaited, AwaitedIsCancelled, CutOffIsOver, TurnsAreKnown
<1> QED  BY <1>1, <1>2, <1>3, <1>4, <1>5, <1>6, <1>7, <1>8, <1>9, <1>10, <1>11, <1>12 DEF TurnInv

LEMMA LateCancelKeepsInv ==
    ASSUME CatalogInv, TurnInv, NEW s \in Sessions, Cancel(s),
           ~(Live(activeTurn[s]) /\ ~run[activeTurn[s]].aborted)
    PROVE  TurnInv'
<1> USE TurnAssumption
    DEF catalogVars, storeVars, RunRecords, RunStages, RunStatuses, LiveIn,
        HealthyIn, Live, Healthy, KeepsRows, Stored, Cancel, Mark, Forget
<1> lifecycle \in [Sessions -> Lifecycles] /\ starting \subseteq Sessions
  BY DEF CatalogInv, CatalogTypeOK
<1>1. TurnTypes'
  <2>1. run' \in [Runs -> RunRecords]
    BY DEF TurnInv, TurnTypes
  <2> HIDE DEF RunRecords
  <2> QED  BY <2>1 DEF TurnInv, TurnTypes, TurnsHaveSessions
<1>2. StartsAreNew'
  BY DEF TurnInv, TurnTypes, StartsAreNew
<1>3. NewIsUntouched'
  BY DEF TurnInv, TurnTypes, NewIsUntouched
<1>4. ActiveTurnIsOwn'
  BY DEF TurnInv, TurnTypes, ActiveTurnIsOwn
<1>5. TurnsHaveSessions'
  BY DEF TurnInv, TurnTypes, TurnsHaveSessions
<1>6. OneLiveTurn'
  BY DEF TurnInv, TurnTypes, OneLiveTurn
<1>7. LiveIsMapped'
  BY DEF TurnInv, TurnTypes, LiveIsMapped
<1>8. StoppingStops'
  BY DEF TurnInv, TurnTypes, StoppingStops
<1>9. CancelledIsAwaited'
  BY DEF TurnInv, TurnTypes, CancelledIsAwaited
<1>10. AwaitedIsCancelled'
  BY DEF TurnInv, TurnTypes, AwaitedIsCancelled
<1>11. CutOffIsOver'
  BY DEF TurnInv, TurnTypes, CutOffIsOver
<1>12. TurnsAreKnown'
  BY DEF TurnInv, TurnTypes, TurnsAreKnown
<1> QED  BY <1>1, <1>2, <1>3, <1>4, <1>5, <1>6, <1>7, <1>8, <1>9, <1>10, <1>11, <1>12 DEF TurnInv

LEMMA ShutdownKeepsInv ==
    ASSUME CatalogInv, TurnInv, Shutdown
    PROVE  TurnInv'
<1> USE TurnAssumption
    DEF catalogVars, storeVars, RunRecords, RunStages, RunStatuses, LiveIn,
        HealthyIn, Live, Healthy, KeepsRows, Stored, Shutdown
<1> lifecycle \in [Sessions -> Lifecycles] /\ starting \subseteq Sessions
  BY DEF CatalogInv, CatalogTypeOK
<1>1. TurnTypes'
  <2>1. run' \in [Runs -> RunRecords]
    BY RunsKeepType DEF TurnInv, TurnTypes
  <2> HIDE DEF RunRecords
  <2> QED  BY <2>1 DEF TurnInv, TurnTypes, TurnsHaveSessions
<1>2. StartsAreNew'
  BY DEF TurnInv, TurnTypes, StartsAreNew
<1>3. NewIsUntouched'
  BY DEF TurnInv, TurnTypes, NewIsUntouched
<1>4. ActiveTurnIsOwn'
  BY DEF TurnInv, TurnTypes, ActiveTurnIsOwn
<1>5. TurnsHaveSessions'
  BY DEF TurnInv, TurnTypes, TurnsHaveSessions
<1>6. OneLiveTurn'
  BY DEF TurnInv, TurnTypes, OneLiveTurn
<1>7. LiveIsMapped'
  BY DEF TurnInv, TurnTypes, LiveIsMapped
<1>8. StoppingStops'
  BY DEF TurnInv, TurnTypes, LiveIsMapped, StoppingStops
<1>9. CancelledIsAwaited'
  BY DEF TurnInv, TurnTypes, CancelledIsAwaited
<1>10. AwaitedIsCancelled'
  BY DEF TurnInv, TurnTypes, AwaitedIsCancelled
<1>11. CutOffIsOver'
  BY DEF TurnInv, TurnTypes, CutOffIsOver
<1>12. TurnsAreKnown'
  BY DEF TurnInv, TurnTypes, TurnsAreKnown
<1> QED  BY <1>1, <1>2, <1>3, <1>4, <1>5, <1>6, <1>7, <1>8, <1>9, <1>10, <1>11, <1>12 DEF TurnInv

LEMMA CrashKeepsInv ==
    ASSUME CatalogInv, TurnInv, Crash
    PROVE  TurnInv'
<1> USE TurnAssumption
    DEF catalogVars, storeVars, RunRecords, RunStages, RunStatuses, LiveIn,
        HealthyIn, Live, Healthy, KeepsRows, Stored, Crash, CatalogCrash
<1> lifecycle \in [Sessions -> Lifecycles] /\ starting \subseteq Sessions
  BY DEF CatalogInv, CatalogTypeOK
<1>1. TurnTypes'
  <2>1. run' \in [Runs -> RunRecords]
    BY RunsKeepType DEF TurnInv, TurnTypes
  <2> HIDE DEF RunRecords
  <2> QED  BY <2>1 DEF TurnInv, TurnTypes, TurnsHaveSessions
<1>2. StartsAreNew'
  BY DEF TurnInv, TurnTypes, StartsAreNew
<1>3. NewIsUntouched'
  BY DEF TurnInv, TurnTypes, NewIsUntouched
<1>4. ActiveTurnIsOwn'
  BY DEF TurnInv, TurnTypes, ActiveTurnIsOwn
<1>5. TurnsHaveSessions'
  BY DEF TurnInv, TurnTypes, TurnsHaveSessions
<1>6. OneLiveTurn'
  BY DEF TurnInv, TurnTypes, OneLiveTurn
<1>7. LiveIsMapped'
  BY DEF TurnInv, TurnTypes, LiveIsMapped
<1>8. StoppingStops'
  BY DEF TurnInv, TurnTypes, StoppingStops
<1>9. CancelledIsAwaited'
  BY DEF TurnInv, TurnTypes, CancelledIsAwaited
<1>10. AwaitedIsCancelled'
  BY DEF TurnInv, TurnTypes, AwaitedIsCancelled
<1>11. CutOffIsOver'
  BY DEF TurnInv, TurnTypes, CutOffIsOver
<1>12. TurnsAreKnown'
  BY DEF TurnInv, TurnTypes, TurnsAreKnown
<1> QED  BY <1>1, <1>2, <1>3, <1>4, <1>5, <1>6, <1>7, <1>8, <1>9, <1>10, <1>11, <1>12 DEF TurnInv

(***************************************************************************)
(* All steps.                                                              *)
(***************************************************************************)
LEMMA ResumeKeepsInv ==
    ASSUME CatalogInv, TurnInv, KeepsRows, NEW s \in Sessions, Resume(s, lifecycle'[s])
    PROVE  TurnInv'
<1>1. ASSUME NEW r \in Runs, NewTurn(r, s), lifecycle'[s] = "open", ~Busy(s), ~stopping
      PROVE  TurnInv'
  BY <1>1, TurnKeepsInv
<1>2. CASE UNCHANGED turnVars
  BY <1>2, QuietKeepsInv
<1> QED  BY <1>1, <1>2 DEF Resume

LEMMA InitTurnInv == Init => CatalogInv /\ TurnInv
<1> SUFFICES ASSUME Init PROVE CatalogInv /\ TurnInv
  OBVIOUS
<1>1. CatalogInv
  BY InitCatalogInv DEF Init
<1>2. TurnInv
  BY TurnAssumption
  DEF Init, CatalogInit, NoRun, TurnInv, TurnTypes, RunRecords, RunStages, RunStatuses,
      StartsAreNew, NewIsUntouched, ActiveTurnIsOwn, TurnsHaveSessions, OneLiveTurn,
      LiveIsMapped, StoppingStops, CancelledIsAwaited, AwaitedIsCancelled, CutOffIsOver,
      TurnsAreKnown, LiveIn, HealthyIn, Live, Healthy
<1> QED  BY <1>1, <1>2

LEMMA NextTurnInv ==
    ASSUME CatalogInv, TurnInv, [Next]_vars
    PROVE  CatalogInv' /\ TurnInv'
<1>1. CatalogInv'
  BY TurnsKeepCatalog, NextCatalogInv
<1>2. CASE CatalogOnly \/ UNCHANGED vars
  BY <1>1, <1>2, CatalogKeepsRows, QuietKeepsInv DEF CatalogOnly, vars
<1>3. ASSUME NEW r \in Runs, NEW s \in Sessions, StartPrompt(r, s) PROVE TurnInv'
  BY <1>3, StartKeepsInv
<1>4. ASSUME NEW r \in Runs, RunStep(r) PROVE TurnInv'
  BY <1>4, ReportKeepsInv, NoReportKeepsInv, ErrorKeepsInv, EndKeepsInv, AbortKeepsInv,
     SilenceKeepsInv DEF RunStep, RunEnds
<1>5. ASSUME NEW c \in Calls, ResumeFromBrowser(c) PROVE TurnInv'
  <2>1. PICK s \in call[c].ids : Resume(s, lifecycle'[s])
    BY <1>5 DEF ResumeFromBrowser
  <2>2. KeepsRows
    BY <1>5, CatalogKeepsRows DEF ResumeFromBrowser
  <2>3. s \in Sessions
    BY CallTypes DEF CatalogInv
  <2> QED  BY <2>1, <2>2, <2>3, ResumeKeepsInv
<1>6. ASSUME NEW s \in Sessions, ResumeFromTool(s) PROVE TurnInv'
  <2>1. KeepsRows /\ Resume(s, lifecycle'[s])
    BY <1>6, CatalogKeepsRows DEF ResumeFromTool, catalogVars, storeVars
  <2> QED  BY <2>1, ResumeKeepsInv
<1>7. ASSUME NEW s \in Sessions, Cancel(s) PROVE TurnInv'
  <2>1. activeTurn[s] \in Runs
    BY <1>7 DEF Cancel, TurnInv, TurnTypes
  <2> QED  BY <1>7, <2>1, CancelKeepsInv, LateCancelKeepsInv
<1>8. CASE Shutdown \/ Crash
  BY <1>1, <1>8, ShutdownKeepsInv, CrashKeepsInv
<1> QED  BY <1>1, <1>2, <1>3, <1>4, <1>5, <1>6, <1>7, <1>8 DEF Next

LEMMA SpecTurnInv == Spec => [](CatalogInv /\ TurnInv)
  BY InitTurnInv, NextTurnInv, PTL DEF Spec

(* Turns, and what the code remembers of them, keep their types.           *)
THEOREM TurnTypeCorrect == Spec => []TurnTypeOK
<1>1. CatalogInv /\ TurnInv => TurnTypeOK
  BY DEF CatalogInv, TurnInv, TurnTypes, TurnTypeOK
<1> QED  BY <1>1, SpecTurnInv, PTL

(* A session that says it is running has one turn under way, the one that  *)
(* can be cancelled; any other has none that goes on: steering decides by  *)
(* the truth.                                                              *)
THEOREM RunningTurnsAreKnown == Spec => []TurnsAreKnown
  BY SpecTurnInv, PTL DEF TurnInv

(* A shutdown stops the turns there are, and waits for each.               *)
THEOREM ShutdownStopsTurns == Spec => []ShutdownReachesTurns
<1>1. CatalogInv /\ TurnInv => ShutdownReachesTurns
  <2> SUFFICES ASSUME TurnInv, stopping, NEW r \in Runs, Live(r),
                      run[r].session \notin overlapped
               PROVE  run[r].aborted /\ r \in mapped
    BY DEF ShutdownReachesTurns
  <2>1. run[r].session \in Sessions
    BY DEF TurnInv, TurnTypes, TurnsHaveSessions, RunRecords, Live
  <2> QED  BY <2>1 DEF TurnInv, StoppingStops, LiveIsMapped, LiveIn
<1> QED  BY <1>1, SpecTurnInv, PTL

(* What CancellationSticks says of a step.                                 *)
Sticks ==
    \A s \in Sessions \ overlapped :
        /\ runStatus[s] = "cancelled" /\ runStatus'[s] \in {"idle", "failed"}
        => \E r \in LiveIn(s) : run[r].erred

LEMMA StepSticks ==
    ASSUME CatalogInv, TurnInv, [Next]_vars
    PROVE  Sticks
<1> SUFFICES ASSUME NEW s \in Sessions \ overlapped, runStatus[s] = "cancelled",
                    runStatus'[s] \in {"idle", "failed"}
             PROVE  \E r \in LiveIn(s) : run[r].erred
  BY DEF Sticks
<1> runStatus \in [Sessions -> RunStatuses]
  BY DEF TurnInv, TurnTypes
<1>1. PICK r \in Runs : Errs(r) \/ Completes(r)
  <2>1. ASSUME NEW t \in Sessions, NEW st, Resume(t, st) PROVE FALSE
    BY <2>1 DEF Resume, NewTurn, turnVars
  <2>2. ASSUME NEW c \in Calls, ResumeFromBrowser(c) PROVE FALSE
    BY <2>1, <2>2, CallTypes DEF ResumeFromBrowser, CatalogInv
  <2>3. ASSUME NEW t \in Sessions, ResumeFromTool(t) \/ Cancel(t) PROVE FALSE
    BY <2>1, <2>3 DEF ResumeFromTool, Cancel, Mark
  <2>4. ASSUME NEW r \in Runs,
               Reported(r) \/ Unreported(r) \/ IsAborted(r) \/ EndsAfterError(r)
        PROVE  FALSE
    BY <2>4 DEF Reported, Unreported, IsAborted, EndsAfterError, Mark
  <2>5. ASSUME NEW r \in Runs, NEW t \in Sessions, StartPrompt(r, t) PROVE FALSE
    BY <2>5 DEF StartPrompt
  <2>6. CASE CatalogOnly \/ Shutdown \/ Crash \/ UNCHANGED vars
    BY <2>6 DEF CatalogOnly, Shutdown, Crash, vars, turnVars
  <2> QED  BY <2>2, <2>3, <2>4, <2>5, <2>6 DEF Next, RunStep, RunEnds
<1>2. run[r].session = s /\ r \in LiveIn(s)
  BY <1>1 DEF Errs, Completes, Settles, Mark, LiveIn, Live
<1>3. s \notin cancelledTurns
  BY <1>1, <1>2 DEF Errs, Completes, Settles
<1> QED  BY <1>2, <1>3 DEF TurnInv, AwaitedIsCancelled

(* No late event of a cancelled turn makes its session failed or finished. *)
THEOREM CancelledSessionsStay == Spec => CancellationSticks
<1>1. CatalogInv /\ TurnInv /\ [Next]_vars => [Sticks]_vars
  BY StepSticks
<1> QED  BY <1>1, SpecTurnInv, PTL DEF Spec, CancellationSticks, Sticks

=============================================================================
