---------------------------- MODULE CodingCatalog ----------------------------
(***************************************************************************)
(* The catalog of coding sessions: which are open, archived or in the      *)
(* trash.  It is kept twice, in SQLite (coding/coding-session-store.ts and *)
(* coding/coding-repository-store.ts) and by the provider, which knows of  *)
(* open and archived threads only and whose threads other clients of it    *)
(* may archive too.                                                        *)
(*                                                                         *)
(* A request of the browser about one session (browser/                    *)
(* create-browser-api.ts) first asks the provider and writes the store     *)
(* when the answer is there; a request about a repository writes the store *)
(* at once, but in two writes, each committed by itself.  Reconciliation   *)
(* asks the provider for two lists, one after the other, and merges what   *)
(* they said into what the store says by then.  Any number of requests may *)
(* be under way, as many as there are Calls.                               *)
(***************************************************************************)
EXTENDS Naturals

CONSTANTS
    Sessions,  \* the sessions there can ever be; ids are never used again
    Repos,
    RepoOf,    \* the repository a session was started in
    Calls      \* requests that can be under way at a time

ASSUME CatalogAssumption == RepoOf \in [Sessions -> Repos]

VARIABLES
    repo,       \* coding_repositories.status, "none" before registration
    lifecycle,  \* coding_sessions.lifecycle_status; "new" and "deleted": no row
    cascaded,   \* the sessions with cascaded_from_repo = 1
    starting,   \* sessions of prompts whose provider session is not known yet
    thread,     \* the provider's own record of each session
    call,       \* the requests under way
    strayed     \* history: repositories that left the archive without the
                \* sessions archived with them

storeVars == <<repo, lifecycle, cascaded, strayed>>
catalogVars == <<storeVars, starting, thread, call>>

RepoStates == {"none", "active", "archived", "trashed"}
Lifecycles == {"new", "open", "archived", "trashed", "deleted"}
ThreadStates == {"open", "archived"}

(* A request is sent; when the provider has done what was asked it is      *)
(* answered.  A reconciliation that has seen the first list is halfway.  A *)
(* resume reconciles and may then have to bring the session back.          *)
Mutations == {"archive", "trash", "restore"}
Ops == Mutations \cup {"reconcile", "resume"}
CallStages == {"sent", "halfway", "answered", "restoring", "restored"}

Unseen == [s \in Sessions |-> "unseen"]
NoCall == [op |-> "none", ids |-> {}, stage |-> "none", seen |-> Unseen]

CallRecords ==
    [op : Ops, ids : SUBSET Sessions, stage : CallStages,
     seen : [Sessions -> ThreadStates \cup {"unseen"}]]

Stored(s) == lifecycle[s] \in {"open", "archived", "trashed"}
SessionsOf(r) == {s \in Sessions : RepoOf[s] = r}

CatalogInit ==
    /\ repo = [r \in Repos |-> "none"]
    /\ lifecycle = [s \in Sessions |-> "new"]
    /\ cascaded = {}
    /\ starting = {}
    /\ thread = [s \in Sessions |-> "open"]
    /\ call = [c \in Calls |-> NoCall]
    /\ strayed = {}

-----------------------------------------------------------------------------
(* Repositories                                                            *)

(* The row of a repository is written, and none of its sessions'.          *)
WriteRow(r, status) ==
    /\ repo' = [repo EXCEPT ![r] = status]
    /\ strayed' = CASE status = "archived" -> strayed \ {r}
                    [] status # "archived" /\ repo[r] = "archived" -> strayed \cup {r}
                    [] OTHER -> strayed

(* CodingRepositoryStore.register                                          *)
Register(r) == WriteRow(r, "active")

RegisterRepository(r) ==
    /\ Register(r)
    /\ UNCHANGED <<lifecycle, cascaded, starting, thread, call>>

(* A request to archive, trash or restore a repository commits its row     *)
(* first.  Then the daemon dies, or the write of its sessions fails.       *)
RepositoryCutShort(r) ==
    /\ repo[r] # "none"
    /\ \E status \in {"active", "archived", "trashed"} : WriteRow(r, status)
    /\ UNCHANGED <<lifecycle, cascaded, starting, thread, call>>

(* Cascades move the sessions of r that are in one of the states from.     *)
Cascade(r, from, to) ==
    lifecycle' = [s \in Sessions |->
        IF RepoOf[s] = r /\ lifecycle[s] \in from THEN to ELSE lifecycle[s]]

ArchiveRepository(r) ==
    /\ repo[r] # "none"
    /\ repo' = [repo EXCEPT ![r] = "archived"]
    /\ Cascade(r, {"open"}, "archived")
    /\ cascaded' = cascaded \cup {s \in SessionsOf(r) : lifecycle[s] = "open"}
    /\ strayed' = strayed \ {r}
    /\ UNCHANGED <<starting, thread, call>>

TrashRepository(r) ==
    /\ repo[r] # "none"
    /\ repo' = [repo EXCEPT ![r] = "trashed"]
    /\ Cascade(r, {"open", "archived"}, "trashed")
    /\ cascaded' = cascaded \ {s \in SessionsOf(r) : lifecycle[s] \in {"open", "archived"}}
    /\ strayed' = strayed \ {r}
    /\ UNCHANGED <<starting, thread, call>>

(* Mutant of RestoreRepository: the cascade is undone whatever the         *)
(* sessions have become since.                                             *)
RestoreRepositoryAndAll(r) ==
    /\ repo[r] # "none"
    /\ repo' = [repo EXCEPT ![r] = "active"]
    /\ Cascade(r, {"archived", "trashed"}, "open")
    /\ cascaded' = cascaded \ SessionsOf(r)
    /\ UNCHANGED <<strayed, starting, thread, call>>

(* Mutant of RestoreRepository: whether it is archived is asked when it is *)
(* active already, and the sessions stay behind.                           *)
RestoreRepositoryAlone(r) ==
    /\ repo[r] # "none"
    /\ repo' = [repo EXCEPT ![r] = "active"]
    /\ UNCHANGED <<strayed, lifecycle, cascaded, starting, thread, call>>

(* Only the cascade of an archived repository is undone.                   *)
RestoreRepository(r) ==
    LET back == IF repo[r] = "archived"
                THEN {s \in SessionsOf(r) \cap cascaded : lifecycle[s] = "archived"}
                ELSE {}
    IN  /\ repo[r] # "none"
        /\ repo' = [repo EXCEPT ![r] = "active"]
        /\ lifecycle' = [s \in Sessions |-> IF s \in back THEN "open" ELSE lifecycle[s]]
        /\ cascaded' = cascaded \ back
        /\ UNCHANGED <<strayed, starting, thread, call>>

-----------------------------------------------------------------------------
(* New sessions.  A prompt registers its repository at once; the session   *)
(* is recorded when the provider reports it.                               *)

StartSession(s) ==
    /\ lifecycle[s] = "new" /\ s \notin starting
    /\ Register(RepoOf[s])
    /\ starting' = starting \cup {s}
    /\ UNCHANGED <<lifecycle, cascaded, thread, call>>

RecordSession(s) ==
    /\ s \in starting
    /\ starting' = starting \ {s}
    /\ lifecycle' = [lifecycle EXCEPT ![s] = "open"]
    /\ UNCHANGED <<repo, cascaded, strayed, thread, call>>

StartFails(s) ==
    /\ s \in starting
    /\ starting' = starting \ {s}
    /\ UNCHANGED <<storeVars, thread, call>>

(* deleteCodingSession, and the purge of sessions long in the trash        *)
DeleteSession(s) ==
    /\ Stored(s)
    /\ lifecycle' = [lifecycle EXCEPT ![s] = "deleted"]
    /\ cascaded' = cascaded \ {s}
    /\ UNCHANGED <<repo, strayed, starting, thread, call>>

-----------------------------------------------------------------------------
(* Requests about sessions                                                 *)

Send(c, op, ids) ==
    /\ call[c] = NoCall
    /\ call' = [call EXCEPT ![c] = [op |-> op, ids |-> ids, stage |-> "sent", seen |-> Unseen]]
    /\ UNCHANGED <<storeVars, starting, thread>>

AskForSession(c, op, s) ==
    /\ op \in Mutations \cup {"resume"}
    /\ Stored(s)
    /\ Send(c, op, {s})

(* Whenever sessions of a repository are listed, and its archive is shown. *)
AskForRepository(c, r) ==
    /\ \E s \in SessionsOf(r) : Stored(s)
    /\ Send(c, "reconcile", {s \in SessionsOf(r) : Stored(s)})

ProviderArchives(ids) ==
    thread' = [s \in Sessions |-> IF s \in ids THEN "archived" ELSE thread[s]]
ProviderUnarchives(ids) ==
    thread' = [s \in Sessions |-> IF s \in ids THEN "open" ELSE thread[s]]

(* The provider does what a request asks for.  Its trash is its archive.   *)
Performed(c) ==
    LET stage == call[c].stage
        op == call[c].op
    IN  /\ \/ /\ stage = "sent" /\ op \in {"archive", "trash"}
              /\ ProviderArchives(call[c].ids)
           \/ /\ stage = "sent" /\ op = "restore"
              /\ ProviderUnarchives(call[c].ids)
           \/ /\ stage = "restoring"
              /\ ProviderUnarchives(call[c].ids)
        /\ call' = [call EXCEPT ![c].stage =
                       IF stage = "restoring" THEN "restored" ELSE "answered"]
        /\ UNCHANGED <<storeVars, starting>>

(* reconcileCodingSessions: first the open threads, then the archived ones *)
(* among those not found yet.                                              *)
Listed(c) ==
    LET seen == call[c].seen
        list == IF call[c].stage = "sent" THEN "open" ELSE "archived"
        now == [s \in Sessions |->
                  IF s \in call[c].ids /\ seen[s] = "unseen" /\ thread[s] = list
                  THEN list ELSE seen[s]]
        complete == \A s \in call[c].ids : now[s] # "unseen"
    IN  /\ call[c].op \in {"reconcile", "resume"}
        /\ call[c].stage \in {"sent", "halfway"}
        /\ call' = [call EXCEPT ![c].seen = now,
                                ![c].stage = IF list = "archived" \/ complete
                                             THEN "answered" ELSE "halfway"]
        /\ UNCHANGED <<storeVars, starting, thread>>

(* updateLifecycleStatus; it finds no row if the session is gone.          *)
UpdateLifecycle(ids, to) ==
    /\ lifecycle' = [s \in Sessions |->
                       IF s \in ids /\ Stored(s) THEN to ELSE lifecycle[s]]
    /\ cascaded' = cascaded \ ids

(* Mutants of Merged: the session of an archived repository is reopened;   *)
(* an archived thread is not noticed; the provider's word is copied.       *)
MergedDespiteCascade(seen) ==
    [s \in Sessions |->
        IF seen[s] = "archived" /\ lifecycle[s] = "open" THEN "archived"
        ELSE IF seen[s] = "open" /\ lifecycle[s] = "archived" THEN "open"
        ELSE lifecycle[s]]
MergedOpensOnly(seen) ==
    [s \in Sessions |->
        IF seen[s] = "open" /\ lifecycle[s] = "archived" /\ s \notin cascaded
        THEN "open" ELSE lifecycle[s]]
MergedAsSeen(seen) ==
    [s \in Sessions |-> IF s \notin cascaded /\ Stored(s) THEN seen[s] ELSE lifecycle[s]]

(* syncKnownCodingSessionUpdate                                            *)
Merged(seen) ==
    [s \in Sessions |->
        IF seen[s] = "archived" /\ lifecycle[s] = "open" THEN "archived"
        ELSE IF seen[s] = "open" /\ lifecycle[s] = "archived" /\ s \notin cascaded
        THEN "open"
        ELSE lifecycle[s]]

Merge(seen) ==
    /\ lifecycle' = Merged(seen)
    /\ cascaded' = cascaded \ {s \in Sessions : Merged(seen)[s] # lifecycle[s]}

Over(c) == call' = [call EXCEPT ![c] = NoCall]

(* The answer to a request about one session is there.                     *)
MutationLands(c) ==
    /\ call[c].op \in Mutations /\ call[c].stage = "answered"
    /\ UpdateLifecycle(call[c].ids,
            CASE call[c].op = "archive" -> "archived"
              [] call[c].op = "trash" -> "trashed"
              [] OTHER -> "open")
    /\ Over(c)
    /\ UNCHANGED <<repo, strayed, starting, thread>>

ReconcileLands(c) ==
    /\ call[c].op = "reconcile" /\ call[c].stage = "answered"
    /\ Merge(call[c].seen)
    /\ Over(c)
    /\ UNCHANGED <<repo, strayed, starting, thread>>

(* resumeCodingSession.  A session that is put away is brought back first. *)
PutAway(s) == lifecycle[s] \in {"archived", "trashed"}

ResumeAsksForRestore(c) ==
    /\ call[c].op = "resume" /\ call[c].stage = "answered"
    /\ Merge(call[c].seen)
    /\ \E s \in call[c].ids : PutAway(s)'
    /\ call' = [call EXCEPT ![c].stage = "restoring"]
    /\ UNCHANGED <<repo, strayed, starting, thread>>

ResumeFindsItOpen(c) ==
    /\ call[c].op = "resume" /\ call[c].stage = "answered"
    /\ Merge(call[c].seen)
    /\ ~\E s \in call[c].ids : PutAway(s)'
    /\ Over(c)
    /\ UNCHANGED <<repo, strayed, starting, thread>>

ResumeRestores(c) ==
    /\ call[c].stage = "restored"
    /\ UpdateLifecycle(call[c].ids, "open")
    /\ Over(c)
    /\ UNCHANGED <<repo, strayed, starting, thread>>

(* The provider refuses, or does not answer in time: what was asked may    *)
(* have been done.  Reconciliation goes on without its lists.              *)
CallFails(c) ==
    /\ call[c] # NoCall
    /\ IF call[c].op = "resume" /\ call[c].stage \in {"sent", "halfway"}
       THEN call' = [call EXCEPT ![c].stage = "answered", ![c].seen = Unseen]
       ELSE Over(c)
    /\ UNCHANGED <<storeVars, starting, thread>>

(* Another client of the provider archives a thread or brings it back.     *)
OtherClient(s) ==
    /\ lifecycle[s] # "new"
    /\ thread' = [thread EXCEPT ![s] = IF @ = "open" THEN "archived" ELSE "open"]
    /\ UNCHANGED <<storeVars, starting, call>>

(* The daemon dies and starts again: requests and prompts are forgotten.   *)
CatalogCrash ==
    /\ starting' = {}
    /\ call' = [c \in Calls |-> NoCall]
    /\ UNCHANGED <<storeVars, thread>>

CallStep(c) ==
    \/ Performed(c) \/ Listed(c)
    \/ MutationLands(c) \/ ReconcileLands(c)
    \/ ResumeAsksForRestore(c) \/ ResumeFindsItOpen(c) \/ ResumeRestores(c)
    \/ CallFails(c)

RepositoryStep(r) ==
    \/ RegisterRepository(r) \/ ArchiveRepository(r) \/ TrashRepository(r)
    \/ RestoreRepository(r) \/ RepositoryCutShort(r)

SessionRequest ==
    \/ \E c \in Calls, op \in Mutations \cup {"resume"}, s \in Sessions : AskForSession(c, op, s)
    \/ \E c \in Calls, r \in Repos : AskForRepository(c, r)

CatalogNext ==
    \/ \E r \in Repos : RepositoryStep(r)
    \/ \E s \in Sessions :
          StartSession(s) \/ RecordSession(s) \/ StartFails(s)
          \/ DeleteSession(s) \/ OtherClient(s)
    \/ SessionRequest
    \/ \E c \in Calls : CallStep(c)
    \/ CatalogCrash

CatalogSpec == CatalogInit /\ [][CatalogNext]_catalogVars

(***************************************************************************)
(* Properties                                                              *)
(***************************************************************************)
CatalogTypeOK ==
    /\ repo \in [Repos -> RepoStates]
    /\ lifecycle \in [Sessions -> Lifecycles]
    /\ cascaded \subseteq Sessions
    /\ starting \subseteq Sessions
    /\ thread \in [Sessions -> ThreadStates]
    /\ call \in [Calls -> CallRecords \cup {NoCall}]
    /\ strayed \subseteq Repos

(* What the user put in the trash, or archived with its repository, comes  *)
(* back by his hand only: by a request about this session, or with its     *)
(* repository.  No reconciliation, however late its lists are, and no      *)
(* cascade that finds the session changed since, brings it back.           *)
BroughtBack(s) ==
    \/ \E c \in Calls : /\ call[c].op \in {"restore", "resume"}
                         /\ s \in call[c].ids
                         /\ call'[c] = NoCall
    \/ /\ s \in cascaded
       /\ repo[RepoOf[s]] = "archived" /\ repo'[RepoOf[s]] = "active"

PutAwayStaysAway ==
    [][\A s \in Sessions :
         (lifecycle[s] = "trashed" \/ s \in cascaded) /\ lifecycle'[s] = "open"
         => BroughtBack(s)]_catalogVars

(* "Only an `archive` cascade is reversible" (create-browser-api.ts:816):  *)
(* a session that a cascade archived waits in the archive, under a         *)
(* repository that can still be restored with it, whatever else is done    *)
(* with either of them.  There are two ways to strand it.  An archived     *)
(* repository may be registered again, which a prompt in its directory     *)
(* does; and a request to restore the repository, or to trash it, may be   *)
(* cut short between its two writes.  Asking again does not help then, for *)
(* the repository is not found archived any more; archiving it once more   *)
(* does, as the session has kept its mark.                                 *)
CascadeCanBeUndone ==
    \A s \in cascaded :
        /\ lifecycle[s] = "archived"
        /\ repo[RepoOf[s]] = "archived" \/ RepoOf[s] \in strayed

(* A list may be stale when it is merged: it can reopen a session that was *)
(* archived meanwhile, and miss one that went from one list to the other.  *)
(* The next reconciliations make up for it: once sessions are only listed, *)
(* and listed again and again, store and provider come to agree, but for   *)
(* what is archived with its repository, in the trash or deleted.          *)
Agree(s) ==
    /\ lifecycle[s] = "open" => thread[s] = "open"
    /\ lifecycle[s] = "archived" /\ s \notin cascaded => thread[s] = "archived"

OnlyListed ==
    \/ \E c \in Calls, r \in Repos : AskForRepository(c, r)
    \/ \E c \in Calls : Listed(c) \/ ReconcileLands(c)

DriftHeals ==
    \A s \in Sessions :
        /\ <>[][OnlyListed]_catalogVars
        /\ []<><<\E c \in Calls : s \in call[c].ids /\ ReconcileLands(c)>>_catalogVars
        => <>[]Agree(s)
=============================================================================
