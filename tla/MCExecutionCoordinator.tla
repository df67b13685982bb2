----------------------- MODULE MCExecutionCoordinator -----------------------
(* Bounded instances of ExecutionCoordinator.  Only what comes from the    *)
(* outside is bounded: how much work is handed over, and how often the     *)
(* clients change the visible conversation.  What the coordinator has      *)
(* begun can always go on, so a deadlock would be one of the code.         *)
EXTENDS ExecutionCoordinator

CONSTANTS
    MaxTasks,       \* how many tasks are accepted
    MaxGeneration,  \* no client leaves a conversation of this generation
    Used,           \* the sources the n-th task of this run may have
    Crashing        \* the daemon may die

MCLegacy == {<<"claude", 1>>}
NoLegacy == {}

Terminal == <<{"tui"}, {"tui"}, {"tui"}>>
Prompts == <<{"browser", "tui"}, {"tui"}, {"tui", "rollover"}>>
Background == <<{"browser"}, {"agent", "heartbeat", "rollover"},
               {"tui", "heartbeat", "rollover"}>>

StagesOf(ls) == [i \in DOMAIN ls |-> ls[i].stage]

Bound ==
    /\ accepted' <= MaxTasks
    /\ \A i \in DOMAIN lanes' : \A k \in DOMAIN lanes'[i].queue :
          LET task == lanes'[i].queue[k] IN task.source \in Used[task.n]
    /\ \/ generation' \in 0..MaxGeneration \cup {generation}
       \/ StagesOf(lanes') # StagesOf(lanes)
    /\ Crash => Crashing

(* Every lane has come to rest: the runtime waits for its clients.         *)
AtRest ==
    /\ \A i \in DOMAIN lanes : lanes[i].stage = "idle" /\ lanes[i].queue = <<>>
    /\ UNCHANGED vars

MCNext ==
    \/ Next /\ Bound
    \/ AtRest

MCSpec == Init /\ [][MCNext]_vars

MCFairSpec == MCSpec /\ \A i \in 1..MaxTasks : LaneFairness(i)
=============================================================================
