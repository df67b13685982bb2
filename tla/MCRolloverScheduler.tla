------------------------- MODULE MCRolloverScheduler -------------------------
(* Bounded instances of RolloverScheduler.  As in MCExecutionCoordinator,  *)
(* only the work handed over from outside is bounded.                      *)
EXTENDS RolloverScheduler

CONSTANTS
    MaxTasks,       \* how many tasks are accepted
    MaxGeneration,  \* no client leaves a conversation of this generation
    Used,           \* the sources the n-th task of this run may have
    MaxDisturbed    \* no command, shutdown or crash once more tasks are accepted

NoLegacy == {}

Returning == <<{"tui"}, {"tui", "agent", "rollover"}, {"rollover"}, {"tui", "rollover"}>>

StagesOf(ls) == [i \in DOMAIN ls |-> ls[i].stage]

Bound ==
    /\ accepted' <= MaxTasks
    /\ \A i \in DOMAIN lanes' : \A k \in DOMAIN lanes'[i].queue :
          LET task == lanes'[i].queue[k] IN task.source \in Used[task.n]
    /\ \/ generation' \in 0..MaxGeneration \cup {generation}
       \/ StagesOf(lanes') # StagesOf(lanes)

(* Nothing runs and nothing is about to be attempted.                      *)
AtRest ==
    /\ \A i \in DOMAIN lanes : lanes[i].stage = "idle" /\ lanes[i].queue = <<>>
    /\ ~checking
    /\ UNCHANGED rolloverSystem

(* A rollover that the bound keeps out.                                    *)
OutOfTasks ==
    /\ checking /\ RolloverPossible
    /\ ~(accepted < MaxTasks /\ "rollover" \in Used[accepted + 1])
    /\ UNCHANGED rolloverSystem

MCNext ==
    \/ Work /\ Bound
    \/ accepted <= MaxDisturbed /\ Intervention /\ Bound
    \/ Attempt /\ Bound
    \/ TimerFires
    \/ IdleMinutesPass
    \/ AtRest \/ OutOfTasks

MCSpec == RolloverInit /\ [][MCNext]_rolloverSystem
=============================================================================
