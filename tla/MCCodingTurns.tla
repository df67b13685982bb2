--------------------------- MODULE MCCodingTurns ---------------------------
(* Coding turns with as much of the catalog as they depend on: prompts for *)
(* sessions that other clients of the provider archive meanwhile.          *)
EXTENDS CodingTurns

SameRepo == [s \in Sessions |-> CHOOSE r \in Repos : TRUE]

(* Turns are taken in order; runs are numbers here.                        *)
InOrder == \A r \in Runs : run'[r] # NoRun => \A q \in 1..(r - 1) : run'[q] # NoRun

CONSTANT Asked  \* the requests of this run

Bound ==
    /\ InOrder
    /\ \A c \in Calls : call'[c] # NoCall => call'[c].op \in Asked
    /\ \A r \in Repos : repo'[r] \in {"none", "active"}

MCNext == Next /\ Bound

MCSpec == Init /\ [][MCNext]_vars
MCFairSpec == MCSpec /\ TurnFairness
=============================================================================
