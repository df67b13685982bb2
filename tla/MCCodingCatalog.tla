-------------------------- MODULE MCCodingCatalog --------------------------
(* The catalog is finite once its constants are.  Requests about a single  *)
(* session, and other clients of the provider, are only interested in some *)
(* of the sessions; repositories have all of them.                         *)
EXTENDS CodingCatalog

CONSTANT Handled  \* the sessions that are archived, restored, ... one by one

SameRepo == [s \in Sessions |-> CHOOSE r \in Repos : TRUE]

Bound ==
    /\ \A c \in Calls : call'[c].op \in Mutations \cup {"resume"} => call'[c].ids \subseteq Handled
    /\ \A s \in Sessions \ Handled : thread'[s] = thread[s]

MCSpec == CatalogInit /\ [][CatalogNext /\ Bound]_catalogVars
=============================================================================
