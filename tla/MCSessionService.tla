-------------------------- MODULE MCSessionService --------------------------
(* Two writable providers and a read-only one with a session left in the   *)
(* store; a bounded number of ids, generations and user prompts.           *)
EXTENDS SessionService

CONSTANTS MaxId, MaxGeneration, MaxInteractive

MCLegacy == {<<"claude", 1>>}

Bound ==
    /\ lastId <= MaxId
    /\ generation <= MaxGeneration
    /\ lastInteractive <= MaxInteractive

MCNext == SessionNext /\ Bound'
MCSpec == SessionInit /\ [][MCNext]_sessionVars
=============================================================================
