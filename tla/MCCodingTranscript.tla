------------------------- MODULE MCCodingTranscript -------------------------
(* A conversation of at most MaxTold events (a tool counts as two, and what *)
(* only the hub has as three, as long as the hub or the page has it), of    *)
(* which the hub lacks at most one, and in which no text comes twice.  A    *)
(* page that has not attended gets no more events or answers until it is    *)
(* loaded or its events are evicted: what PageIsFaithful excepts need not   *)
(* be looked at.  Texts are only compared, so that the n-th prompt may be   *)
(* n, and the n-th piece.                                                   *)
EXTENDS CodingTranscript, FiniteSets, TLC

CONSTANT MaxTold

Count(events, types) == Cardinality({n \in DOMAIN events : events[n].type \in types})

LiveOnlyCount(events) == Count(events, {"usage", "output"})

InOrder(events) ==
    \A n \in DOMAIN events :
        events[n].type \in {"user_prompt", "text"} =>
            events[n].text = <<Count(SubSeq(events, 1, n), {events[n].type})>>

Bound ==
    /\ Len(told') + Count(told', {"tool"})
         + 3 * Max({LiveOnlyCount(hub'), LiveOnlyCount(cache')}) <= MaxTold
    /\ Len(told') - published' <= 1
    /\ attended \/ attended' \/ cache' \in {cache, <<>>}
    /\ told' # told => NothingRepeated' /\ InOrder(told')

MCSpec == Init /\ [][Next /\ Bound]_vars
=============================================================================
