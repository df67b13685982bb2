----------------------------- MODULE EventMerge -----------------------------
(***************************************************************************)
(* How the two accounts of a coding session are made one.  There are the   *)
(* rows of the provider's transcript and the live events of the daemon,    *)
(* which overlap: a message is one row and many live events, a row has a   *)
(* timestamp, and neither account is complete.  What they have in common   *)
(* is found by comparing texts (common/coding-session-event-merge.ts).     *)
(*                                                                         *)
(* An event has a type, a text (a sequence of the pieces it was made of),  *)
(* and says whether it is a row.  `from' and `to' are not in the code: the *)
(* part of the conversation it stands for.                                 *)
(***************************************************************************)
EXTENDS Naturals, Sequences, FiniteSetsExt, SequencesExt

Key(e) == [type |-> e.type, text |-> e.text]
Keys(events) == [i \in DOMAIN events |-> Key(events[i])]

From(s, i) == SubSeq(s, i, Len(s))

PromptsIn(events) == {i \in DOMAIN events : events[i].type = "user_prompt"}

(* buildCodingEventSignature: consecutive texts are one.                   *)
Extended(parts, e) ==
    IF e.type = "text" /\ parts # <<>> /\ Last(parts).type = "text"
    THEN [parts EXCEPT ![Len(parts)].text = @ \o e.text]
    ELSE Append(parts, Key(e))

Signature(events) ==
    LET parts[n \in 0..Len(events)] ==
            IF n = 0 THEN <<>> ELSE Extended(parts[n - 1], events[n])
    IN  parts[Len(events)]

(* codingEventSignatureCoveredByLive                                       *)
Covers(longer, shorter) ==
    /\ shorter # <<>> /\ Len(shorter) <= Len(longer)
    /\ \A i \in DOMAIN shorter :
          /\ shorter[i].type = longer[i].type
          /\ IF shorter[i].type = "text"
             THEN IsPrefix(shorter[i].text, longer[i].text)
             ELSE shorter[i].text = longer[i].text

(* countCodingSessionHistorySuffixCoveredByLive: from a prompt on, or, if  *)
(* there is none in common, event by event.                                *)
SuffixCovered(history, live) ==
    LET fromPrompt == {Signature(From(live, l)) : l \in PromptsIn(live)}
        starts == {h \in PromptsIn(history) :
                      LET rest == Signature(From(history, h))
                      IN  \E signature \in fromPrompt : Covers(signature, rest)}
        lengths == {n \in 1..Len(history) : \E l \in DOMAIN live :
                      IsPrefix(Keys(From(history, Len(history) - n + 1)), Keys(From(live, l)))}
    IN  IF starts # {} THEN Len(history) - Min(starts) + 1 ELSE Max({0} \cup lengths)

(* countCodingSessionLivePrefixCoveredByHistory.  Rows do not tell of the  *)
(* beginning of the session.                                               *)
PrefixCovered(history, live) ==
    IF history = <<>> \/ live = <<>> THEN 0
    ELSE LET lead == IF /\ Head(live).type = "session_initialized"
                        /\ Head(history).type # "session_initialized"
                     THEN 1 ELSE 0
             parts == {Signature(From(history, h)) : h \in DOMAIN history}
             ends == {n \in (lead + 1)..Len(live) :
                         LET start == Signature(SubSeq(live, lead + 1, n))
                         IN  \E part \in parts : Covers(part, start)}
         IN  Max({IF lead = Len(live) THEN lead ELSE 0} \cup ends)

(* codingSessionEventsSettleLatestTurn                                     *)
SettlesLatestTurn(events) ==
    LET dones == {i \in DOMAIN events : events[i].type = "done"}
    IN  dones # {} /\ \A i \in PromptsIn(events) : \E j \in dones : i < j
=============================================================================
