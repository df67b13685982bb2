--------------------------- MODULE MCCodexClient ---------------------------
(* Runs that all work on one thread.                                       *)
EXTENDS CodexClient

OneThread == [r \in Runs |-> CHOOSE th \in Threads : TRUE]

(* The first run is a prompt, which may be stopped and steered; the second *)
(* begins beside it, or when it has been done.  What may fail is limited   *)
(* to one error of the first turn or its failure, and the requests for a   *)
(* thread, a turn and a steer, each in one way.                            *)
First == CHOOSE r \in Runs : TRUE

Errors == {r \in Runs : \E i \in DOMAIN queue[r] : queue[r][i].type = "error"}

Bound ==
    /\ \A r \in Runs : Len(queue'[r]) <= MaxLines
    /\ \A t \in Turns : ReportsError(t) => t = First /\ Errors = {} /\ ~run[First].erred
    /\ \A i \in DOMAIN lines' :
          lines'[i].type = "failed" =>
             lines'[i].turn = First /\ Errors = {} /\ ~run[First].erred
    /\ run'[First].kind = "prompt"
    /\ \A r \in Runs \ {First} :
          /\ run[r].stage = "idle" /\ run'[r].stage # "idle" =>
                /\ lines = <<>>
                /\ \/ Listening(First) \/ run[First].outcome = "done"
                   \/ initialized = "failed"
          /\ ~run'[r].stopped
          /\ \A k \in Steers : steer'[k].run # r
    /\ \A q \in Requests :
          /\ Refuses(q) => q.method = "thread"
          /\ TimesOut(q) => q.method \in {"initialize", "turn", "steer"}

MCSpec == Init /\ [][Next /\ Bound]_vars
MCFairSpec == MCSpec /\ CodexFairness
=============================================================================
