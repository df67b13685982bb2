---------------------------- MODULE MCAutoTitle ----------------------------
(* Prompts and chats are numbers, taken in order.                          *)
EXTENDS AutoTitle

InOrder(ids, isUsed(_)) == \A i, j \in ids : i < j /\ isUsed(j) => isUsed(i)

UsedPrompt(p) == prompt[p].stage # "new"

(* After a crash the session that was on screen is shown again, or a blank *)
(* chat; only a first prompt is an image.  Without a pending title, what a *)
(* crash leaves is what an idle daemon has.                                *)
Bound ==
    /\ Crash => view'.session \in {None, view.session} /\ \E s \in Sessions : row[s] = "pending"
    /\ \A p \in Prompts : prompt'[p].title = "image" => prompt'[1].title = "image"
    /\ InOrder(Prompts, UsedPrompt)' /\ InOrder(Chats, Used)'

MCSpec == Init /\ view.chat = 11 /\ [][Next /\ Bound]_vars
MCFairSpec == MCSpec /\ TitleFairness
=============================================================================
