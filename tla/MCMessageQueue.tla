--------------------------- MODULE MCMessageQueue ---------------------------
(* Four tasks and two drain() calls: a task can run while two wait behind  *)
(* it, one can arrive in the gap after a task settles, and drain() can be  *)
(* called before, during and after each of these.                          *)
EXTENDS MessageQueue

CONSTANTS t1, t2, t3, t4, d1, d2
=============================================================================
