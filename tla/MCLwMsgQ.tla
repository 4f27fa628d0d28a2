------------------------------ MODULE MCLwMsgQ ------------------------------
(* A task that sends and receives, a reader and a writer; handlers send.    *)
EXTENDS LwMsgQ, TLC

CONSTANTS t1, t2, t3, idle, m1, m2

\* t1 is more urgent than the others.
MCTask == {t1, t2, t3, idle}
MCHomePriority == (t1 :> 0) @@ (t2 :> 1) @@ (t3 :> 1) @@ (idle :> 2)
MCAutoQueues == (0 :> <<t1>>) @@ (1 :> <<t2, t3>>) @@ (2 :> <<idle>>)
=============================================================================
