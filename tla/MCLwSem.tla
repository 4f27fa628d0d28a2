------------------------------ MODULE MCLwSem ------------------------------
(* Tasks of different priorities share a semaphore with a handler.          *)
EXTENDS LwSem, TLC

CONSTANTS t1, t2, t3, idle

\* t1 is more urgent than t2 and t3.
MCTask == {t1, t2, t3, idle}
MCHomePriority == (t1 :> 0) @@ (t2 :> 1) @@ (t3 :> 1) @@ (idle :> 2)
MCAutoQueues == (0 :> <<t1>>) @@ (1 :> <<t2, t3>>) @@ (2 :> <<idle>>)

MCInitialValues == {-1, 0, 1}
=============================================================================
