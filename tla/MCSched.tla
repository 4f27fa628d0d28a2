------------------------------ MODULE MCSched ------------------------------
(* Two tasks of one priority, a more urgent one and the idle task.          *)
EXTENDS Sched, TLC

CONSTANTS t1, t2, t3, idle

MCTask == {t1, t2, t3, idle}
MCHomePriority == (t1 :> 1) @@ (t2 :> 1) @@ (t3 :> 0) @@ (idle :> 2)
=============================================================================
