----------------------------- MODULE MCTaskLife -----------------------------
(* Two tasks, the more urgent of which may create a third one.              *)
EXTENDS TaskLife, TLC

CONSTANTS t1, t2, t3, idle

MCTask == {t1, t2, t3, idle}
MCHomePriority == (t1 :> 0) @@ (t2 :> 1) @@ (t3 :> 0) @@ (idle :> 2)
MCAutoQueues == (0 :> <<t1>>) @@ (1 :> <<t2>>) @@ (2 :> <<idle>>)
MCChildren == {t3}
=============================================================================
