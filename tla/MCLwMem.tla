------------------------------ MODULE MCLwMem ------------------------------
(* A task that frees and two that do everything, on a pool of a few words.  *)
EXTENDS LwMem, TLC

CONSTANTS t1, t2, t3

MCTask == {t1, t2, t3}
MCPriority == (t1 :> 0) @@ (t2 :> 1) @@ (t3 :> 2)
MCMayDo == (t1 :> {"free"}) @@ (t2 :> {"alloc", "free", "transfer"}) @@
           (t3 :> {"alloc", "at", "free", "test"})
=============================================================================
