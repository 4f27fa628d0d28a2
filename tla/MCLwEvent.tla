------------------------------ MODULE MCLwEvent ------------------------------
(* Two bits, three tasks of two priorities, and handlers that set bits.     *)
EXTENDS LwEvent, TLC

CONSTANTS t1, t2, t3, idle, b1, b2

\* t1 is more urgent than the others.
MCTask == {t1, t2, t3, idle}
MCHomePriority == (t1 :> 0) @@ (t2 :> 1) @@ (t3 :> 1) @@ (idle :> 2)
MCAutoQueues == (0 :> <<t1>>) @@ (1 :> <<t2, t3>>) @@ (2 :> <<idle>>)

\* Both bits, either one, and the first or both.
MCWishes == (t1 :> {[mask |-> {b1, b2}, all |-> TRUE]}) @@
            (t2 :> {[mask |-> {b1, b2}, all |-> FALSE]}) @@
            (t3 :> {[mask |-> {b1}, all |-> TRUE], [mask |-> {b1, b2}, all |-> TRUE]})
MCSetMask == {{b1}, {b1, b2}}
=============================================================================
