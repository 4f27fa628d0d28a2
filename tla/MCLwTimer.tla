----------------------------- MODULE MCLwTimer -----------------------------
(* Three timers: the task cancels one of them, the functions the others.    *)
EXTENDS LwTimer

CONSTANTS a, b, c
=============================================================================
