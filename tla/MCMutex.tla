------------------------------ MODULE MCMutex ------------------------------
(* Three tasks of different priorities.                                     *)
EXTENDS Mutex, TLC

CONSTANTS t1, t2, t3, idle, m1, m2

MCTask == {t1, t2, t3, idle}
MCHomePriority == (t1 :> 0) @@ (t2 :> 1) @@ (t3 :> 2) @@ (idle :> 3)
MCAutoQueues == (0 :> <<t1>>) @@ (1 :> <<t2>>) @@ (2 :> <<t3>>) @@ (3 :> <<idle>>)

Attr(protocol, sorted, ceiling) ==
  [protocol |-> protocol, sorted |-> sorted, ceiling |-> ceiling]

\* Two mutexes, of either protocol.
MCPairs ==
  { (m1 :> Attr("inherit", FALSE, 0)) @@ (m2 :> Attr("inherit", TRUE, 0)),
    (m1 :> Attr("inherit", TRUE, 0))  @@ (m2 :> Attr("protect", FALSE, 1)),
    (m1 :> Attr("none", TRUE, 0))     @@ (m2 :> Attr("protect", TRUE, 0)) }

\* One mutex that keeps what mutex.h says of its protocol.
MCSingle ==
  { m1 :> Attr("inherit", TRUE, 0), m1 :> Attr("protect", FALSE, 0),
    m1 :> Attr("protect", TRUE, 1) }
=============================================================================
