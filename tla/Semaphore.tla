----------------------------- MODULE Semaphore -----------------------------
(***************************************************************************)
(* What a lightweight semaphore promises its callers: tokens are handed    *)
(* out in the order of arrival, none is invented or lost, a call that      *)
(* returns MQX_OK got one, and one that timed out did not.  Nothing here   *)
(* knows of ready queues, priorities, timeout queues or interrupts.       *)
(***************************************************************************)
EXTENDS Integers, Sequences, SequencesExt

CONSTANTS Client,        \* tasks
          InitialValues  \* what a semaphore may be created with

VARIABLES valid,         \* the semaphore exists
          value,         \* tokens that can be taken
          queue,         \* clients that wait, in order of arrival
          call           \* how far the last call of each client got

\* Between calls, call[c] is how the client's last wait or poll ended.
Outcome == {"none", "ok", "timeout", "invalid"}

Init ==
  /\ valid = FALSE
  /\ value = 0
  /\ queue = <<>>
  /\ call = [c \in Client |-> "none"]

Resting(c) == call[c] \in Outcome
Settle(c, out) == call' = [call EXCEPT ![c] = out]

Create(v) ==
  /\ ~valid /\ queue = <<>>
  /\ valid' = TRUE /\ value' = v
  /\ UNCHANGED <<queue, call>>

\* Nobody keeps waiting: the waiting clients are sent away without a token.
Destroy(c) ==
  /\ Resting(c)
  /\ valid
  /\ valid' = FALSE
  /\ queue' = <<>>
  /\ call' = [d \in Client |-> IF d \in ToSet(queue) THEN "left"
                               ELSE IF d = c THEN "none" ELSE call[d]]
  /\ UNCHANGED value

\* A token is there; a wait tells when the semaphore is destroyed meanwhile.
Take(c) ==
  /\ Resting(c)
  /\ value > 0
  /\ value' = value - 1
  /\ Settle(c, "ok") \/ (~valid /\ Settle(c, "invalid"))
  /\ UNCHANGED <<valid, queue>>

\* An interrupt handler polls.
HandlerTake ==
  /\ value > 0
  /\ value' = value - 1
  /\ UNCHANGED <<valid, queue, call>>

Join(c) ==
  /\ Resting(c)
  /\ value <= 0
  /\ queue' = Append(queue, c)
  /\ Settle(c, "waiting")
  /\ UNCHANGED <<valid, value>>

\* The token goes to the client that waits longest, past no one.
Grant ==
  /\ queue # <<>>
  /\ value >= 0
  /\ queue' = Tail(queue)
  /\ Settle(Head(queue), "granted")
  /\ UNCHANGED <<valid, value>>

Store ==
  /\ queue = <<>> \/ value < 0
  /\ value' = value + 1
  /\ UNCHANGED <<valid, queue, call>>

Expire(c) ==
  /\ call[c] = "waiting"
  /\ \E i \in 1 .. Len(queue) : queue[i] = c /\ queue' = RemoveAt(queue, i)
  /\ Settle(c, "left")
  /\ UNCHANGED <<valid, value>>

\* A wait that went through the queue returns.
Return(c) ==
  /\ \/ call[c] = "granted" /\ Settle(c, IF valid THEN "ok" ELSE "invalid")
     \/ call[c] = "left" /\ Settle(c, IF valid THEN "timeout" ELSE "invalid")
  /\ UNCHANGED <<valid, value, queue>>

Refuse(c) ==
  /\ Resting(c)
  /\ ~valid
  /\ Settle(c, "invalid")
  /\ UNCHANGED <<valid, value, queue>>

\* The client starts its next call, or a call of its own that takes no token.
Forget(c) ==
  /\ Resting(c)
  /\ Settle(c, "none")
  /\ UNCHANGED <<valid, value, queue>>

Next ==
  \/ \E v \in InitialValues : Create(v)
  \/ HandlerTake \/ Grant \/ Store
  \/ \E c \in Client : \/ Destroy(c) \/ Take(c) \/ Join(c)
                       \/ Expire(c) \/ Return(c) \/ Refuse(c) \/ Forget(c)

vars == <<valid, value, queue, call>>
Spec == Init /\ [][Next]_vars
=============================================================================
