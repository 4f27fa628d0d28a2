------------------------------ MODULE Channel ------------------------------
(***************************************************************************)
(* What a lightweight message queue promises its callers: a bounded FIFO   *)
(* of messages.  No message is lost, invented, duplicated or overtaken; a  *)
(* call that says the queue was full or empty found it so.  Nothing here   *)
(* knows of memory, tasks' priorities, waiting queues or interrupts.       *)
(***************************************************************************)
EXTENDS Integers, Sequences

CONSTANTS Client,     \* tasks
          Message,
          Capacity    \* messages the channel holds

VARIABLES open,       \* the channel exists
          content,    \* the messages in it, the oldest first
          buf,        \* the message buffer each client calls with
          call        \* how far the last call of each client got

\* Between calls, call[c] is how the client's last call ended.
Outcome == {"none", "sent", "full", "received", "empty", "timeout", "invalid"}

Init ==
  /\ open = FALSE
  /\ content = <<>>
  /\ buf \in [Client -> Message]
  /\ call = [c \in Client |-> "none"]

Resting(c) == call[c] \in Outcome
Settle(c, out) == call' = [call EXCEPT ![c] = out]

Open ==
  /\ ~open
  /\ open' = TRUE /\ content' = <<>>
  /\ UNCHANGED <<buf, call>>

Refuse(c) ==
  /\ Resting(c) /\ ~open
  /\ Settle(c, "invalid")
  /\ UNCHANGED <<open, content, buf>>

\* A client that sends settles on its message when the call begins.
Offers(c, m) ==
  /\ \/ Resting(c) /\ open
     \/ call[c] = "writing" /\ buf[c] = m
  /\ buf' = [buf EXCEPT ![c] = m]

Send(c, m) ==
  /\ Offers(c, m)
  /\ Len(content) < Capacity
  /\ content' = Append(content, m)
  /\ Settle(c, "sent") \/ Settle(c, "sending")
  /\ UNCHANGED open

AwaitSpace(c, m) ==
  /\ Offers(c, m)
  /\ Len(content) = Capacity
  /\ Settle(c, "writing") \/ (Resting(c) /\ Settle(c, "full"))
  /\ UNCHANGED <<open, content>>

\* Told to block after sending, the client is released by someone else.
Released(c) ==
  /\ call[c] = "sending"
  /\ Settle(c, "sent")
  /\ UNCHANGED <<open, content, buf>>

\* An interrupt handler sends.
HandlerSend(m) ==
  /\ open
  /\ Len(content) < Capacity
  /\ content' = Append(content, m)
  /\ UNCHANGED <<open, buf, call>>

Receive(c) ==
  /\ (Resting(c) /\ open) \/ call[c] = "reading"
  /\ content # <<>>
  /\ content' = Tail(content)
  /\ buf' = [buf EXCEPT ![c] = Head(content)]
  /\ Settle(c, "received")
  /\ UNCHANGED open

AwaitMessage(c) ==
  /\ (Resting(c) /\ open) \/ call[c] = "reading"
  /\ content = <<>>
  /\ Settle(c, "reading") \/ (Resting(c) /\ Settle(c, "empty"))
  /\ UNCHANGED <<open, content, buf>>

GiveUp(c) ==
  /\ call[c] = "reading"
  /\ Settle(c, "timeout")
  /\ UNCHANGED <<open, content, buf>>

Next ==
  \/ Open
  \/ \E m \in Message : HandlerSend(m)
  \/ \E c \in Client :
       \/ Refuse(c) \/ Released(c)
       \/ Receive(c) \/ AwaitMessage(c) \/ GiveUp(c)
       \/ \E m \in Message : Send(c, m) \/ AwaitSpace(c, m)

vars == <<open, content, buf, call>>
Spec == Init /\ [][Next]_vars
=============================================================================
