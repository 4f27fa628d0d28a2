------------------------------- MODULE LwMsgQ -------------------------------
(***************************************************************************)
(* One lightweight message queue (lwmsgq.c) between tasks and interrupt    *)
(* handlers, on the kernel of module Kernel.                               *)
(*                                                                         *)
(* A call runs with interrupts disabled from its check of VALID to its     *)
(* end.  A task that waits is put on a queue of the message queue and      *)
(* switched out; when it is woken it looks again, because another task may *)
(* have been faster, and waits again when it was.                          *)
(***************************************************************************)
EXTENDS Kernel, FiniteSets

CONSTANTS HomePriority,   \* [Task -> Prio]
          AutoQueues,     \* ready queues when the scheduler starts
          Reader, Writer, \* the tasks that receive and that send
          Message,
          Capacity,       \* num_messages
          Ticks,          \* timeouts of receives, in ticks
          MaxElapsed,     \* bound: no tick while a receive took this many
          MaxCreations,   \* bound on the calls of _lwmsgq_init
          MaxNesting      \* bound on the nesting of handlers

ASSUME LwMsgQAssumption ==
  /\ HomePriority \in [Task -> Prio]
  /\ AutoQueues \in [Prio -> Seq(Task)]
  /\ \A p \in Prio :
       /\ IsInjective(AutoQueues[p])
       /\ ToSet(AutoQueues[p]) = {t \in Task : HomePriority[t] = p}
  /\ Reader \subseteq AppTask /\ Writer \subseteq AppTask
  /\ Capacity \in Nat \ {0}
  /\ Ticks \subseteq Nat /\ MaxElapsed \in Nat
  /\ MaxCreations \in Nat /\ MaxNesting \in Nat

VARIABLES
  k,      \* the kernel
  q,      \* LWMSGQ_STRUCT and the messages behind it
  at,     \* where each task is in its call
  buf,    \* the caller's message buffer
  wait,   \* the arguments of a receive that waits
  info,   \* TD.INFO # 0
  made    \* calls of _lwmsgq_init so far

vars == <<k, q, at, buf, wait, info, made>>

\* Between calls: how the last one ended.
Outcome == {"none", "sent", "full", "received", "empty", "timeout", "invalid"}
\* Inside a call, switched out or about to go on; sending is the block of
\* LWMSGQ_SEND_BLOCK_ON_SEND.
Inside  == {"reading", "writing", "sending"}
At      == Outcome \cup Inside

Slot  == 0 .. Capacity - 1
Queue == [valid   : BOOLEAN,
          slots   : [Slot -> Message],    \* from MSG_START_LOC
          read    : Slot,                 \* MSG_READ_LOC
          write   : Slot,                 \* MSG_WRITE_LOC
          size    : 0 .. Capacity,        \* CURRENT_SIZE
          readers : Seq(AppTask),         \* WAITING_READERS
          writers : Seq(AppTask)]         \* WAITING_WRITERS

\* How long a receive waits: for ever, for some ticks, or until a time given
\* as ticks after the call; elapsed counts the ticks since the call.
Patience == [until : {"ever", "for", "time"}, ticks : Nat, elapsed : Nat]
NoWait   == [until |-> "ever", ticks |-> 0, elapsed |-> 0]

Init ==
  /\ k = StartKernel(HomePriority, AutoQueues)
  /\ \E m \in Message :
       /\ q = [valid |-> FALSE, slots |-> [i \in Slot |-> m], read |-> 0,
               write |-> 0, size |-> 0, readers |-> <<>>, writers |-> <<>>]
       /\ buf = [t \in AppTask |-> m]
  /\ at = [t \in AppTask |-> "none"]
  /\ wait = [t \in AppTask |-> NoWait]
  /\ info = [t \in AppTask |-> FALSE]
  /\ made = 0

\* The active task runs with interrupts disabled.
Masked == \E t \in AppTask : Runs(k, t) /\ at[t] \in Inside

Starts(t) == Runs(k, t) /\ at[t] \in Outcome
Settle(t, out) == at' = [at EXCEPT ![t] = out]

-----------------------------------------------------------------------------
(* The ring of messages.                                                    *)

\* MSG_START_LOC follows the last slot.
After(i) == IF i + 1 >= Capacity THEN 0 ELSE i + 1

\* mutant: MSG_WRITE_LOC stays
Stored_Stays(m) == [q EXCEPT !.slots[q.write] = m,
                             !.size = @ + 1]

Stored(m) == [q EXCEPT !.slots[q.write] = m,
                       !.write = After(@),
                       !.size = @ + 1]
Taken == [q EXCEPT !.read = After(@), !.size = @ - 1]

-----------------------------------------------------------------------------
(* Calls of the active task t.                                              *)

\* With interrupts enabled, but VALID is set last, and a queue that is not
\* yet valid is used by nobody.
Create(t) ==                                      \* _lwmsgq_init_internal
  /\ Starts(t)
  /\ made < MaxCreations
  /\ made' = made + 1
  /\ q' = [q EXCEPT !.valid = TRUE, !.read = 0, !.write = 0, !.size = 0,
                    !.readers = <<>>, !.writers = <<>>]
  /\ UNCHANGED <<k, at, buf, wait, info>>

Refuse(t) ==
  /\ Starts(t) /\ ~q.valid
  /\ Settle(t, "invalid")
  /\ UNCHANGED <<k, q, buf, wait, info, made>>

TimedOut(t) == wait[t].until # "ever" /\ info[t]

MayTake(t) ==
  /\ \/ Starts(t) /\ q.valid
     \/ Runs(k, t) /\ at[t] = "reading" /\ ~TimedOut(t)
  /\ q.size > 0

\* _lwmsgq_receive: the message is copied and the first writer woken.
Take(t) ==
  /\ t \in Reader /\ MayTake(t)
  /\ buf' = [buf EXCEPT ![t] = q.slots[q.read]]
  /\ Settle(t, "received")
  /\ wait' = [wait EXCEPT ![t] = NoWait]
  /\ \/ /\ q.writers = <<>>
        /\ q' = Taken
        /\ UNCHANGED <<k, info>>
     \/ /\ q.writers # <<>>
        /\ q' = [Taken EXCEPT !.writers = Tail(@)]
        /\ info' = [info EXCEPT ![Head(q.writers)] = FALSE]
        /\ k' = CheckRunScheduler(TaskReady(k, Head(q.writers)))
  /\ UNCHANGED made

\* Without LWMSGQ_RECEIVE_BLOCK_ON_EMPTY.
FindEmpty(t) ==
  /\ t \in Reader /\ Starts(t) /\ q.valid
  /\ q.size = 0
  /\ Settle(t, "empty")
  /\ UNCHANGED <<k, q, buf, wait, info, made>>

\* One round of the loop: for a relative timeout TD.TIMEOUT is computed anew.
Remaining(w) == IF w.until = "for" THEN w.ticks ELSE w.ticks - w.elapsed
AwaitMessage(t, w) ==
  /\ q.size = 0
  /\ q' = [q EXCEPT !.readers = Append(@, t)]
  /\ info' = [info EXCEPT ![t] = TRUE]
  /\ wait' = [wait EXCEPT ![t] = w]
  /\ Settle(t, "reading")
  /\ LET asleep == [k EXCEPT !.state[t] = "LWMSGQ_READ_BLOCKED"]
     IN k' = Dispatch(IF w.until = "ever" THEN Unlink(asleep, t, k.my[t])
                      ELSE Delay(asleep, t, Remaining(w)))
  /\ UNCHANGED <<buf, made>>

BlockOnEmpty(t, w) ==
  /\ t \in Reader /\ Starts(t) /\ q.valid
  /\ AwaitMessage(t, w)

ReadAgain(t) ==
  /\ Runs(k, t) /\ at[t] = "reading"
  /\ ~TimedOut(t)
  /\ AwaitMessage(t, wait[t])

ReadTimeout(t) ==
  /\ Runs(k, t) /\ at[t] = "reading"
  /\ TimedOut(t)
  /\ Settle(t, "timeout")
  /\ wait' = [wait EXCEPT ![t] = NoWait]
  /\ UNCHANGED <<k, q, buf, info, made>>

\* The call of _lwmsgq_send with message m, or its next round.
Sends(t, m) ==
  /\ \/ t \in Writer /\ Starts(t) /\ q.valid
     \/ Runs(k, t) /\ at[t] = "writing" /\ buf[t] = m
  /\ buf' = [buf EXCEPT ![t] = m]

\* mutant: a reader is woken only when the queue was empty
WakesReader_First == q.readers # <<>> /\ q.size = 0
WakesReader == q.readers # <<>>

\* The message is in the queue and the first reader woken.
Put(m) ==
  /\ q.size < Capacity
  /\ \/ /\ ~WakesReader
        /\ q' = Stored(m)
        /\ UNCHANGED info
     \/ /\ WakesReader
        /\ q' = [Stored(m) EXCEPT !.readers = Tail(@)]
        /\ info' = [info EXCEPT ![Head(q.readers)] = FALSE]
Woken == IF WakesReader THEN Wake(k, Head(q.readers)) ELSE k

Send(t, m) ==
  /\ Sends(t, m)
  /\ Put(m)
  /\ Settle(t, "sent")
  /\ k' = IF WakesReader THEN CheckRunScheduler(Woken) ELSE k
  /\ UNCHANGED <<wait, made>>

\* With LWMSGQ_SEND_BLOCK_ON_SEND the sender blocks before interrupts are
\* enabled again, until a task or handler calls _task_ready for it.
SendAndBlock(t, m) ==
  /\ Sends(t, m)
  /\ Put(m)
  /\ Settle(t, "sending")
  /\ k' = Dispatch([Unlink(Woken, t, k.my[t]) EXCEPT !.state[t] = "BLOCKED"])
  /\ UNCHANGED <<wait, made>>

Released(t) ==
  /\ Runs(k, t) /\ at[t] = "sending"
  /\ Settle(t, "sent")
  /\ UNCHANGED <<k, q, buf, wait, info, made>>

\* Without LWMSGQ_SEND_BLOCK_ON_FULL.
FindFull(t, m) ==
  /\ Starts(t) /\ Sends(t, m)
  /\ q.size = Capacity
  /\ Settle(t, "full")
  /\ UNCHANGED <<k, q, wait, info, made>>

BlockOnFull(t, m) ==
  /\ Sends(t, m)
  /\ q.size = Capacity
  /\ q' = [q EXCEPT !.writers = Append(@, t)]
  /\ info' = [info EXCEPT ![t] = TRUE]
  /\ Settle(t, "writing")
  /\ k' = Dispatch([Unlink(k, t, k.my[t]) EXCEPT
                      !.state[t] = "LWMSGQ_WRITE_BLOCKED"])
  /\ UNCHANGED <<wait, made>>

\* _task_ready of a task that blocked after it sent
ReadySender(t, u) ==
  /\ Starts(t)
  /\ k.state[u] = "BLOCKED"
  /\ k' = PendScheduler(TaskReady(k, u))
  /\ UNCHANGED <<q, at, buf, wait, info, made>>

TaskStep(t) ==
  \/ Create(t) \/ Refuse(t)
  \/ Take(t) \/ FindEmpty(t) \/ ReadAgain(t) \/ ReadTimeout(t)
  \/ BlockOnEmpty(t, NoWait)
  \/ \E u \in {"for", "time"}, d \in Ticks :
       BlockOnEmpty(t, [until |-> u, ticks |-> d, elapsed |-> 0])
  \/ \E m \in Message :
       Send(t, m) \/ SendAndBlock(t, m) \/ FindFull(t, m) \/ BlockOnFull(t, m)
  \/ Released(t)
  \/ \E u \in Writer : ReadySender(t, u)

-----------------------------------------------------------------------------
(* Interrupt handlers, the tick and the dispatcher.                         *)

EnterIsr ==
  /\ ~k.ticking /\ ~Masked
  /\ k.isr < MaxNesting
  /\ k' = IsrEntry(k)
  /\ UNCHANGED <<q, at, buf, wait, info, made>>

ReturnFromIsr ==
  /\ ~k.ticking
  /\ k.isr > 0
  /\ k' = IsrReturn(k)
  /\ UNCHANGED <<q, at, buf, wait, info, made>>

HandlerSend(m) ==
  /\ k.isr > 0 /\ ~k.ticking
  /\ q.valid
  /\ Put(m)
  /\ k' = Woken
  /\ UNCHANGED <<at, buf, wait, made>>

HandlerReady(u) ==
  /\ k.isr > 0 /\ ~k.ticking
  /\ k.state[u] = "BLOCKED"
  /\ k' = TaskReady(k, u)
  /\ UNCHANGED <<q, at, buf, wait, info, made>>

\* The time goes on for the receives that count it.
Counts(t) == at[t] = "reading" /\ wait[t].until # "ever"
Tick ==
  /\ k.isr > 0 /\ ~k.ticking
  /\ \A t \in AppTask : Counts(t) => wait[t].elapsed < MaxElapsed
  /\ k' = TickStart(k)
  /\ wait' = [t \in AppTask |->
                IF Counts(t) THEN [wait[t] EXCEPT !.elapsed = @ + 1]
                ELSE wait[t]]
  /\ UNCHANGED <<q, at, buf, info, made>>

\* mutant: a reader whose time is up stays on WAITING_READERS
WakeDue_StaysQueued ==
  /\ k.ticking /\ Due(k)
  /\ k' = TickWake(k)
  /\ UNCHANGED <<q, at, buf, wait, info, made>>

\* Only readers wait with a timeout; TD.INFO leads to their queue.
WakeDue ==
  /\ k.ticking /\ Due(k)
  /\ k' = TickWake(k)
  /\ q' = [q EXCEPT !.readers = Without(@, Head(k.timeouts))]
  /\ UNCHANGED <<at, buf, wait, info, made>>

TickReturn ==
  /\ k.ticking /\ ~Due(k)
  /\ k' = TickEnd(k)
  /\ UNCHANGED <<q, at, buf, wait, info, made>>

PendSV ==
  /\ k.pend /\ k.isr = 0
  /\ k' = Dispatch(k)
  /\ UNCHANGED <<q, at, buf, wait, info, made>>

IsrStep == \/ EnterIsr \/ ReturnFromIsr \/ Tick \/ WakeDue \/ TickReturn
           \/ \E m \in Message : HandlerSend(m)
           \/ \E u \in Writer : HandlerReady(u)

Next == (\E t \in AppTask : TaskStep(t)) \/ IsrStep \/ PendSV

Spec == Init /\ [][Next]_vars

-----------------------------------------------------------------------------
(* Properties.                                                              *)

TypeOK ==
  /\ k \in Kernel
  /\ q \in Queue
  /\ at \in [AppTask -> At]
  /\ buf \in [AppTask -> Message]
  /\ wait \in [AppTask -> Patience]
  /\ info \in [AppTask -> BOOLEAN]
  /\ made \in 0 .. MaxCreations

\* The two waiting queues, the states of the tasks, their places in the calls
\* and the kernel's queues agree, through every wake, timeout and new round.
InState(s) == {t \in AppTask : k.state[t] = s}
WaitersAgree ==
  /\ TypeOK
  /\ QueuesAgree(k) /\ NoneAbove(k)
  /\ IsInjective(q.readers) /\ IsInjective(q.writers)
  /\ ToSet(q.readers) = InState("LWMSGQ_READ_BLOCKED")
  /\ ToSet(q.writers) = InState("LWMSGQ_WRITE_BLOCKED")
  /\ \A t \in AppTask :
       /\ t \in ToSet(q.readers) => at[t] = "reading"
       /\ t \in ToSet(q.writers) => at[t] = "writing"
       /\ at[t] \in {"reading", "writing"} =>
            IsReady(k, t) \/ t \in ToSet(q.readers) \cup ToSet(q.writers)

\* No wake is lost.  A send wakes one reader only and a receive one writer
\* only, and the woken task may find the message or the slot gone: while a
\* reader waits, each message has a woken reader that is on its way to it,
\* and while a writer waits, each free slot has a woken writer.
OnTheWay(place) ==
  {t \in AppTask : at[t] = place /\ IsReady(k, t) /\ ~info[t]}
NoLostWake ==
  /\ q.readers # <<>> => q.size <= Cardinality(OnTheWay("reading"))
  /\ q.writers # <<>> => Capacity - q.size <= Cardinality(OnTheWay("writing"))

\* What is in the ring, in order, is what module Channel says it is.
Content == [i \in 1 .. q.size |-> q.slots[(q.read + i - 1) % Capacity]]
Abstract == INSTANCE Channel WITH
  Client  <- AppTask,
  open    <- q.valid,
  content <- Content,
  call    <- at
ImplementsChannel == Abstract!Spec
=============================================================================
