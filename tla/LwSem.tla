------------------------------- MODULE LwSem -------------------------------
(***************************************************************************)
(* One lightweight semaphore (lwsem.c) used by tasks and by interrupt      *)
(* handlers on the kernel of module Kernel.                                *)
(*                                                                         *)
(* The calls check VALID with interrupts enabled and only then disable     *)
(* them: between the two a task can be preempted, and the semaphore posted *)
(* or destroyed.  So a call takes two steps, and a third one when it       *)
(* blocks, in which the task goes on from the switch, still with           *)
(* interrupts disabled (the switch restores BASEPRI).                      *)
(***************************************************************************)
EXTENDS Kernel

CONSTANTS HomePriority,   \* [Task -> Prio]
          AutoQueues,     \* ready queues when the scheduler starts
          InitialValues,  \* what _lwsem_create is called with
          MaxValue,       \* bound: no post beyond this many tokens
          Timeouts,       \* timeouts of waits, in ticks
          Delays,         \* delays of tasks that do something else
          MaxCreations,   \* bound on the calls of _lwsem_create
          MaxNesting      \* bound on the nesting of handlers

ASSUME LwSemAssumption ==
  /\ HomePriority \in [Task -> Prio]
  /\ AutoQueues \in [Prio -> Seq(Task)]
  /\ \A p \in Prio :
       /\ IsInjective(AutoQueues[p])
       /\ ToSet(AutoQueues[p]) = {t \in Task : HomePriority[t] = p}
  /\ InitialValues \subseteq Int
  /\ MaxValue \in Nat /\ Timeouts \subseteq Nat /\ Delays \subseteq Nat
  /\ MaxCreations \in Nat /\ MaxNesting \in Nat

VARIABLES
  k,      \* the kernel
  sem,    \* LWSEM_STRUCT: VALID, VALUE, TD_QUEUE
  at,     \* where each task is in its call
  info,   \* TD.INFO # 0
  made    \* calls of _lwsem_create so far

vars == <<k, sem, at, info, made>>

\* Between calls: how the last wait or poll ended.
Outcome == {"none", "ok", "timeout", "invalid"}
\* Past the check of VALID; inside a wait that blocked; inside the loop of
\* _lwsem_destroy.
Checked == {"wait", "poll", "post"}
Blocked == {"blocked", "timedBlocked"}
At      == Outcome \cup Checked \cup Blocked \cup {"destroying"}

Init ==
  /\ k = StartKernel(HomePriority, AutoQueues)
  /\ sem = [valid |-> FALSE, value |-> 0, waiters |-> <<>>]
  /\ at = [t \in AppTask |-> "none"]
  /\ info = [t \in AppTask |-> FALSE]
  /\ made = 0

\* The active task runs with interrupts disabled.
Masked == \E t \in AppTask : Runs(k, t) /\ at[t] \in Blocked \cup {"destroying"}

-----------------------------------------------------------------------------
(* Calls of the active task t.                                              *)

\* VALUE and TD_QUEUE are set before the check that the semaphore is new.
Create(t, v) ==                                   \* _lwsem_create_internal
  /\ Runs(k, t) /\ at[t] \in Outcome
  /\ made < MaxCreations
  /\ made' = made + 1
  /\ sem' = [valid |-> TRUE, value |-> v, waiters |-> <<>>]
  /\ UNCHANGED <<k, at, info>>

Check(t, op) ==              \* up to the check of VALID, for each of Checked
  /\ Runs(k, t) /\ at[t] \in Outcome
  /\ at' = [at EXCEPT ![t] = IF sem.valid THEN op
                             ELSE IF op = "wait" THEN "invalid" ELSE "none"]
  /\ UNCHANGED <<k, sem, info, made>>

TakeToken == sem' = [sem EXCEPT !.value = @ - 1]

Poll(t) ==                                        \* _lwsem_poll
  /\ Runs(k, t) /\ at[t] = "poll"
  /\ \/ /\ sem.value <= 0
        /\ at' = [at EXCEPT ![t] = "none"]
        /\ UNCHANGED sem
     \/ /\ sem.value > 0
        /\ TakeToken
        /\ at' = [at EXCEPT ![t] = "ok"]
  /\ UNCHANGED <<k, info, made>>

Acquire(t) ==                         \* a wait that finds a token
  /\ Runs(k, t) /\ at[t] = "wait"
  /\ sem.value > 0
  /\ TakeToken
  /\ at' = [at EXCEPT ![t] = IF sem.valid THEN "ok" ELSE "invalid"]
  /\ UNCHANGED <<k, info, made>>

Enqueue(t) ==
  /\ Runs(k, t) /\ at[t] = "wait"
  /\ sem.value <= 0
  /\ sem' = [sem EXCEPT !.waiters = Append(@, t)]
  /\ info' = [info EXCEPT ![t] = TRUE]
  /\ UNCHANGED made

WaitForever(t) ==                                 \* _lwsem_wait
  /\ Enqueue(t)
  /\ at' = [at EXCEPT ![t] = "blocked"]
  /\ k' = Dispatch([Unlink(k, t, k.my[t]) EXCEPT !.state[t] = "LWSEM_BLOCKED"])

\* mutant: the task is not put on TIMEOUT_QUEUE
WaitTimed_NoTimeout(t, d) ==
  /\ Enqueue(t)
  /\ at' = [at EXCEPT ![t] = "timedBlocked"]
  /\ k' = Dispatch([Unlink(k, t, k.my[t]) EXCEPT !.state[t] = "LWSEM_BLOCKED"])

WaitTimed(t, d) ==                                \* _lwsem_wait_timed_internal
  /\ Enqueue(t)
  /\ at' = [at EXCEPT ![t] = "timedBlocked"]
  /\ k' = Dispatch(Delay([k EXCEPT !.state[t] = "LWSEM_BLOCKED"], t, d))

\* mutant: INFO is not looked at
Resume_AlwaysOk(t) ==
  /\ Runs(k, t) /\ at[t] \in Blocked
  /\ at' = [at EXCEPT ![t] = IF ~sem.valid THEN "invalid" ELSE "ok"]
  /\ UNCHANGED <<k, sem, info, made>>

\* The wait goes on once its task is dispatched again.
Resume(t) ==
  /\ Runs(k, t) /\ at[t] \in Blocked
  /\ at' = [at EXCEPT ![t] =
              IF ~sem.valid THEN "invalid"
              ELSE IF @ = "timedBlocked" /\ info[t] THEN "timeout"
              ELSE "ok"]
  /\ UNCHANGED <<k, sem, info, made>>

\* _lwsem_post with interrupts disabled
Wakes_Positive == sem.value > 0 /\ sem.waiters # <<>>        \* mutant
Wakes == sem.value >= 0 /\ sem.waiters # <<>>
PostTo ==
  \/ /\ Wakes
     /\ k' = CheckRunScheduler(Wake(k, Head(sem.waiters)))
     /\ sem' = [sem EXCEPT !.waiters = Tail(@)]
     /\ info' = [info EXCEPT ![Head(sem.waiters)] = FALSE]
  \/ /\ ~Wakes
     /\ sem.value < MaxValue
     /\ sem' = [sem EXCEPT !.value = @ + 1]
     /\ UNCHANGED <<k, info>>

Post(t) ==
  /\ Runs(k, t) /\ at[t] = "post"
  /\ PostTo
  /\ at' = [at EXCEPT ![t] = "none"]
  /\ UNCHANGED made

\* _lwsem_destroy_internal: its loop wakes one task per step.
Destroy(t) ==
  /\ Runs(k, t) /\ at[t] \in Outcome
  /\ sem.valid
  /\ sem' = [sem EXCEPT !.valid = FALSE]
  /\ at' = [at EXCEPT ![t] = "destroying"]
  /\ UNCHANGED <<k, info, made>>

DestroyNext(t) ==
  /\ at[t] = "destroying"
  /\ sem.waiters # <<>>
  /\ k' = Wake(k, Head(sem.waiters))
  /\ sem' = [sem EXCEPT !.waiters = Tail(@)]
  /\ UNCHANGED <<at, info, made>>

DestroyEnd(t) ==
  /\ at[t] = "destroying"
  /\ sem.waiters = <<>>
  /\ k' = PendScheduler(k)
  /\ at' = [at EXCEPT ![t] = "none"]
  /\ UNCHANGED <<sem, info, made>>

\* The task delays itself, outside any call of the semaphore.
Sleep(t, d) ==
  /\ Runs(k, t) /\ at[t] \in Outcome
  /\ k' = Dispatch(Delay(k, t, d))
  /\ UNCHANGED <<sem, at, info, made>>

TaskStep(t) ==
  \/ \E v \in InitialValues : Create(t, v)
  \/ \E op \in Checked : Check(t, op)
  \/ Poll(t)
  \/ Acquire(t)
  \/ WaitForever(t)
  \/ \E d \in Timeouts : WaitTimed(t, d)
  \/ Resume(t)
  \/ Post(t)
  \/ Destroy(t)
  \/ DestroyNext(t)
  \/ DestroyEnd(t)
  \/ \E d \in Delays : Sleep(t, d)

-----------------------------------------------------------------------------
(* Interrupt handlers, the tick and the dispatcher.                         *)

EnterIsr ==
  /\ ~k.ticking /\ ~Masked
  /\ k.isr < MaxNesting
  /\ k' = IsrEntry(k)
  /\ UNCHANGED <<sem, at, info, made>>

ReturnFromIsr ==
  /\ ~k.ticking
  /\ k.isr > 0
  /\ k' = IsrReturn(k)
  /\ UNCHANGED <<sem, at, info, made>>

HandlerPost ==
  /\ k.isr > 0 /\ ~k.ticking
  /\ sem.valid
  /\ PostTo
  /\ UNCHANGED <<at, made>>

HandlerPoll ==
  /\ k.isr > 0 /\ ~k.ticking
  /\ sem.valid
  /\ sem.value > 0
  /\ TakeToken
  /\ UNCHANGED <<k, at, info, made>>

Tick ==
  /\ k.isr > 0 /\ ~k.ticking
  /\ k' = TickStart(k)
  /\ UNCHANGED <<sem, at, info, made>>

\* mutant: a task whose wait times out stays on TD_QUEUE
WakeDue_StaysQueued ==
  /\ k.ticking /\ Due(k)
  /\ k' = TickWake(k)
  /\ UNCHANGED <<sem, at, info, made>>

\* A task whose wait times out leaves TD_QUEUE as well, wherever it stands.
WakeDue ==
  /\ k.ticking /\ Due(k)
  /\ k' = TickWake(k)
  /\ sem' = LET t == Head(k.timeouts)
            IN IF k.state[t] = "LWSEM_BLOCKED"
               THEN [sem EXCEPT !.waiters = Without(@, t)] ELSE sem
  /\ UNCHANGED <<at, info, made>>

TickReturn ==
  /\ k.ticking /\ ~Due(k)
  /\ k' = TickEnd(k)
  /\ UNCHANGED <<sem, at, info, made>>

PendSV ==
  /\ k.pend /\ k.isr = 0
  /\ k' = Dispatch(k)
  /\ UNCHANGED <<sem, at, info, made>>

IsrStep == EnterIsr \/ ReturnFromIsr \/ HandlerPost \/ HandlerPoll
             \/ Tick \/ WakeDue \/ TickReturn

Next == (\E t \in AppTask : TaskStep(t)) \/ IsrStep \/ PendSV

Spec == Init /\ [][Next]_vars

\* The tick interrupt keeps coming, handlers and the kernel's loops end, and
\* a pending PendSV is taken once handlers no longer hold it off; a task that
\* may run goes on with the call it is in.
Fairness == /\ WF_vars(EnterIsr) /\ SF_vars(Tick)
            /\ WF_vars(WakeDue) /\ WF_vars(TickReturn)
            /\ SF_vars(ReturnFromIsr) /\ SF_vars(PendSV)
            /\ \A t \in AppTask : /\ WF_vars(Resume(t))
                                  /\ WF_vars(DestroyNext(t))
                                  /\ WF_vars(DestroyEnd(t))

FairSpec == Spec /\ Fairness

-----------------------------------------------------------------------------
(* Properties.                                                              *)

TypeOK ==
  /\ k \in Kernel
  /\ sem \in [valid : BOOLEAN, value : Int, waiters : Seq(AppTask)]
  /\ at \in [AppTask -> At]
  /\ info \in [AppTask -> BOOLEAN]
  /\ made \in 0 .. MaxCreations

\* The semaphore's queue, the states of the tasks and the kernel's queues
\* agree: a task is on TD_QUEUE exactly while it is LWSEM_BLOCKED, and only
\* a task inside a wait is.  Post, destroy and tick each take a descriptor
\* off two queues and put it on a third.
WaitersAgree ==
  /\ QueuesAgree(k) /\ NoneAbove(k)
  /\ IsInjective(sem.waiters)
  /\ ToSet(sem.waiters) = {t \in AppTask : k.state[t] = "LWSEM_BLOCKED"}
  /\ \A t \in AppTask :
       /\ t \in ToSet(sem.waiters) => at[t] \in Blocked
       /\ at[t] \in Blocked => t \in ToSet(sem.waiters) \/ IsReady(k, t)

\* No task waits while a token is there for it: a post that found no waiter
\* and a wait that found no token cannot pass each other.
NoIdleToken == sem.value > 0 => sem.waiters = <<>>

\* Tokens, order of arrival and results are those of module Semaphore.
Destroying == \E t \in AppTask : at[t] = "destroying"
AbstractQueue == IF Destroying THEN <<>> ELSE sem.waiters
CallSeen(place, blocked, left) ==
  CASE place \in Outcome -> place
    [] place \in Checked \cup {"destroying"} -> "none"
    [] place \in Blocked -> IF blocked THEN "waiting"
                            ELSE IF left THEN "left" ELSE "granted"
AbstractCall == [t \in AppTask |->
  CallSeen(at[t], k.state[t] = "LWSEM_BLOCKED" /\ ~Destroying, info[t])]
Abstract == INSTANCE Semaphore WITH
  Client <- AppTask,
  valid  <- sem.valid,
  value  <- sem.value,
  queue  <- AbstractQueue,
  call   <- AbstractCall
ImplementsSemaphore == Abstract!Spec

\* A wait with a timeout leaves the queue, whatever posts do.
TimedWaitsEnd ==
  \A t \in AppTask : at[t] = "timedBlocked" ~> k.state[t] = "READY"

\* A task that was woken gets to return from its wait when no other task has
\* its priority or a more urgent one.
WokenReturns ==
  \A t \in AppTask :
    (\A u \in Task \ {t} : HomePriority[t] < HomePriority[u]) =>
      (at[t] \in Blocked /\ IsReady(k, t) ~> at[t] \in Outcome)
=============================================================================
