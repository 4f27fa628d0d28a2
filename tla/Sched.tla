------------------------------- MODULE Sched -------------------------------
(***************************************************************************)
(* The scheduler of MQX as application tasks and interrupt handlers use    *)
(* it: yielding, blocking, readying, delays, priorities, the preemption    *)
(* switch of task.c, and interrupts that nest up to MaxNesting deep.       *)
(*                                                                         *)
(* Whatever a task does between two _int_disable()s is one step, since no  *)
(* handler and no other task runs in between.  Handlers and the delayed    *)
(* context switch (PendSV) interleave everywhere else.                     *)
(***************************************************************************)
EXTENDS Kernel

CONSTANTS HomePriority,   \* [Task -> Prio]: TASK_TEMPLATE.TASK_PRIORITY
          MaxDelay,       \* longest delay a task asks for, in ticks
          MaxNesting      \* deepest nesting of interrupt handlers

ASSUME SchedAssumption ==
  /\ HomePriority \in [Task -> Prio]
  /\ HomePriority[Idle] = LowestTaskPriority + 1
  /\ \A t \in AppTask : HomePriority[t] \in AppPrio
  /\ MaxDelay \in Nat
  /\ MaxNesting \in Nat

VARIABLE k

Init == k = InitKernel(HomePriority)

-----------------------------------------------------------------------------
(* Steps of the active task t.                                              *)

Yield(t) ==                                       \* _sched_yield
  /\ Runs(k, t)
  /\ k' = Dispatch(TaskReady(Unlink(k, t, k.my[t]), t))

Block(t) ==                                       \* _task_block
  /\ Runs(k, t)
  /\ k' = TaskBlock(k, t)

Sleep(t, d) ==                                    \* _time_delay_until and kin
  /\ Runs(k, t)
  /\ k' = Dispatch(Delay(k, t, d))

\* _task_ready of a task that blocked itself.  The switch follows once
\* interrupts are enabled again.
Ready(t, u) ==
  /\ Runs(k, t)
  /\ ~k.timed[u]
  /\ k.state[u] = "BLOCKED"
  /\ k' = PendScheduler(TaskReady(k, u))

CancelDelay(t, u) ==                              \* _time_dequeue
  /\ Runs(k, t)
  /\ k.timed[u]
  /\ k' = TimeDequeue(k, u)

SetPriority(t, u, p) ==                           \* _task_set_priority
  /\ Runs(k, t)
  /\ k' = TaskSetPriority(k, u, p)

StopPreemption(t) ==                              \* _task_stop_preemption
  /\ Runs(k, t)
  /\ k' = [k EXCEPT !.nopreempt[t] = TRUE]

StartPreemption(t) ==                             \* _task_start_preemption
  /\ Runs(k, t)
  /\ k' = CheckRunScheduler([k EXCEPT !.nopreempt[t] = FALSE])

TaskStep(t) ==
  \/ Yield(t)
  \/ Block(t)
  \/ \E d \in 0 .. MaxDelay : Sleep(t, d)
  \/ \E u \in AppTask : \/ Ready(t, u)
                        \/ CancelDelay(t, u)
                        \/ \E p \in AppPrio : SetPriority(t, u, p)
  \/ StopPreemption(t)
  \/ StartPreemption(t)

-----------------------------------------------------------------------------
(* Interrupts and the dispatcher.                                           *)

EnterIsr ==                                       \* _int_kernel_isr
  /\ ~k.ticking
  /\ k.isr < MaxNesting
  /\ k' = IsrEntry(k)

ReturnFromIsr ==                                  \* _int_kernel_isr_epilog
  /\ ~k.ticking
  /\ k.isr > 0
  /\ k' = IsrReturn(k)

IsrReady(u) ==                                    \* _task_ready in a handler
  /\ ~k.ticking
  /\ k.isr > 0
  /\ ~k.timed[u]
  /\ k.state[u] = "BLOCKED"
  /\ k' = TaskReady(k, u)

Tick ==                                           \* _time_notify_kernel
  /\ ~k.ticking
  /\ k.isr > 0
  /\ k' = TickStart(k)

WakeDue == k.ticking /\ Due(k) /\ k' = TickWake(k)

TickReturn == k.ticking /\ ~Due(k) /\ k' = TickEnd(k)

\* The processor takes PendSV when no other handler is active.
PendSV ==
  /\ k.pend
  /\ k.isr = 0
  /\ k' = Dispatch(k)

IsrStep == \/ EnterIsr
           \/ ReturnFromIsr
           \/ \E u \in AppTask : IsrReady(u)
           \/ Tick
           \/ WakeDue
           \/ TickReturn

Next == (\E t \in AppTask : TaskStep(t)) \/ IsrStep \/ PendSV

Spec == Init /\ [][Next]_k

-----------------------------------------------------------------------------
(* Properties.                                                              *)

\* Type invariant of the kernel record.
TypeOK == k \in Kernel

\* The dispatcher misses no ready task: see NoneAbove.
SearchComplete == NoneAbove(k)

\* The kernel's queues and the task descriptors agree, see QueuesAgree, and
\* the dispatcher's cache of the most urgent queue with them, through every
\* interleaving of tasks, nested handlers and ticks.
Consistent == TypeOK /\ QueuesAgree(k) /\ SearchComplete

\* Whenever a task that allows preemption executes, no task more urgent than
\* it is ready, however interrupts, priority changes and blocking went before.
RunsHighest ==
  \A t \in Task : Runs(k, t) /\ ~k.nopreempt[t] =>
    /\ IsReady(k, t)
    /\ \A u \in Task : IsReady(k, u) => k.my[t] <= k.my[u]

\* No delayed task outlives its timeout: the tick handler stops at the first
\* descriptor not yet due, so this rests on the order of TIMEOUT_QUEUE that
\* _time_delay_internal keeps.
NoneOverdue == ~k.ticking => \A t \in Task : k.timed[t] => k.left[t] >= 0

\* Tasks of one priority run in turn: of two tasks on a ready queue the later
\* one never gets ahead, unless the earlier one yields or is given a priority.
Before(s, t, u) == \E i, j \in 1 .. Len(s) : i < j /\ s[i] = t /\ s[j] = u
NoOvertaking ==
  [][\A p \in Prio, t, u \in Task :
        Before(k.ready[p], t, u) /\ Before(k'.ready[p], u, t) =>
          \/ Yield(t)
          \/ \E a \in Task, q \in AppPrio : SetPriority(a, t, q)]_k
=============================================================================
