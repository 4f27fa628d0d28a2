------------------------------- MODULE Kernel -------------------------------
(***************************************************************************)
(* The part of KERNEL_DATA_STRUCT and of the task descriptors which the    *)
(* scheduler of MQX keeps (mqx/source/include/mqx_prv.h), and the kernel's *)
(* internal routines as operators that take a kernel record k and return   *)
(* the record they leave: sched.c, time.c, task.c and the Cortex-M         *)
(* dispatcher dispatch.S.  This module has no variables; every component   *)
(* that runs on the kernel holds one such record in a variable of its own. *)
(*                                                                         *)
(* Priorities are the numbers of the source: 0 is the most urgent, and the *)
(* idle task has a level of its own below LowestTaskPriority.              *)
(***************************************************************************)
EXTENDS Integers, Sequences, SequencesExt

CONSTANTS Task,                 \* application tasks and the idle task
          Idle,                 \* the idle task: always READY
          LowestTaskPriority    \* INIT.LOWEST_TASK_PRIORITY

Prio    == 0 .. LowestTaskPriority + 1
AppTask == Task \ {Idle}
AppPrio == 0 .. LowestTaskPriority

ASSUME KernelAssumption ==
  /\ LowestTaskPriority \in Nat
  /\ Idle \in Task

\* What TD.STATE distinguishes, apart from its IS_ON_TIMEOUT_Q bit.
State == {"READY", "BLOCKED", "TASK_QUEUE_BLOCKED", "MUTEX_BLOCKED",
          "LWSEM_BLOCKED", "LWEVENT_BLOCKED",
          "LWMSGQ_READ_BLOCKED", "LWMSGQ_WRITE_BLOCKED"}

(***************************************************************************)
(* ready     READY_Q_LIST: one FIFO of task descriptors per priority       *)
(* current   CURRENT_READY_Q, as the priority of that queue                *)
(* active    ACTIVE_PTR                                                    *)
(* state     TD.STATE without IS_ON_TIMEOUT_Q, which is timed              *)
(* my, home  the priorities of TD.MY_QUEUE and TD.HOME_QUEUE               *)
(* boosted   TD.BOOSTED; the flag TASK_PRIORITY_BOOSTED is boosted > 0     *)
(* timeouts  TIMEOUT_QUEUE                                                 *)
(* left      TD.TIMEOUT - TIME while timed: the kernel only compares them  *)
(* nopreempt TD.FLAGS & TASK_PREEMPTION_DISABLED                           *)
(* isr       IN_ISR                                                        *)
(* ticking   the tick handler is inside its loop over TIMEOUT_QUEUE, with  *)
(*           interrupts disabled                                           *)
(* pend      PendSV is pending or waits for an interrupt: no task runs     *)
(***************************************************************************)
Kernel ==
  [ready     : [Prio -> Seq(Task)],
   current   : Prio,
   active    : Task,
   state     : [Task -> State],
   my        : [Task -> Prio],
   home      : [Task -> Prio],
   boosted   : [Task -> Nat],
   timeouts  : Seq(Task),
   timed     : [Task -> BOOLEAN],
   left      : [Task -> Int],
   nopreempt : [Task -> BOOLEAN],
   isr       : Nat,
   ticking   : BOOLEAN,
   pend      : BOOLEAN]

\* The kernel once every application task has blocked itself and the idle
\* task has been dispatched; prio gives TD.HOME_QUEUE of every task.
InitKernel(prio) ==
  [ready     |-> [p \in Prio |-> IF p = prio[Idle] THEN <<Idle>> ELSE <<>>],
   current   |-> prio[Idle],
   active    |-> Idle,
   state     |-> [t \in Task |-> IF t = Idle THEN "READY" ELSE "BLOCKED"],
   my        |-> prio,
   home      |-> prio,
   boosted   |-> [t \in Task |-> 0],
   timeouts  |-> <<>>,
   timed     |-> [t \in Task |-> FALSE],
   left      |-> [t \in Task |-> 0],
   nopreempt |-> [t \in Task |-> FALSE],
   isr       |-> 0,
   ticking   |-> FALSE,
   pend      |-> FALSE]

-----------------------------------------------------------------------------
(* Queues of task descriptors (_QUEUE_UNLINK, _QUEUE_INSERT).  A descriptor *)
(* is on a queue at most once.                                              *)

Without(s, t) ==
  RemoveAt(s, CHOOSE i \in 1 .. Len(s) : s[i] = t)

\* td_ptr->STATE == READY
IsReady(k, t) == k.state[t] = "READY" /\ ~k.timed[t]

\* The active task executes instructions of its own.
Runs(k, t) == k.active = t /\ ~k.pend /\ k.isr = 0

\* _QUEUE_UNLINK of a descriptor that is on the ready queue of priority p
Unlink(k, t, p) == [k EXCEPT !.ready[p] = Without(@, t)]

\* _task_ready_internal and the macro _TASK_READY
TaskReady(k, t) ==
  [k EXCEPT !.current = IF k.my[t] < @ THEN k.my[t] ELSE @,
            !.state[t] = "READY",
            !.ready[k.my[t]] = Append(@, t)]

-----------------------------------------------------------------------------
(* The dispatcher.                                                          *)

\* find_noempty_que: downwards from CURRENT_READY_Q; when nothing is found
\* the processor waits for an interrupt and searches from READY_Q_LIST.
Nonempty(k) == {p \in Prio : k.ready[p] # <<>>}
NextQueue(k) ==
  LET below == {p \in Nonempty(k) : k.current <= p}
  IN Min(IF below # {} THEN below ELSE Nonempty(k))

\* mutant: the dispatched task goes to the end of its queue
Dispatch_Rotates(k) ==
  IF Nonempty(k) = {} THEN [k EXCEPT !.pend = TRUE]
  ELSE LET p == NextQueue(k)
           t == Head(k.ready[p])
       IN [k EXCEPT !.current = p, !.active = t, !.pend = FALSE,
                    !.ready[p] = Append(Tail(@), t)]

\* _pend_svc; with no task to run the exception stays active.
Dispatch(k) ==
  IF Nonempty(k) = {} THEN [k EXCEPT !.pend = TRUE]
  ELSE LET p == NextQueue(k)
       IN [k EXCEPT !.current = p, !.active = Head(k.ready[p]), !.pend = FALSE]

\* _sched_check_scheduler_internal, called by a task with interrupts disabled:
\* the switch happens at once.
NeedsSwitch(k) == k.isr = 0 /\ k.current # k.my[k.active]
CheckRunScheduler(k) == IF NeedsSwitch(k) THEN Dispatch(k) ELSE k

\* The same called with interrupts enabled: PendSV is only made pending, and
\* interrupts may come first.
PendScheduler(k) == IF NeedsSwitch(k) THEN [k EXCEPT !.pend = TRUE] ELSE k

\* mutant: the outermost handler only asks whether the queue ran empty
IsrReturn_EmptyOnly(k) ==
  [k EXCEPT !.isr = @ - 1,
            !.pend = \/ @
                     \/ /\ ~k.nopreempt[k.active]
                        /\ k.isr = 1
                        /\ k.ready[k.current] = <<>>]

\* _int_kernel_isr, up to the call of the handler and from its return
IsrEntry(k) == [k EXCEPT !.isr = @ + 1]
IsrReturn(k) ==
  LET q == k.ready[k.current] IN
  [k EXCEPT !.isr = @ - 1,
            !.pend = \/ @
                     \/ /\ ~k.nopreempt[k.active]
                        /\ k.isr = 1
                        /\ (q = <<>> \/ Head(q) # k.active)]

-----------------------------------------------------------------------------
(* Priorities (sched.c).                                                    *)

\* _sched_set_priority_internal
SetPriorityInternal(k, t, p) ==
  LET moved  == [k EXCEPT !.my[t] = p]
      queued == TaskReady(Unlink(moved, t, k.my[t]), t)
  IN IF ~IsReady(k, t) THEN moved
     ELSE IF t = k.active /\ p > k.my[t] THEN Dispatch(queued)
     ELSE queued

\* _task_set_priority
TaskSetPriority(k, t, p) ==
  LET homed == [k EXCEPT !.home[t] = p]
  IN CheckRunScheduler(
       IF k.boosted[t] > 0 /\ p >= k.my[t]
       THEN homed ELSE SetPriorityInternal(homed, t, p))

\* mutant: the boost is counted but the task stays where it is
BoostPriority_OnlyCounts(k, t, p) == [k EXCEPT !.boosted[t] = @ + 1]

\* _sched_boost_priority_internal
BoostPriority(k, t, p) ==
  CheckRunScheduler(SetPriorityInternal([k EXCEPT !.boosted[t] = @ + 1], t, p))

\* mutant: the last boost is taken back like the others
UnboostPriority_KeepsLast(k, t, n) ==
  IF k.boosted[t] = 0 THEN k
  ELSE IF k.boosted[t] >= n THEN [k EXCEPT !.boosted[t] = @ - n]
  ELSE CheckRunScheduler(
         SetPriorityInternal([k EXCEPT !.boosted[t] = 0], t, k.home[t]))

\* _sched_unboost_priority_internal: the task falls back to its home priority
\* only with its last boost.
UnboostPriority(k, t, n) ==
  IF k.boosted[t] = 0 THEN k
  ELSE IF k.boosted[t] > n THEN [k EXCEPT !.boosted[t] = @ - n]
  ELSE CheckRunScheduler(
         SetPriorityInternal([k EXCEPT !.boosted[t] = 0], t, k.home[t]))

InsertPriority_Last(k, s, t) == Append(s, t)      \* mutant

\* _sched_insert_priorityq_internal: before the first less urgent task
InsertPriority(k, s, t) ==
  LET behind == {i \in 1 .. Len(s) : k.my[s[i]] > k.my[t]}
  IN InsertAt(s, Min(behind \cup {Len(s) + 1}), t)

\* _sched_get_max_priority_on_q_internal; for an empty queue a number that
\* stands for MAX_MQX_UINT
MaxPriorityOn(k, s) ==
  Min({k.my[t] : t \in ToSet(s)} \cup {LowestTaskPriority + 2})

\* _task_block
TaskBlock(k, t) ==
  [Unlink(k, t, k.my[t]) EXCEPT !.state[t] = "BLOCKED", !.pend = TRUE]

-----------------------------------------------------------------------------
(* Timeouts (time.c).                                                       *)

\* MQX_DELAY_ENQUEUE_POLICY: before the first descriptor due no earlier
Later(k, d) == {i \in 1 .. Len(k.timeouts) : k.left[k.timeouts[i]] >= d}
InsertPos_Tail(k, d) == Len(k.timeouts) + 1     \* mutant: no search
InsertPos(k, d) ==
  IF Later(k, d) = {} THEN Len(k.timeouts) + 1
  ELSE Min(Later(k, d))

\* _time_delay_internal without its call of the scheduler: t leaves its
\* ready queue and waits for d ticks.
Delay(k, t, d) ==
  [Unlink(k, t, k.my[t]) EXCEPT
     !.timeouts = InsertAt(@, InsertPos(k, d), t),
     !.timed[t] = TRUE,
     !.left[t] = d]

\* mutant: the IS_BLOCKED bit is not set
TimeDequeue_NotBlocked(k, t) ==
  IF ~k.timed[t] THEN k
  ELSE [k EXCEPT !.timeouts = Without(@, t),
                 !.timed[t] = FALSE,
                 !.left[t] = 0]

\* the macro _TIME_DEQUEUE
TimeDequeue(k, t) ==
  IF ~k.timed[t] THEN k
  ELSE [k EXCEPT !.timeouts = Without(@, t),
                 !.timed[t] = FALSE,
                 !.left[t] = 0,
                 !.state[t] = IF @ = "READY" THEN "BLOCKED" ELSE @]

\* _time_notify_kernel: the tick is counted and the loop over TIMEOUT_QUEUE
\* entered; each round wakes the first descriptor while it is due.
TickStart(k) ==
  [k EXCEPT !.left = [t \in Task |-> IF k.timed[t] THEN @[t] - 1 ELSE @[t]],
            !.ticking = TRUE]
Due(k) == k.timeouts # <<>> /\ k.left[Head(k.timeouts)] <= 0
TickWake(k) ==
  LET t == Head(k.timeouts)
  IN TaskReady([k EXCEPT !.timeouts = Tail(@), !.timed[t] = FALSE,
                         !.left[t] = 0], t)
TickEnd(k) == [k EXCEPT !.ticking = FALSE]

\* _TIME_DEQUEUE and _TASK_READY, in this order: how a task that may be
\* waiting with a timeout is woken
Wake(k, t) == TaskReady(TimeDequeue(k, t), t)

\* _mqx: every auto-start task is ready when the scheduler is started;
\* queues are the ready queues in the order of the task templates.
StartKernel(prio, queues) ==
  Dispatch([InitKernel(prio) EXCEPT !.ready = queues,
                                    !.state = [t \in Task |-> "READY"],
                                    !.current = 0])

-----------------------------------------------------------------------------
(* What the routines keep true, stated by the components that use them.     *)

\* STATE, MY_QUEUE and the queues agree: a task is on the ready queue of its
\* current priority exactly while its state is READY, on no other one, and on
\* TIMEOUT_QUEUE exactly while IS_ON_TIMEOUT_Q is set.  Every routine that
\* moves a descriptor changes these in separate assignments.
QueuesAgree(k) ==
  /\ \A p \in Prio :
       /\ IsInjective(k.ready[p])
       /\ ToSet(k.ready[p]) = {t \in Task : IsReady(k, t) /\ k.my[t] = p}
  /\ IsInjective(k.timeouts)
  /\ ToSet(k.timeouts) = {t \in Task : k.timed[t]}

\* "CURRENT_READY_Q [...] points to the highest priority ready queue that
\* contains a task descriptor" (mqx_prv.h): the dispatcher starts its search
\* there, so it would not find a task on a more urgent queue.
NoneAbove(k) == \A p \in Prio : k.ready[p] # <<>> => k.current <= p
=============================================================================
