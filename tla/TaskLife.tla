------------------------------ MODULE TaskLife ------------------------------
(***************************************************************************)
(* How tasks come and go (task.c: _task_create, _task_abort,               *)
(* _task_destroy) while others suspend them on a task queue (taskq.c) or   *)
(* they wait for a lightweight semaphore, on the kernel of module Kernel.  *)
(*                                                                         *)
(* Creation and destruction are serialised by the semaphore                *)
(* TASK_CREATE_LWSEM, here lock, but most of both happens with interrupts  *)
(* enabled: a destroyer can be preempted, suspended, aborted or destroyed  *)
(* between any two of its steps, and the task it destroys was looked up    *)
(* before it waited for the lock.                                          *)
(*                                                                         *)
(* A descriptor that was freed is not used again for another task.         *)
(***************************************************************************)
EXTENDS Kernel

CONSTANTS HomePriority,   \* [Task -> Prio]
          AutoQueues,     \* ready queues when the scheduler starts
          Children,       \* tasks that do not exist until they are created
          Policies,       \* MQX_TASK_QUEUE_FIFO, MQX_TASK_QUEUE_BY_PRIORITY
          Timeouts,       \* timeouts of waits and delays, in ticks
          MaxValue,       \* bound: no post of the semaphore beyond it
          MaxQueues,      \* bound on the calls of _taskq_create
          MaxNesting,     \* bound on the nesting of handlers
          Careful         \* which tasks are aborted: see MayAbort

ASSUME TaskLifeAssumption ==
  /\ HomePriority \in [Task -> Prio]
  /\ AutoQueues \in [Prio -> Seq(Task)]
  /\ Children \subseteq AppTask
  /\ \A p \in Prio :
       /\ IsInjective(AutoQueues[p])
       /\ ToSet(AutoQueues[p]) = {t \in Task \ Children : HomePriority[t] = p}
  /\ Policies \subseteq {"FIFO", "PRIORITY"}
  /\ Timeouts \subseteq Nat /\ MaxValue \in Nat
  /\ MaxQueues \in Nat /\ MaxNesting \in Nat
  /\ Careful \in BOOLEAN

VARIABLES
  k,      \* the kernel
  td,     \* what there is of each task; for those in Dead, TD.STATE is DYING
          \* (which has the bit IS_BLOCKED) whatever k.state says
  call,   \* where each task is, and which task its call is about
  q,      \* TASK_QUEUE_STRUCT: VALID, POLICY, TD_QUEUE
  sem,    \* a lightweight semaphore the tasks use: VALUE, TD_QUEUE
  lock,   \* TASK_CREATE_LWSEM
  made,     \* calls of _taskq_create so far
  resuming  \* _taskq_resume is in its loop over all tasks

vars == <<k, td, call, q, sem, lock, made, resuming>>

\* built: initialised, its id not yet returned; dying: STATE is DYING;
\* unlisted: off TD_LIST, and TASK_ID is TASK_ID_DYING.
Life == {"none", "built", "alive", "dying", "unlisted", "freed"}
Dead == {"dying", "unlisted", "freed"}

\* run: between calls, or in one that has nothing left to do; exit: about to
\* execute _task_exit_function_internal; drain: in the loop of
\* _taskq_destroy; wants..: up to the lock, waiting for it or not; has..: with
\* it; cleanup: past the removal of the victim; free, ready: lock given back.
At == {"run", "exit", "drain", "wantsDestroy", "wantsCreate",
       "hasDestroy", "hasCreate", "cleanup", "free", "ready"}

Init ==
  /\ k = [StartKernel(HomePriority, AutoQueues) EXCEPT
            !.state = [t \in Task |-> IF t \in Children THEN "BLOCKED" ELSE @[t]]]
  /\ td = [t \in AppTask |-> IF t \in Children THEN "none" ELSE "alive"]
  /\ call = [t \in AppTask |-> [at |-> "run", who |-> t]]
  /\ q = [valid |-> FALSE, policy |-> "FIFO", waiting |-> <<>>]
  /\ sem = [value |-> 0, waiters |-> <<>>]
  /\ lock = [value |-> 1, waiters |-> <<>>]
  /\ made = 0
  /\ resuming = FALSE

\* _QUEUE_UNLINK of a task from a queue on which it may be
Off(s, t) == IF t \in ToSet(s) THEN Without(s, t) ELSE s

Calls(t) == Runs(k, t) /\ call[t].at = "run"
Goes(t, place, u) == call' = [call EXCEPT ![t] = [at |-> place, who |-> u]]

-----------------------------------------------------------------------------
(* The task queue.                                                          *)

CreateQueue(t, policy) ==                         \* _taskq_create
  /\ Calls(t)
  /\ ~q.valid /\ \A u \in AppTask : call[u].at # "drain"
  /\ made < MaxQueues
  /\ q' = [valid |-> TRUE, policy |-> policy, waiting |-> <<>>]
  /\ made' = made + 1
  /\ UNCHANGED <<k, td, call, sem, lock>>

Joined(t) ==
  IF q.policy = "PRIORITY" THEN InsertPriority(k, q.waiting, t)
                           ELSE Append(q.waiting, t)
Parked(t) == [Unlink(k, t, k.my[t]) EXCEPT !.state[t] = "TASK_QUEUE_BLOCKED"]

Suspend(t) ==                                     \* _taskq_suspend
  /\ Calls(t)
  /\ q.valid
  /\ q' = [q EXCEPT !.waiting = Joined(t)]
  /\ k' = Dispatch(Parked(t))
  /\ UNCHANGED <<td, call, sem, lock, made>>

SuspendTask(t, u) ==                              \* _taskq_suspend_task
  /\ Calls(t)
  /\ q.valid
  /\ u # t /\ td[u] = "alive" /\ IsReady(k, u)
  /\ q' = [q EXCEPT !.waiting = Joined(u)]
  /\ k' = Parked(u)
  /\ UNCHANGED <<td, call, sem, lock, made>>

ReadyFirst == TaskReady(k, Head(q.waiting))

\* _taskq_resume: of one task, or the first round of its loop for all tasks
ResumeQueue ==
  /\ q.valid /\ q.waiting # <<>>
  /\ q' = [q EXCEPT !.waiting = Tail(@)]
  /\ \/ /\ k' = PendScheduler(ReadyFirst)
        /\ UNCHANGED resuming
     \/ /\ k' = ReadyFirst
        /\ resuming' = TRUE
  /\ UNCHANGED <<td, call, sem, lock, made>>

Resume(t) == Calls(t) /\ ResumeQueue

\* The loop runs with interrupts disabled.
ResumeMore ==
  /\ \/ /\ q.waiting # <<>>
        /\ q' = [q EXCEPT !.waiting = Tail(@)]
        /\ k' = ReadyFirst
        /\ UNCHANGED resuming
     \/ /\ q.waiting = <<>>
        /\ k' = PendScheduler(k)
        /\ resuming' = FALSE
        /\ UNCHANGED q
  /\ UNCHANGED <<td, call, sem, lock, made>>

\* _taskq_destroy enables interrupts after every round of its loop.
DestroyQueue(t) ==
  /\ Calls(t)
  /\ q.valid
  /\ \/ /\ q.waiting = <<>>
        /\ q' = [q EXCEPT !.valid = FALSE]
        /\ k' = PendScheduler(k)
        /\ UNCHANGED call
     \/ /\ q.waiting # <<>>
        /\ q' = [q EXCEPT !.valid = FALSE, !.waiting = Tail(@)]
        /\ k' = ReadyFirst
        /\ Goes(t, "drain", t)
  /\ UNCHANGED <<td, sem, lock, made>>

\* mutant: the loop does not look at the queue again
Drain_Once(t) ==
  /\ Runs(k, t) /\ call[t].at = "drain"
  /\ k' = PendScheduler(k)
  /\ Goes(t, "run", t)
  /\ UNCHANGED <<td, q, sem, lock, made>>

Drain(t) ==
  /\ Runs(k, t) /\ call[t].at = "drain"
  /\ \/ /\ q.waiting # <<>>
        /\ q' = [q EXCEPT !.waiting = Tail(@)]
        /\ k' = ReadyFirst
        /\ UNCHANGED call
     \/ /\ q.waiting = <<>>
        /\ k' = PendScheduler(k)
        /\ Goes(t, "run", t)
        /\ UNCHANGED q
  /\ UNCHANGED <<td, sem, lock, made>>

-----------------------------------------------------------------------------
(* Waiting: _task_block, delays and the semaphore.                          *)

Block(t) ==                                       \* _task_block
  /\ Calls(t)
  /\ k' = TaskBlock(k, t)
  /\ UNCHANGED <<td, call, q, sem, lock, made>>

Ready(t, u) ==              \* _task_ready of a task that blocked itself
  /\ Calls(t)
  /\ td[u] = "alive" /\ k.state[u] = "BLOCKED" /\ ~k.timed[u]
  /\ k' = PendScheduler(TaskReady(k, u))
  /\ UNCHANGED <<td, call, q, sem, lock, made>>

Sleep(t, d) ==                                    \* _time_delay
  /\ Calls(t)
  /\ k' = Dispatch(Delay(k, t, d))
  /\ UNCHANGED <<td, call, q, sem, lock, made>>

\* _lwsem_wait and _lwsem_wait_ticks with interrupts disabled
Wait(t) ==
  /\ Calls(t)
  /\ \/ /\ sem.value > 0
        /\ sem' = [sem EXCEPT !.value = @ - 1]
        /\ UNCHANGED k
     \/ /\ sem.value <= 0
        /\ sem' = [sem EXCEPT !.waiters = Append(@, t)]
        /\ LET waits == [k EXCEPT !.state[t] = "LWSEM_BLOCKED"] IN
           \/ k' = Dispatch(Unlink(waits, t, k.my[t]))
           \/ \E d \in Timeouts : k' = Dispatch(Delay(waits, t, d))
  /\ UNCHANGED <<td, call, q, lock, made>>

PostSem ==                                        \* _lwsem_post
  /\ \/ /\ sem.waiters # <<>>
        /\ sem' = [sem EXCEPT !.waiters = Tail(@)]
        /\ k' = CheckRunScheduler(Wake(k, Head(sem.waiters)))
     \/ /\ sem.waiters = <<>>
        /\ sem.value < MaxValue
        /\ sem' = [sem EXCEPT !.value = @ + 1]
        /\ UNCHANGED k
  /\ UNCHANGED <<td, call, q, lock, made>>

Post(t) == Calls(t) /\ PostSem

-----------------------------------------------------------------------------
(* The lock.                                                                *)

Granted == [wantsDestroy |-> "hasDestroy", wantsCreate |-> "hasCreate"]
Wants(t) == call[t].at \in DOMAIN Granted

TakeLock(t) ==                        \* _lwsem_wait(&TASK_CREATE_LWSEM)
  /\ Runs(k, t) /\ Wants(t)
  /\ \/ /\ lock.value > 0
        /\ lock' = [lock EXCEPT !.value = @ - 1]
        /\ call' = [call EXCEPT ![t].at = Granted[@]]
        /\ UNCHANGED k
     \/ /\ lock.value <= 0
        /\ lock' = [lock EXCEPT !.waiters = Append(@, t)]
        /\ k' = Dispatch([Unlink(k, t, k.my[t]) EXCEPT
                            !.state[t] = "LWSEM_BLOCKED"])
        /\ UNCHANGED call
  /\ UNCHANGED <<td, q, sem, made>>

\* _lwsem_post(&TASK_CREATE_LWSEM) by t, which goes on to place
PostLock(t, place) ==
  \/ /\ lock.waiters = <<>>
     /\ lock' = [lock EXCEPT !.value = @ + 1]
     /\ call' = [call EXCEPT ![t].at = place]
     /\ UNCHANGED k
  \/ /\ lock.waiters # <<>>
     /\ LET next == Head(lock.waiters) IN
        /\ lock' = [lock EXCEPT !.waiters = Tail(@)]
        /\ call' = [call EXCEPT ![t].at = place, ![next].at = Granted[@]]
        /\ k' = CheckRunScheduler(Wake(k, next))

-----------------------------------------------------------------------------
(* Creation: a child is built with the lock and readied without it.         *)

Create(t, u) ==                                   \* _task_create
  /\ Calls(t)
  /\ td[u] = "none" /\ \A v \in AppTask : v # u => call[v].who # u
  /\ Goes(t, "wantsCreate", u)
  /\ UNCHANGED <<k, td, q, sem, lock, made>>

Build(t) ==                                       \* _task_build_internal
  /\ Runs(k, t) /\ call[t].at = "hasCreate"
  /\ td' = [td EXCEPT ![call[t].who] = "built"]
  /\ PostLock(t, "ready")
  /\ UNCHANGED <<q, sem, made>>

ReadyChild(t) ==      \* the rest of _task_create and of _task_create_blocked
  /\ Runs(k, t) /\ call[t].at = "ready"
  /\ LET u == call[t].who IN
     /\ td' = [td EXCEPT ![u] = "alive"]
     /\ \/ k' = PendScheduler(TaskReady(k, u))
        \/ UNCHANGED k
  /\ Goes(t, "run", t)
  /\ UNCHANGED <<q, sem, lock, made>>

-----------------------------------------------------------------------------
(* Destruction.                                                             *)

\* The victim's descriptor is looked up before the lock is waited for.
Destroy(t, u) ==                                  \* _task_destroy_internal
  /\ Calls(t)
  /\ td[u] \in {"alive", "dying"}
  /\ Goes(t, "wantsDestroy", u)
  /\ UNCHANGED <<k, td, q, sem, lock, made>>

\* mutant: the lock is kept by the task that comes second
AlreadyDying_KeepsLock(t) ==
  /\ td[call[t].who] \in Dead
  /\ Goes(t, "run", t)
  /\ UNCHANGED <<k, td, q, sem, lock>>

AlreadyDying(t) ==
  /\ td[call[t].who] \in Dead
  /\ PostLock(t, "run")
  /\ UNCHANGED <<td, q, sem>>

Buried(u) == [td EXCEPT ![u] = "dying"]

\* mutant: a victim waiting with a timeout only leaves TIMEOUT_QUEUE
Bury_LeavesAux(t, u) ==
  /\ td' = Buried(u)
  /\ call' = [call EXCEPT ![t].at = "cleanup"]
  /\ k' = IF u = t THEN k
          ELSE [(IF IsReady(k, u) THEN Unlink(k, u, k.my[u])
                 ELSE TimeDequeue(k, u)) EXCEPT !.state[u] = "BLOCKED"]
  /\ q' = [q EXCEPT !.waiting = Off(@, u)]
  /\ IF k.timed[u] THEN UNCHANGED <<sem, lock>>
     ELSE /\ sem' = [sem EXCEPT !.waiters = Off(@, u)]
          /\ lock' = [lock EXCEPT !.waiters = Off(@, u)]

\* mutant: a victim that was ready stays on its ready queue
Bury_LeavesReady(t, u) ==
  /\ td' = Buried(u)
  /\ call' = [call EXCEPT ![t].at = "cleanup"]
  /\ k' = IF IsReady(k, u) THEN k
          ELSE [TimeDequeue(k, u) EXCEPT !.state[u] = "BLOCKED"]
  /\ q' = [q EXCEPT !.waiting = Off(@, u)]
  /\ sem' = [sem EXCEPT !.waiters = Off(@, u)]
  /\ lock' = [lock EXCEPT !.waiters = Off(@, u)]

\* The victim u leaves every queue, but a task that destroys itself stays on
\* its ready queue while it runs.
Bury(t, u) ==
  /\ td' = Buried(u)
  /\ call' = [call EXCEPT ![t].at = "cleanup"]
  /\ k' = IF u = t THEN k
          ELSE [(IF IsReady(k, u) THEN Unlink(k, u, k.my[u])
                 ELSE TimeDequeue(k, u)) EXCEPT !.state[u] = "BLOCKED"]
  /\ q' = [q EXCEPT !.waiting = Off(@, u)]
  /\ sem' = [sem EXCEPT !.waiters = Off(@, u)]
  /\ lock' = [lock EXCEPT !.waiters = Off(@, u)]

\* mutant: a task that is being destroyed is destroyed once more
RemoveVictim_Again(t) ==
  /\ Runs(k, t) /\ call[t].at = "hasDestroy"
  /\ Bury(t, call[t].who)
  /\ UNCHANGED made

RemoveVictim(t) ==
  /\ Runs(k, t) /\ call[t].at = "hasDestroy"
  /\ \/ AlreadyDying(t)
     \/ td[call[t].who] \notin Dead /\ Bury(t, call[t].who)
  /\ UNCHANGED made

\* The components' and memory's share of the victim is given back, with
\* interrupts enabled, and the descriptor taken off TD_LIST.
Unlist(t) ==
  /\ Runs(k, t) /\ call[t].at = "cleanup"
  /\ td' = [td EXCEPT ![call[t].who] = "unlisted"]
  /\ PostLock(t, "free")
  /\ UNCHANGED <<q, sem, made>>

Free(t) ==
  /\ Runs(k, t) /\ call[t].at = "free"
  /\ td' = [td EXCEPT ![call[t].who] = "freed"]
  /\ k' = IF call[t].who # t THEN k
          ELSE Dispatch([Unlink(k, t, k.my[t]) EXCEPT !.state[t] = "BLOCKED"])
  /\ Goes(t, "run", t)
  /\ UNCHANGED <<q, sem, lock, made>>

-----------------------------------------------------------------------------
(* Abort: the task is made to execute _task_exit_function_internal.         *)

Holds(t) == call[t].at \in {"hasDestroy", "hasCreate", "cleanup"}

\* When Careful, no task is aborted that is being destroyed, that has the
\* lock, that waits for the semaphore with a timeout, or that is inside
\* _taskq_destroy.
MayAbort(u) ==
  Careful => /\ td[u] = "alive" /\ ~Holds(u)
             /\ ~(k.state[u] = "LWSEM_BLOCKED" /\ k.timed[u])
             /\ call[u].at # "drain"

AbortSelf(t) ==              \* also the return of a task's root function
  /\ Calls(t)
  /\ Goes(t, "exit", t)
  /\ UNCHANGED <<k, td, q, sem, lock, made>>

\* _task_abort_internal of another task: it leaves one queue only, and its
\* interrupted or blocked call is forgotten.
Abort(t, u) ==
  /\ Calls(t)
  /\ u # t /\ td[u] \in {"alive", "dying"}
  /\ MayAbort(u)
  /\ Goes(u, "exit", u)
  /\ k' = IF td[u] = "alive" /\ IsReady(k, u) THEN k
          ELSE CheckRunScheduler(Wake(k, u))
  /\ q' = [q EXCEPT !.waiting = Off(@, u)]
  /\ IF k.timed[u] THEN UNCHANGED <<sem, lock>>
     ELSE /\ sem' = [sem EXCEPT !.waiters = Off(@, u)]
          /\ lock' = [lock EXCEPT !.waiters = Off(@, u)]
  /\ UNCHANGED <<td, made>>

Exit(t) ==                                   \* _task_exit_function_internal
  /\ Runs(k, t) /\ call[t].at = "exit"
  /\ Goes(t, "wantsDestroy", t)
  /\ UNCHANGED <<k, td, q, sem, lock, made>>

TaskStep(t) ==
  \/ \E policy \in Policies : CreateQueue(t, policy)
  \/ Suspend(t) \/ DestroyQueue(t) \/ Drain(t)
  \/ Block(t) \/ Wait(t) \/ Post(t)
  \/ \E d \in Timeouts : Sleep(t, d)
  \/ TakeLock(t)
  \/ \E u \in Children : Create(t, u)
  \/ Build(t) \/ ReadyChild(t)
  \/ RemoveVictim(t) \/ Unlist(t) \/ Free(t)
  \/ AbortSelf(t) \/ Exit(t)
  \/ \E u \in AppTask :
       SuspendTask(t, u) \/ Ready(t, u) \/ Destroy(t, u) \/ Abort(t, u)

-----------------------------------------------------------------------------
(* Interrupt handlers, the tick and the dispatcher.                         *)

EnterIsr ==
  /\ ~k.ticking
  /\ k.isr < MaxNesting
  /\ k' = IsrEntry(k)
  /\ UNCHANGED <<td, call, q, sem, lock, made>>

ReturnFromIsr ==
  /\ ~k.ticking
  /\ k.isr > 0
  /\ k' = IsrReturn(k)
  /\ UNCHANGED <<td, call, q, sem, lock, made>>

HandlerPost   == k.isr > 0 /\ ~k.ticking /\ PostSem
HandlerResume == k.isr > 0 /\ ~k.ticking /\ ResumeQueue

Tick ==
  /\ k.isr > 0 /\ ~k.ticking
  /\ k' = TickStart(k)
  /\ UNCHANGED <<td, call, q, sem, lock, made>>

WakeDue ==
  /\ k.ticking /\ Due(k)
  /\ k' = TickWake(k)
  /\ sem' = LET t == Head(k.timeouts)
            IN IF k.state[t] = "LWSEM_BLOCKED"
               THEN [sem EXCEPT !.waiters = Off(@, t)] ELSE sem
  /\ UNCHANGED <<td, call, q, lock, made>>

TickReturn ==
  /\ k.ticking /\ ~Due(k)
  /\ k' = TickEnd(k)
  /\ UNCHANGED <<td, call, q, sem, lock, made>>

PendSV ==
  /\ k.pend /\ k.isr = 0
  /\ k' = Dispatch(k)
  /\ UNCHANGED <<td, call, q, sem, lock, made>>

IsrStep == EnterIsr \/ ReturnFromIsr \/ HandlerPost
             \/ Tick \/ WakeDue \/ TickReturn

Next ==
  \/ resuming /\ ResumeMore
  \/ ~resuming /\ (HandlerResume \/ \E t \in AppTask : Resume(t))
  \/ /\ ~resuming /\ UNCHANGED resuming
     /\ IsrStep \/ PendSV \/ \E t \in AppTask : TaskStep(t)

Spec == Init /\ [][Next]_vars

-----------------------------------------------------------------------------
(* Properties.                                                              *)

\* Type invariant.
TypeOK ==
  /\ k \in Kernel
  /\ td \in [AppTask -> Life]
  /\ call \in [AppTask -> [at : At, who : AppTask]]
  /\ q \in [valid : BOOLEAN, policy : {"FIFO", "PRIORITY"},
            waiting : Seq(AppTask)]
  /\ sem \in [value : 0 .. MaxValue, waiters : Seq(AppTask)]
  /\ lock \in [value : 0 .. 1, waiters : Seq(AppTask)]
  /\ made \in 0 .. MaxQueues
  /\ resuming \in BOOLEAN

\* STATE, td and the queues agree: every blocked task is on the queue its
\* state names and on no other, although _task_abort and _task_destroy take
\* a task off its queues by looking at single bits of its STATE.
QueuesMatch ==
  /\ TypeOK
  /\ QueuesAgree(k)
  /\ IsInjective(q.waiting)
  /\ ToSet(q.waiting) = {t \in AppTask : k.state[t] = "TASK_QUEUE_BLOCKED"}
  /\ IsInjective(sem.waiters) /\ IsInjective(lock.waiters)
  /\ ToSet(sem.waiters) \cap ToSet(lock.waiters) = {}
  /\ ToSet(sem.waiters) \cup ToSet(lock.waiters) =
        {t \in AppTask : k.state[t] = "LWSEM_BLOCKED"}

\* "We need to remove it here because _task_ready() below will change its
\* state to READY" (_task_abort_internal): no ready task is still linked to
\* the queue of a semaphore, whose next post would ready it again.
ReadyIsOffAux ==
  \A t \in ToSet(sem.waiters) \cup ToSet(lock.waiters) : ~IsReady(k, t)

\* A task that is being destroyed is on no queue any more, so that its
\* descriptor can be freed; only one that destroys itself is still ready
\* until it leaves.  A freed one is not executing either.
BuriesHimself(t) == call[t].who = t /\ call[t].at \in {"cleanup", "free"}
NoneDangles ==
  \A t \in AppTask : td[t] \in Dead =>
    /\ \A p \in Prio : t \in ToSet(k.ready[p]) => BuriesHimself(t)
    /\ t \notin ToSet(k.timeouts)
    /\ t \notin ToSet(q.waiting)
    /\ t \notin ToSet(sem.waiters) \cup ToSet(lock.waiters)
    /\ Runs(k, t) => BuriesHimself(t)

\* No descriptor is freed twice: at most one task takes another one apart,
\* however many called _task_destroy for it.
OneUndertaker ==
  \A t, u \in AppTask :
    {call[t].at, call[u].at} \subseteq {"cleanup", "free"}
      /\ td[t] # "freed" /\ td[u] # "freed"
      /\ call[t].who = call[u].who => t = u

\* TASK_CREATE_LWSEM is free or one living task has it: neither a task that
\* comes second nor the destruction of a waiter or of the last holder loses
\* it, so tasks can still be created.
LockKept ==
  \/ lock.value = 1 /\ \A t \in AppTask : ~Holds(t)
  \/ /\ lock.value = 0
     /\ \E t \in AppTask : Holds(t) /\ \A u \in AppTask : Holds(u) => u = t

\* A destroyed task queue strands nobody, in whatever order tasks and
\* handlers run in the windows of its loop, while the task in the loop lives.
NoneStranded ==
  ~q.valid /\ (\A t \in AppTask : call[t].at # "drain") => q.waiting = <<>>

\* A queue by priority is resumed in the order of the priorities.
UrgentFirst ==
  q.policy = "PRIORITY" =>
    \A i, j \in 1 .. Len(q.waiting) :
      i < j => k.my[q.waiting[i]] <= k.my[q.waiting[j]]
=============================================================================
