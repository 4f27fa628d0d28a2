------------------------------- MODULE Mutex -------------------------------
(***************************************************************************)
(* Mutexes that queue their waiters (mutex.c built with                    *)
(* MQX_MUTEX_HAS_POLLING = 0), with priority inheritance and priority      *)
(* ceilings, on the kernel of module Kernel.                               *)
(*                                                                         *)
(* _mutex_lock and _mutex_destroy run in part with interrupts enabled, and *)
(* _mutex_unlock gives the processor away in its middle: at[t] says how    *)
(* far a task is in its call, with the local variables the rest still      *)
(* reads.                                                                  *)
(***************************************************************************)
EXTENDS Kernel

CONSTANTS HomePriority,   \* [Task -> Prio]
          AutoQueues,     \* ready queues when the scheduler starts
          MutexId,        \* the mutexes
          Nobody,         \* OWNER_TD = NULL
          Attributes,     \* what the mutexes may be initialised with
          NewCeilings,    \* what _mutex_set_priority_ceiling is called with
          Destroyers,     \* tasks that may destroy mutexes
          MaxNesting      \* bound on the nesting of handlers

\* MUTEX_ATTR_STRUCT: one of MUTEX_NO_PRIO_INHERIT, MUTEX_PRIO_INHERIT and
\* MUTEX_PRIO_PROTECT; MUTEX_PRIORITY_QUEUEING or MUTEX_QUEUEING.
Protocol  == {"none", "inherit", "protect"}
MutexAttr == [protocol : Protocol, sorted : BOOLEAN, ceiling : AppPrio]

ASSUME MutexAssumption ==
  /\ HomePriority \in [Task -> Prio]
  /\ AutoQueues \in [Prio -> Seq(Task)]
  /\ \A p \in Prio :
       /\ IsInjective(AutoQueues[p])
       /\ ToSet(AutoQueues[p]) = {t \in Task : HomePriority[t] = p}
  /\ Nobody \notin Task
  /\ Attributes \subseteq [MutexId -> MutexAttr]
  /\ NewCeilings \subseteq AppPrio
  /\ Destroyers \subseteq AppTask
  /\ MaxNesting \in Nat

VARIABLES
  k,       \* the kernel
  mutex,   \* [MutexId -> MUTEX_STRUCT]
  at,      \* where each task is in its call
  held     \* the mutexes each task was told that it locked

vars == <<k, mutex, at, held>>

MutexStruct ==
  [valid   : BOOLEAN,
   lock    : BOOLEAN,
   owner   : AppTask \cup {Nobody},
   waiters : Seq(AppTask),
   boosted : Nat,
   attr    : MutexAttr]

Inherits(m) == mutex[m].attr.protocol = "inherit"
Protects(m) == mutex[m].attr.protocol = "protect"
Ceiling(m)  == mutex[m].attr.ceiling

(***************************************************************************)
(* lock      past the checks of _mutex_lock, with the priority it read;    *)
(*           goal tells whether _mutex_destroy called it                   *)
(* blocked   on WAITING_TASKS, or woken from it                            *)
(* protect   owns the mutex, before the section for PRIO_PROTECT           *)
(* handover  in _mutex_unlock, after the new owner was readied; count is   *)
(*           the number of boosts to take back, more is 1 when the         *)
(*           ceiling of the new owner is still to be counted               *)
(* unboost   in _mutex_unlock, before its last statement                   *)
(* destroy   in _mutex_destroy, owning the mutex                           *)
(* flush     in the loop of _mutex_destroy                                 *)
(***************************************************************************)
Free == [pc |-> "free"]
Goal == {"own", "destroy"}
At ==
  {Free}
  \cup [pc : {"lock"}, m : MutexId, priority : Prio, goal : Goal]
  \cup [pc : {"blocked", "protect"}, m : MutexId, goal : Goal]
  \cup [pc : {"handover"}, m : MutexId, count : Nat, more : {0, 1}]
  \cup [pc : {"unboost"}, count : Nat]
  \cup [pc : {"destroy", "flush"}, m : MutexId]

Init ==
  /\ k = StartKernel(HomePriority, AutoQueues)
  /\ \E attr \in Attributes :
       mutex = [m \in MutexId |->
                  [valid |-> TRUE, lock |-> FALSE, owner |-> Nobody,
                   waiters |-> <<>>, boosted |-> 0, attr |-> attr[m]]]
  /\ at = [t \in AppTask |-> Free]
  /\ held = [t \in AppTask |-> {}]

\* The active task runs with interrupts disabled.
Masked == \E t \in AppTask :
            Runs(k, t) /\ at[t].pc \in {"blocked", "handover", "unboost"}

Calls(t) == Runs(k, t) /\ at[t] = Free
Continues(t, pc) == Runs(k, t) /\ at[t].pc = pc

-----------------------------------------------------------------------------
(* Locking.                                                                 *)

\* The checks and the reading of the caller's priority, interrupts enabled.
StartLock(t, m, goal) ==
  /\ Calls(t)
  /\ mutex[m].valid
  /\ mutex[m].owner # t
  /\ at' = [at EXCEPT ![t] = [pc |-> "lock", m |-> m,
                              priority |-> k.my[t], goal |-> goal]]
  /\ UNCHANGED <<k, mutex, held>>

\* The caller owns the mutex: on to the ceiling, to the rest of
\* _mutex_destroy, or back to the application.
Own(t, m, goal) ==
  /\ at' = [at EXCEPT ![t] =
              IF Protects(m) THEN [pc |-> "protect", m |-> m, goal |-> goal]
              ELSE IF goal = "destroy" THEN [pc |-> "destroy", m |-> m]
              ELSE Free]
  /\ held' = [held EXCEPT ![t] = IF Protects(m) THEN @ ELSE @ \cup {m}]

\* "the queue of waiting tasks must be checked for any task which may have a
\* higher priority than mine"
InheritFromWaiters(t, m, mu) ==
  LET p     == MaxPriorityOn(k, mu.waiters)
      needs == Inherits(m) /\ ~mu.attr.sorted /\ p < k.home[t]
  IN /\ k' = IF needs /\ p < k.my[t] THEN BoostPriority(k, t, p) ELSE k
     /\ mutex' = [mutex EXCEPT ![m] =
                    [mu EXCEPT !.boosted = IF needs THEN @ + 1 ELSE @]]

LockFree(t) ==
  /\ Continues(t, "lock")
  /\ LET m == at[t].m IN
       /\ ~mutex[m].lock
       /\ InheritFromWaiters(t, m, [mutex[m] EXCEPT !.lock = TRUE, !.owner = t])
       /\ Own(t, m, at[t].goal)

\* The owner inherits the priority the caller had when it came; the caller
\* joins the queue and the scheduler runs.
LockBusy(t) ==
  /\ Continues(t, "lock")
  /\ LET m     == at[t].m
         p     == at[t].priority
         owner == mutex[m].owner
         needs == Inherits(m) /\ k.home[owner] > p
         b     == IF needs /\ k.my[owner] > p THEN BoostPriority(k, owner, p)
                  ELSE k
     IN /\ mutex[m].lock
        /\ k' = Dispatch([Unlink(b, t, b.my[t]) EXCEPT
                            !.state[t] = "MUTEX_BLOCKED"])
        /\ mutex' = [mutex EXCEPT
             ![m].boosted = IF needs THEN @ + 1 ELSE @,
             ![m].waiters = IF mutex[m].attr.sorted THEN InsertPriority(b, @, t)
                            ELSE Append(@, t)]
        /\ at' = [at EXCEPT ![t] = [pc |-> "blocked", m |-> m,
                                    goal |-> at[t].goal]]
  /\ UNCHANGED held

\* Dispatched again, as the owner or because the mutex was destroyed.
LockResume(t) ==
  /\ Continues(t, "blocked")
  /\ LET m == at[t].m IN
       \/ /\ mutex[m].valid
          /\ InheritFromWaiters(t, m, mutex[m])
          /\ Own(t, m, at[t].goal)
       \/ /\ ~mutex[m].valid
          /\ at' = [at EXCEPT ![t] = Free]
          /\ UNCHANGED <<k, mutex, held>>

\* mutant: the comparison with the current priority is the wrong way round
LockProtect_Inverted(t) ==
  /\ Continues(t, "protect")
  /\ LET m     == at[t].m
         c     == Ceiling(m)
         needs == c < k.home[t]
     IN /\ k' = IF needs /\ c > k.my[t] THEN BoostPriority(k, t, c) ELSE k
        /\ mutex' = [mutex EXCEPT ![m].boosted = IF needs THEN @ + 1 ELSE @]
        /\ at' = [at EXCEPT ![t] = IF at[t].goal = "destroy"
                                   THEN [pc |-> "destroy", m |-> m] ELSE Free]
        /\ held' = [held EXCEPT ![t] = @ \cup {m}]

\* The section for MUTEX_PRIO_PROTECT.
LockProtect(t) ==
  /\ Continues(t, "protect")
  /\ LET m     == at[t].m
         c     == Ceiling(m)
         needs == c < k.home[t]
     IN /\ k' = IF needs /\ c < k.my[t] THEN BoostPriority(k, t, c) ELSE k
        /\ mutex' = [mutex EXCEPT ![m].boosted = IF needs THEN @ + 1 ELSE @]
        /\ at' = [at EXCEPT ![t] = IF at[t].goal = "destroy"
                                   THEN [pc |-> "destroy", m |-> m] ELSE Free]
        /\ held' = [held EXCEPT ![t] = @ \cup {m}]

TryLock(t, m) ==                                  \* _mutex_try_lock
  /\ Calls(t)
  /\ mutex[m].valid /\ ~mutex[m].lock
  /\ mutex' = [mutex EXCEPT ![m].lock = TRUE, ![m].owner = t]
  /\ Own(t, m, "own")
  /\ UNCHANGED k

-----------------------------------------------------------------------------
(* Unlocking.                                                               *)

\* The first waiter becomes the owner before it runs.
Unlock(t, m) ==
  /\ Calls(t)
  /\ mutex[m].valid /\ mutex[m].lock /\ mutex[m].owner = t
  /\ held' = [held EXCEPT ![t] = @ \ {m}]
  /\ LET count == mutex[m].boosted IN
     \/ /\ mutex[m].waiters = <<>>
        /\ mutex' = [mutex EXCEPT ![m].boosted = 0, ![m].lock = FALSE,
                                  ![m].owner = Nobody]
        /\ at' = [at EXCEPT ![t] = [pc |-> "unboost", count |-> count]]
        /\ UNCHANGED k
     \/ /\ mutex[m].waiters # <<>>
        /\ LET u     == Head(mutex[m].waiters)
               r     == TaskReady(k, u)
               c     == Ceiling(m)
               needs == Protects(m) /\ c < k.home[u]
           IN /\ k' = IF needs /\ c < k.my[u] THEN BoostPriority(r, u, c) ELSE r
              /\ mutex' = [mutex EXCEPT ![m].boosted = 0, ![m].owner = u,
                                        ![m].waiters = Tail(@)]
              /\ at' = [at EXCEPT ![t] =
                          [pc |-> "handover", m |-> m, count |-> count,
                           more |-> IF needs THEN 1 ELSE 0]]

\* mutant: the lock is released although it was handed over
Handover_Releases(t) ==
  /\ Continues(t, "handover")
  /\ mutex' = [mutex EXCEPT ![at[t].m].boosted = @ + at[t].more,
                            ![at[t].m].lock = FALSE]
  /\ k' = CheckRunScheduler(k)
  /\ at' = [at EXCEPT ![t] = [pc |-> "unboost", count |-> at[t].count]]
  /\ UNCHANGED held

Handover(t) ==
  /\ Continues(t, "handover")
  /\ mutex' = [mutex EXCEPT ![at[t].m].boosted = @ + at[t].more]
  /\ k' = CheckRunScheduler(k)
  /\ at' = [at EXCEPT ![t] = [pc |-> "unboost", count |-> at[t].count]]
  /\ UNCHANGED held

Unboost(t) ==
  /\ Continues(t, "unboost")
  /\ k' = IF at[t].count > 0 THEN UnboostPriority(k, t, at[t].count) ELSE k
  /\ at' = [at EXCEPT ![t] = Free]
  /\ UNCHANGED <<mutex, held>>

-----------------------------------------------------------------------------
(* The other calls.                                                         *)

SetCeiling(t, m, c) ==                            \* _mutex_set_priority_ceiling
  /\ Calls(t)
  /\ mutex[m].valid
  /\ mutex' = [mutex EXCEPT ![m].attr.ceiling = c]
  /\ UNCHANGED <<k, at, held>>

\* _mutex_destroy, by a task that owns the mutex or after its _mutex_lock
StartDestroy(t, m) ==
  \/ StartLock(t, m, "destroy")
  \/ /\ Calls(t)
     /\ mutex[m].valid /\ mutex[m].owner = t
     /\ at' = [at EXCEPT ![t] = [pc |-> "destroy", m |-> m]]
     /\ UNCHANGED <<k, mutex, held>>

Destroy(t) ==
  /\ Continues(t, "destroy")
  /\ mutex' = [mutex EXCEPT ![at[t].m].valid = FALSE]
  /\ at' = [at EXCEPT ![t].pc = "flush"]
  /\ UNCHANGED <<k, held>>

\* mutant: the waiter is readied but not taken off the queue
DestroyWake_Keeps(t) ==
  /\ Continues(t, "flush")
  /\ LET m == at[t].m IN
       /\ mutex[m].waiters # <<>>
       /\ k' = TaskReady(k, Head(mutex[m].waiters))
  /\ UNCHANGED <<mutex, at, held>>

\* One round of the loop, which runs with interrupts enabled in between.
DestroyWake(t) ==
  /\ Continues(t, "flush")
  /\ LET m == at[t].m IN
       /\ mutex[m].waiters # <<>>
       /\ k' = TaskReady(k, Head(mutex[m].waiters))
       /\ mutex' = [mutex EXCEPT ![m].waiters = Tail(@)]
  /\ UNCHANGED <<at, held>>

DestroyEnd(t) ==
  /\ Continues(t, "flush")
  /\ LET m == at[t].m IN
       /\ mutex[m].waiters = <<>>
       /\ k' = PendScheduler(
                 IF mutex[m].boosted > 0
                 THEN UnboostPriority(k, t, mutex[m].boosted) ELSE k)
       /\ held' = [held EXCEPT ![t] = @ \ {m}]
  /\ at' = [at EXCEPT ![t] = Free]
  /\ UNCHANGED mutex

\* The task waits for something else.
Block(t) ==                                       \* _task_block
  /\ Calls(t)
  /\ k' = TaskBlock(k, t)
  /\ UNCHANGED <<mutex, at, held>>

TaskStep(t) ==
  \/ \E m \in MutexId :
       \/ StartLock(t, m, "own")
       \/ TryLock(t, m)
       \/ Unlock(t, m)
       \/ \E c \in NewCeilings : SetCeiling(t, m, c)
       \/ t \in Destroyers /\ StartDestroy(t, m)
  \/ LockFree(t) \/ LockBusy(t) \/ LockResume(t) \/ LockProtect(t)
  \/ Handover(t) \/ Unboost(t)
  \/ Destroy(t) \/ DestroyWake(t) \/ DestroyEnd(t)
  \/ Block(t)

-----------------------------------------------------------------------------
(* Interrupts and the dispatcher.                                           *)

EnterIsr ==
  /\ ~Masked
  /\ k.isr < MaxNesting
  /\ k' = IsrEntry(k)
  /\ UNCHANGED <<mutex, at, held>>

ReturnFromIsr ==
  /\ k.isr > 0
  /\ k' = IsrReturn(k)
  /\ UNCHANGED <<mutex, at, held>>

IsrReady(u) ==                                    \* _task_ready in a handler
  /\ k.isr > 0
  /\ k.state[u] = "BLOCKED"
  /\ k' = TaskReady(k, u)
  /\ UNCHANGED <<mutex, at, held>>

PendSV ==
  /\ k.pend /\ k.isr = 0
  /\ k' = Dispatch(k)
  /\ UNCHANGED <<mutex, at, held>>

IsrStep == EnterIsr \/ ReturnFromIsr \/ \E u \in AppTask : IsrReady(u)

Next == (\E t \in AppTask : TaskStep(t)) \/ IsrStep \/ PendSV

Spec == Init /\ [][Next]_vars

-----------------------------------------------------------------------------
(* Properties.                                                              *)

TypeOK ==
  /\ k \in Kernel
  /\ mutex \in [MutexId -> MutexStruct]
  /\ at \in [AppTask -> At]
  /\ held \in [AppTask -> SUBSET MutexId]

\* Mutual exclusion: whoever was told that it locked a mutex is its owner,
\* so no two tasks are; ownership passes to a waiter before that waiter runs,
\* while the old owner is still inside _mutex_unlock.
HoldersOwn ==
  \A t \in AppTask : \A m \in held[t] : mutex[m].lock /\ mutex[m].owner = t

\* The queues of mutexes, the kernel's queues and STATE agree: a task is on
\* WAITING_TASKS of one mutex exactly while it is MUTEX_BLOCKED there, and
\* never waits for a mutex that is free or its own.
WaitersAgree ==
  /\ TypeOK
  /\ QueuesAgree(k) /\ NoneAbove(k)
  /\ \A m \in MutexId :
       /\ IsInjective(mutex[m].waiters)
       /\ ToSet(mutex[m].waiters) =
            {t \in AppTask : /\ k.state[t] = "MUTEX_BLOCKED"
                             /\ at[t].pc = "blocked" /\ at[t].m = m}
       /\ mutex[m].waiters # <<>> => mutex[m].lock
       /\ mutex[m].owner \notin ToSet(mutex[m].waiters)

\* "INHERITANCE means the task owning the MUTEX runs at the priority of the
\* task with the highest priority waiting for the mutex" (mutex.h).
InheritsHighest ==
  \A m \in MutexId : mutex[m].valid /\ Inherits(m) =>
    \A w \in ToSet(mutex[m].waiters) : k.my[mutex[m].owner] <= k.my[w]

\* What inheritance is for: while a task waits for a mutex whose owner could
\* run, no task less urgent than the waiting one executes.
NoInversion ==
  \A m \in MutexId, t \in Task : mutex[m].valid /\ Inherits(m) /\ Runs(k, t) =>
    \A w \in ToSet(mutex[m].waiters) :
      IsReady(k, mutex[m].owner) => k.my[t] <= k.my[w]

\* "PROTECT means the task runs at the priority specified in the MUTEX
\* (unless it is of higher priority already)" (mutex.h).
CeilingHeld ==
  \A t \in AppTask : \A m \in held[t] :
    mutex[m].valid /\ Protects(m) => k.my[t] <= Ceiling(m)

\* A task that owns no mutex and is in no call is back at its home priority,
\* with no boost left to be taken back.
Owns(t) == {m \in MutexId : mutex[m].owner = t}
BoostsEnd ==
  \A t \in AppTask : at[t] = Free /\ Owns(t) = {} =>
    k.my[t] = k.home[t] /\ k.boosted[t] = 0
=============================================================================
