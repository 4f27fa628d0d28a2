# The MQX kernel in TLA+

The repository holds Freescale MQX 4.0 for the Kinetis K60: a preemptive real-time kernel
(`src/mqx/source/kernel`), its Cortex-M port (`src/mqx/source/psp/cortex_m`), drivers, and the
RTCS, MFS, USB and shell packages on top. This project specifies the kernel: its scheduler, its
interrupts and tick, the synchronisation objects that tasks and interrupt handlers share, the life
cycle of tasks, the lightweight timers and memory pools; and, from RTCS, the negotiation of PPP links.
Every module is written from the code; line numbers are in the `map` of `PROJECT.json`.

The configuration modelled is the one shipped for the board
(`src/config/K60F120M/user_config.h` with `src/config/common/small_ram_config.h`): idle task, task
and component destruction, dynamic priorities, checks of errors and validity; no time slices,
no spinning mutexes, no user mode, one processor.

## 1. Inventory

| Component | State | Operations | Correct when |
|---|---|---|---|
| scheduler (`sched.c`, `task.c`, `sc_irdyq.c`) | one FIFO ready queue per priority, `CURRENT_READY_Q`, `ACTIVE_PTR`; per task `STATE`, `MY_QUEUE`, `HOME_QUEUE`, `BOOSTED`, the preemption flag | `_sched_yield`, `_task_block`, `_task_ready`, `_task_set_priority`, boost and unboost, stop and start of preemption | a task is on exactly the queues its state says; the most urgent ready task executes; tasks of one priority take turns |
| dispatcher and interrupts (`dispatch.S`) | `IN_ISR`, PendSV, BASEPRI | `_int_kernel_isr`, `_pend_svc`, `_sched_check_scheduler_internal` | only the outermost handler switches, and it never forgets a switch that an inner one made necessary |
| time (`time.c`) | `TIME`, `TIMEOUT_QUEUE`, `TD.TIMEOUT` | the delays, `_time_dequeue`, `_time_notify_kernel` | nobody oversleeps; a cancelled delay leaves the queue once |
| lightweight semaphore (`lwsem.c`) | `VALID`, `VALUE`, `TD_QUEUE`, `TD.INFO` | create, destroy, poll, post, wait with and without timeout | a counting semaphore with FIFO waiters; results tell what happened |
| mutex (`mutex.c`) | `VALID`, `LOCK`, `OWNER_TD`, `WAITING_TASKS`, `BOOSTED`, `PRIORITY_CEILING` | lock, try lock, unlock, destroy, set ceiling | mutual exclusion; the owner has the priority the protocol promises and loses it again |
| task queues (`taskq.c`) | `VALID`, `POLICY`, `TD_QUEUE` | create, suspend, suspend another task, resume one or all, destroy | nobody is stranded on a destroyed queue; order of arrival or of priority |
| lightweight events (`lwevent.c`), lightweight message queues (`lwmsgq.c`) | bits and waiting tasks; a ring of messages | set, clear and wait; send and receive | no waiter is missed; no message is lost, duplicated or overtaken |
| task life cycle (`task.c`) | list of descriptors, `TASK_CREATE_LWSEM` | create, abort, exit, restart, destroy | a task that ends is on no queue of any object, its descriptor is freed once, the lock survives whoever dies with it |
| lightweight timers (`lwtimer.c`) | per period a list sorted by offset, `EXPIRY`, `TIMER_PTR` | create and cancel a queue, add and cancel timers, the walk of the tick | each timer is called once per period, a cancelled one never |
| lightweight memory (`lwmem.c`) | blocks with headers, a free list, four cursors in the pool | allocate, allocate at, free, transfer, test | blocks tile the pool, the free list is exact, a request fails only when nothing fits |
| PPP negotiation (`pppfsm.c`, `lcp.c`, `pkttx.c`) | state, identifiers, options, retransmission queue | open, close, lower layer up and down, the receivers of packets, time-outs | an end is open on the terms of its last request, with patient timers and memory enough both ends on the same; unless memory was short every wait is timed and the negotiation ends |
| timers, watchdogs, events, semaphores, messages, names, logs, memory manager | named objects, pools, free lists | | not modelled, see section 8 |
| drivers, the rest of RTCS, MFS, USB, shell | | | not modelled, see section 8 |

Components interact in three ways. Every blocking call takes the caller off its ready queue, puts
its descriptor on a queue of the object (through `NEXT`/`PREV`, or through `AUX_QUEUE` when the
descriptor is on `TIMEOUT_QUEUE` as well) and runs the dispatcher. Every waking call reverses this
with `_TIME_DEQUEUE` and `_TASK_READY` and then compares `CURRENT_READY_Q` with the queue of the
active task. Handlers and the tick do the same but leave the switch to the outermost handler. Calls that walk a list
(`_lwmem_alloc`, `_lwmem_free`, `_taskq_destroy`) enable interrupts between two elements. PPP is the
exception: its three tasks share a mutex and talk through message queues.

What makes this hard to test:

- Handlers nest, and PendSV takes place after them: between a blocking call and the switch,
  `ACTIVE_PTR` names a task that is on no ready queue, or that a handler has readied again.
- `CURRENT_READY_Q`, the two queues of a timed wait, `STATE` and `MY_QUEUE` are changed in separate
  assignments at many places and must agree at all of them.
- Many calls check the object with interrupts enabled and use it with interrupts disabled.
- A call that wakes a more urgent task is preempted in its own middle: `_mutex_unlock` gives the
  processor away before it has taken back its own boost.
- A post races the timeout of the waiter; an object is destroyed under its waiters.
- A task woken for a message or a slot may find it gone and waits again; bits are handed out while the
  queue of waiting tasks is walked and shrinks.
- A task is aborted or destroyed wherever it is: ready, on up to two queues, waiting for the lock of
  destruction, holding it, or destroying somebody else.
- The allocator keeps its cursor in the pool and the rest of its state in local variables; whoever runs in
  its window moves the cursor only.
- The tick calls the functions of timers between reading two links of the list they may change.
- Requests and answers of PPP are lost, repeated and cross; a packet's time is up while the command that
  stops it is on its way; a packet or a message cannot be had for want of memory and the automaton goes on.

`PROJECT.json` lists these hazards with their lines and the properties that cover them.

## 2. Modules

| Module | Contents |
|---|---|
| `Kernel` | the kernel record and the internal routines as operators from a record to a record |
| `Sched` | tasks, handlers and the tick that use nothing but the scheduler |
| `KernelProofs`, `SchedProofs` | lemmas about the operators of `Kernel`; the theorems about `Sched`, and in parts of their own those about `PppFsm` |
| `Semaphore` | what a lightweight semaphore promises, without tasks' priorities, queues of the kernel or interrupts |
| `LwSem` | the code of `lwsem.c` on the kernel; implements `Semaphore` |
| `LwSemProofs` | the theorems about `LwSem`: its invariants, and that it implements `Semaphore` |
| `Mutex` | the code of `mutex.c` on the kernel |
| `MutexProofs` | the theorems about `Mutex` |
| `Channel` | what a lightweight message queue promises: a bounded FIFO |
| `LwMsgQ` | the code of `lwmsgq.c` on the kernel; implements `Channel` |
| `LwMsgQProofs` | the theorems about `LwMsgQ`: its invariants, and that it implements `Channel` |
| `EventGroup` | what a lightweight event promises: who is served by which bits |
| `LwEvent` | the code of `lwevent.c` on the kernel; implements `EventGroup` |
| `LwEventProofs` | the theorems about `LwEvent`: its invariants, and that it implements `EventGroup` |
| `TaskLife` | creation, abort and destruction of tasks (`task.c`), together with task queues (`taskq.c`) and a semaphore they may wait for, on the kernel |
| `TaskLifeProofs` | the theorems about `TaskLife` |
| `LwTimer` | one periodic queue of `lwtimer.c` and the tick that walks along it |
| `Heap` | what a memory pool promises: blocks that do not overlap, and a refusal only when nothing fits |
| `LwMem` | the code of `lwmem.c`, from one window to the next; implements `Heap` |
| `PppFsm` | the negotiation automaton of PPP (`pppfsm.c`) with LCP's callbacks (`lcp.c`) and the retransmission queue (`pkttx.c`) at both ends of a line |
| `StandaloneProofs` | the theorems about `LwTimer` and `LwMem`, which use no queue of the kernel |
| `MCSched`, `MCLwSem`, `MCMutex`, `MCLwMsgQ`, `MCLwEvent`, `MCTaskLife`, `MCLwTimer`, `MCLwMem`, `MCPppFsm` | instances for TLC |

A proof module about two components can extend both because their names are disjoint (`Spec`, `PoolSpec`, `PppSpec`).

`Kernel` has no variable. Each component that runs on it (`Sched`, `LwSem`, `Mutex`, `LwMsgQ`, `LwEvent`,
`TaskLife`) has a variable `k` that holds one kernel record, so all of them use the same dispatcher, tick
and interrupts. `TaskLife` composes task queues, a semaphore, the delays and the lock of creation and
destruction. `LwTimer` and `LwMem` do not need the kernel: of the processor they use only which code can
run inside which window. The `.cfg` files only give values to constants; no definition is replaced.
A definition whose name has the form `Name_Variant` is a mutant of `Name`; no other definition uses it.

### How the model corresponds to the code

*Ready queues.* `k.ready[p]` is the queue of priority `p`; `_QUEUE_UNLINK` is `Without`, and
`_TASK_READY` is `TaskReady`, which lowers `k.current` (`CURRENT_READY_Q`) when the queue is more
urgent. The idle task has a level of its own below all others and is always ready.

*Switches.* On the Cortex-M a switch is a PendSV. When a task calls the scheduler with interrupts
disabled, `_set_pend_sv` gives PendSV a priority just above BASEPRI, so it is taken at once: the
operators call `Dispatch` in the same step. When interrupts are enabled, handlers can come first:
the step sets `k.pend`, and `PendSV` is an action of its own that waits until no handler is active.
`IsrReturn` is the epilogue of `_int_kernel_isr`: the outermost handler asks for a switch unless
the active task has stopped preemption or is the head of `CURRENT_READY_Q`.

*Interrupts.* `EnterIsr` may happen whenever the active task does not run with interrupts disabled,
up to `MaxNesting` levels. A task that was switched out with interrupts disabled continues with them
disabled, because BASEPRI is part of its context: `Masked` says so in `LwSem` and `Mutex`.

*Time.* Only comparisons of deadlines with `TIME` matter, so `k.left[t]` is the difference, and the
tick decrements it for all waiting tasks. The loop of `_time_notify_kernel` is one step per task,
with handlers kept out (`k.ticking`). A delay of 0 ticks through `_time_delay_ticks` and the other
relative and absolute delays goes to `TIMEOUT_QUEUE` as in the code.

*Calls that are not atomic.* `at[t]` tells how far task `t` is in its call. In `LwSem` a call is
`Check` (the check of `VALID`, interrupts enabled) and then one step with interrupts disabled; a
wait that blocks has the further step `Resume`; `Destroy`, `DestroyNext`, `DestroyEnd` are the loop of
`_lwsem_destroy_internal`. In `Mutex`, `StartLock` covers the checks and the reading of the caller's
priority; `LockFree`, `LockBusy`, `LockResume` and `LockProtect` the parts of `_mutex_lock`;
`Unlock`, `Handover` and `Unboost` the parts of `_mutex_unlock` between which another task can run.
`held` is what the application was told, and the only history variable of `Mutex`.

In `LwMsgQ` a call runs with interrupts disabled from its check of `VALID` on, so it is one step up to
the point where it blocks. The loops `while (LWMSGQ_IS_EMPTY)` and `while (LWMSGQ_IS_FULL)` go on with
a step per round: `ReadAgain` or `Take` once a reader is dispatched, `BlockOnFull` or `Send` once a
writer is. `wait[t]` holds the arguments `flags`, `ticks` and `tick_ptr` of a receive, which every round
reads again, and the ticks since the call, which `TIMEOUT_UNTIL` needs to turn the absolute time into
a difference. `SendAndBlock` is `LWMSGQ_SEND_BLOCK_ON_SEND`, whose sender sleeps until someone calls
`_task_ready` for it. The buffer `buf[t]` is the caller's: a writer that waits keeps its message there.

In `LwEvent` every call is one step up to the point where it blocks, except that the loops of
`_lwevent_set` and `_lwevent_destroy` over `WAITING_TASKS` take a step per task. The variable `pass` is that loop:
which call runs it, the bits left to hand out (`set_bits`), the cursor (`q_ptr`), and, for the
properties only, the queue it began with. While a loop runs nobody else does: interrupts are disabled
and handlers of other priorities do not preempt. `ask[t]` is what the last wait of a task asked for;
`bits[t]` is `LWEVENT_BITS`, which holds the wish while the task waits and the answer afterwards.

In `TaskLife` the calls of `task.c` are cut where the code enables interrupts. `call[t]` says where task `t` is
and which task its call is about: `wantsDestroy` up to `_lwsem_wait` of `TASK_CREATE_LWSEM`, `hasDestroy` with
the lock, `cleanup` after `_task_destroy_internal` took the victim off its queues and made it `DYING`,
`free` after it posted the lock, with the descriptor still to be freed; `wantsCreate`, `hasCreate` and `ready`
are the parts of `_task_create_internal`. `RemoveVictim` looks at the victim only then, although `Destroy` found
it long before. `Bury` and `Abort` take a task off the queues the bits of its `STATE` name. `td[t]` is what there
is of the descriptor. `Drain` is one round of the loop of `_taskq_destroy`, which enables interrupts after each;
the loop of `_taskq_resume` over all tasks does not, and is `ResumeMore`.

In `LwTimer` the queue is a sequence, and `stale[t]` is the link a timer keeps when it is removed: the handler
follows it when the function it called has cancelled its own timer. `at` and `cur` are the place of the
handler and its `timer_ptr`, `last` is `TIMER_PTR`. The task's cancelling is two steps, because it checks
`VALID` with interrupts enabled. What functions of timers do is any sequence of up to `MaxCalls` calls.

In `LwMem` every word of the pool may begin a block; `block[a]` is the header there. A step is what a call
does with interrupts disabled, from one window to the next. There are no time slices, so a call that starts
in the window of another one is over before that one goes on, unless it is itself preempted: the calls in progress
are a stack, `stack`. `cursor` has the four cursors of the pool; `prev` of a call is its local `prev_block_ptr`.
`given` is what the application was told, and the only history variable.

In `PppFsm` the mutex of the automaton makes a handler one action; all it sends goes through the message queue
of the transmit task, `out`, and takes effect when that task takes it. The operators named `LowerUp`, `Open`,
`RecvConfReq` and so on are the functions of `pppfsm.c`, from a record to a record. `Expire` is the moment the
transmit task unlinks a packet, `TimedOut` the callback it then makes; between the two the other tasks run. Memory may
fail in two places, `failures` times in all: a handler that builds a packet of its own finds none (`packet` is `FALSE`;
one that answers a frame uses the frame's), which is the early return of `PPPFSM_sendconfreq` and `PPPFSM_sendtermreq`
(`NoPacket`), and any of the messages a handler adds to `out` may be lost, which is the early return of the four `PPP_send_...`
functions (`Become`). In both cases the rest of the handler runs as if nothing had happened. `Supplied` says that neither has
happened yet. Two
options stand for all: the authentication protocol, which may be refused, and the set of characters to escape,
which grows. A setup holds everything that differs between the situations explored.

## 3. Runs

The longest runs (`ppp`, `lwsem`, `lwmsgq`, `lwtimer`) take one to three minutes.

| Run | Instance | What it shows |
|---|---|---|
| `sched` | two tasks of one priority, a more urgent one, idle; delays up to 2 ticks, 2 levels of handlers (171 224 states) | `Consistent`, `RunsHighest`, `NoneOverdue`, `NoOvertaking` |
| `lwsem` | three tasks, initial values -1, 0 and 1, at most 1 stored token, waits of 0 and 1 ticks and without timeout, under the fairness of section 5 (214 374 states) | `WaitersAgree`, `NoIdleToken`, that the code implements `Semaphore` (`ImplementsSemaphore`), and `TimedWaitsEnd` and `WokenReturns` |
| `mutex` | three tasks, two mutexes with three pairs of protocols, one task that destroys (299 415 states) | `WaitersAgree`, `HoldersOwn` |
| `mutex_policy` | three tasks, one mutex, which anybody may destroy: inheritance with priority queueing, or a ceiling (17 215 states) | `InheritsHighest`, `NoInversion`, `BoostsEnd`, `CeilingHeld` |
| `lwmsgq` | a ring of two messages; an urgent task that sends and receives, a reader, a writer, handlers that send; waits for 1 tick, until a time and without timeout (932 544 states) | `WaitersAgree`, `NoLostWake`, and that the code implements `Channel` (`ImplementsChannel`) |
| `lwevent` | two bits; three tasks that wait for both, either one, and the first or both; set, clear and automatic bits from tasks and handlers (171 539 states) | `WaitersAgree`, `NoneMissed`, and that the code implements `EventGroup` (`ImplementsEventGroup`) |
| `tasklife` | two tasks and a child, which create, abort and destroy one another and themselves while they use a task queue of either policy, a semaphore and delays; handlers that post and resume (922 870 states) | `QueuesMatch`, `NoneDangles`, `OneUndertaker`, `LockKept`, `NoneStranded`, `UrgentFirst` |
| `task_abort` | the same, with tasks aborted at any moment | violated: `ReadyIsOffAux` |
| `lwtimer` | three timers on a queue of period 2; the task cancels one, functions the two others, with up to 2 calls each; the queue is created twice (1 481 673 states) | `Sorted`, `OnTime`, `NoneSkipped`, `NoGhost`, `TickEnds` |
| `lwmem` | a pool of 8 words; a task that frees, one that allocates, frees and transfers, one that allocates, allocates at an address, frees and tests; no allocation fails in the window of another (340 718 states) | `BlocksTile`, `FreeListExact`, `FalseAlarmOnlyWhenFull`, and that the code implements `Heap` (`ImplementsHeap`) |
| `lwmem_lost` | the same, with a task whose allocations may fail there | violated: `FreeListExact` |
| `ppp` | ten situations of two ends: simultaneous and silent opening, missing and different secrets, a dropped line, closing and reopening, up to two lost frames, up to two failed allocations, patient and hasty timers (479 762 states) | `OptionsAgree`, `LinkFollowsState`, `WaitIsTimed`, `Settles` |

The type invariant `TypeOK` of a module is the first conjunct of its main invariant: `Consistent`, `WaitersAgree`,
`QueuesMatch`, `Sorted`, `BlocksTile` or `WaitIsTimed`. That of `LwSem` is proved instead (section 7).

### Bounds

`MaxNesting`, `MaxDelay`, `MaxValue` (posts beyond it are not made), `MaxCreations`, `MaxElapsed` (no
tick while a receive has counted that many) and the sets of timeouts, delays, initial values,
attributes, ceilings, messages, bits and wishes are constants; nothing else is bounded, and
no state constraint is used. Three tasks give every relation between two contenders and a third
party of another priority; two tasks of one priority make the order of FIFO queues visible, three
priorities the inversions. Two levels of handlers distinguish an inner from an outermost return. A delay of 2
puts two tasks with different deadlines on `TIMEOUT_QUEUE`, in both orders of insertion. A negative
initial value makes posts count up past waiting tasks.

A ring of two messages is the smallest in which the read and write locations differ while it is neither
full nor empty, and both wrap. Two messages tell whether order is kept. `MaxElapsed` 2 leaves room for a
second round of a wait of 1 tick. The wishes of `lwevent` make two tasks compete for an automatic
bit, and let one set serve one task, several, or a later one only.

A pool of 8 words, with headers of 1 and blocks of at least 2, holds up to four blocks, so that a free block can
have free, used and freed neighbours and a list of more than one element; two sizes make some blocks too short and
leave remainders both above and below the smallest block. Three tasks nest windows two deep.

A task, another one and a child are the smallest set with a destroyer, a rival and a victim that can be each of
the others. One handler level suffices because what handlers nest is the matter of `sched`.

With a period of 2 timers share an offset, stand before and behind the handler, and periods end. Two calls let a
function cancel a timer and add it again. The identifiers of PPP stop at a bound only in the five situations with
hasty timers or short memory, where a lost race, or two timers where there should be one, can repeat for ever; in the others 16
is never reached. One failed allocation is enough to leave a machine without a timer or with one too many, and two leave one that
`LCP_up` refused without both its stop and its request. `MaxNaks` is 1 instead of 5
and the retries of a request are 2 or 3 instead of 10, which is what makes giving up and rejecting instead of
disputing happen.

The runs of `lwsem`, `lwmsgq` and `lwevent` create their object once. Creating it again while it is in use empties
its queue of waiting tasks before the call finds out that the object exists (section 4).

## 4. Where code and documentation differ

Two disagreements are runs.

1. `_task_abort_internal` (`task.c:150`) takes a task off `AUX_QUEUE` only in the branch for tasks that are not
   on `TIMEOUT_QUEUE`. A task aborted while it waits for a semaphore with a timeout becomes ready and stays
   linked to the semaphore, whose next post readies it again (`task_abort`). `_task_destroy_internal` does both.
2. `_lwmem_alloc_internal` (`lwmem.c:104`) goes on from `POOL_ALLOC_PTR` after its window but keeps
   `prev_block_ptr` in a local variable. Every successful call resets the cursor; an allocation that fails in the
   window leaves it at the last free block. The preempted allocation then takes that block and links
   `prev_block_ptr` past those in between, which are lost (`lwmem_lost`). The passing run assumes that no allocation
   fails in the window of another one.

Others came up while modelling and are no runs, because they need a use of the calls that the models exclude or
lie below their grain.

Scheduler and synchronisation:

- `_task_stop_preemption` (`task.c:2438`) promises that the task is preempted only when it blocks. The flag is
  looked at by the outermost handler and not by `_sched_check_scheduler_internal`: any call that readies a more
  urgent task switches.
- `_lwsem_wait` checks `VALID` before it disables interrupts. A semaphore destroyed between the two gets a waiter
  that nothing wakes. `_mutex_lock` and `_lwtimer_cancel_timer` have the same window.
- With inheritance and FIFO queueing, `_mutex_unlock` hands the mutex to the first waiter at that waiter's own
  priority although a more urgent task still waits; until the new owner has run, tasks of a priority in between run.
  With priority queueing this cannot happen (`mutex_policy`). `mutex.h:231` says that inheritance
  orders the waiters by priority; only `MUTEX_PRIORITY_QUEUEING` does.
- `mutex_ptr->BOOSTED++` counts a boost even when the task needed none, and the task's own `BOOSTED` does not: with
  two ceilings, unlocking one mutex takes back the boost of the other.
- `_lwmsgq_receive` documents `ticks` as the maximum number of ticks to wait. The deadline is computed anew in every
  round of the loop: a reader that was woken and found the message gone waits again for all of them.
- `_lwsem_create_internal` empties `TD_QUEUE` before it refuses to create a semaphore that exists: its waiters are
  lost. `_lwevent_create_internal` and `_lwmsgq_init_internal` do the same.
- A wait woken by `_lwsem_destroy` or `_lwevent_destroy` returns `MQX_OK` when the object was created again before
  the waiter runs.
- A priority queue is sorted when a task joins it (`sched.c:623`) and not again when a waiting task changes priority.

Tasks (excluded by `Careful`, see `MayAbort`):

- Abort of the task that holds `TASK_CREATE_LWSEM` never releases it: no task can be created or destroyed any more.
- Abort of a task that is being destroyed readies it again; its destroyer goes on and frees the descriptor.
- Abort of a task inside the loop of `_taskq_destroy` leaves the rest of the queue waiting.
- The second of two destroyers of one task reads the descriptor after it may have been freed. The model does
  not use descriptors again, so what it reads is still `DYING`.
- A destroyer that is itself destroyed or aborted after it has posted the lock leaves its victim's descriptor
  unfreed; a creator at that place leaves a child that nobody readies.

Timers, memory and PPP:

- A timer added after its offset has passed in this period is called at the next tick instead (`late` in `LwTimer`).
- A function that cancels its own timer and adds it again can keep the tick handler in its loop for ever; in the model
  a function cancels its own timer last.
- `lwtimer.h:71` says that MQX clears `VALID` of a timer when the timer or its queue is cancelled;
  `_lwtimer_cancel_period` clears that of the queue only. When a function cancels the queue, the remaining timers of the tick are still called.
- `_lwtimer_test` and `_lwsem_test` return with interrupts disabled when they find an error.
- `_lwmem_test` takes the `NULL` in its cursor for a block when the pool became full in its window, and reports an
  error (`FalseAlarmOnlyWhenFull` says: only then). `_lwmem_get_free_internal` dereferences the same `NULL`.
- `_lwmem_alloc_align_internal` does not set `BLOCKSIZE` of the shifted block when it takes the whole of a free one.
- `PPP_send_stop` is to abort the timer of a protocol; it unlinks the first packet of it only. With hasty timers two
  may be queued, and one stays (`WaitIsTimed` states "exactly one" for patient timers only). Both ends can then open with
  different ideas of one of them: a time-out overtakes the command that stops the timer, the machine stops, is asked again and
  sends a new request; the old one, still queued, is repeated after it and acknowledged again, and the other end takes what
  it asks for. `OptionsAgree` therefore states the agreement of the two ends for patient timers, and for every timer that an end
  is open on the terms of its last request.
- `pppfsm.c:1189` and `:1249` call it a nonfatal error when no packet can be had for a request: the counter `ST_CP_NOBUFS` goes up
  and the function returns, but the old timer is stopped by then and none is started. The caller enters `REQ_SENT` or `CLOSING` all
  the same, and waits until the peer or the application moves it: nothing else will. The same happens when the message that
  carries a request is lost (`pkttx.c:169`, `:218`), whose error `pppfsm.c` ignores; when that of a stop is lost (`:342`), a packet goes on being
  repeated after its answer. `WaitIsTimed`, `Settles` and the agreement of `OptionsAgree` are therefore stated for memory that was
  never short (`Supplied`): without this condition TLC finds the first two violated after one failure. What holds although
  memory is short: `LinkFollowsState`, `PppTypeOK`, and that an end is open on the terms of its last request.
- When the last repetition of a request goes unanswered because the acknowledgement was lost, one end gives up and the
  other stays open (`GivesUp` in `Settles`).

## 5. Fairness and liveness

`FairSpec` of `LwSem` assumes that the tick interrupt keeps coming (weak fairness of `EnterIsr`, strong fairness
of `Tick`, which is possible inside a handler only), that handlers return (strong fairness of
`ReturnFromIsr`, since the loop of the tick may keep it disabled), that the loop of the tick goes on,
and that PendSV is taken (strong fairness, because handlers may hold it off again and again but not
for ever). The hardware does all of this. A task that the dispatcher has chosen goes on
with the call it is in; nothing is assumed about what tasks do between calls, so a task that never
yields may starve those below it, and `WokenReturns` is stated only for a task no other one matches.

`FairSpec` of `LwTimer` assumes only that the handler executes its own instructions (weak fairness of `IsrStep`):
functions return by assumption of `MaxCalls`, and nothing is assumed about ticks or the task. `TickEnds` is therefore
a statement about the loop of the handler.

`PppFairSpec` assumes that each of the three tasks of an end goes on when it can (weak fairness of the calls,
of `Input` and of `Transmit`), and that a timer runs out in the end although the other end's keeps the line busy (strong
fairness of `Expire`). Losses are not fair: the line loses at most a given number of frames, whenever it likes.

Deadlock is checked in every run except `ppp` and `lwtimer`, whose systems come to rest: on the kernel a handler can always
be entered or left, and a pool can always be used.

## 6. Refinement

`LwSem` implements `Semaphore`: `Abstract!Spec` is a property of the run. The mapping takes `VALID` and
`VALUE` as they are; the abstract queue is `TD_QUEUE`, empty from the moment `_lwsem_destroy` starts,
because interrupts are disabled until all waiters are off it. A client is waiting while its state is
`LWSEM_BLOCKED`; afterwards `TD.INFO` tells whether it was granted a token or left without one. The
abstract specification hands tokens to the client that waits longest, and a call can end with
`MQX_OK` only after `Take` or `Grant`, so the refinement is the statement that timeouts, posts,
destruction, negative values and preemption neither lose nor invent tokens nor reorder clients.
`LwSemProofs` proves it.

`LwMsgQ` implements `Channel`. The content of the channel is the `CURRENT_SIZE` slots of the ring from
the read location on, oldest first; the calls and the buffers are mapped as they are. `Channel` knows
of no waiting queues, wake-ups or deadlines: that a reader which is woken in vain, one that times out
in the moment of a send, or a sender that is switched out in the middle of its call leaves messages in
order is what the run shows, and what `LwMsgQProofs` proves. Which of several waiting readers is served is left open: in the code
it is the first that is dispatched, not the first that waits.

`LwEvent` implements `EventGroup`. `EventGroup` serves any number of clients in one step and says only
what makes that fair: every client gets what it asked for, an automatic bit goes to one client, and a
client is passed over only if an earlier one took a bit it needed. The loop of the code needs many
steps for it; the abstract set takes place when the loop ends, so until then the abstract queue is the
one the loop began with. An abstract destruction takes place when its loop begins, since `VALID` is 0
from there on. A waiting client was granted its bits or has left according to `TD.INFO`. `LwEventProofs` proves it.

`LwMem` implements `Heap`. The blocks of the heap are those the application has, with the sizes and owners their headers
say; a client's request is that of its allocation in progress. `Heap` refuses a request only in a state in which no gap has
room for it, and gaps are made of the words not in use, without free blocks: so the run shows that a walk through the
free list misses no room although others allocate and free in its windows, that neighbours are coalesced, and that no
headers are lost. Which of several gaps is taken is left open. `StandaloneProofs` proves it for every pool.

## 7. Proofs

`SchedProofs` proves for every set of tasks, number of priorities, assignment of home priorities,
delay and nesting:

| Theorem | States |
|---|---|
| `TypeCorrect` | `Spec => []TypeOK` |
| `QueuesConsistent` | `Spec => []Consistent` |
| `NoReadyTaskMissed` | `Spec => []SearchComplete` |
| `MostUrgentRuns` | `Spec => []RunsHighest` |
| `NobodyOversleeps` | `Spec => []NoneOverdue` |
| `InTurn` | `Spec => NoOvertaking` |

They assume `KernelAssumption` and `SchedAssumption` only: the idle task is a task and has the
lowest level to itself, priorities and bounds are natural numbers.

`RunsHighest` is not inductive. The invariant is
`IInv == Basic(k) /\ Settled(k) /\ (k.ticking => k.isr > 0)`. `Basic` says that the record has its
type, that `QueuesAgree` and `NoneAbove` hold and that the idle task is ready, which is why the dispatcher always
finds a task. `Settled` says what holds between two switches: when no PendSV is pending the active
task is ready, and when moreover no handler is active and preemption is allowed,
`CURRENT_READY_Q` is the queue of the active task. Handlers may break the second part and the
outermost one restores it or sets `pend`; that is why `pend` and `isr` are part of it. The last
conjunct keeps tasks from running inside the tick.

`KernelProofs` has one lemma per operator of `Kernel` (`TaskReadyLemma`, `DispatchLemma`,
`DelayLemma`, `TimeDequeueLemma`, `SetPriorityLemma`, ...), each saying that the operator keeps
`Basic` and what it does to `Settled`, on top of lemmas about sequences (removal, insertion,
appending keep the elements and their distinctness). `SchedProofs` has one step per action.

`NoneOverdue` is not inductive: the tick stops at the first descriptor that is not due, so the order of the whole queue counts.
`Punctual` says that the deadlines along `TIMEOUT_QUEUE` never fall and that none is below 0, or below -1 while the tick
handler is inside its loop. `DelayTimely` shows that the place `_time_delay_internal` searches suits the
new deadline; the other lemmas of the section show that removing a task, counting a tick and each round of the loop
keep the order. For `NoOvertaking`, `OnlyBack` says which tasks a step may put behind others: none when a task leaves its queue, the
task itself when it is appended, and that task was either not ready or is the one that yields or is given a priority.

`LwSemProofs` proves, with these lemmas, for every set of tasks, priorities, initial values, timeouts and nesting:

| Theorem | States |
|---|---|
| `TypeCorrect` | `Spec => []TypeOK` |
| `QueueAndTasksAgree` | `Spec => []WaitersAgree` |
| `NoTokenIdles` | `Spec => []NoIdleToken` |
| `Implements` | `Spec => ImplementsSemaphore` |

They assume `KernelAssumption`, `LwSemAssumption` and `CreatedOnce`, that `MaxCreations` is at most 1: a
second creation empties `TD_QUEUE` under its waiters, and the theorems would be false. The invariant is
`IInv == DataOK /\ KernelOK /\ WaitsOK /\ FreshOK /\ NoIdleToken`. `KernelOK` is the invariant of `Sched`
with two changes: `Settled` is excused while `_lwsem_destroy` readies its waiters, and a task in that
loop is the one that runs. `WaitsOK` ties `TD_QUEUE` to the states of the tasks and to their places in
the calls; it is what makes every `_TASK_READY` of the module the readying of a task that is on no
ready queue, which the lemmas of the kernel require. `FreshOK` is needed because the first creation
also resets the queue: nothing can be waiting then.

For `Implements` there is one lemma per action, and the invariant is `RInv == IInv /\ ReasonsOK`; `ReasonsOK` says that a task that left the queue
without being granted a token either has a timeout or finds the semaphore invalid, which is what lets
the abstract wait end with the result the code returns.

`TaskLifeProofs` proves, for every set of tasks and children, every priority, timeout, policy and bound:

| Theorem | States |
|---|---|
| `DescriptorsMatch` | `Spec => []QueuesMatch` |
| `NothingDangles` | `Spec => []NoneDangles` |
| `OneBuries` | `Spec => []OneUndertaker` |
| `LockNeverLost` | `Spec => []LockKept` |
| `NobodyStranded` | `Spec => []NoneStranded` |
| `ResumedByPriority` | `Spec => []UrgentFirst` |

They assume `KernelAssumption`, `TaskLifeAssumption` and `Cautious`, that `Careful` is `TRUE`: without it `Abort` does what
section 4 lists, and the theorems are false. The invariant is
`IInv == DataOK /\ Sound(k) /\ WaitsOK /\ CallsOK /\ LockKept /\ NoneStranded`. `Sound` is the part of the kernel's
invariant that does not depend on where the switches are; `KernelProofs` has a lemma per operator for it.
`WaitsOK` says which tasks are on which of the three queues. `CallsOK` has four parts: `Locking` (only a task on
its way to the lock waits for it), `Living` (what is true of a task that does not exist yet, or is being taken apart),
`Knowing` (what a call may assume of the task it is about, although it looked that task up long ago: a victim is alive
or already dead, a child does not exist or is built) and `Apart` (no two calls take apart, or create, the same task).
None is inductive without the others: `OneUndertaker` needs that the lock excludes two destroyers, `LockKept`
that the victim of a destruction does not hold the lock, `NoneDangles` that what `Bury` removes is all there was.
`ResumedByPriority` needs two more facts: no step of this module changes the priority of a task that exists (`PrioritiesStay`), and a
task that joins a priority queue is inserted before the first less urgent one, so the queue stays sorted (`JoinTimely`).

`LwMsgQProofs` proves, for every set of tasks, messages, capacity and timeout:

| Theorem | States |
|---|---|
| `QueuesAndTasksAgree` | `Spec => []WaitersAgree` |
| `NoWakeLost` | `Spec => []NoLostWake` |
| `Implements` | `Spec => ImplementsChannel` |

They assume `KernelAssumption`, `LwMsgQAssumption` and `CreatedOnce`, for the reason given for `LwSem`; `NoWakeLost` also assumes
`Finite`, that there are finitely many tasks, because it counts them. The invariant is
`IInv == DataOK /\ Sound(k) /\ WaitsOK /\ FreshOK /\ WakesOK`. `WaitsOK` says who is on which of the two waiting queues; it
does not depend on how many messages there are. `WakesOK` does: while readers wait, at least as many woken readers are on their
way as there are messages, and likewise for writers and free slots. A step changes the number of messages by one and
wakes one task, or takes one that was on its way, so the lemmas about `Wakes` (`KeepLemma`, `LossLemma`, `GainLemma`, ...) are
stated once for any change of that kind. For the refinement the invariant is `RInv == IInv /\ RingOK`: the
write location is where the messages end. Without it a send would not be an `Append`. `WrapLemma` replaces `% Capacity`
by a subtraction, which is all the ring needs.

`LwEventProofs` proves, for every set of tasks, bits, wishes, priorities and timeouts:

| Theorem | States |
|---|---|
| `QueueAndTasksAgree` | `Spec => []WaitersAgree` |
| `NobodyMissed` | `Spec => []NoneMissed` |
| `Implements` | `Spec => ImplementsEventGroup` |

They assume `KernelAssumption`, `LwEventAssumption` and `CreatedOnce`. The invariant is
`IInv == DataOK /\ Sound(k) /\ WaitsOK /\ FreshOK /\ LoopOK /\ NoneMissed`. `NoneMissed` says nothing while `_lwevent_set`
loops; `LoopOK` carries it through: no task behind the cursor is satisfied by the bits the loop still has
(`Left`), `LWEVENT_BITS` of a waiting task is its mask, which is what the loop compares, and the tick, which would
shift the tasks under the cursor, is not inside its own loop. Bits that clear themselves only make the set
smaller, and fewer bits satisfy nobody they did not satisfy before (`FewerLemma`).

For the refinement the invariant is `RInv == IInv /\ InfoOK /\ PassOK`. `InfoOK` says that `TD.INFO` tells who left the queue
without its bits. `PassOK` is what the loop of `_lwevent_set` has done since it began, which the abstract set does at its end:
`Walk` compares the queue it began with, `pass.from`, with what is left of it. Behind the cursor the two are the same, and the
rest is in order (`Shape`); those that left got bits they asked for, and no automatic bit was given twice or is still on offer
(`Dealt`); those the cursor passed lost a bit to a task before them if the bits of the whole call would have done (`Passed`).
`SkipWalk` and `HandWalk` show that a round of the loop keeps this, and `EndWalk` that with the cursor past the last task
it is what `Set` of `EventGroup` asks for. `PassOK` also says that a task which executes during a loop is the caller and not one
that was just woken, so no wait begins or ends meanwhile.

`MutexProofs` proves, for every set of tasks and mutexes, their attributes, every priority and ceiling:

| Theorem | States |
|---|---|
| `MutualExclusion` | `Spec => []HoldersOwn` |
| `QueuesOfMutexesAgree` | `Spec => []WaitersAgree`, type correctness included |
| `OwnerInherits` | `Spec => []InheritsHighest` |
| `NoneInverted` | `Spec => []NoInversion` |
| `CeilingReached` | `Spec => []CeilingHeld` |
| `BoostsTakenBack` | `Spec => []BoostsEnd` |

The first two assume `KernelAssumption` and `MutexAssumption` only. Their invariant is
`IInv == DataOK /\ Quiet(k) /\ Tidy(mutex, k.state, at, held)`. `Quiet` is `Sound` without timeouts and ticks, which
`_mutex_lock` does not use; one lemma per operator shows that boosts, their withdrawal and the switches inside them keep it and leave
`TD.STATE` alone. `Tidy` has a part per mutex, `Queue`, and a part per task, `Place`. `HoldersOwn` is not inductive
because a task is told that it owns a mutex when it is dispatched, long after `_mutex_unlock` made it the owner: `Place` says that a
task that is inside its wait and no longer `MUTEX_BLOCKED` owns the mutex, or finds it destroyed, and that a task
past the checks of `_mutex_lock` still does not own it, without which it could come to wait for itself.

The other four, about priorities, have three more hypotheses, which `mutex_policy` meets and without which they are
false: `OneMutex`, because a task that owns two loses the boosts of both with one (section 4); `FixedCeilings`, because
`_mutex_set_priority_ceiling` raises no owner (only `CeilingHeld` needs it); and `Regular`, that a mutex with inheritance
queues by priority (section 4). Anybody may destroy the mutex; tasks, priorities, protocol, ceiling, home priorities and
interrupts stay arbitrary. The invariant is `PInv == IInv /\ Lawful(k, mutex, at, held)`, one conjunct per task and two
per mutex:

- `Account`: a task that is not boosted is at home, and the boosts of any other are counted where they will be taken
  back: in `count`, while it leaves `_mutex_unlock`, or in `BOOSTED` of the mutex it owns (`Covered`). There is one gap:
  `_mutex_unlock` may boost the next owner to the ceiling before the mutex counts it; the new owner's own pass through
  the section for ceilings in `_mutex_lock` only runs later. The priority a task read before interrupts were disabled in
  `_mutex_lock` is still its own, since only the owner is ever boosted.
- `Ordered`: while the mutex is valid, a queue that is inherited from is sorted by the current priorities, and the owner
  is at least as urgent as all of it. So whoever gets the mutex next has nothing to inherit (`NothingInherited`).
- `Switches`: the kernel is `Settled`, so the most urgent ready task runs, except between the two halves of
  `_mutex_unlock`, where the new owner is ready and not dispatched yet, and in the loop of `_mutex_destroy`, which
  readies the waiters of a mutex that is no longer valid. In `_mutex_unlock` the old owner still has its boosts.
  `NoInversion` follows with `NoneAbove`: the ready queue of the owner is not above `CURRENT_READY_Q`.

`SameRanks` is what most operators of the kernel keep (`MY_QUEUE`, `HOME_QUEUE`, `BOOSTED`, the preemption flag);
`BoostRanks` and `UnboostRanks` say what the other two do to them.

`StandaloneProofs` has two parts. The first proves about `LwTimer`, for every set of timers, period, offsets and whatever the task and the functions cancel and add:

| Theorem | States |
|---|---|
| `QueueSorted` | `Spec => []Sorted` |
| `CalledOnTime` | `Spec => []OnTime` |
| `NoGhostCalled` | `Spec => []NoGhost` |
| `NobodySkipped` | `Spec => NoneSkipped` |

They assume `LwTimerAssumption` only. The invariant is `IInv`, and its core, `Reached(m)`, says how far the handler has come along the
list: `TIMER_PTR` is the element at place `m` (`Marks`); up to there every timer has been called in this period or is new, behind it
none has been called, and none is overdue unless it came late (`Turns`); and the link the handler goes on from leads to place `m + 1`,
although the function it called may have cancelled its own timer, whose link is then stale (`Link`). A timer that is inserted
or removed at or before place `m` shifts `m`. `CheckHolds` says that the timer a task found valid with interrupts enabled is still in
the list when the task removes it with interrupts disabled. `PositionLemma`, about the loop that finds the place of a new timer, uses
that a nonempty set of numbers has a smallest element.

The second proves about `LwMem`, for a pool, headers and blocks of every size, every set of tasks and priorities, and whatever
the tasks call and hand over:

| Theorem | States |
|---|---|
| `BlocksTileAlways` | `PoolSpec => []BlocksTile` |
| `FreeListIsExact` | `PoolSpec => []FreeListExact` |
| `FalseAlarmsAreExplained` | `PoolSpec => FalseAlarmOnlyWhenFull` |
| `PoolImplementsHeap` | `PoolSpec => ImplementsHeap` |

They assume `LwMemAssumption` and `Undisturbed`: at most two tasks allocate (`TwoAllocate`), and
none of them fails inside the window of the other (`Hopeless = {}`). This is not for convenience. An allocation that fails
leaves `POOL_ALLOC_PTR` at the end of the list and the one it interrupted with a `prev_block_ptr` that no longer precedes it; `lwmem_lost` shows
what follows. With a third allocating task the same could come about two windows deep. Any number of tasks may free, transfer and test.
`MCLwMem` meets the hypothesis.

The invariant is `MemInv`, in five parts. `PoolOK` is the pool by itself: the headers tile it, no two free blocks touch, and the link of
every free block, as well as the head of the list, names the next free block above (`IsNext`). Stated like this, for each link by
itself, the list needs no induction: that a link is right depends on the set of the free blocks only, and splitting or joining changes
that set by one element. `CursorsOK` says that the cursors are at free blocks, or at the head. `StackOK` is what the stack of calls
knows: who interrupts whom, and that no two calls free the same block. `FreeWalk` and `AllocWalk` are what an interrupted walk may rely on when it goes on: the walk
of `_lwmem_free` that its cursor is still below the block it frees; that of an allocation that the block
before its cursor still is `prev_block_ptr`, unless an allocation from above moved the cursor, to a place with room at or behind it,
and that no block before the cursor has room. `TakeMiddle` and its relatives say what taking the beginning, the middle or all of a block
does to a pool, `JoinNext` and `JoinPrevious` have lemmas for what freeing does; one lemma per action follows.

That `LwMem` implements `Heap` needs no invariant beyond `MemInv`. `GapsAreFree` is its center: the gaps of the heap, which are
defined by the words nobody uses, are exactly the free blocks; its proof uses that blocks leave no word between them (`Covered`) and
share none (`Disjoint`), and that no two free blocks touch. So a request has room where `Fits` says (`RoomsToTake`, `RoomsToTakeAt`),
and a walk that ends without a block has passed all of them, because `AllocWalk` has kept it from missing one. The requests are read off the
stack: a task is on it once, as each call there is more urgent than those below, so a push, a pop or a new round changes at most the request of
one task (`AsksAfterPush`, `AsksAfterPop`, `AsksAfterRound`). `Gives` says what an allocation must do to the pool, and both kinds of
allocation do it. The heap frees a block in the last round of `_lwmem_free`; it does not notice the earlier ones, nor `_lwmem_test`.

The last parts of `SchedProofs` prove about `PppFsm`, for every set of situations, bound on retries and disputes, and number of losses, with patient
and hasty timers, and any number of allocations that fail:

| Theorem | States |
|---|---|
| `LinkAlwaysFollowsState` | `PppSpec => []LinkFollowsState` |
| `WaitIsAlwaysTimed` | `PppSpec => []WaitIsTimed`: type correctness, and, while memory was never short, the timers |
| `OptionsAlwaysAgree` | `PppSpec => []OptionsAgree`: the first half always, the agreement while memory was never short |

All need `PeersAssumption` and `SetupsAssumption`. The invariant of the first is `LineInv /\ TypedLine`. `LineInv` has one
conjunct per end. `Valid` says what the state of a machine owes: the link is up exactly in `OPENED` when the peer's authentication is as
wished, and in `ACK_RCVD` and `OPENED` what the peer acknowledged is what the last request asked for, which is the first half of
`OptionsAgree`. Of the line it needs one fact only, since a message is checked against the identifier of the last request when it arrives:
old answers, repeated or out of order, may be on it, but no acknowledgement without any option, which `LCP_recvconfack` takes for one of
whatever was asked (`lcp.c:660`) and which would open the link without `RECV_OPT`. No end running this code sends one: on a serial line its requests always have PFC and ACFC (`lcp.c:114`),
which the code never rejects, and an acknowledgement repeats the request. `TypedLine` says so, together with everything else that
`PppTypeOK` and the rest of the proofs need to know of the types of what is held and sent. There is one lemma per function of `pppfsm.c` for each of the two, with and without a packet (`packet`), and `NeatRemains` for the messages
that are left when others are lost.

The other two hold in part only while memory was never short, so their invariants are implications: `LineInv /\ TypedLine /\ (Supplied => ...)`.
Failures do not come back (`SuppliedBefore`), so a step that ends with `Supplied` began with it; in such a step (`Ample`) every handler had
its packet and lost no message (`AmpleBecome`).

For `WaitIsAlwaysTimed` what is implied is `TimedLine`. `TimersOf(n, out)` counts the packets to be repeated once the transmit
task, which has `n`, has worked off the commands `out`. It is a recursive function, so what it does with a longer or a shorter sequence has to
be proved by a minimal counterexample (`CountUnique`, `TimersOfAppend`, `TimersOfTail`); that done, only four things can happen to a machine's commands
(`Move`): an answer, which is not repeated, or a restart; the stop of the timer that runs and a request; a stop alone, which ends the wait; a request
alone, which begins one. Each keeps the count the state calls for (`MoveKeeps`), for any number of packets the transmit task has, and there is one lemma
per function of `pppfsm.c` that says which of them its branches are (`RecvConfReqDone`, ...). What the transmit task does to the count of the queue it
does to that of the commands too, with the opposite sign (`TimedTake`).

The final time-out of a packet is where the count could go wrong: it stops a wait that is no longer the packet's own if the machine went on after the
packet was unlinked. With hasty timers that happens, and leaves a timer too many, never one too few. With patient timers it does not, and two more facts
say why. `Exact`: a machine in `ACK_RCVD`, the only state from which a message of the peer that asks for something could end the wait, has had its timer restarted,
or the restart is on its way and nothing behind it (`Pending`), so its packet has more than one try left. `Calm`: while one end has unlinked a packet, the
other has unlinked none, nothing of the first is on the line, and so nothing but questions can come from the other, because its machine was only called
meanwhile. `Mild` is what a question does to a machine that waits for its answer: it stays waiting and answers. The assumption `conf >= 2` is where the restart counts, and is
needed: with `conf = 1`, `MaxTerm = 1`, an end that insists on an authentication the other cannot give, and a reopening of the other end between
the time-out and the call of `PPPFSM_timeout`, TLC finds a machine in `CLOSED` with a terminate request that is still repeated, after one lost frame.

For `OptionsAlwaysAgree` it is `TimedLine /\ AgreeLine`. `AgreeLine` speaks of each end together with what the other has
answered (`Side`); it is about everything that is on the line, kept to be repeated or ordered from the transmit task. `Claims`: all
requests, acknowledgements and the options the other end holds of one identifier carry the same options, and once the last request is
acknowledged, or about to be, no earlier request can arrive any more, because the other end takes over what it asks for, and
`PPPFSM_recvconfreq` tells no old request from a new one. That part is why the timers matter: `InOrder` says that nothing older is behind the last
request, on the line or ahead of it, and `InTime` that one timer runs at a time and a request that is not the last one has the command that stops
its timer behind it. With hasty timers the second fails, and so does the agreement (section 4). A handler keeps both sides by what it
does with its last request (`Moved`: it keeps it, or stops the timer and makes a new one) and by what it says of the peer's (`SameWord`: nothing
new; `Answers`: it acknowledges the request at the head of the line and remembers its options); the lemmas `...Says` show one of these for every function
of `pppfsm.c`. A stop may leave no timer behind, which is where `TimedLine` is needed (`RipeNow`), and the packet that is repeated is alone on the line, which
is `Calm`. `Agreed` adds that a machine that has acknowledged a request knows which.

Every invariant that a run checks is now a theorem. Only model-checked: liveness, which the prover cannot do:
`TimedWaitsEnd` and `WokenReturns` of `LwSem`, `TickEnds` of `LwTimer`, `Settles` of `PppFsm`.

## 8. Not modelled

- Time slices: `MQX_HAS_TIME_SLICE` is 0 in the shipped configuration.
- Spinning mutexes (`MQX_MUTEX_HAS_POLLING` 0), the attribute objects and `_mutex_cleanup`.
- `DISABLED_LEVEL` and `TASK_SR`: the nesting of `_int_disable` within one task and interrupt levels above
  those MQX manages.
- FPU contexts, user mode, more than one processor, kernel logging.
- The links inside queues: a queue is a sequence, and a queue operation one step. The loop of
  `_mutex_destroy` dequeues with interrupts enabled; a task that preempts it inside the dequeue is
  below this grain.
- Conversions between ticks and dates, hardware ticks, and the wrap-around of the 64-bit tick count.
- The kernel's lists of objects and the `_..._test` functions over them.
- In `TaskLife`: `_task_restart`, the cleanup functions of components, exhausted memory, environments and parameters;
  memory of a descriptor that is used again for another task.
- In `LwTimer`: more than one period, and handlers of a priority above the tick's that use the queue.
- In `LwMem`: `_lwmem_alloc_align_internal`, `_lwmem_get_free_internal`, `HIGHWATER`, block types, and failing allocations in
  each other's windows except in `lwmem_lost`.
- In `PppFsm`: code rejects, echoes, the protocols negotiated after LCP (PAP, CHAP, CCP, IPCP) and the shutdown.
- Events with names (`event.c`) and full semaphores (compiled out), messages, names, logs, the full memory manager, and
  everything else on top of the kernel: drivers, the rest of RTCS, MFS, FFS, USB, shell and applications. They are systems
  of their own, and most of the repository's lines; TCP (`tcp.c`) and the message component are the next candidates.

## 9. Plan

Done: `Kernel`, `Sched`, `Semaphore` and `LwSem`, `Mutex`, `Channel` and `LwMsgQ`, `EventGroup` and `LwEvent`, `TaskLife`, `LwTimer`,
`Heap` and `LwMem`, `PppFsm`, each with proofs.

Next, in this order:

1. Priority queues whose tasks change priority while they wait; `_task_restart`.
2. The message component (`msg.c`, `msgq.c`, `msgpool.c`) and the timer task (`timer.c`).
3. CHAP and IPCP on top of `PppFsm`, which share its automaton.
