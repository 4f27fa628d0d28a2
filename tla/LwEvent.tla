------------------------------ MODULE LwEvent ------------------------------
(***************************************************************************)
(* One lightweight event (lwevent.c) used by tasks and by interrupt        *)
(* handlers, on the kernel of module Kernel.                               *)
(*                                                                         *)
(* Every call checks VALID with interrupts already disabled, so a call is  *)
(* one step up to the point where it blocks.  The loops of _lwevent_set    *)
(* and _lwevent_destroy over the waiting tasks take a step per task; the   *)
(* variable pass says how far the loop is, and keeps everyone else out.    *)
(***************************************************************************)
EXTENDS Kernel

CONSTANTS HomePriority,   \* [Task -> Prio]
          AutoQueues,     \* ready queues when the scheduler starts
          Bit,            \* the bits of a _mqx_uint that are used
          Wishes,         \* bit_mask and all of the waits of each task
          SetMask,        \* bit_mask of the other calls
          Timeouts,       \* timeouts of waits, in ticks
          MaxCreations,   \* bound on the calls of _lwevent_create
          MaxNesting      \* bound on the nesting of handlers

ASSUME LwEventAssumption ==
  /\ HomePriority \in [Task -> Prio]
  /\ AutoQueues \in [Prio -> Seq(Task)]
  /\ \A p \in Prio :
       /\ IsInjective(AutoQueues[p])
       /\ ToSet(AutoQueues[p]) = {t \in Task : HomePriority[t] = p}
  /\ Wishes \in [AppTask -> SUBSET [mask : SUBSET Bit, all : BOOLEAN]]
  /\ SetMask \subseteq SUBSET Bit
  /\ Timeouts \subseteq Nat
  /\ MaxCreations \in Nat /\ MaxNesting \in Nat

VARIABLES
  k,      \* the kernel
  ev,     \* LWEVENT_STRUCT: VALID, VALUE, AUTO, WAITING_TASKS
  at,     \* where each task is in its wait
  ask,    \* the arguments bit_mask and all of its last wait
  bits,   \* TD.LWEVENT_BITS
  info,   \* TD.INFO # 0
  pass,   \* the loop over the waiting tasks
  made    \* calls of _lwevent_create so far

vars == <<k, ev, at, ask, bits, info, pass, made>>

\* Between calls: how the last wait ended.
Outcome == {"none", "ok", "timeout", "invalid"}
Blocked == {"blocked", "timedBlocked"}
At      == Outcome \cup Blocked

\* loop: which call loops; set: the bits to hand out (set_bits); next: the
\* place in WAITING_TASKS (q_ptr); from: WAITING_TASKS when the loop began,
\* which only the properties look at.
NoPass == [loop |-> "none", set |-> {}, next |-> 1, from |-> <<>>]

Wish    == [mask : SUBSET Bit, all : BOOLEAN]
NoWish  == [mask |-> {}, all |-> FALSE]

Init ==
  /\ k = StartKernel(HomePriority, AutoQueues)
  /\ ev = [valid |-> FALSE, value |-> {}, auto |-> {}, waiters |-> <<>>]
  /\ at = [t \in AppTask |-> "none"]
  /\ ask = [t \in AppTask |-> NoWish]
  /\ bits = [t \in AppTask |-> {}]
  /\ info = [t \in AppTask |-> FALSE]
  /\ pass = NoPass
  /\ made = 0

\* The active task runs with interrupts disabled.
Masked == \/ pass.loop # "none"
          \/ \E t \in AppTask : Runs(k, t) /\ at[t] \in Blocked

Starts(t) == Runs(k, t) /\ at[t] \in Outcome /\ pass.loop = "none"
InHandler == k.isr > 0 /\ ~k.ticking /\ pass.loop = "none"
\* Code that may call what both tasks and handlers may call.
Caller == InHandler \/ \E t \in AppTask : Starts(t)
Settle(t, out) == at' = [at EXCEPT ![t] = out]

-----------------------------------------------------------------------------
(* Creation, bits, destruction.                                             *)

\* WAITING_TASKS, VALUE and AUTO are set before the check that it is new.
Create(t, auto) ==                                \* _lwevent_create_internal
  /\ Starts(t)
  /\ made < MaxCreations
  /\ made' = made + 1
  /\ ev' = [valid |-> TRUE, value |-> {}, auto |-> auto, waiters |-> <<>>]
  /\ UNCHANGED <<k, at, ask, bits, info, pass>>

Clear(mask) ==                                    \* _lwevent_clear
  /\ Caller /\ ev.valid
  /\ ev' = [ev EXCEPT !.value = @ \ mask]
  /\ UNCHANGED <<k, at, ask, bits, info, pass, made>>

SetAutoClear(mask) ==                             \* _lwevent_set_auto_clear
  /\ Caller /\ ev.valid
  /\ ev' = [ev EXCEPT !.auto = mask]
  /\ UNCHANGED <<k, at, ask, bits, info, pass, made>>

Begin(loop, set) ==
  pass' = [loop |-> loop, set |-> set, next |-> 1, from |-> ev.waiters]

Set(mask) ==                                      \* _lwevent_set
  /\ Caller /\ ev.valid
  /\ Begin("set", ev.value \cup mask)
  /\ UNCHANGED <<k, ev, at, ask, bits, info, made>>

Satisfied(w, set) ==
  IF w.all THEN w.mask \subseteq set ELSE w.mask \cap set # {}

\* The task at the cursor; TASK_LWEVENT_ALL_BITS_WANTED is set while it waits
\* for all bits, and LWEVENT_BITS holds its mask.
Waiter == ev.waiters[pass.next]
Served == Satisfied([mask |-> bits[Waiter], all |-> ask[Waiter].all], pass.set)

Skip ==
  /\ pass.loop = "set" /\ pass.next <= Len(ev.waiters)
  /\ ~Served
  /\ pass' = [pass EXCEPT !.next = @ + 1]
  /\ UNCHANGED <<k, ev, at, ask, bits, info, made>>

\* mutant: a bit that clears itself is offered to the tasks behind as well
HandOut_KeepsBits ==
  /\ pass.loop = "set" /\ pass.next <= Len(ev.waiters)
  /\ Served
  /\ k' = Wake(k, Waiter)
  /\ ev' = [ev EXCEPT !.waiters = RemoveAt(@, pass.next)]
  /\ info' = [info EXCEPT ![Waiter] = FALSE]
  /\ bits' = [bits EXCEPT ![Waiter] = @ \cap pass.set]
  /\ UNCHANGED <<at, ask, pass, made>>

\* mutant: the cursor moves past the task behind the one that was removed
HandOut_JumpsAhead ==
  /\ pass.loop = "set" /\ pass.next <= Len(ev.waiters)
  /\ Served
  /\ k' = Wake(k, Waiter)
  /\ ev' = [ev EXCEPT !.waiters = RemoveAt(@, pass.next)]
  /\ info' = [info EXCEPT ![Waiter] = FALSE]
  /\ bits' = [bits EXCEPT ![Waiter] = @ \cap pass.set]
  /\ pass' = [pass EXCEPT !.set = @ \ (ev.auto \cap bits'[Waiter]),
                          !.next = @ + 1]
  /\ UNCHANGED <<at, ask, made>>

HandOut ==
  /\ pass.loop = "set" /\ pass.next <= Len(ev.waiters)
  /\ Served
  /\ k' = Wake(k, Waiter)
  /\ ev' = [ev EXCEPT !.waiters = RemoveAt(@, pass.next)]
  /\ info' = [info EXCEPT ![Waiter] = FALSE]
  /\ bits' = [bits EXCEPT ![Waiter] = @ \cap pass.set]
  /\ pass' = [pass EXCEPT !.set = @ \ (ev.auto \cap bits'[Waiter])]
  /\ UNCHANGED <<at, ask, made>>

\* Interrupts are enabled before the scheduler is asked.
SetEnd ==
  /\ pass.loop = "set" /\ pass.next > Len(ev.waiters)
  /\ ev' = [ev EXCEPT !.value = pass.set]
  /\ pass' = NoPass
  /\ k' = PendScheduler(k)
  /\ UNCHANGED <<at, ask, bits, info, made>>

Destroy(t) ==                                     \* _lwevent_destroy_internal
  /\ Starts(t) /\ ev.valid
  /\ ev' = [ev EXCEPT !.valid = FALSE]
  /\ Begin("destroy", {})
  /\ UNCHANGED <<k, at, ask, bits, info, made>>

DestroyNext ==
  /\ pass.loop = "destroy" /\ ev.waiters # <<>>
  /\ k' = Wake(k, Head(ev.waiters))
  /\ ev' = [ev EXCEPT !.waiters = Tail(@)]
  /\ UNCHANGED <<at, ask, bits, info, pass, made>>

DestroyEnd ==
  /\ pass.loop = "destroy" /\ ev.waiters = <<>>
  /\ pass' = NoPass
  /\ k' = PendScheduler(k)
  /\ UNCHANGED <<ev, at, ask, bits, info, made>>

-----------------------------------------------------------------------------
(* Waits of the active task t (_lwevent_wait_internal).                     *)

Refuse(t) ==
  /\ Starts(t) /\ ~ev.valid
  /\ Settle(t, "invalid")
  /\ UNCHANGED <<k, ev, ask, bits, info, pass, made>>

Catch(t, w) ==
  /\ Starts(t) /\ ev.valid
  /\ Satisfied(w, ev.value)
  /\ ask' = [ask EXCEPT ![t] = w]
  /\ bits' = [bits EXCEPT ![t] = ev.value \cap w.mask]
  /\ ev' = [ev EXCEPT !.value = @ \ (ev.auto \cap w.mask)]
  /\ Settle(t, "ok")
  /\ UNCHANGED <<k, info, pass, made>>

Enqueue(t, w) ==
  /\ Starts(t) /\ ev.valid
  /\ ~Satisfied(w, ev.value)
  /\ ask' = [ask EXCEPT ![t] = w]
  /\ bits' = [bits EXCEPT ![t] = w.mask]
  /\ ev' = [ev EXCEPT !.waiters = Append(@, t)]
  /\ info' = [info EXCEPT ![t] = TRUE]
  /\ UNCHANGED <<pass, made>>

WaitForever(t, w) ==
  /\ Enqueue(t, w)
  /\ Settle(t, "blocked")
  /\ k' = Dispatch([Unlink(k, t, k.my[t]) EXCEPT !.state[t] = "LWEVENT_BLOCKED"])

WaitTimed(t, w, d) ==
  /\ Enqueue(t, w)
  /\ Settle(t, "timedBlocked")
  /\ k' = Dispatch(Delay([k EXCEPT !.state[t] = "LWEVENT_BLOCKED"], t, d))

\* The wait goes on once its task is dispatched again.
Resume(t) ==
  /\ Runs(k, t) /\ at[t] \in Blocked
  /\ Settle(t, IF ~ev.valid THEN "invalid"
               ELSE IF at[t] = "timedBlocked" /\ info[t] THEN "timeout"
               ELSE "ok")
  /\ UNCHANGED <<k, ev, ask, bits, info, pass, made>>

TaskStep(t) ==
  \/ \E auto \in {{}, Bit} : Create(t, auto)
  \/ Destroy(t)
  \/ Refuse(t)
  \/ \E w \in Wishes[t] : \/ Catch(t, w) \/ WaitForever(t, w)
                           \/ \E d \in Timeouts : WaitTimed(t, w, d)
  \/ Resume(t)

-----------------------------------------------------------------------------
(* Interrupt handlers, the tick and the dispatcher.                         *)

EnterIsr ==
  /\ ~k.ticking /\ ~Masked
  /\ k.isr < MaxNesting
  /\ k' = IsrEntry(k)
  /\ UNCHANGED <<ev, at, ask, bits, info, pass, made>>

ReturnFromIsr ==
  /\ InHandler
  /\ k' = IsrReturn(k)
  /\ UNCHANGED <<ev, at, ask, bits, info, pass, made>>

Tick ==
  /\ InHandler
  /\ k' = TickStart(k)
  /\ UNCHANGED <<ev, at, ask, bits, info, pass, made>>

\* mutant: a task whose wait times out stays on WAITING_TASKS
WakeDue_StaysQueued ==
  /\ k.ticking /\ Due(k)
  /\ k' = TickWake(k)
  /\ UNCHANGED <<ev, at, ask, bits, info, pass, made>>

\* Only waits are timed here; TD.INFO leads to the queue of the event.
WakeDue ==
  /\ k.ticking /\ Due(k)
  /\ k' = TickWake(k)
  /\ ev' = [ev EXCEPT !.waiters = Without(@, Head(k.timeouts))]
  /\ UNCHANGED <<at, ask, bits, info, pass, made>>

TickReturn ==
  /\ k.ticking /\ ~Due(k)
  /\ k' = TickEnd(k)
  /\ UNCHANGED <<ev, at, ask, bits, info, pass, made>>

PendSV ==
  /\ k.pend /\ k.isr = 0
  /\ k' = Dispatch(k)
  /\ UNCHANGED <<ev, at, ask, bits, info, pass, made>>

Next == \/ \E t \in AppTask : TaskStep(t)
        \/ \E m \in SetMask : Set(m) \/ Clear(m) \/ SetAutoClear(m)
        \/ Skip \/ HandOut \/ SetEnd \/ DestroyNext \/ DestroyEnd
        \/ EnterIsr \/ ReturnFromIsr \/ Tick \/ WakeDue \/ TickReturn \/ PendSV

Spec == Init /\ [][Next]_vars

-----------------------------------------------------------------------------
(* Properties.                                                              *)

TypeOK ==
  /\ k \in Kernel
  /\ ev \in [valid : BOOLEAN, value : SUBSET Bit, auto : SUBSET Bit,
             waiters : Seq(AppTask)]
  /\ at \in [AppTask -> At]
  /\ ask \in [AppTask -> Wish]
  /\ bits \in [AppTask -> SUBSET Bit]
  /\ info \in [AppTask -> BOOLEAN]
  /\ pass \in [loop : {"none", "set", "destroy"}, set : SUBSET Bit,
               next : Nat \ {0}, from : Seq(AppTask)]
  /\ made \in 0 .. MaxCreations

\* WAITING_TASKS, the states of the tasks, their places in the calls and the
\* kernel's queues agree, also in the middle of the loops.
WaitersAgree ==
  /\ TypeOK
  /\ QueuesAgree(k) /\ NoneAbove(k)
  /\ IsInjective(ev.waiters)
  /\ ToSet(ev.waiters) = {t \in AppTask : k.state[t] = "LWEVENT_BLOCKED"}
  /\ \A t \in AppTask :
       /\ t \in ToSet(ev.waiters) => at[t] \in Blocked
       /\ at[t] \in Blocked => t \in ToSet(ev.waiters) \/ IsReady(k, t)

\* No task waits for bits that are set: bits a loop hands out shrink while it
\* goes on, and waits, sets, clears and timeouts leave no one behind.
NoneMissed ==
  pass.loop # "set" =>
    \A t \in ToSet(ev.waiters) : ~Satisfied(ask[t], ev.value)

\* Who is served, and by which bits, is what module EventGroup allows.  For
\* the abstract event a set takes place when the loop ends, a destruction
\* when it begins.
AbstractQueue == IF pass.loop = "none" THEN ev.waiters
                 ELSE IF pass.loop = "set" THEN pass.from ELSE <<>>
Place(t) ==
  IF at[t] \in Outcome THEN at[t]
  ELSE IF t \in ToSet(AbstractQueue) THEN "waiting"
  ELSE IF info[t] THEN "left" ELSE "granted"
AbstractCall == [t \in AppTask |-> Place(t)]
AbstractSignals ==
  [t \in AppTask |-> IF Place(t) \in {"granted", "ok"} THEN bits[t] ELSE {}]
Abstract == INSTANCE EventGroup WITH
  Client    <- AppTask,
  exists    <- ev.valid,
  value     <- ev.value,
  auto      <- ev.auto,
  queue     <- AbstractQueue,
  wish      <- ask,
  signalled <- AbstractSignals,
  call      <- AbstractCall
ImplementsEventGroup == Abstract!Spec
=============================================================================
