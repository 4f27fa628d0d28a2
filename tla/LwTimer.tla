------------------------------ MODULE LwTimer ------------------------------
(***************************************************************************)
(* One periodic queue of lightweight timers (lwtimer.c): a task and the    *)
(* functions of the timers add and cancel timers and cancel the queue,     *)
(* while the tick handler walks along it.                                  *)
(*                                                                         *)
(* The handler calls a timer's function between reading two links of the   *)
(* queue, and the function may change the queue.  A timer that was removed *)
(* keeps its links, and the handler goes on from there when the function   *)
(* removed its own timer: stale keeps that link.                           *)
(*                                                                         *)
(* The handler runs with interrupts enabled.  Handlers of a higher         *)
(* priority are taken not to use the queue.                                *)
(***************************************************************************)
EXTENDS Integers, Sequences, SequencesExt

CONSTANTS Timer,            \* the timers
          Anchor,           \* &period_ptr->TIMERS as an element of the queue
          Nobody,           \* no timer
          Period,           \* LWTIMER_PERIOD_STRUCT.PERIOD
          Waits,            \* values of wait_ticks
          TaskCancels,      \* the timers the task cancels
          FunctionCancels,  \* the timers which functions of timers cancel
          MaxCalls,         \* bound on the calls a function makes
          MaxQueues         \* bound on the creations of the queue

ASSUME LwTimerAssumption ==
  /\ Anchor \notin Timer /\ Nobody \notin Timer
  /\ Period \in Nat \ {0} /\ Waits \subseteq Nat
  \* VALID is checked before interrupts are disabled: nobody cancels what
  \* the other one may have cancelled in between.
  /\ TaskCancels \cup FunctionCancels \subseteq Timer
  /\ TaskCancels \cap FunctionCancels = {}
  /\ MaxCalls \in Nat /\ MaxQueues \in Nat

VARIABLES
  period,   \* VALID, EXPIRY, WAIT
  timers,   \* TIMERS
  last,     \* TIMER_PTR
  ticks,    \* RELATIVE_TICKS of each timer
  stale,    \* LINK.NEXT of each timer that is off the queue
  at,       \* where _lwtimer_isr_internal is
  cur,      \* its timer_ptr
  calls,    \* calls the running function may still make
  checked,  \* the timer the task is about to cancel, its VALID checked
  made,     \* creations so far
  fired,    \* history: calls of each timer's function since the period
            \* began or the timer was added
  young,    \* history: timers added since the period began
  late      \* history: those added after their offset had gone by

queue   == <<period, timers, last, ticks, stale>>
isr     == <<at, cur, calls>>
history == <<fired, young, late>>
vars    == <<queue, isr, checked, made, history>>

Element == Timer \cup {Anchor}

Init ==
  /\ period = [valid |-> FALSE, expiry |-> 0, wait |-> 0]
  /\ timers = <<>> /\ last = Anchor
  /\ ticks = [t \in Timer |-> 0]
  /\ stale = [t \in Timer |-> Anchor]
  /\ at = "idle" /\ cur = Anchor /\ calls = 0
  /\ checked = Nobody /\ made = 0
  /\ fired = [t \in Timer |-> 0] /\ young = {} /\ late = {}

Queued == ToSet(timers)
Place(t) == CHOOSE i \in 1 .. Len(timers) : timers[i] = t

\* LINK.NEXT and LINK.PREV
Successor(e) ==
  LET i == IF e = Anchor THEN 0 ELSE Place(e)
  IN IF e # Anchor /\ e \notin Queued THEN stale[e]
     ELSE IF i = Len(timers) THEN Anchor ELSE timers[i + 1]
Predecessor(t) == IF Place(t) = 1 THEN Anchor ELSE timers[Place(t) - 1]

-----------------------------------------------------------------------------
(* Calls of the task and of the functions.                                  *)

TaskCalls     == at = "idle" /\ checked = Nobody /\ UNCHANGED isr
FunctionCalls ==
  /\ at = "function" /\ calls > 0
  /\ calls' = calls - 1
  /\ UNCHANGED <<at, cur>>

Create(w) ==                            \* _lwtimer_create_periodic_queue
  /\ TaskCalls
  /\ ~period.valid /\ made < MaxQueues
  /\ period' = [valid |-> TRUE, expiry |-> 0, wait |-> w]
  /\ timers' = <<>> /\ last' = Anchor
  /\ made' = made + 1
  /\ fired' = [t \in Timer |-> 0] /\ young' = {} /\ late' = {}
  /\ UNCHANGED <<ticks, stale, checked>>

Position_BehindEquals(n) ==                                  \* mutant
  Min({i \in 1 .. Len(timers) : ticks[timers[i]] > n} \cup {Len(timers) + 1})

Position_Last(n) == Len(timers) + 1                          \* mutant

\* Before the first timer whose offset is not smaller.
Position(n) ==
  Min({i \in 1 .. Len(timers) : ticks[timers[i]] >= n} \cup {Len(timers) + 1})

Add(t, n) ==                            \* _lwtimer_add_timer_to_queue
  /\ period.valid /\ t \notin Queued
  /\ ticks' = [ticks EXCEPT ![t] = n]
  /\ timers' = InsertAt(timers, Position(n), t)
  /\ fired' = [fired EXCEPT ![t] = 0]
  /\ young' = young \cup {t}
  /\ late' = IF n < period.expiry THEN late \cup {t} ELSE late \ {t}
  /\ UNCHANGED <<period, last, stale, checked, made>>

\* mutant: the place where the handler goes on is not looked at
Removal_ForgetsLast(t) ==
  /\ timers' = RemoveAt(timers, Place(t))
  /\ stale' = [stale EXCEPT ![t] = Successor(t)]
  /\ UNCHANGED last

Removal(t) ==
  /\ timers' = RemoveAt(timers, Place(t))
  /\ stale' = [stale EXCEPT ![t] = Successor(t)]
  /\ last' = IF last = t THEN Predecessor(t) ELSE last

\* _lwtimer_cancel_timer past the first check; a timer of a cancelled queue
\* is left alone.
Cancel(t) ==
  /\ IF period.valid THEN Removal(t) ELSE UNCHANGED <<timers, stale, last>>
  /\ UNCHANGED <<period, ticks, made, history>>

TaskChecks(t) ==
  /\ TaskCalls
  /\ t \in Queued \cap TaskCancels
  /\ checked' = t
  /\ UNCHANGED <<queue, made, history>>

TaskCancel ==
  /\ at = "idle" /\ checked # Nobody
  /\ Cancel(checked)
  /\ checked' = Nobody
  /\ UNCHANGED isr

\* A function that cancels its own timer does so last: the handler goes on
\* from a link the timer would otherwise get anew.
FunctionCancel(t) ==
  /\ at = "function" /\ calls > 0
  /\ t \in Queued \cap FunctionCancels
  /\ Cancel(t)
  /\ calls' = IF t = cur THEN 0 ELSE calls - 1
  /\ UNCHANGED <<at, cur, checked>>

CancelPeriod ==                         \* _lwtimer_cancel_period
  /\ period.valid
  /\ period' = [period EXCEPT !.valid = FALSE]
  /\ UNCHANGED <<timers, last, ticks, stale, checked, made, history>>

TaskStep ==
  \/ \E w \in Waits : Create(w)
  \/ \E t \in Timer : TaskChecks(t)
  \/ TaskCancel
  \/ TaskCalls /\ \E t \in Timer, n \in 0 .. Period - 1 : Add(t, n)
  \/ TaskCalls /\ CancelPeriod

FunctionStep ==
  \/ FunctionCalls /\ \E t \in Timer, n \in 0 .. Period - 1 : Add(t, n)
  \/ \E t \in Timer : FunctionCancel(t)
  \/ FunctionCalls /\ CancelPeriod

-----------------------------------------------------------------------------
(* _lwtimer_isr_internal, called by the tick handler.                       *)

Tick ==
  /\ at = "idle" /\ period.valid
  /\ \/ /\ period.wait > 0
        /\ period' = [period EXCEPT !.wait = @ - 1]
        /\ UNCHANGED isr
     \/ /\ period.wait = 0
        /\ at' = "scan" /\ cur' = Successor(last)
        /\ UNCHANGED <<period, calls>>
  /\ UNCHANGED <<timers, last, ticks, stale, checked, made, history>>

IsDue_Early(e) == e # Anchor /\ ticks[e] <= period.expiry + 1  \* mutant
IsDue(e) == e # Anchor /\ ticks[e] <= period.expiry

Processed(t) == t

CallFunction ==
  /\ at = "scan"
  /\ IsDue(cur)
  /\ last' = Processed(cur)
  /\ at' = "function" /\ calls' = MaxCalls
  /\ fired' = [fired EXCEPT ![cur] = @ + 1]
  /\ UNCHANGED <<period, timers, ticks, stale, cur, checked, made, young, late>>

Return ==
  /\ at = "function"
  /\ at' = "scan" /\ cur' = Successor(cur) /\ calls' = 0
  /\ UNCHANGED <<queue, checked, made, history>>

Elapsed == period.expiry + 1 = Period

AtStart_Stays == last                                        \* mutant
AtStart == Anchor

EndScan ==
  /\ at = "scan"
  /\ ~IsDue(cur)
  /\ at' = "idle" /\ cur' = Anchor
  /\ IF Elapsed
     THEN /\ period' = [period EXCEPT !.expiry = 0]
          /\ last' = AtStart
          /\ fired' = [t \in Timer |-> 0] /\ young' = {} /\ late' = {}
     ELSE /\ period' = [period EXCEPT !.expiry = @ + 1]
          /\ UNCHANGED <<last, history>>
  /\ UNCHANGED <<timers, ticks, stale, calls, checked, made>>

IsrStep == CallFunction \/ Return \/ EndScan

Next == TaskStep \/ FunctionStep \/ Tick \/ IsrStep

Spec == Init /\ [][Next]_vars

\* The handler's own instructions are executed.
FairSpec == Spec /\ WF_vars(IsrStep)

-----------------------------------------------------------------------------
(* Properties.                                                              *)

\* Type invariant.
TypeOK ==
  /\ period \in [valid : BOOLEAN, expiry : 0 .. Period - 1, wait : Nat]
  /\ timers \in Seq(Timer) /\ IsInjective(timers)
  /\ last \in Element /\ cur \in Element
  /\ ticks \in [Timer -> 0 .. Period - 1]
  /\ stale \in [Timer -> Element]
  /\ at \in {"idle", "scan", "function"}
  /\ calls \in 0 .. MaxCalls
  /\ checked \in Timer \cup {Nobody}
  /\ made \in 0 .. MaxQueues
  /\ fired \in [Timer -> Nat]
  /\ young \in SUBSET Timer /\ late \in SUBSET young

\* The timers stand in the order of their offsets, whoever adds them at
\* whatever moment: the handler stops at the first one not yet due.
Sorted ==
  /\ TypeOK
  /\ \A i, j \in 1 .. Len(timers) :
       i < j => ticks[timers[i]] <= ticks[timers[j]]

\* A function is called at its timer's offset, at no other tick unless the
\* timer was added after that, and never twice in a period, although timers
\* are added in front of TIMER_PTR and the one it points to is cancelled.
OnTime ==
  /\ at = "function" => \/ period.expiry = ticks[cur]
                        \/ cur \in late \/ cur \notin Queued
  /\ \A t \in Timer : fired[t] <= 1

\* Whenever a period ends, every timer that was on the queue all through it
\* has been called.
NoneSkipped ==
  [][period.valid /\ period'.valid /\ at = "scan" /\ at' = "idle" /\ period'.expiry = 0 =>
       \A t \in Queued \ young : fired[t] = 1]_vars

\* No function of a timer is called that has been cancelled.
NoGhost == [][at = "scan" /\ at' = "function" => cur \in Queued]_vars

\* The tick handler comes to an end, although functions add timers to the
\* queue it walks along and cancel others: the handler does not run in
\* circles.
TickEnds == (at # "idle") ~> (at = "idle")
=============================================================================
