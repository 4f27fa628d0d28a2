----------------------------- MODULE SchedProofs -----------------------------
(***************************************************************************)
(* The proofs about the two components at either end of the system: the    *)
(* scheduler (Sched), on which all else runs, and the point-to-point       *)
(* protocol (PppFsm), which runs on top.  They share no name, so one       *)
(* module can extend both.                                                 *)
(*                                                                         *)
(* Scheduler.  For every set of tasks, every number of priorities and      *)
(* every nesting of interrupts: the scheduler's queues stay consistent,    *)
(* the most urgent ready task executes, delays end in time and tasks of    *)
(* one priority run in turn. The inductive invariant is Basic and Settled  *)
(* of KernelProofs; the tick handler only runs inside an interrupt.        *)
(***************************************************************************)
EXTENDS Sched, PppFsm, KernelProofs, FiniteSetTheorems

IInv == Basic(k) /\ Settled(k) /\ (k.ticking => k.isr > 0)

\* The initial record satisfies the invariant.
LEMMA InitLemma == Init => IInv
<1> SUFFICES ASSUME Init PROVE IInv
  OBVIOUS
<1> DEFINE h == HomePriority
<1>1. /\ h \in [Task -> Prio] /\ Idle \in Task
      /\ LowestTaskPriority \in Nat
  BY KernelAssumption, SchedAssumption
<1>2. k \in Kernel
  BY <1>1 DEF Init, InitKernel, Kernel, State
<1>3. /\ k.ready = [p \in Prio |-> IF p = h[Idle] THEN <<Idle>> ELSE <<>>]
      /\ k.my = h /\ k.timeouts = <<>>
      /\ k.timed = [t \in Task |-> FALSE]
      /\ k.state = [t \in Task |-> IF t = Idle THEN "READY" ELSE "BLOCKED"]
      /\ k.current = h[Idle] /\ k.active = Idle /\ k.pend = FALSE
      /\ k.ticking = FALSE
  BY DEF Init, InitKernel
<1> HIDE DEF h
<1>4. \A t \in Task : IsReady(k, t) <=> t = Idle
  BY <1>3 DEF IsReady
<1>5. ToSet(<<>>) = {} /\ ToSet(<<Idle>>) = {Idle}
  BY DEF ToSet
<1>6. Inj(<<>>) /\ Inj(<<Idle>>)
  BY DEF Inj
<1>7. Agree(k, {})
  BY <1>1, <1>3, <1>4, <1>5, <1>6 DEF Agree
<1>8. NoneAbove(k)
  BY <1>1, <1>3 DEF NoneAbove, Prio
<1> QED
  BY <1>1, <1>2, <1>3, <1>4, <1>7, <1>8 DEF IInv, Basic, Settled

\* What a step that finds the active task executing may assume.
LEMMA RunsLemma ==
  ASSUME IInv, NEW t \in AppTask, Runs(k, t)
  PROVE  /\ k \in Kernel /\ Basic(k) /\ Settled(k) /\ IsReady(k, t)
         /\ t \in Task /\ t # Idle /\ k.active = t /\ k.isr = 0 /\ ~k.pend
         /\ ~k.ticking
BY DEF IInv, Basic, Settled, Runs, AppTask

\* Changing a priority moves the task between ready queues only.
LEMMA SetPriorityEffect ==
  ASSUME NEW c \in Kernel, NEW x \in Task, NEW p \in Prio
  PROVE  LET d == TaskSetPriority(c, x, p)
         IN  /\ d.timeouts = c.timeouts /\ d.left = c.left
             /\ d.ticking = c.ticking
<1> DEFINE Kept(d) == /\ {"timeouts", "left", "ticking"} \subseteq DOMAIN d
                      /\ d.timeouts = c.timeouts /\ d.left = c.left
                      /\ d.ticking = c.ticking
           h == [c EXCEPT !.home[x] = p]
           m == [h EXCEPT !.my[x] = p]
           u == Unlink(m, x, h.my[x])
           r == TaskReady(u, x)
           i == SetPriorityInternal(h, x, p)
<1>1. ASSUME NEW d, Kept(d)
      PROVE  Kept(Dispatch(d))
  BY <1>1 DEF Dispatch
<1>2. ASSUME NEW d, Kept(d)
      PROVE  Kept(CheckRunScheduler(d))
  BY <1>1, <1>2 DEF CheckRunScheduler
<1>3. Kept(h)
  BY DEF Kernel
<1> HIDE DEF h
<1>4. Kept(m)
  BY <1>3
<1> HIDE DEF m
<1>5. Kept(u)
  BY <1>4 DEF Unlink
<1> HIDE DEF u
<1>6. Kept(r)
  BY <1>5 DEF TaskReady
<1>7. i = m \/ i = r \/ i = Dispatch(r)
  BY DEF SetPriorityInternal, r, u, m
<1> HIDE DEF r, i, Kept
<1>8. Kept(i)
  BY <1>1, <1>4, <1>6, <1>7
<1>9. TaskSetPriority(c, x, p) \in {CheckRunScheduler(h), CheckRunScheduler(i)}
  BY DEF TaskSetPriority, h, i
<1> QED
  BY <1>2, <1>3, <1>8, <1>9 DEF Kept

LEMMA TaskStepLemma ==
  ASSUME IInv, NEW t \in AppTask, TaskStep(t)
  PROVE  IInv'
<1>0. Runs(k, t)
  BY DEF TaskStep, Yield, Block, Sleep, Ready, CancelDelay, SetPriority,
         StopPreemption, StartPreemption
<1>1. /\ k \in Kernel /\ Basic(k) /\ Settled(k) /\ IsReady(k, t)
      /\ t \in Task /\ t # Idle /\ k.active = t /\ k.isr = 0 /\ ~k.pend
      /\ ~k.ticking
  BY <1>0, RunsLemma
<1> SUFFICES Basic(k') /\ Settled(k') /\ k'.ticking = FALSE
  BY DEF IInv, Basic, Settled, Agree, NoneAbove, IsReady
<1>2. ASSUME NEW d \in Kernel
      PROVE  /\ Dispatch(d).ticking = d.ticking
             /\ CheckRunScheduler(d).ticking = d.ticking
             /\ PendScheduler(d).ticking = d.ticking
  BY DEF Dispatch, CheckRunScheduler, PendScheduler, Kernel
<1>3. CASE Yield(t)
  <2> DEFINE u == Unlink(k, t, k.my[t])
  <2>1. u \in Kernel /\ Agree(u, {t}) /\ NoneAbove(u)
    BY <1>1, UnlinkLemma DEF Basic
  <2>2. u.timed = k.timed /\ u.ticking = k.ticking
    BY <1>1 DEF Unlink, Kernel
  <2>3. ~u.timed[t]
    BY <1>1, <2>2 DEF IsReady
  <2> HIDE DEF u
  <2> DEFINE r == TaskReady(u, t)
  <2>4. r \in Kernel /\ Agree(r, {}) /\ NoneAbove(r)
    BY <1>1, <2>1, <2>3, TaskReadyLemma
  <2>5. /\ r.ticking = u.ticking /\ r.timed = u.timed
        /\ r.state = [u.state EXCEPT ![t] = "READY"]
    BY <2>1 DEF TaskReady, Kernel
  <2>6. u.state = k.state /\ k.state \in [Task -> State]
    BY <1>1 DEF Unlink, Kernel, u
  <2>7. IsReady(r, Idle)
    BY <1>1, <2>2, <2>5, <2>6, KernelAssumption DEF Basic, IsReady
  <2> HIDE DEF r
  <2>8. Basic(Dispatch(r)) /\ Settled(Dispatch(r))
    BY <2>4, <2>7, DispatchLemma DEF Basic
  <2> QED
    BY <1>1, <1>2, <1>3, <2>2, <2>4, <2>5, <2>8 DEF Yield, r, u
<1>4. CASE Block(t)
  <2> DEFINE u == Unlink(k, t, k.my[t])
             d == [u EXCEPT !.state[t] = "BLOCKED", !.pend = TRUE]
  <2>1. u \in Kernel /\ Agree(u, {t}) /\ NoneAbove(u)
    BY <1>1, UnlinkLemma DEF Basic
  <2>2. u.timed = k.timed /\ u.state = k.state /\ u.ticking = k.ticking
    BY <1>1 DEF Unlink, Kernel
  <2>3. k' = d
    BY <1>4 DEF Block, TaskBlock
  <2> HIDE DEF u
  <2>4. /\ d \in Kernel /\ d.ready = u.ready /\ d.timed = u.timed
        /\ d.timeouts = u.timeouts /\ d.my = u.my /\ d.current = u.current
        /\ d.pend = TRUE /\ d.ticking = u.ticking
        /\ d.state = [u.state EXCEPT ![t] = "BLOCKED"]
    BY <1>1, <2>1 DEF Kernel, State
  <2> HIDE DEF d
  <2>5. u.state \in [Task -> State]
    BY <2>1 DEF Kernel
  <2>6. \A v \in Task : IsReady(d, v) <=> v # t /\ IsReady(u, v)
    BY <1>1, <2>4, <2>5 DEF IsReady
  <2>7. ~d.timed[t]
    BY <1>1, <2>2, <2>4 DEF IsReady
  <2>8. Agree(d, {}) /\ NoneAbove(d)
    BY <2>1, <2>4, <2>6, <2>7 DEF Agree, NoneAbove
  <2>9. IsReady(d, Idle)
    BY <1>1, <2>2, <2>6, KernelAssumption DEF Basic, IsReady
  <2> QED
    BY <1>1, <2>2, <2>3, <2>4, <2>8, <2>9 DEF Basic, Settled
<1>5. ASSUME NEW n \in 0 .. MaxDelay, Sleep(t, n)
      PROVE  Basic(k') /\ Settled(k') /\ k'.ticking = FALSE
  <2>1. n \in Int
    BY SchedAssumption
  <2>2. Delay(k, t, n) \in Kernel /\ Basic(Delay(k, t, n))
    BY <1>1, <2>1, DelayLemma
  <2>3. Delay(k, t, n).ticking = k.ticking
    BY <1>1 DEF Delay, Unlink, Kernel
  <2> QED
    BY <1>1, <1>2, <1>5, <2>2, <2>3, DispatchLemma DEF Sleep
<1>6. ASSUME NEW u \in AppTask, Ready(t, u)
      PROVE  Basic(k') /\ Settled(k') /\ k'.ticking = FALSE
  <2> DEFINE r == TaskReady(k, u)
  <2>1. u \in Task /\ ~k.timed[u] /\ ~IsReady(k, u)
    BY <1>6 DEF Ready, AppTask, IsReady
  <2>2. Agree(k, {u})
    BY <1>1, <2>1, UnlinkedLemma DEF Basic
  <2>3. r \in Kernel /\ Agree(r, {}) /\ NoneAbove(r)
    BY <1>1, <2>1, <2>2, TaskReadyLemma DEF Basic
  <2>4. /\ r.timed = k.timed /\ r.state = [k.state EXCEPT ![u] = "READY"]
        /\ r.active = k.active /\ r.isr = k.isr /\ r.ticking = k.ticking
        /\ k.state \in [Task -> State]
    BY <1>1 DEF TaskReady, Kernel
  <2> HIDE DEF r
  <2>5. IsReady(r, Idle) /\ IsReady(r, r.active)
    BY <1>1, <2>1, <2>4, KernelAssumption DEF Basic, IsReady
  <2>6. Basic(PendScheduler(r)) /\ Settled(PendScheduler(r))
    BY <1>1, <2>3, <2>4, <2>5, PendSchedulerLemma DEF Basic
  <2> QED
    BY <1>1, <1>2, <1>6, <2>3, <2>4, <2>6 DEF Ready, r
<1>7. ASSUME NEW u \in AppTask, CancelDelay(t, u)
      PROVE  Basic(k') /\ Settled(k') /\ k'.ticking = FALSE
  <2>1. TimeDequeue(k, u).ticking = k.ticking
    BY <1>1 DEF TimeDequeue, Kernel
  <2> QED
    BY <1>1, <1>7, <2>1, TimeDequeueLemma DEF CancelDelay, AppTask
<1>8. ASSUME NEW u \in AppTask, NEW p \in AppPrio, SetPriority(t, u, p)
      PROVE  Basic(k') /\ Settled(k') /\ k'.ticking = FALSE
  <2>1. u \in Task /\ p \in Prio
    BY KernelAssumption DEF AppTask, AppPrio, Prio
  <2>2. Basic(TaskSetPriority(k, u, p)) /\ Settled(TaskSetPriority(k, u, p))
    BY <1>1, <2>1, TaskSetPriorityLemma
  <2>3. TaskSetPriority(k, u, p).ticking = k.ticking
    BY <1>1, <2>1, SetPriorityEffect
  <2> QED
    BY <1>1, <1>8, <2>2, <2>3 DEF SetPriority
<1>9. CASE StopPreemption(t)
  <2>1. k' = [k EXCEPT !.nopreempt[t] = TRUE]
    BY <1>9 DEF StopPreemption
  <2>2. /\ k' \in Kernel /\ k'.ready = k.ready /\ k'.state = k.state
        /\ k'.timed = k.timed /\ k'.my = k.my /\ k'.timeouts = k.timeouts
        /\ k'.current = k.current /\ k'.active = t /\ k'.pend = k.pend
        /\ k'.ticking = k.ticking /\ k'.nopreempt[t] = TRUE
    BY <1>1, <2>1 DEF Kernel
  <2> QED
    BY <1>1, <2>2 DEF Basic, Settled, Agree, IsReady, NoneAbove
<1>10. CASE StartPreemption(t)
  <2> DEFINE d == [k EXCEPT !.nopreempt[t] = FALSE]
  <2>1. /\ d \in Kernel /\ d.ready = k.ready /\ d.state = k.state
        /\ d.timed = k.timed /\ d.my = k.my /\ d.timeouts = k.timeouts
        /\ d.current = k.current /\ d.active = t /\ d.pend = k.pend
        /\ d.ticking = k.ticking /\ d.isr = 0
    BY <1>1 DEF Kernel
  <2> HIDE DEF d
  <2>2. Basic(d) /\ IsReady(d, d.active)
    BY <1>1, <2>1 DEF Basic, Agree, IsReady, NoneAbove
  <2>3. Basic(CheckRunScheduler(d)) /\ Settled(CheckRunScheduler(d))
    BY <1>1, <2>1, <2>2, CheckRunSchedulerLemma
  <2>4. CheckRunScheduler(d).ticking = FALSE
    BY <1>1, <1>2, <2>1
  <2>5. k' = CheckRunScheduler(d)
    BY <1>10 DEF StartPreemption, d
  <2> QED
    BY <2>3, <2>4, <2>5
<1> QED
  BY <1>3, <1>4, <1>5, <1>6, <1>7, <1>8, <1>9, <1>10 DEF TaskStep

\* Handlers and the tick loop.
LEMMA IsrStepLemma ==
  ASSUME IInv, IsrStep
  PROVE  IInv'
<1>1. k \in Kernel /\ Basic(k) /\ Settled(k)
  BY DEF IInv, Basic
<1>2. CASE EnterIsr
  <2>1. k.isr \in Nat
    BY <1>1 DEF Kernel
  <2> QED
    BY <1>1, <1>2, <2>1, IsrEntryLemma DEF EnterIsr, IInv
<1>3. CASE ReturnFromIsr
  <2>1. k'.ticking = FALSE
    BY <1>1, <1>3 DEF ReturnFromIsr, IsrReturn, Kernel
  <2> QED
    BY <1>1, <1>3, <2>1, IsrReturnLemma DEF ReturnFromIsr, IInv
<1>4. ASSUME NEW u \in AppTask, IsrReady(u)
      PROVE  IInv'
  <2>1. u \in Task /\ ~IsReady(k, u) /\ ~k.timed[u] /\ k.isr > 0
    BY <1>4 DEF IsrReady, IsReady, AppTask
  <2>2. Agree(k, {u})
    BY <1>1, <2>1, UnlinkedLemma DEF Basic
  <2>3. Basic(TaskReady(k, u)) /\ Settled(TaskReady(k, u))
    BY <1>1, <2>1, <2>2, IsrReadyLemma DEF Basic, Settled
  <2>4. TaskReady(k, u).isr = k.isr
    BY <1>1 DEF TaskReady, Kernel
  <2> QED
    BY <1>4, <2>1, <2>3, <2>4 DEF IInv, IsrReady
<1>5. CASE Tick
  <2>1. TickStart(k).isr = k.isr
    BY <1>1 DEF TickStart, Kernel
  <2> QED
    BY <1>1, <1>5, <2>1, TickStartLemma DEF Tick, IInv
<1>6. CASE WakeDue
  <2>1. k.isr > 0 /\ k.timeouts # <<>> /\ k' = TickWake(k)
    BY <1>6 DEF WakeDue, Due, IInv
  <2>2. TickWake(k).isr = k.isr
    BY <1>1 DEF TickWake, TaskReady, Kernel
  <2> QED
    BY <1>1, <2>1, <2>2, TickWakeLemma DEF IInv
<1>7. CASE TickReturn
  BY <1>1, <1>7, TickEndLemma DEF TickReturn, IInv
<1> QED
  BY <1>2, <1>3, <1>4, <1>5, <1>6, <1>7 DEF IsrStep

\* The delayed switch; a pending PendSV excludes the tick loop, which runs
\* in a handler.
LEMMA PendSVLemma ==
  ASSUME IInv, PendSV
  PROVE  IInv'
<1>1. k \in Kernel /\ Basic(k) /\ k.isr = 0 /\ k' = Dispatch(k)
  BY DEF IInv, Basic, PendSV
<1>2. Dispatch(k).ticking = k.ticking /\ k.ticking = FALSE
  BY <1>1 DEF Dispatch, Kernel, IInv
<1> QED
  BY <1>1, <1>2, DispatchLemma DEF IInv

\* The invariant the properties below follow from.
LEMMA Inductive == Spec => []IInv
<1>1. Init => IInv
  BY InitLemma
<1>2. IInv /\ [Next]_k => IInv'
  <2> SUFFICES ASSUME IInv, [Next]_k PROVE IInv'
    OBVIOUS
  <2>1. CASE UNCHANGED k
    BY <2>1 DEF IInv, Basic, Settled, Agree, IsReady, NoneAbove
  <2>2. CASE Next
    BY <2>2, TaskStepLemma, IsrStepLemma, PendSVLemma DEF Next
  <2> QED
    BY <2>1, <2>2
<1> QED
  BY <1>1, <1>2, PTL DEF Spec

\* Every step of the kernel leaves a well-typed kernel record.
THEOREM TypeCorrect == Spec => []TypeOK
<1>1. IInv => TypeOK
  BY DEF IInv, Basic, TypeOK
<1> QED
  BY <1>1, Inductive, PTL

\* The ready queues, TIMEOUT_QUEUE and the task descriptors always agree.
THEOREM QueuesConsistent == Spec => []Consistent
<1>1. IInv => Consistent
  BY AgreeLemma DEF IInv, Basic, Consistent, TypeOK, SearchComplete
<1> QED
  BY <1>1, Inductive, PTL

\* No ready task hides from the dispatcher above CURRENT_READY_Q.
THEOREM NoReadyTaskMissed == Spec => []SearchComplete
<1>1. IInv => SearchComplete
  BY DEF IInv, Basic, SearchComplete
<1> QED
  BY <1>1, Inductive, PTL

\* A task that allows preemption only executes while no ready task is more
\* urgent.
THEOREM MostUrgentRuns == Spec => []RunsHighest
<1>1. IInv => RunsHighest
  <2> SUFFICES ASSUME IInv, NEW t \in Task, Runs(k, t), ~k.nopreempt[t]
               PROVE  /\ IsReady(k, t)
                      /\ \A u \in Task : IsReady(k, u) => k.my[t] <= k.my[u]
    BY DEF RunsHighest
  <2>1. /\ k \in Kernel /\ Agree(k, {}) /\ NoneAbove(k)
        /\ IsReady(k, t) /\ k.my[t] = k.current
    BY DEF IInv, Basic, Settled, Runs
  <2>2. ASSUME NEW u \in Task, IsReady(k, u)
        PROVE  k.my[t] <= k.my[u]
    <3>1. k.my[u] \in Prio /\ u \in ToSet(k.ready[k.my[u]])
      BY <2>1, <2>2 DEF Agree, Kernel
    <3>2. k.ready[k.my[u]] # <<>>
      BY <3>1 DEF ToSet
    <3> QED
      BY <2>1, <3>1, <3>2 DEF NoneAbove
  <2> QED
    BY <2>1, <2>2
<1> QED
  BY <1>1, Inductive, PTL

-----------------------------------------------------------------------------
(* TIMEOUT_QUEUE is sorted by deadline, so the tick wakes in time.          *)

\* A delay that ends with this tick is below 0 until the loop reaches it.
Deadlines(d) == Timely(d.timeouts, d.left, IF d.ticking THEN -1 ELSE 0)

\* TIMEOUT_QUEUE and its deadlines stay as they are.
SameDelays(d, c) ==
  d.timeouts = c.timeouts /\ d.left = c.left /\ d.ticking = c.ticking

LEMMA SameDelaysLemma ==
  ASSUME NEW c, NEW d, Deadlines(c), SameDelays(d, c)
  PROVE  Deadlines(d)
BY DEF Deadlines, SameDelays

\* MQX_DELAY_ENQUEUE_POLICY: what is in front of the place is due earlier,
\* what is behind is not.
LEMMA InsertPosEffect ==
  ASSUME NEW d \in Kernel, NEW n \in Int, NEW low, Timely(d.timeouts, d.left, low)
  PROVE  \A i \in 1 .. Len(d.timeouts) :
           IF i < InsertPos(d, n) THEN d.left[d.timeouts[i]] < n
           ELSE d.left[d.timeouts[i]] >= n
<1>1. PICK q \in Seq(Task), l \in [Task -> Int] : q = d.timeouts /\ l = d.left
  BY DEF Kernel
<1>2. Later(d, n) = {i \in 1 .. Len(q) : l[q[i]] >= n}
  BY <1>1 DEF Later
<1>3. \A i \in 1 .. Len(q) : l[q[i]] \in Int
  OBVIOUS
<1>4. PICK p : p = InsertPos(d, n)
  OBVIOUS
<1>5. CASE Later(d, n) = {}
  <2>1. p = Len(q) + 1
    BY <1>1, <1>4, <1>5 DEF InsertPos
  <2>2. \A i \in 1 .. Len(q) : i < p /\ l[q[i]] < n
    BY <1>2, <1>3, <1>5, <2>1
  <2> QED
    BY <1>1, <1>4, <2>2
<1>6. CASE Later(d, n) # {}
  <2>1. Later(d, n) \in SUBSET Nat /\ p = Min(Later(d, n))
    BY <1>2, <1>4, <1>6 DEF InsertPos
  <2>2. p \in Later(d, n) /\ \A x \in Later(d, n) : p <= x
    BY <1>6, <2>1, MinLemma
  <2>3. p \in 1 .. Len(q) /\ l[q[p]] >= n
    BY <1>2, <2>2
  <2>4. ASSUME NEW i \in 1 .. Len(q)
        PROVE  IF i < p THEN l[q[i]] < n ELSE l[q[i]] >= n
    <3>1. CASE i < p
      BY <1>2, <1>3, <2>2, <2>3, <3>1
    <3>2. CASE i >= p
      <4>1. l[q[p]] <= l[q[i]]
        BY <1>1, <1>3, <2>3, <3>2 DEF Timely
      <4> QED
        BY <1>3, <2>3, <3>2, <4>1
    <3> QED
      BY <2>3, <3>1, <3>2
  <2> QED
    BY <1>1, <1>4, <2>4
<1> QED
  BY <1>5, <1>6

\* _time_delay_internal puts the task where its deadline belongs.
LEMMA DelayTimely ==
  ASSUME NEW c \in Kernel, Basic(c), Deadlines(c), ~c.ticking, NEW t \in Task,
         IsReady(c, t), NEW n \in Nat
  PROVE  Deadlines(Delay(c, t, n))
<1> DEFINE d == Delay(c, t, n)
<1>1. PICK s \in Seq(Task), l \in [Task -> Int] :
        s = c.timeouts /\ l = [c.left EXCEPT ![t] = n]
  <2>1. c.timeouts \in Seq(Task) /\ c.left \in [Task -> Int] /\ n \in Int
    BY DEF Kernel
  <2> QED
    BY <2>1
<1>2. PICK p \in 1 .. Len(s) + 1 : p = InsertPos(c, n)
  BY <1>1, InsertPosLemma
<1>3. Inj(s) /\ t \notin ToSet(s) /\ l[t] = n /\ c.left \in [Task -> Int]
  BY <1>1 DEF Basic, Agree, IsReady, Kernel
<1>4. d.timeouts = InsertAt(s, p, t) /\ d.left = l /\ ~d.ticking
  BY <1>1, <1>2 DEF Delay, Unlink, Kernel
<1> HIDE DEF d
<1>5. Timely(s, c.left, 0)
  BY <1>1 DEF Deadlines
<1>6. \A i \in 1 .. Len(s) : s[i] \in Task /\ s[i] # t
  BY <1>3 DEF ToSet
<1>7. \A i \in 1 .. Len(s) : l[s[i]] = c.left[s[i]]
  BY <1>1, <1>3, <1>6
<1>8. Timely(s, l, 0)
  BY <1>5, <1>7, SameTimely
<1>9. \A i \in 1 .. Len(s) : IF i < p THEN c.left[s[i]] < n ELSE c.left[s[i]] >= n
  BY <1>1, <1>2, <1>5, InsertPosEffect
<1>10. Suits(s, l, p, t)
  BY <1>3, <1>6, <1>7, <1>9 DEF Suits
<1>11. PICK low \in Int : low = 0 /\ low <= l[t]
  BY <1>3
<1>12. Timely(s, l, low)
  BY <1>8, <1>11
<1>13. Timely(InsertAt(s, p, t), l, low)
  BY <1>3, <1>10, <1>11, <1>12, InsertTimely
<1> QED
  BY <1>4, <1>11, <1>13 DEF Deadlines, d

\* _TIME_DEQUEUE takes a task off TIMEOUT_QUEUE and forgets its deadline.
LEMMA DequeueTimely ==
  ASSUME NEW c \in Kernel, Basic(c), Deadlines(c), NEW t \in Task, c.timed[t]
  PROVE  Deadlines(TimeDequeue(c, t))
<1> DEFINE d == TimeDequeue(c, t)
<1>1. PICK s \in Seq(Task), l \in [Task -> Int] : s = c.timeouts /\ l = c.left
  BY DEF Kernel
<1>2. PICK low \in Int : low = IF c.ticking THEN -1 ELSE 0
  OBVIOUS
<1>3. Inj(s) /\ t \in ToSet(s) /\ Timely(s, l, low)
  BY <1>1, <1>2 DEF Basic, Agree, Deadlines
<1>4. /\ d.timeouts = Without(s, t) /\ d.left = [l EXCEPT ![t] = 0]
      /\ d.ticking = c.ticking
  BY <1>1 DEF TimeDequeue, Kernel
<1> HIDE DEF d
<1>5. PICK i \in 1 .. Len(s) : i = CHOOSE j \in 1 .. Len(s) : s[j] = t
  BY <1>3 DEF ToSet
<1>6. Without(s, t) = RemoveAt(s, i)
  BY <1>5 DEF Without
<1>7. Timely(Without(s, t), l, low)
  BY <1>3, <1>6, RemoveTimely
<1>8. PICK v : v = Without(s, t)
  OBVIOUS
<1>9. v \in Seq(Task) /\ t \notin ToSet(v)
  BY <1>3, <1>8, WithoutLemma
<1>10. \A j \in 1 .. Len(v) : v[j] \in Task /\ v[j] # t
  BY <1>9 DEF ToSet
<1>11. PICK m : m = [l EXCEPT ![t] = 0]
  OBVIOUS
<1>12. \A j \in 1 .. Len(v) : m[v[j]] = l[v[j]]
  BY <1>10, <1>11
<1>13. Timely(v, l, low)
  BY <1>7, <1>8
<1>14. Timely(v, m, low)
  BY <1>12, <1>13, SameTimely
<1> QED
  BY <1>2, <1>4, <1>8, <1>11, <1>14 DEF Deadlines, d

\* _time_notify_kernel counts the tick for every delayed task alike.
LEMMA TickStartTimely ==
  ASSUME NEW c \in Kernel, Basic(c), Deadlines(c), ~c.ticking
  PROVE  Deadlines(TickStart(c))
<1> DEFINE d == TickStart(c)
<1>1. PICK s \in Seq(Task), l \in [Task -> Int] : s = c.timeouts /\ l = c.left
  BY DEF Kernel
<1>2. PICK m : m = [t \in Task |-> IF c.timed[t] THEN l[t] - 1 ELSE l[t]]
  OBVIOUS
<1>3. d.timeouts = s /\ d.left = m /\ d.ticking
  BY <1>1, <1>2 DEF TickStart, Kernel
<1> HIDE DEF d
<1>4. \A i \in 1 .. Len(s) : s[i] \in Task /\ c.timed[s[i]]
  BY <1>1 DEF Basic, Agree, ToSet
<1>5. \A i \in 1 .. Len(s) : m[s[i]] = l[s[i]] - 1 /\ l[s[i]] \in Int
  BY <1>2, <1>4
<1>6. Timely(s, l, 0)
  BY <1>1 DEF Deadlines
<1>7. Timely(s, m, -1)
  BY <1>5, <1>6 DEF Timely
<1> QED
  BY <1>3, <1>7 DEF Deadlines, d

\* A round of the loop takes the first descriptor off TIMEOUT_QUEUE.
LEMMA TickWakeTimely ==
  ASSUME NEW c \in Kernel, Basic(c), Deadlines(c), c.ticking,
         c.timeouts # <<>>
  PROVE  Deadlines(TickWake(c))
<1> DEFINE d == TickWake(c)
<1>1. PICK s \in Seq(Task), l \in [Task -> Int] : s = c.timeouts /\ l = c.left
  BY DEF Kernel
<1>2. PICK t : t = Head(s)
  OBVIOUS
<1>3. PICK v : v = Tail(s)
  OBVIOUS
<1>4. /\ v \in Seq(Task) /\ t \notin ToSet(v)
      /\ Len(v) = Len(s) - 1 /\ \A j \in 1 .. Len(v) : v[j] = s[j + 1]
  <2>1. Inj(s) /\ s # <<>>
    BY <1>1 DEF Basic, Agree
  <2> QED
    BY <1>2, <1>3, <2>1, TailLemma
<1>5. PICK m : m = [l EXCEPT ![t] = 0]
  OBVIOUS
<1>6. d.timeouts = v /\ d.left = m /\ d.ticking
  BY <1>1, <1>2, <1>3, <1>5 DEF TickWake, TaskReady, Kernel
<1> HIDE DEF d
<1>7. Timely(s, l, -1)
  BY <1>1 DEF Deadlines
<1>8. Timely(v, l, -1)
  <2>1. s # <<>> /\ -1 \in Int
    BY <1>1
  <2> QED
    BY <1>3, <1>7, <2>1, TailTimely
<1>9. \A j \in 1 .. Len(v) : v[j] \in Task /\ v[j] # t
  BY <1>4 DEF ToSet
<1>10. \A j \in 1 .. Len(v) : m[v[j]] = l[v[j]]
  BY <1>5, <1>9
<1>11. Timely(v, m, -1)
  BY <1>8, <1>10, SameTimely
<1> QED
  BY <1>6, <1>11 DEF Deadlines, d

\* The loop ends at the first deadline that is not due; those behind it are
\* later.
LEMMA TickEndTimely ==
  ASSUME NEW c \in Kernel, Deadlines(c), c.ticking, ~Due(c)
  PROVE  Deadlines(TickEnd(c))
<1> DEFINE d == TickEnd(c)
<1>1. PICK s \in Seq(Task), l \in [Task -> Int] : s = c.timeouts /\ l = c.left
  BY DEF Kernel
<1>2. d.timeouts = s /\ d.left = l /\ ~d.ticking
  BY <1>1 DEF TickEnd, Kernel
<1> HIDE DEF d
<1>3. Timely(s, l, -1) /\ (s # <<>> => l[Head(s)] > 0)
  <2>1. s # <<>> => Head(s) \in Task
    BY <1>1
  <2> QED
    BY <1>1, <2>1 DEF Deadlines, Due
<1>4. ASSUME NEW i \in 1 .. Len(s)
      PROVE  0 <= l[s[i]]
  <2>1. s # <<>> /\ 1 \in 1 .. Len(s) /\ s[1] = Head(s) /\ s[1] \in Task
        /\ s[i] \in Task
    BY <1>4
  <2>2. i = 1 \/ 1 < i
    BY <1>4
  <2>3. l[s[1]] <= l[s[i]]
    BY <1>3, <2>1, <2>2 DEF Timely
  <2> QED
    BY <1>3, <2>1, <2>3
<1>5. Timely(s, l, 0)
  BY <1>3, <1>4 DEF Timely
<1> QED
  BY <1>2, <1>5 DEF Deadlines, d

\* Only the steps of time.c touch TIMEOUT_QUEUE.
LEMMA OtherStepsKeepDelays ==
  ASSUME k \in Kernel,
         \/ \E t \in AppTask : \/ Yield(t) \/ Block(t) \/ StopPreemption(t)
                               \/ StartPreemption(t)
                               \/ \E u \in AppTask :
                                    \/ Ready(t, u)
                                    \/ \E p \in AppPrio : SetPriority(t, u, p)
         \/ EnterIsr \/ ReturnFromIsr \/ PendSV
         \/ \E u \in AppTask : IsrReady(u)
  PROVE  SameDelays(k', k)
<1>1. ASSUME NEW t \in AppTask, Yield(t) PROVE SameDelays(k', k)
  BY <1>1 DEF Yield, Dispatch, TaskReady, Unlink, SameDelays, Kernel
<1>2. ASSUME NEW t \in AppTask, Block(t) PROVE SameDelays(k', k)
  BY <1>2 DEF Block, TaskBlock, Unlink, SameDelays, Kernel
<1>3. ASSUME NEW t \in AppTask, StopPreemption(t) PROVE SameDelays(k', k)
  BY <1>3 DEF StopPreemption, SameDelays, Kernel
<1>4. ASSUME NEW t \in AppTask, StartPreemption(t) PROVE SameDelays(k', k)
  BY <1>4 DEF StartPreemption, CheckRunScheduler, Dispatch, SameDelays, Kernel
<1>5. ASSUME NEW t \in AppTask, NEW u \in AppTask, Ready(t, u)
      PROVE  SameDelays(k', k)
  BY <1>5 DEF Ready, PendScheduler, TaskReady, SameDelays, Kernel
<1>6. ASSUME NEW t \in AppTask, NEW u \in AppTask, NEW p \in AppPrio,
             SetPriority(t, u, p)
      PROVE  SameDelays(k', k)
  <2>1. u \in Task /\ p \in Prio /\ k' = TaskSetPriority(k, u, p)
    BY <1>6, KernelAssumption DEF SetPriority, AppTask, AppPrio, Prio
  <2> QED
    BY <2>1, SetPriorityEffect DEF SameDelays
<1>7. ASSUME EnterIsr \/ ReturnFromIsr PROVE SameDelays(k', k)
  BY <1>7 DEF EnterIsr, ReturnFromIsr, IsrEntry, IsrReturn, SameDelays, Kernel
<1>8. ASSUME PendSV PROVE SameDelays(k', k)
  BY <1>8 DEF PendSV, Dispatch, SameDelays, Kernel
<1>9. ASSUME NEW u \in AppTask, IsrReady(u) PROVE SameDelays(k', k)
  BY <1>9 DEF IsrReady, TaskReady, SameDelays, Kernel
<1> QED
  BY <1>1, <1>2, <1>3, <1>4, <1>5, <1>6, <1>7, <1>8, <1>9

\* The order of TIMEOUT_QUEUE, as an invariant of the component.
Punctual == Deadlines(k)

LEMMA DeadlinesKept ==
  ASSUME IInv, Punctual, Next
  PROVE  Punctual'
<1> SUFFICES Deadlines(k')
  BY DEF Punctual
<1>1. k \in Kernel /\ Basic(k) /\ Settled(k) /\ Deadlines(k)
  BY DEF IInv, Basic, Punctual
<1>2. ASSUME NEW t \in AppTask, NEW n \in 0 .. MaxDelay, Sleep(t, n)
      PROVE  Deadlines(k')
  <2>1. /\ t \in Task /\ n \in Nat /\ IsReady(k, t) /\ ~k.ticking
        /\ k' = Dispatch(Delay(k, t, n))
    BY <1>2, RunsLemma, SchedAssumption DEF Sleep
  <2>2. PICK d : d = Delay(k, t, n)
    OBVIOUS
  <2>3. Deadlines(d)
    BY <1>1, <2>1, <2>2, DelayTimely
  <2>4. d \in Kernel
    BY <1>1, <1>2, <2>1, <2>2, DelayLemma
  <2>5. SameDelays(Dispatch(d), d)
    BY <2>4 DEF Dispatch, SameDelays, Kernel
  <2> QED
    BY <2>1, <2>2, <2>3, <2>5, SameDelaysLemma
<1>3. ASSUME NEW t \in AppTask, NEW u \in AppTask, CancelDelay(t, u)
      PROVE  Deadlines(k')
  <2>1. u \in Task /\ k.timed[u] /\ k' = TimeDequeue(k, u)
    BY <1>3 DEF CancelDelay, AppTask
  <2> QED
    BY <1>1, <2>1, DequeueTimely
<1>4. CASE Tick
  BY <1>1, <1>4, TickStartTimely DEF Tick
<1>5. CASE WakeDue
  BY <1>1, <1>5, TickWakeTimely DEF WakeDue, Due
<1>6. CASE TickReturn
  BY <1>1, <1>6, TickEndTimely DEF TickReturn
<1>7. ASSUME SameDelays(k', k)
      PROVE  Deadlines(k')
  BY <1>1, <1>7, SameDelaysLemma
<1> QED
  BY <1>1, <1>2, <1>3, <1>4, <1>5, <1>6, <1>7, OtherStepsKeepDelays
  DEF Next, TaskStep, IsrStep

\* No delayed task outlives its timeout.
THEOREM NobodyOversleeps == Spec => []NoneOverdue
<1>1. Init => Punctual
  <2>1. Init => k.timeouts = <<>>
    BY DEF Init, InitKernel
  <2> QED
    BY <2>1 DEF Punctual, Deadlines, Timely
<1>2. IInv /\ Punctual /\ [Next]_k => Punctual'
  BY DeadlinesKept DEF Punctual
<1>3. IInv /\ Punctual => NoneOverdue
  <2> SUFFICES ASSUME IInv, Punctual, ~k.ticking, NEW t \in Task, k.timed[t]
               PROVE  k.left[t] >= 0
    BY DEF NoneOverdue
  <2>1. t \in ToSet(k.timeouts) /\ k \in Kernel
    BY DEF IInv, Basic, Agree
  <2>2. PICK i \in 1 .. Len(k.timeouts) : k.timeouts[i] = t
    BY <2>1 DEF ToSet
  <2>3. 0 <= k.left[k.timeouts[i]] /\ k.left[t] \in Int
    BY <2>1, <2>2 DEF Punctual, Deadlines, Timely, Kernel
  <2> QED
    BY <2>2, <2>3
<1> QED
  BY <1>1, <1>2, <1>3, Inductive, PTL DEF Spec

-----------------------------------------------------------------------------
(* Tasks of one priority run in turn: which steps reorder a ready queue.    *)

\* Two tasks on a queue are in one order only.
LEMMA BeforeOnce ==
  ASSUME NEW s \in Seq(Task), Inj(s), NEW t, NEW u, Before(s, t, u)
  PROVE  ~Before(s, u, t) /\ t \in ToSet(s)
<1>1. PICK i \in 1 .. Len(s), j \in 1 .. Len(s) : i < j /\ s[i] = t /\ s[j] = u
  BY DEF Before
<1>2. ASSUME NEW a \in 1 .. Len(s), NEW b \in 1 .. Len(s),
             a < b, s[a] = u, s[b] = t
      PROVE  FALSE
  <2>1. a = j /\ b = i
    BY <1>1, <1>2 DEF Inj
  <2> QED
    BY <1>1, <1>2, <2>1
<1>3. ~Before(s, u, t)
  BY <1>2 DEF Before
<1>4. t \in ToSet(s)
  BY <1>1 DEF ToSet
<1> QED
  BY <1>3, <1>4

LEMMA BeforeWithout ==
  ASSUME NEW s \in Seq(Task), NEW x \in ToSet(s), NEW t, NEW u,
         Before(Without(s, x), u, t)
  PROVE  Before(s, u, t)
<1>1. PICK n \in 1 .. Len(s) : n = CHOOSE i \in 1 .. Len(s) : s[i] = x
  BY DEF ToSet
<1>2. PICK v : v = RemoveAt(s, n)
  OBVIOUS
<1>3. /\ Len(v) = Len(s) - 1
      /\ \A j \in 1 .. Len(s) - 1 : v[j] = IF j < n THEN s[j] ELSE s[j + 1]
  BY <1>2, RemoveAtLemma
<1>4. PICK i \in 1 .. Len(v), j \in 1 .. Len(v) : i < j /\ v[i] = u /\ v[j] = t
  BY <1>1, <1>2 DEF Before, Without
<1>5. PICK a \in 1 .. Len(s) : a = IF i < n THEN i ELSE i + 1
  BY <1>3
<1>6. PICK b \in 1 .. Len(s) : b = IF j < n THEN j ELSE j + 1
  BY <1>3
<1>7. a < b /\ s[a] = u /\ s[b] = t
  BY <1>3, <1>4, <1>5, <1>6
<1> QED
  BY <1>7 DEF Before

LEMMA BeforeAppend ==
  ASSUME NEW s \in Seq(Task), NEW x \in Task, NEW t, NEW u,
         Before(Append(s, x), u, t)
  PROVE  Before(s, u, t) \/ t = x
<1>1. PICK v : v = Append(s, x)
  OBVIOUS
<1>2. /\ Len(v) = Len(s) + 1 /\ Len(s) \in Nat
      /\ v[Len(s) + 1] = x /\ \A j \in 1 .. Len(s) : v[j] = s[j]
  BY <1>1
<1>3. PICK i \in 1 .. Len(v), j \in 1 .. Len(v) : i < j /\ v[i] = u /\ v[j] = t
  BY <1>1 DEF Before
<1>4. CASE j = Len(s) + 1
  BY <1>2, <1>3, <1>4
<1>5. CASE j # Len(s) + 1
  <2>1. i \in 1 .. Len(s) /\ j \in 1 .. Len(s) /\ s[i] = u /\ s[j] = t
    BY <1>2, <1>3, <1>5
  <2> QED
    BY <1>3, <2>1 DEF Before
<1> QED
  BY <1>4, <1>5

\* From c to d, the only tasks that others got ahead of are those of X.
OnlyBack(d, c, X) ==
  \A p \in Prio, t, u \in Task :
    Before(d.ready[p], u, t) => Before(c.ready[p], u, t) \/ t \in X

LEMMA SameReadyOrder ==
  ASSUME NEW c, NEW d, d.ready = c.ready
  PROVE  OnlyBack(d, c, {})
BY DEF OnlyBack

LEMMA OnlyBackTwice ==
  ASSUME NEW b, NEW c, NEW d, NEW X, OnlyBack(c, b, {}), OnlyBack(d, c, X)
  PROVE  OnlyBack(d, b, X)
BY DEF OnlyBack

LEMMA UnlinkOrder ==
  ASSUME NEW c \in Kernel, Agree(c, {}), NEW x \in Task, IsReady(c, x)
  PROVE  OnlyBack(Unlink(c, x, c.my[x]), c, {})
<1> DEFINE d == Unlink(c, x, c.my[x])
<1>1. /\ d.ready = [c.ready EXCEPT ![c.my[x]] = Without(c.ready[c.my[x]], x)]
      /\ c.my[x] \in Prio /\ c.ready \in [Prio -> Seq(Task)]
      /\ x \in ToSet(c.ready[c.my[x]])
  BY DEF Unlink, Agree, Kernel
<1> HIDE DEF d
<1>2. ASSUME NEW p \in Prio, NEW t \in Task, NEW u \in Task,
             Before(d.ready[p], u, t)
      PROVE  Before(c.ready[p], u, t)
  <2>1. CASE p = c.my[x]
    <3>1. Before(Without(c.ready[p], x), u, t)
      BY <1>1, <1>2, <2>1
    <3>2. c.ready[p] \in Seq(Task) /\ x \in ToSet(c.ready[p])
      BY <1>1, <2>1
    <3> QED
      BY <3>1, <3>2, BeforeWithout
  <2>2. CASE p # c.my[x]
    BY <1>1, <1>2, <2>2
  <2> QED
    BY <2>1, <2>2
<1> QED
  BY <1>2 DEF OnlyBack, d

LEMMA ReadyOrder ==
  ASSUME NEW c \in Kernel, NEW x \in Task
  PROVE  OnlyBack(TaskReady(c, x), c, {x})
<1> DEFINE d == TaskReady(c, x)
<1>1. /\ d.ready = [c.ready EXCEPT ![c.my[x]] = Append(c.ready[c.my[x]], x)]
      /\ c.my[x] \in Prio /\ c.ready \in [Prio -> Seq(Task)]
  BY DEF TaskReady, Kernel
<1> HIDE DEF d
<1>2. ASSUME NEW p \in Prio, NEW t \in Task, NEW u \in Task,
             Before(d.ready[p], u, t)
      PROVE  Before(c.ready[p], u, t) \/ t = x
  <2>1. CASE p = c.my[x]
    <3>1. Before(Append(c.ready[p], x), u, t)
      BY <1>1, <1>2, <2>1
    <3>2. c.ready[p] \in Seq(Task)
      BY <1>1
    <3> QED
      BY <3>1, <3>2, BeforeAppend
  <2>2. CASE p # c.my[x]
    BY <1>1, <1>2, <2>2
  <2> QED
    BY <2>1, <2>2
<1> QED
  BY <1>2 DEF OnlyBack, d

\* The dispatcher leaves the queues alone.
LEMMA DispatchOrder ==
  ASSUME NEW c \in Kernel
  PROVE  /\ Dispatch(c).ready = c.ready
         /\ CheckRunScheduler(c).ready = c.ready
         /\ PendScheduler(c).ready = c.ready
BY DEF Dispatch, CheckRunScheduler, PendScheduler, Kernel

\* _task_set_priority appends the task to its new queue.
LEMMA SetPriorityInternalOrder ==
  ASSUME NEW c \in Kernel, Basic(c), NEW x \in Task, NEW p \in Prio
  PROVE  OnlyBack(SetPriorityInternal(c, x, p), c, {x})
<1> DEFINE m == [c EXCEPT !.my[x] = p]
           u == Unlink(m, x, c.my[x])
           r == TaskReady(u, x)
           d == SetPriorityInternal(c, x, p)
<1>1. CASE ~IsReady(c, x)
  <2>1. d = m
    BY <1>1 DEF SetPriorityInternal
  <2>2. m.ready = c.ready
    BY DEF Kernel
  <2> QED
    BY <2>1, <2>2 DEF OnlyBack
<1>2. CASE IsReady(c, x)
  <2> DEFINE ku == Unlink(c, x, c.my[x])
  <2>1. ku \in Kernel /\ OnlyBack(ku, c, {})
    BY <1>2, UnlinkLemma, UnlinkOrder DEF Basic
  <2>2. u = [ku EXCEPT !.my[x] = p]
    BY DEF Unlink, Kernel
  <2> HIDE DEF ku, u
  <2>3. u \in Kernel /\ u.ready = ku.ready
    BY <2>1, <2>2 DEF Kernel
  <2>4. OnlyBack(r, u, {x}) /\ r \in Kernel
    <3> DEFINE q == u.my[x]
               cur == IF q < u.current THEN q ELSE u.current
               st == [u.state EXCEPT ![x] = "READY"]
               rd == [u.ready EXCEPT ![q] = Append(u.ready[q], x)]
    <3>1. q \in Prio /\ u.current \in Prio /\ u.state \in [Task -> State]
          /\ u.ready \in [Prio -> Seq(Task)]
      BY <2>3 DEF Kernel
    <3>2. cur \in Prio /\ st \in [Task -> State] /\ rd \in [Prio -> Seq(Task)]
      BY <3>1 DEF State
    <3>3. r = [u EXCEPT !.current = cur, !.state = st, !.ready = rd]
      BY <2>3 DEF TaskReady, Kernel
    <3> HIDE DEF q, cur, st, rd
    <3>4. r \in Kernel
      BY <2>3, <3>2, <3>3 DEF Kernel
    <3> QED
      BY <2>3, <3>4, ReadyOrder
  <2> HIDE DEF r
  <2>5. d.ready = r.ready
    <3>1. d = r \/ d = Dispatch(r)
      BY <1>2 DEF SetPriorityInternal, r, u
    <3> QED
      BY <2>4, <3>1, DispatchOrder
  <2> HIDE DEF d
  <2> QED
    BY <2>1, <2>3, <2>4, <2>5 DEF OnlyBack, d
<1> QED
  BY <1>1, <1>2

LEMMA SetPriorityOrder ==
  ASSUME NEW c \in Kernel, Basic(c), IsReady(c, c.active), NEW x \in Task,
         NEW p \in Prio
  PROVE  OnlyBack(TaskSetPriority(c, x, p), c, {x})
<1> DEFINE h == [c EXCEPT !.home[x] = p]
           i == SetPriorityInternal(h, x, p)
           d == TaskSetPriority(c, x, p)
<1>1. /\ h \in Kernel /\ h.ready = c.ready /\ h.state = c.state
      /\ h.timed = c.timed /\ h.timeouts = c.timeouts /\ h.current = c.current
      /\ h.active = c.active /\ h.my = c.my
  BY DEF Kernel
<1>2. d = CheckRunScheduler(h) \/ d = CheckRunScheduler(i)
  BY DEF TaskSetPriority
<1> HIDE DEF h
<1>3. Basic(h) /\ IsReady(h, h.active)
  BY <1>1 DEF Basic, Agree, IsReady, NoneAbove
<1>4. i \in Kernel
  BY <1>1, <1>3, SetPriorityLemma
<1>5. OnlyBack(i, h, {x})
  BY <1>1, <1>3, SetPriorityInternalOrder
<1> HIDE DEF i
<1>6. d.ready = h.ready \/ d.ready = i.ready
  BY <1>1, <1>2, <1>4, DispatchOrder
<1> HIDE DEF d
<1> QED
  BY <1>1, <1>5, <1>6 DEF OnlyBack, d

\* Every step puts others ahead of a ready task only if it yields or is given
\* a priority.
LEMMA TurnsKept ==
  ASSUME IInv, Next
  PROVE  \A p \in Prio, t, u \in Task :
           Before(k.ready[p], t, u) /\ Before(k'.ready[p], u, t) =>
             \/ Yield(t)
             \/ \E a \in Task, q \in AppPrio : SetPriority(a, t, q)
<1> DEFINE Excused(x) == \/ ~IsReady(k, x)
                         \/ Yield(x)
                         \/ \E a \in Task, q \in AppPrio : SetPriority(a, x, q)
<1>1. k \in Kernel /\ Basic(k) /\ Settled(k) /\ Agree(k, {})
  BY DEF IInv, Basic
<1>2. ASSUME OnlyBack(k', k, {}) \/ \E x \in Task : OnlyBack(k', k, {x}) /\ Excused(x),
             NEW p \in Prio, NEW t \in Task, NEW u \in Task,
             Before(k.ready[p], t, u), Before(k'.ready[p], u, t)
      PROVE  Yield(t) \/ \E a \in Task, q \in AppPrio : SetPriority(a, t, q)
  <2>1. ~Before(k.ready[p], u, t) /\ t \in ToSet(k.ready[p])
    <3>1. k.ready[p] \in Seq(Task) /\ Inj(k.ready[p])
      BY <1>1 DEF Agree, Kernel
    <3> QED
      BY <1>2, <3>1, BeforeOnce
  <2>2. IsReady(k, t)
    BY <1>1, <2>1 DEF Agree
  <2>3. Excused(t)
    BY <1>2, <2>1 DEF OnlyBack
  <2> QED
    BY <2>2, <2>3
<1> SUFFICES \/ OnlyBack(k', k, {})
             \/ \E x \in Task : OnlyBack(k', k, {x}) /\ Excused(x)
  BY <1>2
<1>3. ASSUME NEW t \in AppTask, TaskStep(t)
      PROVE  \/ OnlyBack(k', k, {})
             \/ \E x \in Task : OnlyBack(k', k, {x}) /\ Excused(x)
  <2>1. /\ t \in Task /\ IsReady(k, t) /\ k.active = t
    BY <1>3, RunsLemma DEF TaskStep, Yield, Block, Sleep, Ready, CancelDelay,
                           SetPriority, StopPreemption, StartPreemption
  <2> DEFINE n == Unlink(k, t, k.my[t])
  <2>2. n \in Kernel /\ OnlyBack(n, k, {}) /\ Agree(n, {t}) /\ ~n.timed[t]
        /\ NoneAbove(n)
    <3>1. n.timed = k.timed
      BY DEF Unlink, Kernel
    <3> QED
      BY <1>1, <2>1, <3>1, UnlinkLemma, UnlinkOrder DEF Basic, IsReady
  <2>3. CASE Yield(t)
    <3> HIDE DEF n
    <3> DEFINE r == TaskReady(n, t)
    <3>1. r \in Kernel /\ OnlyBack(r, n, {t})
      BY <2>1, <2>2, TaskReadyLemma, ReadyOrder
    <3>2. k' = Dispatch(r)
      BY <2>3 DEF Yield, n
    <3> HIDE DEF r
    <3>3. k'.ready = r.ready
      BY <3>1, <3>2, DispatchOrder
    <3>4. OnlyBack(k', k, {t})
      BY <2>2, <3>1, <3>3 DEF OnlyBack
    <3> QED
      BY <2>1, <2>3, <3>4
  <2>4. CASE Block(t)
    <3>1. k'.ready = n.ready
      BY <2>2, <2>4 DEF Block, TaskBlock, Kernel
    <3> QED
      BY <2>2, <3>1 DEF OnlyBack
  <2>5. ASSUME NEW d \in 0 .. MaxDelay, Sleep(t, d)
        PROVE  OnlyBack(k', k, {})
    <3> DEFINE w == Delay(k, t, d)
    <3>1. w \in Kernel
      BY <1>1, <2>1, DelayLemma, SchedAssumption
    <3>2. w.ready = n.ready /\ k' = Dispatch(w)
      BY <2>2, <2>5 DEF Delay, Sleep, Kernel
    <3> HIDE DEF w, n
    <3>3. k'.ready = n.ready
      BY <3>1, <3>2, DispatchOrder
    <3> QED
      BY <2>2, <3>3 DEF OnlyBack
  <2>6. ASSUME NEW x \in AppTask, Ready(t, x)
        PROVE  OnlyBack(k', k, {x}) /\ x \in Task /\ Excused(x)
    <3> DEFINE r == TaskReady(k, x)
    <3>1. /\ x \in Task /\ ~IsReady(k, x) /\ ~k.timed[x]
          /\ k' = PendScheduler(r)
      BY <2>6 DEF Ready, AppTask, IsReady
    <3>2. r \in Kernel /\ OnlyBack(r, k, {x})
      BY <1>1, <3>1, UnlinkedLemma, TaskReadyLemma, ReadyOrder DEF Basic
    <3> HIDE DEF r
    <3>3. k'.ready = r.ready
      BY <3>1, <3>2, DispatchOrder
    <3> QED
      BY <3>1, <3>2, <3>3 DEF OnlyBack
  <2>7. ASSUME NEW x \in AppTask, CancelDelay(t, x)
        PROVE  OnlyBack(k', k, {})
    <3>1. k'.ready = k.ready
      BY <1>1, <2>7 DEF CancelDelay, TimeDequeue, Kernel
    <3> QED
      BY <3>1 DEF OnlyBack
  <2>8. ASSUME NEW x \in AppTask, NEW q \in AppPrio, SetPriority(t, x, q)
        PROVE  OnlyBack(k', k, {x}) /\ x \in Task /\ Excused(x)
    <3>1. x \in Task /\ q \in Prio /\ k' = TaskSetPriority(k, x, q)
      BY <2>8, KernelAssumption DEF SetPriority, AppTask, AppPrio, Prio
    <3>2. OnlyBack(k', k, {x})
      BY <1>1, <2>1, <3>1, SetPriorityOrder
    <3> QED
      BY <2>1, <2>8, <3>1, <3>2
  <2>9. CASE StopPreemption(t) \/ StartPreemption(t)
    <3>1. k'.ready = k.ready
      BY <1>1, <2>9 DEF StopPreemption, StartPreemption, CheckRunScheduler,
                        Dispatch, Kernel
    <3> QED
      BY <3>1 DEF OnlyBack
  <2> QED
    BY <1>3, <2>3, <2>4, <2>5, <2>6, <2>7, <2>8, <2>9 DEF TaskStep
<1>4. CASE IsrStep
  <2>1. ASSUME NEW x \in AppTask, IsrReady(x)
        PROVE  OnlyBack(k', k, {x}) /\ x \in Task /\ Excused(x)
    <3>1. x \in Task /\ ~IsReady(k, x) /\ k' = TaskReady(k, x)
      BY <2>1 DEF IsrReady, AppTask, IsReady
    <3> QED
      BY <1>1, <3>1, ReadyOrder
  <2>2. CASE WakeDue
    <3> DEFINE x == Head(k.timeouts)
               m == [k EXCEPT !.timeouts = Tail(@), !.timed[x] = FALSE,
                              !.left[x] = 0]
    <3>1. k.timeouts \in Seq(Task) /\ k.timeouts # <<>> /\ k' = TaskReady(m, x)
      BY <1>1, <2>2 DEF WakeDue, Due, TickWake, Kernel
    <3>2. x \in Task /\ k.timed[x]
      BY <1>1, <3>1, TailLemma DEF Agree
    <3>3. k'.ready = TaskReady(k, x).ready
      BY <1>1, <3>1 DEF TaskReady, Kernel
    <3>4. OnlyBack(k', k, {x})
      BY <1>1, <3>2, <3>3, ReadyOrder DEF OnlyBack
    <3> QED
      BY <3>2, <3>4 DEF IsReady
  <2>3. CASE EnterIsr \/ ReturnFromIsr \/ Tick \/ TickReturn
    <3>1. k'.ready = k.ready
      BY <1>1, <2>3 DEF EnterIsr, ReturnFromIsr, Tick, TickReturn, IsrEntry,
                        IsrReturn, TickStart, TickEnd, Kernel
    <3> QED
      BY <3>1 DEF OnlyBack
  <2> QED
    BY <1>4, <2>1, <2>2, <2>3 DEF IsrStep
<1>5. CASE PendSV
  <2>1. k'.ready = k.ready
    BY <1>1, <1>5, DispatchOrder DEF PendSV
  <2> QED
    BY <2>1 DEF OnlyBack
<1> QED
  BY <1>3, <1>4, <1>5 DEF Next

\* Tasks of one priority run in turn: a ready task is never overtaken unless it
\* yields or its priority is set.
THEOREM InTurn == Spec => NoOvertaking
<1>1. IInv /\ [Next]_k =>
        [\A p \in Prio, t, u \in Task :
           Before(k.ready[p], t, u) /\ Before(k'.ready[p], u, t) =>
             \/ Yield(t)
             \/ \E a \in Task, q \in AppPrio : SetPriority(a, t, q)]_k
  BY TurnsKept
<1> QED
  BY <1>1, Inductive, PTL DEF Spec, NoOvertaking

-----------------------------------------------------------------------------
(***************************************************************************)
(* The point-to-point protocol.  For every set of situations, any number   *)
(* of losses and retries and timers that expire at any moment: the link    *)
(* carries data in the state OPENED only, and on the terms of the last     *)
(* request.                                                                *)
(*                                                                         *)
(* LineInv says of each machine by itself what its state owes (Valid); a   *)
(* message, a time-out or a call finds it so and leaves it so.             *)
(***************************************************************************)

States == INITIAL .. OPENED

\* The states in which nothing has been acknowledged that counts.
Rest == States \ {ACK_RCVD, OPENED}

\* f is a record with the fields of a machine.
IsMachine(f) ==
  f = [STATE |-> f.STATE, CURID |-> f.CURID, REQID |-> f.REQID, NAKS |-> f.NAKS,
       OPTIONS |-> f.OPTIONS, RECV_NEG |-> f.RECV_NEG, RECV_OPT |-> f.RECV_OPT,
       SEND_OPT |-> f.SEND_OPT, LINK |-> f.LINK,
       ST_CP_NOBUFS |-> f.ST_CP_NOBUFS, out |-> f.out]

\* What the peer acknowledged is what the last request asked for.
Accepted(f) == f.RECV_OPT = [id |-> f.REQID, opts |-> f.RECV_NEG]

Valid(p, f) ==
  /\ IsMachine(f) /\ f.STATE \in States
  /\ f.LINK = TRUE \/ f.LINK = FALSE
  /\ f.LINK = TRUE => f.STATE = OPENED /\ Admits(p, f)
  /\ f.STATE = OPENED /\ Admits(p, f) => f.LINK = TRUE
  /\ f.STATE \in {ACK_RCVD, OPENED} => Accepted(f)

\* A machine whose data does not pass, in a state that owes nothing.
Down(f) ==
  /\ IsMachine(f) /\ f.STATE \in Rest
  /\ f.LINK = FALSE

LEMMA StateNumbers ==
  /\ INITIAL = 0 /\ STARTING = 1 /\ CLOSED = 2 /\ STOPPED = 3 /\ CLOSING = 4
  /\ STOPPING = 5 /\ REQ_SENT = 6 /\ ACK_RCVD = 7 /\ ACK_SENT = 8 /\ OPENED = 9
  /\ States = 0 .. 9
BY DEF INITIAL, STARTING, CLOSED, STOPPED, CLOSING, STOPPING, REQ_SENT,
       ACK_RCVD, ACK_SENT, OPENED, States

LEMMA RestStates ==
  /\ INITIAL \in Rest /\ STARTING \in Rest /\ CLOSED \in Rest /\ STOPPED \in Rest
  /\ CLOSING \in Rest /\ STOPPING \in Rest /\ REQ_SENT \in Rest
  /\ ACK_SENT \in Rest
  /\ \A s \in Rest : s \in States /\ s # ACK_RCVD /\ s # OPENED
BY StateNumbers DEF Rest

LEMMA DownIsValid ==
  ASSUME NEW p, NEW f, Down(f)
  PROVE  Valid(p, f)
BY RestStates DEF Down, Valid

\* What the helpers leave alone
Same(g, f) ==
  /\ IsMachine(g) /\ g.STATE = f.STATE /\ g.LINK = f.LINK
  /\ g.RECV_OPT = f.RECV_OPT /\ g.REQID = f.REQID /\ g.RECV_NEG = f.RECV_NEG

LEMMA PostKeeps ==
  ASSUME NEW f, IsMachine(f), NEW m
  PROVE  Same(Post(f, m), f)
<1>1. PICK u : u = Append(f.out, m)
  OBVIOUS
<1>2. Post(f, m) = [f EXCEPT !.out = u]
  BY <1>1 DEF Post
<1>3. PICK e : e = [f EXCEPT !.out = u]
  OBVIOUS
<1>4. IsMachine(e)
  BY <1>3 DEF IsMachine
<1>5. /\ e.STATE = f.STATE /\ e.LINK = f.LINK /\ e.RECV_OPT = f.RECV_OPT
      /\ e.REQID = f.REQID /\ e.RECV_NEG = f.RECV_NEG
  BY <1>3 DEF IsMachine
<1>6. QED
  BY <1>2, <1>3, <1>4, <1>5 DEF Same

LEMMA GotoGoes ==
  ASSUME NEW f, IsMachine(f), NEW s
  PROVE  /\ IsMachine(Goto(f, s)) /\ Goto(f, s).STATE = s
         /\ Goto(f, s).LINK = f.LINK /\ Goto(f, s).RECV_OPT = f.RECV_OPT
         /\ Goto(f, s).REQID = f.REQID /\ Goto(f, s).RECV_NEG = f.RECV_NEG
BY DEF Goto, IsMachine

LEMMA StopTimerKeeps ==
  ASSUME NEW f, IsMachine(f)
  PROVE  Same(StopTimer(f), f)
BY PostKeeps DEF StopTimer, Same

LEMMA NoPacketKeeps ==
  ASSUME NEW f, IsMachine(f)
  PROVE  Same(NoPacket(f), f)
BY DEF NoPacket, IsMachine, Same

LEMMA OutSet ==
  ASSUME NEW f, IsMachine(f), NEW u
  PROVE  Same([f EXCEPT !.out = u], f)
BY DEF IsMachine, Same

LEMMA LinkSet ==
  ASSUME NEW f, IsMachine(f), NEW v
  PROVE  LET g == [f EXCEPT !.LINK = v]
         IN  /\ IsMachine(g) /\ g.STATE = f.STATE /\ g.LINK = v
             /\ g.RECV_OPT = f.RECV_OPT /\ g.REQID = f.REQID
             /\ g.RECV_NEG = f.RECV_NEG
BY DEF IsMachine

WithIds(f, u, v) == [f EXCEPT !.REQID = u, !.CURID = v]

LEMMA IdsSet ==
  ASSUME NEW f, IsMachine(f), NEW u, NEW v
  PROVE  /\ IsMachine(WithIds(f, u, v)) /\ WithIds(f, u, v).STATE = f.STATE
         /\ WithIds(f, u, v).LINK = f.LINK
         /\ Same([f EXCEPT !.CURID = v], f)
<1>1. ASSUME NEW h, IsMachine(h)
      PROVE  Same([h EXCEPT !.CURID = v], h)
  BY <1>1 DEF IsMachine, Same
<1>2. PICK h : h = [f EXCEPT !.REQID = u]
  OBVIOUS
<1>3. IsMachine(h) /\ h.STATE = f.STATE /\ h.LINK = f.LINK
  BY <1>2 DEF IsMachine
<1>4. Same([h EXCEPT !.CURID = v], h)
  BY <1>1, <1>3
<1>5. PICK g : g = [h EXCEPT !.CURID = v]
  OBVIOUS
<1>6. g = WithIds(f, u, v)
  BY <1>2, <1>5 DEF WithIds
<1>7. IsMachine(g) /\ g.STATE = f.STATE /\ g.LINK = f.LINK
  BY <1>3, <1>4, <1>5 DEF Same
<1>8. Same([f EXCEPT !.CURID = v], f)
  BY <1>1
<1>9. QED
  BY <1>6, <1>7, <1>8

LEMMA AgreedSet ==
  ASSUME NEW f, IsMachine(f), NEW u, NEW v
  PROVE  /\ Same([f EXCEPT !.SEND_OPT = u], f)
         /\ Same([f EXCEPT !.NAKS = v], f)
         /\ Same([f EXCEPT !.OPTIONS = u], f)
<1>1. Same([f EXCEPT !.SEND_OPT = u], f)
  BY DEF IsMachine, Same
<1>2. Same([f EXCEPT !.NAKS = v], f)
  BY DEF IsMachine, Same
<1>3. Same([f EXCEPT !.OPTIONS = u], f)
  BY DEF IsMachine, Same
<1>4. QED
  BY <1>1, <1>2, <1>3

Going(f, u, v) == [f EXCEPT !.STATE = u, !.NAKS = v]

LEMMA GoneSet ==
  ASSUME NEW f, IsMachine(f), NEW u, NEW v
  PROVE  /\ IsMachine(Going(f, u, v)) /\ Going(f, u, v).STATE = u
         /\ Going(f, u, v).LINK = f.LINK /\ Going(f, u, v).RECV_OPT = f.RECV_OPT
         /\ Going(f, u, v).REQID = f.REQID /\ Going(f, u, v).RECV_NEG = f.RECV_NEG
<1>1. PICK h : h = [f EXCEPT !.STATE = u]
  OBVIOUS
<1>2. /\ IsMachine(h) /\ h.STATE = u /\ h.LINK = f.LINK
      /\ h.RECV_OPT = f.RECV_OPT /\ h.REQID = f.REQID
      /\ h.RECV_NEG = f.RECV_NEG
  BY <1>1 DEF IsMachine
<1>3. Same([h EXCEPT !.NAKS = v], h)
  BY <1>2, AgreedSet
<1>4. Going(f, u, v) = [h EXCEPT !.NAKS = v]
  BY <1>1 DEF Going
<1>5. QED
  BY <1>2, <1>3, <1>4 DEF Same

LEMMA ReceivedSet ==
  ASSUME NEW f, IsMachine(f), NEW u
  PROVE  /\ LET g == [f EXCEPT !.RECV_OPT = u]
            IN  /\ IsMachine(g) /\ g.STATE = f.STATE /\ g.LINK = f.LINK
                /\ g.RECV_OPT = u /\ g.REQID = f.REQID
                /\ g.RECV_NEG = f.RECV_NEG
         /\ LET g == [f EXCEPT !.RECV_NEG = u]
            IN  /\ IsMachine(g) /\ g.STATE = f.STATE /\ g.LINK = f.LINK
<1>1. LET g == [f EXCEPT !.RECV_OPT = u]
      IN  /\ IsMachine(g) /\ g.STATE = f.STATE /\ g.LINK = f.LINK
          /\ g.RECV_OPT = u /\ g.REQID = f.REQID
          /\ g.RECV_NEG = f.RECV_NEG
  BY DEF IsMachine
<1>2. LET g == [f EXCEPT !.RECV_NEG = u]
      IN  IsMachine(g) /\ g.STATE = f.STATE /\ g.LINK = f.LINK
  BY DEF IsMachine
<1>3. QED
  BY <1>1, <1>2

LEMMA LinkDownDrops ==
  ASSUME NEW p, NEW f, Valid(p, f)
  PROVE  /\ IsMachine(LinkDown(f)) /\ LinkDown(f).STATE = f.STATE
         /\ LinkDown(f).LINK = FALSE
BY LinkSet DEF Valid, LinkDown

LEMMA SendConfReqKeeps ==
  ASSUME NEW p, NEW f, IsMachine(f), NEW packet
  PROVE  /\ IsMachine(SendConfReq(p, f, packet)) /\ SendConfReq(p, f, packet).STATE = f.STATE
         /\ SendConfReq(p, f, packet).LINK = f.LINK
<1> DEFINE r == ResetOptions(p, f)
           g == StopTimer(r)
           h == [g EXCEPT !.REQID = g.CURID, !.CURID = @ + 1]
<1>1. IsMachine(r) /\ r.STATE = f.STATE /\ r.LINK = f.LINK
  BY DEF ResetOptions, IsMachine
<1>2. Same(g, r)
  BY <1>1, StopTimerKeeps
<1>3. IsMachine(h) /\ h.STATE = g.STATE /\ h.LINK = g.LINK
  <2>1. IsMachine(g)
    BY <1>2 DEF Same
  <2>2. h = WithIds(g, g.CURID, g.CURID + 1)
    BY DEF WithIds
  <2> HIDE DEF g, h
  <2>3. PICK e : e = WithIds(g, g.CURID, g.CURID + 1)
    OBVIOUS
  <2>4. IsMachine(e) /\ e.STATE = g.STATE /\ e.LINK = g.LINK
    BY <2>1, <2>3, IdsSet
  <2>5. QED
    BY <2>2, <2>3, <2>4
<1>4. CASE packet
  <2>1. PICK m : SendConfReq(p, f, packet) = Post(h, m)
    BY <1>4 DEF SendConfReq
  <2>2. Same(Post(h, m), h)
    BY <1>3, PostKeeps
  <2>3. QED
    BY <1>1, <1>2, <1>3, <2>1, <2>2 DEF Same
<1>5. CASE ~packet
  <2>1. SendConfReq(p, f, packet) = NoPacket(g)
    BY <1>5 DEF SendConfReq
  <2>2. Same(NoPacket(g), g)
    BY <1>2, NoPacketKeeps DEF Same
  <2>3. QED
    BY <1>1, <1>2, <2>1, <2>2 DEF Same
<1>6. QED
  BY <1>4, <1>5

LEMMA SendTermReqKeeps ==
  ASSUME NEW f, IsMachine(f), NEW packet
  PROVE  Same(SendTermReq(f, packet), f)
<1> DEFINE g == StopTimer(f)
           h == [g EXCEPT !.CURID = @ + 1]
<1>1. Same(g, f)
  BY StopTimerKeeps
<1>2. Same(h, g)
  BY <1>1, IdsSet DEF Same
<1>3. CASE packet
  <2>1. PICK m : SendTermReq(f, packet) = Post(h, m)
    BY <1>3 DEF SendTermReq
  <2>2. Same(Post(h, m), h)
    BY <1>2, PostKeeps DEF Same
  <2>3. QED
    BY <1>1, <1>2, <2>1, <2>2 DEF Same
<1>4. CASE ~packet
  <2>1. SendTermReq(f, packet) = NoPacket(g)
    BY <1>4 DEF SendTermReq
  <2>2. Same(NoPacket(g), g)
    BY <1>1, NoPacketKeeps DEF Same
  <2>3. QED
    BY <1>1, <2>1, <2>2 DEF Same
<1>5. QED
  BY <1>3, <1>4

LEMMA SendTermAckKeeps ==
  ASSUME NEW f, IsMachine(f), NEW m, NEW delay
  PROVE  Same(SendTermAck(f, m, delay), f)
BY PostKeeps DEF SendTermAck

LEMMA BeginIsDown ==
  ASSUME NEW p, NEW f, IsMachine(f), f.LINK = FALSE, NEW packet
  PROVE  Down(Begin(p, f, packet)) /\ Begin(p, f, packet).STATE = REQ_SENT
<1>1. /\ IsMachine(SendConfReq(p, f, packet))
      /\ SendConfReq(p, f, packet).LINK = FALSE
  BY SendConfReqKeeps
<1>2. QED
  BY <1>1, GotoGoes, RestStates DEF Begin, Down

\* A state that owes nothing is entered with the link down.
LEMMA GotoIsDown ==
  ASSUME NEW f, IsMachine(f), f.LINK = FALSE,
         NEW s \in Rest
  PROVE  Down(Goto(f, s)) /\ Goto(f, s).STATE = s
BY GotoGoes DEF Down

LEMMA ValidFacts ==
  ASSUME NEW p, NEW f, Valid(p, f)
  PROVE  /\ IsMachine(f) /\ f.STATE \in States
         /\ f.STATE # OPENED => f.LINK = FALSE
         /\ f.STATE \in {ACK_RCVD, OPENED} => Accepted(f)
BY DEF Valid

LEMMA SameIsValid ==
  ASSUME NEW p, NEW f, NEW g, Valid(p, f), Same(g, f)
  PROVE  Valid(p, g)
BY DEF Valid, Same, Admits, Accepted

LEMMA UpIsValid ==
  ASSUME NEW p, NEW f, IsMachine(f), Accepted(f), f.LINK = FALSE, NEW packet
  PROVE  Valid(p, Up(p, f, packet)) /\ IsMachine(Up(p, f, packet))
<1>1. CASE Admits(p, f)
  <2> DEFINE g == LinkUp(f)
             h == Goto(g, OPENED)
  <2>1. /\ IsMachine(g) /\ g.LINK = TRUE /\ g.RECV_OPT = f.RECV_OPT
        /\ g.REQID = f.REQID /\ g.RECV_NEG = f.RECV_NEG
    BY LinkSet DEF LinkUp
  <2>2. /\ IsMachine(h) /\ h.LINK = TRUE /\ h.RECV_OPT = f.RECV_OPT
        /\ h.REQID = f.REQID /\ h.RECV_NEG = f.RECV_NEG /\ h.STATE = OPENED
    BY <2>1, GotoGoes
  <2>3. Valid(p, h)
    BY <1>1, <2>2, StateNumbers DEF Valid, Admits, Accepted
  <2>4. Up(p, f, packet) = Post(h, Stop)
    BY <1>1 DEF Up
  <2>5. QED
    BY <2>2, <2>3, <2>4, PostKeeps, SameIsValid DEF Same
<1>2. CASE ~Admits(p, f)
  <2>1. Same(SendTermReq(f, packet), f)
    BY SendTermReqKeeps
  <2>2. Down(Goto(SendTermReq(f, packet), CLOSING))
    <3>1. IsMachine(SendTermReq(f, packet)) /\ SendTermReq(f, packet).LINK = FALSE
      BY <2>1 DEF Same
    <3>2. CLOSING \in Rest
      BY RestStates
    <3>3. QED
      BY <3>1, <3>2, GotoIsDown
  <2>3. QED
    BY <1>2, <2>2, DownIsValid DEF Up, Down
<1>3. QED
  BY <1>1, <1>2

\* The handlers, one by one.
LEMMA LowerUpValid ==
  ASSUME NEW p, NEW f, Valid(p, f), NEW packet
  PROVE  Valid(p, LowerUp(p, f, packet))
<1>1. IsMachine(f) /\ (f.STATE # OPENED => f.LINK = FALSE)
  BY ValidFacts
<1>2. CASE f.STATE # OPENED
  <2>1. Down(Goto(f, CLOSED)) /\ Down(Goto(f, STOPPED)) /\ Down(Begin(p, f, packet))
    BY <1>1, <1>2, GotoIsDown, BeginIsDown, RestStates
  <2>2. LowerUp(p, f, packet) \in {Goto(f, CLOSED), Goto(f, STOPPED), Begin(p, f, packet), f}
    BY DEF LowerUp
  <2>3. QED
    BY <2>1, <2>2, DownIsValid
<1>3. CASE f.STATE = OPENED
  <2>1. LowerUp(p, f, packet) = f
    BY <1>3, StateNumbers DEF LowerUp
  <2>2. QED
    BY <2>1
<1>4. QED
  BY <1>2, <1>3

LEMMA PostGoto ==
  ASSUME NEW f, IsMachine(f), f.LINK = FALSE, NEW m,
         NEW s \in Rest
  PROVE  Down(Post(Goto(f, s), m)) /\ Down(Goto(Post(f, m), s))
<1>1. Down(Goto(f, s))
  BY GotoIsDown
<1>2. Same(Post(Goto(f, s), m), Goto(f, s))
  BY <1>1, PostKeeps DEF Down
<1>3. Same(Post(f, m), f)
  BY PostKeeps
<1>4. Down(Goto(Post(f, m), s))
  BY <1>3, GotoIsDown DEF Same
<1>5. QED
  BY <1>1, <1>2, <1>4 DEF Same, Down

LEMMA LowerDownValid ==
  ASSUME NEW p, NEW f, Valid(p, f)
  PROVE  Valid(p, LowerDown(p, f))
<1>1. IsMachine(f) /\ f.STATE \in States /\ (f.STATE # OPENED => f.LINK = FALSE)
  BY ValidFacts
<1>2. CASE f.STATE = OPENED
  <2>1. PICK g : g = LinkDown(f)
    OBVIOUS
  <2>2. IsMachine(g) /\ g.LINK = FALSE
    BY <1>1, <2>1, LinkDownDrops
  <2>3. Down(Goto(LinkDown(f), STARTING))
    BY <2>1, <2>2, GotoIsDown, RestStates
  <2>4. LowerDown(p, f) = Goto(LinkDown(f), STARTING)
    BY <1>2, StateNumbers DEF LowerDown
  <2>5. QED
    BY <2>3, <2>4, DownIsValid
<1>3. CASE f.STATE # OPENED
  <2>1. /\ INITIAL \in Rest
        /\ STARTING \in Rest
    BY RestStates
  <2>2. /\ Down(Goto(f, INITIAL)) /\ Down(Goto(f, STARTING))
        /\ Down(Post(Goto(f, INITIAL), Stop)) /\ Down(Post(Goto(f, STARTING), Stop))
    BY <1>1, <1>3, <2>1, GotoIsDown, PostGoto
  <2>3. LowerDown(p, f) \in {Goto(f, INITIAL), Goto(f, STARTING), f,
                             Post(Goto(f, INITIAL), Stop), Post(Goto(f, STARTING), Stop)}
    BY <1>3, StateNumbers DEF LowerDown
  <2>4. QED
    BY <2>2, <2>3, DownIsValid
<1>4. QED
  BY <1>2, <1>3

LEMMA OpenValid ==
  ASSUME NEW p, NEW f, Valid(p, f), NEW options, NEW packet
  PROVE  Valid(p, Open(p, f, packet, options))
<1> DEFINE g == [f EXCEPT !.OPTIONS = options]
           h == IF g.STATE = CLOSING THEN Goto(g, STOPPING) ELSE g
<1>1. Same(g, f)
  BY ValidFacts, AgreedSet
<1>2. Valid(p, g)
  BY <1>1, SameIsValid
<1> HIDE DEF g
<1>3. IsMachine(g) /\ g.STATE \in States /\ (g.STATE # OPENED => g.LINK = FALSE)
  BY <1>2, ValidFacts
<1>4. Valid(p, h) /\ IsMachine(h) /\ (g.STATE # OPENED => h.LINK = FALSE)
  <2>1. CASE g.STATE = CLOSING
    <3>1. Down(Goto(g, STOPPING))
      BY <1>3, <2>1, GotoIsDown, RestStates
    <3>2. QED
      BY <2>1, <3>1, DownIsValid DEF Down
  <2>2. CASE g.STATE # CLOSING
    BY <1>2, <1>3, <2>2
  <2>3. QED
    BY <2>1, <2>2
<1> HIDE DEF h
<1>5. Open(p, f, packet, options) \in {Goto(g, STARTING), Goto(g, STOPPED), Begin(p, g, packet),
                               Begin(p, h, packet), Begin(p, LinkDown(g), packet), h}
  BY DEF Open, g, h
<1>6. CASE g.STATE # OPENED
  <2>1. /\ STARTING \in Rest
        /\ STOPPED \in Rest
    BY RestStates
  <2>2. Down(Goto(g, STARTING)) /\ Down(Goto(g, STOPPED))
    BY <1>3, <1>6, <2>1, GotoIsDown
  <2>3. Down(Begin(p, g, packet)) /\ Down(Begin(p, h, packet))
    BY <1>3, <1>4, <1>6, BeginIsDown
  <2>4. Down(Begin(p, LinkDown(g), packet))
    BY <1>2, LinkDownDrops, BeginIsDown
  <2>5. QED
    BY <1>4, <1>5, <2>2, <2>3, <2>4, DownIsValid
<1>7. CASE g.STATE = OPENED
  <2>1. Open(p, f, packet, options) \in {Begin(p, LinkDown(g), packet), h}
    BY <1>7, StateNumbers DEF Open, g, h
  <2>2. Down(Begin(p, LinkDown(g), packet))
    BY <1>2, LinkDownDrops, BeginIsDown
  <2>3. QED
    BY <1>4, <2>1, <2>2, DownIsValid
<1>8. QED
  BY <1>6, <1>7

LEMMA CloseValid ==
  ASSUME NEW p, NEW f, Valid(p, f), NEW packet
  PROVE  Valid(p, Close(p, f, packet))
<1>1. IsMachine(f) /\ f.STATE \in States /\ (f.STATE # OPENED => f.LINK = FALSE)
  BY ValidFacts
<1>2. /\ INITIAL \in Rest
      /\ CLOSED \in Rest
      /\ CLOSING \in Rest
  BY RestStates
<1>3. ASSUME NEW g, IsMachine(g), g.LINK = FALSE
      PROVE  Down(Goto(SendTermReq(g, packet), CLOSING))
  <2>1. Same(SendTermReq(g, packet), g)
    BY <1>3, SendTermReqKeeps
  <2>2. IsMachine(SendTermReq(g, packet)) /\ SendTermReq(g, packet).LINK = FALSE
    BY <1>3, <2>1 DEF Same
  <2>3. QED
    BY <1>2, <2>2, GotoIsDown
<1>4. CASE f.STATE = OPENED
  <2>1. Close(p, f, packet) = Goto(SendTermReq(LinkDown(f), packet), CLOSING)
    BY <1>4, StateNumbers DEF Close
  <2>2. QED
    BY <1>3, <2>1, LinkDownDrops, DownIsValid
<1>5. CASE f.STATE # OPENED
  <2>1. /\ Down(Goto(f, INITIAL)) /\ Down(Goto(f, CLOSED)) /\ Down(Goto(f, CLOSING))
        /\ Down(Goto(SendTermReq(f, packet), CLOSING))
    BY <1>1, <1>2, <1>3, <1>5, GotoIsDown
  <2>2. Close(p, f, packet) \in {Goto(f, INITIAL), Goto(f, CLOSED), Goto(f, CLOSING),
                         Goto(SendTermReq(f, packet), CLOSING), f}
    BY <1>5, StateNumbers DEF Close
  <2>3. QED
    BY <2>1, <2>2, DownIsValid
<1>6. QED
  BY <1>4, <1>5

LEMMA AnswerSent ==
  ASSUME NEW p, NEW f, Valid(p, f), NEW m, NEW delay
  PROVE  Valid(p, SendTermAck(f, m, delay))
BY ValidFacts, SendTermAckKeeps, SameIsValid

LEMMA RecvTermReqValid ==
  ASSUME NEW p, NEW f, Valid(p, f), NEW m
  PROVE  Valid(p, RecvTermReq(p, f, m))
<1>1. IsMachine(f) /\ (f.STATE # OPENED => f.LINK = FALSE)
  BY ValidFacts
<1>2. CASE f.STATE = OPENED
  <2>1. PICK g : g = SendTermAck(LinkDown(f), m, TRUE)
    OBVIOUS
  <2>2. Same(g, LinkDown(f))
    BY <2>1, LinkDownDrops, SendTermAckKeeps
  <2>3. IsMachine(g) /\ g.LINK = FALSE
    BY <2>2, LinkDownDrops DEF Same
  <2>4. Down(Goto(g, STOPPING))
    BY <2>3, GotoIsDown, RestStates
  <2>5. RecvTermReq(p, f, m) = Goto(g, STOPPING)
    BY <1>2, <2>1, StateNumbers DEF RecvTermReq
  <2>6. QED
    BY <2>4, <2>5, DownIsValid
<1>3. CASE f.STATE # OPENED
  <2>1. Down(Goto(f, REQ_SENT))
    BY <1>1, <1>3, GotoIsDown, RestStates
  <2>2. /\ Valid(p, SendTermAck(Goto(f, REQ_SENT), m, FALSE))
        /\ Valid(p, SendTermAck(f, m, FALSE))
    BY <2>1, DownIsValid, AnswerSent
  <2>3. RecvTermReq(p, f, m) \in {SendTermAck(Goto(f, REQ_SENT), m, FALSE),
                                  SendTermAck(f, m, FALSE)}
    BY <1>3 DEF RecvTermReq
  <2>4. QED
    BY <2>2, <2>3
<1>4. QED
  BY <1>2, <1>3

\* The state before CLOSING and STOPPING that each of them leads back to
LEMMA TwoBack ==
  ASSUME NEW f, f.STATE \in {CLOSING, STOPPING}
  PROVE  f.STATE - 2 \in Rest
BY StateNumbers, RestStates

LEMMA RecvTermAckValid ==
  ASSUME NEW p, NEW f, Valid(p, f), NEW m
  PROVE  Valid(p, RecvTermAck(p, f, m))
<1>1. IsMachine(f) /\ (f.STATE # OPENED => f.LINK = FALSE)
  BY ValidFacts
<1>2. CASE f.STATE \in {CLOSING, STOPPING}
  <2>1. f.STATE # OPENED /\ f.STATE - 2 \in Rest
    BY <1>2, TwoBack, StateNumbers
  <2>2. PICK s \in Rest : s = f.STATE - 2
    BY <2>1
  <2>3. Down(Goto(Post(f, Stop), s))
    BY <1>1, <2>1, PostGoto
  <2>4. RecvTermAck(p, f, m) = Goto(Post(f, Stop), s)
    <3>1. RecvTermAck(p, f, m) = Goto(Post(f, Stop), f.STATE - 2)
      <4>1. f.STATE # ACK_RCVD /\ f.STATE # OPENED
        BY <1>2, StateNumbers
      <4>2. QED
        BY <1>2, <4>1, Zenon DEF RecvTermAck
    <3>2. QED
      BY <2>2, <3>1
  <2>5. QED
    BY <2>3, <2>4, DownIsValid
<1>3. CASE f.STATE = ACK_RCVD
  <2>1. Down(Goto(f, REQ_SENT))
    <3>1. f.STATE # OPENED
      BY <1>3, StateNumbers
    <3>2. QED
      BY <1>1, <3>1, GotoIsDown, RestStates
  <2>2. RecvTermAck(p, f, m) = Goto(f, REQ_SENT)
    BY <1>3, StateNumbers DEF RecvTermAck
  <2>3. QED
    BY <2>1, <2>2, DownIsValid
<1>4. CASE f.STATE = OPENED
  <2>1. Down(Begin(p, LinkDown(f), TRUE))
    BY LinkDownDrops, BeginIsDown
  <2>2. RecvTermAck(p, f, m) = Begin(p, LinkDown(f), TRUE)
    BY <1>4, StateNumbers DEF RecvTermAck
  <2>3. QED
    BY <2>1, <2>2, DownIsValid
<1>5. CASE f.STATE \notin {CLOSING, STOPPING} /\ f.STATE # ACK_RCVD /\ f.STATE # OPENED
  BY <1>5 DEF RecvTermAck
<1>6. QED
  BY <1>2, <1>3, <1>4, <1>5

LEMMA TimeoutValid ==
  ASSUME NEW p, NEW f, Valid(p, f), NEW hard
  PROVE  Valid(p, Timeout(f, hard))
<1>1. IsMachine(f) /\ f.STATE \in States /\ (f.STATE # OPENED => f.LINK = FALSE)
  BY ValidFacts
<1>2. CASE f.STATE \in {CLOSING, STOPPING} /\ hard
  <2>1. f.STATE # OPENED /\ f.STATE - 2 \in Rest
    BY <1>2, TwoBack, StateNumbers
  <2>2. PICK s \in Rest : s = f.STATE - 2
    BY <2>1
  <2>3. Down(Goto(f, s))
    BY <1>1, <2>1, GotoIsDown
  <2>4. Timeout(f, hard) = Goto(f, s)
    BY <1>2, <2>2, StateNumbers DEF Timeout
  <2>5. QED
    BY <2>3, <2>4, DownIsValid
<1>3. CASE ~(f.STATE \in {CLOSING, STOPPING} /\ hard) /\ f.STATE # OPENED
  <2>1. Down(Goto(f, STOPPED)) /\ Down(Goto(f, REQ_SENT))
    BY <1>1, <1>3, GotoIsDown, RestStates
  <2>2. Timeout(f, hard) \in {Goto(f, STOPPED), Goto(f, REQ_SENT), f}
    BY <1>3 DEF Timeout
  <2>3. QED
    BY <2>1, <2>2, DownIsValid
<1>4. CASE f.STATE = OPENED
  BY <1>4, StateNumbers DEF Timeout
<1>5. QED
  BY <1>2, <1>3, <1>4

LEMMA RecvConfNakValid ==
  ASSUME NEW p, NEW f, Valid(p, f), NEW m
  PROVE  Valid(p, RecvConfNak(p, f, m))
<1> DEFINE g == IF f.STATE < OPENED THEN [f EXCEPT !.RECV_NEG = Revised(p, @, m)] ELSE f
<1>1. IsMachine(f) /\ f.STATE \in States /\ (f.STATE # OPENED => f.LINK = FALSE)
  BY ValidFacts
<1>2. CASE f.STATE = OPENED
  <2>1. g = f
    BY <1>2, StateNumbers
  <2>2. RecvConfNak(p, f, m) = Begin(p, LinkDown(f), TRUE)
    BY <1>2, <2>1, StateNumbers DEF RecvConfNak
  <2>3. Down(Begin(p, LinkDown(f), TRUE))
    BY LinkDownDrops, BeginIsDown
  <2>4. QED
    BY <2>2, <2>3, DownIsValid
<1>3. CASE f.STATE # OPENED
  <2>1. PICK u : g = [f EXCEPT !.RECV_NEG = u]
    <3>1. f.STATE < OPENED
      BY <1>1, <1>3, StateNumbers
    <3>2. g = [f EXCEPT !.RECV_NEG = Revised(p, @, m)]
      BY <3>1
    <3>3. QED
      BY <3>2
  <2>2. IsMachine(g) /\ g.STATE = f.STATE /\ g.LINK = f.LINK
    BY <1>1, <2>1, ReceivedSet
  <2>3. g.LINK = FALSE
    BY <1>1, <1>3, <2>2
  <2> HIDE DEF g
  <2>4. CASE f.STATE = ACK_RCVD
    <3>1. RecvConfNak(p, f, m) = Begin(p, g, TRUE)
      BY <2>4, StateNumbers DEF RecvConfNak, g
    <3>2. QED
      BY <2>2, <2>3, <3>1, BeginIsDown, DownIsValid
  <2>5. CASE f.STATE # ACK_RCVD
    <3>1. Down(g)
      BY <1>1, <1>3, <2>2, <2>3, <2>5 DEF Down, Rest
    <3>2. Valid(p, g) /\ Valid(p, SendTermAck(g, m, FALSE))
      BY <3>1, DownIsValid, AnswerSent
    <3>3. Down(SendConfReq(p, g, TRUE))
      <4>1. /\ IsMachine(SendConfReq(p, g, TRUE)) /\ SendConfReq(p, g, TRUE).STATE = g.STATE
            /\ SendConfReq(p, g, TRUE).LINK = g.LINK
        <5>1. PICK packet : packet = TRUE
          OBVIOUS
        <5>2. /\ IsMachine(SendConfReq(p, g, packet))
              /\ SendConfReq(p, g, packet).STATE = g.STATE
              /\ SendConfReq(p, g, packet).LINK = g.LINK
          BY <2>2, SendConfReqKeeps
        <5>3. QED
          BY <5>1, <5>2, Zenon
      <4>2. SendConfReq(p, g, TRUE).LINK = FALSE
        BY <2>3, <4>1
      <4>3. QED
        BY <3>1, <4>1, <4>2 DEF Down
    <3>4. RecvConfNak(p, f, m) \in {SendTermAck(g, m, FALSE), SendConfReq(p, g, TRUE), g}
      BY <1>3, <2>5 DEF RecvConfNak, g
    <3>5. QED
      BY <3>2, <3>3, <3>4, DownIsValid
  <2>6. QED
    BY <2>4, <2>5
<1>4. QED
  BY <1>2, <1>3

LEMMA RecvConfAckValid ==
  ASSUME NEW p, NEW f, Valid(p, f), NEW m, IsForUs(f, m), m.code = "ACK",
         m.opts # Nothing
  PROVE  Valid(p, RecvConfAck(p, f, m))
<1> DEFINE g == Acknowledged(f, m)
<1>1. IsMachine(f) /\ f.STATE \in States /\ (f.STATE # OPENED => f.LINK = FALSE)
  BY ValidFacts
<1>2. CASE f.STATE = OPENED
  <2>1. g = f
    BY <1>2, StateNumbers DEF Acknowledged
  <2>2. RecvConfAck(p, f, m) = Begin(p, LinkDown(f), TRUE)
    BY <1>2, <2>1, StateNumbers DEF RecvConfAck
  <2>3. Down(Begin(p, LinkDown(f), TRUE))
    BY LinkDownDrops, BeginIsDown
  <2>4. QED
    BY <2>2, <2>3, DownIsValid
<1>3. CASE f.STATE # OPENED
  <2>1. PICK u : u = [id |-> m.id, opts |-> m.opts]
    OBVIOUS
  <2>2. g = [f EXCEPT !.RECV_OPT = u]
    BY <1>1, <1>3, <2>1, StateNumbers DEF Acknowledged
  <2>3. /\ IsMachine(g) /\ g.STATE = f.STATE /\ g.LINK = f.LINK
        /\ g.RECV_OPT = u /\ g.REQID = f.REQID /\ g.RECV_NEG = f.RECV_NEG
    <3> HIDE DEF g
    <3>1. LET t == [f EXCEPT !.RECV_OPT = u]
          IN  /\ IsMachine(t) /\ t.STATE = f.STATE /\ t.LINK = f.LINK
              /\ t.RECV_OPT = u /\ t.REQID = f.REQID /\ t.RECV_NEG = f.RECV_NEG
      BY <1>1, ReceivedSet, Zenon
    <3>2. QED
      BY <2>2, <3>1
  <2>4. g.LINK = FALSE
    BY <1>1, <1>3, <2>3
  <2>5. Accepted(g)
    BY <2>1, <2>3 DEF Accepted, IsForUs
  <2> HIDE DEF g
  <2>6. CASE f.STATE \in {ACK_RCVD, ACK_SENT}
    <3>1. Down(Begin(p, g, TRUE)) /\ Valid(p, Up(p, g, TRUE))
      BY <2>3, <2>4, <2>5, BeginIsDown, UpIsValid
    <3>2. RecvConfAck(p, f, m) \in {Begin(p, g, TRUE), Up(p, g, TRUE)}
      <4>1. CASE f.STATE = ACK_RCVD
        BY <4>1, StateNumbers DEF RecvConfAck, g
      <4>2. CASE f.STATE = ACK_SENT
        BY <4>2, StateNumbers DEF RecvConfAck, g
      <4>3. QED
        BY <2>6, <4>1, <4>2
    <3>3. QED
      BY <3>1, <3>2, DownIsValid
  <2>7. CASE f.STATE = REQ_SENT
    <3>1. PICK h : h = Goto(g, ACK_RCVD)
      OBVIOUS
    <3>2. /\ IsMachine(h) /\ h.STATE = ACK_RCVD /\ h.LINK = g.LINK
          /\ h.RECV_OPT = g.RECV_OPT /\ h.REQID = g.REQID /\ h.RECV_NEG = g.RECV_NEG
      BY <2>3, <3>1, GotoGoes
    <3>3. h.LINK = FALSE
      BY <2>4, <3>2
    <3>4. Accepted(h)
      BY <2>5, <3>2 DEF Accepted
    <3>5. Valid(p, h)
      BY <3>2, <3>3, <3>4, StateNumbers DEF Valid
    <3>6. RecvConfAck(p, f, m) = Post(h, Restart)
      BY <2>7, <3>1, StateNumbers DEF RecvConfAck, g
    <3>7. QED
      BY <3>2, <3>5, <3>6, PostKeeps, SameIsValid
  <2>8. CASE f.STATE \notin {ACK_RCVD, ACK_SENT, REQ_SENT}
    <3>1. Down(g)
      BY <1>1, <1>3, <2>3, <2>4, <2>8 DEF Down, Rest
    <3>2. Valid(p, g) /\ Valid(p, SendTermAck(g, m, FALSE))
      BY <3>1, DownIsValid, AnswerSent
    <3>3. RecvConfAck(p, f, m) \in {SendTermAck(g, m, FALSE), g}
      BY <1>3, <2>8 DEF RecvConfAck, g
    <3>4. QED
      BY <3>2, <3>3
  <2>9. QED
    BY <2>6, <2>7, <2>8
<1>4. QED
  BY <1>2, <1>3

LEMMA RecvConfReqValid ==
  ASSUME NEW p, NEW f, Valid(p, f), NEW m, NEW packet
  PROVE  Valid(p, RecvConfReq(p, f, m, packet))
<1> DEFINE g == CASE f.STATE = OPENED -> Begin(p, LinkDown(f), packet)
                  [] f.STATE = STOPPED -> Begin(p, f, packet)
                  [] OTHER -> f
           reply == Answer(p, m.opts, g.NAKS >= MaxNaks)
           h == Post(g, Send(Packet(reply.code, m.id, reply.opts), 0))
           agreed == [h EXCEPT !.SEND_OPT = [id |-> m.id, opts |-> m.opts]]
           up == Up(p, agreed, packet)
           acked == [agreed EXCEPT !.STATE = ACK_SENT, !.NAKS = 0]
           both == [up EXCEPT !.NAKS = IF up.LINK THEN 0 ELSE @]
           other == [h EXCEPT !.STATE = IF @ = ACK_RCVD THEN @ ELSE REQ_SENT,
                              !.NAKS = IF reply.code = "NAK" THEN @ + 1 ELSE @]
<1>1. IsMachine(f) /\ f.STATE \in States /\ (f.STATE # OPENED => f.LINK = FALSE)
  BY ValidFacts
<1>2. Valid(p, g) /\ g.STATE # OPENED
  <2>1. CASE f.STATE = OPENED
    <3>1. Down(Begin(p, LinkDown(f), packet))
      BY LinkDownDrops, BeginIsDown
    <3>2. g = Begin(p, LinkDown(f), packet)
      BY <2>1, StateNumbers
    <3>3. QED
      BY <3>1, <3>2, DownIsValid, RestStates DEF Down
  <2>2. CASE f.STATE = STOPPED
    <3>1. f.STATE # OPENED
      BY <2>2, StateNumbers
    <3>2. Down(Begin(p, f, packet))
      BY <1>1, <3>1, BeginIsDown
    <3>3. g = Begin(p, f, packet)
      BY <2>2, <3>1, StateNumbers
    <3>4. QED
      BY <3>2, <3>3, DownIsValid, RestStates DEF Down
  <2>3. CASE f.STATE # OPENED /\ f.STATE # STOPPED
    BY <2>3
  <2>4. QED
    BY <2>1, <2>2, <2>3
<1> HIDE DEF g
<1>3. Valid(p, h) /\ h.STATE = g.STATE
  BY <1>2, ValidFacts, PostKeeps, SameIsValid DEF Same
<1> HIDE DEF h
<1>4. Valid(p, agreed) /\ agreed.STATE = h.STATE
  <2>1. Same(agreed, h)
    BY <1>3, ValidFacts, AgreedSet
  <2>2. QED
    BY <1>3, <2>1, SameIsValid DEF Same
<1> HIDE DEF agreed
<1>5. /\ IsMachine(h) /\ h.LINK = FALSE
      /\ IsMachine(agreed) /\ agreed.LINK = FALSE
  BY <1>2, <1>3, <1>4, ValidFacts
<1>6. Valid(p, acked)
  <2>1. IsMachine(acked) /\ acked.STATE = ACK_SENT /\ acked.LINK = agreed.LINK
    <3>1. acked = Going(agreed, ACK_SENT, 0)
      BY DEF Going
    <3>2. QED
      BY <1>5, <3>1, GoneSet
  <2>2. acked.LINK = FALSE
    BY <1>5, <2>1
  <2> HIDE DEF acked
  <2>3. Down(acked)
    BY <2>1, <2>2, RestStates DEF Down
  <2>4. QED
    BY <2>3, DownIsValid
<1>7. ASSUME h.STATE = ACK_RCVD
      PROVE  Valid(p, both)
  <2>1. Accepted(agreed)
    BY <1>4, <1>7, ValidFacts
  <2>2. Valid(p, up) /\ IsMachine(up)
    BY <1>5, <2>1, UpIsValid
  <2> HIDE DEF up
  <2>3. PICK v : both = [up EXCEPT !.NAKS = v]
    OBVIOUS
  <2>4. Same(both, up)
    BY <2>2, <2>3, AgreedSet
  <2>5. QED
    BY <2>2, <2>4, SameIsValid
<1>8. Valid(p, other)
  <2>1. PICK v : other = [h EXCEPT !.STATE = IF @ = ACK_RCVD THEN @ ELSE REQ_SENT, !.NAKS = v]
    OBVIOUS
  <2>2. CASE h.STATE = ACK_RCVD
    <3>1. other = Going(h, h.STATE, v)
      BY <2>1, <2>2 DEF Going
    <3>2. Same(Going(h, h.STATE, v), h)
      BY <1>5, GoneSet DEF Same
    <3>3. Same(other, h)
      BY <3>1, <3>2
    <3>4. QED
      BY <1>3, <3>3, SameIsValid
  <2>3. CASE h.STATE # ACK_RCVD
    <3>1. other = Going(h, REQ_SENT, v)
      BY <2>1, <2>3 DEF Going
    <3>2. /\ IsMachine(Going(h, REQ_SENT, v)) /\ Going(h, REQ_SENT, v).STATE = REQ_SENT
          /\ Going(h, REQ_SENT, v).LINK = h.LINK
      BY <1>5, GoneSet
    <3>3. IsMachine(other) /\ other.STATE = REQ_SENT /\ other.LINK = h.LINK
      BY <3>1, <3>2
    <3> HIDE DEF other
    <3>4. other.LINK = FALSE
      BY <1>5, <3>3
    <3>5. Down(other)
      BY <3>3, <3>4, RestStates DEF Down
    <3>6. QED
      BY <3>5, DownIsValid
  <2>4. QED
    BY <2>2, <2>3
<1>9. Valid(p, SendTermAck(f, m, FALSE))
  BY AnswerSent
<1>10. \/ RecvConfReq(p, f, m, packet) \in {SendTermAck(f, m, FALSE), f, acked, other}
       \/ h.STATE = ACK_RCVD /\ RecvConfReq(p, f, m, packet) = both
  BY DEF RecvConfReq, g, h, agreed
<1>11. QED
  BY <1>6, <1>7, <1>8, <1>9, <1>10

\* Every machine of the line is sound.
LineInv == fsm = [p \in Peers |-> fsm[p]] /\ \A p \in Peers : Valid(p, fsm[p])

LEMMA LineStep ==
  ASSUME LineInv, NEW p \in Peers, NEW g, Valid(p, g),
         fsm' = [fsm EXCEPT ![p] = g], setup' = setup
  PROVE  LineInv'
<1>1. fsm' = [q \in Peers |-> IF q = p THEN g ELSE fsm[q]]
  BY DEF LineInv
<1>2. ASSUME NEW q \in Peers
      PROVE  Valid(q, fsm[q])' <=> Valid(q, fsm'[q])
  BY DEF Valid, IsMachine, Admits, Accepted
<1>3. ASSUME NEW q \in Peers
      PROVE  Valid(q, fsm'[q])
  <2>1. CASE q = p
    BY <1>1, <2>1
  <2>2. CASE q # p
    <3>1. fsm'[q] = fsm[q]
      BY <1>1, <2>2
    <3>2. Valid(q, fsm[q])
      BY DEF LineInv
    <3>3. QED
      BY <3>1, <3>2
  <2>3. QED
    BY <2>1, <2>2
<1>4. fsm' = [q \in Peers |-> fsm'[q]]
  BY <1>1
<1>5. QED
  BY <1>2, <1>3, <1>4 DEF LineInv

LEMMA LineStays ==
  ASSUME LineInv, fsm' = fsm, setup' = setup
  PROVE  LineInv'
BY DEF LineInv, Valid, IsMachine, Admits, Accepted

\* Memory short or not, a machine becomes what its handler makes of it, but
\* for the messages that are lost.
LEMMA LineBecome ==
  ASSUME LineInv, NEW p \in Peers, NEW packet, NEW g, Valid(p, g), Become(p, packet, g),
         setup' = setup
  PROVE  LineInv'
<1>1. CASE fsm' = [fsm EXCEPT ![p] = g]
  BY <1>1, LineStep
<1>2. CASE \E kept : fsm' = [fsm EXCEPT ![p] = [g EXCEPT !.out = kept]]
  <2>1. PICK kept : fsm' = [fsm EXCEPT ![p] = [g EXCEPT !.out = kept]]
    BY <1>2
  <2>2. PICK h : h = [g EXCEPT !.out = kept]
    OBVIOUS
  <2>3. Valid(p, h)
    BY <2>2, ValidFacts, OutSet, SameIsValid
  <2>4. fsm' = [fsm EXCEPT ![p] = h]
    BY <2>1, <2>2
  <2>5. QED
    BY <2>3, <2>4, LineStep
<1>3. QED
  BY <1>1, <1>2 DEF Become

\* The next frame is no acknowledgement without options.
Framed == \A p \in Peers : wire[p] # <<>> => Head(wire[p]).opts # Nothing

LEMMA LineInit ==
  ASSUME PppInit
  PROVE  LineInv
<1>1. ASSUME NEW p \in Peers
      PROVE  fsm[p] = Fresh(p)
  BY DEF PppInit
<1>2. ASSUME NEW p \in Peers
      PROVE  Down(Fresh(p))
  <2>1. IsMachine(Fresh(p))
    BY DEF IsMachine, Fresh
  <2>2. Fresh(p).STATE = INITIAL /\ Fresh(p).LINK = FALSE
    BY DEF Fresh
  <2>3. QED
    BY <2>1, <2>2, RestStates DEF Down
<1>3. \A p \in Peers : Valid(p, fsm[p])
  BY <1>1, <1>2, DownIsValid
<1>4. fsm = [p \in Peers |-> fsm[p]]
  BY DEF PppInit
<1>5. QED
  BY <1>3, <1>4 DEF LineInv

LEMMA LineCall ==
  ASSUME LineInv, NEW p \in Peers, Call(p)
  PROVE  LineInv'
<1>1. Valid(p, fsm[p])
  BY DEF LineInv
<1>2. ASSUME NEW op, NEW packet, NEW g, Valid(p, g), Called(p, op, packet, g)
      PROVE  LineInv'
  BY <1>2, LineBecome DEF Called
<1>3. CASE PPPFSM_lowerup(p)
  BY <1>1, <1>2, <1>3, LowerUpValid DEF PPPFSM_lowerup
<1>4. CASE PPPFSM_lowerdown(p)
  BY <1>1, <1>2, <1>4, LowerDownValid DEF PPPFSM_lowerdown
<1>5. CASE PPPFSM_open(p)
  BY <1>1, <1>2, <1>5, OpenValid DEF PPPFSM_open
<1>6. CASE PPPFSM_close(p)
  BY <1>1, <1>2, <1>6, CloseValid DEF PPPFSM_close
<1>7. QED
  BY <1>3, <1>4, <1>5, <1>6 DEF Call

LEMMA LineInput ==
  ASSUME LineInv, Framed, NEW p \in Peers, Input(p)
  PROVE  LineInv'
<1>1. Valid(p, fsm[p])
  BY DEF LineInv
<1>2. ASSUME NEW code, NEW packet, NEW g, Valid(p, g), Received(p, code, packet, g)
      PROVE  LineInv'
  BY <1>2, LineBecome DEF Received
<1>3. CASE InputConfReq(p)
  BY <1>1, <1>2, <1>3, RecvConfReqValid DEF InputConfReq
<1>4. CASE InputConfAck(p)
  <2>1. /\ IsForUs(fsm[p], Head(wire[p])) /\ Head(wire[p]).code = "ACK"
        /\ Head(wire[p]).opts # Nothing
    BY <1>4 DEF InputConfAck, Received, Framed
  <2>2. QED
    BY <1>1, <1>2, <1>4, <2>1, RecvConfAckValid DEF InputConfAck
<1>5. CASE InputConfNak(p)
  BY <1>1, <1>2, <1>5, RecvConfNakValid DEF InputConfNak
<1>6. CASE InputTermReq(p)
  BY <1>1, <1>2, <1>6, RecvTermReqValid DEF InputTermReq
<1>7. CASE InputTermAck(p)
  BY <1>1, <1>2, <1>7, RecvTermAckValid DEF InputTermAck
<1>8. CASE InputDropped(p)
  BY <1>8, LineStays DEF InputDropped
<1>9. QED
  BY <1>3, <1>4, <1>5, <1>6, <1>7, <1>8 DEF Input

LEMMA LineTransmit ==
  ASSUME LineInv, NEW p \in Peers, Transmit(p)
  PROVE  LineInv'
<1>1. Valid(p, fsm[p])
  BY DEF LineInv
<1>2. ASSUME NEW cmd, Taken(p, cmd)
      PROVE  LineInv'
  <2>1. PICK g : g = [fsm[p] EXCEPT !.out = Tail(@)]
    OBVIOUS
  <2>2. Same(g, fsm[p])
    <3>1. PICK f, u : f = fsm[p] /\ u = Tail(fsm[p].out)
      OBVIOUS
    <3>2. IsMachine(f) /\ g = [f EXCEPT !.out = u]
      BY <1>1, <2>1, <3>1, ValidFacts
    <3>3. Same(g, f)
      BY <3>2 DEF Same, IsMachine
    <3>4. QED
      BY <3>1, <3>3
  <2>3. Valid(p, g)
    BY <1>1, <2>2, SameIsValid
  <2>4. fsm' = [fsm EXCEPT ![p] = g] /\ setup' = setup
    BY <1>2, <2>1 DEF Taken
  <2>5. QED
    BY <2>3, <2>4, LineStep
<1>3. CASE TimedOut(p)
  <2>1. PICK hard : fsm' = [fsm EXCEPT ![p] = Timeout(@, hard)] /\ setup' = setup
    BY <1>3 DEF TimedOut
  <2>2. PICK g : g = Timeout(fsm[p], hard)
    OBVIOUS
  <2>3. Valid(p, g)
    BY <1>1, <2>2, TimeoutValid
  <2>4. fsm' = [fsm EXCEPT ![p] = g] /\ setup' = setup
    BY <2>1, <2>2
  <2>5. QED
    BY <2>3, <2>4, LineStep
<1>4. CASE TakeSend(p) \/ TakeRestart(p) \/ TakeStop(p)
  BY <1>2, <1>4 DEF TakeSend, TakeRestart, TakeStop
<1>5. QED
  BY <1>3, <1>4 DEF Transmit

LEMMA LineNext ==
  ASSUME LineInv, Framed, [PppNext]_pppVars
  PROVE  LineInv'
<1>1. CASE UNCHANGED pppVars
  BY <1>1, LineStays DEF pppVars
<1>2. ASSUME NEW p \in Peers, Expire(p) \/ Lose(p)
      PROVE  LineInv'
  BY <1>2, LineStays DEF Expire, Lose
<1>3. QED
  BY <1>1, <1>2, LineCall, LineInput, LineTransmit DEF PppNext

-----------------------------------------------------------------------------
(***************************************************************************)
(* What the two ends hold and send, memory or not. The options of every    *)
(* frame are among those that exist (IsFrame), so no end sends the empty   *)
(* acknowledgement that IsForUs accepts; a handler keeps its machine and   *)
(* its messages well formed (Proper), and so do messages lost for want of  *)
(* memory (Remains). TypedLine says so of both ends, of the line between   *)
(* them and of the transmit tasks, and bounds their numbers.               *)
(***************************************************************************)

\* A packet to be sent, with its retries
IsSend(m) == m = Send(m.pkt, m.retry)

LEMMA SendFacts ==
  ASSUME NEW pkt, NEW r
  PROVE  /\ IsSend(Send(pkt, r)) /\ Send(pkt, r).retry = r
         /\ Send(pkt, r).pkt = pkt
         /\ \A m : IsSend(m) => m.cmd = "SEND"
<1>1. IsSend(Send(pkt, r)) /\ Send(pkt, r).retry = r /\ Send(pkt, r).pkt = pkt
  BY DEF IsSend, Send
<1>2. ASSUME NEW m, IsSend(m)
      PROVE  m.cmd = "SEND"
  <2>1. PICK x, y : x = m.pkt /\ y = m.retry
    OBVIOUS
  <2>2. m = [cmd |-> "SEND", pkt |-> x, retry |-> y]
    BY <1>2, <2>1 DEF IsSend, Send
  <2>3. QED
    BY <2>2
<1>3. QED
  BY <1>1, <1>2

\* A message for the transmit task, its retries within conf.
IsMessage(m, conf) ==
  \/ m = Stop \/ m = Restart
  \/ IsSend(m) /\ m.retry \in 0 .. conf

\* The fields a handler computes with keep to their values.
Fielded(f) ==
  /\ f.CURID \in Nat /\ f.REQID \in -1 .. f.CURID - 1
  /\ f.NAKS \in 0 .. MaxNaks
  /\ DOMAIN f.RECV_NEG \subseteq {"accm", "ap"}

\* g has the fields of f that are typed.
SameFields(g, f) ==
  /\ g.CURID = f.CURID /\ g.REQID = f.REQID
  /\ g.NAKS = f.NAKS /\ g.RECV_NEG = f.RECV_NEG

LEMMA SameFielded ==
  ASSUME NEW f, NEW g, Fielded(f), SameFields(g, f)
  PROVE  Fielded(g)
BY DEF Fielded, SameFields

LEMMA PostOut ==
  ASSUME NEW f, IsMachine(f), NEW m
  PROVE  /\ Post(f, m).out = Append(f.out, m) /\ SameFields(Post(f, m), f)
         /\ IsMachine(Post(f, m)) /\ Post(f, m).STATE = f.STATE
         /\ Post(f, m).LINK = f.LINK
<1>1. PICK u : u = Append(f.out, m)
  OBVIOUS
<1>2. Post(f, m) = [f EXCEPT !.out = u]
  BY <1>1 DEF Post
<1>3. PICK e : e = [f EXCEPT !.out = u]
  OBVIOUS
<1>4. /\ e.out = u /\ e.CURID = f.CURID /\ e.NAKS = f.NAKS
      /\ e.REQID = f.REQID /\ e.RECV_NEG = f.RECV_NEG
  BY <1>3 DEF IsMachine
<1>5. QED
  BY <1>1, <1>2, <1>3, <1>4, PostKeeps DEF SameFields, Same

LEMMA GotoOut ==
  ASSUME NEW f, IsMachine(f), NEW s
  PROVE  /\ Goto(f, s).out = f.out /\ SameFields(Goto(f, s), f)
         /\ IsMachine(Goto(f, s)) /\ Goto(f, s).STATE = s
<1>1. PICK e : e = [f EXCEPT !.STATE = s]
  OBVIOUS
<1>2. /\ e.out = f.out /\ e.CURID = f.CURID /\ e.NAKS = f.NAKS
      /\ e.REQID = f.REQID /\ e.RECV_NEG = f.RECV_NEG
  BY <1>1 DEF IsMachine
<1>3. QED
  BY <1>1, <1>2, GotoGoes DEF SameFields, Goto

LEMMA LinkOut ==
  ASSUME NEW f, IsMachine(f)
  PROVE  /\ LinkDown(f).out = f.out /\ SameFields(LinkDown(f), f)
         /\ IsMachine(LinkDown(f)) /\ LinkDown(f).STATE = f.STATE
         /\ LinkUp(f).out = f.out /\ SameFields(LinkUp(f), f)
         /\ IsMachine(LinkUp(f)) /\ LinkUp(f).STATE = f.STATE
         /\ LinkUp(f).LINK = TRUE
<1>1. ASSUME NEW v, NEW e, e = [f EXCEPT !.LINK = v]
      PROVE  /\ e.out = f.out /\ SameFields(e, f) /\ IsMachine(e) /\ e.STATE = f.STATE
             /\ e.LINK = v
  BY <1>1 DEF IsMachine, SameFields
<1>2. QED
  BY <1>1 DEF LinkDown, LinkUp

LEMMA SetOut ==
  ASSUME NEW f, IsMachine(f), NEW v
  PROVE  /\ LET e == [f EXCEPT !.OPTIONS = v]
            IN  e.out = f.out /\ SameFields(e, f) /\ IsMachine(e) /\ e.STATE = f.STATE
         /\ LET e == [f EXCEPT !.SEND_OPT = v]
            IN  e.out = f.out /\ SameFields(e, f) /\ IsMachine(e) /\ e.STATE = f.STATE
                /\ e.LINK = f.LINK
         /\ LET e == [f EXCEPT !.RECV_OPT = v]
            IN  e.out = f.out /\ SameFields(e, f) /\ IsMachine(e) /\ e.STATE = f.STATE
         /\ LET e == [f EXCEPT !.RECV_NEG = v]
            IN  /\ e.out = f.out /\ IsMachine(e) /\ e.STATE = f.STATE
                /\ e.RECV_NEG = v /\ e.CURID = f.CURID /\ e.REQID = f.REQID
                /\ e.NAKS = f.NAKS
<1>1. LET e == [f EXCEPT !.OPTIONS = v]
      IN  e.out = f.out /\ SameFields(e, f) /\ IsMachine(e) /\ e.STATE = f.STATE
  BY DEF IsMachine, SameFields
<1>2. LET e == [f EXCEPT !.SEND_OPT = v]
      IN  e.out = f.out /\ SameFields(e, f) /\ IsMachine(e) /\ e.STATE = f.STATE
          /\ e.LINK = f.LINK
  BY DEF IsMachine, SameFields
<1>3. LET e == [f EXCEPT !.RECV_OPT = v]
      IN  e.out = f.out /\ SameFields(e, f) /\ IsMachine(e) /\ e.STATE = f.STATE
  BY DEF IsMachine, SameFields
<1>4. LET e == [f EXCEPT !.RECV_NEG = v]
      IN  /\ e.out = f.out /\ IsMachine(e) /\ e.STATE = f.STATE
          /\ e.RECV_NEG = v /\ e.CURID = f.CURID /\ e.REQID = f.REQID
          /\ e.NAKS = f.NAKS
  BY DEF IsMachine
<1>5. QED
  BY <1>1, <1>2, <1>3, <1>4

LEMMA NaksSet ==
  ASSUME NEW f, IsMachine(f), Fielded(f), NEW s, NEW v \in 0 .. MaxNaks
  PROVE  /\ Going(f, s, v).out = f.out /\ Fielded(Going(f, s, v))
         /\ [f EXCEPT !.NAKS = v].out = f.out /\ Fielded([f EXCEPT !.NAKS = v])
         /\ [f EXCEPT !.NAKS = v].STATE = f.STATE
<1>1. ASSUME NEW h, IsMachine(h), Fielded(h), NEW e, e = [h EXCEPT !.NAKS = v]
      PROVE  e.out = h.out /\ Fielded(e) /\ e.STATE = h.STATE
  <2>1. /\ e.out = h.out /\ e.STATE = h.STATE /\ e.CURID = h.CURID
        /\ e.REQID = h.REQID /\ e.RECV_NEG = h.RECV_NEG /\ e.NAKS = v
    BY <1>1 DEF IsMachine
  <2>2. QED
    BY <1>1, <2>1 DEF Fielded
<1>2. PICK g : g = Goto(f, s)
  OBVIOUS
<1>3. IsMachine(g) /\ Fielded(g) /\ g.out = f.out
  BY <1>2, GotoOut, SameFielded
<1>4. Going(f, s, v) = [g EXCEPT !.NAKS = v]
  BY <1>2 DEF Going, Goto
<1>5. PICK e : e = [g EXCEPT !.NAKS = v]
  OBVIOUS
<1>6. PICK t : t = [f EXCEPT !.NAKS = v]
  OBVIOUS
<1>7. e.out = g.out /\ Fielded(e)
  BY <1>1, <1>3, <1>5
<1>8. t.out = f.out /\ Fielded(t) /\ t.STATE = f.STATE
  BY <1>1, <1>6
<1>9. QED
  BY <1>3, <1>4, <1>5, <1>6, <1>7, <1>8

LEMMA ResetOptionsOut ==
  ASSUME NEW p, NEW f, IsMachine(f), Fielded(f)
  PROVE  /\ ResetOptions(p, f).out = f.out /\ ResetOptions(p, f).STATE = f.STATE
         /\ IsMachine(ResetOptions(p, f)) /\ Fielded(ResetOptions(p, f))
<1>1. PICK r : r = ResetOptions(p, f)
  OBVIOUS
<1>2. CASE f.STATE <= STOPPING \/ f.STATE >= OPENED
  <2>1. r = [f EXCEPT !.RECV_NEG = Wish(p), !.RECV_OPT = NoOptions,
                      !.SEND_OPT = NoOptions, !.NAKS = 0]
    BY <1>1, <1>2 DEF ResetOptions
  <2>2. PICK w : w = Wish(p)
    OBVIOUS
  <2>3. DOMAIN w \subseteq {"accm", "ap"}
    BY <2>2 DEF Wish
  <2>4. PICK o : o = NoOptions
    OBVIOUS
  <2>5. /\ r.out = f.out /\ r.STATE = f.STATE /\ r.CURID = f.CURID
        /\ r.REQID = f.REQID /\ r.RECV_NEG = w /\ r.NAKS = 0 /\ IsMachine(r)
    BY <2>1, <2>2, <2>4 DEF IsMachine
  <2>6. 0 \in 0 .. MaxNaks
    BY SetupsAssumption
  <2>7. QED
    BY <1>1, <2>3, <2>5, <2>6 DEF Fielded
<1>3. CASE ~(f.STATE <= STOPPING \/ f.STATE >= OPENED)
  BY <1>3 DEF ResetOptions
<1>4. QED
  BY <1>2, <1>3

LEMMA RevisedDomain ==
  ASSUME NEW p, NEW neg, NEW m, DOMAIN neg \subseteq {"accm", "ap"}
  PROVE  DOMAIN Revised(p, neg, m) \subseteq {"accm", "ap"}
<1>1. CASE m.code = "REJ"
  <2>1. PICK S : S = DOMAIN neg \ DOMAIN m.opts
    OBVIOUS
  <2>2. Revised(p, neg, m) = [x \in S |-> neg[x]]
    BY <1>1, <2>1 DEF Revised, Restrict
  <2>3. QED
    BY <2>1, <2>2
<1>2. CASE m.code # "REJ"
  BY <1>2 DEF Revised
<1>3. QED
  BY <1>1, <1>2

-----------------------------------------------------------------------------
(* What a machine, its timer and the line hold, memory short or not.       *)

IsFrame(pkt) == DOMAIN pkt.opts \subseteq {"accm", "ap"}

\* A message for the transmit task, with a frame
Neat(m, conf) == IsMessage(m, conf) /\ (IsSend(m) => IsFrame(m.pkt))

\* A packet that will be sent again
Packed(m, conf) == IsSend(m) /\ m.retry \in 1 .. conf /\ IsFrame(m.pkt)

\* A sequence of each
AllNeat(s, conf) == \E S : s \in Seq(S) /\ \A m \in S : Neat(m, conf)
AllPacked(s, conf) == \E S : s \in Seq(S) /\ \A m \in S : Packed(m, conf)
Frames(s) == \E S : s \in Seq(S) /\ \A m \in S : IsFrame(m)

Proper(f, conf) == IsMachine(f) /\ Fielded(f) /\ AllNeat(f.out, conf)

LEMMA NeatAppend ==
  ASSUME NEW conf, NEW s, AllNeat(s, conf), NEW m, Neat(m, conf)
  PROVE  AllNeat(Append(s, m), conf)
<1>1. PICK S : s \in Seq(S) /\ \A x \in S : Neat(x, conf)
  BY DEF AllNeat
<1>2. PICK T : T = S \cup {m}
  OBVIOUS
<1>3. Append(s, m) \in Seq(T) /\ \A x \in T : Neat(x, conf)
  BY <1>1, <1>2
<1>4. QED
  BY <1>3 DEF AllNeat

LEMMA NeatSend ==
  ASSUME NEW conf \in Nat, NEW pkt, IsFrame(pkt), NEW r \in 0 .. conf
  PROVE  Neat(Send(pkt, r), conf)
BY SendFacts DEF Neat, IsMessage

LEMMA NeatCommands ==
  ASSUME NEW conf
  PROVE  Neat(Stop, conf) /\ Neat(Restart, conf)
<1>1. ~IsSend(Stop) /\ ~IsSend(Restart)
  BY SendFacts DEF Stop, Restart
<1>2. QED
  BY <1>1 DEF Neat, IsMessage

LEMMA PostProper ==
  ASSUME NEW conf, NEW f, Proper(f, conf), NEW m, Neat(m, conf)
  PROVE  Proper(Post(f, m), conf)
<1>1. PICK g : g = Post(f, m)
  OBVIOUS
<1>2. g.out = Append(f.out, m) /\ IsMachine(g) /\ Fielded(g)
  BY <1>1, PostOut, SameFielded DEF Proper
<1>3. AllNeat(g.out, conf)
  BY <1>2, NeatAppend DEF Proper
<1>4. QED
  BY <1>1, <1>2, <1>3 DEF Proper

\* What leaves the messages and the fields of a machine alone
Kept(f, g) == g.out = f.out /\ SameFields(g, f) /\ IsMachine(g)

LEMMA KeptProper ==
  ASSUME NEW conf, NEW f, Proper(f, conf), NEW g, Kept(f, g)
  PROVE  Proper(g, conf)
BY SameFielded DEF Proper, Kept

LEMMA GotoProper ==
  ASSUME NEW conf, NEW f, Proper(f, conf), NEW s
  PROVE  Proper(Goto(f, s), conf)
BY GotoOut, KeptProper DEF Proper, Kept

LEMMA LinkProper ==
  ASSUME NEW conf, NEW f, Proper(f, conf)
  PROVE  Proper(LinkDown(f), conf) /\ Proper(LinkUp(f), conf)
BY LinkOut, KeptProper DEF Proper, Kept

LEMMA SetProper ==
  ASSUME NEW conf, NEW f, Proper(f, conf), NEW v
  PROVE  /\ Proper([f EXCEPT !.OPTIONS = v], conf)
         /\ Proper([f EXCEPT !.SEND_OPT = v], conf)
         /\ Proper([f EXCEPT !.RECV_OPT = v], conf)
         /\ DOMAIN v \subseteq {"accm", "ap"} => Proper([f EXCEPT !.RECV_NEG = v], conf)
         /\ v \in 0 .. MaxNaks => /\ Proper([f EXCEPT !.NAKS = v], conf)
                                  /\ \A s : Proper(Going(f, s, v), conf)
<1>1. PICK a, b, c : /\ a = [f EXCEPT !.OPTIONS = v] /\ b = [f EXCEPT !.SEND_OPT = v]
                     /\ c = [f EXCEPT !.RECV_OPT = v]
  OBVIOUS
<1>2. Kept(f, a) /\ Kept(f, b) /\ Kept(f, c)
  <2>1. IsMachine(f)
    BY DEF Proper
  <2>2. /\ Kept(f, [f EXCEPT !.OPTIONS = v]) /\ Kept(f, [f EXCEPT !.SEND_OPT = v])
        /\ Kept(f, [f EXCEPT !.RECV_OPT = v])
    BY <2>1, SetOut, Zenon DEF Kept
  <2>3. QED
    BY <1>1, <2>2, Zenon
<1>3. Proper(a, conf) /\ Proper(b, conf) /\ Proper(c, conf)
  BY <1>2, KeptProper
<1>4. ASSUME DOMAIN v \subseteq {"accm", "ap"}
      PROVE  Proper([f EXCEPT !.RECV_NEG = v], conf)
  <2>1. PICK e : e = [f EXCEPT !.RECV_NEG = v]
    OBVIOUS
  <2>2. /\ e.out = f.out /\ IsMachine(e) /\ e.RECV_NEG = v /\ e.CURID = f.CURID
        /\ e.REQID = f.REQID /\ e.NAKS = f.NAKS
    <3>1. IsMachine(f)
      BY DEF Proper
    <3>2. QED
      BY <2>1, <3>1 DEF IsMachine
  <2>3. QED
    BY <1>4, <2>1, <2>2 DEF Proper, Fielded
<1>5. ASSUME v \in 0 .. MaxNaks, NEW s
      PROVE  Proper([f EXCEPT !.NAKS = v], conf) /\ Proper(Going(f, s, v), conf)
  <2>1. PICK e, g : e = [f EXCEPT !.NAKS = v] /\ g = Going(f, s, v)
    OBVIOUS
  <2>2. g.out = f.out /\ Fielded(g) /\ e.out = f.out /\ Fielded(e)
    BY <1>5, <2>1, NaksSet DEF Proper
  <2>3. IsMachine(e) /\ IsMachine(g)
    BY <2>1, AgreedSet, GoneSet DEF Proper, Same
  <2>4. QED
    BY <2>1, <2>2, <2>3 DEF Proper
<1>6. QED
  BY <1>1, <1>3, <1>4, <1>5

LEMMA StopTimerProper ==
  ASSUME NEW conf, NEW f, Proper(f, conf)
  PROVE  Proper(StopTimer(f), conf)
BY PostProper, NeatCommands DEF StopTimer

LEMMA NoPacketProper ==
  ASSUME NEW conf, NEW f, Proper(f, conf)
  PROVE  Proper(NoPacket(f), conf)
<1>1. Kept(f, NoPacket(f))
  BY DEF Proper, Kept, NoPacket, IsMachine, SameFields
<1>2. QED
  BY <1>1, KeptProper

LEMMA SendConfReqProper ==
  ASSUME NEW p, NEW f, NEW packet, setup \in Setups, Proper(f, setup.conf)
  PROVE  Proper(SendConfReq(p, f, packet), setup.conf)
<1> DEFINE r == ResetOptions(p, f)
           g == StopTimer(r)
           m == Send(Packet("REQ", g.CURID, g.RECV_NEG), setup.conf)
<1>1. Proper(r, setup.conf)
  BY ResetOptionsOut DEF Proper
<1> HIDE DEF r
<1>2. Proper(g, setup.conf)
  BY <1>1, StopTimerProper
<1> HIDE DEF g
<1>3. PICK i \in Nat : i = g.CURID
  BY <1>2 DEF Proper, Fielded
<1>4. PICK t : t = [g EXCEPT !.REQID = i]
  OBVIOUS
<1>5. PICK j : j = i + 1
  OBVIOUS
<1>6. PICK h : h = [t EXCEPT !.CURID = j]
  OBVIOUS
<1>7. /\ t.REQID = i /\ t.CURID = g.CURID /\ t.NAKS = g.NAKS /\ t.RECV_NEG = g.RECV_NEG
      /\ t.out = g.out /\ IsMachine(t)
  BY <1>2, <1>4 DEF Proper, IsMachine
<1>8. /\ h.REQID = i /\ h.CURID = j /\ h.NAKS = g.NAKS /\ h.RECV_NEG = g.RECV_NEG
      /\ h.out = g.out /\ IsMachine(h)
  BY <1>6, <1>7 DEF IsMachine
<1>9. Proper(h, setup.conf)
  <2>1. i \in -1 .. j - 1 /\ j \in Nat
    BY <1>5
  <2>2. QED
    BY <1>2, <1>8, <2>1 DEF Proper, Fielded
<1>10. Neat(m, setup.conf)
  <2>1. setup.conf \in Nat
    BY SetupsAssumption
  <2>2. IsFrame(Packet("REQ", g.CURID, g.RECV_NEG))
    BY <1>2 DEF Proper, Fielded, IsFrame, Packet
  <2>3. QED
    BY <2>1, <2>2, NeatSend
<1>11. CASE packet
  <2>1. SendConfReq(p, f, packet) = Post(h, m)
    BY <1>3, <1>4, <1>5, <1>6, <1>11 DEF SendConfReq, g, r
  <2>2. QED
    BY <1>9, <1>10, <2>1, PostProper
<1>12. CASE ~packet
  <2>1. SendConfReq(p, f, packet) = NoPacket(g)
    BY <1>12 DEF SendConfReq, g, r
  <2>2. QED
    BY <1>2, <2>1, NoPacketProper
<1>13. QED
  BY <1>11, <1>12

LEMMA BareFrame ==
  ASSUME NEW c, NEW i
  PROVE  IsFrame(Packet(c, i, <<>>))
<1>1. PICK e : e = <<>>
  OBVIOUS
<1>2. DOMAIN e = {}
  BY <1>1
<1>3. QED
  BY <1>1, <1>2 DEF IsFrame, Packet

LEMMA SendTermReqProper ==
  ASSUME NEW f, NEW packet, setup \in Setups, Proper(f, setup.conf)
  PROVE  Proper(SendTermReq(f, packet), setup.conf)
<1> DEFINE g == StopTimer(f)
           m == Send(Packet("TERM_REQ", f.CURID, <<>>), MaxTerm)
<1>1. Proper(g, setup.conf)
  BY StopTimerProper
<1> HIDE DEF g
<1>2. PICK i \in Nat : i = g.CURID
  BY <1>1 DEF Proper, Fielded
<1>3. PICK j : j = i + 1
  OBVIOUS
<1>4. PICK h : h = [g EXCEPT !.CURID = j]
  OBVIOUS
<1>5. /\ h.REQID = g.REQID /\ h.CURID = j /\ h.NAKS = g.NAKS /\ h.RECV_NEG = g.RECV_NEG
      /\ h.out = g.out /\ IsMachine(h)
  BY <1>1, <1>4 DEF Proper, IsMachine
<1>6. Proper(h, setup.conf)
  <2>1. \A x \in -1 .. i - 1 : x \in -1 .. j - 1
    BY <1>3
  <2>2. j \in Nat
    BY <1>3
  <2>3. QED
    BY <1>1, <1>2, <1>5, <2>1, <2>2 DEF Proper, Fielded
<1>7. Neat(m, setup.conf)
  <2>1. setup.conf \in Nat /\ MaxTerm \in 0 .. setup.conf
    BY SetupsAssumption
  <2>2. QED
    BY <2>1, BareFrame, NeatSend
<1>8. CASE packet
  <2>1. SendTermReq(f, packet) = Post(h, m)
    BY <1>2, <1>3, <1>4, <1>8 DEF SendTermReq, g
  <2>2. QED
    BY <1>6, <1>7, <2>1, PostProper
<1>9. CASE ~packet
  <2>1. SendTermReq(f, packet) = NoPacket(g)
    BY <1>9 DEF SendTermReq, g
  <2>2. QED
    BY <1>1, <2>1, NoPacketProper
<1>10. QED
  BY <1>8, <1>9

LEMMA SendTermAckProper ==
  ASSUME setup \in Setups, NEW f, Proper(f, setup.conf), NEW m, NEW delay
  PROVE  Proper(SendTermAck(f, m, delay), setup.conf)
<1>1. PICK r : r = IF delay THEN 1 ELSE 0
  OBVIOUS
<1>2. setup.conf \in Nat /\ r \in 0 .. setup.conf
  BY <1>1, SetupsAssumption
<1>3. Neat(Send(Packet("TERM_ACK", m.id, <<>>), r), setup.conf)
  BY <1>2, BareFrame, NeatSend
<1>4. QED
  BY <1>1, <1>3, PostProper DEF SendTermAck

LEMMA BeginProper ==
  ASSUME NEW p, NEW f, NEW packet, setup \in Setups, Proper(f, setup.conf)
  PROVE  Proper(Begin(p, f, packet), setup.conf)
BY SendConfReqProper, GotoProper DEF Begin

LEMMA ShutProper ==
  ASSUME NEW f, NEW packet, setup \in Setups, Proper(f, setup.conf)
  PROVE  Proper(Goto(SendTermReq(f, packet), CLOSING), setup.conf)
BY SendTermReqProper, GotoProper

LEMMA UpProper ==
  ASSUME NEW p, NEW f, NEW packet, setup \in Setups, Proper(f, setup.conf)
  PROVE  Proper(Up(p, f, packet), setup.conf)
<1>1. Proper(Post(Goto(LinkUp(f), OPENED), Stop), setup.conf)
  BY LinkProper, GotoProper, PostProper, NeatCommands
<1>2. QED
  BY <1>1, ShutProper DEF Up

LEMMA CallsProper ==
  ASSUME NEW p, NEW f, NEW packet, NEW options, setup \in Setups, Proper(f, setup.conf)
  PROVE  /\ Proper(LowerUp(p, f, packet), setup.conf)
         /\ Proper(LowerDown(p, f), setup.conf)
         /\ Proper(Open(p, f, packet, options), setup.conf)
         /\ Proper(Close(p, f, packet), setup.conf)
<1>1. LowerUp(p, f, packet) \in {Goto(f, CLOSED), Goto(f, STOPPED), Begin(p, f, packet), f}
  BY DEF LowerUp
<1>2. LowerDown(p, f) \in {Goto(f, INITIAL), Goto(f, STARTING), Post(Goto(f, INITIAL), Stop),
                           Post(Goto(f, STARTING), Stop), Goto(LinkDown(f), STARTING), f}
  BY DEF LowerDown
<1>3. Close(p, f, packet) \in {Goto(f, INITIAL), Goto(f, CLOSED), Goto(f, CLOSING),
                               Goto(SendTermReq(f, packet), CLOSING),
                               Goto(SendTermReq(LinkDown(f), packet), CLOSING), f}
  BY DEF Close
<1> DEFINE g == [f EXCEPT !.OPTIONS = options]
           h == IF g.STATE = CLOSING THEN Goto(g, STOPPING) ELSE g
<1>4. Open(p, f, packet, options) \in {Goto(g, STARTING), Goto(g, STOPPED),
                                       Begin(p, g, packet), Begin(p, h, packet),
                                       Begin(p, LinkDown(g), packet), h}
  BY DEF Open
<1>5. Proper(g, setup.conf)
  BY SetProper
<1> HIDE DEF g
<1>6. Proper(h, setup.conf)
  BY <1>5, GotoProper
<1> HIDE DEF h
<1>7. Proper(LinkDown(f), setup.conf) /\ Proper(LinkDown(g), setup.conf)
  BY <1>5, LinkProper
<1>8. Proper(LowerUp(p, f, packet), setup.conf)
  BY <1>1, GotoProper, BeginProper
<1>9. Proper(LowerDown(p, f), setup.conf)
  BY <1>2, <1>7, GotoProper, PostProper, NeatCommands
<1>10. Proper(Close(p, f, packet), setup.conf)
  BY <1>3, <1>7, GotoProper, ShutProper
<1>11. Proper(Open(p, f, packet, options), setup.conf)
  BY <1>4, <1>5, <1>6, <1>7, GotoProper, BeginProper
<1>12. QED
  BY <1>8, <1>9, <1>10, <1>11

LEMMA EndsProper ==
  ASSUME NEW p, NEW f, NEW m, NEW hard, setup \in Setups, Proper(f, setup.conf)
  PROVE  /\ Proper(RecvTermReq(p, f, m), setup.conf)
         /\ Proper(RecvTermAck(p, f, m), setup.conf)
         /\ Proper(Timeout(f, hard), setup.conf)
<1>1. PICK s : s = f.STATE - 2
  OBVIOUS
<1>2. RecvTermReq(p, f, m) \in {SendTermAck(Goto(f, REQ_SENT), m, FALSE),
                                Goto(SendTermAck(LinkDown(f), m, TRUE), STOPPING),
                                SendTermAck(f, m, FALSE)}
  BY DEF RecvTermReq
<1>3. RecvTermAck(p, f, m) \in {Goto(Post(f, Stop), s), Goto(f, REQ_SENT),
                                Begin(p, LinkDown(f), TRUE), f}
  BY <1>1 DEF RecvTermAck
<1>4. Timeout(f, hard) \in {Goto(f, s), Goto(f, STOPPED), Goto(f, REQ_SENT), f}
  BY <1>1 DEF Timeout
<1>5. Proper(LinkDown(f), setup.conf) /\ Proper(Post(f, Stop), setup.conf)
  BY LinkProper, PostProper, NeatCommands
<1>6. Proper(RecvTermReq(p, f, m), setup.conf)
  BY <1>2, <1>5, SendTermAckProper, GotoProper
<1>7. Proper(RecvTermAck(p, f, m), setup.conf)
  BY <1>3, <1>5, BeginProper, GotoProper
<1>8. Proper(Timeout(f, hard), setup.conf)
  BY <1>4, GotoProper
<1>9. QED
  BY <1>6, <1>7, <1>8

LEMMA RecvConfNakProper ==
  ASSUME NEW p, NEW f, NEW m, setup \in Setups, Proper(f, setup.conf)
  PROVE  Proper(RecvConfNak(p, f, m), setup.conf)
<1> DEFINE g == IF f.STATE < OPENED THEN [f EXCEPT !.RECV_NEG = Revised(p, @, m)] ELSE f
<1>1. RecvConfNak(p, f, m) \in {SendTermAck(g, m, FALSE), SendConfReq(p, g, TRUE),
                                Begin(p, g, TRUE), Begin(p, LinkDown(g), TRUE), g}
  BY DEF RecvConfNak
<1>2. Proper(g, setup.conf)
  <2>1. PICK u : u = Revised(p, f.RECV_NEG, m)
    OBVIOUS
  <2>2. DOMAIN u \subseteq {"accm", "ap"}
    BY <2>1, RevisedDomain DEF Proper, Fielded
  <2>3. PICK e : e = [f EXCEPT !.RECV_NEG = u]
    OBVIOUS
  <2>4. g \in {e, f}
    BY <2>1, <2>3
  <2> HIDE DEF g
  <2>5. Proper([f EXCEPT !.RECV_NEG = u], setup.conf)
    BY <2>2, SetProper
  <2>6. QED
    BY <2>3, <2>4, <2>5
<1> HIDE DEF g
<1>3. Proper(LinkDown(g), setup.conf)
  BY <1>2, LinkProper
<1>4. QED
  BY <1>1, <1>2, <1>3, SendTermAckProper, SendConfReqProper, BeginProper

LEMMA RecvConfAckProper ==
  ASSUME NEW p, NEW f, NEW m, setup \in Setups, Proper(f, setup.conf)
  PROVE  Proper(RecvConfAck(p, f, m), setup.conf)
<1> DEFINE g == Acknowledged(f, m)
<1>1. RecvConfAck(p, f, m) \in {SendTermAck(g, m, FALSE), Post(Goto(g, ACK_RCVD), Restart),
                                Begin(p, g, TRUE), Up(p, g, TRUE),
                                Begin(p, LinkDown(g), TRUE), g}
  BY DEF RecvConfAck
<1>2. Proper(g, setup.conf)
  <2>1. PICK u : u = [id |-> m.id, opts |-> m.opts]
    OBVIOUS
  <2>2. PICK e : e = [f EXCEPT !.RECV_OPT = u]
    OBVIOUS
  <2>3. g \in {e, f}
    BY <2>1, <2>2 DEF Acknowledged
  <2> HIDE DEF g
  <2>4. Proper([f EXCEPT !.RECV_OPT = u], setup.conf)
    BY SetProper
  <2>5. QED
    BY <2>2, <2>3, <2>4
<1> HIDE DEF g
<1>3. Proper(LinkDown(g), setup.conf) /\ Proper(Goto(g, ACK_RCVD), setup.conf)
  BY <1>2, LinkProper, GotoProper
<1>4. Proper(Post(Goto(g, ACK_RCVD), Restart), setup.conf)
  BY <1>3, PostProper, NeatCommands
<1>5. QED
  BY <1>1, <1>2, <1>3, <1>4, SendTermAckProper, BeginProper, UpProper

LEMMA AnswerFrame ==
  ASSUME NEW p, NEW opts, DOMAIN opts \subseteq {"accm", "ap"}, NEW reject
  PROVE  /\ DOMAIN Answer(p, opts, reject).opts \subseteq {"accm", "ap"}
         /\ reject => Answer(p, opts, reject).code # "NAK"
<1> DEFINE local == setup.local[p]
           asked == DOMAIN opts
           refused == {n \in asked : n = "ap" /\ local = {}}
           unfit == {n \in asked :
                        IF n = "ap" THEN opts.ap \notin local
                                    ELSE ~(setup.accm[p] \subseteq opts.accm)}
           better == [n \in unfit |->
                        IF n = "ap" THEN CHOOSE a \in local : a = "chap" \/ "chap" \notin local
                                    ELSE opts.accm \cup setup.accm[p]]
<1>1. /\ DOMAIN Restrict(opts, refused) = refused
      /\ DOMAIN Restrict(opts, unfit) = unfit
      /\ DOMAIN better = unfit
  BY DEF Restrict
<1>2. refused \subseteq {"accm", "ap"} /\ unfit \subseteq {"accm", "ap"}
  OBVIOUS
<1>3. Answer(p, opts, reject).opts \in {Restrict(opts, refused), opts, Restrict(opts, unfit),
                                         better}
  BY DEF Answer
<1> HIDE DEF better, refused, unfit
<1>4. DOMAIN Answer(p, opts, reject).opts \subseteq {"accm", "ap"}
  BY <1>1, <1>2, <1>3
<1>5. reject => Answer(p, opts, reject).code # "NAK"
  BY DEF Answer
<1>6. QED
  BY <1>4, <1>5

LEMMA RecvConfReqProper ==
  ASSUME NEW p, NEW f, NEW m, NEW packet, setup \in Setups, Proper(f, setup.conf), IsFrame(m)
  PROVE  Proper(RecvConfReq(p, f, m, packet), setup.conf)
<1> DEFINE g == CASE f.STATE = OPENED -> Begin(p, LinkDown(f), packet)
                  [] f.STATE = STOPPED -> Begin(p, f, packet)
                  [] OTHER -> f
           reply == Answer(p, m.opts, g.NAKS >= MaxNaks)
           h == Post(g, Send(Packet(reply.code, m.id, reply.opts), 0))
           agreed == [h EXCEPT !.SEND_OPT = [id |-> m.id, opts |-> m.opts]]
           up == Up(p, agreed, packet)
           acked == [agreed EXCEPT !.STATE = ACK_SENT, !.NAKS = 0]
           both == [up EXCEPT !.NAKS = IF up.LINK THEN 0 ELSE @]
           other == [h EXCEPT !.STATE = IF @ = ACK_RCVD THEN @ ELSE REQ_SENT,
                              !.NAKS = IF reply.code = "NAK" THEN @ + 1 ELSE @]
<1>1. RecvConfReq(p, f, m, packet) \in {SendTermAck(f, m, FALSE), f, acked, both, other}
  BY DEF RecvConfReq
<1>2. MaxNaks \in Nat /\ setup.conf \in Nat
  BY SetupsAssumption
<1>3. Proper(g, setup.conf)
  <2>1. g \in {Begin(p, LinkDown(f), packet), Begin(p, f, packet), f}
    OBVIOUS
  <2> HIDE DEF g
  <2>2. QED
    BY <2>1, LinkProper, BeginProper
<1>4. /\ DOMAIN reply.opts \subseteq {"accm", "ap"}
      /\ g.NAKS >= MaxNaks => reply.code # "NAK"
  <2>1. PICK reject, opts : reject = (g.NAKS >= MaxNaks) /\ opts = m.opts
    OBVIOUS
  <2>2. DOMAIN opts \subseteq {"accm", "ap"}
    BY <2>1 DEF IsFrame
  <2>3. /\ DOMAIN Answer(p, opts, reject).opts \subseteq {"accm", "ap"}
        /\ reject => Answer(p, opts, reject).code # "NAK"
    BY <2>2, AnswerFrame
  <2> HIDE DEF g
  <2>4. QED
    BY <2>1, <2>3
<1> HIDE DEF g, reply
<1>5. Proper(h, setup.conf) /\ h.NAKS = g.NAKS
  <2>1. PICK x : x = Send(Packet(reply.code, m.id, reply.opts), 0)
    OBVIOUS
  <2>2. IsFrame(Packet(reply.code, m.id, reply.opts))
    BY <1>4 DEF IsFrame, Packet
  <2>3. Neat(x, setup.conf)
    BY <1>2, <2>1, <2>2, NeatSend
  <2>4. PICK e : e = Post(g, x)
    OBVIOUS
  <2>5. Proper(e, setup.conf) /\ e.NAKS = g.NAKS
    BY <1>3, <2>3, <2>4, PostProper, PostOut DEF Proper, SameFields
  <2>6. QED
    BY <2>1, <2>4, <2>5
<1> HIDE DEF h
<1>6. Proper(agreed, setup.conf)
  <2>1. PICK u : u = [id |-> m.id, opts |-> m.opts]
    OBVIOUS
  <2>2. Proper([h EXCEPT !.SEND_OPT = u], setup.conf)
    BY <1>5, SetProper
  <2>3. QED
    BY <2>1, <2>2
<1> HIDE DEF agreed
<1>7. Proper(acked, setup.conf)
  <2>1. 0 \in 0 .. MaxNaks
    BY <1>2
  <2>2. \A s : Proper(Going(agreed, s, 0), setup.conf)
    BY <1>6, <2>1, SetProper
  <2>3. acked = Going(agreed, ACK_SENT, 0)
    BY DEF Going
  <2>4. QED
    BY <2>2, <2>3
<1>8. Proper(both, setup.conf)
  <2>1. Proper(up, setup.conf)
    BY <1>6, UpProper
  <2> HIDE DEF up
  <2>2. PICK v : v = IF up.LINK THEN 0 ELSE up.NAKS
    OBVIOUS
  <2>3. v \in 0 .. MaxNaks
    BY <1>2, <2>1, <2>2 DEF Proper, Fielded
  <2>4. Proper([up EXCEPT !.NAKS = v], setup.conf)
    BY <2>1, <2>3, SetProper
  <2>5. QED
    BY <2>2, <2>4
<1>9. Proper(other, setup.conf)
  <2>1. PICK s, v : /\ s = IF h.STATE = ACK_RCVD THEN h.STATE ELSE REQ_SENT
                    /\ v = IF reply.code = "NAK" THEN h.NAKS + 1 ELSE h.NAKS
    OBVIOUS
  <2>2. other = Going(h, s, v)
    BY <2>1 DEF Going
  <2>3. h.NAKS \in 0 .. MaxNaks
    BY <1>5 DEF Proper, Fielded
  <2>4. v \in 0 .. MaxNaks
    BY <1>2, <1>4, <1>5, <2>1, <2>3
  <2>5. \A t : Proper(Going(h, t, v), setup.conf)
    BY <1>5, <2>4, SetProper
  <2>6. QED
    BY <2>2, <2>5
<1>10. Proper(SendTermAck(f, m, FALSE), setup.conf)
  BY SendTermAckProper
<1>11. QED
  BY <1>1, <1>7, <1>8, <1>9, <1>10

\* What is left of a machine's messages, and of those its handler added
LEMMA NeatRemains ==
  ASSUME NEW conf, NEW out, AllNeat(out, conf), NEW s, AllNeat(s, conf),
         NEW rest \in Remains(SubSeq(s, Len(out) + 1, Len(s)))
  PROVE  AllNeat(out \o rest, conf)
<1>1. PICK S : s \in Seq(S) /\ \A x \in S : Neat(x, conf)
  BY DEF AllNeat
<1>2. PICK T : out \in Seq(T) /\ \A x \in T : Neat(x, conf)
  BY DEF AllNeat
<1>3. PICK t : t = SubSeq(s, Len(out) + 1, Len(s))
  OBVIOUS
<1>4. t \in Seq(S)
  <2>1. \A i \in Len(out) + 1 .. Len(s) : s[i] \in S
    BY <1>1, <1>2
  <2>2. QED
    BY <1>1, <1>2, <1>3, <2>1, SubSeqProperties
<1>5. rest \in Seq(S)
  <2>1. PICK m \in 0 .. Len(t) : \E at \in [1 .. m -> 1 .. Len(t)] :
          rest = [i \in 1 .. m |-> t[at[i]]]
    <3>1. rest \in Remains(t)
      BY <1>3
    <3>2. PICK m \in 0 .. Len(t) :
            rest \in {[i \in 1 .. m |-> t[at[i]]] :
                        at \in {a \in [1 .. m -> 1 .. Len(t)] :
                                  \A i, j \in 1 .. m : i < j => a[i] < a[j]}}
      BY <3>1, Zenon DEF Remains
    <3>3. QED
      BY <3>2, Zenon
  <2>2. PICK at \in [1 .. m -> 1 .. Len(t)] : rest = [i \in 1 .. m |-> t[at[i]]]
    BY <2>1
  <2>3. m \in Nat /\ \A i \in 1 .. m : t[at[i]] \in S
    BY <1>4
  <2>4. QED
    BY <2>2, <2>3
<1>6. PICK U : U = S \cup T
  OBVIOUS
<1>7. out \in Seq(U) /\ rest \in Seq(U) /\ \A x \in U : Neat(x, conf)
  BY <1>1, <1>2, <1>5, <1>6
<1>8. out \o rest \in Seq(U)
  BY <1>7
<1>9. QED
  BY <1>7, <1>8 DEF AllNeat

\* What an update of one entry of a function leaves.
LEMMA UpdateAt ==
  ASSUME NEW S, NEW F, F = [r \in S |-> F[r]], NEW p \in S, NEW v,
         NEW G, G = [F EXCEPT ![p] = v]
  PROVE  /\ G = [r \in S |-> G[r]] /\ G[p] = v
         /\ \A r \in S : r # p => G[r] = F[r]
<1>1. G = [r \in S |-> IF r = p THEN v ELSE F[r]]
  OBVIOUS
<1>2. QED
  BY <1>1

\* G is F but for the entry of p, which is v.
Updated(F, G, p, v) == G = [F EXCEPT ![p] = v] \/ (G = F /\ v = F[p])

LEMMA UpdatedAt ==
  ASSUME NEW S, NEW F, F = [r \in S |-> F[r]], NEW p \in S, NEW v,
         NEW G, Updated(F, G, p, v)
  PROVE  /\ G = [r \in S |-> G[r]] /\ G[p] = v
         /\ \A r \in S : r # p => G[r] = F[r]
<1>1. CASE G = [F EXCEPT ![p] = v]
  BY <1>1, UpdateAt
<1>2. CASE G = F /\ v = F[p]
  BY <1>2
<1>3. QED
  BY <1>1, <1>2 DEF Updated

\* A machine, its timer and the frames on their way to it
TypedEnd(f, rx, ex, w, conf, ids) ==
  /\ Proper(f, conf) /\ f.CURID <= ids
  /\ AllPacked(rx, conf) /\ AllPacked(ex, conf) /\ Len(ex) <= 1
  /\ Frames(w)

TypedLine ==
  /\ setup \in Setups /\ losses \in 0 .. setup.losses
  /\ failures \in 0 .. setup.failures
  /\ rexmit = [r \in Peers |-> rexmit[r]]
  /\ expired = [r \in Peers |-> expired[r]]
  /\ wire = [r \in Peers |-> wire[r]]
  /\ \A r \in Peers :
       TypedEnd(fsm[r], rexmit[r], expired[r], wire[r], setup.conf, setup.ids)

LEMMA TypedUpdate ==
  ASSUME TypedLine, LineInv, NEW p \in Peers, NEW q \in Peers,
         NEW g, Updated(fsm, fsm', p, g), Proper(g, setup.conf), g.CURID <= setup.ids,
         NEW rx, Updated(rexmit, rexmit', p, rx), AllPacked(rx, setup.conf),
         NEW ex, Updated(expired, expired', p, ex), AllPacked(ex, setup.conf), Len(ex) <= 1,
         NEW w, Updated(wire, wire', q, w), Frames(w),
         setup' = setup, losses' \in 0 .. setup.losses, failures' \in 0 .. setup.failures
  PROVE  TypedLine'
<1>1. fsm'[p] = g /\ \A r \in Peers : r # p => fsm'[r] = fsm[r]
  BY UpdatedAt DEF LineInv
<1>2. /\ rexmit' = [r \in Peers |-> rexmit'[r]] /\ rexmit'[p] = rx
      /\ \A r \in Peers : r # p => rexmit'[r] = rexmit[r]
  BY UpdatedAt DEF TypedLine
<1>3. /\ expired' = [r \in Peers |-> expired'[r]] /\ expired'[p] = ex
      /\ \A r \in Peers : r # p => expired'[r] = expired[r]
  BY UpdatedAt DEF TypedLine
<1>4. /\ wire' = [r \in Peers |-> wire'[r]] /\ wire'[q] = w
      /\ \A r \in Peers : r # q => wire'[r] = wire[r]
  BY UpdatedAt DEF TypedLine
<1>5. ASSUME NEW r \in Peers
      PROVE  TypedEnd(fsm'[r], rexmit'[r], expired'[r], wire'[r], setup.conf, setup.ids)
  <2>1. TypedEnd(fsm[r], rexmit[r], expired[r], wire[r], setup.conf, setup.ids)
    BY DEF TypedLine
  <2>2. Frames(wire'[r])
    BY <1>4, <2>1 DEF TypedEnd
  <2>3. CASE r = p
    BY <1>1, <1>2, <1>3, <2>2, <2>3 DEF TypedEnd
  <2>4. CASE r # p
    BY <1>1, <1>2, <1>3, <2>1, <2>2, <2>4 DEF TypedEnd
  <2>5. QED
    BY <2>3, <2>4
<1>6. QED
  BY <1>2, <1>3, <1>4, <1>5 DEF TypedLine

LEMMA TypedAt ==
  ASSUME TypedLine, NEW p \in Peers
  PROVE  /\ Proper(fsm[p], setup.conf) /\ fsm[p].CURID <= setup.ids
         /\ AllNeat(fsm[p].out, setup.conf)
         /\ AllPacked(rexmit[p], setup.conf) /\ AllPacked(expired[p], setup.conf)
         /\ Len(expired[p]) <= 1 /\ Frames(wire[p])
         /\ setup \in Setups /\ setup.conf \in Nat /\ setup.conf >= 2
         /\ losses \in 0 .. setup.losses /\ failures \in 0 .. setup.failures
         /\ setup.losses \in Nat /\ setup.failures \in Nat
<1>1. TypedEnd(fsm[p], rexmit[p], expired[p], wire[p], setup.conf, setup.ids)
  BY DEF TypedLine
<1>2. setup \in Setups
  BY DEF TypedLine
<1>3. QED
  BY <1>1, <1>2, SetupsAssumption DEF TypedEnd, TypedLine, Proper

\* A machine becomes what its handler makes of it, but for messages lost.
LEMMA TypedBecome ==
  ASSUME TypedLine, NEW p \in Peers, NEW packet, NEW g, Proper(g, setup.conf),
         Become(p, packet, g)
  PROVE  /\ failures' \in 0 .. setup.failures
         /\ \E h : /\ Updated(fsm, fsm', p, h) /\ Proper(h, setup.conf)
                   /\ h.CURID = g.CURID
<1>1. CASE fsm' = [fsm EXCEPT ![p] = g] /\ failures' = failures
  BY <1>1, TypedAt DEF Updated
<1>2. CASE \E rest \in Remains(SubSeq(g.out, Len(fsm[p].out) + 1, Len(g.out))),
              cost \in 1 .. failures :
             /\ failures' = failures - cost
             /\ fsm' = [fsm EXCEPT ![p] = [g EXCEPT !.out = fsm[p].out \o rest]]
  <2>1. PICK rest \in Remains(SubSeq(g.out, Len(fsm[p].out) + 1, Len(g.out))),
             cost \in 1 .. failures :
               /\ failures' = failures - cost
               /\ fsm' = [fsm EXCEPT ![p] = [g EXCEPT !.out = fsm[p].out \o rest]]
    BY <1>2
  <2>2. PICK kept : kept = fsm[p].out \o rest
    OBVIOUS
  <2>3. AllNeat(kept, setup.conf)
    BY <2>2, TypedAt, NeatRemains DEF Proper
  <2>4. PICK h : h = [g EXCEPT !.out = kept]
    OBVIOUS
  <2>5. /\ h.out = kept /\ IsMachine(h) /\ h.CURID = g.CURID
        /\ SameFields(h, g)
    BY <2>4 DEF Proper, IsMachine, SameFields
  <2>6. Proper(h, setup.conf)
    BY <2>3, <2>5, SameFielded DEF Proper
  <2>7. Updated(fsm, fsm', p, h)
    BY <2>1, <2>2, <2>4 DEF Updated
  <2>8. failures' \in 0 .. setup.failures
    BY <2>1, TypedAt
  <2>9. QED
    BY <2>5, <2>6, <2>7, <2>8
<1>3. QED
  BY <1>1, <1>2 DEF Become

\* A handler changes its machine, and the receive task takes a frame.
LEMMA TypedHandler ==
  ASSUME TypedLine, LineInv, NEW p \in Peers, NEW packet, NEW g, Proper(g, setup.conf),
         Become(p, packet, g), g.CURID <= setup.ids,
         NEW w, Updated(wire, wire', p, w), Frames(w),
         UNCHANGED <<rexmit, expired, losses, setup>>
  PROVE  TypedLine'
<1>1. PICK h : /\ Updated(fsm, fsm', p, h) /\ Proper(h, setup.conf)
               /\ h.CURID = g.CURID
  BY TypedBecome
<1>2. failures' \in 0 .. setup.failures
  BY TypedBecome
<1>3. PICK rx, ex : rx = rexmit[p] /\ ex = expired[p]
  OBVIOUS
<1>4. /\ Updated(rexmit, rexmit', p, rx) /\ Updated(expired, expired', p, ex)
      /\ AllPacked(rx, setup.conf) /\ AllPacked(ex, setup.conf) /\ Len(ex) <= 1
      /\ losses' \in 0 .. setup.losses /\ setup' = setup
  BY <1>3, TypedAt DEF Updated
<1>5. h.CURID <= setup.ids
  BY <1>1
<1>6. QED
  BY <1>1, <1>2, <1>4, <1>5, TypedUpdate

LEMMA TypedCall ==
  ASSUME TypedLine, LineInv, NEW p \in Peers, Call(p)
  PROVE  TypedLine'
<1>1. ASSUME NEW op, NEW packet, NEW g, Proper(g, setup.conf), Called(p, op, packet, g)
      PROVE  TypedLine'
  <2>1. PICK w : w = wire[p]
    OBVIOUS
  <2>2. Updated(wire, wire', p, w) /\ Frames(w)
    BY <1>1, <2>1, TypedAt DEF Updated, Called
  <2>3. QED
    BY <1>1, <2>2, TypedHandler DEF Called
<1>2. setup \in Setups /\ Proper(fsm[p], setup.conf)
  BY TypedAt
<1>3. CASE PPPFSM_lowerup(p)
  BY <1>1, <1>2, <1>3, CallsProper DEF PPPFSM_lowerup
<1>4. CASE PPPFSM_lowerdown(p)
  BY <1>1, <1>2, <1>4, CallsProper DEF PPPFSM_lowerdown
<1>5. CASE PPPFSM_open(p)
  BY <1>1, <1>2, <1>5, CallsProper DEF PPPFSM_open
<1>6. CASE PPPFSM_close(p)
  BY <1>1, <1>2, <1>6, CallsProper DEF PPPFSM_close
<1>7. QED
  BY <1>3, <1>4, <1>5, <1>6 DEF Call

\* The next frame is well-formed, and what follows it is.
LEMMA FramesTail ==
  ASSUME NEW w, Frames(w), w # <<>>
  PROVE  IsFrame(Head(w)) /\ Frames(Tail(w))
<1>1. PICK S : w \in Seq(S) /\ \A m \in S : IsFrame(m)
  BY DEF Frames
<1>2. Head(w) \in S /\ Tail(w) \in Seq(S)
  BY <1>1
<1>3. QED
  BY <1>1, <1>2 DEF Frames

LEMMA FrameFacts ==
  ASSUME NEW m, IsFrame(m)
  PROVE  m.opts # Nothing
<1>1. "none" \in DOMAIN Nothing
  BY DEF Nothing
<1>2. QED
  BY <1>1 DEF IsFrame

LEMMA TypedFramed ==
  ASSUME TypedLine
  PROVE  Framed
<1>1. ASSUME NEW p \in Peers, wire[p] # <<>>
      PROVE  Head(wire[p]).opts # Nothing
  <2>1. Frames(wire[p])
    BY TypedAt
  <2>2. QED
    BY <1>1, <2>1, FramesTail, FrameFacts
<1>2. QED
  BY <1>1 DEF Framed

LEMMA TypedInput ==
  ASSUME TypedLine, LineInv, NEW p \in Peers, Input(p)
  PROVE  TypedLine'
<1>1. PICK w : w = Tail(wire[p])
  OBVIOUS
<1>2. wire[p] # <<>>
  BY DEF Input, InputConfReq, InputConfAck, InputConfNak, InputTermReq, InputTermAck,
         InputDropped
<1>3. IsFrame(Head(wire[p])) /\ Frames(w)
  BY <1>1, <1>2, TypedAt, FramesTail
<1>4. ASSUME NEW code, NEW packet, NEW g, Proper(g, setup.conf), Received(p, code, packet, g)
      PROVE  TypedLine'
  <2>1. Updated(wire, wire', p, w)
    BY <1>1, <1>4 DEF Updated, Received
  <2>2. QED
    BY <1>3, <1>4, <2>1, TypedHandler DEF Received
<1>5. setup \in Setups /\ Proper(fsm[p], setup.conf)
  BY TypedAt
<1>6. CASE InputConfReq(p)
  BY <1>3, <1>4, <1>5, <1>6, RecvConfReqProper DEF InputConfReq
<1>7. CASE InputConfAck(p)
  BY <1>4, <1>5, <1>7, RecvConfAckProper DEF InputConfAck
<1>8. CASE InputConfNak(p)
  BY <1>4, <1>5, <1>8, RecvConfNakProper DEF InputConfNak
<1>9. CASE InputTermReq(p)
  BY <1>4, <1>5, <1>9, EndsProper DEF InputTermReq
<1>10. CASE InputTermAck(p)
  BY <1>4, <1>5, <1>10, EndsProper DEF InputTermAck
<1>11. CASE InputDropped(p)
  <2>1. PICK g, rx, ex : g = fsm[p] /\ rx = rexmit[p] /\ ex = expired[p]
    OBVIOUS
  <2>2. /\ Updated(fsm, fsm', p, g) /\ Updated(rexmit, rexmit', p, rx)
        /\ Updated(expired, expired', p, ex) /\ Updated(wire, wire', p, w)
        /\ setup' = setup /\ losses' = losses /\ failures' = failures
    BY <1>1, <1>11, <2>1 DEF InputDropped, Updated
  <2>3. /\ Proper(g, setup.conf) /\ g.CURID <= setup.ids
        /\ AllPacked(rx, setup.conf) /\ AllPacked(ex, setup.conf) /\ Len(ex) <= 1
        /\ losses \in 0 .. setup.losses /\ failures \in 0 .. setup.failures
    BY <2>1, TypedAt
  <2>4. QED
    BY <1>3, <2>2, <2>3, TypedUpdate
<1>12. QED
  BY <1>6, <1>7, <1>8, <1>9, <1>10, <1>11 DEF Input

LEMMA PeerFacts ==
  ASSUME NEW p \in Peers
  PROVE  /\ Peer(p) \in Peers /\ Peer(p) # p /\ Peer(Peer(p)) = p
         /\ \A r \in Peers : r = p \/ r = Peer(p)
<1>1. IsFiniteSet(Peers) /\ Cardinality(Peers) = 2
  BY PeersAssumption
<1>2. /\ IsFiniteSet(Peers \ {p}) /\ Cardinality(Peers \ {p}) = 1
  BY <1>1, FS_RemoveElement
<1>3. PICK q : Peers \ {p} = {q}
  BY <1>2, FS_Singleton
<1>4. q \in Peers /\ q # p /\ \A r \in Peers : r = p \/ r = q
  BY <1>3
<1>5. Peer(p) = q /\ Peer(q) = p
  BY <1>4 DEF Peer
<1>6. QED
  BY <1>4, <1>5

\* The queues of the transmit task
LEMMA PackedFacts ==
  ASSUME NEW conf, NEW s, AllPacked(s, conf), NEW m, Packed(m, conf)
  PROVE  /\ \A i \in 1 .. Len(s) + 1 : AllPacked(InsertAt(s, i, m), conf)
         /\ s # <<>> => /\ Packed(Head(s), conf) /\ AllPacked(Tail(s), conf)
                        /\ Packed(s[1], conf)
                        /\ AllPacked([s EXCEPT ![1] = m], conf)
         /\ AllPacked(<<m>>, conf) /\ Len(<<m>>) = 1
<1>1. PICK S : s \in Seq(S) /\ \A x \in S : Packed(x, conf)
  BY DEF AllPacked
<1>2. PICK T : T = S \cup {m}
  OBVIOUS
<1>3. s \in Seq(T) /\ m \in T /\ \A x \in T : Packed(x, conf) /\ Len(s) \in Nat
  BY <1>1, <1>2
<1>4. ASSUME NEW i \in 1 .. Len(s) + 1
      PROVE  AllPacked(InsertAt(s, i, m), conf)
  <2>1. PICK a, b : a = SubSeq(s, 1, i - 1) /\ b = SubSeq(s, i, Len(s))
    OBVIOUS
  <2>2. a \in Seq(T) /\ b \in Seq(T)
    BY <1>3, <2>1, SubSeqProperties
  <2>3. <<m>> \in Seq(T)
    BY <1>3
  <2>4. InsertAt(s, i, m) = (a \o <<m>>) \o b
    BY <2>1 DEF InsertAt
  <2>5. InsertAt(s, i, m) \in Seq(T)
    BY <2>2, <2>3, <2>4
  <2>6. QED
    BY <1>3, <2>5 DEF AllPacked
<1>5. ASSUME s # <<>>
      PROVE  /\ Packed(Head(s), conf) /\ AllPacked(Tail(s), conf)
             /\ Packed(s[1], conf)
             /\ AllPacked([s EXCEPT ![1] = m], conf)
  <2>1. Head(s) \in T /\ Tail(s) \in Seq(T) /\ s[1] \in T
    BY <1>3, <1>5
  <2>2. [s EXCEPT ![1] = m] \in Seq(T)
    BY <1>3, <1>5, ExceptSeq
  <2>3. QED
    BY <1>3, <2>1, <2>2 DEF AllPacked
<1>6. <<m>> \in Seq(T) /\ Len(<<m>>) = 1
  BY <1>3
<1>7. QED
  BY <1>3, <1>4, <1>5, <1>6 DEF AllPacked

\* A packet with other retries is the same packet.
LEMMA RetrySet ==
  ASSUME NEW conf, NEW m, Packed(m, conf), NEW v \in 1 .. conf
  PROVE  Packed([m EXCEPT !.retry = v], conf)
<1>1. PICK x, y : x = m.pkt /\ y = m.retry
  OBVIOUS
<1>2. m = [cmd |-> "SEND", pkt |-> x, retry |-> y]
  BY <1>1 DEF Packed, IsSend, Send
<1>3. PICK t : t = [m EXCEPT !.retry = v]
  OBVIOUS
<1>4. t = Send(x, v)
  BY <1>2, <1>3 DEF Send
<1>5. IsSend(t) /\ t.retry = v /\ t.pkt = x
  BY <1>4, SendFacts
<1>6. QED
  BY <1>1, <1>3, <1>5 DEF Packed

LEMMA FramesAppend ==
  ASSUME NEW w, Frames(w), NEW m, IsFrame(m)
  PROVE  Frames(Append(w, m))
<1>1. PICK S : w \in Seq(S) /\ \A x \in S : IsFrame(x)
  BY DEF Frames
<1>2. PICK T : T = S \cup {m}
  OBVIOUS
<1>3. Append(w, m) \in Seq(T) /\ \A x \in T : IsFrame(x)
  BY <1>1, <1>2
<1>4. QED
  BY <1>3 DEF Frames

\* The transmit task takes a message.
LEMMA TypedTaken ==
  ASSUME TypedLine, LineInv, NEW p \in Peers, NEW cmd, Taken(p, cmd),
         NEW rx, Updated(rexmit, rexmit', p, rx), AllPacked(rx, setup.conf),
         NEW w, Updated(wire, wire', Peer(p), w), Frames(w)
  PROVE  TypedLine'
<1>1. PICK q \in Peers : q = Peer(p)
  BY PeerFacts
<1>2. PICK o : o = Tail(fsm[p].out)
  OBVIOUS
<1>3. AllNeat(o, setup.conf)
  <2>1. PICK S : fsm[p].out \in Seq(S) /\ \A m \in S : Neat(m, setup.conf)
    BY TypedAt DEF AllNeat
  <2>2. o \in Seq(S)
    BY <1>2, <2>1 DEF Taken
  <2>3. QED
    BY <2>1, <2>2 DEF AllNeat
<1>4. PICK f : f = fsm[p]
  OBVIOUS
<1>5. PICK g : g = [f EXCEPT !.out = o]
  OBVIOUS
<1>6. Proper(f, setup.conf) /\ f.CURID <= setup.ids
  BY <1>4, TypedAt
<1>7. g.out = o /\ IsMachine(g) /\ SameFields(g, f)
  BY <1>5, <1>6 DEF Proper, IsMachine, SameFields
<1>8. Proper(g, setup.conf) /\ g.CURID <= setup.ids
  BY <1>3, <1>6, <1>7, SameFielded DEF Proper, SameFields
<1>9. Updated(fsm, fsm', p, g)
  BY <1>2, <1>4, <1>5 DEF Taken, Updated
<1>10. PICK ex : ex = expired[p]
  OBVIOUS
<1>11. /\ Updated(expired, expired', p, ex)
       /\ AllPacked(ex, setup.conf) /\ Len(ex) <= 1
       /\ setup' = setup /\ losses' \in 0 .. setup.losses
       /\ failures' \in 0 .. setup.failures
  BY <1>10, TypedAt DEF Taken, Updated
<1>12. Updated(wire, wire', q, w)
  BY <1>1
<1>13. QED
  BY <1>8, <1>9, <1>11, <1>12, TypedUpdate

LEMMA TypedTransmit ==
  ASSUME TypedLine, LineInv, NEW p \in Peers, TakeSend(p) \/ TakeRestart(p) \/ TakeStop(p)
  PROVE  TypedLine'
<1>1. PICK rx, v, conf : rx = rexmit[p] /\ v = wire[Peer(p)] /\ conf = setup.conf
  OBVIOUS
<1>2. AllPacked(rx, conf) /\ Frames(v) /\ conf \in Nat /\ conf >= 2
  BY <1>1, PeerFacts, TypedAt
<1>3. ASSUME wire' = wire
      PROVE  Updated(wire, wire', Peer(p), v)
  BY <1>1, <1>3 DEF Updated
<1>4. CASE TakeStop(p)
  <2>1. PICK sx : sx = IF rx = <<>> THEN rx ELSE Tail(rx)
    OBVIOUS
  <2>2. Updated(rexmit, rexmit', p, sx)
    BY <1>1, <1>4, <2>1 DEF TakeStop, Updated
  <2>3. AllPacked(sx, conf)
    <3>1. CASE rx # <<>>
      <4>1. PICK S : rx \in Seq(S) /\ \A x \in S : Packed(x, conf)
        BY <1>2 DEF AllPacked
      <4>2. sx \in Seq(S)
        BY <2>1, <3>1, <4>1
      <4>3. QED
        BY <4>1, <4>2 DEF AllPacked
    <3>2. QED
      BY <1>2, <2>1, <3>1
  <2>4. wire' = wire /\ Taken(p, "STOP")
    BY <1>4 DEF TakeStop
  <2>5. QED
    BY <1>1, <1>2, <1>3, <2>2, <2>3, <2>4, TypedTaken
<1>5. CASE TakeRestart(p)
  <2>1. wire' = wire /\ Taken(p, "RESTART")
    BY <1>5 DEF TakeRestart
  <2>2. CASE rx = <<>>
    <3>1. Updated(rexmit, rexmit', p, rx)
      BY <1>1, <1>5, <2>2 DEF TakeRestart, Updated
    <3>2. QED
      BY <1>1, <1>2, <1>3, <2>1, <3>1, TypedTaken
  <2>3. CASE rx # <<>>
    <3>1. PICK a : a = rx[1]
      OBVIOUS
    <3>2. Packed(a, conf)
      <4>1. PICK S : rx \in Seq(S) /\ \A x \in S : Packed(x, conf)
        BY <1>2 DEF AllPacked
      <4>2. QED
        BY <2>3, <3>1, <4>1
    <3>3. PICK t : t = [a EXCEPT !.retry = conf]
      OBVIOUS
    <3>4. Packed(t, conf)
      BY <1>2, <3>2, <3>3, RetrySet
    <3>5. PICK sx : sx = [rx EXCEPT ![1] = t]
      OBVIOUS
    <3>6. AllPacked(sx, conf)
      BY <1>2, <2>3, <3>4, <3>5, PackedFacts
    <3>7. rexmit' = [rexmit EXCEPT ![p] =
                       [rexmit[p] EXCEPT ![1] = [rexmit[p][1] EXCEPT !.retry = setup.conf]]]
      BY <1>1, <1>5, <2>3 DEF TakeRestart
    <3>8. Updated(rexmit, rexmit', p, sx)
      BY <1>1, <3>1, <3>3, <3>5, <3>7 DEF Updated
    <3>9. QED
      BY <1>1, <1>2, <1>3, <2>1, <3>6, <3>8, TypedTaken
  <2>4. QED
    BY <2>2, <2>3
<1>6. CASE TakeSend(p)
  <2>1. Taken(p, "SEND")
    BY <1>6 DEF TakeSend
  <2>2. PICK m : m = Head(fsm[p].out)
    OBVIOUS
  <2>3. IsSend(m) /\ m.retry \in 0 .. conf /\ IsFrame(m.pkt)
    <3>1. PICK S : fsm[p].out \in Seq(S) /\ \A x \in S : Neat(x, conf)
      BY <1>1, TypedAt DEF AllNeat
    <3>2. Neat(m, conf) /\ m.cmd = "SEND"
      BY <2>1, <2>2, <3>1 DEF Taken
    <3>3. Stop.cmd = "STOP" /\ Restart.cmd = "RESTART"
      BY DEF Stop, Restart
    <3>4. m # Stop /\ m # Restart
      BY <3>2, <3>3
    <3>5. QED
      BY <3>2, <3>4 DEF Neat, IsMessage
  <2>4. PICK sx : Updated(rexmit, rexmit', p, sx) /\ AllPacked(sx, conf)
    <3>1. CASE m.retry > 0
      <4>1. Packed(m, conf)
        BY <1>2, <2>3, <3>1 DEF Packed
      <4>2. PICK i \in 1 .. Len(rx) + 1 : rexmit' = [rexmit EXCEPT ![p] = InsertAt(rx, i, m)]
        BY <1>1, <1>6, <2>2, <3>1 DEF TakeSend, Enqueue
      <4>3. PICK sx : sx = InsertAt(rx, i, m)
        OBVIOUS
      <4>4. AllPacked(sx, conf)
        BY <1>2, <4>1, <4>3, PackedFacts
      <4>5. Updated(rexmit, rexmit', p, sx)
        BY <4>2, <4>3 DEF Updated
      <4>6. QED
        BY <4>4, <4>5
    <3>2. CASE ~(m.retry > 0)
      <4>1. Updated(rexmit, rexmit', p, rx)
        BY <1>1, <1>6, <2>2, <3>2 DEF TakeSend, Updated
      <4>2. QED
        BY <1>2, <4>1
    <3>3. QED
      BY <3>1, <3>2
  <2>5. PICK w : w = Append(v, m.pkt)
    OBVIOUS
  <2>6. Frames(w) /\ Updated(wire, wire', Peer(p), w)
    BY <1>1, <1>2, <1>6, <2>2, <2>3, <2>5, FramesAppend DEF TakeSend, Write, Updated
  <2>7. QED
    BY <1>1, <2>1, <2>4, <2>6, TypedTaken
<1>7. QED
  BY <1>4, <1>5, <1>6

LEMMA TypedExpire ==
  ASSUME TypedLine, LineInv, NEW p \in Peers, Expire(p)
  PROVE  TypedLine'
<1>1. PICK rx, conf : rx = rexmit[p] /\ conf = setup.conf
  OBVIOUS
<1>2. AllPacked(rx, conf) /\ rx # <<>>
  BY <1>1, TypedAt DEF Expire
<1>3. PICK S : rx \in Seq(S) /\ \A x \in S : Packed(x, conf)
  BY <1>2 DEF AllPacked
<1>4. PICK m, sx, ex : m = Head(rx) /\ sx = Tail(rx) /\ ex = <<m>>
  OBVIOUS
<1>5. m \in S /\ sx \in Seq(S) /\ ex \in Seq(S) /\ Len(ex) = 1
  BY <1>2, <1>3, <1>4
<1>6. AllPacked(sx, conf) /\ AllPacked(ex, conf) /\ Len(ex) <= 1
  BY <1>3, <1>5 DEF AllPacked
<1>7. PICK g, w : g = fsm[p] /\ w = wire[p]
  OBVIOUS
<1>8. /\ Updated(rexmit, rexmit', p, sx) /\ Updated(expired, expired', p, ex)
      /\ Updated(fsm, fsm', p, g) /\ Updated(wire, wire', p, w)
      /\ setup' = setup /\ losses' = losses /\ failures' = failures
  BY <1>1, <1>4, <1>7 DEF Expire, Updated
<1>9. /\ Proper(g, setup.conf) /\ g.CURID <= setup.ids /\ Frames(w)
      /\ losses \in 0 .. setup.losses /\ failures \in 0 .. setup.failures
  BY <1>7, TypedAt
<1>10. QED
  BY <1>1, <1>6, <1>8, <1>9, TypedUpdate

LEMMA TypedTimedOut ==
  ASSUME TypedLine, LineInv, NEW p \in Peers, TimedOut(p)
  PROVE  TypedLine'
<1>1. PICK q \in Peers : q = Peer(p)
  BY PeerFacts
<1>2. PICK rx, ex, conf, v : /\ rx = rexmit[p] /\ ex = expired[p] /\ conf = setup.conf
                             /\ v = wire[q]
  OBVIOUS
<1>3. /\ AllPacked(rx, conf) /\ AllPacked(ex, conf) /\ ex # <<>> /\ Frames(v)
      /\ conf \in Nat
  BY <1>2, TypedAt DEF TimedOut
<1>4. PICK m : m = ex[1]
  OBVIOUS
<1>5. Packed(m, conf)
  <2>1. PICK S : ex \in Seq(S) /\ \A x \in S : Packed(x, conf)
    BY <1>3 DEF AllPacked
  <2>2. QED
    BY <1>3, <1>4, <2>1
<1>6. PICK hard : fsm' = [fsm EXCEPT ![p] = Timeout(fsm[p], hard)]
  BY DEF TimedOut
<1>7. PICK f, g : f = fsm[p] /\ g = Timeout(f, hard)
  OBVIOUS
<1>8. Proper(g, conf) /\ g.CURID <= setup.ids
  <2>1. Proper(f, conf) /\ f.CURID <= setup.ids /\ setup \in Setups
    BY <1>2, <1>7, TypedAt
  <2>2. Proper(g, conf)
    BY <1>2, <1>7, <2>1, EndsProper
  <2>3. PICK s : s = f.STATE - 2
    OBVIOUS
  <2>4. g \in {Goto(f, s), Goto(f, STOPPED), Goto(f, REQ_SENT), f}
    BY <1>7, <2>3 DEF Timeout
  <2>5. \A t : Goto(f, t).CURID = f.CURID
    BY <2>1, GotoOut DEF Proper, SameFields
  <2>6. QED
    BY <2>1, <2>2, <2>4, <2>5
<1>9. Updated(fsm, fsm', p, g)
  BY <1>6, <1>7 DEF Updated
<1>10. PICK e : e = <<>>
  OBVIOUS
<1>11. Updated(expired, expired', p, e) /\ AllPacked(e, conf) /\ Len(e) <= 1
  <2>1. e \in Seq({}) /\ Len(e) = 0
    BY <1>10
  <2>2. expired' = [expired EXCEPT ![p] = e]
    BY <1>10 DEF TimedOut
  <2>3. QED
    BY <2>1, <2>2 DEF AllPacked, Updated
<1>12. /\ setup' = setup /\ losses' \in 0 .. setup.losses
       /\ failures' \in 0 .. setup.failures
  BY TypedAt DEF TimedOut
<1>13. CASE m.retry = 1
  <2>1. Updated(rexmit, rexmit', p, rx) /\ Updated(wire, wire', q, v)
    BY <1>2, <1>4, <1>13 DEF TimedOut, Updated
  <2>2. QED
    BY <1>2, <1>3, <1>8, <1>9, <1>11, <1>12, <2>1, TypedUpdate
<1>14. CASE m.retry # 1
  <2>1. PICK t : t = [m EXCEPT !.retry = @ - 1]
    OBVIOUS
  <2>2. Packed(t, conf)
    <3>1. m.retry - 1 \in 1 .. conf
      BY <1>3, <1>5, <1>14 DEF Packed
    <3>2. QED
      BY <1>5, <2>1, <3>1, RetrySet
  <2>3. /\ Enqueue(p, t)
        /\ wire' = [wire EXCEPT ![q] = Append(v, m.pkt)]
    BY <1>1, <1>2, <1>4, <1>14, <2>1 DEF TimedOut, Write
  <2>4. PICK i \in 1 .. Len(rx) + 1 : rexmit' = [rexmit EXCEPT ![p] = InsertAt(rx, i, t)]
    BY <1>2, <2>3 DEF Enqueue
  <2>5. PICK sx, w : sx = InsertAt(rx, i, t) /\ w = Append(v, m.pkt)
    OBVIOUS
  <2>6. Updated(rexmit, rexmit', p, sx) /\ Updated(wire, wire', q, w)
    BY <2>3, <2>4, <2>5 DEF Updated
  <2>7. AllPacked(sx, conf) /\ Frames(w)
    BY <1>3, <1>5, <2>2, <2>5, PackedFacts, FramesAppend DEF Packed
  <2>8. QED
    BY <1>2, <1>8, <1>9, <1>11, <1>12, <2>6, <2>7, TypedUpdate
<1>15. QED
  BY <1>13, <1>14

LEMMA TypedLose ==
  ASSUME TypedLine, LineInv, NEW p \in Peers, Lose(p)
  PROVE  TypedLine'
<1>1. PICK g, rx, ex, w : /\ g = fsm[p] /\ rx = rexmit[p] /\ ex = expired[p]
                          /\ w = Tail(wire[p])
  OBVIOUS
<1>2. /\ Updated(fsm, fsm', p, g) /\ Updated(rexmit, rexmit', p, rx)
      /\ Updated(expired, expired', p, ex) /\ Updated(wire, wire', p, w)
      /\ setup' = setup /\ losses' = losses - 1 /\ losses > 0 /\ failures' = failures
      /\ wire[p] # <<>>
  BY <1>1 DEF Lose, Updated
<1>3. /\ Proper(g, setup.conf) /\ g.CURID <= setup.ids
      /\ AllPacked(rx, setup.conf) /\ AllPacked(ex, setup.conf) /\ Len(ex) <= 1
      /\ Frames(w) /\ losses' \in 0 .. setup.losses /\ failures' \in 0 .. setup.failures
  BY <1>1, <1>2, TypedAt, FramesTail
<1>4. QED
  BY <1>2, <1>3, TypedUpdate

LEMMA TypedInit ==
  ASSUME PppInit
  PROVE  TypedLine
<1>1. PICK e : e = <<>>
  OBVIOUS
<1>2. e \in Seq({}) /\ Len(e) = 0 /\ DOMAIN e = {}
  BY <1>1
<1>3. /\ setup \in Setups /\ setup.losses \in Nat /\ losses = setup.losses
      /\ setup.failures \in Nat /\ failures = setup.failures
      /\ setup.ids \in Nat /\ MaxNaks \in Nat
  BY SetupsAssumption DEF PppInit
<1>4. ASSUME NEW r \in Peers
      PROVE  TypedEnd(fsm[r], rexmit[r], expired[r], wire[r], setup.conf, setup.ids)
  <2>1. fsm[r] = Fresh(r) /\ rexmit[r] = e /\ expired[r] = e /\ wire[r] = e
    BY <1>1 DEF PppInit
  <2>2. PICK f : f = Fresh(r)
    OBVIOUS
  <2>3. IsMachine(f)
    BY <2>2 DEF IsMachine, Fresh
  <2>4. f.CURID = 0 /\ f.REQID = -1 /\ f.NAKS = 0 /\ f.RECV_NEG = e /\ f.out = e
    BY <1>1, <2>2 DEF Fresh
  <2>5. Fielded(f) /\ f.CURID <= setup.ids
    BY <1>2, <1>3, <2>4 DEF Fielded
  <2>6. AllNeat(f.out, setup.conf) /\ AllPacked(e, setup.conf) /\ Frames(e)
    BY <1>2, <2>4 DEF AllNeat, AllPacked, Frames
  <2>7. QED
    BY <1>2, <2>1, <2>2, <2>3, <2>5, <2>6 DEF TypedEnd, Proper
<1>5. /\ rexmit = [r \in Peers |-> rexmit[r]] /\ expired = [r \in Peers |-> expired[r]]
      /\ wire = [r \in Peers |-> wire[r]]
  BY DEF PppInit
<1>6. QED
  BY <1>3, <1>4, <1>5 DEF TypedLine

LEMMA TypedNext ==
  ASSUME TypedLine, LineInv, [PppNext]_pppVars
  PROVE  TypedLine'
<1>1. CASE UNCHANGED pppVars
  BY <1>1 DEF TypedLine, pppVars
<1>2. ASSUME NEW p \in Peers, Transmit(p)
      PROVE  TypedLine'
  BY <1>2, TypedTransmit, TypedTimedOut DEF Transmit
<1>3. QED
  BY <1>1, <1>2, TypedCall, TypedInput, TypedExpire, TypedLose DEF PppNext

\* What the properties say of the types
LEMMA TypedMeans ==
  ASSUME TypedLine, LineInv
  PROVE  PppTypeOK
<1>1. /\ setup \in Setups /\ setup.ids \in Nat /\ losses \in 0 .. setup.losses
      /\ failures \in 0 .. setup.failures
  BY SetupsAssumption DEF TypedLine
<1>2. ASSUME NEW p \in Peers
      PROVE  /\ fsm[p].STATE \in INITIAL .. OPENED
             /\ fsm[p].CURID \in 0 .. setup.ids
             /\ fsm[p].REQID \in -1 .. fsm[p].CURID - 1
             /\ fsm[p].NAKS \in 0 .. MaxNaks
             /\ fsm[p].LINK \in BOOLEAN
             /\ DOMAIN fsm[p].RECV_NEG \subseteq {"accm", "ap"}
             /\ \A i \in DOMAIN wire[p] : DOMAIN wire[p][i].opts \subseteq {"accm", "ap"}
             /\ \A i \in DOMAIN rexmit[p] : rexmit[p][i].retry \in 1 .. setup.conf
             /\ Len(expired[p]) <= 1
  <2>1. /\ Fielded(fsm[p]) /\ fsm[p].CURID <= setup.ids
        /\ AllPacked(rexmit[p], setup.conf) /\ Len(expired[p]) <= 1 /\ Frames(wire[p])
    BY TypedAt DEF Proper
  <2>2. fsm[p].STATE \in INITIAL .. OPENED /\ fsm[p].LINK \in BOOLEAN
    BY DEF LineInv, Valid, States
  <2>3. fsm[p].CURID \in 0 .. setup.ids
    BY <1>1, <2>1 DEF Fielded
  <2>4. ASSUME NEW i \in DOMAIN wire[p]
        PROVE  DOMAIN wire[p][i].opts \subseteq {"accm", "ap"}
    <3>1. PICK S : wire[p] \in Seq(S) /\ \A m \in S : IsFrame(m)
      BY <2>1 DEF Frames
    <3>2. wire[p][i] \in S
      BY <3>1
    <3>3. QED
      BY <3>1, <3>2 DEF IsFrame
  <2>5. ASSUME NEW i \in DOMAIN rexmit[p]
        PROVE  rexmit[p][i].retry \in 1 .. setup.conf
    <3>1. PICK S : rexmit[p] \in Seq(S) /\ \A m \in S : Packed(m, setup.conf)
      BY <2>1 DEF AllPacked
    <3>2. rexmit[p][i] \in S
      BY <3>1
    <3>3. QED
      BY <3>1, <3>2 DEF Packed
  <2>6. QED
    BY <2>1, <2>2, <2>3, <2>4, <2>5 DEF Fielded
<1>3. QED
  BY <1>1, <1>2 DEF PppTypeOK

\* Data passes exactly in the state OPENED, and then only if a peer that
\* must authenticate itself has agreed to: whatever the situations, the
\* calls, the losses, the failed allocations and the timers.
THEOREM LinkAlwaysFollowsState == PppSpec => []LinkFollowsState
<1>1. LineInv => LinkFollowsState
  <2>1. ASSUME LineInv, NEW p \in Peers
        PROVE  fsm[p].LINK = (fsm[p].STATE = OPENED /\ Admits(p, fsm[p]))
    <3>1. Valid(p, fsm[p])
      BY <2>1 DEF LineInv
    <3>2. QED
      BY <3>1 DEF Valid
  <2>2. QED
    BY <2>1 DEF LinkFollowsState
<1>2. PppInit => LineInv /\ TypedLine
  BY LineInit, TypedInit
<1>3. LineInv /\ TypedLine /\ [PppNext]_pppVars => (LineInv /\ TypedLine)'
  BY TypedFramed, LineNext, TypedNext
<1>4. QED
  BY <1>1, <1>2, <1>3, PTL DEF PppSpec

-----------------------------------------------------------------------------
(***************************************************************************)
(* The timers of the machines.  A message of a machine for the transmit    *)
(* task adds a packet to be repeated, takes one away or neither (Counted). *)
(* Every handler keeps the count a machine's state calls for (Keeps), so   *)
(* that a machine that waits has a timer whatever crosses.                 *)
(*                                                                         *)
(* That patient timers are exactly as many as are due takes more: a packet *)
(* unlinked for the last time must meet a machine that still waits for it. *)
(* Exact says so of each end, because the restart an acknowledgement puts  *)
(* in its timer is on its way or done, and Calm of the two ends, because   *)
(* while one has unlinked a packet the other can only have asked.          *)
(***************************************************************************)

\* s is a sequence, whatever its elements are.
IsSeq(s) == \E S : s \in Seq(S)

LEMMA IsSeqFacts ==
  ASSUME NEW s, IsSeq(s)
  PROVE  /\ Len(s) \in Nat /\ s = [i \in 1 .. Len(s) |-> s[i]]
         /\ s # <<>> => /\ Len(s) > 0 /\ Head(s) = s[1] /\ IsSeq(Tail(s))
                        /\ Len(Tail(s)) = Len(s) - 1
                        /\ \A i \in 1 .. Len(s) - 1 : Tail(s)[i] = s[i + 1]
         /\ s = <<>> => Len(s) = 0
<1>1. PICK S : s \in Seq(S)
  BY DEF IsSeq
<1>2. s # <<>> => Tail(s) \in Seq(S)
  BY <1>1
<1>3. QED
  BY <1>1, <1>2 DEF IsSeq

LEMMA IsSeqAppend ==
  ASSUME NEW s, IsSeq(s), NEW m
  PROVE  /\ IsSeq(Append(s, m)) /\ Len(Append(s, m)) = Len(s) + 1
         /\ \A i \in 1 .. Len(s) : Append(s, m)[i] = s[i]
         /\ Append(s, m)[Len(s) + 1] = m /\ Append(s, m) # <<>>
<1>1. PICK S : s \in Seq(S)
  BY DEF IsSeq
<1>2. s \in Seq(S \cup {m})
  BY <1>1
<1>3. Append(s, m) \in Seq(S \cup {m})
  BY <1>2
<1>4. QED
  BY <1>2, <1>3 DEF IsSeq

LEMMA IsSeqInsert ==
  ASSUME NEW s, IsSeq(s), NEW m, NEW i \in 1 .. Len(s) + 1
  PROVE  /\ IsSeq(InsertAt(s, i, m)) /\ Len(InsertAt(s, i, m)) = Len(s) + 1
         /\ \A j \in 1 .. Len(s) + 1 :
                \/ InsertAt(s, i, m)[j] = m
                \/ \E t \in 1 .. Len(s) : InsertAt(s, i, m)[j] = s[t]
<1>1. PICK S : s \in Seq(S)
  BY DEF IsSeq
<1>2. PICK U : U = S \cup {m}
  OBVIOUS
<1>3. s \in Seq(U) /\ <<m>> \in Seq(U) /\ Len(s) \in Nat
  BY <1>1, <1>2
<1> DEFINE a == SubSeq(s, 1, i - 1)
           b == SubSeq(s, i, Len(s))
<1>4. /\ a \in Seq(U) /\ Len(a) = i - 1
      /\ \A j \in 1 .. i - 1 : a[j] = s[j]
  BY <1>3, SubSeqProperties
<1>5. /\ b \in Seq(U) /\ Len(b) = Len(s) - i + 1
      /\ \A j \in 1 .. Len(s) - i + 1 : b[j] = s[i + j - 1]
  BY <1>3, SubSeqProperties
<1> HIDE DEF a, b
<1>6. PICK c : c = a \o <<m>>
  OBVIOUS
<1>7. c \in Seq(U) /\ Len(c) = i /\ c[i] = m /\ \A j \in 1 .. i - 1 : c[j] = a[j]
  BY <1>3, <1>4, <1>6
<1>8. PICK d : d = c \o b
  OBVIOUS
<1>9. /\ d \in Seq(U) /\ Len(d) = Len(s) + 1
      /\ \A j \in 1 .. i : d[j] = c[j]
      /\ \A j \in i + 1 .. Len(s) + 1 : d[j] = b[j - i]
  BY <1>3, <1>5, <1>7, <1>8, ConcatProperties
<1>10. InsertAt(s, i, m) = d
  BY <1>6, <1>8 DEF InsertAt, a, b
<1>11. ASSUME NEW j \in 1 .. Len(s) + 1
       PROVE  d[j] = m \/ \E t \in 1 .. Len(s) : d[j] = s[t]
  <2>1. CASE j < i
    BY <1>3, <1>4, <1>7, <1>9, <2>1
  <2>2. CASE j = i
    BY <1>7, <1>9, <2>2
  <2>3. CASE j > i
    <3>1. d[j] = b[j - i] /\ j - i \in 1 .. Len(s) - i + 1
      BY <1>3, <1>9, <2>3
    <3>2. b[j - i] = s[j - 1] /\ j - 1 \in 1 .. Len(s)
      BY <1>3, <1>5, <2>3, <3>1
    <3>3. QED
      BY <3>1, <3>2
  <2>4. QED
    BY <1>3, <2>1, <2>2, <2>3
<1>12. QED
  BY <1>9, <1>10, <1>11 DEF IsSeq

\* left counts, from n, what the messages of out leave to be repeated.
Counts(left, n, out) ==
  /\ left = [i \in 0 .. Len(out) |-> left[i]]
  /\ left[0] = n
  /\ \A i \in 1 .. Len(out) : left[i] = Counted(left[i - 1], out[i])

LEMMA CountExists ==
  ASSUME NEW out, IsSeq(out), NEW n
  PROVE  \E left : left = [i \in 0 .. Len(out) |->
                              IF i = 0 THEN n ELSE Counted(left[i - 1], out[i])]
<1> DEFINE Upto(t) == \E f : f = [i \in 0 .. t |->
                                    IF i = 0 THEN n ELSE Counted(f[i - 1], out[i])]
           Bad == {t \in Nat : ~Upto(t)}
<1>1. Upto(0)
  <2>1. PICK f : f = [i \in 0 .. 0 |-> n]
    OBVIOUS
  <2>2. f = [i \in 0 .. 0 |-> IF i = 0 THEN n ELSE Counted(f[i - 1], out[i])]
    BY <2>1
  <2>3. QED
    BY <2>2
<1>2. ASSUME NEW t \in Nat, t > 0, Upto(t - 1)
      PROVE  Upto(t)
  <2>1. PICK f : f = [i \in 0 .. t - 1 |->
                        IF i = 0 THEN n ELSE Counted(f[i - 1], out[i])]
    BY <1>2
  <2>2. PICK v : v = Counted(f[t - 1], out[t])
    OBVIOUS
  <2>3. PICK g : g = [i \in 0 .. t |-> IF i = t THEN v ELSE f[i]]
    OBVIOUS
  <2>4. ASSUME NEW i \in 0 .. t
        PROVE  g[i] = IF i = 0 THEN n ELSE Counted(g[i - 1], out[i])
    <3>1. CASE i = t
      BY <1>2, <2>2, <2>3, <3>1
    <3>2. CASE i # t /\ i = 0
      BY <2>1, <2>3, <3>2
    <3>3. CASE i # t /\ i # 0
      <4>1. i \in 0 .. t - 1 /\ i - 1 \in 0 .. t /\ i - 1 # t
        BY <3>3
      <4>2. g[i] = f[i] /\ g[i - 1] = f[i - 1]
        BY <2>3, <3>3, <4>1
      <4>3. f[i] = Counted(f[i - 1], out[i])
        BY <2>1, <3>3, <4>1
      <4>4. QED
        BY <3>3, <4>2, <4>3
    <3>4. QED
      BY <3>1, <3>2, <3>3
  <2>5. g = [i \in 0 .. t |-> IF i = 0 THEN n ELSE Counted(g[i - 1], out[i])]
    BY <2>3, <2>4
  <2>6. QED
    BY <2>5
<1> HIDE DEF Upto
<1>3. Bad = {}
  <2>1. SUFFICES ASSUME Bad # {}
                 PROVE  FALSE
    OBVIOUS
  <2>2. PICK t \in Bad : \A x \in Bad : t <= x
    BY <2>1, MinLemma
  <2>3. t \in Nat /\ t > 0 /\ t - 1 \in Nat /\ t - 1 \notin Bad
    BY <1>1, <2>2
  <2>4. Upto(t)
    BY <1>2, <2>3
  <2>5. QED
    BY <2>2, <2>4
<1>4. Upto(Len(out))
  BY <1>3, IsSeqFacts
<1>5. QED
  BY <1>4 DEF Upto

LEMMA CountUnique ==
  ASSUME NEW out, IsSeq(out), NEW n, NEW f, NEW g, Counts(f, n, out), Counts(g, n, out)
  PROVE  f = g
<1> DEFINE Bad == {i \in Nat : i <= Len(out) /\ f[i] # g[i]}
<1>1. SUFFICES ASSUME Bad # {}
               PROVE  FALSE
  BY IsSeqFacts DEF Counts
<1>2. PICK t \in Bad : \A x \in Bad : t <= x
  BY <1>1, MinLemma
<1>3. t # 0
  BY <1>2 DEF Counts
<1>4. t - 1 \in Nat /\ t \in 1 .. Len(out) /\ t - 1 \notin Bad
  BY <1>2, <1>3, IsSeqFacts
<1>5. f[t - 1] = g[t - 1]
  BY <1>4, IsSeqFacts
<1>6. f[t] = g[t]
  BY <1>4, <1>5 DEF Counts
<1>7. QED
  BY <1>2, <1>6

LEMMA CountedBy ==
  ASSUME NEW out, IsSeq(out), NEW n
  PROVE  /\ \E f : Counts(f, n, out)
         /\ \A f : Counts(f, n, out) => TimersOf(n, out) = f[Len(out)]
<1> DEFINE Rec(h) == h = [i \in 0 .. Len(out) |->
                            IF i = 0 THEN n ELSE Counted(h[i - 1], out[i])]
<1>1. ASSUME NEW h, Rec(h)
      PROVE  Counts(h, n, out)
  <2>1. h = [i \in 0 .. Len(out) |-> h[i]] /\ h[0] = n
    BY <1>1, IsSeqFacts
  <2>2. ASSUME NEW i \in 1 .. Len(out)
        PROVE  h[i] = Counted(h[i - 1], out[i])
    BY <1>1, IsSeqFacts
  <2>3. QED
    BY <2>1, <2>2 DEF Counts
<1>2. PICK h : h = CHOOSE t : Rec(t)
  OBVIOUS
<1>3. Rec(h)
  BY <1>2, CountExists
<1>4. TimersOf(n, out) = h[Len(out)]
  BY <1>2 DEF TimersOf
<1> HIDE DEF Rec
<1>5. QED
  BY <1>1, <1>3, <1>4, CountUnique

LEMMA TimersOfNone ==
  ASSUME NEW n
  PROVE  TimersOf(n, <<>>) = n
<1>1. PICK s : s = <<>>
  OBVIOUS
<1>2. IsSeq(s) /\ Len(s) = 0
  BY <1>1 DEF IsSeq
<1>3. PICK f : Counts(f, n, s)
  BY <1>2, CountedBy
<1>4. TimersOf(n, s) = f[0]
  BY <1>2, <1>3, CountedBy
<1>5. QED
  BY <1>1, <1>3, <1>4 DEF Counts

LEMMA TimersOfAppend ==
  ASSUME NEW n, NEW out, IsSeq(out), NEW m
  PROVE  TimersOf(n, Append(out, m)) = Counted(TimersOf(n, out), m)
<1>1. PICK f : Counts(f, n, out)
  BY CountedBy
<1>2. TimersOf(n, out) = f[Len(out)]
  BY <1>1, CountedBy
<1>3. PICK s : s = Append(out, m)
  OBVIOUS
<1>4. /\ IsSeq(s) /\ Len(s) = Len(out) + 1 /\ s[Len(out) + 1] = m
      /\ \A i \in 1 .. Len(out) : s[i] = out[i]
  BY <1>3, IsSeqAppend
<1>5. PICK v : v = Counted(f[Len(out)], m)
  OBVIOUS
<1>6. PICK g : g = [i \in 0 .. Len(s) |-> IF i = Len(s) THEN v ELSE f[i]]
  OBVIOUS
<1>7. Len(out) \in Nat
  BY IsSeqFacts
<1>8. Counts(g, n, s)
  <2>1. g = [i \in 0 .. Len(s) |-> g[i]] /\ g[0] = n
    BY <1>1, <1>4, <1>6, <1>7 DEF Counts
  <2>2. ASSUME NEW i \in 1 .. Len(s)
        PROVE  g[i] = Counted(g[i - 1], s[i])
    <3>1. CASE i = Len(s)
      BY <1>4, <1>5, <1>6, <1>7, <3>1
    <3>2. CASE i # Len(s)
      <4>1. i \in 1 .. Len(out)
        BY <1>4, <1>7, <3>2
      <4>2. g[i] = f[i] /\ g[i - 1] = f[i - 1] /\ s[i] = out[i]
        BY <1>4, <1>6, <1>7, <4>1
      <4>3. f[i] = Counted(f[i - 1], out[i])
        BY <1>1, <4>1 DEF Counts
      <4>4. QED
        BY <4>2, <4>3
    <3>3. QED
      BY <3>1, <3>2
  <2>3. QED
    BY <2>1, <2>2 DEF Counts
<1>9. TimersOf(n, s) = g[Len(s)]
  BY <1>4, <1>8, CountedBy
<1>10. g[Len(s)] = v
  BY <1>4, <1>6, <1>7
<1>11. QED
  BY <1>2, <1>3, <1>5, <1>9, <1>10

LEMMA TimersOfTail ==
  ASSUME NEW n, NEW out, IsSeq(out), out # <<>>
  PROVE  TimersOf(n, out) = TimersOf(Counted(n, Head(out)), Tail(out))
<1>1. PICK f : Counts(f, n, out)
  BY CountedBy
<1>2. TimersOf(n, out) = f[Len(out)]
  BY <1>1, CountedBy
<1>3. PICK s : s = Tail(out)
  OBVIOUS
<1>4. /\ IsSeq(s) /\ Len(s) = Len(out) - 1 /\ Len(out) > 0 /\ Len(out) \in Nat
      /\ Head(out) = out[1]
      /\ \A i \in 1 .. Len(out) - 1 : s[i] = out[i + 1]
  BY <1>3, IsSeqFacts
<1>5. PICK t : t = Counted(n, Head(out))
  OBVIOUS
<1>6. PICK g : g = [i \in 0 .. Len(s) |-> f[i + 1]]
  OBVIOUS
<1>7. Counts(g, t, s)
  <2>1. f[1] = Counted(f[1 - 1], out[1]) /\ f[0] = n
    BY <1>1, <1>4 DEF Counts
  <2>2. g[0] = t
    BY <1>4, <1>5, <1>6, <2>1
  <2>3. g = [i \in 0 .. Len(s) |-> g[i]]
    BY <1>6
  <2>4. ASSUME NEW i \in 1 .. Len(s)
        PROVE  g[i] = Counted(g[i - 1], s[i])
    <3>1. i + 1 \in 1 .. Len(out) /\ i \in 0 .. Len(s) /\ i - 1 \in 0 .. Len(s)
      BY <1>4
    <3>2. g[i] = f[i + 1] /\ g[i - 1] = f[i - 1 + 1] /\ s[i] = out[i + 1]
      BY <1>4, <1>6, <3>1
    <3>3. f[i + 1] = Counted(f[i + 1 - 1], out[i + 1])
      BY <1>1, <3>1 DEF Counts
    <3>4. QED
      BY <3>2, <3>3
  <2>5. QED
    BY <2>2, <2>3, <2>4 DEF Counts
<1>8. TimersOf(t, s) = g[Len(s)]
  BY <1>4, <1>7, CountedBy
<1>9. g[Len(s)] = f[Len(out)]
  BY <1>4, <1>6
<1>10. QED
  BY <1>2, <1>3, <1>5, <1>8, <1>9

\* Packets sent once.
Bare(m) == IsSend(m) /\ m.retry = 0
AllBare(out) == \A i \in 1 .. Len(out) : Bare(out[i])

IsOut(out, conf) ==
  IsSeq(out) /\ \A i \in 1 .. Len(out) : IsMessage(out[i], conf)

LEMMA CountedFacts ==
  ASSUME NEW n
  PROVE  /\ Counted(n, Stop) = IF n > 0 THEN n - 1 ELSE n
         /\ Counted(n, Restart) = n
         /\ \A m : Bare(m) => Counted(n, m) = n + 0
         /\ \A m : IsSend(m) /\ m.retry > 0 => Counted(n, m) = n + 1
         /\ Stop.cmd = "STOP" /\ Restart.cmd = "RESTART"
BY SendFacts DEF Counted, Stop, Restart, Bare

\* There is no fewer than no packet.
LEMMA TimersOfNat ==
  ASSUME NEW n \in Nat, NEW out, NEW conf \in Nat, IsOut(out, conf)
  PROVE  TimersOf(n, out) \in Nat
<1>1. IsSeq(out) /\ Len(out) \in Nat
  BY IsSeqFacts DEF IsOut
<1>2. PICK f : Counts(f, n, out)
  BY <1>1, CountedBy
<1>3. TimersOf(n, out) = f[Len(out)]
  BY <1>1, <1>2, CountedBy
<1> DEFINE Bad == {i \in Nat : i <= Len(out) /\ f[i] \notin Nat}
<1>4. SUFFICES ASSUME Bad # {}
               PROVE  FALSE
  BY <1>1, <1>3
<1>5. PICK t \in Bad : \A x \in Bad : t <= x
  BY <1>4, MinLemma
<1>6. t # 0
  BY <1>2, <1>5 DEF Counts
<1>7. t - 1 \in Nat /\ t \in 1 .. Len(out) /\ t - 1 \notin Bad
  BY <1>1, <1>5, <1>6
<1>8. f[t - 1] \in Nat
  BY <1>1, <1>7
<1>9. PICK v, m : v \in Nat /\ v = f[t - 1] /\ m = out[t]
  BY <1>8
<1>10. f[t] = Counted(v, m) /\ IsMessage(m, conf)
  BY <1>2, <1>7, <1>9 DEF Counts, IsOut
<1>11. Counted(v, m) \in Nat
  <2>1. CASE m = Stop \/ m = Restart
    BY <1>9, <2>1, CountedFacts
  <2>2. CASE IsSend(m) /\ m.retry \in 0 .. conf
    BY <1>9, <2>2, SendFacts DEF Counted
  <2>3. QED
    BY <1>10, <2>1, <2>2 DEF IsMessage
<1>12. QED
  BY <1>5, <1>10, <1>11

\* Packets sent once leave the count alone.
LEMMA TimersOfBare ==
  ASSUME NEW n \in Nat, NEW out, IsSeq(out), AllBare(out)
  PROVE  TimersOf(n, out) = n
<1>1. Len(out) \in Nat
  BY IsSeqFacts
<1>2. PICK f : Counts(f, n, out)
  BY CountedBy
<1>3. TimersOf(n, out) = f[Len(out)]
  BY <1>2, CountedBy
<1> DEFINE Bad == {i \in Nat : i <= Len(out) /\ f[i] # n}
<1>4. SUFFICES ASSUME Bad # {}
               PROVE  FALSE
  BY <1>1, <1>3
<1>5. PICK t \in Bad : \A x \in Bad : t <= x
  BY <1>4, MinLemma
<1>6. t # 0
  BY <1>2, <1>5 DEF Counts
<1>7. t - 1 \in Nat /\ t \in 1 .. Len(out) /\ t - 1 \notin Bad
  BY <1>1, <1>5, <1>6
<1>8. f[t - 1] = n
  BY <1>1, <1>7
<1>9. f[t] = Counted(n, out[t]) /\ Bare(out[t])
  BY <1>2, <1>7, <1>8 DEF Counts, AllBare
<1>10. Counted(n, out[t]) = n
  <2>1. PICK m : m = out[t] /\ Bare(m)
    BY <1>9
  <2>2. Counted(n, m) = n + 0
    BY <2>1, CountedFacts
  <2>3. QED
    BY <2>1, <2>2
<1>11. QED
  BY <1>5, <1>9, <1>10

-----------------------------------------------------------------------------
(* What a handler does to the timer.                                       *)

\* The packets a machine in state s wants repeated
Owed(s) == IF Negotiating(s) THEN 1 ELSE 0

\* From f to g a machine that had a timer while it waited still does, and
\* one that had exactly its due still does.
Keeps(f, g) ==
  \A n \in Nat :
    /\ (Negotiating(f.STATE) => TimersOf(n, f.out) > 0)
         => (Negotiating(g.STATE) => TimersOf(n, g.out) > 0)
    /\ TimersOf(n, f.out) = Owed(f.STATE) => TimersOf(n, g.out) = Owed(g.STATE)

LEMMA KeepsChain ==
  ASSUME NEW f, NEW g, NEW h, Keeps(f, g), Keeps(g, h)
  PROVE  Keeps(f, h)
BY DEF Keeps

\* Packets that start a negotiation or end one
Asks(m) == m.cmd = "SEND" => m.pkt.code \in {"REQ", "TERM_REQ"}
AllAsk(out) == \A i \in 1 .. Len(out) : Asks(out[i])

\* The messages so far, and the stop of the timer that is running
Stopped(f) == IF Negotiating(f.STATE) THEN Append(f.out, Stop) ELSE f.out

\* The machine answers, or tells the timer that there was an answer.
Plain(f, g) ==
  /\ Negotiating(g.STATE) <=> Negotiating(f.STATE)
  /\ \/ g.out = f.out
     \/ \E m : g.out = Append(f.out, m) /\ (Bare(m) \/ m = Restart)

\* It sends a request and starts the timer again.
Renews(f, g, conf) ==
  /\ Negotiating(g.STATE)
  /\ \E m : /\ IsSend(m) /\ m.retry \in 1 .. conf /\ Asks(m)
            /\ g.out = Append(Stopped(f), m)

\* It stops waiting.
Ends(f, g) ==
  /\ Negotiating(f.STATE) /\ ~Negotiating(g.STATE)
  /\ g.out = Append(f.out, Stop)

\* It starts to wait.
Arms(f, g, conf) ==
  /\ ~Negotiating(f.STATE) /\ Negotiating(g.STATE)
  /\ \E m : /\ IsSend(m) /\ m.retry \in 1 .. conf
            /\ g.out = Append(f.out, m)

Move(f, g, conf) ==
  Plain(f, g) \/ Renews(f, g, conf) \/ Ends(f, g) \/ Arms(f, g, conf)

LEMMA OutAppend ==
  ASSUME NEW conf \in Nat, NEW out, IsOut(out, conf), NEW m, IsMessage(m, conf)
  PROVE  IsOut(Append(out, m), conf)
<1>1. IsSeq(out)
  BY DEF IsOut
<1>2. PICK s : s = Append(out, m)
  OBVIOUS
<1>3. /\ IsSeq(s) /\ Len(s) = Len(out) + 1 /\ s[Len(out) + 1] = m
      /\ \A i \in 1 .. Len(out) : s[i] = out[i]
      /\ Len(out) \in Nat
  BY <1>1, <1>2, IsSeqAppend, IsSeqFacts
<1>4. ASSUME NEW i \in 1 .. Len(s)
      PROVE  IsMessage(s[i], conf)
  <2>1. CASE i = Len(s)
    BY <1>3, <2>1
  <2>2. CASE i # Len(s)
    <3>1. i \in 1 .. Len(out)
      BY <1>3, <2>2
    <3>2. QED
      BY <1>3, <3>1 DEF IsOut
  <2>3. QED
    BY <2>1, <2>2
<1>5. QED
  BY <1>2, <1>3, <1>4 DEF IsOut

LEMMA AskAppend ==
  ASSUME NEW out, IsSeq(out), AllAsk(out), NEW m, Asks(m)
  PROVE  AllAsk(Append(out, m))
<1>1. PICK s : s = Append(out, m)
  OBVIOUS
<1>2. /\ IsSeq(s) /\ Len(s) = Len(out) + 1 /\ s[Len(out) + 1] = m
      /\ \A i \in 1 .. Len(out) : s[i] = out[i]
      /\ Len(out) \in Nat
  BY <1>1, IsSeqAppend, IsSeqFacts
<1>3. ASSUME NEW i \in 1 .. Len(s)
      PROVE  Asks(s[i])
  <2>1. CASE i = Len(s)
    BY <1>2, <2>1
  <2>2. CASE i # Len(s)
    <3>1. i \in 1 .. Len(out)
      BY <1>2, <2>2
    <3>2. QED
      BY <1>2, <3>1 DEF AllAsk
  <2>3. QED
    BY <2>1, <2>2
<1>4. QED
  BY <1>1, <1>3 DEF AllAsk

LEMMA BareAppend ==
  ASSUME NEW out, IsSeq(out), AllBare(out), NEW m, Bare(m)
  PROVE  AllBare(Append(out, m))
<1>1. PICK s : s = Append(out, m)
  OBVIOUS
<1>2. /\ IsSeq(s) /\ Len(s) = Len(out) + 1 /\ s[Len(out) + 1] = m
      /\ \A i \in 1 .. Len(out) : s[i] = out[i]
      /\ Len(out) \in Nat
  BY <1>1, IsSeqAppend, IsSeqFacts
<1>3. ASSUME NEW i \in 1 .. Len(s)
      PROVE  Bare(s[i])
  <2>1. CASE i = Len(s)
    BY <1>2, <2>1
  <2>2. CASE i # Len(s)
    <3>1. i \in 1 .. Len(out)
      BY <1>2, <2>2
    <3>2. QED
      BY <1>2, <3>1 DEF AllBare
  <2>3. QED
    BY <2>1, <2>2
<1>4. QED
  BY <1>1, <1>3 DEF AllBare

LEMMA MoveKeeps ==
  ASSUME NEW conf \in Nat, NEW f, NEW g, IsOut(f.out, conf), Move(f, g, conf)
  PROVE  IsOut(g.out, conf) /\ Keeps(f, g)
<1>1. IsSeq(f.out)
  BY DEF IsOut
<1>2. ASSUME NEW n \in Nat
      PROVE  TimersOf(n, f.out) \in Nat
  BY TimersOfNat
<1>3. IsMessage(Stop, conf) /\ IsMessage(Restart, conf)
  BY DEF IsMessage
<1>4. CASE Plain(f, g)
  <2>1. CASE g.out = f.out
    BY <1>4, <2>1 DEF Plain, Keeps, Owed
  <2>2. CASE \E m : g.out = Append(f.out, m) /\ (Bare(m) \/ m = Restart)
    <3>1. PICK m : g.out = Append(f.out, m) /\ (Bare(m) \/ m = Restart)
      BY <2>2
    <3>2. IsMessage(m, conf)
      BY <3>1 DEF IsMessage, Bare
    <3>3. ASSUME NEW n \in Nat
          PROVE  TimersOf(n, g.out) = TimersOf(n, f.out)
      <4>1. PICK t \in Nat : t = TimersOf(n, f.out)
        BY <1>2
      <4>2. Counted(t, m) = t
        BY <3>1, <4>1, SendFacts DEF Counted, Bare, Restart
      <4>3. TimersOf(n, Append(f.out, m)) = Counted(TimersOf(n, f.out), m)
        BY <1>1, TimersOfAppend
      <4>4. QED
        BY <3>1, <4>1, <4>2, <4>3
    <3>4. QED
      BY <1>4, <3>1, <3>2, <3>3, OutAppend DEF Plain, Keeps, Owed
  <2>3. QED
    BY <1>4, <2>1, <2>2 DEF Plain
<1>5. CASE Renews(f, g, conf)
  <2>1. PICK m : /\ IsSend(m) /\ m.retry \in 1 .. conf
                 /\ g.out = Append(Stopped(f), m)
    BY <1>5 DEF Renews
  <2>2. IsMessage(m, conf) /\ m.retry > 0
    BY <2>1 DEF IsMessage
  <2>3. PICK h : h = Stopped(f)
    OBVIOUS
  <2>4. IsOut(h, conf) /\ IsSeq(h)
    BY <1>3, <2>3, OutAppend DEF Stopped, IsOut
  <2>5. ASSUME NEW n \in Nat
        PROVE  /\ TimersOf(n, g.out) = TimersOf(n, h) + 1
               /\ TimersOf(n, h) \in Nat
    <3>1. TimersOf(n, h) \in Nat
      BY <2>4, TimersOfNat
    <3>2. TimersOf(n, Append(h, m)) = Counted(TimersOf(n, h), m)
      BY <2>4, TimersOfAppend
    <3>3. Counted(TimersOf(n, h), m) = TimersOf(n, h) + 1
      BY <2>1, <2>2, CountedFacts
    <3>4. QED
      BY <2>1, <2>3, <3>1, <3>2, <3>3
  <2>6. ASSUME NEW n \in Nat, TimersOf(n, f.out) = Owed(f.STATE)
        PROVE  TimersOf(n, h) = 0
    <3>1. CASE Negotiating(f.STATE)
      <4>1. h = Append(f.out, Stop) /\ TimersOf(n, f.out) = 1
        BY <2>3, <2>6, <3>1 DEF Stopped, Owed
      <4>2. QED
        BY <1>1, <4>1, TimersOfAppend, CountedFacts
    <3>2. CASE ~Negotiating(f.STATE)
      BY <2>3, <2>6, <3>2 DEF Stopped, Owed
    <3>3. QED
      BY <3>1, <3>2
  <2>7. Negotiating(g.STATE)
    BY <1>5 DEF Renews
  <2>8. ASSUME NEW n \in Nat
        PROVE  /\ TimersOf(n, g.out) > 0
               /\ TimersOf(n, f.out) = Owed(f.STATE) => TimersOf(n, g.out) = Owed(g.STATE)
    BY <2>5, <2>6, <2>7 DEF Owed
  <2>9. IsOut(g.out, conf)
    BY <2>1, <2>2, <2>3, <2>4, OutAppend
  <2>10. QED
    BY <2>8, <2>9 DEF Keeps
<1>6. CASE Ends(f, g)
  <2>1. ASSUME NEW n \in Nat, TimersOf(n, f.out) = Owed(f.STATE)
        PROVE  TimersOf(n, g.out) = Owed(g.STATE)
    BY <1>1, <1>6, <2>1, TimersOfAppend, CountedFacts DEF Ends, Owed
  <2>2. QED
    BY <1>3, <1>6, <2>1, OutAppend DEF Ends, Keeps
<1>7. CASE Arms(f, g, conf)
  <2>1. PICK m : /\ IsSend(m) /\ m.retry \in 1 .. conf
                 /\ g.out = Append(f.out, m)
    BY <1>7 DEF Arms
  <2>2. IsMessage(m, conf) /\ m.retry > 0
    BY <2>1 DEF IsMessage
  <2>3. ASSUME NEW n \in Nat
        PROVE  TimersOf(n, g.out) = TimersOf(n, f.out) + 1
    BY <1>1, <2>1, <2>2, TimersOfAppend, CountedFacts
  <2>4. ASSUME NEW n \in Nat
        PROVE  /\ TimersOf(n, g.out) > 0
               /\ TimersOf(n, f.out) = Owed(f.STATE) => TimersOf(n, g.out) = Owed(g.STATE)
    <3>1. PICK t \in Nat : t = TimersOf(n, f.out)
      BY <1>2
    <3>2. TimersOf(n, g.out) = t + 1
      BY <2>3, <3>1
    <3>3. QED
      BY <1>7, <3>1, <3>2 DEF Arms, Owed
  <2>5. QED
    BY <2>1, <2>2, <2>4, OutAppend DEF Keeps
<1>8. QED
  BY <1>4, <1>5, <1>6, <1>7 DEF Move

LEMMA StopTimerOut ==
  ASSUME NEW f, IsMachine(f)
  PROVE  /\ StopTimer(f).out = Stopped(f) /\ SameFields(StopTimer(f), f)
         /\ IsMachine(StopTimer(f)) /\ StopTimer(f).STATE = f.STATE
<1>1. SameFields(f, f)
  BY DEF SameFields
<1>2. QED
  BY <1>1, PostOut DEF StopTimer, Stopped

\* A packet that asks, repeated up to conf times
Request(m, conf) == IsSend(m) /\ m.retry \in 1 .. conf /\ Asks(m)

LEMMA SendConfReqOut ==
  ASSUME NEW p, NEW f, IsMachine(f), Fielded(f), setup \in Setups
  PROVE  /\ SendConfReq(p, f, TRUE).STATE = f.STATE /\ IsMachine(SendConfReq(p, f, TRUE))
         /\ Fielded(SendConfReq(p, f, TRUE))
         /\ \E m : /\ Request(m, setup.conf)
                   /\ SendConfReq(p, f, TRUE).out = Append(Stopped(f), m)
<1> DEFINE r == ResetOptions(p, f)
           g == StopTimer(r)
           m == Send(Packet("REQ", g.CURID, g.RECV_NEG), setup.conf)
<1>1. r.out = f.out /\ r.STATE = f.STATE /\ IsMachine(r) /\ Fielded(r)
  BY ResetOptionsOut
<1>2. Stopped(r) = Stopped(f)
  BY <1>1 DEF Stopped
<1> HIDE DEF r
<1>3. /\ g.out = Stopped(f) /\ IsMachine(g) /\ Fielded(g) /\ g.STATE = f.STATE
  BY <1>1, <1>2, StopTimerOut, SameFielded
<1> HIDE DEF g
<1>4. PICK i \in Nat : i = g.CURID
  BY <1>3 DEF Fielded
<1>5. PICK h : h = [[g EXCEPT !.REQID = i] EXCEPT !.CURID = i + 1]
  OBVIOUS
<1>6. PICK t : t = [g EXCEPT !.REQID = i]
  OBVIOUS
<1>7. /\ t.REQID = i /\ t.CURID = g.CURID /\ t.NAKS = g.NAKS /\ t.RECV_NEG = g.RECV_NEG
      /\ t.out = g.out /\ t.STATE = g.STATE /\ IsMachine(t)
  BY <1>3, <1>6 DEF IsMachine
<1>8. h = [t EXCEPT !.CURID = i + 1]
  BY <1>5, <1>6
<1>9. PICK j : j = i + 1
  OBVIOUS
<1>10. /\ h.REQID = t.REQID /\ h.CURID = j /\ h.NAKS = t.NAKS /\ h.RECV_NEG = t.RECV_NEG
       /\ h.out = t.out /\ h.STATE = t.STATE /\ IsMachine(h)
  BY <1>7, <1>8, <1>9 DEF IsMachine
<1>11. Fielded(h)
  <2>1. i \in -1 .. (i + 1) - 1
    OBVIOUS
  <2>2. QED
    BY <1>3, <1>4, <1>7, <1>9, <1>10, <2>1 DEF Fielded
<1>12. SendConfReq(p, f, TRUE) = Post(h, m)
  BY <1>4, <1>5 DEF SendConfReq, g, r
<1>13. Request(m, setup.conf)
  <2>1. setup.conf \in Nat /\ setup.conf >= 2
    BY SetupsAssumption
  <2>2. IsSend(m) /\ m.retry = setup.conf /\ m.pkt.code = "REQ"
    BY SendFacts DEF Packet
  <2>3. QED
    BY <2>1, <2>2 DEF Request, Asks
<1> HIDE DEF m
<1>14. PICK e : e = Post(h, m)
  OBVIOUS
<1>15. e.out = Append(h.out, m) /\ SameFields(e, h) /\ IsMachine(e) /\ e.STATE = h.STATE
  BY <1>10, <1>14, PostOut
<1>16. Fielded(e)
  BY <1>11, <1>15, SameFielded
<1>17. QED
  BY <1>3, <1>7, <1>10, <1>12, <1>13, <1>14, <1>15, <1>16

LEMMA SendTermReqOut ==
  ASSUME NEW f, IsMachine(f), Fielded(f), setup \in Setups
  PROVE  /\ SendTermReq(f, TRUE).STATE = f.STATE /\ IsMachine(SendTermReq(f, TRUE))
         /\ Fielded(SendTermReq(f, TRUE))
         /\ \E m : /\ Request(m, setup.conf)
                   /\ SendTermReq(f, TRUE).out = Append(Stopped(f), m)
<1> DEFINE g == StopTimer(f)
           m == Send(Packet("TERM_REQ", f.CURID, <<>>), MaxTerm)
<1>1. /\ g.out = Stopped(f) /\ IsMachine(g) /\ Fielded(g) /\ g.STATE = f.STATE
  BY StopTimerOut, SameFielded
<1> HIDE DEF g
<1>2. PICK i \in Nat : i = g.CURID
  BY <1>1 DEF Fielded
<1>3. PICK j : j = i + 1
  OBVIOUS
<1>4. PICK h : h = [g EXCEPT !.CURID = j]
  OBVIOUS
<1>5. /\ h.REQID = g.REQID /\ h.CURID = j /\ h.NAKS = g.NAKS /\ h.RECV_NEG = g.RECV_NEG
      /\ h.out = g.out /\ h.STATE = g.STATE /\ IsMachine(h)
  BY <1>1, <1>4 DEF IsMachine
<1>6. Fielded(h)
  <2>1. ASSUME NEW x \in -1 .. i - 1
        PROVE  x \in -1 .. (i + 1) - 1
    OBVIOUS
  <2>2. QED
    BY <1>1, <1>2, <1>3, <1>5, <2>1 DEF Fielded
<1>7. SendTermReq(f, TRUE) = Post(h, m)
  BY <1>2, <1>3, <1>4 DEF SendTermReq, g
<1>8. Request(m, setup.conf)
  <2>1. setup.conf \in Nat /\ setup.conf >= MaxTerm /\ MaxTerm \in Nat /\ MaxTerm > 0
    BY SetupsAssumption
  <2>2. IsSend(m) /\ m.retry = MaxTerm /\ m.pkt.code = "TERM_REQ"
    BY SendFacts DEF Packet
  <2>3. QED
    BY <2>1, <2>2 DEF Request, Asks
<1> HIDE DEF m
<1>9. PICK e : e = Post(h, m)
  OBVIOUS
<1>10. e.out = Append(h.out, m) /\ SameFields(e, h) /\ IsMachine(e) /\ e.STATE = h.STATE
  BY <1>5, <1>9, PostOut
<1>11. Fielded(e)
  BY <1>6, <1>10, SameFielded
<1>12. QED
  BY <1>1, <1>5, <1>7, <1>8, <1>9, <1>10, <1>11

LEMMA SendTermAckOut ==
  ASSUME NEW f, IsMachine(f), Fielded(f), NEW m, NEW delay
  PROVE  LET g == SendTermAck(f, m, delay)
         IN  /\ g.STATE = f.STATE /\ IsMachine(g) /\ Fielded(g)
             /\ \E t : /\ g.out = Append(f.out, t)
                       /\ delay = TRUE => IsSend(t) /\ t.retry = 1
                       /\ delay = FALSE => Bare(t)
<1>1. PICK t : t = Send(Packet("TERM_ACK", m.id, <<>>), IF delay THEN 1 ELSE 0)
  OBVIOUS
<1>2. IsSend(t) /\ (delay = TRUE => t.retry = 1) /\ (delay = FALSE => Bare(t))
  BY <1>1, SendFacts DEF Bare
<1>3. SendTermAck(f, m, delay) = Post(f, t)
  BY <1>1 DEF SendTermAck
<1>4. QED
  BY <1>2, <1>3, PostOut, SameFielded

LEMMA NegotiatingStates ==
  /\ \A s \in States : Negotiating(s) <=>
         s \in {CLOSING, STOPPING, REQ_SENT, ACK_RCVD, ACK_SENT}
  /\ ~Negotiating(INITIAL) /\ ~Negotiating(STARTING) /\ ~Negotiating(CLOSED)
  /\ ~Negotiating(STOPPED) /\ ~Negotiating(OPENED)
  /\ Negotiating(CLOSING) /\ Negotiating(STOPPING) /\ Negotiating(REQ_SENT)
  /\ Negotiating(ACK_RCVD) /\ Negotiating(ACK_SENT)
BY StateNumbers DEF Negotiating

LEMMA BeginOut ==
  ASSUME NEW p, NEW f, IsMachine(f), Fielded(f), setup \in Setups
  PROVE  /\ IsMachine(Begin(p, f, TRUE)) /\ Fielded(Begin(p, f, TRUE))
         /\ Begin(p, f, TRUE).STATE = REQ_SENT
         /\ Renews(f, Begin(p, f, TRUE), setup.conf)
<1>1. PICK g : g = SendConfReq(p, f, TRUE)
  OBVIOUS
<1>2. PICK m : /\ Request(m, setup.conf) /\ g.out = Append(Stopped(f), m)
               /\ IsMachine(g) /\ Fielded(g)
  BY <1>1, SendConfReqOut
<1>3. PICK h : h = Goto(g, REQ_SENT)
  OBVIOUS
<1>4. h.out = g.out /\ IsMachine(h) /\ Fielded(h) /\ h.STATE = REQ_SENT
  BY <1>2, <1>3, GotoOut, SameFielded
<1>5. Begin(p, f, TRUE) = h
  BY <1>1, <1>3 DEF Begin
<1>6. Renews(f, h, setup.conf)
  BY <1>2, <1>4, NegotiatingStates DEF Renews, Request
<1>7. QED
  BY <1>4, <1>5, <1>6

LEMMA CloseOut ==
  ASSUME NEW f, IsMachine(f), Fielded(f), setup \in Setups
  PROVE  LET g == Goto(SendTermReq(f, TRUE), CLOSING)
         IN  /\ IsMachine(g) /\ Fielded(g) /\ g.STATE = CLOSING
             /\ Renews(f, g, setup.conf)
<1>1. PICK g : g = SendTermReq(f, TRUE)
  OBVIOUS
<1>2. PICK m : /\ Request(m, setup.conf) /\ g.out = Append(Stopped(f), m)
               /\ IsMachine(g) /\ Fielded(g)
  BY <1>1, SendTermReqOut
<1>3. PICK h : h = Goto(g, CLOSING)
  OBVIOUS
<1>4. h.out = g.out /\ IsMachine(h) /\ Fielded(h) /\ h.STATE = CLOSING
  BY <1>2, <1>3, GotoOut, SameFielded
<1>5. Renews(f, h, setup.conf)
  BY <1>2, <1>4, NegotiatingStates DEF Renews, Request
<1>6. QED
  BY <1>1, <1>3, <1>4, <1>5

-----------------------------------------------------------------------------
(* The handlers, one by one.                                               *)

\* A machine as the handlers find it
Typed(f) ==
  /\ IsMachine(f) /\ f.STATE \in States
  /\ Fielded(f) /\ IsOut(f.out, setup.conf) /\ setup \in Setups

\* A machine that has its acknowledgement keeps the restart of its timer in
\* sight: it only answers, or has just sent the restart.
Armed(f, g) ==
  g.STATE = ACK_RCVD =>
    \/ f.STATE = ACK_RCVD /\ (g.out = f.out \/ \E m : Bare(m) /\ g.out = Append(f.out, m))
    \/ g.out = Append(f.out, Restart)

Handled(f, g) ==
  /\ Fielded(g) /\ IsOut(g.out, setup.conf) /\ Keeps(f, g) /\ Armed(f, g)

\* A call puts questions only.
CallDone(f, g) == Handled(f, g) /\ (AllAsk(f.out) => AllAsk(g.out))

LEMMA TypedFacts ==
  ASSUME NEW f, Typed(f)
  PROVE  /\ setup.conf \in Nat /\ IsSeq(f.out) /\ IsMachine(f) /\ Fielded(f)
         /\ IsOut(f.out, setup.conf) /\ f.STATE \in States /\ setup \in Setups
BY SetupsAssumption DEF Typed, IsOut

LEMMA StayDone ==
  ASSUME NEW f, Typed(f)
  PROVE  CallDone(f, f)
BY DEF Typed, CallDone, Handled, Keeps, Armed

LEMMA MoveDone ==
  ASSUME NEW f, Typed(f), NEW g, Move(f, g, setup.conf), Fielded(g),
         g.STATE # ACK_RCVD
  PROVE  Handled(f, g)
BY TypedFacts, MoveKeeps DEF Handled, Armed

\* f as far as the timer can tell
Resembles(f, h) ==
  /\ IsMachine(h) /\ Fielded(h) /\ h.out = f.out
  /\ Negotiating(h.STATE) <=> Negotiating(f.STATE)

LEMMA ResemblesFacts ==
  ASSUME NEW f, Typed(f)
  PROVE  Resembles(f, f) /\ Resembles(f, LinkDown(f))
<1>1. Resembles(f, f)
  BY TypedFacts DEF Resembles
<1>2. Resembles(f, LinkDown(f))
  BY TypedFacts, LinkOut, SameFielded DEF Resembles
<1>3. QED
  BY <1>1, <1>2

LEMMA GotoDone ==
  ASSUME NEW f, Typed(f), NEW h, Resembles(f, h), NEW s, s # ACK_RCVD,
         Negotiating(s) <=> Negotiating(f.STATE)
  PROVE  CallDone(f, Goto(h, s))
<1>1. PICK g : g = Goto(h, s)
  OBVIOUS
<1>2. g.out = f.out /\ g.STATE = s /\ Fielded(g)
  BY <1>1, GotoOut, SameFielded DEF Resembles
<1>3. Move(f, g, setup.conf)
  BY <1>2 DEF Move, Plain
<1>4. QED
  BY <1>1, <1>2, <1>3, MoveDone DEF CallDone

LEMMA RenewsDone ==
  ASSUME NEW f, Typed(f), NEW h, Resembles(f, h), NEW g, Renews(h, g, setup.conf),
         Fielded(g), g.STATE # ACK_RCVD
  PROVE  CallDone(f, g) /\ Renews(f, g, setup.conf)
<1>1. Stopped(h) = Stopped(f)
  BY DEF Resembles, Stopped
<1>2. Renews(f, g, setup.conf)
  BY <1>1 DEF Renews
<1>3. ASSUME AllAsk(f.out)
      PROVE  AllAsk(g.out)
  <2>1. Asks(Stop)
    BY DEF Asks, Stop
  <2>2. IsSeq(Stopped(f)) /\ AllAsk(Stopped(f))
    BY <1>3, <2>1, TypedFacts, IsSeqAppend, AskAppend DEF Stopped
  <2>3. QED
    BY <1>2, <2>2, AskAppend DEF Renews
<1>4. QED
  BY <1>2, <1>3, MoveDone DEF Move, CallDone

LEMMA BeginDone ==
  ASSUME NEW p, NEW f, Typed(f), NEW h, Resembles(f, h)
  PROVE  CallDone(f, Begin(p, h, TRUE)) /\ Renews(f, Begin(p, h, TRUE), setup.conf)
<1>1. PICK g : g = Begin(p, h, TRUE)
  OBVIOUS
<1>2. Fielded(g) /\ g.STATE = REQ_SENT /\ Renews(h, g, setup.conf)
  BY <1>1, TypedFacts, BeginOut DEF Resembles
<1>3. g.STATE # ACK_RCVD
  BY <1>2, StateNumbers
<1>4. QED
  BY <1>1, <1>2, <1>3, RenewsDone

LEMMA ShutDone ==
  ASSUME NEW f, Typed(f), NEW h, Resembles(f, h)
  PROVE  CallDone(f, Goto(SendTermReq(h, TRUE), CLOSING))
<1>1. PICK g : g = Goto(SendTermReq(h, TRUE), CLOSING)
  OBVIOUS
<1>2. Fielded(g) /\ g.STATE = CLOSING /\ Renews(h, g, setup.conf)
  BY <1>1, TypedFacts, CloseOut DEF Resembles
<1>3. g.STATE # ACK_RCVD
  BY <1>2, StateNumbers
<1>4. QED
  BY <1>1, <1>2, <1>3, RenewsDone

LEMMA EndsDone ==
  ASSUME NEW f, Typed(f), Negotiating(f.STATE),
         NEW g, g.out = Append(f.out, Stop), Fielded(g), ~Negotiating(g.STATE)
  PROVE  CallDone(f, g)
<1>1. Ends(f, g) /\ g.STATE # ACK_RCVD
  BY NegotiatingStates DEF Ends
<1>2. Asks(Stop)
  BY DEF Asks, Stop
<1>3. QED
  BY <1>1, <1>2, TypedFacts, AskAppend, MoveDone DEF Move, CallDone

LEMMA EndDone ==
  ASSUME NEW f, Typed(f), Negotiating(f.STATE), NEW s, ~Negotiating(s)
  PROVE  CallDone(f, Post(Goto(f, s), Stop)) /\ CallDone(f, Goto(Post(f, Stop), s))
<1>1. ASSUME NEW g, g.out = Append(f.out, Stop), Fielded(g), g.STATE = s
      PROVE  CallDone(f, g)
  BY <1>1, EndsDone
<1>2. PICK a : a = Goto(f, s)
  OBVIOUS
<1>3. a.out = f.out /\ Fielded(a) /\ IsMachine(a) /\ a.STATE = s
  BY <1>2, TypedFacts, GotoOut, SameFielded
<1>4. PICK b : b = Post(a, Stop)
  OBVIOUS
<1>5. b.out = Append(f.out, Stop) /\ Fielded(b) /\ b.STATE = s
  BY <1>3, <1>4, PostOut, SameFielded
<1>6. PICK c : c = Post(f, Stop)
  OBVIOUS
<1>7. c.out = Append(f.out, Stop) /\ Fielded(c) /\ IsMachine(c)
  BY <1>6, TypedFacts, PostOut, SameFielded
<1>8. PICK d : d = Goto(c, s)
  OBVIOUS
<1>9. d.out = Append(f.out, Stop) /\ Fielded(d) /\ d.STATE = s
  BY <1>7, <1>8, GotoOut, SameFielded
<1>10. QED
  BY <1>1, <1>2, <1>4, <1>5, <1>6, <1>8, <1>9

LEMMA LowerUpDone ==
  ASSUME NEW p, NEW f, Typed(f)
  PROVE  CallDone(f, LowerUp(p, f, TRUE))
<1>1. f.STATE \in States /\ Resembles(f, f)
  BY TypedFacts, ResemblesFacts
<1>2. CASE f.STATE = INITIAL
  <2>1. LowerUp(p, f, TRUE) = Goto(f, CLOSED)
    BY <1>2, StateNumbers DEF LowerUp
  <2>2. CLOSED # ACK_RCVD /\ (Negotiating(CLOSED) <=> Negotiating(f.STATE))
    BY <1>2, StateNumbers, NegotiatingStates
  <2>3. QED
    BY <1>1, <2>1, <2>2, GotoDone
<1>3. CASE f.STATE = STARTING
  <2>1. LowerUp(p, f, TRUE) \in {Goto(f, STOPPED), Begin(p, f, TRUE)}
    BY <1>3, StateNumbers DEF LowerUp
  <2>2. STOPPED # ACK_RCVD /\ (Negotiating(STOPPED) <=> Negotiating(f.STATE))
    BY <1>3, StateNumbers, NegotiatingStates
  <2>3. QED
    BY <1>1, <2>1, <2>2, GotoDone, BeginDone
<1>4. CASE f.STATE # INITIAL /\ f.STATE # STARTING
  BY <1>4, StayDone DEF LowerUp
<1>5. QED
  BY <1>2, <1>3, <1>4

LEMMA LowerDownDone ==
  ASSUME NEW p, NEW f, Typed(f)
  PROVE  CallDone(f, LowerDown(p, f))
<1>1. f.STATE \in States /\ Resembles(f, f) /\ Resembles(f, LinkDown(f))
  BY TypedFacts, ResemblesFacts
<1>2. CASE f.STATE \in {CLOSED, STOPPED, OPENED}
  <2>1. LowerDown(p, f) \in {Goto(f, INITIAL), Goto(f, STARTING),
                             Goto(LinkDown(f), STARTING)}
    BY <1>2, StateNumbers DEF LowerDown
  <2>2. /\ INITIAL # ACK_RCVD /\ (Negotiating(INITIAL) <=> Negotiating(f.STATE))
        /\ STARTING # ACK_RCVD /\ (Negotiating(STARTING) <=> Negotiating(f.STATE))
    BY <1>2, StateNumbers, NegotiatingStates
  <2>3. QED
    BY <1>1, <2>1, <2>2, GotoDone
<1>3. CASE f.STATE \in {CLOSING, STOPPING, REQ_SENT, ACK_RCVD, ACK_SENT}
  <2>1. LowerDown(p, f) \in {Post(Goto(f, INITIAL), Stop), Post(Goto(f, STARTING), Stop)}
    BY <1>3, StateNumbers DEF LowerDown
  <2>2. Negotiating(f.STATE) /\ ~Negotiating(INITIAL) /\ ~Negotiating(STARTING)
    BY <1>3, NegotiatingStates
  <2>3. QED
    BY <2>1, <2>2, EndDone
<1>4. CASE f.STATE \in {INITIAL, STARTING}
  <2>1. LowerDown(p, f) = f
    BY <1>4, StateNumbers DEF LowerDown
  <2>2. QED
    BY <2>1, StayDone
<1>5. QED
  BY <1>1, <1>2, <1>3, <1>4, StateNumbers

LEMMA CloseDone ==
  ASSUME NEW p, NEW f, Typed(f)
  PROVE  CallDone(f, Close(p, f, TRUE))
<1>1. f.STATE \in States /\ Resembles(f, f) /\ Resembles(f, LinkDown(f))
  BY TypedFacts, ResemblesFacts
<1>2. CASE f.STATE \in {STARTING, STOPPED}
  <2>1. Close(p, f, TRUE) \in {Goto(f, INITIAL), Goto(f, CLOSED)}
    <3>1. PICK packet : packet = TRUE
      OBVIOUS
    <3>2. Close(p, f, packet) \in {Goto(f, INITIAL), Goto(f, CLOSED)}
      BY <1>2, StateNumbers DEF Close
    <3>3. QED
      BY <3>1, <3>2, Zenon
  <2>2. /\ INITIAL # ACK_RCVD /\ (Negotiating(INITIAL) <=> Negotiating(f.STATE))
        /\ CLOSED # ACK_RCVD /\ (Negotiating(CLOSED) <=> Negotiating(f.STATE))
    BY <1>2, StateNumbers, NegotiatingStates
  <2>3. QED
    BY <1>1, <2>1, <2>2, GotoDone
<1>3. CASE f.STATE = STOPPING
  <2>1. Close(p, f, TRUE) = Goto(f, CLOSING)
    <3>1. PICK packet : packet = TRUE
      OBVIOUS
    <3>2. Close(p, f, packet) = Goto(f, CLOSING)
      BY <1>3, StateNumbers DEF Close
    <3>3. QED
      BY <3>1, <3>2, Zenon
  <2>2. CLOSING # ACK_RCVD /\ (Negotiating(CLOSING) <=> Negotiating(f.STATE))
    BY <1>3, StateNumbers, NegotiatingStates
  <2>3. QED
    BY <1>1, <2>1, <2>2, GotoDone
<1>4. CASE f.STATE \in {REQ_SENT, ACK_RCVD, ACK_SENT, OPENED}
  <2>1. Close(p, f, TRUE) \in {Goto(SendTermReq(f, TRUE), CLOSING), Goto(SendTermReq(LinkDown(f), TRUE), CLOSING)}
    <3>1. PICK packet : packet = TRUE
      OBVIOUS
    <3>2. Close(p, f, packet) \in {Goto(SendTermReq(f, packet), CLOSING), Goto(SendTermReq(LinkDown(f), packet), CLOSING)}
      BY <1>4, StateNumbers DEF Close
    <3>3. QED
      BY <3>1, <3>2, Zenon
  <2>2. QED
    BY <1>1, <2>1, ShutDone
<1>5. CASE f.STATE \in {INITIAL, CLOSED, CLOSING}
  <2>1. Close(p, f, TRUE) = f
    <3>1. PICK packet : packet = TRUE
      OBVIOUS
    <3>2. Close(p, f, packet) = f
      BY <1>5, StateNumbers DEF Close
    <3>3. QED
      BY <3>1, <3>2, Zenon
  <2>2. QED
    BY <2>1, StayDone
<1>6. \/ f.STATE \in {STARTING, STOPPED} \/ f.STATE = STOPPING
      \/ f.STATE \in {REQ_SENT, ACK_RCVD, ACK_SENT, OPENED}
      \/ f.STATE \in {INITIAL, CLOSED, CLOSING}
  BY <1>1, StateNumbers
<1>7. QED
  BY <1>2, <1>3, <1>4, <1>5, <1>6, Zenon

LEMMA OpenDone ==
  ASSUME NEW p, NEW f, Typed(f), NEW options
  PROVE  CallDone(f, Open(p, f, TRUE, options))
<1> DEFINE g == [f EXCEPT !.OPTIONS = options]
           h == IF g.STATE = CLOSING THEN Goto(g, STOPPING) ELSE g
<1>1. /\ g.out = f.out /\ IsMachine(g) /\ Fielded(g) /\ g.STATE = f.STATE
  BY TypedFacts, SetOut, SameFielded
<1>2. Resembles(f, g) /\ f.STATE \in States
  BY <1>1, TypedFacts DEF Resembles
<1> HIDE DEF g
<1>3. IsMachine(h) /\ Fielded(h) /\ h.out = f.out
      /\ (h.STATE = IF f.STATE = CLOSING THEN STOPPING ELSE f.STATE)
  BY <1>1, GotoOut, SameFielded
<1> HIDE DEF h
<1>4. Resembles(f, h)
  BY <1>3, NegotiatingStates DEF Resembles
<1>5. Resembles(f, LinkDown(g))
  <2>1. PICK t : t = LinkDown(g)
    OBVIOUS
  <2>2. t.out = g.out /\ IsMachine(t) /\ Fielded(t) /\ t.STATE = g.STATE
    BY <1>1, <2>1, LinkOut, SameFielded
  <2>3. QED
    BY <1>1, <2>1, <2>2 DEF Resembles
<1>6. CASE f.STATE \in {INITIAL, CLOSED}
  <2>1. Open(p, f, TRUE, options) \in {Goto(g, STARTING), Goto(g, STOPPED), Begin(p, g, TRUE)}
    <3>1. PICK packet : packet = TRUE
      OBVIOUS
    <3>2. CASE f.STATE = INITIAL
      <4>1. Open(p, f, packet, options) = Goto(g, STARTING)
        BY <1>1, <3>2, StateNumbers DEF Open, g
      <4>2. QED
        BY <3>1, <4>1, Zenon
    <3>3. CASE f.STATE = CLOSED
      <4>1. Open(p, f, packet, options) \in {Goto(g, STOPPED), Begin(p, g, packet)}
        BY <1>1, <3>3, StateNumbers DEF Open, g
      <4>2. QED
        BY <3>1, <4>1, Zenon
    <3>4. QED
      BY <1>6, <3>2, <3>3
  <2>2. /\ STARTING # ACK_RCVD /\ (Negotiating(STARTING) <=> Negotiating(f.STATE))
        /\ STOPPED # ACK_RCVD /\ (Negotiating(STOPPED) <=> Negotiating(f.STATE))
    BY <1>6, StateNumbers, NegotiatingStates
  <2>3. QED
    BY <1>2, <2>1, <2>2, GotoDone, BeginDone
<1>7. ASSUME f.STATE \notin {INITIAL, CLOSED}
      PROVE  Open(p, f, TRUE, options) \in {Begin(p, h, TRUE), Begin(p, LinkDown(g), TRUE), h}
  BY <1>1, <1>7 DEF Open, g, h
<1>8. CallDone(f, h)
  <2>1. CASE f.STATE = ACK_RCVD
    <3>1. h.STATE = f.STATE
      BY <1>3, <2>1, StateNumbers
    <3>2. Keeps(f, h)
      BY <1>3, <3>1 DEF Keeps
    <3>3. QED
      BY <1>3, <2>1, <3>2, TypedFacts DEF CallDone, Handled, Armed
  <2>2. CASE f.STATE # ACK_RCVD
    <3>1. h.STATE # ACK_RCVD
      BY <1>3, <2>2, StateNumbers
    <3>2. Move(f, h, setup.conf)
      BY <1>3, <1>4 DEF Move, Plain, Resembles
    <3>3. QED
      BY <1>3, <3>1, <3>2, MoveDone DEF CallDone
  <2>3. QED
    BY <2>1, <2>2
<1>9. QED
  BY <1>4, <1>5, <1>6, <1>7, <1>8, BeginDone

\* A request, and the end of a link, that a machine receives which waits for
\* an answer of its own: it only answers.
Mild(f, g) ==
  Negotiating(f.STATE) /\ f.STATE # ACK_RCVD =>
    /\ Negotiating(g.STATE) /\ g.STATE # ACK_RCVD
    /\ g.out = f.out \/ \E m : Bare(m) /\ g.out = Append(f.out, m)

LEMMA AnswerDone ==
  ASSUME NEW f, Typed(f), NEW h, Resembles(f, h), h.STATE # ACK_RCVD, NEW m
  PROVE  /\ Handled(f, SendTermAck(h, m, FALSE)) /\ Mild(f, SendTermAck(h, m, FALSE))
<1>1. PICK g : g = SendTermAck(h, m, FALSE)
  OBVIOUS
<1>2. /\ g.STATE = h.STATE /\ Fielded(g)
      /\ \E t : g.out = Append(h.out, t) /\ Bare(t)
  <2>1. IsMachine(h) /\ Fielded(h)
    BY DEF Resembles
  <2>2. PICK delay : delay = FALSE
    OBVIOUS
  <2>3. PICK t : /\ SendTermAck(h, m, delay).out = Append(h.out, t)
                 /\ delay = FALSE => Bare(t)
    BY <2>1, SendTermAckOut, Zenon
  <2>4. SendTermAck(h, m, delay).STATE = h.STATE /\ Fielded(SendTermAck(h, m, delay))
    BY <2>1, SendTermAckOut, Zenon
  <2>5. QED
    BY <1>1, <2>2, <2>3, <2>4, Zenon
<1>3. Move(f, g, setup.conf)
  BY <1>2 DEF Move, Plain, Resembles
<1>4. Handled(f, g)
  BY <1>2, <1>3, MoveDone
<1>5. Mild(f, g)
  BY <1>2 DEF Mild, Resembles
<1>6. QED
  BY <1>1, <1>4, <1>5

LEMMA RecvTermReqDone ==
  ASSUME NEW p, NEW f, Typed(f), NEW m
  PROVE  Handled(f, RecvTermReq(p, f, m)) /\ Mild(f, RecvTermReq(p, f, m))
<1>1. f.STATE \in States /\ Resembles(f, f) /\ Resembles(f, LinkDown(f))
  BY TypedFacts, ResemblesFacts
<1>2. CASE f.STATE \in {ACK_RCVD, ACK_SENT}
  <2>1. PICK h : h = Goto(f, REQ_SENT)
    OBVIOUS
  <2>2. h.out = f.out /\ IsMachine(h) /\ Fielded(h) /\ h.STATE = REQ_SENT
    BY <2>1, TypedFacts, GotoOut, SameFielded
  <2>3. Resembles(f, h) /\ h.STATE # ACK_RCVD
    BY <1>2, <2>2, NegotiatingStates, StateNumbers DEF Resembles
  <2>4. RecvTermReq(p, f, m) = SendTermAck(Goto(f, REQ_SENT), m, FALSE)
    <3>1. CASE f.STATE = ACK_RCVD
      BY <3>1, StateNumbers DEF RecvTermReq
    <3>2. CASE f.STATE = ACK_SENT
      BY <3>2, StateNumbers DEF RecvTermReq
    <3>3. QED
      BY <1>2, <3>1, <3>2
  <2>5. Handled(f, SendTermAck(h, m, FALSE)) /\ Mild(f, SendTermAck(h, m, FALSE))
    BY <2>3, AnswerDone
  <2>6. QED
    BY <2>1, <2>4, <2>5, Zenon
<1>3. CASE f.STATE = OPENED
  <2>1. PICK h : h = LinkDown(f)
    OBVIOUS
  <2>2. PICK t : t = SendTermAck(h, m, TRUE)
    OBVIOUS
  <2>3. PICK x : /\ IsMachine(t) /\ Fielded(t) /\ t.out = Append(h.out, x)
                 /\ IsSend(x) /\ x.retry = 1
    <3>1. IsMachine(h) /\ Fielded(h)
      BY <1>1, <2>1 DEF Resembles
    <3>2. PICK x : x = Send(Packet("TERM_ACK", m.id, <<>>), 1)
      OBVIOUS
    <3>3. IsSend(x) /\ x.retry = 1
      BY <3>2, SendFacts
    <3>4. t = Post(h, x)
      BY <2>2, <3>2 DEF SendTermAck
    <3>5. t.out = Append(h.out, x) /\ IsMachine(t) /\ Fielded(t)
      BY <3>1, <3>4, PostOut, SameFielded
    <3>6. QED
      BY <3>3, <3>5
  <2>4. PICK g : g = Goto(t, STOPPING)
    OBVIOUS
  <2>5. g.out = Append(f.out, x) /\ Fielded(g) /\ g.STATE = STOPPING
    BY <1>1, <2>1, <2>3, <2>4, GotoOut, SameFielded DEF Resembles
  <2>6. setup.conf \in Nat /\ setup.conf >= 2
    BY TypedFacts, SetupsAssumption
  <2>7. Arms(f, g, setup.conf) /\ g.STATE # ACK_RCVD
    BY <1>3, <2>3, <2>5, <2>6, NegotiatingStates, StateNumbers DEF Arms
  <2>8. Handled(f, g)
    BY <2>5, <2>7, MoveDone DEF Move
  <2>9. Mild(f, g)
    BY <1>3, NegotiatingStates DEF Mild
  <2>10. RecvTermReq(p, f, m) = g
    BY <1>3, <2>1, <2>2, <2>4, StateNumbers DEF RecvTermReq
  <2>11. QED
    BY <2>8, <2>9, <2>10
<1>4. CASE f.STATE \notin {ACK_RCVD, ACK_SENT, OPENED}
  <2>1. RecvTermReq(p, f, m) = SendTermAck(f, m, FALSE)
    BY <1>4 DEF RecvTermReq
  <2>2. QED
    BY <1>1, <1>4, <2>1, AnswerDone
<1>5. QED
  BY <1>2, <1>3, <1>4

LEMMA RecvTermAckDone ==
  ASSUME NEW p, NEW f, Typed(f), NEW m
  PROVE  Handled(f, RecvTermAck(p, f, m))
<1>1. f.STATE \in States /\ Resembles(f, f) /\ Resembles(f, LinkDown(f))
  BY TypedFacts, ResemblesFacts
<1>2. CASE f.STATE \in {CLOSING, STOPPING}
  <2>1. PICK s : s = f.STATE - 2
    OBVIOUS
  <2>2. ~Negotiating(s) /\ Negotiating(f.STATE)
    BY <1>2, <2>1, StateNumbers DEF Negotiating
  <2>3. f.STATE # ACK_RCVD /\ f.STATE # OPENED
    BY <1>2, StateNumbers
  <2>4. RecvTermAck(p, f, m) = Goto(Post(f, Stop), s)
    BY <1>2, <2>1, <2>3, Zenon DEF RecvTermAck
  <2>5. QED
    BY <2>2, <2>4, EndDone DEF CallDone
<1>3. CASE f.STATE = ACK_RCVD
  <2>1. RecvTermAck(p, f, m) = Goto(f, REQ_SENT)
    BY <1>3, StateNumbers DEF RecvTermAck
  <2>2. REQ_SENT # ACK_RCVD /\ (Negotiating(REQ_SENT) <=> Negotiating(f.STATE))
    BY <1>3, StateNumbers, NegotiatingStates
  <2>3. QED
    BY <1>1, <2>1, <2>2, GotoDone DEF CallDone
<1>4. CASE f.STATE = OPENED
  <2>1. RecvTermAck(p, f, m) = Begin(p, LinkDown(f), TRUE)
    BY <1>4, StateNumbers DEF RecvTermAck
  <2>2. QED
    BY <1>1, <2>1, BeginDone DEF CallDone
<1>5. CASE f.STATE \notin {CLOSING, STOPPING, ACK_RCVD, OPENED}
  BY <1>5, StayDone DEF RecvTermAck, CallDone
<1>6. QED
  BY <1>2, <1>3, <1>4, <1>5

LEMMA RecvConfNakDone ==
  ASSUME NEW p, NEW f, Typed(f), NEW m
  PROVE  Handled(f, RecvConfNak(p, f, m))
<1> DEFINE g == IF f.STATE < OPENED THEN [f EXCEPT !.RECV_NEG = Revised(p, @, m)] ELSE f
<1>1. g.out = f.out /\ IsMachine(g) /\ Fielded(g) /\ g.STATE = f.STATE
  <2>1. CASE f.STATE < OPENED
    <3>1. PICK u : u = Revised(p, f.RECV_NEG, m)
      OBVIOUS
    <3>2. DOMAIN u \subseteq {"accm", "ap"}
      BY <3>1, TypedFacts, RevisedDomain DEF Fielded
    <3>3. g = [f EXCEPT !.RECV_NEG = u]
      BY <2>1, <3>1
    <3> HIDE DEF g
    <3>4. /\ g.out = f.out /\ IsMachine(g) /\ g.STATE = f.STATE
          /\ g.RECV_NEG = u /\ g.CURID = f.CURID /\ g.REQID = f.REQID
          /\ g.NAKS = f.NAKS
      <4>1. IsMachine(f)
        BY TypedFacts
      <4>2. QED
        BY <3>3, <4>1 DEF IsMachine
    <3>5. QED
      BY <3>2, <3>4, TypedFacts DEF Fielded
  <2>2. CASE ~(f.STATE < OPENED)
    BY <2>2, TypedFacts
  <2>3. QED
    BY <2>1, <2>2
<1> HIDE DEF g
<1>2. Resembles(f, g) /\ f.STATE \in States
  BY <1>1, TypedFacts DEF Resembles
<1>3. Resembles(f, LinkDown(g))
  <2>1. PICK t : t = LinkDown(g)
    OBVIOUS
  <2>2. t.out = g.out /\ IsMachine(t) /\ Fielded(t) /\ t.STATE = g.STATE
    BY <1>1, <2>1, LinkOut, SameFielded
  <2>3. QED
    BY <1>1, <2>1, <2>2 DEF Resembles
<1>4. CASE f.STATE \in {CLOSED, STOPPED}
  <2>1. RecvConfNak(p, f, m) = SendTermAck(g, m, FALSE)
    <3>1. CASE f.STATE = CLOSED
      BY <3>1, StateNumbers DEF RecvConfNak, g
    <3>2. CASE f.STATE = STOPPED
      BY <3>2, StateNumbers DEF RecvConfNak, g
    <3>3. QED
      BY <1>4, <3>1, <3>2
  <2>2. g.STATE # ACK_RCVD
    BY <1>1, <1>4, StateNumbers
  <2>3. QED
    BY <1>2, <2>1, <2>2, AnswerDone
<1>5. CASE f.STATE \in {REQ_SENT, ACK_SENT}
  <2>1. PICK h : h = SendConfReq(p, g, TRUE)
    OBVIOUS
  <2>2. PICK x : /\ h.STATE = g.STATE /\ Fielded(h)
                 /\ Request(x, setup.conf) /\ h.out = Append(Stopped(g), x)
    <3>1. setup \in Setups
      BY TypedFacts
    <3>2. PICK x : /\ Request(x, setup.conf)
                   /\ SendConfReq(p, g, TRUE).out = Append(Stopped(g), x)
      BY <1>1, <3>1, SendConfReqOut, Zenon
    <3>3. SendConfReq(p, g, TRUE).STATE = g.STATE /\ Fielded(SendConfReq(p, g, TRUE))
      BY <1>1, <3>1, SendConfReqOut, Zenon
    <3>4. QED
      BY <2>1, <3>2, <3>3, Zenon
  <2>3. Renews(g, h, setup.conf) /\ h.STATE # ACK_RCVD
    BY <1>1, <1>5, <2>2, NegotiatingStates, StateNumbers DEF Renews, Request
  <2>4. f.STATE \notin {CLOSED, STOPPED} /\ f.STATE # ACK_RCVD /\ f.STATE # OPENED
    BY <1>5, StateNumbers
  <2>5. RecvConfNak(p, f, m) = h
    BY <1>5, <2>1, <2>4, Zenon DEF RecvConfNak, g
  <2>6. QED
    BY <1>2, <2>2, <2>3, <2>5, RenewsDone DEF CallDone
<1>6. CASE f.STATE \in {ACK_RCVD, OPENED}
  <2>1. RecvConfNak(p, f, m) \in {Begin(p, g, TRUE), Begin(p, LinkDown(g), TRUE)}
    <3>1. CASE f.STATE = ACK_RCVD
      BY <3>1, StateNumbers DEF RecvConfNak, g
    <3>2. CASE f.STATE = OPENED
      BY <3>2, StateNumbers DEF RecvConfNak, g
    <3>3. QED
      BY <1>6, <3>1, <3>2
  <2>2. QED
    BY <1>2, <1>3, <2>1, BeginDone DEF CallDone
<1>7. CASE f.STATE \notin {CLOSED, STOPPED, REQ_SENT, ACK_SENT, ACK_RCVD, OPENED}
  <2>1. RecvConfNak(p, f, m) = g
    BY <1>1, <1>7 DEF RecvConfNak, g
  <2>2. Move(f, g, setup.conf) /\ g.STATE # ACK_RCVD
    BY <1>1, <1>7 DEF Move, Plain
  <2>3. QED
    BY <1>1, <2>1, <2>2, MoveDone
<1>8. QED
  BY <1>4, <1>5, <1>6, <1>7

LEMMA UpDone ==
  ASSUME NEW p, NEW f, Typed(f), Negotiating(f.STATE), NEW h, Resembles(f, h)
  PROVE  /\ Handled(f, Up(p, h, TRUE)) /\ Up(p, h, TRUE).STATE \in {OPENED, CLOSING}
         /\ IsMachine(Up(p, h, TRUE))
<1>1. CASE Admits(p, h)
  <2>1. PICK t : t = LinkUp(h)
    OBVIOUS
  <2>2. t.out = h.out /\ Fielded(t) /\ IsMachine(t)
    BY <2>1, LinkOut, SameFielded DEF Resembles
  <2>3. PICK a : a = Goto(t, OPENED)
    OBVIOUS
  <2>4. a.out = h.out /\ Fielded(a) /\ IsMachine(a) /\ a.STATE = OPENED
    BY <2>2, <2>3, GotoOut, SameFielded
  <2>5. PICK b : b = Post(a, Stop)
    OBVIOUS
  <2>6. b.out = Append(f.out, Stop) /\ Fielded(b) /\ IsMachine(b) /\ b.STATE = OPENED
    BY <2>4, <2>5, PostOut, SameFielded DEF Resembles
  <2>7. Up(p, h, TRUE) = b
    BY <1>1, <2>1, <2>3, <2>5 DEF Up
  <2>8. CallDone(f, b)
    BY <2>6, NegotiatingStates, EndsDone
  <2>9. QED
    BY <2>6, <2>7, <2>8 DEF CallDone
<1>2. CASE ~Admits(p, h)
  <2>1. PICK g : g = Goto(SendTermReq(h, TRUE), CLOSING)
    OBVIOUS
  <2>2. IsMachine(g) /\ g.STATE = CLOSING
    BY <2>1, TypedFacts, CloseOut DEF Resembles
  <2>3. CallDone(f, g)
    BY <2>1, ShutDone
  <2>4. Up(p, h, TRUE) = g
    BY <1>2, <2>1 DEF Up
  <2>5. QED
    BY <2>2, <2>3, <2>4 DEF CallDone
<1>3. QED
  BY <1>1, <1>2

LEMMA RecvConfAckDone ==
  ASSUME NEW p, NEW f, Typed(f), NEW m
  PROVE  Handled(f, RecvConfAck(p, f, m))
<1> DEFINE g == Acknowledged(f, m)
<1>1. g.out = f.out /\ IsMachine(g) /\ Fielded(g) /\ g.STATE = f.STATE
  <2>1. PICK u : u = [id |-> m.id, opts |-> m.opts]
    OBVIOUS
  <2>2. PICK h : h = [f EXCEPT !.RECV_OPT = u]
    OBVIOUS
  <2>3. h.out = f.out /\ IsMachine(h) /\ Fielded(h) /\ h.STATE = f.STATE
    BY <2>2, TypedFacts, SetOut, SameFielded
  <2>4. g \in {h, f}
    BY <2>1, <2>2 DEF Acknowledged
  <2>5. QED
    BY <2>3, <2>4, TypedFacts
<1> HIDE DEF g
<1>2. Resembles(f, g) /\ f.STATE \in States
  BY <1>1, TypedFacts DEF Resembles
<1>3. Resembles(f, LinkDown(g))
  <2>1. PICK t : t = LinkDown(g)
    OBVIOUS
  <2>2. t.out = g.out /\ IsMachine(t) /\ Fielded(t) /\ t.STATE = g.STATE
    BY <1>1, <2>1, LinkOut, SameFielded
  <2>3. QED
    BY <1>1, <2>1, <2>2 DEF Resembles
<1>4. CASE f.STATE \in {CLOSED, STOPPED}
  <2>1. RecvConfAck(p, f, m) = SendTermAck(g, m, FALSE)
    <3>1. CASE f.STATE = CLOSED
      BY <3>1, StateNumbers DEF RecvConfAck, g
    <3>2. CASE f.STATE = STOPPED
      BY <3>2, StateNumbers DEF RecvConfAck, g
    <3>3. QED
      BY <1>4, <3>1, <3>2
  <2>2. g.STATE # ACK_RCVD
    BY <1>1, <1>4, StateNumbers
  <2>3. QED
    BY <1>2, <2>1, <2>2, AnswerDone
<1>5. CASE f.STATE = REQ_SENT
  <2>1. PICK t : t = Goto(g, ACK_RCVD)
    OBVIOUS
  <2>2. t.out = f.out /\ IsMachine(t) /\ Fielded(t) /\ t.STATE = ACK_RCVD
    BY <1>1, <2>1, GotoOut, SameFielded
  <2>3. PICK h : h = Post(t, Restart)
    OBVIOUS
  <2>4. h.out = Append(f.out, Restart) /\ Fielded(h) /\ h.STATE = ACK_RCVD
    BY <2>2, <2>3, PostOut, SameFielded
  <2>5. Move(f, h, setup.conf)
    BY <1>5, <2>4, NegotiatingStates DEF Move, Plain
  <2>6. Handled(f, h)
    BY <2>4, <2>5, TypedFacts, MoveKeeps DEF Handled, Armed
  <2>7. RecvConfAck(p, f, m) = h
    BY <1>5, <2>1, <2>3, StateNumbers DEF RecvConfAck, g
  <2>8. QED
    BY <2>6, <2>7
<1>6. CASE f.STATE = ACK_SENT
  <2>1. RecvConfAck(p, f, m) = Up(p, g, TRUE)
    BY <1>6, StateNumbers DEF RecvConfAck, g
  <2>2. Negotiating(f.STATE)
    BY <1>6, NegotiatingStates
  <2>3. QED
    BY <1>2, <2>1, <2>2, UpDone
<1>7. CASE f.STATE = ACK_RCVD
  <2>1. RecvConfAck(p, f, m) = Begin(p, g, TRUE)
    BY <1>7, StateNumbers DEF RecvConfAck, g
  <2>2. QED
    BY <1>2, <2>1, BeginDone DEF CallDone
<1>8. CASE f.STATE = OPENED
  <2>1. RecvConfAck(p, f, m) = Begin(p, LinkDown(g), TRUE)
    BY <1>8, StateNumbers DEF RecvConfAck, g
  <2>2. QED
    BY <1>3, <2>1, BeginDone DEF CallDone
<1>9. CASE f.STATE \notin {CLOSED, STOPPED, REQ_SENT, ACK_SENT, ACK_RCVD, OPENED}
  <2>1. RecvConfAck(p, f, m) = g
    BY <1>9 DEF RecvConfAck, g
  <2>2. Move(f, g, setup.conf) /\ g.STATE # ACK_RCVD
    BY <1>1, <1>9 DEF Move, Plain
  <2>3. QED
    BY <1>1, <2>1, <2>2, MoveDone
<1>10. QED
  BY <1>4, <1>5, <1>6, <1>7, <1>8, <1>9

\* A time-out leaves the messages alone; the last one ends the waiting, and
\* any other does not.
LEMMA TimeoutDone ==
  ASSUME NEW f, Typed(f), NEW hard \in BOOLEAN
  PROVE  LET g == Timeout(f, hard)
         IN  /\ g.out = f.out /\ Fielded(g)
             /\ g.STATE # ACK_RCVD
             /\ hard => ~Negotiating(g.STATE)
             /\ ~hard => (Negotiating(g.STATE) <=> Negotiating(f.STATE))
<1>1. PICK g : g = Timeout(f, hard)
  OBVIOUS
<1>2. f.STATE \in States
  BY TypedFacts
<1>3. ASSUME NEW s, g = Goto(f, s)
      PROVE  g.out = f.out /\ Fielded(g) /\ g.STATE = s
  BY <1>3, TypedFacts, GotoOut, SameFielded
<1>4. CASE f.STATE \in {CLOSING, STOPPING} /\ hard
  <2>1. PICK s : s = f.STATE - 2
    OBVIOUS
  <2>2. ~Negotiating(s) /\ s # ACK_RCVD
    BY <1>4, <2>1, StateNumbers DEF Negotiating
  <2>3. g = Goto(f, s)
    BY <1>1, <1>4, <2>1, StateNumbers DEF Timeout
  <2>4. QED
    BY <1>1, <1>3, <1>4, <2>2, <2>3
<1>5. CASE f.STATE \in {REQ_SENT, ACK_RCVD, ACK_SENT} /\ hard
  <2>1. g = Goto(f, STOPPED)
    BY <1>1, <1>5, StateNumbers DEF Timeout
  <2>2. ~Negotiating(STOPPED) /\ STOPPED # ACK_RCVD
    BY StateNumbers, NegotiatingStates
  <2>3. QED
    BY <1>1, <1>3, <1>5, <2>1, <2>2
<1>6. CASE f.STATE = ACK_RCVD /\ ~hard
  <2>1. g = Goto(f, REQ_SENT)
    BY <1>1, <1>6, StateNumbers DEF Timeout
  <2>2. Negotiating(REQ_SENT) /\ Negotiating(ACK_RCVD) /\ REQ_SENT # ACK_RCVD
    BY StateNumbers, NegotiatingStates
  <2>3. QED
    BY <1>1, <1>3, <1>6, <2>1, <2>2
<1>7. CASE /\ ~(f.STATE \in {CLOSING, STOPPING} /\ hard)
           /\ ~(f.STATE \in {REQ_SENT, ACK_RCVD, ACK_SENT} /\ hard)
           /\ ~(f.STATE = ACK_RCVD /\ ~hard)
  <2>1. g = f
    BY <1>1, <1>2, <1>7, StateNumbers DEF Timeout
  <2>2. f.STATE # ACK_RCVD /\ (hard => ~Negotiating(f.STATE))
    BY <1>2, <1>7, NegotiatingStates
  <2>3. QED
    BY <1>1, <2>1, <2>2, TypedFacts
<1>8. QED
  BY <1>4, <1>5, <1>6, <1>7

LEMMA RecvConfReqDone ==
  ASSUME NEW p, NEW f, Typed(f), f.STATE >= CLOSED, NEW m
  PROVE  Handled(f, RecvConfReq(p, f, m, TRUE)) /\ Mild(f, RecvConfReq(p, f, m, TRUE))
<1> DEFINE g == CASE f.STATE = OPENED -> Begin(p, LinkDown(f), TRUE)
                  [] f.STATE = STOPPED -> Begin(p, f, TRUE)
                  [] OTHER -> f
           reply == Answer(p, m.opts, g.NAKS >= MaxNaks)
           x == Send(Packet(reply.code, m.id, reply.opts), 0)
           h == Post(g, x)
           agreed == [h EXCEPT !.SEND_OPT = [id |-> m.id, opts |-> m.opts]]
           up == Up(p, agreed, TRUE)
           acked == [agreed EXCEPT !.STATE = ACK_SENT, !.NAKS = 0]
           both == [up EXCEPT !.NAKS = IF up.LINK THEN 0 ELSE @]
           other == [h EXCEPT !.STATE = IF @ = ACK_RCVD THEN @ ELSE REQ_SENT,
                              !.NAKS = IF reply.code = "NAK" THEN @ + 1 ELSE @]
<1>1. f.STATE \in States /\ Resembles(f, f) /\ Resembles(f, LinkDown(f)) /\ MaxNaks \in Nat
  BY TypedFacts, ResemblesFacts, SetupsAssumption
<1>2. CASE f.STATE = CLOSED
  <2>1. RecvConfReq(p, f, m, TRUE) = SendTermAck(f, m, FALSE)
    BY <1>2, StateNumbers DEF RecvConfReq
  <2>2. f.STATE # ACK_RCVD
    BY <1>2, StateNumbers
  <2>3. QED
    BY <1>1, <2>1, <2>2, AnswerDone
<1>3. CASE f.STATE \in {CLOSING, STOPPING}
  <2>1. RecvConfReq(p, f, m, TRUE) = f
    <3>1. CASE f.STATE = CLOSING
      BY <3>1, StateNumbers DEF RecvConfReq
    <3>2. CASE f.STATE = STOPPING
      BY <3>2, StateNumbers DEF RecvConfReq
    <3>3. QED
      BY <1>3, <3>1, <3>2
  <2>2. Mild(f, f)
    BY DEF Mild
  <2>3. QED
    BY <2>1, <2>2, StayDone DEF CallDone
<1>4. CASE f.STATE \in {STOPPED, REQ_SENT, ACK_RCVD, ACK_SENT, OPENED}
  <2>1. /\ IsMachine(g) /\ g.STATE \in {REQ_SENT, ACK_RCVD, ACK_SENT}
        /\ Handled(f, g)
        /\ f.STATE \in {REQ_SENT, ACK_RCVD, ACK_SENT} => g = f
        /\ g.STATE = ACK_RCVD => f.STATE = ACK_RCVD /\ g = f
    <3>1. CASE f.STATE = OPENED
      <4>1. PICK d : d = LinkDown(f)
        OBVIOUS
      <4>2. IsMachine(Begin(p, d, TRUE)) /\ Begin(p, d, TRUE).STATE = REQ_SENT
        BY <1>1, <4>1, TypedFacts, BeginOut DEF Resembles
      <4>3. CallDone(f, Begin(p, d, TRUE))
        BY <1>1, <4>1, BeginDone
      <4>4. g = Begin(p, d, TRUE)
        BY <3>1, <4>1, StateNumbers
      <4>5. f.STATE \notin {REQ_SENT, ACK_RCVD, ACK_SENT} /\ REQ_SENT # ACK_RCVD
        BY <3>1, StateNumbers
      <4> HIDE DEF g
      <4>6. QED
        BY <4>2, <4>3, <4>4, <4>5, Zenon DEF CallDone
    <3>2. CASE f.STATE = STOPPED
      <4>1. IsMachine(Begin(p, f, TRUE)) /\ Begin(p, f, TRUE).STATE = REQ_SENT
        BY TypedFacts, BeginOut
      <4>2. CallDone(f, Begin(p, f, TRUE))
        BY <1>1, BeginDone
      <4>3. g = Begin(p, f, TRUE)
        BY <3>2, StateNumbers
      <4>4. f.STATE \notin {REQ_SENT, ACK_RCVD, ACK_SENT} /\ REQ_SENT # ACK_RCVD
        BY <3>2, StateNumbers
      <4> HIDE DEF g
      <4>5. QED
        BY <4>1, <4>2, <4>3, <4>4, Zenon DEF CallDone
    <3>3. CASE f.STATE \in {REQ_SENT, ACK_RCVD, ACK_SENT}
      <4>1. f.STATE # OPENED /\ f.STATE # STOPPED
        BY <3>3, StateNumbers
      <4>2. g = f
        BY <4>1, Zenon
      <4> HIDE DEF g
      <4>3. QED
        BY <3>3, <4>2, TypedFacts, StayDone DEF CallDone
    <3>4. QED
      BY <1>4, <3>1, <3>2, <3>3
  <2>2. g.NAKS >= MaxNaks => reply.code # "NAK"
    <3>1. PICK reject, opts : reject = (g.NAKS >= MaxNaks) /\ opts = m.opts
      OBVIOUS
    <3>2. reject => Answer(p, opts, reject).code # "NAK"
      BY DEF Answer
    <3> HIDE DEF g
    <3>3. QED
      BY <3>1, <3>2
  <2>3. Bare(x)
    <3>1. PICK pkt : x = Send(pkt, 0)
      BY Zenon
    <3> HIDE DEF x
    <3>2. QED
      BY <3>1, SendFacts DEF Bare
  <2>4. \/ RecvConfReq(p, f, m, TRUE) \in {acked, other}
        \/ h.STATE = ACK_RCVD /\ RecvConfReq(p, f, m, TRUE) = both
    <3>1. f.STATE # CLOSED /\ f.STATE \notin {CLOSING, STOPPING}
      BY <1>4, StateNumbers
    <3>2. QED
      BY <3>1 DEF RecvConfReq
  <2> HIDE DEF g, reply, x
  <2>5. Typed(g) /\ Negotiating(g.STATE)
    BY <2>1, TypedFacts, NegotiatingStates, StateNumbers DEF Typed, Handled
  <2>6. /\ h.out = Append(g.out, x) /\ IsMachine(h) /\ Fielded(h)
        /\ h.STATE = g.STATE /\ h.NAKS = g.NAKS
    BY <2>5, TypedFacts, PostOut, SameFielded DEF SameFields
  <2> HIDE DEF h
  <2>7. /\ agreed.out = h.out /\ IsMachine(agreed) /\ Fielded(agreed)
        /\ agreed.STATE = h.STATE /\ agreed.NAKS = h.NAKS
    <3>1. PICK u : u = [id |-> m.id, opts |-> m.opts]
      OBVIOUS
    <3>2. PICK e : e = [h EXCEPT !.SEND_OPT = u]
      OBVIOUS
    <3>3. /\ e.out = h.out /\ SameFields(e, h) /\ IsMachine(e) /\ e.STATE = h.STATE
      BY <2>6, <3>2, SetOut
    <3>4. agreed = e
      BY <3>1, <3>2
    <3>5. QED
      BY <2>6, <3>3, <3>4, SameFielded DEF SameFields
  <2> HIDE DEF agreed
  <2>8. ASSUME NEW t, Handled(g, t), t.STATE # ACK_RCVD
        PROVE  Handled(f, t)
    BY <2>1, <2>8, KeepsChain DEF Handled, Armed
  <2>9. Handled(f, acked) /\ Mild(f, acked)
    <3>1. acked = Going(agreed, ACK_SENT, 0)
      BY DEF Going
    <3>2. acked.STATE = ACK_SENT
      BY <2>7, <3>1, GoneSet
    <3> HIDE DEF acked
    <3>3. acked.out = h.out /\ Fielded(acked)
      <4>1. 0 \in 0 .. MaxNaks
        BY <1>1
      <4>2. /\ Going(agreed, ACK_SENT, 0).out = agreed.out
            /\ Fielded(Going(agreed, ACK_SENT, 0))
        BY <2>7, <4>1, NaksSet
      <4>3. QED
        BY <2>7, <3>1, <4>2
    <3>4. Move(g, acked, setup.conf)
      BY <2>3, <2>5, <2>6, <3>2, <3>3, NegotiatingStates DEF Move, Plain
    <3>5. acked.STATE # ACK_RCVD
      BY <3>2, StateNumbers
    <3>6. Handled(f, acked)
      BY <2>5, <2>8, <3>3, <3>4, <3>5, MoveDone
    <3>7. Mild(f, acked)
      <4>1. CASE f.STATE \in {REQ_SENT, ACK_RCVD, ACK_SENT}
        BY <2>1, <2>3, <2>6, <3>2, <3>3, <3>5, <4>1, NegotiatingStates DEF Mild
      <4>2. CASE f.STATE \in {STOPPED, OPENED}
        BY <4>2, NegotiatingStates DEF Mild
      <4>3. QED
        BY <1>4, <4>1, <4>2
    <3>8. QED
      BY <3>6, <3>7
  <2>10. Handled(f, other) /\ Mild(f, other)
    <3>1. PICK s, v : /\ s = IF h.STATE = ACK_RCVD THEN h.STATE ELSE REQ_SENT
                      /\ v = IF reply.code = "NAK" THEN h.NAKS + 1 ELSE h.NAKS
      OBVIOUS
    <3>2. other = Going(h, s, v)
      BY <3>1 DEF Going
    <3>3. v \in 0 .. MaxNaks
      BY <1>1, <2>2, <2>6, <3>1 DEF Fielded
    <3> HIDE DEF other
    <3>4. other.STATE = s /\ other.out = h.out /\ Fielded(other)
      <4>1. Going(h, s, v).out = h.out /\ Fielded(Going(h, s, v))
        BY <2>6, <3>3, NaksSet
      <4>2. Going(h, s, v).STATE = s
        BY <2>6, GoneSet
      <4>3. QED
        BY <3>2, <4>1, <4>2
    <3>5. Negotiating(s)
      BY <3>1, NegotiatingStates
    <3>6. Move(g, other, setup.conf)
      BY <2>3, <2>5, <2>6, <3>4, <3>5 DEF Move, Plain
    <3>7. Armed(f, other)
      <4>1. CASE g.STATE = ACK_RCVD
        BY <2>1, <2>3, <2>6, <3>4, <4>1 DEF Armed
      <4>2. CASE g.STATE # ACK_RCVD
        BY <2>6, <3>1, <3>4, <4>2, StateNumbers DEF Armed
      <4>3. QED
        BY <4>1, <4>2
    <3>8. IsOut(other.out, setup.conf) /\ Keeps(g, other)
      BY <2>5, <3>6, TypedFacts, MoveKeeps
    <3>9. Handled(f, other)
      BY <2>1, <3>4, <3>7, <3>8, KeepsChain DEF Handled
    <3>10. Mild(f, other)
      <4>1. CASE f.STATE \in {REQ_SENT, ACK_SENT}
        <5>1. g = f /\ s # ACK_RCVD
          BY <2>1, <2>6, <3>1, <4>1, StateNumbers
        <5>2. QED
          BY <2>3, <2>6, <3>4, <3>5, <5>1 DEF Mild
      <4>2. CASE f.STATE \in {STOPPED, ACK_RCVD, OPENED}
        BY <4>2, NegotiatingStates DEF Mild
      <4>3. QED
        BY <1>4, <4>1, <4>2
    <3>11. QED
      BY <3>9, <3>10
  <2>11. ASSUME h.STATE = ACK_RCVD
         PROVE  Handled(f, both) /\ Mild(f, both)
    <3>1. g.STATE = ACK_RCVD /\ f.STATE = ACK_RCVD
      BY <2>1, <2>6, <2>11
    <3>2. Move(g, h, setup.conf)
      BY <2>3, <2>6 DEF Move, Plain
    <3>3. IsOut(h.out, setup.conf) /\ Keeps(g, h)
      BY <2>5, <3>2, TypedFacts, MoveKeeps
    <3>4. Typed(h) /\ Negotiating(h.STATE)
      BY <2>5, <2>6, <3>3 DEF Typed
    <3>5. Resembles(h, agreed)
      BY <2>7 DEF Resembles
    <3>6. /\ Handled(h, up) /\ up.STATE \in {OPENED, CLOSING} /\ IsMachine(up)
      BY <3>4, <3>5, UpDone
    <3> HIDE DEF up
    <3>7. PICK v : v \in {0, up.NAKS} /\ both = [up EXCEPT !.NAKS = v]
      <4>1. PICK b : b = up.LINK
        OBVIOUS
      <4>2. CASE b
        BY <4>1, <4>2
      <4>3. CASE ~b
        BY <4>1, <4>3
      <4>4. QED
        BY <4>2, <4>3
    <3>8. v \in 0 .. MaxNaks
      BY <1>1, <3>6, <3>7 DEF Handled, Fielded
    <3>9. both.out = up.out /\ Fielded(both) /\ both.STATE = up.STATE
      BY <3>6, <3>7, <3>8, NaksSet DEF Handled
    <3> HIDE DEF both
    <3>10. both.STATE # ACK_RCVD
      BY <3>6, <3>9, StateNumbers
    <3>11. Keeps(h, both) /\ IsOut(both.out, setup.conf)
      BY <3>6, <3>9 DEF Handled, Keeps
    <3>12. Keeps(f, both)
      BY <2>1, <3>3, <3>11, KeepsChain DEF Handled
    <3>13. Handled(f, both)
      BY <3>9, <3>10, <3>11, <3>12 DEF Handled, Armed
    <3>14. Mild(f, both)
      BY <3>1 DEF Mild
    <3>15. QED
      BY <3>13, <3>14
  <2>12. QED
    BY <2>4, <2>9, <2>10, <2>11
<1>5. \/ f.STATE = CLOSED \/ f.STATE \in {CLOSING, STOPPING}
      \/ f.STATE \in {STOPPED, REQ_SENT, ACK_RCVD, ACK_SENT, OPENED}
  BY <1>1, StateNumbers
<1>6. QED
  BY <1>2, <1>3, <1>4, <1>5, Zenon

-----------------------------------------------------------------------------
(* A machine and its timer.                                                *)

\* The restart of the timer is under way; only packets sent once follow it.
Pending(out) ==
  \E t \in 1 .. Len(out) :
    out[t] = Restart /\ \A i \in t + 1 .. Len(out) : Bare(out[i])

AllRetry(s, r) == \A i \in 1 .. Len(s) : s[i].retry = r

Packets(s, conf) ==
  IsSeq(s) /\ \A i \in 1 .. Len(s) : IsSend(s[i]) /\ s[i].retry \in 1 .. conf

\* The timer has been restarted.
Restarted(out, rx, ex) ==
  AllBare(out) /\ AllRetry(rx, setup.conf) /\ AllRetry(ex, setup.conf)

\* With patient timers: a machine has as many packets to repeat as are due;
\* one that has its acknowledgement has all its retries, or will have; and
\* when a packet is unlinked for the last time, nothing under way can cross
\* the time-out.
Exact(f, rx, ex) ==
  /\ TimersOf(Len(rx) + Len(ex), f.out) = Owed(f.STATE)
  /\ f.STATE = ACK_RCVD => Pending(f.out) \/ Restarted(f.out, rx, ex)
  /\ ex # <<>> /\ ex[1].retry = 1 =>
       /\ rx = <<>> /\ Negotiating(f.STATE) /\ f.STATE # ACK_RCVD
       /\ AllBare(f.out)

Timed(f, rx, ex) ==
  /\ Typed(f) /\ f.CURID <= setup.ids
  /\ Packets(rx, setup.conf) /\ Packets(ex, setup.conf) /\ Len(ex) <= 1
  /\ Negotiating(f.STATE) => TimersOf(Len(rx) + Len(ex), f.out) > 0
  /\ setup.patient => Exact(f, rx, ex)

LEMMA TimedFacts ==
  ASSUME NEW f, NEW rx, NEW ex, Timed(f, rx, ex)
  PROVE  /\ Typed(f) /\ IsSeq(f.out) /\ IsSeq(rx) /\ IsSeq(ex)
         /\ Len(f.out) \in Nat /\ Len(rx) \in Nat /\ Len(ex) \in Nat
         /\ Len(rx) + Len(ex) \in Nat
         /\ setup.conf \in Nat /\ setup.conf >= 2
BY TypedFacts, SetupsAssumption, IsSeqFacts DEF Timed, Packets

LEMMA PendingAppend ==
  ASSUME NEW out, IsSeq(out), NEW m
  PROVE  /\ Pending(Append(out, Restart))
         /\ Bare(m) /\ Pending(out) => Pending(Append(out, m))
<1>1. ASSUME NEW x, NEW s, s = Append(out, x)
      PROVE  /\ Len(s) = Len(out) + 1 /\ s[Len(out) + 1] = x /\ Len(out) \in Nat
             /\ \A i \in 1 .. Len(out) : s[i] = out[i]
  BY <1>1, IsSeqAppend, IsSeqFacts
<1>2. Pending(Append(out, Restart))
  <2>1. PICK s : s = Append(out, Restart)
    OBVIOUS
  <2>2. Len(s) \in 1 .. Len(s) /\ s[Len(s)] = Restart
    BY <1>1, <2>1
  <2>3. \A i \in Len(s) + 1 .. Len(s) : Bare(s[i])
    BY <1>1, <2>1
  <2>4. QED
    BY <2>1, <2>2, <2>3 DEF Pending
<1>3. ASSUME Bare(m), Pending(out)
      PROVE  Pending(Append(out, m))
  <2>1. PICK s : s = Append(out, m)
    OBVIOUS
  <2>2. /\ Len(s) = Len(out) + 1 /\ s[Len(out) + 1] = m /\ Len(out) \in Nat
        /\ \A i \in 1 .. Len(out) : s[i] = out[i]
    BY <1>1, <2>1
  <2>3. PICK t \in 1 .. Len(out) :
          out[t] = Restart /\ \A i \in t + 1 .. Len(out) : Bare(out[i])
    BY <1>3 DEF Pending
  <2>4. t \in 1 .. Len(s) /\ s[t] = Restart
    BY <2>2, <2>3
  <2>5. ASSUME NEW i \in t + 1 .. Len(s)
        PROVE  Bare(s[i])
    <3>1. CASE i = Len(s)
      BY <1>3, <2>2, <3>1
    <3>2. CASE i # Len(s)
      <4>1. i \in t + 1 .. Len(out) /\ i \in 1 .. Len(out)
        BY <2>2, <3>2
      <4>2. QED
        BY <2>2, <2>3, <4>1
    <3>3. QED
      BY <3>1, <3>2
  <2>6. QED
    BY <2>1, <2>4, <2>5 DEF Pending
<1>4. QED
  BY <1>2, <1>3

\* A handler leaves a machine timed.
LEMMA TimedHandled ==
  ASSUME NEW f, NEW rx, NEW ex, Timed(f, rx, ex),
         NEW g, Handled(f, g), IsMachine(g), g.STATE \in States, g.CURID <= setup.ids,
         setup.patient /\ ex # <<>> => Mild(f, g)
  PROVE  Timed(g, rx, ex)
<1>1. PICK n \in Nat : n = Len(rx) + Len(ex)
  BY TimedFacts
<1>2. Typed(g)
  BY DEF Handled, Typed, Timed
<1>3. /\ (Negotiating(f.STATE) => TimersOf(n, f.out) > 0)
           => (Negotiating(g.STATE) => TimersOf(n, g.out) > 0)
      /\ TimersOf(n, f.out) = Owed(f.STATE) => TimersOf(n, g.out) = Owed(g.STATE)
  BY DEF Handled, Keeps
<1>4. Negotiating(g.STATE) => TimersOf(n, g.out) > 0
  BY <1>1, <1>3 DEF Timed
<1>5. ASSUME setup.patient
      PROVE  Exact(g, rx, ex)
  <2>1. Exact(f, rx, ex)
    BY <1>5 DEF Timed
  <2>2. TimersOf(n, g.out) = Owed(g.STATE)
    BY <1>1, <1>3, <2>1 DEF Exact
  <2>3. ASSUME g.STATE = ACK_RCVD
        PROVE  Pending(g.out) \/ Restarted(g.out, rx, ex)
    <3>1. CASE g.out = Append(f.out, Restart)
      BY <3>1, TimedFacts, PendingAppend
    <3>2. CASE f.STATE = ACK_RCVD /\ g.out = f.out
      BY <2>1, <3>2 DEF Exact
    <3>3. CASE f.STATE = ACK_RCVD /\ \E m : Bare(m) /\ g.out = Append(f.out, m)
      <4>1. PICK m : Bare(m) /\ g.out = Append(f.out, m)
        BY <3>3
      <4>2. CASE Pending(f.out)
        BY <4>1, <4>2, TimedFacts, PendingAppend
      <4>3. CASE Restarted(f.out, rx, ex)
        BY <4>1, <4>3, TimedFacts, BareAppend DEF Restarted
      <4>4. QED
        BY <2>1, <3>3, <4>2, <4>3 DEF Exact
    <3>4. QED
      BY <2>3, <3>1, <3>2, <3>3 DEF Handled, Armed
  <2>4. ASSUME ex # <<>>, ex[1].retry = 1
        PROVE  /\ rx = <<>> /\ Negotiating(g.STATE) /\ g.STATE # ACK_RCVD
               /\ AllBare(g.out)
    <3>1. /\ rx = <<>> /\ Negotiating(f.STATE) /\ f.STATE # ACK_RCVD
          /\ AllBare(f.out)
      BY <2>1, <2>4 DEF Exact
    <3>2. /\ Negotiating(g.STATE) /\ g.STATE # ACK_RCVD
          /\ g.out = f.out \/ \E m : Bare(m) /\ g.out = Append(f.out, m)
      BY <1>5, <2>4, <3>1 DEF Mild
    <3>3. AllBare(g.out)
      BY <3>1, <3>2, TimedFacts, BareAppend
    <3>4. QED
      BY <3>1, <3>2, <3>3
  <2>5. QED
    BY <1>1, <2>2, <2>3, <2>4 DEF Exact
<1>6. QED
  BY <1>1, <1>2, <1>4, <1>5 DEF Timed

\* The transmit task takes a message of a machine.
LEMMA TimedTake ==
  ASSUME NEW f, NEW rx, NEW ex, Timed(f, rx, ex), ex = <<>>, f.out # <<>>,
         NEW g, g = [f EXCEPT !.out = Tail(f.out)],
         NEW sx, Packets(sx, setup.conf), Len(sx) = Counted(Len(rx), Head(f.out)),
         Bare(Head(f.out)) => sx = rx,
         Head(f.out) = Restart /\ Len(rx) = 1 => AllRetry(sx, setup.conf)
  PROVE  Timed(g, sx, ex)
<1>1. PICK u : u = Tail(f.out)
  OBVIOUS
<1>2. /\ g.out = u /\ g.STATE = f.STATE /\ g.CURID = f.CURID /\ IsMachine(g)
      /\ SameFields(g, f)
  <2>1. g = [f EXCEPT !.out = u] /\ IsMachine(f)
    BY <1>1, TimedFacts, TypedFacts
  <2>2. QED
    BY <2>1 DEF IsMachine, SameFields
<1>3. /\ IsSeq(f.out) /\ IsSeq(u) /\ Len(u) = Len(f.out) - 1 /\ Len(f.out) > 0
      /\ Len(f.out) \in Nat /\ Head(f.out) = f.out[1]
      /\ \A i \in 1 .. Len(f.out) - 1 : u[i] = f.out[i + 1]
  BY <1>1, TimedFacts, IsSeqFacts
<1>4. IsOut(u, setup.conf)
  <2>1. ASSUME NEW i \in 1 .. Len(u)
        PROVE  IsMessage(u[i], setup.conf)
    <3>1. i + 1 \in 1 .. Len(f.out) /\ i \in 1 .. Len(f.out) - 1
      BY <1>3
    <3>2. QED
      BY <1>3, <3>1, TimedFacts, TypedFacts DEF IsOut
  <2>2. QED
    BY <1>3, <2>1 DEF IsOut
<1>5. Typed(g)
  BY <1>2, <1>4, TimedFacts, SameFielded DEF Typed
<1>6. Len(ex) = 0 /\ Len(rx) \in Nat /\ Len(sx) \in Nat
  <2>1. IsSeq(sx)
    BY DEF Packets
  <2>2. QED
    BY <2>1, TimedFacts, IsSeqFacts
<1>7. TimersOf(Len(sx) + Len(ex), u) = TimersOf(Len(rx) + Len(ex), f.out)
  BY <1>1, <1>3, <1>6, TimersOfTail
<1>8. ASSUME setup.patient
      PROVE  Exact(g, sx, ex)
  <2>1. Exact(f, rx, ex)
    BY <1>8 DEF Timed
  <2>2. ASSUME f.STATE = ACK_RCVD
        PROVE  Pending(u) \/ Restarted(u, sx, ex)
    <3>1. CASE Pending(f.out)
      <4>1. PICK t \in 1 .. Len(f.out) :
              f.out[t] = Restart /\ \A i \in t + 1 .. Len(f.out) : Bare(f.out[i])
        BY <3>1 DEF Pending
      <4>2. CASE t = 1
        <5>1. ASSUME NEW i \in 1 .. Len(u)
              PROVE  Bare(u[i])
          <6>1. i + 1 \in t + 1 .. Len(f.out) /\ i \in 1 .. Len(f.out) - 1
            BY <1>3, <4>2
          <6>2. QED
            BY <1>3, <4>1, <6>1
        <5>2. AllBare(u)
          BY <5>1 DEF AllBare
        <5>3. TimersOf(Len(sx) + Len(ex), u) = Len(sx)
          BY <1>3, <1>6, <5>2, TimersOfBare
        <5>4. TimersOf(Len(rx) + Len(ex), f.out) = 1
          BY <2>1, <2>2, NegotiatingStates DEF Exact, Owed
        <5>5. Head(f.out) = Restart
          BY <1>3, <4>1, <4>2
        <5>6. Len(sx) = Len(rx)
          BY <5>5, CountedFacts
        <5>7. AllRetry(sx, setup.conf)
          BY <1>7, <5>3, <5>4, <5>5, <5>6
        <5>8. AllRetry(ex, setup.conf)
          BY <1>6 DEF AllRetry
        <5>9. QED
          BY <5>2, <5>7, <5>8 DEF Restarted
      <4>3. CASE t # 1
        <5>1. t - 1 \in 1 .. Len(u) /\ t - 1 \in 1 .. Len(f.out) - 1
          BY <1>3, <4>1, <4>3
        <5>2. u[t - 1] = Restart
          BY <1>3, <4>1, <5>1
        <5>3. ASSUME NEW i \in (t - 1) + 1 .. Len(u)
              PROVE  Bare(u[i])
          <6>1. i + 1 \in t + 1 .. Len(f.out) /\ i \in 1 .. Len(f.out) - 1
            BY <1>3, <4>1, <4>3
          <6>2. QED
            BY <1>3, <4>1, <6>1
        <5>4. QED
          BY <5>1, <5>2, <5>3 DEF Pending
      <4>4. QED
        BY <4>2, <4>3
    <3>2. CASE Restarted(f.out, rx, ex)
      <4>1. Bare(Head(f.out))
        BY <1>3, <3>2 DEF Restarted, AllBare
      <4>2. sx = rx
        BY <4>1
      <4>3. ASSUME NEW i \in 1 .. Len(u)
            PROVE  Bare(u[i])
        <5>1. i + 1 \in 1 .. Len(f.out) /\ i \in 1 .. Len(f.out) - 1
          BY <1>3
        <5>2. QED
          BY <1>3, <3>2, <5>1 DEF Restarted, AllBare
      <4>4. QED
        BY <3>2, <4>2, <4>3 DEF Restarted, AllBare
    <3>3. QED
      BY <2>1, <2>2, <3>1, <3>2 DEF Exact
  <2>3. TimersOf(Len(sx) + Len(ex), g.out) = Owed(g.STATE)
    BY <1>2, <1>7, <2>1 DEF Exact
  <2>4. QED
    BY <1>2, <2>2, <2>3 DEF Exact
<1>9. QED
  BY <1>2, <1>5, <1>7, <1>8 DEF Timed

\* The first packet is unlinked, with patient timers when nothing else is
\* under way.
LEMMA TimedExpire ==
  ASSUME NEW f, NEW rx, NEW ex, Timed(f, rx, ex), ex = <<>>, rx # <<>>,
         setup.patient => f.out = <<>>
  PROVE  Timed(f, Tail(rx), <<Head(rx)>>)
<1>1. PICK sx, ey, m : sx = Tail(rx) /\ m = Head(rx) /\ ey = <<m>>
  OBVIOUS
<1>2. /\ IsSeq(rx) /\ IsSeq(sx) /\ Len(sx) = Len(rx) - 1 /\ Len(rx) > 0
      /\ Len(rx) \in Nat /\ m = rx[1] /\ Len(ex) = 0
      /\ \A i \in 1 .. Len(rx) - 1 : sx[i] = rx[i + 1]
  BY <1>1, TimedFacts, IsSeqFacts
<1>3. IsSeq(ey) /\ Len(ey) = 1 /\ ey[1] = m
  <2>1. ey \in Seq({m}) /\ Len(ey) = 1 /\ ey[1] = m
    BY <1>1
  <2>2. QED
    BY <2>1 DEF IsSeq
<1>4. ASSUME NEW i \in 1 .. Len(sx)
      PROVE  i + 1 \in 1 .. Len(rx) /\ sx[i] = rx[i + 1]
  BY <1>2
<1>5. Packets(rx, setup.conf)
  BY DEF Timed
<1>6. Packets(sx, setup.conf) /\ Packets(ey, setup.conf)
  <2>1. ASSUME NEW x, NEW i \in 1 .. Len(rx), x = rx[i]
        PROVE  IsSend(x) /\ x.retry \in 1 .. setup.conf
    BY <1>5, <2>1 DEF Packets
  <2>2. Packets(sx, setup.conf)
    BY <1>2, <1>4, <2>1 DEF Packets
  <2>3. 1 \in 1 .. Len(rx)
    BY <1>2
  <2>4. IsSend(m) /\ m.retry \in 1 .. setup.conf
    BY <1>2, <2>1, <2>3
  <2>5. \A i \in 1 .. Len(ey) : ey[i] = m
    BY <1>3
  <2>6. QED
    BY <1>3, <2>2, <2>4, <2>5 DEF Packets
<1>7. Len(sx) + Len(ey) = Len(rx) + Len(ex)
  BY <1>2, <1>3
<1>8. ASSUME setup.patient
      PROVE  Exact(f, sx, ey)
  <2>1. Exact(f, rx, ex) /\ f.out = <<>>
    BY <1>8 DEF Timed
  <2>2. TimersOf(Len(rx) + Len(ex), f.out) = Len(rx)
    BY <1>2, <2>1, TimersOfNone
  <2>3. Negotiating(f.STATE) /\ Len(rx) = 1 /\ sx = <<>>
    <3>1. Negotiating(f.STATE) /\ Len(rx) = 1
      BY <1>2, <2>1, <2>2 DEF Exact, Owed
    <3>2. Len(sx) = 0
      BY <1>2, <3>1
    <3>3. sx = <<>>
      BY <1>2, <3>2 DEF IsSeq
    <3>4. QED
      BY <3>1, <3>3
  <2>4. AllBare(f.out) /\ ~Pending(f.out)
    BY <2>1 DEF AllBare, Pending
  <2>5. f.STATE = ACK_RCVD => m.retry = setup.conf
    BY <1>2, <2>1, <2>4 DEF Exact, Restarted, AllRetry
  <2>6. f.STATE = ACK_RCVD => Restarted(f.out, sx, ey)
    <3>1. Len(sx) = 0
      BY <1>2, <2>3
    <3>2. QED
      BY <1>3, <2>4, <2>5, <3>1 DEF Restarted, AllRetry
  <2>7. ey # <<>> /\ ey[1].retry = 1 => f.STATE # ACK_RCVD
    BY <1>3, <2>5, TimedFacts
  <2>8. QED
    BY <1>7, <2>1, <2>3, <2>4, <2>6, <2>7 DEF Exact
<1>9. QED
  BY <1>1, <1>3, <1>6, <1>7, <1>8 DEF Timed

\* The machine is told of a time-out, and a packet with retries is put back.
LEMMA TimedTimeout ==
  ASSUME NEW f, NEW rx, NEW ex, Timed(f, rx, ex), ex # <<>>,
         NEW hard \in BOOLEAN, hard <=> ex[1].retry = 1,
         NEW g, g = Timeout(f, hard), IsMachine(g), g.STATE \in States,
         NEW sx, hard => sx = rx,
         ~hard => \E i \in 1 .. Len(rx) + 1 :
                    sx = InsertAt(rx, i, [ex[1] EXCEPT !.retry = @ - 1])
  PROVE  Timed(g, sx, <<>>) /\ g.CURID = f.CURID
<1>1. /\ Typed(f) /\ IsSeq(rx) /\ IsSeq(ex) /\ Len(rx) \in Nat /\ Len(ex) \in Nat
      /\ IsSeq(f.out)
  BY TimedFacts
<1>2. /\ g.out = f.out /\ Fielded(g) /\ g.STATE # ACK_RCVD
      /\ hard => ~Negotiating(g.STATE)
      /\ ~hard => (Negotiating(g.STATE) <=> Negotiating(f.STATE))
  BY <1>1, TimeoutDone
<1>3. g.CURID = f.CURID
  <2>1. \A s : Goto(f, s).CURID = f.CURID
    BY <1>1, TypedFacts, GotoOut DEF SameFields
  <2>2. g = f \/ \E s : g = Goto(f, s)
    BY DEF Timeout
  <2>3. QED
    BY <2>1, <2>2
<1>4. g.STATE # ACK_RCVD
  BY <1>2
<1>5. Typed(g) /\ g.CURID <= setup.ids
  BY <1>1, <1>2, <1>3 DEF Typed, Timed
<1>6. Len(ex) = 1
  <2>1. Len(ex) > 0
    BY <1>1, IsSeqFacts
  <2>2. Len(ex) <= 1
    BY DEF Timed
  <2>3. PICK l \in Nat : l = Len(ex)
    BY <1>1
  <2>4. l > 0 /\ l <= 1
    BY <2>1, <2>2, <2>3
  <2>5. QED
    BY <2>3, <2>4
<1>7. /\ Packets(<<>>, setup.conf) /\ Len(<<>>) = 0
  <2>1. PICK s : s = <<>>
    OBVIOUS
  <2>2. IsSeq(s) /\ Len(s) = 0
    BY <2>1 DEF IsSeq
  <2>3. QED
    BY <2>1, <2>2 DEF Packets
<1>8. CASE hard
  <2>1. sx = rx /\ Packets(sx, setup.conf) /\ ~Negotiating(g.STATE)
    BY <1>2, <1>8 DEF Timed
  <2>2. ASSUME setup.patient
        PROVE  Exact(g, sx, <<>>)
    <3>1. rx = <<>> /\ AllBare(f.out)
      BY <1>8, <2>2 DEF Timed, Exact
    <3>2. Len(sx) + Len(<<>>) = 0
      BY <1>7, <2>1, <3>1
    <3>3. TimersOf(0, f.out) = 0
      BY <1>1, <3>1, TimersOfBare
    <3>4. QED
      BY <1>2, <1>4, <2>1, <3>2, <3>3 DEF Exact, Owed
  <2>3. QED
    BY <1>3, <1>5, <1>7, <2>1, <2>2 DEF Timed
<1>9. CASE ~hard
  <2>1. PICK m : m = ex[1]
    OBVIOUS
  <2>2. IsSend(m) /\ m.retry \in 1 .. setup.conf /\ m.retry # 1
    BY <1>6, <1>9, <2>1 DEF Timed, Packets
  <2>3. PICK r : r = m.retry - 1
    OBVIOUS
  <2>4. PICK t : t = [m EXCEPT !.retry = r]
    OBVIOUS
  <2>5. IsSend(t) /\ t.retry \in 1 .. setup.conf
    <3>1. t = Send(m.pkt, r)
      <4>1. PICK a, b : a = m.pkt /\ b = m.retry
        OBVIOUS
      <4>2. m = [cmd |-> "SEND", pkt |-> a, retry |-> b]
        BY <2>2, <4>1 DEF IsSend, Send
      <4>3. t = [cmd |-> "SEND", pkt |-> a, retry |-> r]
        BY <2>4, <4>2
      <4>4. QED
        BY <4>1, <4>3 DEF Send
    <3>2. r \in 1 .. setup.conf
      BY <1>1, <2>2, <2>3, TypedFacts
    <3>3. QED
      BY <3>1, <3>2, SendFacts
  <2>6. PICK i \in 1 .. Len(rx) + 1 : sx = InsertAt(rx, i, t)
    BY <1>9, <2>1, <2>3, <2>4
  <2>7. /\ IsSeq(sx) /\ Len(sx) = Len(rx) + 1
        /\ \A j \in 1 .. Len(rx) + 1 : sx[j] = t \/ \E x \in 1 .. Len(rx) : sx[j] = rx[x]
    BY <1>1, <2>6, IsSeqInsert
  <2>8. Packets(sx, setup.conf)
    <3>1. ASSUME NEW j \in 1 .. Len(sx)
          PROVE  IsSend(sx[j]) /\ sx[j].retry \in 1 .. setup.conf
      <4>1. CASE sx[j] = t
        BY <2>5, <4>1
      <4>2. CASE \E x \in 1 .. Len(rx) : sx[j] = rx[x]
        BY <4>2 DEF Timed, Packets
      <4>3. QED
        BY <2>7, <4>1, <4>2
    <3>2. QED
      BY <2>7, <3>1 DEF Packets
  <2>9. Len(sx) + Len(<<>>) = Len(rx) + Len(ex)
    BY <1>1, <1>6, <1>7, <2>7
  <2>10. Negotiating(g.STATE) => TimersOf(Len(sx) + Len(<<>>), g.out) > 0
    BY <1>2, <1>9, <2>9 DEF Timed
  <2>11. ASSUME setup.patient
         PROVE  Exact(g, sx, <<>>)
    <3>1. TimersOf(Len(rx) + Len(ex), f.out) = Owed(f.STATE)
      BY <2>11 DEF Timed, Exact
    <3>2. TimersOf(Len(sx) + Len(<<>>), g.out) = Owed(g.STATE)
      BY <1>2, <1>9, <2>9, <3>1 DEF Owed
    <3>3. QED
      BY <1>4, <3>2 DEF Exact
  <2>12. QED
    BY <1>3, <1>5, <1>7, <2>8, <2>10, <2>11 DEF Timed
<1>10. QED
  BY <1>8, <1>9

-----------------------------------------------------------------------------
(* Both ends of the line.                                                  *)

AllAskPackets(w) == \A i \in 1 .. Len(w) : w[i].code \in {"REQ", "TERM_REQ"}

\* While a packet of one end is unlinked nothing of that end is under way,
\* and the other end, whose timer waits, only asks.
Calm(ex, ow, eq, wq, oq) ==
  ex # <<>> => /\ eq = <<>> /\ wq = <<>>
               /\ AllAskPackets(ow) /\ AllAsk(oq)

Calmly == \A r \in Peers : Calm(expired[r], wire[r], expired[Peer(r)], wire[Peer(r)],
                                fsm[Peer(r)].out)

TimedLine ==
  /\ setup \in Setups /\ losses \in 0 .. setup.losses
  /\ rexmit = [r \in Peers |-> rexmit[r]]
  /\ expired = [r \in Peers |-> expired[r]]
  /\ wire = [r \in Peers |-> wire[r]]
  /\ \A r \in Peers : Timed(fsm[r], rexmit[r], expired[r]) /\ IsSeq(wire[r])
  /\ setup.patient => Calmly

\* What a step of p changes is its own timer.
Steady(p) ==
  /\ setup' = setup /\ losses' \in 0 .. setup.losses
  /\ rexmit' = [r \in Peers |-> rexmit'[r]]
  /\ expired' = [r \in Peers |-> expired'[r]]
  /\ wire' = [r \in Peers |-> wire'[r]]
  /\ \A r \in Peers : IsSeq(wire'[r])
  /\ \A r \in Peers : r # p => /\ fsm'[r] = fsm[r] /\ rexmit'[r] = rexmit[r]
                               /\ expired'[r] = expired[r]

LEMMA TimedStep ==
  ASSUME TimedLine, NEW p \in Peers, Steady(p),
         Timed(fsm'[p], rexmit'[p], expired'[p]),
         setup.patient =>
            /\ Calm(expired'[p], wire'[p], expired'[Peer(p)], wire'[Peer(p)],
                    fsm'[Peer(p)].out)
            /\ Calm(expired'[Peer(p)], wire'[Peer(p)], expired'[p], wire'[p],
                    fsm'[p].out)
  PROVE  TimedLine'
<1>1. setup' = setup
  BY DEF Steady
<1>2. ASSUME NEW r \in Peers
      PROVE  Timed(fsm[r], rexmit[r], expired[r])'
  <2>1. Timed(fsm'[r], rexmit'[r], expired'[r])
    BY DEF Steady, TimedLine
  <2>2. QED
    BY <1>1, <2>1 DEF Timed, Typed, Exact, Restarted
<1>3. ASSUME setup.patient
      PROVE  Calmly'
  <2>1. ASSUME NEW r \in Peers
        PROVE  Calm(expired'[r], wire'[r], expired'[Peer(r)], wire'[Peer(r)],
                    fsm'[Peer(r)].out)
    BY <1>3, PeerFacts
  <2>2. QED
    BY <2>1 DEF Calmly
<1>4. QED
  BY <1>1, <1>2, <1>3 DEF TimedLine, Steady

LEMMA LineAt ==
  ASSUME TimedLine, LineInv, NEW p \in Peers
  PROVE  /\ Timed(fsm[p], rexmit[p], expired[p]) /\ Typed(fsm[p]) /\ Valid(p, fsm[p])
         /\ IsSeq(wire[p]) /\ IsSeq(rexmit[p]) /\ IsSeq(fsm[p].out)
         /\ setup.patient =>
              /\ Calm(expired[p], wire[p], expired[Peer(p)], wire[Peer(p)],
                      fsm[Peer(p)].out)
              /\ Calm(expired[Peer(p)], wire[Peer(p)], expired[p], wire[p], fsm[p].out)
<1>1. Timed(fsm[p], rexmit[p], expired[p]) /\ IsSeq(wire[p]) /\ Valid(p, fsm[p])
  BY DEF TimedLine, LineInv
<1>2. ASSUME setup.patient
      PROVE  /\ Calm(expired[p], wire[p], expired[Peer(p)], wire[Peer(p)],
                     fsm[Peer(p)].out)
             /\ Calm(expired[Peer(p)], wire[Peer(p)], expired[p], wire[p], fsm[p].out)
  <2>1. Peer(p) \in Peers /\ Peer(Peer(p)) = p
    BY PeerFacts
  <2>2. Calmly
    BY <1>2 DEF TimedLine
  <2>3. \A r \in Peers : Calm(expired[r], wire[r], expired[Peer(r)], wire[Peer(r)],
                              fsm[Peer(r)].out)
    BY <2>2 DEF Calmly
  <2>4. Calm(expired[Peer(p)], wire[Peer(p)], expired[Peer(Peer(p))],
             wire[Peer(Peer(p))], fsm[Peer(Peer(p))].out)
    BY <2>1, <2>3
  <2>5. QED
    BY <2>1, <2>3, <2>4
<1>3. QED
  BY <1>1, <1>2, TimedFacts

\* A handler changes its machine, and the receive task takes a frame.
LEMMA TimedMachine ==
  ASSUME TimedLine, LineInv, NEW p \in Peers, NEW g, Valid(p, g),
         Handled(fsm[p], g), g.CURID <= setup.ids,
         fsm' = [fsm EXCEPT ![p] = g], UNCHANGED <<rexmit, expired, losses, setup>>,
         NEW w, IsSeq(w), wire' = [wire EXCEPT ![p] = w],
         setup.patient =>
            /\ expired[p] # <<>> => Mild(fsm[p], g)
            /\ Calm(expired[p], w, expired[Peer(p)], wire[Peer(p)], fsm[Peer(p)].out)
            /\ Calm(expired[Peer(p)], wire[Peer(p)], expired[p], w, g.out)
  PROVE  TimedLine'
<1>1. /\ fsm'[p] = g /\ \A r \in Peers : r # p => fsm'[r] = fsm[r]
      /\ wire' = [r \in Peers |-> wire'[r]] /\ wire'[p] = w
      /\ \A r \in Peers : r # p => wire'[r] = wire[r]
  <2>1. fsm = [r \in Peers |-> fsm[r]] /\ wire = [r \in Peers |-> wire[r]]
    BY DEF TimedLine, LineInv
  <2>2. QED
    BY <2>1, UpdateAt
<1>2. IsMachine(g) /\ g.STATE \in States
  BY DEF Valid
<1>3. Timed(g, rexmit[p], expired[p])
  BY <1>2, LineAt, TimedHandled
<1>4. Timed(fsm'[p], rexmit'[p], expired'[p])
  BY <1>1, <1>3
<1>5. Steady(p)
  <2>1. \A r \in Peers : IsSeq(wire'[r])
    BY <1>1 DEF TimedLine
  <2>2. QED
    BY <1>1, <2>1 DEF Steady, TimedLine
<1>6. Peer(p) \in Peers /\ Peer(p) # p
  BY PeerFacts
<1>7. /\ fsm'[Peer(p)] = fsm[Peer(p)] /\ wire'[Peer(p)] = wire[Peer(p)]
      /\ expired' = expired
  BY <1>1, <1>6
<1>8. QED
  BY <1>1, <1>4, <1>5, <1>7, TimedStep

\* Memory enough, before a step and after it
Ample == TypedLine /\ Supplied /\ Supplied'

\* A machine then becomes what its handler makes of it, which had its packet.
LEMMA AmpleBecome ==
  ASSUME Ample, setup' = setup, NEW p \in Peers, NEW packet, NEW g, Become(p, packet, g)
  PROVE  packet /\ fsm' = [fsm EXCEPT ![p] = g]
<1>1. failures \in Nat /\ failures' = failures
  BY SetupsAssumption DEF Ample, Supplied, TypedLine
<1>2. ~(\E cost \in 1 .. failures : failures' = failures - cost)
  BY <1>1
<1>3. QED
  BY <1>2, Zenon DEF Become

LEMMA AmpleCalled ==
  ASSUME Ample, NEW p \in Peers, NEW op, NEW packet, NEW g, Called(p, op, packet, g)
  PROVE  packet /\ fsm' = [fsm EXCEPT ![p] = g]
BY AmpleBecome DEF Called

LEMMA AmpleReceived ==
  ASSUME Ample, NEW p \in Peers, NEW code, NEW packet, NEW g, Received(p, code, packet, g)
  PROVE  packet /\ fsm' = [fsm EXCEPT ![p] = g]
BY AmpleBecome DEF Received

LEMMA TimedCall ==
  ASSUME TimedLine, LineInv, Ample, NEW p \in Peers, Call(p)
  PROVE  TimedLine'
<1>1. ASSUME NEW op, NEW packet, NEW g, Valid(p, g), CallDone(fsm[p], g),
             Called(p, op, packet, g)
      PROVE  TimedLine'
  <2>1. PICK w : w = wire[p]
    OBVIOUS
  <2>2. wire' = [wire EXCEPT ![p] = w] /\ IsSeq(w)
    <3>1. wire = [r \in Peers |-> wire[r]] /\ wire' = wire
      BY <1>1 DEF Called, TimedLine
    <3>2. IsSeq(w)
      BY <2>1, LineAt
    <3>3. QED
      BY <2>1, <3>1, <3>2
  <2>3. /\ fsm' = [fsm EXCEPT ![p] = g] /\ UNCHANGED <<rexmit, expired, losses, setup>>
        /\ g.CURID <= setup.ids
        /\ setup.patient => expired[p] = <<>>
    BY <1>1, AmpleCalled DEF Called
  <2>4. Handled(fsm[p], g) /\ (AllAsk(fsm[p].out) => AllAsk(g.out))
    BY <1>1 DEF CallDone
  <2>5. ASSUME setup.patient
        PROVE  /\ Calm(expired[p], w, expired[Peer(p)], wire[Peer(p)], fsm[Peer(p)].out)
               /\ Calm(expired[Peer(p)], wire[Peer(p)], expired[p], w, g.out)
    <3>1. Calm(expired[Peer(p)], wire[Peer(p)], expired[p], w, fsm[p].out)
      BY <2>1, <2>5, LineAt
    <3>2. QED
      BY <2>3, <2>4, <2>5, <3>1 DEF Calm
  <2>6. QED
    BY <1>1, <2>2, <2>3, <2>4, <2>5, TimedMachine
<1>2. Valid(p, fsm[p]) /\ Typed(fsm[p])
  BY LineAt
<1>3. CASE PPPFSM_lowerup(p)
  <2>1. \E packet \in BOOLEAN : Called(p, "lowerup", packet, LowerUp(p, fsm[p], packet))
    BY <1>3 DEF PPPFSM_lowerup
  <2>2. ~Called(p, "lowerup", FALSE, LowerUp(p, fsm[p], FALSE))
    BY AmpleCalled
  <2>3. Called(p, "lowerup", TRUE, LowerUp(p, fsm[p], TRUE))
    BY <2>1, <2>2, Zenon
  <2>4. QED
    BY <1>1, <1>2, <2>3, LowerUpValid, LowerUpDone
<1>4. CASE PPPFSM_lowerdown(p)
  BY <1>1, <1>2, <1>4, LowerDownValid, LowerDownDone DEF PPPFSM_lowerdown
<1>5. CASE PPPFSM_open(p)
  <2>1. PICK o : o = Head(todo[p]).options
    OBVIOUS
  <2>2. \E packet \in BOOLEAN : Called(p, "open", packet, Open(p, fsm[p], packet, o))
    BY <1>5, <2>1 DEF PPPFSM_open
  <2>3. ~Called(p, "open", FALSE, Open(p, fsm[p], FALSE, o))
    BY AmpleCalled
  <2>4. Called(p, "open", TRUE, Open(p, fsm[p], TRUE, o))
    BY <2>2, <2>3, Zenon
  <2>5. QED
    BY <1>1, <1>2, <2>4, OpenValid, OpenDone
<1>6. CASE PPPFSM_close(p)
  <2>1. \E packet \in BOOLEAN : Called(p, "close", packet, Close(p, fsm[p], packet))
    BY <1>6 DEF PPPFSM_close
  <2>2. ~Called(p, "close", FALSE, Close(p, fsm[p], FALSE))
    BY AmpleCalled
  <2>3. Called(p, "close", TRUE, Close(p, fsm[p], TRUE))
    BY <2>1, <2>2, Zenon
  <2>4. QED
    BY <1>1, <1>2, <2>3, CloseValid, CloseDone
<1>7. QED
  BY <1>3, <1>4, <1>5, <1>6 DEF Call

\* A frame less asks no less.
LEMMA AskTail ==
  ASSUME NEW w, IsSeq(w), w # <<>>
  PROVE  /\ IsSeq(Tail(w))
         /\ AllAskPackets(w) => /\ Head(w).code \in {"REQ", "TERM_REQ"}
                                /\ AllAskPackets(Tail(w))
<1>1. PICK v : v = Tail(w)
  OBVIOUS
<1>2. /\ Len(w) \in Nat /\ Len(w) > 0 /\ Head(w) = w[1] /\ IsSeq(v)
      /\ Len(v) = Len(w) - 1 /\ \A i \in 1 .. Len(w) - 1 : v[i] = w[i + 1]
  BY <1>1, IsSeqFacts
<1>3. ASSUME AllAskPackets(w)
      PROVE  w[1].code \in {"REQ", "TERM_REQ"} /\ AllAskPackets(v)
  <2>1. \A i \in 1 .. Len(w) : w[i].code \in {"REQ", "TERM_REQ"}
    BY <1>3 DEF AllAskPackets
  <2>2. ASSUME NEW i \in 1 .. Len(v)
        PROVE  v[i].code \in {"REQ", "TERM_REQ"}
    <3>1. i + 1 \in 1 .. Len(w) /\ i \in 1 .. Len(w) - 1
      BY <1>2
    <3>2. QED
      BY <1>2, <2>1, <3>1
  <2>3. 1 \in 1 .. Len(w)
    BY <1>2
  <2>4. QED
    BY <2>1, <2>2, <2>3 DEF AllAskPackets
<1>4. QED
  BY <1>1, <1>2, <1>3

LEMMA TimedInput ==
  ASSUME TimedLine, LineInv, Ample, NEW p \in Peers, Input(p)
  PROVE  TimedLine'
<1>1. Valid(p, fsm[p]) /\ Typed(fsm[p]) /\ IsSeq(wire[p])
  BY LineAt
<1>2. wire[p] # <<>>
  BY DEF Input, InputConfReq, InputConfAck, InputConfNak, InputTermReq, InputTermAck,
         InputDropped
<1>3. PICK w : w = Tail(wire[p])
  OBVIOUS
<1>4. /\ IsSeq(w)
      /\ AllAskPackets(wire[p]) => /\ Head(wire[p]).code \in {"REQ", "TERM_REQ"}
                                   /\ AllAskPackets(w)
  BY <1>1, <1>2, <1>3, AskTail
<1>5. ASSUME setup.patient
      PROVE  /\ expired[p] # <<>> => Head(wire[p]).code \in {"REQ", "TERM_REQ"}
             /\ Calm(expired[p], w, expired[Peer(p)], wire[Peer(p)], fsm[Peer(p)].out)
             /\ \A out : Calm(expired[Peer(p)], wire[Peer(p)], expired[p], w, out)
  <2>1. /\ Calm(expired[p], wire[p], expired[Peer(p)], wire[Peer(p)], fsm[Peer(p)].out)
        /\ Calm(expired[Peer(p)], wire[Peer(p)], expired[p], wire[p], fsm[p].out)
    BY <1>5, LineAt
  <2>2. QED
    BY <1>2, <1>4, <2>1 DEF Calm
<1>6. ASSUME NEW code, NEW packet, NEW g, Valid(p, g), Handled(fsm[p], g),
             Received(p, code, packet, g),
             code \in {{"REQ"}, {"TERM_REQ"}} => Mild(fsm[p], g),
             code \notin {{"REQ"}, {"TERM_REQ"}} =>
                Head(wire[p]).code \notin {"REQ", "TERM_REQ"}
      PROVE  TimedLine'
  <2>1. /\ fsm' = [fsm EXCEPT ![p] = g] /\ UNCHANGED <<rexmit, expired, losses, setup>>
        /\ g.CURID <= setup.ids
        /\ wire' = [wire EXCEPT ![p] = w]
    BY <1>3, <1>6, AmpleReceived DEF Received
  <2>2. setup.patient /\ expired[p] # <<>> => Mild(fsm[p], g)
    BY <1>5, <1>6
  <2>3. QED
    BY <1>4, <1>5, <1>6, <2>1, <2>2, TimedMachine
<1>7. CASE InputConfReq(p)
  <2>1. fsm[p].STATE >= CLOSED
    BY <1>7 DEF InputConfReq, Received
  <2>2. PICK m : m = Head(wire[p])
    OBVIOUS
  <2>3. \E packet \in BOOLEAN :
          Received(p, {"REQ"}, packet, RecvConfReq(p, fsm[p], m, packet))
    BY <1>7, <2>2 DEF InputConfReq
  <2>4. ~Received(p, {"REQ"}, FALSE, RecvConfReq(p, fsm[p], m, FALSE))
    BY AmpleReceived
  <2>5. Received(p, {"REQ"}, TRUE, RecvConfReq(p, fsm[p], m, TRUE))
    BY <2>3, <2>4, Zenon
  <2>6. QED
    BY <1>1, <1>6, <2>1, <2>5, RecvConfReqValid, RecvConfReqDone
<1>8. CASE InputTermReq(p)
  BY <1>1, <1>6, <1>8, RecvTermReqValid, RecvTermReqDone DEF InputTermReq
<1>9. CASE InputConfAck(p)
  <2>1. /\ IsForUs(fsm[p], Head(wire[p])) /\ Head(wire[p]).code = "ACK"
        /\ Head(wire[p]).opts # Nothing
    BY <1>9, TypedFramed DEF InputConfAck, Received, Ample, Framed
  <2>2. Received(p, {"ACK"}, TRUE, RecvConfAck(p, fsm[p], Head(wire[p])))
    BY <1>9 DEF InputConfAck
  <2>3. /\ Valid(p, RecvConfAck(p, fsm[p], Head(wire[p])))
        /\ Handled(fsm[p], RecvConfAck(p, fsm[p], Head(wire[p])))
    BY <1>1, <2>1, RecvConfAckValid, RecvConfAckDone
  <2>4. {"ACK"} \notin {{"REQ"}, {"TERM_REQ"}}
    OBVIOUS
  <2>5. Head(wire[p]).code \notin {"REQ", "TERM_REQ"}
    BY <2>1
  <2>6. QED
    BY <1>6, <2>2, <2>3, <2>4, <2>5
<1>10. CASE InputConfNak(p)
  <2>1. Received(p, {"NAK", "REJ"}, TRUE, RecvConfNak(p, fsm[p], Head(wire[p])))
    BY <1>10 DEF InputConfNak
  <2>2. /\ Valid(p, RecvConfNak(p, fsm[p], Head(wire[p])))
        /\ Handled(fsm[p], RecvConfNak(p, fsm[p], Head(wire[p])))
    BY <1>1, RecvConfNakValid, RecvConfNakDone
  <2>3. {"NAK", "REJ"} \notin {{"REQ"}, {"TERM_REQ"}}
    OBVIOUS
  <2>4. Head(wire[p]).code \notin {"REQ", "TERM_REQ"}
    BY <2>1 DEF Received
  <2>5. QED
    BY <1>6, <2>1, <2>2, <2>3, <2>4
<1>11. CASE InputTermAck(p)
  <2>1. Received(p, {"TERM_ACK"}, TRUE, RecvTermAck(p, fsm[p], Head(wire[p])))
    BY <1>11 DEF InputTermAck
  <2>2. /\ Valid(p, RecvTermAck(p, fsm[p], Head(wire[p])))
        /\ Handled(fsm[p], RecvTermAck(p, fsm[p], Head(wire[p])))
    BY <1>1, RecvTermAckValid, RecvTermAckDone
  <2>3. {"TERM_ACK"} \notin {{"REQ"}, {"TERM_REQ"}}
    OBVIOUS
  <2>4. Head(wire[p]).code \notin {"REQ", "TERM_REQ"}
    BY <2>1 DEF Received
  <2>5. QED
    BY <1>6, <2>1, <2>2, <2>3, <2>4
<1>12. CASE InputDropped(p)
  <2>1. PICK g : g = fsm[p]
    OBVIOUS
  <2>2. Handled(fsm[p], g)
    BY <1>1, <2>1, StayDone DEF CallDone
  <2>3. Valid(p, g) /\ g.CURID <= setup.ids
    BY <2>1, LineAt DEF Timed
  <2>4. fsm' = [fsm EXCEPT ![p] = g]
    <3>1. fsm = [r \in Peers |-> fsm[r]] /\ fsm' = fsm
      BY <1>12 DEF InputDropped, LineInv
    <3>2. QED
      BY <2>1, <3>1
  <2>5. UNCHANGED <<rexmit, expired, losses, setup>> /\ wire' = [wire EXCEPT ![p] = w]
    BY <1>3, <1>12 DEF InputDropped
  <2>6. Mild(fsm[p], g)
    BY <2>1 DEF Mild
  <2>7. QED
    BY <1>4, <1>5, <2>2, <2>3, <2>4, <2>5, <2>6, TimedMachine
<1>13. QED
  BY <1>7, <1>8, <1>9, <1>10, <1>11, <1>12 DEF Input

\* The transmit task takes a message: what it does to its queue, and what it
\* writes to the line.
LEMMA TimedTaken ==
  ASSUME TimedLine, LineInv, NEW p \in Peers, NEW cmd, Taken(p, cmd),
         NEW sx, rexmit' = [rexmit EXCEPT ![p] = sx], Packets(sx, setup.conf),
         Len(sx) = Counted(Len(rexmit[p]), Head(fsm[p].out)),
         Bare(Head(fsm[p].out)) => sx = rexmit[p],
         Head(fsm[p].out) = Restart /\ Len(rexmit[p]) = 1 => AllRetry(sx, setup.conf),
         NEW w, IsSeq(w), wire' = [wire EXCEPT ![Peer(p)] = w],
         Asks(Head(fsm[p].out)) /\ AllAskPackets(wire[Peer(p)]) => AllAskPackets(w)
  PROVE  TimedLine'
<1>1. PICK q \in Peers : q = Peer(p) /\ q # p
  BY PeerFacts
<1>2. PICK g : g = [fsm[p] EXCEPT !.out = Tail(fsm[p].out)]
  OBVIOUS
<1>3. /\ fsm' = [fsm EXCEPT ![p] = g] /\ UNCHANGED <<expired, losses, setup>>
      /\ expired[p] = <<>> /\ fsm[p].out # <<>>
  <2>1. fsm' = [fsm EXCEPT ![p].out = Tail(fsm[p].out)]
    BY DEF Taken
  <2>2. QED
    BY <1>2, <2>1 DEF Taken
<1>4. /\ fsm'[p] = g /\ \A r \in Peers : r # p => fsm'[r] = fsm[r]
      /\ wire' = [r \in Peers |-> wire'[r]] /\ wire'[q] = w
      /\ \A r \in Peers : r # q => wire'[r] = wire[r]
      /\ rexmit' = [r \in Peers |-> rexmit'[r]] /\ rexmit'[p] = sx
      /\ \A r \in Peers : r # p => rexmit'[r] = rexmit[r]
  <2>1. fsm = [r \in Peers |-> fsm[r]] /\ wire = [r \in Peers |-> wire[r]]
        /\ rexmit = [r \in Peers |-> rexmit[r]]
    BY DEF TimedLine, LineInv
  <2>2. fsm'[p] = g /\ \A r \in Peers : r # p => fsm'[r] = fsm[r]
    BY <1>3, <2>1, UpdateAt
  <2>3. /\ wire' = [r \in Peers |-> wire'[r]] /\ wire'[q] = w
        /\ \A r \in Peers : r # q => wire'[r] = wire[r]
    BY <1>1, <2>1, UpdateAt
  <2>4. /\ rexmit' = [r \in Peers |-> rexmit'[r]] /\ rexmit'[p] = sx
        /\ \A r \in Peers : r # p => rexmit'[r] = rexmit[r]
    BY <2>1, UpdateAt
  <2>5. QED
    BY <2>2, <2>3, <2>4
<1>5. Timed(fsm[p], rexmit[p], expired[p]) /\ IsSeq(fsm[p].out) /\ IsMachine(fsm[p])
  BY LineAt, TypedFacts
<1>6. Timed(g, sx, expired[p])
  BY <1>2, <1>3, <1>5, TimedTake
<1>7. Timed(fsm'[p], rexmit'[p], expired'[p])
  BY <1>3, <1>4, <1>6
<1>8. Steady(p)
  <2>1. \A r \in Peers : IsSeq(wire'[r])
    BY <1>1, <1>4 DEF TimedLine
  <2>2. QED
    BY <1>3, <1>4, <2>1 DEF Steady, TimedLine
<1>9. g.out = Tail(fsm[p].out)
  <2>1. PICK f, u : f = fsm[p] /\ u = Tail(fsm[p].out)
    OBVIOUS
  <2>2. IsMachine(f) /\ g = [f EXCEPT !.out = u]
    BY <1>2, <1>5, <2>1
  <2>3. g.out = u
    BY <2>2 DEF IsMachine
  <2>4. QED
    BY <2>1, <2>3
<1>10. AllAsk(fsm[p].out) => Asks(Head(fsm[p].out)) /\ AllAsk(g.out)
  <2>1. PICK o, u : o = fsm[p].out /\ u = Tail(o)
    OBVIOUS
  <2>2. /\ Len(o) \in Nat /\ Len(o) > 0 /\ Head(o) = o[1]
        /\ Len(u) = Len(o) - 1 /\ \A i \in 1 .. Len(o) - 1 : u[i] = o[i + 1]
    BY <1>3, <1>5, <2>1, IsSeqFacts
  <2>3. ASSUME AllAsk(o)
        PROVE  Asks(o[1]) /\ AllAsk(u)
    <3>1. \A i \in 1 .. Len(o) : Asks(o[i])
      BY <2>3 DEF AllAsk
    <3>2. ASSUME NEW i \in 1 .. Len(u)
          PROVE  Asks(u[i])
      <4>1. i + 1 \in 1 .. Len(o) /\ i \in 1 .. Len(o) - 1
        BY <2>2
      <4>2. QED
        BY <2>2, <3>1, <4>1
    <3>3. 1 \in 1 .. Len(o)
      BY <2>2
    <3>4. QED
      BY <3>1, <3>2, <3>3 DEF AllAsk
  <2>4. QED
    BY <1>9, <2>1, <2>2, <2>3
<1>11. ASSUME setup.patient
       PROVE  /\ Calm(expired'[p], wire'[p], expired'[Peer(p)], wire'[Peer(p)],
                      fsm'[Peer(p)].out)
              /\ Calm(expired'[Peer(p)], wire'[Peer(p)], expired'[p], wire'[p],
                      fsm'[p].out)
  <2>1. Calm(expired[q], wire[q], expired[p], wire[p], fsm[p].out)
    BY <1>1, <1>11, LineAt
  <2>2. Calm(expired[q], w, expired[p], wire[p], g.out)
    BY <1>1, <1>10, <2>1 DEF Calm
  <2>3. Calm(expired'[q], wire'[q], expired'[p], wire'[p], fsm'[p].out)
    BY <1>1, <1>3, <1>4, <2>2
  <2>4. Calm(expired'[p], wire'[p], expired'[q], wire'[q], fsm'[q].out)
    BY <1>3 DEF Calm
  <2>5. QED
    BY <1>1, <2>3, <2>4
<1>12. QED
  BY <1>7, <1>8, <1>11, TimedStep

\* The message the transmit task takes
LEMMA HeadTaken ==
  ASSUME TimedLine, LineInv, NEW p \in Peers, NEW cmd, Taken(p, cmd)
  PROVE  LET m == Head(fsm[p].out)
         IN  /\ IsMessage(m, setup.conf) /\ m.cmd = cmd
             /\ cmd = "SEND" => IsSend(m) /\ m.retry \in 0 .. setup.conf
             /\ cmd = "STOP" => m = Stop
             /\ cmd = "RESTART" => m = Restart
<1>1. PICK m, o : m = Head(fsm[p].out) /\ o = fsm[p].out
  OBVIOUS
<1>2. IsOut(o, setup.conf) /\ o # <<>> /\ m.cmd = cmd /\ setup.conf \in Nat
  BY <1>1, LineAt, TypedFacts DEF Taken
<1>3. /\ Len(o) \in Nat /\ Len(o) > 0 /\ Head(o) = o[1]
  BY <1>2, IsSeqFacts DEF IsOut
<1>4. IsMessage(m, setup.conf)
  <2>1. 1 \in 1 .. Len(o) /\ m = o[1]
    BY <1>1, <1>3
  <2>2. QED
    BY <1>2, <2>1 DEF IsOut
<1>5. /\ m = Stop => m.cmd = "STOP"
      /\ m = Restart => m.cmd = "RESTART"
      /\ IsSend(m) => m.cmd = "SEND"
  BY SendFacts DEF Stop, Restart
<1>6. /\ cmd = "SEND" => IsSend(m) /\ m.retry \in 0 .. setup.conf
      /\ cmd = "STOP" => m = Stop
      /\ cmd = "RESTART" => m = Restart
  BY <1>2, <1>4, <1>5 DEF IsMessage
<1>7. QED
  BY <1>1, <1>2, <1>4, <1>6

LEMMA TimedTakeStop ==
  ASSUME TimedLine, LineInv, NEW p \in Peers, TakeStop(p)
  PROVE  TimedLine'
<1>1. Taken(p, "STOP")
  BY DEF TakeStop
<1>2. PICK m : m = Head(fsm[p].out)
  OBVIOUS
<1>3. m = Stop
  BY <1>1, <1>2, HeadTaken
<1>4. m.cmd = "STOP" /\ m # Restart /\ ~Bare(m)
  BY <1>3, SendFacts DEF Stop, Restart, Bare
<1>5. PICK rx : rx = rexmit[p]
  OBVIOUS
<1>6. Packets(rx, setup.conf) /\ IsSeq(rx) /\ Len(rx) \in Nat
  BY <1>5, LineAt, IsSeqFacts DEF Timed
<1>7. Counted(Len(rx), m) = IF Len(rx) > 0 THEN Len(rx) - 1 ELSE Len(rx)
  BY <1>3, CountedFacts
<1>8. PICK sx : sx = IF rx = <<>> THEN rx ELSE Tail(rx)
  OBVIOUS
<1>9. Packets(sx, setup.conf) /\ Len(sx) = Counted(Len(rx), m)
  <2>1. CASE rx = <<>>
    BY <1>6, <1>7, <1>8, <2>1, IsSeqFacts
  <2>2. CASE rx # <<>>
    <3>1. /\ IsSeq(sx) /\ Len(sx) = Len(rx) - 1 /\ Len(rx) > 0
          /\ \A i \in 1 .. Len(rx) - 1 : sx[i] = rx[i + 1]
      BY <1>6, <1>8, <2>2, IsSeqFacts
    <3>2. ASSUME NEW i \in 1 .. Len(sx)
          PROVE  IsSend(sx[i]) /\ sx[i].retry \in 1 .. setup.conf
      <4>1. i + 1 \in 1 .. Len(rx) /\ i \in 1 .. Len(rx) - 1
        BY <1>6, <3>1
      <4>2. sx[i] = rx[i + 1]
        BY <3>1, <4>1
      <4>3. QED
        BY <1>6, <4>1, <4>2 DEF Packets
    <3>3. QED
      BY <1>7, <3>1, <3>2 DEF Packets
  <2>3. QED
    BY <2>1, <2>2
<1>10. rexmit' = [rexmit EXCEPT ![p] = sx]
  <2>1. rexmit = [r \in Peers |-> rexmit[r]]
    BY DEF TimedLine
  <2>2. CASE rx = <<>>
    BY <1>5, <1>8, <2>1, <2>2 DEF TakeStop
  <2>3. CASE rx # <<>>
    BY <1>5, <1>8, <2>3 DEF TakeStop
  <2>4. QED
    BY <2>2, <2>3
<1>11. PICK w : w = wire[Peer(p)]
  OBVIOUS
<1>12. IsSeq(w) /\ wire' = [wire EXCEPT ![Peer(p)] = w]
  <2>1. wire = [r \in Peers |-> wire[r]] /\ wire' = wire
    BY DEF TimedLine, TakeStop
  <2>2. Peer(p) \in Peers
    BY PeerFacts
  <2>3. IsSeq(w)
    BY <1>11, <2>2 DEF TimedLine
  <2>4. QED
    BY <1>11, <2>1, <2>2, <2>3
<1>13. /\ Len(sx) = Counted(Len(rexmit[p]), Head(fsm[p].out))
       /\ ~Bare(Head(fsm[p].out)) /\ Head(fsm[p].out) # Restart
       /\ AllAskPackets(wire[Peer(p)]) => AllAskPackets(w)
  BY <1>2, <1>4, <1>5, <1>9, <1>11
<1>14. QED
  BY <1>1, <1>9, <1>10, <1>12, <1>13, TimedTaken

LEMMA TimedTakeRestart ==
  ASSUME TimedLine, LineInv, NEW p \in Peers, TakeRestart(p)
  PROVE  TimedLine'
<1>1. Taken(p, "RESTART")
  BY DEF TakeRestart
<1>2. PICK m : m = Head(fsm[p].out)
  OBVIOUS
<1>3. m = Restart
  BY <1>1, <1>2, HeadTaken
<1>4. m.cmd = "RESTART" /\ ~Bare(m)
  BY <1>3, SendFacts DEF Restart, Bare
<1>5. PICK rx : rx = rexmit[p]
  OBVIOUS
<1>6. Packets(rx, setup.conf) /\ IsSeq(rx) /\ Len(rx) \in Nat /\ setup.conf \in Nat
      /\ setup.conf >= 2
  BY <1>5, LineAt, IsSeqFacts, TimedFacts DEF Timed
<1>7. Counted(Len(rx), m) = Len(rx)
  BY <1>3, CountedFacts
<1>8. PICK a : a = rx[1]
  OBVIOUS
<1>9. PICK t : t = [a EXCEPT !.retry = setup.conf]
  OBVIOUS
<1>10. PICK sx : sx = IF rx = <<>> THEN rx ELSE [rx EXCEPT ![1] = t]
  OBVIOUS
<1>11. /\ Packets(sx, setup.conf) /\ Len(sx) = Len(rx)
       /\ Len(rx) = 1 => AllRetry(sx, setup.conf)
  <2>1. CASE rx = <<>>
    <3>1. sx = rx /\ Len(rx) = 0
      BY <1>6, <1>10, <2>1, IsSeqFacts
    <3>2. QED
      BY <1>6, <3>1 DEF AllRetry
  <2>2. CASE rx # <<>>
    <3>1. /\ IsSeq(sx) /\ Len(sx) = Len(rx) /\ sx[1] = t /\ Len(rx) > 0
          /\ \A i \in 2 .. Len(rx) : sx[i] = rx[i]
      <4>1. sx = [rx EXCEPT ![1] = t]
        BY <1>10, <2>2
      <4>2. /\ IsSeq(sx) /\ Len(sx) = Len(rx) /\ sx[1] = t
            /\ \A i \in 2 .. Len(rx) : sx[i] = rx[i]
        <5>1. PICK S : rx \in Seq(S)
          BY <1>6 DEF IsSeq
        <5>2. PICK U : U = S \cup {t}
          OBVIOUS
        <5>3. rx \in Seq(U) /\ t \in U /\ 1 \in 1 .. Len(rx)
          BY <1>6, <2>2, <5>1, <5>2, IsSeqFacts
        <5>4. sx \in Seq(U)
          BY <4>1, <5>3, ExceptSeq
        <5>5. QED
          BY <1>6, <4>1, <5>3, <5>4, ExceptSeq DEF IsSeq
      <4>3. QED
        BY <1>6, <2>2, <4>2, IsSeqFacts
    <3>2. IsSend(a)
      <4>1. 1 \in 1 .. Len(rx)
        BY <1>6, <3>1
      <4>2. QED
        BY <1>6, <1>8, <4>1 DEF Packets
    <3>3. IsSend(t) /\ t.retry = setup.conf
      <4>1. PICK x, y, c : x = a.pkt /\ y = a.retry /\ c = setup.conf
        OBVIOUS
      <4>2. a = [cmd |-> "SEND", pkt |-> x, retry |-> y]
        BY <3>2, <4>1 DEF IsSend, Send
      <4>3. t = [cmd |-> "SEND", pkt |-> x, retry |-> c]
        BY <1>9, <4>1, <4>2
      <4>4. t = Send(x, c)
        BY <4>3 DEF Send
      <4>5. QED
        BY <4>1, <4>4, SendFacts
    <3>4. ASSUME NEW i \in 1 .. Len(sx)
          PROVE  IsSend(sx[i]) /\ sx[i].retry \in 1 .. setup.conf
      <4>1. CASE i = 1
        BY <1>6, <3>1, <3>3, <4>1
      <4>2. CASE i # 1
        <5>1. i \in 2 .. Len(rx) /\ i \in 1 .. Len(rx)
          BY <1>6, <3>1, <4>2
        <5>2. sx[i] = rx[i]
          BY <3>1, <5>1
        <5>3. QED
          BY <1>6, <5>1, <5>2 DEF Packets
      <4>3. QED
        BY <4>1, <4>2
    <3>5. Len(rx) = 1 => AllRetry(sx, setup.conf)
      BY <3>1, <3>3 DEF AllRetry
    <3>6. QED
      BY <3>1, <3>4, <3>5 DEF Packets
  <2>3. QED
    BY <2>1, <2>2
<1>12. rexmit' = [rexmit EXCEPT ![p] = sx]
  <2>1. rexmit = [r \in Peers |-> rexmit[r]]
    BY DEF TimedLine
  <2>2. CASE rx = <<>>
    BY <1>5, <1>10, <2>1, <2>2 DEF TakeRestart
  <2>3. CASE rx # <<>>
    <3>1. rexmit' = [rexmit EXCEPT ![p] =
                       [rexmit[p] EXCEPT ![1] =
                          [rexmit[p][1] EXCEPT !.retry = setup.conf]]]
      BY <1>5, <2>3 DEF TakeRestart
    <3>2. QED
      BY <1>5, <1>8, <1>9, <1>10, <2>3, <3>1
  <2>4. QED
    BY <2>2, <2>3
<1>13. PICK w : w = wire[Peer(p)]
  OBVIOUS
<1>14. IsSeq(w) /\ wire' = [wire EXCEPT ![Peer(p)] = w]
  <2>1. wire = [r \in Peers |-> wire[r]] /\ wire' = wire
    BY DEF TimedLine, TakeRestart
  <2>2. Peer(p) \in Peers
    BY PeerFacts
  <2>3. IsSeq(w)
    BY <1>13, <2>2 DEF TimedLine
  <2>4. QED
    BY <1>13, <2>1, <2>2, <2>3
<1>15. /\ Len(sx) = Counted(Len(rexmit[p]), Head(fsm[p].out))
       /\ ~Bare(Head(fsm[p].out))
       /\ Len(rexmit[p]) = 1 => AllRetry(sx, setup.conf)
       /\ AllAskPackets(wire[Peer(p)]) => AllAskPackets(w)
  BY <1>2, <1>4, <1>5, <1>7, <1>11, <1>13
<1>16. QED
  BY <1>1, <1>11, <1>12, <1>14, <1>15, TimedTaken

LEMMA AskAppended ==
  ASSUME NEW w, IsSeq(w), NEW pkt, AllAskPackets(w), pkt.code \in {"REQ", "TERM_REQ"}
  PROVE  AllAskPackets(Append(w, pkt))
<1>1. PICK v : v = Append(w, pkt)
  OBVIOUS
<1>2. /\ Len(v) = Len(w) + 1 /\ v[Len(w) + 1] = pkt /\ Len(w) \in Nat
      /\ \A i \in 1 .. Len(w) : v[i] = w[i]
  BY <1>1, IsSeqAppend, IsSeqFacts
<1>3. ASSUME NEW i \in 1 .. Len(v)
      PROVE  v[i].code \in {"REQ", "TERM_REQ"}
  <2>1. CASE i = Len(w) + 1
    BY <1>2, <2>1
  <2>2. CASE i # Len(w) + 1
    <3>1. i \in 1 .. Len(w)
      BY <1>2, <2>2
    <3>2. QED
      BY <1>2, <3>1 DEF AllAskPackets
  <2>3. QED
    BY <2>1, <2>2
<1>4. QED
  BY <1>1, <1>3 DEF AllAskPackets

LEMMA TimedTakeSend ==
  ASSUME TimedLine, LineInv, NEW p \in Peers, TakeSend(p)
  PROVE  TimedLine'
<1>1. Taken(p, "SEND")
  BY DEF TakeSend
<1>2. PICK m : m = Head(fsm[p].out)
  OBVIOUS
<1>3. IsSend(m) /\ m.retry \in 0 .. setup.conf /\ m.cmd = "SEND"
  BY <1>1, <1>2, HeadTaken
<1>4. m # Restart
  BY <1>3 DEF Restart
<1>5. PICK rx : rx = rexmit[p]
  OBVIOUS
<1>6. Packets(rx, setup.conf) /\ IsSeq(rx) /\ Len(rx) \in Nat /\ setup.conf \in Nat
  BY <1>5, LineAt, IsSeqFacts, TimedFacts DEF Timed
<1>7. PICK sx : /\ rexmit' = [rexmit EXCEPT ![p] = sx] /\ Packets(sx, setup.conf)
                /\ Len(sx) = Counted(Len(rx), m)
                /\ Bare(m) => sx = rx
  <2>1. CASE m.retry > 0
    <3>1. ~Bare(m) /\ Counted(Len(rx), m) = Len(rx) + 1
      BY <1>3, <2>1, CountedFacts DEF Bare
    <3>2. PICK i \in 1 .. Len(rx) + 1 : rexmit' = [rexmit EXCEPT ![p] = InsertAt(rx, i, m)]
      BY <1>2, <1>5, <2>1 DEF TakeSend, Enqueue
    <3>3. PICK sx : sx = InsertAt(rx, i, m)
      OBVIOUS
    <3>4. /\ IsSeq(sx) /\ Len(sx) = Len(rx) + 1
          /\ \A j \in 1 .. Len(rx) + 1 : sx[j] = m \/ \E x \in 1 .. Len(rx) : sx[j] = rx[x]
      BY <1>6, <3>3, IsSeqInsert
    <3>5. Packets(sx, setup.conf)
      <4>1. m.retry \in 1 .. setup.conf
        BY <1>3, <1>6, <2>1
      <4>2. ASSUME NEW j \in 1 .. Len(sx)
            PROVE  IsSend(sx[j]) /\ sx[j].retry \in 1 .. setup.conf
        <5>1. CASE sx[j] = m
          BY <1>3, <4>1, <5>1
        <5>2. CASE \E x \in 1 .. Len(rx) : sx[j] = rx[x]
          BY <1>6, <5>2 DEF Packets
        <5>3. QED
          BY <3>4, <5>1, <5>2
      <4>3. QED
        BY <3>4, <4>2 DEF Packets
    <3>6. rexmit' = [rexmit EXCEPT ![p] = sx]
      BY <3>2, <3>3
    <3>7. Len(sx) = Counted(Len(rx), m)
      BY <3>1, <3>4
    <3>8. /\ rexmit' = [rexmit EXCEPT ![p] = sx] /\ Packets(sx, setup.conf)
          /\ Len(sx) = Counted(Len(rx), m)
          /\ Bare(m) => sx = rx
      BY <3>1, <3>5, <3>6, <3>7
    <3>9. QED
      BY <3>8, Zenon
  <2>2. CASE ~(m.retry > 0)
    <3>1. m.retry = 0
      BY <1>3, <1>6, <2>2
    <3>2. Counted(Len(rx), m) = Len(rx)
      <4>1. PICK n \in Nat : n = Len(rx)
        BY <1>6
      <4>2. Bare(m)
        BY <1>3, <3>1 DEF Bare
      <4>3. Counted(n, m) = n + 0
        BY <4>2, CountedFacts
      <4>4. QED
        BY <4>1, <4>3
    <3>3. rexmit' = rexmit /\ rexmit = [r \in Peers |-> rexmit[r]]
      BY <1>2, <2>2 DEF TakeSend, TimedLine
    <3>4. rexmit' = [rexmit EXCEPT ![p] = rx]
      BY <1>5, <3>3
    <3>5. QED
      BY <1>6, <3>2, <3>4
  <2>3. QED
    BY <2>1, <2>2
<1>8. PICK w : w = Append(wire[Peer(p)], m.pkt)
  OBVIOUS
<1>9. IsSeq(wire[Peer(p)])
  BY PeerFacts DEF TimedLine
<1>10. IsSeq(w) /\ wire' = [wire EXCEPT ![Peer(p)] = w]
  <2>1. wire' = [wire EXCEPT ![Peer(p)] = Append(wire[Peer(p)], m.pkt)]
    BY <1>2 DEF TakeSend, Write
  <2>2. QED
    BY <1>8, <1>9, <2>1, IsSeqAppend
<1>11. Asks(m) /\ AllAskPackets(wire[Peer(p)]) => AllAskPackets(w)
  BY <1>3, <1>8, <1>9, AskAppended DEF Asks
<1>12. /\ Len(sx) = Counted(Len(rexmit[p]), Head(fsm[p].out))
       /\ Bare(Head(fsm[p].out)) => sx = rexmit[p]
       /\ Head(fsm[p].out) # Restart
       /\ Asks(Head(fsm[p].out)) /\ AllAskPackets(wire[Peer(p)]) => AllAskPackets(w)
  BY <1>2, <1>4, <1>5, <1>7, <1>11
<1>13. QED
  BY <1>1, <1>7, <1>10, <1>12, TimedTaken

LEMMA TimedExpiry ==
  ASSUME TimedLine, LineInv, NEW p \in Peers, Expire(p)
  PROVE  TimedLine'
<1>1. PICK q \in Peers : q = Peer(p) /\ q # p
  BY PeerFacts
<1>2. PICK sx, ey : sx = Tail(rexmit[p]) /\ ey = <<Head(rexmit[p])>>
  OBVIOUS
<1>3. /\ rexmit[p] # <<>> /\ expired[p] = <<>> /\ UNCHANGED <<fsm, wire, losses, setup>>
      /\ rexmit' = [rexmit EXCEPT ![p] = sx] /\ expired' = [expired EXCEPT ![p] = ey]
      /\ setup.patient => Quiet
  BY <1>2 DEF Expire
<1>4. /\ rexmit' = [r \in Peers |-> rexmit'[r]] /\ rexmit'[p] = sx
      /\ \A r \in Peers : r # p => rexmit'[r] = rexmit[r]
  BY <1>3, UpdateAt DEF TimedLine
<1>5. /\ expired' = [r \in Peers |-> expired'[r]] /\ expired'[p] = ey
      /\ \A r \in Peers : r # p => expired'[r] = expired[r]
  BY <1>3, UpdateAt DEF TimedLine
<1>6. setup.patient => /\ \A r \in Peers : /\ wire[r] = <<>> /\ fsm[r].out = <<>>
                                           /\ expired[r] = <<>>
  BY <1>3 DEF Quiet
<1>7. Timed(fsm[p], rexmit[p], expired[p])
  BY LineAt
<1>8. Timed(fsm[p], sx, ey)
  BY <1>2, <1>3, <1>6, <1>7, TimedExpire
<1>9. Timed(fsm'[p], rexmit'[p], expired'[p])
  BY <1>3, <1>4, <1>5, <1>8
<1>10. Steady(p)
  BY <1>3, <1>4, <1>5 DEF Steady, TimedLine
<1>11. ASSUME setup.patient
       PROVE  /\ Calm(expired'[p], wire'[p], expired'[Peer(p)], wire'[Peer(p)],
                      fsm'[Peer(p)].out)
              /\ Calm(expired'[Peer(p)], wire'[Peer(p)], expired'[p], wire'[p],
                      fsm'[p].out)
  <2>1. /\ expired'[q] = <<>> /\ wire'[q] = <<>> /\ wire'[p] = <<>>
        /\ fsm'[q].out = <<>>
    BY <1>1, <1>3, <1>5, <1>6, <1>11
  <2>2. PICK e : e = <<>>
    OBVIOUS
  <2>3. Len(e) = 0
    BY <2>2
  <2>4. AllAskPackets(e) /\ AllAsk(e)
    BY <2>3 DEF AllAskPackets, AllAsk
  <2>5. Calm(expired'[p], wire'[p], expired'[q], wire'[q], fsm'[q].out)
    BY <2>1, <2>2, <2>4 DEF Calm
  <2>6. Calm(expired'[q], wire'[q], expired'[p], wire'[p], fsm'[p].out)
    BY <2>1 DEF Calm
  <2>7. QED
    BY <1>1, <2>5, <2>6
<1>12. QED
  BY <1>9, <1>10, <1>11, TimedStep

LEMMA TimedTimedOut ==
  ASSUME TimedLine, LineInv, NEW p \in Peers, TimedOut(p)
  PROVE  TimedLine'
<1>1. PICK q \in Peers : q = Peer(p) /\ q # p
  BY PeerFacts
<1>2. PICK m : m = expired[p][1]
  OBVIOUS
<1>3. /\ expired[p] # <<>> /\ UNCHANGED <<losses, setup>>
      /\ expired' = [expired EXCEPT ![p] = <<>>]
  BY DEF TimedOut
<1>4. PICK hard \in BOOLEAN :
        /\ hard <=> m.retry = 1
        /\ fsm' = [fsm EXCEPT ![p] = Timeout(fsm[p], hard)]
  <2>1. fsm' = [fsm EXCEPT ![p] = Timeout(fsm[p], m.retry = 1)]
    BY <1>2 DEF TimedOut
  <2>2. (m.retry = 1) \in BOOLEAN
    OBVIOUS
  <2>3. QED
    BY <2>1, <2>2, Zenon
<1>5. PICK g : g = Timeout(fsm[p], hard)
  OBVIOUS
<1>6. PICK sx : /\ rexmit' = [rexmit EXCEPT ![p] = sx]
                /\ hard => sx = rexmit[p]
                /\ ~hard => \E i \in 1 .. Len(rexmit[p]) + 1 :
                       sx = InsertAt(rexmit[p], i, [expired[p][1] EXCEPT !.retry = @ - 1])
  <2>1. CASE m.retry = 1
    <3>1. rexmit' = rexmit /\ rexmit = [r \in Peers |-> rexmit[r]]
      BY <1>2, <2>1 DEF TimedOut, TimedLine
    <3>2. rexmit' = [rexmit EXCEPT ![p] = rexmit[p]]
      BY <3>1
    <3>3. QED
      BY <1>4, <2>1, <3>2
  <2>2. CASE m.retry # 1
    <3>1. PICK t : t = [expired[p][1] EXCEPT !.retry = @ - 1]
      OBVIOUS
    <3>2. Enqueue(p, [expired[p][1] EXCEPT !.retry = @ - 1])
      BY <1>2, <2>2 DEF TimedOut
    <3>3. Enqueue(p, t)
      BY <3>1, <3>2
    <3>4. PICK i \in 1 .. Len(rexmit[p]) + 1 :
            rexmit' = [rexmit EXCEPT ![p] = InsertAt(rexmit[p], i, t)]
      BY <3>3 DEF Enqueue
    <3>5. PICK sx : sx = InsertAt(rexmit[p], i, t)
      OBVIOUS
    <3>6. rexmit' = [rexmit EXCEPT ![p] = sx]
      BY <3>4, <3>5
    <3>7. \E j \in 1 .. Len(rexmit[p]) + 1 :
            sx = InsertAt(rexmit[p], j, [expired[p][1] EXCEPT !.retry = @ - 1])
      BY <3>1, <3>5
    <3>8. QED
      BY <1>4, <2>2, <3>6, <3>7
  <2>3. QED
    BY <2>1, <2>2
<1>7. IsSeq(wire[q])
  BY DEF TimedLine
<1>8. PICK w : IsSeq(w) /\ wire' = [wire EXCEPT ![q] = w]
  <2>1. CASE m.retry = 1
    <3>1. wire' = wire /\ wire = [r \in Peers |-> wire[r]]
      BY <1>2, <2>1 DEF TimedOut, TimedLine
    <3>2. wire' = [wire EXCEPT ![q] = wire[q]]
      BY <3>1
    <3>3. QED
      BY <1>7, <3>2
  <2>2. CASE m.retry # 1
    <3>1. wire' = [wire EXCEPT ![q] = Append(wire[q], m.pkt)]
      BY <1>1, <1>2, <2>2 DEF TimedOut, Write
    <3>2. IsSeq(Append(wire[q], m.pkt))
      BY <1>7, IsSeqAppend
    <3>3. QED
      BY <3>1, <3>2
  <2>3. QED
    BY <2>1, <2>2
<1>9. fsm' = [fsm EXCEPT ![p] = g]
  BY <1>4, <1>5
<1>10. fsm'[p] = g /\ \A r \in Peers : r # p => fsm'[r] = fsm[r]
  BY <1>9, UpdateAt DEF LineInv
<1>11. /\ wire' = [r \in Peers |-> wire'[r]] /\ wire'[q] = w
       /\ \A r \in Peers : r # q => wire'[r] = wire[r]
  BY <1>8, UpdateAt DEF TimedLine
<1>12. /\ rexmit' = [r \in Peers |-> rexmit'[r]] /\ rexmit'[p] = sx
       /\ \A r \in Peers : r # p => rexmit'[r] = rexmit[r]
  BY <1>6, UpdateAt DEF TimedLine
<1>13. /\ expired' = [r \in Peers |-> expired'[r]] /\ expired'[p] = <<>>
       /\ \A r \in Peers : r # p => expired'[r] = expired[r]
  BY <1>3, UpdateAt DEF TimedLine
<1>14. Valid(p, g) /\ IsMachine(g) /\ g.STATE \in States
  <2>1. Valid(p, g)
    BY <1>5, LineAt, TimeoutValid
  <2>2. QED
    BY <2>1 DEF Valid
<1>15. Timed(g, sx, <<>>)
  <2>1. Timed(fsm[p], rexmit[p], expired[p])
    BY LineAt
  <2>2. hard <=> expired[p][1].retry = 1
    BY <1>2, <1>4
  <2>3. QED
    BY <1>3, <1>5, <1>6, <1>14, <2>1, <2>2, TimedTimeout
<1>16. Timed(fsm'[p], rexmit'[p], expired'[p])
  BY <1>10, <1>12, <1>13, <1>15
<1>17. Steady(p)
  <2>1. \A r \in Peers : IsSeq(wire'[r])
    BY <1>8, <1>11 DEF TimedLine
  <2>2. QED
    BY <1>3, <1>10, <1>11, <1>12, <1>13, <2>1 DEF Steady, TimedLine
<1>18. ASSUME setup.patient
       PROVE  /\ Calm(expired'[p], wire'[p], expired'[Peer(p)], wire'[Peer(p)],
                      fsm'[Peer(p)].out)
              /\ Calm(expired'[Peer(p)], wire'[Peer(p)], expired'[p], wire'[p],
                      fsm'[p].out)
  <2>1. expired[q] = <<>>
    BY <1>1, <1>3, <1>18, LineAt DEF Calm
  <2>2. expired'[q] = <<>> /\ expired'[p] = <<>>
    BY <1>1, <1>13, <2>1
  <2>3. QED
    BY <1>1, <2>2 DEF Calm
<1>19. QED
  BY <1>16, <1>17, <1>18, TimedStep

LEMMA TimedLose ==
  ASSUME TimedLine, LineInv, NEW p \in Peers, Lose(p)
  PROVE  TimedLine'
<1>1. PICK q \in Peers : q = Peer(p) /\ q # p
  BY PeerFacts
<1>2. PICK w : w = Tail(wire[p])
  OBVIOUS
<1>3. /\ wire[p] # <<>> /\ UNCHANGED <<fsm, rexmit, expired, setup>>
      /\ wire' = [wire EXCEPT ![p] = w] /\ losses > 0 /\ losses' = losses - 1
  BY <1>2 DEF Lose
<1>4. /\ wire' = [r \in Peers |-> wire'[r]] /\ wire'[p] = w
      /\ \A r \in Peers : r # p => wire'[r] = wire[r]
  BY <1>3, UpdateAt DEF TimedLine
<1>5. IsSeq(w) /\ (AllAskPackets(wire[p]) => AllAskPackets(w))
  BY <1>2, <1>3, LineAt, AskTail
<1>6. losses' \in 0 .. setup.losses
  <2>1. setup \in Setups /\ losses \in 0 .. setup.losses
    BY DEF TimedLine
  <2>2. setup.losses \in Nat
    BY <2>1, SetupsAssumption
  <2>3. QED
    BY <1>3, <2>1, <2>2
<1>7. Timed(fsm'[p], rexmit'[p], expired'[p])
  BY <1>3, LineAt
<1>8. Steady(p)
  <2>1. \A r \in Peers : IsSeq(wire'[r])
    BY <1>4, <1>5 DEF TimedLine
  <2>2. QED
    BY <1>3, <1>4, <1>6, <2>1 DEF Steady, TimedLine
<1>9. ASSUME setup.patient
      PROVE  /\ Calm(expired'[p], wire'[p], expired'[Peer(p)], wire'[Peer(p)],
                     fsm'[Peer(p)].out)
             /\ Calm(expired'[Peer(p)], wire'[Peer(p)], expired'[p], wire'[p],
                     fsm'[p].out)
  <2>1. /\ Calm(expired[p], wire[p], expired[q], wire[q], fsm[q].out)
        /\ Calm(expired[q], wire[q], expired[p], wire[p], fsm[p].out)
    BY <1>1, <1>9, LineAt
  <2>2. /\ Calm(expired[p], w, expired[q], wire[q], fsm[q].out)
        /\ Calm(expired[q], wire[q], expired[p], w, fsm[p].out)
    BY <1>3, <1>5, <2>1 DEF Calm
  <2>3. wire'[q] = wire[q]
    BY <1>1, <1>4
  <2>4. QED
    BY <1>1, <1>3, <1>4, <2>2, <2>3
<1>10. QED
  BY <1>7, <1>8, <1>9, TimedStep

LEMMA TimedInit ==
  ASSUME PppInit
  PROVE  TimedLine
<1>1. PICK e : e = <<>>
  OBVIOUS
<1>2. IsSeq(e) /\ Len(e) = 0
  BY <1>1 DEF IsSeq
<1>3. ASSUME NEW r \in Peers
      PROVE  /\ fsm[r] = Fresh(r) /\ rexmit[r] = e /\ expired[r] = e /\ wire[r] = e
  BY <1>1 DEF PppInit
<1>4. setup \in Setups /\ setup.losses \in Nat /\ losses = setup.losses
      /\ setup.ids \in Nat /\ MaxNaks \in Nat
  BY SetupsAssumption DEF PppInit
<1>5. ASSUME NEW r \in Peers
      PROVE  Timed(Fresh(r), e, e)
  <2>1. PICK f : f = Fresh(r)
    OBVIOUS
  <2>2. IsMachine(f)
    BY <2>1 DEF IsMachine, Fresh
  <2>3. f.STATE = INITIAL /\ f.CURID = 0 /\ f.REQID = -1 /\ f.NAKS = 0
        /\ f.RECV_NEG = e /\ f.out = e
    BY <1>1, <2>1 DEF Fresh
  <2>4. Fielded(f)
    <3>1. DOMAIN e = {}
      BY <1>1
    <3>2. QED
      BY <1>4, <2>3, <3>1 DEF Fielded
  <2>5. IsOut(f.out, setup.conf)
    BY <1>2, <2>3 DEF IsOut
  <2>6. f.STATE \in States /\ ~Negotiating(f.STATE) /\ f.STATE # ACK_RCVD
    BY <2>3, StateNumbers DEF States, Negotiating
  <2>7. Typed(f) /\ f.CURID <= setup.ids
    BY <1>4, <2>2, <2>3, <2>4, <2>5, <2>6 DEF Typed
  <2>8. Packets(e, setup.conf) /\ Len(e) <= 1
    BY <1>2 DEF Packets
  <2>9. Len(e) + Len(e) = 0 /\ TimersOf(0, e) = 0
    BY <1>1, <1>2, TimersOfNone
  <2>10. Exact(f, e, e)
    BY <1>1, <2>3, <2>6, <2>9 DEF Exact, Owed
  <2>11. QED
    BY <2>1, <2>6, <2>7, <2>8, <2>10 DEF Timed
<1>6. Calmly
  <2>1. ASSUME NEW r \in Peers
        PROVE  Calm(expired[r], wire[r], expired[Peer(r)], wire[Peer(r)],
                    fsm[Peer(r)].out)
    BY <1>1, <1>3 DEF Calm
  <2>2. QED
    BY <2>1 DEF Calmly
<1>7. /\ rexmit = [r \in Peers |-> rexmit[r]] /\ expired = [r \in Peers |-> expired[r]]
      /\ wire = [r \in Peers |-> wire[r]]
  BY DEF PppInit
<1>8. \A r \in Peers : Timed(fsm[r], rexmit[r], expired[r]) /\ IsSeq(wire[r])
  BY <1>2, <1>3, <1>5
<1>9. QED
  BY <1>4, <1>6, <1>7, <1>8 DEF TimedLine

LEMMA TimedNext ==
  ASSUME TimedLine, LineInv, Ample, [PppNext]_pppVars
  PROVE  TimedLine'
<1>1. CASE UNCHANGED pppVars
  BY <1>1 DEF TimedLine, pppVars, Timed, Typed, Exact, Restarted, Calmly
<1>2. ASSUME NEW p \in Peers, Transmit(p)
      PROVE  TimedLine'
  BY <1>2, TimedTakeSend, TimedTakeRestart, TimedTakeStop, TimedTimedOut DEF Transmit
<1>3. QED
  BY <1>1, <1>2, TimedCall, TimedInput, TimedExpiry, TimedLose DEF PppNext

\* Failures do not come back.
LEMMA SuppliedBefore ==
  ASSUME TypedLine, [PppNext]_pppVars, Supplied'
  PROVE  Supplied
<1>1. failures \in Nat /\ failures <= setup.failures /\ setup.failures \in Nat
  BY SetupsAssumption DEF TypedLine
<1>2. ASSUME NEW p \in Peers, NEW packet, NEW g, Become(p, packet, g)
      PROVE  failures' = failures \/ (failures' \in Int /\ failures' < failures)
  <2>1. CASE failures' = failures
    BY <2>1
  <2>2. CASE \E cost \in 1 .. failures : failures' = failures - cost
    BY <1>1, <2>2
  <2>3. QED
    BY <1>2, <2>1, <2>2, Zenon DEF Become
<1>3. setup' = setup /\ (failures' = failures \/ (failures' \in Int /\ failures' < failures))
  <2>1. CASE UNCHANGED pppVars
    BY <2>1 DEF pppVars
  <2>2. ASSUME NEW p \in Peers, Call(p)
        PROVE  setup' = setup /\ (failures' = failures \/ (failures' \in Int /\ failures' < failures))
    BY <1>2, <2>2 DEF Call, PPPFSM_lowerup, PPPFSM_lowerdown, PPPFSM_open, PPPFSM_close, Called
  <2>3. ASSUME NEW p \in Peers, Input(p)
        PROVE  setup' = setup /\ (failures' = failures \/ (failures' \in Int /\ failures' < failures))
    BY <1>2, <2>3 DEF Input, InputConfReq, InputConfAck, InputConfNak, InputTermReq,
                      InputTermAck, InputDropped, Received
  <2>4. ASSUME NEW p \in Peers, Transmit(p) \/ Expire(p) \/ Lose(p)
        PROVE  setup' = setup /\ failures' = failures
    BY <2>4 DEF Transmit, TakeSend, TakeRestart, TakeStop, TimedOut, Taken, Expire, Lose
  <2>5. QED
    BY <2>1, <2>2, <2>3, <2>4 DEF PppNext
<1>4. QED
  BY <1>1, <1>3 DEF Supplied

\* Whatever the situations, the calls, the losses and the retries allowed,
\* unless memory was short: a machine that waits for an answer has a packet
\* the transmit task will repeat or give up, and with timers longer than a
\* round trip exactly one, while a machine that waits for nothing has none.
THEOREM WaitIsAlwaysTimed == PppSpec => []WaitIsTimed
<1> DEFINE I == LineInv /\ TypedLine /\ (Supplied => TimedLine)
<1>1. I => WaitIsTimed
  <2>1. ASSUME I
        PROVE  PppTypeOK
    BY <2>1, TypedMeans
  <2>2. ASSUME I, Supplied, NEW p \in Peers, Negotiating(fsm[p].STATE)
        PROVE  Timers(p) > 0
    BY <2>2, LineAt DEF Timed, Timers
  <2>3. ASSUME I, Supplied, setup.patient, NEW p \in Peers
        PROVE  Timers(p) = IF Negotiating(fsm[p].STATE) THEN 1 ELSE 0
    BY <2>3, LineAt DEF Timed, Timers, Exact, Owed
  <2>4. QED
    BY <2>1, <2>2, <2>3 DEF WaitIsTimed
<1>2. PppInit => I
  BY LineInit, TypedInit, TimedInit
<1>3. I /\ [PppNext]_pppVars => I'
  <2>1. ASSUME I, [PppNext]_pppVars
        PROVE  LineInv' /\ TypedLine'
    BY <2>1, TypedFramed, LineNext, TypedNext
  <2>2. ASSUME I, [PppNext]_pppVars, Supplied'
        PROVE  TimedLine'
    <3>1. Ample /\ TimedLine
      BY <2>2, SuppliedBefore DEF Ample
    <3>2. QED
      BY <2>2, <3>1, TimedNext
  <2>3. QED
    BY <2>1, <2>2
<1>4. QED
  BY <1>1, <1>2, <1>3, PTL DEF PppSpec

-----------------------------------------------------------------------------
(***************************************************************************)
(* The options of two ends that pass data.  With patient timers each sends *)
(* with the options of the other's last request (OptionsAgree).            *)
(*                                                                         *)
(* The inductive invariant AgreeLine sees each end with what the other has *)
(* answered (Side).  Claims: every packet of an identifier has the same    *)
(* options, and once the last request is acknowledged no earlier one can   *)
(* arrive any more, for it would make the other end change its options.    *)
(* That holds because the line keeps its order and a request is repeated   *)
(* by one timer at most, stopped before the next request is sent: InOrder  *)
(* and InTime.  A handler keeps a Side by what it does with its last       *)
(* request (Moved) and what it says of the other's (SameWord, Answers).    *)
(***************************************************************************)

\* The packets of a line, those kept to be repeated, and those that the
\* messages for the transmit task say to send.
PacketsIn(w) == {w[i] : i \in 1 .. Len(w)}
HeldIn(s) == {s[i].pkt : i \in 1 .. Len(s)}
SentIn(out) == {out[i].pkt : i \in {j \in 1 .. Len(out) : out[j].cmd = "SEND"}}

LEMMA PacketsAppend ==
  ASSUME NEW w, IsSeq(w), NEW x
  PROVE  PacketsIn(Append(w, x)) = PacketsIn(w) \cup {x}
<1>1. PICK s : s = Append(w, x)
  OBVIOUS
<1>2. /\ Len(w) \in Nat /\ Len(s) = Len(w) + 1 /\ s[Len(w) + 1] = x
      /\ \A i \in 1 .. Len(w) : s[i] = w[i]
  BY <1>1, IsSeqFacts, IsSeqAppend
<1>3. ASSUME NEW y \in PacketsIn(s)
      PROVE  y \in PacketsIn(w) \cup {x}
  <2>1. PICK i \in 1 .. Len(s) : y = s[i]
    BY DEF PacketsIn
  <2>2. i \in 1 .. Len(w) \/ i = Len(w) + 1
    BY <1>2
  <2>3. QED
    BY <1>2, <2>1, <2>2 DEF PacketsIn
<1>4. ASSUME NEW y \in PacketsIn(w) \cup {x}
      PROVE  y \in PacketsIn(s)
  <2>1. CASE y = x
    <3>1. Len(w) + 1 \in 1 .. Len(s)
      BY <1>2
    <3>2. QED
      BY <1>2, <2>1, <3>1 DEF PacketsIn
  <2>2. CASE y \in PacketsIn(w)
    <3>1. PICK i \in 1 .. Len(w) : y = w[i]
      BY <2>2 DEF PacketsIn
    <3>2. i \in 1 .. Len(s)
      BY <1>2
    <3>3. QED
      BY <1>2, <3>1, <3>2 DEF PacketsIn
  <2>3. QED
    BY <2>1, <2>2
<1>5. QED
  BY <1>1, <1>3, <1>4

LEMMA PacketsTail ==
  ASSUME NEW w, IsSeq(w), w # <<>>
  PROVE  PacketsIn(Tail(w)) \subseteq PacketsIn(w) /\ Head(w) \in PacketsIn(w)
<1>1. PICK s : s = Tail(w)
  OBVIOUS
<1>2. /\ Len(w) \in Nat /\ Len(w) > 0 /\ Len(s) = Len(w) - 1 /\ Head(w) = w[1]
      /\ \A i \in 1 .. Len(w) - 1 : s[i] = w[i + 1]
  BY <1>1, IsSeqFacts
<1>3. ASSUME NEW y \in PacketsIn(s)
      PROVE  y \in PacketsIn(w)
  <2>1. PICK i \in 1 .. Len(s) : y = s[i]
    BY DEF PacketsIn
  <2>2. i \in 1 .. Len(w) - 1 /\ i + 1 \in 1 .. Len(w)
    BY <1>2
  <2>3. QED
    BY <1>2, <2>1, <2>2 DEF PacketsIn
<1>4. 1 \in 1 .. Len(w)
  BY <1>2
<1>5. QED
  BY <1>1, <1>2, <1>3, <1>4 DEF PacketsIn

LEMMA SentAppend ==
  ASSUME NEW out, IsSeq(out), NEW m
  PROVE  /\ m.cmd = "SEND" => SentIn(Append(out, m)) \subseteq SentIn(out) \cup {m.pkt}
         /\ m.cmd # "SEND" => SentIn(Append(out, m)) \subseteq SentIn(out)
<1>1. PICK s : s = Append(out, m)
  OBVIOUS
<1>2. /\ Len(out) \in Nat /\ Len(s) = Len(out) + 1 /\ s[Len(out) + 1] = m
      /\ \A i \in 1 .. Len(out) : s[i] = out[i]
  BY <1>1, IsSeqFacts, IsSeqAppend
<1>3. ASSUME NEW y \in SentIn(s)
      PROVE  y \in SentIn(out) \/ (m.cmd = "SEND" /\ y = m.pkt)
  <2>1. PICK i \in 1 .. Len(s) : s[i].cmd = "SEND" /\ y = s[i].pkt
    BY DEF SentIn
  <2>2. i \in 1 .. Len(out) \/ i = Len(out) + 1
    BY <1>2
  <2>3. QED
    BY <1>2, <2>1, <2>2 DEF SentIn
<1>4. QED
  BY <1>1, <1>3

LEMMA SentTail ==
  ASSUME NEW out, IsSeq(out), out # <<>>
  PROVE  /\ SentIn(Tail(out)) \subseteq SentIn(out)
         /\ Head(out).cmd = "SEND" => Head(out).pkt \in SentIn(out)
<1>1. PICK s : s = Tail(out)
  OBVIOUS
<1>2. /\ Len(out) \in Nat /\ Len(out) > 0 /\ Len(s) = Len(out) - 1 /\ Head(out) = out[1]
      /\ \A i \in 1 .. Len(out) - 1 : s[i] = out[i + 1]
  BY <1>1, IsSeqFacts
<1>3. ASSUME NEW y \in SentIn(s)
      PROVE  y \in SentIn(out)
  <2>1. PICK i \in 1 .. Len(s) : s[i].cmd = "SEND" /\ y = s[i].pkt
    BY DEF SentIn
  <2>2. i \in 1 .. Len(out) - 1 /\ i + 1 \in 1 .. Len(out)
    BY <1>2
  <2>3. QED
    BY <1>2, <2>1, <2>2 DEF SentIn
<1>4. 1 \in 1 .. Len(out)
  BY <1>2
<1>5. QED
  BY <1>1, <1>2, <1>3, <1>4 DEF SentIn

LEMMA HeldInsert ==
  ASSUME NEW s, IsSeq(s), NEW m, NEW i \in 1 .. Len(s) + 1
  PROVE  HeldIn(InsertAt(s, i, m)) \subseteq HeldIn(s) \cup {m.pkt}
<1>1. PICK r : r = InsertAt(s, i, m)
  OBVIOUS
<1>2. /\ Len(r) = Len(s) + 1
      /\ \A j \in 1 .. Len(s) + 1 : r[j] = m \/ \E t \in 1 .. Len(s) : r[j] = s[t]
  BY <1>1, IsSeqInsert
<1>3. ASSUME NEW y \in HeldIn(r)
      PROVE  y \in HeldIn(s) \cup {m.pkt}
  <2>1. PICK j \in 1 .. Len(s) + 1 : y = r[j].pkt
    BY <1>2 DEF HeldIn
  <2>2. QED
    BY <1>2, <2>1 DEF HeldIn
<1>4. QED
  BY <1>1, <1>3

LEMMA HeldTail ==
  ASSUME NEW s, IsSeq(s), s # <<>>
  PROVE  /\ HeldIn(Tail(s)) \subseteq HeldIn(s)
         /\ Head(s).pkt \in HeldIn(s) /\ HeldIn(<<Head(s)>>) = {Head(s).pkt}
<1>1. PICK r, e : r = Tail(s) /\ e = <<Head(s)>>
  OBVIOUS
<1>2. /\ Len(s) \in Nat /\ Len(s) > 0 /\ Len(r) = Len(s) - 1 /\ Head(s) = s[1]
      /\ \A i \in 1 .. Len(s) - 1 : r[i] = s[i + 1]
  BY <1>1, IsSeqFacts
<1>3. ASSUME NEW y \in HeldIn(r)
      PROVE  y \in HeldIn(s)
  <2>1. PICK i \in 1 .. Len(r) : y = r[i].pkt
    BY DEF HeldIn
  <2>2. i \in 1 .. Len(s) - 1 /\ i + 1 \in 1 .. Len(s)
    BY <1>2
  <2>3. QED
    BY <1>2, <2>1, <2>2 DEF HeldIn
<1>4. 1 \in 1 .. Len(s)
  BY <1>2
<1>5. Len(e) = 1 /\ e[1] = Head(s)
  BY <1>1
<1>6. HeldIn(e) = {Head(s).pkt}
  BY <1>5 DEF HeldIn
<1>7. QED
  BY <1>1, <1>2, <1>3, <1>4, <1>6 DEF HeldIn

LEMMA NoneIn ==
  /\ PacketsIn(<<>>) = {} /\ HeldIn(<<>>) = {} /\ SentIn(<<>>) = {}
<1>1. PICK e : e = <<>>
  OBVIOUS
<1>2. Len(e) = 0
  BY <1>1
<1>3. PacketsIn(e) = {} /\ HeldIn(e) = {} /\ SentIn(e) = {}
  BY <1>2 DEF PacketsIn, HeldIn, SentIn
<1>4. QED
  BY <1>1, <1>3

-----------------------------------------------------------------------------
(* What an end has asked for, and what was answered.                       *)

\* The requests of the machine's last identifier, and the earlier ones
NewReq(id, x) == x.code = "REQ" /\ x.id = id
OldReq(id, x) == x.code = "REQ" /\ x.id # id
NoOldReq(id, S) == \A x \in S : ~OldReq(id, x)

Accepting(f) == f.STATE \in {ACK_RCVD, OPENED}

\* The other end has acknowledged the last request, or f will soon know.
Confirmed(f, A) == Accepting(f) \/ \E a \in A : a.id = f.REQID

\* The options so that the other end has agreed to, if any, and those it
\* acknowledges
Granted(A, so) == A \cup {x \in {so} : x # NoOptions}

\* S: the packets of f that the line may still deliver, in this order or
\* another; H: those that wait to be repeated; A: the acknowledgements on
\* their way to f; so: the options the other end has agreed to.  Whatever
\* has the last identifier has the same options, and once the last request
\* is acknowledged no earlier one is under way.
Claims(f, S, H, A, so) ==
  /\ \A x \in S \cup H : x.code = "REQ" => x.id \in 0 .. f.CURID - 1
  /\ \A a \in Granted(A, so) : a.id \in 0 .. f.CURID - 1
  /\ so # NoOptions => so = [id |-> so.id, opts |-> so.opts]
  /\ \E o : /\ \A x \in S \cup H : NewReq(f.REQID, x) => x.opts = o
            /\ \A a \in Granted(A, so) : a.id = f.REQID => a.opts = o
            /\ Accepting(f) => f.RECV_NEG = o
  /\ Confirmed(f, Granted(A, so)) => NoOldReq(f.REQID, S)
  /\ Confirmed(f, A) => so = NoOptions \/ so.id = f.REQID

\* A frame is lost, dropped or taken, a message passes on, a packet is kept.
LEMMA ClaimsLess ==
  ASSUME NEW f, NEW S, NEW H, NEW A, NEW so, Claims(f, S, H, A, so),
         NEW S2, NEW H2, NEW A2, NEW so2,
         S2 \subseteq S, H2 \subseteq H \cup S, A2 \subseteq A, so2 \in {so, NoOptions}
  PROVE  Claims(f, S2, H2, A2, so2)
<1>1. Granted(A2, so2) \subseteq Granted(A, so)
  BY DEF Granted
<1>2. PICK o : /\ \A x \in S \cup H : NewReq(f.REQID, x) => x.opts = o
               /\ \A a \in Granted(A, so) : a.id = f.REQID => a.opts = o
               /\ Accepting(f) => f.RECV_NEG = o
  BY DEF Claims
<1>3. /\ \A x \in S2 \cup H2 : NewReq(f.REQID, x) => x.opts = o
      /\ \A a \in Granted(A2, so2) : a.id = f.REQID => a.opts = o
      /\ Accepting(f) => f.RECV_NEG = o
  BY <1>1, <1>2
<1>4. /\ \A x \in S2 \cup H2 : x.code = "REQ" => x.id \in 0 .. f.CURID - 1
      /\ \A a \in Granted(A2, so2) : a.id \in 0 .. f.CURID - 1
  BY <1>1 DEF Claims
<1>5. so2 # NoOptions => so2 = [id |-> so2.id, opts |-> so2.opts]
  BY DEF Claims
<1>6. Confirmed(f, Granted(A2, so2)) => NoOldReq(f.REQID, S2)
  <2>1. Confirmed(f, Granted(A2, so2)) => Confirmed(f, Granted(A, so))
    BY <1>1 DEF Confirmed
  <2>2. NoOldReq(f.REQID, S) => NoOldReq(f.REQID, S2)
    BY DEF NoOldReq
  <2>3. QED
    BY <2>1, <2>2 DEF Claims
<1>7. Confirmed(f, A2) => so2 = NoOptions \/ so2.id = f.REQID
  <2>1. Confirmed(f, A2) => Confirmed(f, A)
    BY DEF Confirmed
  <2>2. QED
    BY <2>1 DEF Claims
<1>8. QED
  BY <1>3, <1>4, <1>5, <1>6, <1>7 DEF Claims

\* The machine says something that is no request, and accepts only what was
\* acknowledged.
LEMMA ClaimsTold ==
  ASSUME NEW f, NEW S, NEW H, NEW A, NEW so, Claims(f, S, H, A, so), f.CURID \in Nat,
         NEW g, g.REQID = f.REQID, g.CURID \in {f.CURID, f.CURID + 1},
         Accepting(g) => \/ Accepting(f) /\ g.RECV_NEG = f.RECV_NEG
                         \/ \E a \in A : a.id = f.REQID /\ a.opts = g.RECV_NEG,
         NEW S2, \A x \in S2 : x \in S \/ x.code # "REQ"
  PROVE  Claims(g, S2, H, A, so)
<1>1. PICK o : /\ \A x \in S \cup H : NewReq(f.REQID, x) => x.opts = o
               /\ \A a \in Granted(A, so) : a.id = f.REQID => a.opts = o
               /\ Accepting(f) => f.RECV_NEG = o
  BY DEF Claims
<1>2. /\ \A x \in S2 \cup H : NewReq(g.REQID, x) => x.opts = o
      /\ \A a \in Granted(A, so) : a.id = g.REQID => a.opts = o
  BY <1>1 DEF NewReq
<1>3. Accepting(g) => g.RECV_NEG = o
  BY <1>1 DEF Granted
<1>4. \A i \in 0 .. f.CURID - 1 : i \in 0 .. g.CURID - 1
  OBVIOUS
<1>5. /\ \A x \in S2 \cup H : x.code = "REQ" => x.id \in 0 .. g.CURID - 1
      /\ \A a \in Granted(A, so) : a.id \in 0 .. g.CURID - 1
  BY <1>4 DEF Claims
<1>6. /\ Confirmed(g, A) => Confirmed(f, A)
      /\ Confirmed(g, Granted(A, so)) => Confirmed(f, Granted(A, so))
  BY DEF Confirmed, Granted
<1>7. NoOldReq(f.REQID, S) => NoOldReq(g.REQID, S2)
  BY DEF NoOldReq, OldReq
<1>8. QED
  BY <1>2, <1>3, <1>5, <1>6, <1>7 DEF Claims

\* The machine asks anew: nobody knows its identifier yet.
LEMMA ClaimsRenewed ==
  ASSUME NEW f, NEW S, NEW H, NEW A, NEW so, Claims(f, S, H, A, so), f.CURID \in Nat,
         NEW g, g.REQID = f.CURID, g.CURID = f.CURID + 1, ~Accepting(g),
         NEW x, x.code = "REQ", x.id = f.CURID,
         NEW S2, S2 \subseteq S \cup {x}
  PROVE  Claims(g, S2, H, A, so)
<1>1. \A i \in 0 .. f.CURID - 1 : i \in 0 .. g.CURID - 1 /\ i # g.REQID
  OBVIOUS
<1>2. x.id \in 0 .. g.CURID - 1
  OBVIOUS
<1>3. /\ \A y \in S2 \cup H : y.code = "REQ" => y.id \in 0 .. g.CURID - 1
      /\ \A a \in Granted(A, so) : a.id \in 0 .. g.CURID - 1 /\ a.id # g.REQID
  BY <1>1, <1>2 DEF Claims
<1>4. \A y \in S2 \cup H : NewReq(g.REQID, y) => y = x
  BY <1>1 DEF Claims, NewReq
<1>5. ~Confirmed(g, A) /\ ~Confirmed(g, Granted(A, so))
  BY <1>3 DEF Confirmed, Granted
<1>6. \A y \in S2 \cup H : NewReq(g.REQID, y) => y.opts = x.opts
  BY <1>4
<1>7. QED
  BY <1>3, <1>5, <1>6 DEF Claims

\* The other end takes the request x and acknowledges it.
LEMMA ClaimsAnswered ==
  ASSUME NEW f, NEW S, NEW H, NEW A, NEW so, Claims(f, S, H, A, so),
         NEW x \in S, x.code = "REQ",
         NEW S2, S2 \subseteq S, NewReq(f.REQID, x) => NoOldReq(f.REQID, S2),
         NEW A2, \A a \in A2 : a \in A \/ (a.id = x.id /\ a.opts = x.opts)
  PROVE  Claims(f, S2, H, A2, [id |-> x.id, opts |-> x.opts])
<1>1. PICK so2 : so2 = [id |-> x.id, opts |-> x.opts]
  OBVIOUS
<1>2. so2.id = x.id /\ so2.opts = x.opts
  BY <1>1
<1>3. \A a \in Granted(A2, so2) : a \in Granted(A, so) \/ (a.id = x.id /\ a.opts = x.opts)
  BY <1>2 DEF Granted
<1>4. PICK o : /\ \A y \in S \cup H : NewReq(f.REQID, y) => y.opts = o
               /\ \A a \in Granted(A, so) : a.id = f.REQID => a.opts = o
               /\ Accepting(f) => f.RECV_NEG = o
  BY DEF Claims
<1>5. /\ \A y \in S2 \cup H : NewReq(f.REQID, y) => y.opts = o
      /\ \A a \in Granted(A2, so2) : a.id = f.REQID => a.opts = o
  BY <1>3, <1>4 DEF NewReq
<1>6. /\ \A y \in S2 \cup H : y.code = "REQ" => y.id \in 0 .. f.CURID - 1
      /\ \A a \in Granted(A2, so2) : a.id \in 0 .. f.CURID - 1
  BY <1>3 DEF Claims
<1>7. CASE x.id = f.REQID
  <2>1. NoOldReq(f.REQID, S2)
    BY <1>7 DEF NewReq
  <2>2. QED
    BY <1>1, <1>2, <1>4, <1>5, <1>6, <1>7, <2>1 DEF Claims
<1>8. CASE x.id # f.REQID
  <2>1. ~Confirmed(f, Granted(A, so))
    BY <1>8 DEF Claims, NoOldReq, OldReq
  <2>2. ~Confirmed(f, Granted(A2, so2)) /\ ~Confirmed(f, A2)
    BY <1>3, <1>8, <2>1 DEF Confirmed, Granted
  <2>3. QED
    BY <1>1, <1>2, <1>4, <1>5, <1>6, <2>2 DEF Claims
<1>9. QED
  BY <1>7, <1>8

-----------------------------------------------------------------------------
(* The order in which requests travel.                                     *)

\* No earlier request follows the last one: on the line w, behind it in the
\* packets E unlinked for their time-out, or in the messages out.
InOrder(id, E, w, out) ==
  /\ \A i, j \in 1 .. Len(w) : i < j /\ NewReq(id, w[i]) => ~OldReq(id, w[j])
  /\ (\E x \in PacketsIn(w) : NewReq(id, x)) => NoOldReq(id, E \cup SentIn(out))
  /\ (\E x \in E : NewReq(id, x)) => NoOldReq(id, SentIn(out))
  /\ \A i, j \in 1 .. Len(out) :
        i < j /\ out[i].cmd = "SEND" /\ out[j].cmd = "SEND" /\ NewReq(id, out[i].pkt)
          => ~OldReq(id, out[j].pkt)

\* A frame is taken from the line.
LEMMA OrderTail ==
  ASSUME NEW id, NEW E, NEW w, NEW out, InOrder(id, E, w, out), IsSeq(w), w # <<>>
  PROVE  /\ InOrder(id, E, Tail(w), out)
         /\ NewReq(id, Head(w)) =>
              NoOldReq(id, PacketsIn(Tail(w)) \cup E \cup SentIn(out))
<1>1. PICK s : s = Tail(w)
  OBVIOUS
<1>2. /\ Len(w) \in Nat /\ Len(w) > 0 /\ Len(s) = Len(w) - 1 /\ Head(w) = w[1]
      /\ \A i \in 1 .. Len(w) - 1 : s[i] = w[i + 1]
  BY <1>1, IsSeqFacts
<1>3. ASSUME NEW i \in 1 .. Len(s), NEW j \in 1 .. Len(s), i < j, NewReq(id, s[i])
      PROVE  ~OldReq(id, s[j])
  <2>1. /\ i + 1 \in 1 .. Len(w) /\ j + 1 \in 1 .. Len(w) /\ i + 1 < j + 1
        /\ s[i] = w[i + 1] /\ s[j] = w[j + 1]
    BY <1>2, <1>3
  <2>2. QED
    BY <1>3, <2>1 DEF InOrder
<1>4. PacketsIn(s) \subseteq PacketsIn(w) /\ Head(w) \in PacketsIn(w)
  BY <1>1, PacketsTail
<1>5. InOrder(id, E, s, out)
  BY <1>3, <1>4 DEF InOrder
<1>6. ASSUME NewReq(id, w[1])
      PROVE  NoOldReq(id, PacketsIn(s) \cup E \cup SentIn(out))
  <2>1. NoOldReq(id, E \cup SentIn(out))
    BY <1>2, <1>4, <1>6 DEF InOrder
  <2>2. ASSUME NEW x \in PacketsIn(s)
        PROVE  ~OldReq(id, x)
    <3>1. PICK j \in 1 .. Len(s) : x = s[j]
      BY DEF PacketsIn
    <3>2. x = w[j + 1] /\ j + 1 \in 1 .. Len(w) /\ 1 \in 1 .. Len(w) /\ 1 < j + 1
      BY <1>2, <3>1
    <3>3. QED
      BY <1>6, <3>2 DEF InOrder
  <2>3. QED
    BY <2>1, <2>2 DEF NoOldReq
<1>7. QED
  BY <1>1, <1>2, <1>5, <1>6

\* Before anything of the last request is sent there is nothing to order.
LEMMA OrderFresh ==
  ASSUME NEW id, NEW E, NEW w, NEW out,
         \A x \in PacketsIn(w) \cup E \cup SentIn(out) : ~NewReq(id, x)
  PROVE  InOrder(id, E, w, out)
<1>1. \A i \in 1 .. Len(w) : ~NewReq(id, w[i])
  BY DEF PacketsIn
<1>2. \A i \in 1 .. Len(out) : out[i].cmd = "SEND" => ~NewReq(id, out[i].pkt)
  BY DEF SentIn
<1>3. QED
  BY <1>1, <1>2 DEF InOrder

\* The machine says something that is no earlier request.
LEMMA OrderSaid ==
  ASSUME NEW id, NEW E, NEW w, NEW out, InOrder(id, E, w, out), IsSeq(out),
         NEW m, m.cmd = "SEND" => ~OldReq(id, m.pkt)
  PROVE  InOrder(id, E, w, Append(out, m))
<1>1. PICK s : s = Append(out, m)
  OBVIOUS
<1>2. /\ Len(out) \in Nat /\ Len(s) = Len(out) + 1 /\ s[Len(out) + 1] = m
      /\ \A i \in 1 .. Len(out) : s[i] = out[i]
  BY <1>1, IsSeqFacts, IsSeqAppend
<1>3. NoOldReq(id, SentIn(out)) => NoOldReq(id, SentIn(s))
  BY <1>1, SentAppend DEF NoOldReq
<1>4. ASSUME NEW i \in 1 .. Len(s), NEW j \in 1 .. Len(s), i < j,
             s[i].cmd = "SEND", s[j].cmd = "SEND", NewReq(id, s[i].pkt)
      PROVE  ~OldReq(id, s[j].pkt)
  <2>1. CASE j = Len(s)
    BY <1>2, <1>4, <2>1
  <2>2. CASE j # Len(s)
    <3>1. i \in 1 .. Len(out) /\ j \in 1 .. Len(out)
      BY <1>2, <1>4, <2>2
    <3>2. QED
      BY <1>2, <1>4, <3>1 DEF InOrder
  <2>3. QED
    BY <2>1, <2>2
<1>5. NoOldReq(id, E \cup SentIn(out)) => NoOldReq(id, E \cup SentIn(s))
  BY <1>3 DEF NoOldReq
<1>6. QED
  BY <1>1, <1>3, <1>4, <1>5 DEF InOrder

\* The transmit task takes a message, and writes its packet.
LEMMA OrderTaken ==
  ASSUME NEW id, NEW w, NEW out, InOrder(id, {}, w, out), IsSeq(w), IsSeq(out), out # <<>>
  PROVE  /\ InOrder(id, {}, w, Tail(out))
         /\ Head(out).cmd = "SEND" => InOrder(id, {}, Append(w, Head(out).pkt), Tail(out))
<1>1. PICK s : s = Tail(out)
  OBVIOUS
<1>2. /\ Len(out) \in Nat /\ Len(out) > 0 /\ Len(s) = Len(out) - 1 /\ Head(out) = out[1]
      /\ \A i \in 1 .. Len(out) - 1 : s[i] = out[i + 1]
  BY <1>1, IsSeqFacts
<1>3. ASSUME NEW i \in 1 .. Len(s), NEW j \in 1 .. Len(s), i < j,
             s[i].cmd = "SEND", s[j].cmd = "SEND", NewReq(id, s[i].pkt)
      PROVE  ~OldReq(id, s[j].pkt)
  <2>1. /\ i + 1 \in 1 .. Len(out) /\ j + 1 \in 1 .. Len(out) /\ i + 1 < j + 1
        /\ s[i] = out[i + 1] /\ s[j] = out[j + 1]
    BY <1>2, <1>3
  <2>2. QED
    BY <1>3, <2>1 DEF InOrder
<1>4. SentIn(s) \subseteq SentIn(out) /\ (out[1].cmd = "SEND" => out[1].pkt \in SentIn(out))
  BY <1>1, <1>2, SentTail
<1>5. (\E x \in PacketsIn(w) : NewReq(id, x)) => NoOldReq(id, SentIn(out))
  BY DEF InOrder, NoOldReq
<1>6. InOrder(id, {}, w, s)
  BY <1>3, <1>4, <1>5 DEF InOrder, NoOldReq
<1>7. ASSUME out[1].cmd = "SEND"
      PROVE  InOrder(id, {}, Append(w, out[1].pkt), s)
  <2>1. PICK x, v : x = out[1].pkt /\ v = Append(w, x)
    OBVIOUS
  <2>2. /\ Len(w) \in Nat /\ Len(v) = Len(w) + 1 /\ v[Len(w) + 1] = x
        /\ \A i \in 1 .. Len(w) : v[i] = w[i]
    BY <2>1, IsSeqFacts, IsSeqAppend
  <2>3. ASSUME NEW i \in 1 .. Len(v), NEW j \in 1 .. Len(v), i < j, NewReq(id, v[i])
        PROVE  ~OldReq(id, v[j])
    <3>1. i \in 1 .. Len(w) /\ v[i] = w[i]
      BY <2>2, <2>3
    <3>2. CASE j = Len(v)
      <4>1. w[i] \in PacketsIn(w) /\ v[j] = x
        BY <2>2, <3>1, <3>2 DEF PacketsIn
      <4>2. QED
        BY <1>4, <1>5, <1>7, <2>1, <2>3, <3>1, <4>1 DEF NoOldReq
    <3>3. CASE j # Len(v)
      <4>1. j \in 1 .. Len(w) /\ v[j] = w[j]
        BY <2>2, <3>3
      <4>2. QED
        BY <2>3, <3>1, <4>1 DEF InOrder
    <3>4. QED
      BY <3>2, <3>3
  <2>4. ASSUME NEW y \in PacketsIn(v), NewReq(id, y)
        PROVE  NoOldReq(id, SentIn(s))
    <3>1. CASE y \in PacketsIn(w)
      BY <1>4, <1>5, <2>4, <3>1 DEF NoOldReq
    <3>2. CASE y = x
      <4>1. ASSUME NEW z \in SentIn(s)
            PROVE  ~OldReq(id, z)
        <5>1. PICK j \in 1 .. Len(s) : s[j].cmd = "SEND" /\ z = s[j].pkt
          BY DEF SentIn
        <5>2. /\ j + 1 \in 1 .. Len(out) /\ 1 \in 1 .. Len(out) /\ 1 < j + 1
              /\ s[j] = out[j + 1]
          BY <1>2, <5>1
        <5>3. QED
          BY <1>7, <2>1, <2>4, <3>2, <5>1, <5>2 DEF InOrder
      <4>2. QED
        BY <4>1 DEF NoOldReq
    <3>3. QED
      BY <2>1, <2>4, <3>1, <3>2, PacketsAppend
  <2>5. QED
    BY <1>3, <2>1, <2>3, <2>4 DEF InOrder, NoOldReq
<1>8. QED
  BY <1>1, <1>2, <1>6, <1>7

\* The time of a packet is up: nothing is under way then.
LEMMA OrderExpired ==
  ASSUME NEW id, NEW E, NEW w, NEW out, w = <<>>, out = <<>>
  PROVE  InOrder(id, E, w, out)
<1>1. PacketsIn(w) = {} /\ SentIn(out) = {} /\ Len(w) = 0 /\ Len(out) = 0
  BY NoneIn
<1>2. QED
  BY <1>1 DEF InOrder, NoOldReq

\* Its time-out is over, and it may have been written again.
LEMMA OrderRepeated ==
  ASSUME NEW id, NEW E, NEW w, NEW out, InOrder(id, E, w, out), w = <<>>,
         NEW x \in E
  PROVE  InOrder(id, {}, w, out) /\ InOrder(id, {}, Append(w, x), out)
<1>1. PICK v : v = Append(w, x)
  OBVIOUS
<1>2. Len(v) = 1 /\ v[1] = x
  BY <1>1
<1>3. PacketsIn(v) = {x}
  BY <1>2 DEF PacketsIn
<1>4. \A i, j \in 1 .. Len(v) : ~(i < j)
  BY <1>2
<1>5. InOrder(id, {}, v, out)
  BY <1>3, <1>4 DEF InOrder, NoOldReq
<1>6. InOrder(id, {}, w, out)
  BY DEF InOrder, NoOldReq
<1>7. QED
  BY <1>1, <1>5, <1>6

-----------------------------------------------------------------------------
(* Timers and the commands that stop them.                                 *)

\* A message that starts a timer
IsTimer(m) == m.cmd = "SEND" /\ m.retry > 0

\* A stop command stands between two places of out.
StopIn(out, i, j) == \E t \in i + 1 .. j - 1 : out[t] = Stop

\* Every timer, n of them running, will have been stopped.
AllStopped(n, out) ==
  /\ n > 0 => StopIn(out, 0, Len(out) + 1)
  /\ \A i \in 1 .. Len(out) : IsTimer(out[i]) => StopIn(out, i, Len(out) + 1)

\* At most one timer runs at a time (n of them now, for the packets H), and
\* no acknowledgement is repeated; a request that is not the last one is
\* about to be stopped.
InTime(id, n, H, out) ==
  /\ n \in 0 .. 1
  /\ \A x \in H : /\ n > 0 /\ x.code # "ACK"
                  /\ OldReq(id, x) => StopIn(out, 0, Len(out) + 1)
  /\ n > 0 => \A i \in 1 .. Len(out) : IsTimer(out[i]) => StopIn(out, 0, i)
  /\ \A i, j \in 1 .. Len(out) :
        i < j /\ IsTimer(out[i]) /\ IsTimer(out[j]) => StopIn(out, i, j)
  /\ \A i \in 1 .. Len(out) : IsTimer(out[i]) =>
        /\ out[i].pkt.code # "ACK"
        /\ OldReq(id, out[i].pkt) => StopIn(out, i, Len(out) + 1)

\* No packet is left to repeat when every timer is stopped.
LEMMA SpentIsStopped ==
  ASSUME NEW n \in Nat, NEW out, NEW conf \in Nat, IsOut(out, conf),
         TimersOf(n, out) = 0
  PROVE  AllStopped(n, out)
<1>1. IsSeq(out) /\ Len(out) \in Nat
  BY IsSeqFacts DEF IsOut
<1>2. PICK left : Counts(left, n, out) /\ left[Len(out)] = 0
  BY <1>1, CountedBy
<1>3. /\ left[0] = n
      /\ \A i \in 1 .. Len(out) : left[i] = Counted(left[i - 1], out[i])
  BY <1>2 DEF Counts
<1>4. ASSUME NEW m, IsMessage(m, conf), NEW t \in Nat
      PROVE  /\ Counted(t, m) \in Nat
             /\ m # Stop => Counted(t, m) >= t
             /\ IsTimer(m) => Counted(t, m) > 0
  <2>1. CASE m = Stop \/ m = Restart
    BY <2>1, CountedFacts DEF IsTimer
  <2>2. CASE IsSend(m) /\ m.retry \in 0 .. conf
    <3>1. CASE m.retry = 0
      <4>1. Counted(t, m) = t + 0
        BY <2>2, <3>1, CountedFacts DEF Bare
      <4>2. ~IsTimer(m)
        BY <3>1 DEF IsTimer
      <4>3. QED
        BY <4>1, <4>2
    <3>2. CASE m.retry > 0
      <4>1. Counted(t, m) = t + 1
        BY <2>2, <3>2, CountedFacts
      <4>2. QED
        BY <4>1
    <3>3. QED
      BY <2>2, <3>1, <3>2
  <2>3. QED
    BY <1>4, <2>1, <2>2 DEF IsMessage
<1>5. \A i \in 1 .. Len(out) : IsMessage(out[i], conf)
  BY DEF IsOut
<1>6. ASSUME NEW i \in 0 .. Len(out), left[i] \in Nat, left[i] > 0
      PROVE  StopIn(out, i, Len(out) + 1)
  <2> DEFINE Bad == {j \in Nat : i <= j /\ j <= Len(out) /\ ~(left[j] \in Nat /\ left[j] > 0)}
  <2>1. Len(out) \in Bad
    BY <1>1, <1>2
  <2>2. PICK j \in Bad : \A x \in Bad : j <= x
    BY <2>1, MinLemma
  <2>3. j # i
    BY <1>6, <2>2
  <2>4. j \in 1 .. Len(out) /\ j > i /\ j - 1 \in Nat /\ j - 1 \notin Bad
    BY <1>1, <2>2, <2>3
  <2>5. left[j - 1] \in Nat /\ left[j - 1] > 0
    BY <1>1, <2>4
  <2>6. left[j] = Counted(left[j - 1], out[j]) /\ IsMessage(out[j], conf)
    BY <1>3, <1>5, <2>4
  <2>7. ~(left[j] \in Nat /\ left[j] > 0)
    BY <2>2
  <2>8. out[j] = Stop
    <3>1. PICK t \in Nat : t = left[j - 1] /\ t > 0
      BY <2>5
    <3>2. out[j] # Stop => Counted(t, out[j]) \in Nat /\ Counted(t, out[j]) >= t
      BY <1>4, <2>6
    <3>3. QED
      BY <2>6, <2>7, <3>1, <3>2
  <2>9. QED
    BY <1>1, <2>4, <2>8 DEF StopIn
<1>7. \A i \in 0 .. Len(out) : left[i] \in Nat
  <2> DEFINE Bad == {j \in Nat : j <= Len(out) /\ left[j] \notin Nat}
  <2>1. SUFFICES ASSUME Bad # {}
                 PROVE  FALSE
    BY <1>1
  <2>2. PICK j \in Bad : \A x \in Bad : j <= x
    BY <2>1, MinLemma
  <2>3. j # 0
    BY <1>3, <2>2
  <2>4. j \in 1 .. Len(out) /\ j - 1 \in Nat /\ j - 1 \notin Bad
    BY <1>1, <2>2, <2>3
  <2>5. left[j - 1] \in Nat
    BY <1>1, <2>4
  <2>6. left[j] = Counted(left[j - 1], out[j]) /\ IsMessage(out[j], conf)
    BY <1>3, <1>5, <2>4
  <2>7. left[j] \in Nat
    BY <1>4, <2>5, <2>6
  <2>8. QED
    BY <2>2, <2>7
<1>8. n > 0 => StopIn(out, 0, Len(out) + 1)
  BY <1>1, <1>3, <1>6
<1>9. ASSUME NEW i \in 1 .. Len(out), IsTimer(out[i])
      PROVE  StopIn(out, i, Len(out) + 1)
  <2>1. i \in 0 .. Len(out) /\ i - 1 \in 0 .. Len(out)
    BY <1>1
  <2>2. left[i] = Counted(left[i - 1], out[i]) /\ IsMessage(out[i], conf)
    BY <1>3, <1>5
  <2>3. left[i] > 0
    BY <1>4, <1>7, <1>9, <2>1, <2>2
  <2>4. QED
    BY <1>6, <1>7, <2>1, <2>3
<1>10. QED
  BY <1>8, <1>9 DEF AllStopped

LEMMA StopAppend ==
  ASSUME NEW out, IsSeq(out), NEW m, NEW i \in Nat
  PROVE  LET s == Append(out, m)
         IN  /\ \A j \in 0 .. Len(out) + 1 : StopIn(out, i, j) => StopIn(s, i, j)
             /\ StopIn(out, i, Len(out) + 1) => StopIn(s, i, Len(s) + 1)
             /\ StopIn(out, i, Len(out) + 1) => StopIn(s, i, Len(s))
             /\ m = Stop /\ i <= Len(out) => StopIn(s, i, Len(s) + 1)
<1>1. PICK s : s = Append(out, m)
  OBVIOUS
<1>2. /\ Len(out) \in Nat /\ Len(s) = Len(out) + 1 /\ s[Len(out) + 1] = m
      /\ \A t \in 1 .. Len(out) : s[t] = out[t]
  BY <1>1, IsSeqFacts, IsSeqAppend
<1>3. ASSUME NEW j \in 0 .. Len(out) + 1, StopIn(out, i, j), NEW l \in Nat, l >= j
      PROVE  StopIn(s, i, l)
  <2>1. PICK t \in i + 1 .. j - 1 : out[t] = Stop
    BY <1>3 DEF StopIn
  <2>2. t \in i + 1 .. l - 1 /\ t \in 1 .. Len(out)
    BY <1>2, <1>3
  <2>3. QED
    BY <1>2, <2>1, <2>2 DEF StopIn
<1>4. ASSUME m = Stop, i <= Len(out)
      PROVE  StopIn(s, i, Len(s) + 1)
  <2>1. Len(s) \in i + 1 .. (Len(s) + 1) - 1
    BY <1>2, <1>4
  <2>2. QED
    BY <1>2, <1>4, <2>1 DEF StopIn
<1>5. Len(out) + 1 \in 0 .. Len(out) + 1 /\ Len(s) \in Nat /\ Len(s) >= Len(out) + 1
      /\ Len(s) + 1 \in Nat /\ Len(s) + 1 >= Len(out) + 1
  BY <1>2
<1>6. \A j \in 0 .. Len(out) + 1 : StopIn(out, i, j) => StopIn(s, i, j)
  BY <1>2, <1>3
<1>7. QED
  BY <1>1, <1>3, <1>4, <1>5, <1>6

LEMMA StoppedAppend ==
  ASSUME NEW out, IsSeq(out), NEW n
  PROVE  /\ AllStopped(n, Append(out, Stop))
         /\ \A m : AllStopped(n, out) /\ ~IsTimer(m) => AllStopped(n, Append(out, m))
<1>1. ASSUME NEW m, ~IsTimer(m), m = Stop \/ AllStopped(n, out)
      PROVE  AllStopped(n, Append(out, m))
  <2>1. PICK s : s = Append(out, m)
    OBVIOUS
  <2>2. /\ Len(out) \in Nat /\ Len(s) = Len(out) + 1 /\ s[Len(out) + 1] = m
        /\ \A t \in 1 .. Len(out) : s[t] = out[t]
    BY <2>1, IsSeqFacts, IsSeqAppend
  <2>3. ASSUME NEW i \in 0 .. Len(out), m # Stop => StopIn(out, i, Len(out) + 1)
        PROVE  StopIn(s, i, Len(s) + 1)
    BY <2>1, <2>2, <2>3, StopAppend
  <2>4. n > 0 => StopIn(s, 0, Len(s) + 1)
    BY <1>1, <2>2, <2>3 DEF AllStopped
  <2>5. ASSUME NEW i \in 1 .. Len(s), IsTimer(s[i])
        PROVE  StopIn(s, i, Len(s) + 1)
    <3>1. i \in 1 .. Len(out) /\ s[i] = out[i]
      BY <1>1, <2>2, <2>5
    <3>2. QED
      BY <1>1, <2>2, <2>3, <2>5, <3>1 DEF AllStopped
  <2>6. QED
    BY <2>1, <2>4, <2>5 DEF AllStopped
<1>2. ~IsTimer(Stop)
  BY CountedFacts DEF IsTimer
<1>3. QED
  BY <1>1, <1>2

\* The machine says something that is not repeated.
LEMMA TimeSaid ==
  ASSUME NEW id, NEW n, NEW H, NEW out, InTime(id, n, H, out), IsSeq(out),
         NEW m, ~IsTimer(m)
  PROVE  InTime(id, n, H, Append(out, m))
<1>1. PICK s : s = Append(out, m)
  OBVIOUS
<1>2. /\ Len(out) \in Nat /\ Len(s) = Len(out) + 1 /\ s[Len(out) + 1] = m
      /\ \A t \in 1 .. Len(out) : s[t] = out[t]
  BY <1>1, IsSeqFacts, IsSeqAppend
<1>3. \A i \in 1 .. Len(s) : IsTimer(s[i]) => i \in 1 .. Len(out) /\ s[i] = out[i]
  BY <1>2
<1>4. ASSUME NEW i \in Nat
      PROVE  /\ \A j \in 0 .. Len(out) + 1 : StopIn(out, i, j) => StopIn(s, i, j)
             /\ StopIn(out, i, Len(out) + 1) => StopIn(s, i, Len(s) + 1)
  BY <1>1, StopAppend
<1>5. \A x \in H : OldReq(id, x) => StopIn(s, 0, Len(s) + 1)
  BY <1>4 DEF InTime
<1>6. ASSUME n > 0, NEW i \in 1 .. Len(s), IsTimer(s[i])
      PROVE  StopIn(s, 0, i)
  <2>1. i \in 1 .. Len(out) /\ s[i] = out[i] /\ i \in 0 .. Len(out) + 1
    BY <1>2, <1>3, <1>6
  <2>2. StopIn(out, 0, i)
    BY <1>6, <2>1 DEF InTime
  <2>3. QED
    BY <1>4, <2>1, <2>2
<1>7. ASSUME NEW i \in 1 .. Len(s), NEW j \in 1 .. Len(s), i < j, IsTimer(s[i]), IsTimer(s[j])
      PROVE  StopIn(s, i, j)
  <2>1. /\ i \in 1 .. Len(out) /\ s[i] = out[i] /\ j \in 0 .. Len(out) + 1
        /\ j \in 1 .. Len(out) /\ s[j] = out[j]
    BY <1>2, <1>3, <1>7
  <2>2. StopIn(out, i, j)
    BY <1>7, <2>1 DEF InTime
  <2>3. QED
    BY <1>4, <2>1, <2>2
<1>8. ASSUME NEW i \in 1 .. Len(s), IsTimer(s[i])
      PROVE  /\ s[i].pkt.code # "ACK"
             /\ OldReq(id, s[i].pkt) => StopIn(s, i, Len(s) + 1)
  <2>1. i \in 1 .. Len(out) /\ s[i] = out[i]
    BY <1>3, <1>8
  <2>2. /\ out[i].pkt.code # "ACK"
        /\ OldReq(id, out[i].pkt) => StopIn(out, i, Len(out) + 1)
    BY <1>8, <2>1 DEF InTime
  <2>3. QED
    BY <1>4, <2>1, <2>2
<1>9. QED
  BY <1>1, <1>5, <1>6, <1>7, <1>8 DEF InTime

\* With every timer stopped it starts one, whatever its last request is then.
LEMMA TimeArmed ==
  ASSUME NEW id, NEW n, NEW H, NEW out, InTime(id, n, H, out), IsSeq(out),
         AllStopped(n, out),
         NEW u, NEW m, m.pkt.code # "ACK", ~OldReq(u, m.pkt)
  PROVE  InTime(u, n, H, Append(out, m))
<1>1. PICK s : s = Append(out, m)
  OBVIOUS
<1>2. /\ Len(out) \in Nat /\ Len(s) = Len(out) + 1 /\ s[Len(out) + 1] = m
      /\ \A t \in 1 .. Len(out) : s[t] = out[t]
  BY <1>1, IsSeqFacts, IsSeqAppend
<1>3. ASSUME NEW i \in Nat
      PROVE  /\ \A j \in 0 .. Len(out) + 1 : StopIn(out, i, j) => StopIn(s, i, j)
             /\ StopIn(out, i, Len(out) + 1) => StopIn(s, i, Len(s) + 1)
             /\ StopIn(out, i, Len(out) + 1) => StopIn(s, i, Len(s))
  BY <1>1, StopAppend
<1>4. n > 0 => StopIn(s, 0, Len(s)) /\ StopIn(s, 0, Len(s) + 1)
  BY <1>3 DEF AllStopped
<1>5. ASSUME NEW i \in 1 .. Len(out), IsTimer(out[i])
      PROVE  StopIn(s, i, Len(s)) /\ StopIn(s, i, Len(s) + 1)
  BY <1>3, <1>5 DEF AllStopped
<1>6. \A x \in H : n > 0 /\ x.code # "ACK" /\ StopIn(s, 0, Len(s) + 1)
  BY <1>4 DEF InTime
<1>7. ASSUME n > 0, NEW i \in 1 .. Len(s), IsTimer(s[i])
      PROVE  StopIn(s, 0, i)
  <2>1. CASE i = Len(s)
    BY <1>4, <1>7, <2>1
  <2>2. CASE i # Len(s)
    <3>1. i \in 1 .. Len(out) /\ s[i] = out[i] /\ i \in 0 .. Len(out) + 1
      BY <1>2, <2>2
    <3>2. StopIn(out, 0, i)
      BY <1>7, <3>1 DEF InTime
    <3>3. QED
      BY <1>3, <3>1, <3>2
  <2>3. QED
    BY <2>1, <2>2
<1>8. ASSUME NEW i \in 1 .. Len(s), NEW j \in 1 .. Len(s), i < j, IsTimer(s[i]), IsTimer(s[j])
      PROVE  StopIn(s, i, j)
  <2>1. i \in 1 .. Len(out) /\ s[i] = out[i]
    BY <1>2, <1>8
  <2>2. CASE j = Len(s)
    BY <1>5, <1>8, <2>1, <2>2
  <2>3. CASE j # Len(s)
    <3>1. j \in 1 .. Len(out) /\ s[j] = out[j] /\ j \in 0 .. Len(out) + 1
      BY <1>2, <2>3
    <3>2. StopIn(out, i, j)
      BY <1>8, <2>1, <3>1 DEF InTime
    <3>3. QED
      BY <1>3, <3>1, <3>2
  <2>4. QED
    BY <2>2, <2>3
<1>9. ASSUME NEW i \in 1 .. Len(s), IsTimer(s[i])
      PROVE  /\ s[i].pkt.code # "ACK"
             /\ OldReq(u, s[i].pkt) => StopIn(s, i, Len(s) + 1)
  <2>1. CASE i = Len(s)
    BY <1>2, <2>1
  <2>2. CASE i # Len(s)
    <3>1. i \in 1 .. Len(out) /\ s[i] = out[i]
      BY <1>2, <2>2
    <3>2. out[i].pkt.code # "ACK"
      BY <1>9, <3>1 DEF InTime
    <3>3. QED
      BY <1>5, <1>9, <3>1, <3>2
  <2>3. QED
    BY <2>1, <2>2
<1>10. n \in 0 .. 1
  BY DEF InTime
<1>11. QED
  BY <1>1, <1>6, <1>7, <1>8, <1>9, <1>10 DEF InTime

LEMMA TimeLess ==
  ASSUME NEW id, NEW n, NEW H, NEW out, InTime(id, n, H, out),
         NEW n2 \in Nat, n2 <= n, NEW H2, H2 \subseteq H, \A x \in H2 : n2 > 0
  PROVE  InTime(id, n2, H2, out)
BY DEF InTime

\* The transmit task takes a message.
LEMMA TimeTaken ==
  ASSUME NEW id, NEW n, NEW H, NEW out, InTime(id, n, H, out), IsSeq(out), out # <<>>
  PROVE  LET m == Head(out)
         IN  /\ ~IsTimer(m) /\ m # Stop => InTime(id, n, H, Tail(out))
             /\ m = Stop => InTime(id, 0, {}, Tail(out))
             /\ IsTimer(m) => n = 0 /\ InTime(id, 1, {m.pkt}, Tail(out))
<1>1. PICK s, m : s = Tail(out) /\ m = Head(out)
  OBVIOUS
<1>2. /\ Len(out) \in Nat /\ Len(out) > 0 /\ Len(s) = Len(out) - 1 /\ m = out[1]
      /\ \A i \in 1 .. Len(out) - 1 : s[i] = out[i + 1]
  BY <1>1, IsSeqFacts
<1>3. ASSUME NEW i \in Nat, NEW j \in 1 .. Len(out) + 1, StopIn(out, i + 1, j)
      PROVE  StopIn(s, i, j - 1)
  <2>1. PICK t \in i + 2 .. j - 1 : out[t] = Stop
    BY <1>3 DEF StopIn
  <2>2. t - 1 \in i + 1 .. (j - 1) - 1 /\ t - 1 \in 1 .. Len(out) - 1
    BY <1>2, <2>1
  <2>3. s[t - 1] = Stop
    BY <1>2, <2>1, <2>2
  <2>4. QED
    BY <2>2, <2>3 DEF StopIn
<1>4. ASSUME m # Stop, NEW j \in 1 .. Len(out) + 1, StopIn(out, 0, j)
      PROVE  StopIn(s, 0, j - 1)
  <2>1. PICK t \in 1 .. j - 1 : out[t] = Stop
    BY <1>4 DEF StopIn
  <2>2. t - 1 \in 1 .. (j - 1) - 1 /\ t - 1 \in 1 .. Len(out) - 1
    BY <1>2, <1>4, <2>1
  <2>3. s[t - 1] = Stop
    BY <1>2, <2>1, <2>2
  <2>4. QED
    BY <2>2, <2>3 DEF StopIn
<1>5. ASSUME NEW i \in 1 .. Len(s)
      PROVE  /\ i + 1 \in 1 .. Len(out) /\ s[i] = out[i + 1] /\ i \in Nat
             /\ i + 1 \in 1 .. Len(out) + 1
  BY <1>2
<1>6. ASSUME NEW i \in 1 .. Len(s), NEW j \in 1 .. Len(s), i < j, IsTimer(s[i]), IsTimer(s[j])
      PROVE  StopIn(s, i, j)
  <2>1. StopIn(out, i + 1, j + 1)
    BY <1>5, <1>6 DEF InTime
  <2>2. StopIn(s, i, (j + 1) - 1) /\ (j + 1) - 1 = j
    BY <1>3, <1>5, <2>1
  <2>3. QED
    BY <2>2
<1>7. ASSUME NEW i \in 1 .. Len(s), IsTimer(s[i])
      PROVE  /\ s[i].pkt.code # "ACK"
             /\ OldReq(id, s[i].pkt) => StopIn(s, i, Len(s) + 1)
  <2>1. /\ s[i].pkt.code # "ACK"
        /\ OldReq(id, s[i].pkt) => StopIn(out, i + 1, Len(out) + 1)
    BY <1>5, <1>7 DEF InTime
  <2>2. Len(out) + 1 \in 1 .. Len(out) + 1 /\ (Len(out) + 1) - 1 = Len(s) + 1
    BY <1>2
  <2>3. QED
    BY <1>3, <1>5, <2>1, <2>2
<1>8. CASE ~IsTimer(m) /\ m # Stop
  <2>1. \A x \in H : /\ n > 0 /\ x.code # "ACK"
                     /\ OldReq(id, x) => StopIn(s, 0, Len(s) + 1)
    <3>1. Len(out) + 1 \in 1 .. Len(out) + 1 /\ (Len(out) + 1) - 1 = Len(s) + 1
      BY <1>2
    <3>2. QED
      BY <1>4, <1>8, <3>1 DEF InTime
  <2>2. ASSUME n > 0, NEW i \in 1 .. Len(s), IsTimer(s[i])
        PROVE  StopIn(s, 0, i)
    <3>1. StopIn(out, 0, i + 1)
      BY <1>5, <2>2 DEF InTime
    <3>2. StopIn(s, 0, (i + 1) - 1) /\ (i + 1) - 1 = i
      BY <1>4, <1>5, <1>8, <3>1
    <3>3. QED
      BY <3>2
  <2>3. n \in 0 .. 1
    BY DEF InTime
  <2>4. QED
    BY <1>1, <1>6, <1>7, <1>8, <2>1, <2>2, <2>3, CountedFacts DEF InTime, IsTimer
<1>9. CASE m = Stop
  <2>1. InTime(id, 0, {}, s)
    BY <1>6, <1>7 DEF InTime
  <2>2. ~IsTimer(m)
    BY <1>9, CountedFacts DEF IsTimer
  <2>3. QED
    BY <1>1, <1>9, <2>1, <2>2
<1>10. CASE IsTimer(m)
  <2>1. m # Stop /\ 1 \in 1 .. Len(out)
    BY <1>2, <1>10, CountedFacts DEF IsTimer
  <2>2. ~(n > 0)
    <3>1. ~StopIn(out, 0, 1)
      BY DEF StopIn
    <3>2. QED
      BY <1>2, <1>10, <2>1, <3>1 DEF InTime
  <2>3. n = 0
    BY <2>2 DEF InTime
  <2>4. /\ m.pkt.code # "ACK"
        /\ OldReq(id, m.pkt) => StopIn(s, 0, Len(s) + 1)
    <3>1. /\ m.pkt.code # "ACK"
          /\ OldReq(id, m.pkt) => StopIn(out, 0 + 1, Len(out) + 1)
      BY <1>2, <1>10, <2>1 DEF InTime
    <3>2. Len(out) + 1 \in 1 .. Len(out) + 1 /\ (Len(out) + 1) - 1 = Len(s) + 1
      BY <1>2
    <3>3. QED
      BY <1>3, <3>1, <3>2
  <2>5. ASSUME NEW i \in 1 .. Len(s), IsTimer(s[i])
        PROVE  StopIn(s, 0, i)
    <3>1. StopIn(out, 0 + 1, i + 1)
      BY <1>2, <1>5, <1>10, <2>1, <2>5 DEF InTime
    <3>2. StopIn(s, 0, (i + 1) - 1) /\ (i + 1) - 1 = i
      BY <1>3, <1>5, <3>1
    <3>3. QED
      BY <3>2
  <2>6. InTime(id, 1, {m.pkt}, s)
    BY <1>6, <1>7, <2>4, <2>5 DEF InTime
  <2>7. QED
    BY <1>1, <1>10, <2>1, <2>3, <2>6
<1>11. QED
  BY <1>8, <1>9, <1>10

-----------------------------------------------------------------------------
(* One end, seen with what the other end has answered.                     *)

\* rx, ex: the packets f repeats; w: the line to the other end; A and so:
\* what the other end acknowledges and has agreed to.
Side(f, rx, ex, w, A, so) ==
  /\ Claims(f, PacketsIn(w) \cup HeldIn(ex) \cup SentIn(f.out), HeldIn(rx), A, so)
  /\ InOrder(f.REQID, HeldIn(ex), w, f.out)
  /\ InTime(f.REQID, Len(rx) + Len(ex), HeldIn(rx) \cup HeldIn(ex), f.out)

\* Messages that are neither repeated nor requests, and repeated ones that
\* end a link
Aside(m) == ~IsTimer(m) /\ (m.cmd = "SEND" => m.pkt.code # "REQ")
Ending(m) == m.cmd = "SEND" /\ m.pkt.code \notin {"REQ", "ACK"}

\* A machine that stops its timer, or has none
Ripe(f, n) == Negotiating(f.STATE) \/ AllStopped(n, f.out)

\* From f to g the machine keeps its last request.
Tells(f, g, A) ==
  /\ g.REQID = f.REQID /\ g.CURID \in {f.CURID, f.CURID + 1}
  /\ \/ g.out = f.out
     \/ \E m : Aside(m) /\ g.out = Append(f.out, m)
     \/ \E m : Ending(m) /\ g.out = Append(Stopped(f), m)
  /\ Accepting(g) => \/ Accepting(f) /\ g.RECV_NEG = f.RECV_NEG
                     \/ \E a \in A : a.id = f.REQID /\ a.opts = g.RECV_NEG

\* From f to g it makes a new request.
Asked(f, g) ==
  /\ g.REQID = f.CURID /\ g.CURID = f.CURID + 1 /\ ~Accepting(g)
  /\ \E m : /\ m.cmd = "SEND" /\ m.pkt.code = "REQ" /\ m.pkt.id = f.CURID
            /\ g.out = Append(Stopped(f), m)

Moved(f, g, A) == Tells(f, g, A) \/ Asked(f, g)

LEMMA StoppedSide ==
  ASSUME NEW f, IsSeq(f.out), NEW id, NEW E, NEW w, NEW n, NEW H,
         InOrder(id, E, w, f.out), InTime(id, n, H, f.out), Ripe(f, n)
  PROVE  /\ IsSeq(Stopped(f)) /\ SentIn(Stopped(f)) \subseteq SentIn(f.out)
         /\ InOrder(id, E, w, Stopped(f)) /\ InTime(id, n, H, Stopped(f))
         /\ AllStopped(n, Stopped(f))
<1>1. Stop.cmd # "SEND" /\ ~IsTimer(Stop)
  BY CountedFacts DEF IsTimer
<1>2. CASE Negotiating(f.STATE)
  <2>1. Stopped(f) = Append(f.out, Stop)
    BY <1>2 DEF Stopped
  <2>2. QED
    BY <1>1, <2>1, IsSeqAppend, SentAppend, OrderSaid, TimeSaid, StoppedAppend
<1>3. CASE ~Negotiating(f.STATE)
  BY <1>3 DEF Stopped, Ripe
<1>4. QED
  BY <1>2, <1>3

LEMMA SideMoved ==
  ASSUME NEW f, NEW rx, NEW ex, NEW w, NEW A, NEW so, Side(f, rx, ex, w, A, so),
         IsSeq(f.out), f.CURID \in Nat, Ripe(f, Len(rx) + Len(ex)),
         NEW g, Moved(f, g, A)
  PROVE  Side(g, rx, ex, w, A, so)
<1>1. PICK id, u, s : id = f.REQID /\ u = g.REQID /\ s = Stopped(f)
  OBVIOUS
<1>2. PICK E, H, n, S : /\ E = HeldIn(ex) /\ H = HeldIn(rx) \cup HeldIn(ex)
                        /\ n = Len(rx) + Len(ex)
                        /\ S = PacketsIn(w) \cup HeldIn(ex) \cup SentIn(f.out)
  OBVIOUS
<1>3. /\ Claims(f, S, HeldIn(rx), A, so) /\ InOrder(id, E, w, f.out)
      /\ InTime(id, n, H, f.out) /\ Ripe(f, n)
  BY <1>1, <1>2 DEF Side
<1>4. /\ IsSeq(s) /\ SentIn(s) \subseteq SentIn(f.out)
      /\ InOrder(id, E, w, s) /\ InTime(id, n, H, s)
      /\ AllStopped(n, s)
  BY <1>1, <1>3, StoppedSide
<1>5. CASE Tells(f, g, A)
  <2>1. u = id /\ g.CURID \in {f.CURID, f.CURID + 1}
    BY <1>1, <1>5 DEF Tells
  <2>2. /\ InOrder(u, E, w, g.out) /\ InTime(u, n, H, g.out)
        /\ \A x \in SentIn(g.out) : x \in SentIn(f.out) \/ x.code # "REQ"
    <3>1. CASE g.out = f.out
      BY <1>3, <2>1, <3>1
    <3>2. CASE \E m : Aside(m) /\ g.out = Append(f.out, m)
      <4>1. PICK m : Aside(m) /\ g.out = Append(f.out, m)
        BY <3>2
      <4>2. ~IsTimer(m) /\ (m.cmd = "SEND" => m.pkt.code # "REQ" /\ ~OldReq(id, m.pkt))
        BY <4>1 DEF Aside, OldReq
      <4>3. InOrder(id, E, w, g.out) /\ InTime(id, n, H, g.out)
        BY <1>3, <4>1, <4>2, OrderSaid, TimeSaid
      <4>4. \A x \in SentIn(g.out) : x \in SentIn(f.out) \/ x.code # "REQ"
        BY <4>1, <4>2, SentAppend
      <4>5. QED
        BY <2>1, <4>3, <4>4
    <3>3. CASE \E m : Ending(m) /\ g.out = Append(s, m)
      <4>1. PICK m : Ending(m) /\ g.out = Append(s, m)
        BY <3>3
      <4>2. m.cmd = "SEND" /\ m.pkt.code # "REQ" /\ m.pkt.code # "ACK" /\ ~OldReq(id, m.pkt)
        BY <4>1 DEF Ending, OldReq
      <4>3. InOrder(id, E, w, g.out) /\ InTime(id, n, H, g.out)
        BY <1>4, <4>1, <4>2, OrderSaid, TimeArmed
      <4>4. \A x \in SentIn(g.out) : x \in SentIn(f.out) \/ x.code # "REQ"
        BY <1>4, <4>1, <4>2, SentAppend
      <4>5. QED
        BY <2>1, <4>3, <4>4
    <3>4. QED
      BY <1>1, <1>5, <3>1, <3>2, <3>3 DEF Tells
  <2>3. Claims(g, PacketsIn(w) \cup HeldIn(ex) \cup SentIn(g.out), HeldIn(rx), A, so)
    <3>1. PICK S2 : S2 = PacketsIn(w) \cup HeldIn(ex) \cup SentIn(g.out)
      OBVIOUS
    <3>2. \A x \in S2 : x \in S \/ x.code # "REQ"
      BY <1>2, <2>2, <3>1
    <3>3. /\ g.REQID = f.REQID
          /\ Accepting(g) => \/ Accepting(f) /\ g.RECV_NEG = f.RECV_NEG
                             \/ \E a \in A : a.id = f.REQID /\ a.opts = g.RECV_NEG
      BY <1>5 DEF Tells
    <3>4. QED
      BY <1>3, <2>1, <3>1, <3>2, <3>3, ClaimsTold
  <2>4. QED
    BY <1>1, <1>2, <2>2, <2>3 DEF Side
<1>6. CASE Asked(f, g)
  <2>1. PICK m : /\ m.cmd = "SEND" /\ m.pkt.code = "REQ" /\ m.pkt.id = f.CURID
                 /\ g.out = Append(s, m)
    BY <1>1, <1>6 DEF Asked
  <2>2. u = f.CURID /\ g.CURID = f.CURID + 1 /\ ~Accepting(g)
    BY <1>1, <1>6 DEF Asked
  <2>3. ~OldReq(u, m.pkt) /\ m.pkt.code # "ACK"
    BY <2>1, <2>2 DEF OldReq
  <2>4. InTime(u, n, H, g.out)
    BY <1>4, <2>1, <2>3, TimeArmed
  <2>5. InOrder(u, E, w, g.out)
    <3>1. \A x \in S : x.code = "REQ" => x.id \in 0 .. f.CURID - 1
      BY <1>3 DEF Claims
    <3>2. \A x \in PacketsIn(w) \cup E \cup SentIn(s) : ~NewReq(u, x)
      BY <1>2, <1>4, <2>2, <3>1 DEF NewReq
    <3>3. InOrder(u, E, w, s)
      BY <3>2, OrderFresh
    <3>4. QED
      BY <1>4, <2>1, <2>3, <3>3, OrderSaid
  <2>6. Claims(g, PacketsIn(w) \cup HeldIn(ex) \cup SentIn(g.out), HeldIn(rx), A, so)
    <3>1. PICK S2 : S2 = PacketsIn(w) \cup HeldIn(ex) \cup SentIn(g.out)
      OBVIOUS
    <3>2. SentIn(g.out) \subseteq SentIn(f.out) \cup {m.pkt}
      BY <1>4, <2>1, SentAppend
    <3>3. PICK x : x = m.pkt
      OBVIOUS
    <3>4. S2 \subseteq S \cup {x}
      BY <1>2, <3>1, <3>2, <3>3
    <3>5. g.REQID = f.CURID /\ g.CURID = f.CURID + 1 /\ x.code = "REQ" /\ x.id = f.CURID
      BY <1>1, <2>1, <2>2, <3>3
    <3>6. Claims(g, S2, HeldIn(rx), A, so)
      BY <1>3, <2>2, <3>4, <3>5, ClaimsRenewed
    <3>7. QED
      BY <3>1, <3>6
  <2>7. QED
    BY <1>1, <1>2, <2>4, <2>5, <2>6 DEF Side
<1>7. QED
  BY <1>5, <1>6 DEF Moved

-----------------------------------------------------------------------------
(* The other end and the line.                                             *)

LEMMA SideLess ==
  ASSUME NEW f, NEW rx, NEW ex, NEW w, NEW A, NEW so, Side(f, rx, ex, w, A, so),
         NEW A2, A2 \subseteq A, NEW so2, so2 \in {so, NoOptions}
  PROVE  /\ Side(f, rx, ex, w, A2, so2)
         /\ IsSeq(w) /\ w # <<>> => Side(f, rx, ex, Tail(w), A2, so2)
<1>1. PICK S, H : S = PacketsIn(w) \cup HeldIn(ex) \cup SentIn(f.out) /\ H = HeldIn(rx)
  OBVIOUS
<1>2. Claims(f, S, H, A, so)
  BY <1>1 DEF Side
<1>3. ASSUME NEW S2, S2 \subseteq S
      PROVE  Claims(f, S2, H, A2, so2)
  BY <1>2, <1>3, ClaimsLess
<1>4. Side(f, rx, ex, w, A2, so2)
  BY <1>1, <1>3 DEF Side
<1>5. ASSUME IsSeq(w), w # <<>>
      PROVE  Side(f, rx, ex, Tail(w), A2, so2)
  <2>1. PICK v : v = Tail(w)
    OBVIOUS
  <2>2. PacketsIn(v) \subseteq PacketsIn(w)
    BY <1>5, <2>1, PacketsTail
  <2>3. PICK S2 : S2 = PacketsIn(v) \cup HeldIn(ex) \cup SentIn(f.out)
    OBVIOUS
  <2>4. Claims(f, S2, H, A2, so2)
    BY <1>1, <1>3, <2>2, <2>3
  <2>5. InOrder(f.REQID, HeldIn(ex), v, f.out)
    BY <1>5, <2>1, OrderTail DEF Side
  <2>6. QED
    BY <1>1, <2>1, <2>3, <2>4, <2>5 DEF Side
<1>6. QED
  BY <1>4, <1>5

\* The other end takes a request and acknowledges it.
LEMMA SideAnswered ==
  ASSUME NEW f, NEW rx, NEW ex, NEW w, NEW A, NEW so, Side(f, rx, ex, w, A, so),
         IsSeq(w), w # <<>>, NEW x, x = Head(w), x.code = "REQ",
         NEW A2, \A a \in A2 : a \in A \/ (a.id = x.id /\ a.opts = x.opts)
  PROVE  Side(f, rx, ex, Tail(w), A2, [id |-> x.id, opts |-> x.opts])
<1>1. PICK S, H : S = PacketsIn(w) \cup HeldIn(ex) \cup SentIn(f.out) /\ H = HeldIn(rx)
  OBVIOUS
<1>2. Claims(f, S, H, A, so)
  BY <1>1 DEF Side
<1>3. PICK v : v = Tail(w)
  OBVIOUS
<1>4. PacketsIn(v) \subseteq PacketsIn(w) /\ x \in PacketsIn(w)
  BY <1>3, PacketsTail
<1>5. PICK S2 : S2 = PacketsIn(v) \cup HeldIn(ex) \cup SentIn(f.out)
  OBVIOUS
<1>6. /\ InOrder(f.REQID, HeldIn(ex), v, f.out)
      /\ NewReq(f.REQID, x) => NoOldReq(f.REQID, S2)
  BY <1>3, <1>5, OrderTail DEF Side
<1>7. S2 \subseteq S /\ x \in S
  BY <1>1, <1>4, <1>5
<1>8. Claims(f, S2, H, A2, [id |-> x.id, opts |-> x.opts])
  BY <1>2, <1>6, <1>7, ClaimsAnswered
<1>9. QED
  BY <1>1, <1>3, <1>5, <1>6, <1>8 DEF Side

-----------------------------------------------------------------------------
(* The transmit task of the end itself.                                    *)

\* g differs from f in its messages only.
Twin(f, g) ==
  /\ g.REQID = f.REQID /\ g.CURID = f.CURID
  /\ g.STATE = f.STATE /\ g.RECV_NEG = f.RECV_NEG

LEMMA ClaimsTwin ==
  ASSUME NEW f, NEW S, NEW H, NEW A, NEW so, Claims(f, S, H, A, so), NEW g, Twin(f, g)
  PROVE  Claims(g, S, H, A, so)
BY DEF Claims, Twin, Accepting, Confirmed

\* What taking m does to the packets rx to repeat and to the line w: they
\* become sx and v.
Handed(m, rx, sx, w, v) ==
  /\ m.cmd = "SEND" => v = Append(w, m.pkt)
  /\ m.cmd # "SEND" => v = w
  /\ m = Stop /\ Len(rx) <= 1 => Len(sx) = 0
  /\ IsTimer(m) => Len(sx) = Len(rx) + 1 /\ HeldIn(sx) \subseteq HeldIn(rx) \cup {m.pkt}
  /\ ~IsTimer(m) /\ m # Stop => Len(sx) = Len(rx) /\ HeldIn(sx) \subseteq HeldIn(rx)

LEMMA SideTaken ==
  ASSUME NEW f, NEW rx, NEW ex, NEW w, NEW A, NEW so, Side(f, rx, ex, w, A, so),
         IsSeq(f.out), f.out # <<>>, IsSeq(w), ex = <<>>, Len(rx) \in Nat,
         NEW g, Twin(f, g), g.out = Tail(f.out),
         NEW m, m = Head(f.out), NEW v, NEW sx, Handed(m, rx, sx, w, v)
  PROVE  Side(g, sx, ex, v, A, so)
<1> /\ m.cmd = "SEND" => v = Append(w, m.pkt)
    /\ m.cmd # "SEND" => v = w
    /\ m = Stop /\ Len(rx) <= 1 => Len(sx) = 0
    /\ IsTimer(m) => Len(sx) = Len(rx) + 1 /\ HeldIn(sx) \subseteq HeldIn(rx) \cup {m.pkt}
    /\ ~IsTimer(m) /\ m # Stop => Len(sx) = Len(rx) /\ HeldIn(sx) \subseteq HeldIn(rx)
  BY DEF Handed
<1>1. PICK id : id = f.REQID
  OBVIOUS
<1>2. HeldIn(ex) = {} /\ Len(ex) = 0
  BY NoneIn
<1>3. PICK S, H, n : S = PacketsIn(w) \cup SentIn(f.out) /\ H = HeldIn(rx) /\ n = Len(rx)
  OBVIOUS
<1>4. /\ Claims(f, S, H, A, so) /\ InOrder(id, {}, w, f.out)
      /\ InTime(id, n, H, f.out)
  <2>1. Len(rx) + Len(ex) = n /\ HeldIn(rx) \cup HeldIn(ex) = H
        /\ PacketsIn(w) \cup HeldIn(ex) \cup SentIn(f.out) = S
    BY <1>2, <1>3
  <2>2. QED
    BY <1>1, <1>2, <1>3, <2>1 DEF Side
<1>5. PICK out : out = Tail(f.out)
  OBVIOUS
<1>6. SentIn(out) \subseteq SentIn(f.out) /\ (m.cmd = "SEND" => m.pkt \in SentIn(f.out))
  BY <1>5, SentTail
<1>7. PICK S2 : S2 = PacketsIn(v) \cup HeldIn(ex) \cup SentIn(out)
  OBVIOUS
<1>8. S2 \subseteq S
  <2>1. CASE m.cmd = "SEND"
    <3>1. v = Append(w, m.pkt)
      BY <2>1
    <3>2. PacketsIn(v) = PacketsIn(w) \cup {m.pkt}
      BY <3>1, PacketsAppend
    <3>3. QED
      BY <1>2, <1>3, <1>6, <1>7, <2>1, <3>2
  <2>2. CASE m.cmd # "SEND"
    BY <1>2, <1>3, <1>6, <1>7, <2>2
  <2>3. QED
    BY <2>1, <2>2
<1>9. InOrder(id, {}, v, out)
  BY <1>4, <1>5, OrderTaken
<1>10. n \in 0 .. 1
  BY <1>4 DEF InTime
<1>11. /\ InTime(id, Len(sx), HeldIn(sx), out) /\ HeldIn(sx) \subseteq H \cup S
       /\ Len(sx) \in Nat
  <2>1. CASE m = Stop
    <3>1. Len(sx) = 0
      BY <1>3, <1>10, <2>1
    <3>2. HeldIn(sx) = {}
      BY <3>1 DEF HeldIn
    <3>3. InTime(id, 0, {}, out)
      BY <1>4, <1>5, <2>1, TimeTaken
    <3>4. QED
      BY <3>1, <3>2, <3>3
  <2>2. CASE IsTimer(m)
    <3>1. n = 0 /\ InTime(id, 1, {m.pkt}, out)
      <4>1. InTime(id, n, H, f.out)
        BY <1>4
      <4>2. IsTimer(Head(f.out)) =>
              n = 0 /\ InTime(id, 1, {Head(f.out).pkt}, Tail(f.out))
        BY <4>1, TimeTaken, Zenon
      <4>3. QED
        BY <1>5, <2>2, <4>2
    <3>2. HeldIn(rx) = {} /\ m.cmd = "SEND"
      BY <1>3, <2>2, <3>1 DEF HeldIn, IsTimer
    <3>3. Len(sx) = 1 /\ HeldIn(sx) \subseteq {m.pkt}
      BY <1>3, <2>2, <3>1, <3>2
    <3>4. InTime(id, 1, HeldIn(sx), out)
      BY <3>1, <3>3, TimeLess
    <3>5. QED
      BY <1>3, <1>6, <3>2, <3>3, <3>4
  <2>3. CASE ~IsTimer(m) /\ m # Stop
    <3>1. InTime(id, n, H, out)
      BY <1>4, <1>5, <2>3, TimeTaken
    <3>2. Len(sx) = n /\ HeldIn(sx) \subseteq H
      BY <1>3, <2>3
    <3>3. \A x \in H : n > 0
      BY <3>1 DEF InTime
    <3>4. InTime(id, n, HeldIn(sx), out)
      BY <1>3, <3>1, <3>2, <3>3, TimeLess
    <3>5. QED
      BY <1>3, <3>2, <3>4
  <2>4. QED
    BY <2>1, <2>2, <2>3
<1>12. Claims(g, S2, HeldIn(sx), A, so)
  <2>1. PICK H2 : H2 = HeldIn(sx)
    OBVIOUS
  <2>2. Claims(f, S2, H2, A, so)
    BY <1>4, <1>8, <1>11, <2>1, ClaimsLess
  <2>3. QED
    BY <2>1, <2>2, ClaimsTwin
<1>13. HeldIn(sx) \cup HeldIn(ex) = HeldIn(sx) /\ Len(sx) + Len(ex) = Len(sx)
  BY <1>2, <1>11
<1>14. g.REQID = id /\ g.out = out
  BY <1>1, <1>5 DEF Twin
<1>15. QED
  BY <1>2, <1>7, <1>9, <1>11, <1>12, <1>13, <1>14 DEF Side

\* A packet that is no earlier request is no threat when its time is up.
LEMMA ClaimsMore ==
  ASSUME NEW f, NEW S, NEW H, NEW A, NEW so, Claims(f, S, H, A, so),
         NEW x \in H, ~OldReq(f.REQID, x), NEW S2, S2 \subseteq S \cup {x},
         NEW H2, H2 \subseteq H
  PROVE  Claims(f, S2, H2, A, so)
<1>1. S2 \cup H2 \subseteq S \cup H
  OBVIOUS
<1>2. NoOldReq(f.REQID, S) => NoOldReq(f.REQID, S2)
  BY DEF NoOldReq
<1>3. QED
  BY <1>1, <1>2 DEF Claims

LEMMA SideExpired ==
  ASSUME NEW f, NEW rx, NEW ex, NEW w, NEW A, NEW so, Side(f, rx, ex, w, A, so),
         IsSeq(rx), rx # <<>>, ex = <<>>, w = <<>>, f.out = <<>>
  PROVE  Side(f, Tail(rx), <<Head(rx)>>, w, A, so)
<1>1. PICK sx, ey, x : sx = Tail(rx) /\ ey = <<Head(rx)>> /\ x = Head(rx).pkt
  OBVIOUS
<1>2. HeldIn(sx) \subseteq HeldIn(rx) /\ x \in HeldIn(rx) /\ HeldIn(ey) = {x}
  BY <1>1, HeldTail
<1>3. HeldIn(ex) = {} /\ Len(ex) = 0
  BY NoneIn
<1>4. Len(rx) \in Nat /\ Len(sx) = Len(rx) - 1 /\ Len(ey) = 1 /\ Len(f.out) = 0
  BY <1>1, IsSeqFacts
<1>5. PICK S, H : S = PacketsIn(w) \cup HeldIn(ex) \cup SentIn(f.out) /\ H = HeldIn(rx)
  OBVIOUS
<1>6. PICK n : n = Len(rx) + Len(ex)
  OBVIOUS
<1>7. n = Len(sx) + Len(ey)
  BY <1>3, <1>4, <1>6
<1>8. /\ Claims(f, S, H, A, so) /\ InTime(f.REQID, n, H, f.out)
  <2>1. HeldIn(rx) \cup HeldIn(ex) = H
    BY <1>3, <1>5
  <2>2. QED
    BY <1>5, <1>6, <2>1 DEF Side
<1>9. ~OldReq(f.REQID, x)
  <2>1. ~StopIn(f.out, 0, Len(f.out) + 1)
    BY <1>4 DEF StopIn
  <2>2. QED
    BY <1>2, <1>5, <1>8, <2>1 DEF InTime
<1>10. PICK S2 : S2 = PacketsIn(w) \cup HeldIn(ey) \cup SentIn(f.out)
  OBVIOUS
<1>11. Claims(f, S2, HeldIn(sx), A, so)
  <2>1. PICK H2 : H2 = HeldIn(sx)
    OBVIOUS
  <2>2. S2 \subseteq S \cup {x} /\ H2 \subseteq H /\ x \in H
    BY <1>2, <1>5, <1>10, <2>1
  <2>3. Claims(f, S2, H2, A, so)
    BY <1>8, <1>9, <2>2, ClaimsMore
  <2>4. QED
    BY <2>1, <2>3
<1>12. InOrder(f.REQID, HeldIn(ey), w, f.out)
  BY OrderExpired
<1>13. InTime(f.REQID, n, HeldIn(sx) \cup HeldIn(ey), f.out)
  <2>1. PICK H2 : H2 = HeldIn(sx) \cup HeldIn(ey)
    OBVIOUS
  <2>2. H2 \subseteq H
    BY <1>2, <1>5, <2>1
  <2>3. InTime(f.REQID, n, H2, f.out)
    BY <1>8, <2>2 DEF InTime
  <2>4. QED
    BY <2>1, <2>3
<1>14. QED
  BY <1>1, <1>7, <1>10, <1>11, <1>12, <1>13 DEF Side

\* The packet is written and kept again, or given up.
LEMMA SideTimedOut ==
  ASSUME NEW f, NEW rx, NEW ex, NEW w, NEW A, NEW so, Side(f, rx, ex, w, A, so),
         IsSeq(rx), IsSeq(ex), ex # <<>>, w = <<>>, IsSeq(w)
  PROVE  /\ Side(f, rx, <<>>, w, A, so)
         /\ \A i \in 1 .. Len(rx) + 1 : \A t : t.pkt = ex[1].pkt =>
              Side(f, InsertAt(rx, i, t), <<>>, Append(w, ex[1].pkt), A, so)
<1>1. PICK x, e : x = ex[1].pkt /\ e = <<>>
  OBVIOUS
<1>2. /\ HeldIn(e) = {} /\ Len(e) = 0 /\ Len(rx) \in Nat /\ Len(ex) \in Nat /\ Len(ex) > 0
  BY <1>1, IsSeqFacts, NoneIn
<1>3. x \in HeldIn(ex)
  <2>1. 1 \in 1 .. Len(ex)
    BY <1>2
  <2>2. QED
    BY <1>1, <2>1 DEF HeldIn
<1>4. PICK S, H, K, n : /\ S = PacketsIn(w) \cup HeldIn(ex) \cup SentIn(f.out)
                        /\ H = HeldIn(rx) /\ K = HeldIn(rx) \cup HeldIn(ex)
                        /\ n = Len(rx) + Len(ex)
  OBVIOUS
<1>5. /\ Claims(f, S, H, A, so) /\ InTime(f.REQID, n, K, f.out)
      /\ InOrder(f.REQID, HeldIn(ex), w, f.out)
  BY <1>4 DEF Side
<1>6. Len(rx) = 0 /\ n = 1
  BY <1>2, <1>4, <1>5 DEF InTime
<1>7. HeldIn(rx) = {}
  BY <1>6 DEF HeldIn
<1>8. InOrder(f.REQID, {}, w, f.out) /\ InOrder(f.REQID, {}, Append(w, x), f.out)
  BY <1>3, <1>5, OrderRepeated
<1>9. ASSUME NEW sx, NEW v, PacketsIn(v) \subseteq PacketsIn(w) \cup {x},
             HeldIn(sx) \subseteq {x}, Len(sx) \in 0 .. 1, Len(sx) = 0 => HeldIn(sx) = {},
             InOrder(f.REQID, {}, v, f.out)
      PROVE  Side(f, sx, e, v, A, so)
  <2>1. PICK S2, H2 : S2 = PacketsIn(v) \cup HeldIn(e) \cup SentIn(f.out) /\ H2 = HeldIn(sx)
    OBVIOUS
  <2>2. S2 \subseteq S /\ H2 \subseteq H \cup S
    BY <1>2, <1>3, <1>4, <1>9, <2>1
  <2>3. Claims(f, S2, H2, A, so)
    BY <1>5, <2>2, ClaimsLess
  <2>4. PICK l \in 0 .. 1 : l = Len(sx) + Len(e)
    BY <1>2, <1>9
  <2>5. InTime(f.REQID, l, H2, f.out)
    <3>1. l \in Nat /\ l <= n /\ H2 \subseteq K /\ (\A y \in H2 : l > 0)
      BY <1>2, <1>3, <1>4, <1>6, <1>9, <2>1, <2>4
    <3>2. QED
      BY <1>5, <3>1, TimeLess
  <2>6. HeldIn(sx) \cup HeldIn(e) = H2
    BY <1>2, <2>1
  <2>7. QED
    BY <1>2, <1>9, <2>1, <2>3, <2>4, <2>5, <2>6 DEF Side
<1>10. Side(f, rx, e, w, A, so)
  BY <1>6, <1>7, <1>8, <1>9
<1>11. ASSUME NEW i \in 1 .. Len(rx) + 1, NEW t, t.pkt = x
       PROVE  Side(f, InsertAt(rx, i, t), e, Append(w, x), A, so)
  <2>1. PICK sx, v : sx = InsertAt(rx, i, t) /\ v = Append(w, x)
    OBVIOUS
  <2>2. HeldIn(sx) \subseteq HeldIn(rx) \cup {x} /\ Len(sx) = Len(rx) + 1
    BY <1>11, <2>1, HeldInsert, IsSeqInsert
  <2>3. HeldIn(sx) \subseteq {x} /\ Len(sx) = 1
    BY <1>6, <1>7, <2>2
  <2>4. PacketsIn(v) \subseteq PacketsIn(w) \cup {x}
    BY <2>1, PacketsAppend
  <2>5. InOrder(f.REQID, {}, v, f.out)
    BY <1>8, <2>1
  <2>6. QED
    BY <1>9, <2>1, <2>3, <2>4, <2>5
<1>12. QED
  BY <1>1, <1>10, <1>11

-----------------------------------------------------------------------------
(* What the handlers say.                                                  *)

\* h differs from f in what neither the line nor the other end can see.
Alike(f, h) ==
  /\ IsMachine(h) /\ h.out = f.out /\ h.SEND_OPT = f.SEND_OPT
  /\ h.CURID = f.CURID /\ h.REQID = f.REQID

LEMMA AlikeChain ==
  ASSUME NEW f, NEW g, NEW h, Alike(f, g), Alike(g, h)
  PROVE  Alike(f, h)
BY DEF Alike

LEMMA GotoAlike ==
  ASSUME NEW f, IsMachine(f), NEW s
  PROVE  /\ Alike(f, Goto(f, s)) /\ Goto(f, s).STATE = s
         /\ Goto(f, s).RECV_NEG = f.RECV_NEG
<1>1. PICK e : e = [f EXCEPT !.STATE = s]
  OBVIOUS
<1>2. Alike(f, e) /\ e.STATE = s /\ e.RECV_NEG = f.RECV_NEG
  BY <1>1 DEF IsMachine, Alike
<1>3. QED
  BY <1>1, <1>2 DEF Goto

LEMMA LinkAlike ==
  ASSUME NEW f, IsMachine(f)
  PROVE  /\ Alike(f, f)
         /\ Alike(f, LinkDown(f)) /\ LinkDown(f).STATE = f.STATE
         /\ Alike(f, LinkUp(f)) /\ LinkUp(f).STATE = f.STATE
         /\ LinkUp(f).RECV_NEG = f.RECV_NEG
<1>1. ASSUME NEW v, NEW e, e = [f EXCEPT !.LINK = v]
      PROVE  Alike(f, e) /\ e.STATE = f.STATE /\ e.RECV_NEG = f.RECV_NEG
  BY <1>1 DEF IsMachine, Alike
<1>2. Alike(f, f)
  BY DEF Alike
<1>3. QED
  BY <1>1, <1>2 DEF LinkDown, LinkUp

LEMMA NaksAlike ==
  ASSUME NEW f, IsMachine(f), NEW v, NEW e, e = [f EXCEPT !.NAKS = v]
  PROVE  Alike(f, e) /\ e.STATE = f.STATE /\ e.RECV_NEG = f.RECV_NEG
BY DEF IsMachine, Alike

LEMMA OptionsAlike ==
  ASSUME NEW f, IsMachine(f), NEW v, NEW e, e = [f EXCEPT !.OPTIONS = v]
  PROVE  Alike(f, e) /\ e.STATE = f.STATE /\ e.RECV_NEG = f.RECV_NEG
BY DEF IsMachine, Alike

LEMMA ReceivedAlike ==
  ASSUME NEW f, IsMachine(f), NEW v
  PROVE  /\ \A e : e = [f EXCEPT !.RECV_OPT = v] =>
              Alike(f, e) /\ e.STATE = f.STATE /\ e.RECV_NEG = f.RECV_NEG
         /\ \A e : e = [f EXCEPT !.RECV_NEG = v] =>
              Alike(f, e) /\ e.STATE = f.STATE
<1>1. ASSUME NEW e, e = [f EXCEPT !.RECV_OPT = v]
      PROVE  Alike(f, e) /\ e.STATE = f.STATE /\ e.RECV_NEG = f.RECV_NEG
  BY <1>1 DEF IsMachine, Alike
<1>2. ASSUME NEW e, e = [f EXCEPT !.RECV_NEG = v]
      PROVE  Alike(f, e) /\ e.STATE = f.STATE
  BY <1>2 DEF IsMachine, Alike
<1>3. QED
  BY <1>1, <1>2

LEMMA PostSays ==
  ASSUME NEW f, IsMachine(f), NEW m
  PROVE  /\ Post(f, m).out = Append(f.out, m) /\ IsMachine(Post(f, m))
         /\ Post(f, m).SEND_OPT = f.SEND_OPT
         /\ Post(f, m).CURID = f.CURID /\ Post(f, m).REQID = f.REQID
         /\ Post(f, m).STATE = f.STATE /\ Post(f, m).RECV_NEG = f.RECV_NEG
<1>1. PICK u : u = Append(f.out, m)
  OBVIOUS
<1>2. Post(f, m) = [f EXCEPT !.out = u]
  BY <1>1 DEF Post
<1>3. PICK e : e = [f EXCEPT !.out = u]
  OBVIOUS
<1>4. e.SEND_OPT = f.SEND_OPT /\ e.out = u
  BY <1>3 DEF IsMachine
<1>5. QED
  BY <1>1, <1>2, <1>3, <1>4, PostOut DEF SameFields

\* What f has agreed to stands, or is taken back, and nothing more is
\* acknowledged.
SameWord(f, g) ==
  /\ g.SEND_OPT \in {f.SEND_OPT, NoOptions}
  /\ \A x \in SentIn(g.out) : x.code = "ACK" => x \in SentIn(f.out)

\* A machine that has acknowledged a request knows which.
Agreed(f) == f.STATE \in {ACK_SENT, OPENED} => f.SEND_OPT # NoOptions

Says(f, g, A) ==
  Moved(f, g, A) /\ SameWord(f, g) /\ (Agreed(f) => Agreed(g))

\* The machine adds nothing to its messages, or something that is no request
\* and no acknowledgement.
Remarks(f, g) ==
  \/ g.out = f.out
  \/ \E m : Aside(m) /\ (m.cmd = "SEND" => m.pkt.code # "ACK") /\ g.out = Append(f.out, m)
  \/ \E m : Ending(m) /\ g.out = Append(Stopped(f), m)

LEMMA StoppedSent ==
  ASSUME NEW f, IsSeq(f.out)
  PROVE  IsSeq(Stopped(f)) /\ SentIn(Stopped(f)) \subseteq SentIn(f.out)
<1>1. Stop.cmd # "SEND"
  BY CountedFacts
<1>2. QED
  BY <1>1, IsSeqAppend, SentAppend DEF Stopped

\* Nothing said is an acknowledgement.
LEMMA NoNewAck ==
  ASSUME NEW f, IsSeq(f.out), NEW g,
         \/ Remarks(f, g)
         \/ \E m : m.cmd = "SEND" /\ m.pkt.code = "REQ" /\ g.out = Append(Stopped(f), m)
  PROVE  \A x \in SentIn(g.out) : x.code = "ACK" => x \in SentIn(f.out)
<1>1. ASSUME NEW s, IsSeq(s), SentIn(s) \subseteq SentIn(f.out), NEW m,
             m.cmd = "SEND" => m.pkt.code # "ACK", g.out = Append(s, m)
      PROVE  \A x \in SentIn(g.out) : x.code = "ACK" => x \in SentIn(f.out)
  BY <1>1, SentAppend
<1>2. CASE g.out = f.out
  BY <1>2
<1>3. CASE \E m : Aside(m) /\ (m.cmd = "SEND" => m.pkt.code # "ACK") /\ g.out = Append(f.out, m)
  BY <1>1, <1>3
<1>4. CASE \E m : Ending(m) /\ g.out = Append(Stopped(f), m)
  BY <1>1, <1>4, StoppedSent DEF Ending
<1>5. CASE \E m : m.cmd = "SEND" /\ m.pkt.code = "REQ" /\ g.out = Append(Stopped(f), m)
  BY <1>1, <1>5, StoppedSent
<1>6. QED
  BY <1>2, <1>3, <1>4, <1>5 DEF Remarks

LEMMA RemarkSays ==
  ASSUME NEW f, IsSeq(f.out), NEW A, NEW g, Remarks(f, g),
         g.REQID = f.REQID, g.CURID \in {f.CURID, f.CURID + 1}, g.SEND_OPT = f.SEND_OPT,
         Accepting(g) => \/ Accepting(f) /\ g.RECV_NEG = f.RECV_NEG
                         \/ \E a \in A : a.id = f.REQID /\ a.opts = g.RECV_NEG,
         g.STATE \in {ACK_SENT, OPENED} => f.STATE \in {ACK_SENT, OPENED}
  PROVE  Says(f, g, A)
<1>1. Tells(f, g, A)
  BY DEF Tells, Remarks
<1>2. SameWord(f, g)
  BY NoNewAck DEF SameWord
<1>3. QED
  BY <1>1, <1>2 DEF Says, Moved, Agreed

LEMMA AskSays ==
  ASSUME NEW f, IsSeq(f.out), NEW A, NEW g, Asked(f, g),
         g.SEND_OPT \in {f.SEND_OPT, NoOptions},
         g.STATE \in {ACK_SENT, OPENED} =>
            f.STATE \in {ACK_SENT, OPENED} /\ g.SEND_OPT = f.SEND_OPT
  PROVE  Says(f, g, A)
<1>1. SameWord(f, g)
  BY NoNewAck DEF SameWord, Asked
<1>2. QED
  BY <1>1 DEF Says, Moved, Agreed

LEMMA ResetAlike ==
  ASSUME NEW p, NEW f, IsMachine(f)
  PROVE  LET r == ResetOptions(p, f)
         IN  /\ IsMachine(r) /\ r.out = f.out /\ r.STATE = f.STATE
             /\ r.CURID = f.CURID /\ r.REQID = f.REQID
             /\ r.SEND_OPT \in {f.SEND_OPT, NoOptions}
             /\ f.STATE \in {REQ_SENT, ACK_RCVD, ACK_SENT} => r.SEND_OPT = f.SEND_OPT
<1>1. PICK r : r = ResetOptions(p, f)
  OBVIOUS
<1>2. CASE f.STATE <= STOPPING \/ f.STATE >= OPENED
  <2>1. r = [f EXCEPT !.RECV_NEG = Wish(p), !.RECV_OPT = NoOptions,
                      !.SEND_OPT = NoOptions, !.NAKS = 0]
    BY <1>1, <1>2 DEF ResetOptions
  <2>2. PICK w, o : w = Wish(p) /\ o = NoOptions
    OBVIOUS
  <2>3. /\ r.out = f.out /\ r.STATE = f.STATE /\ r.CURID = f.CURID
        /\ r.REQID = f.REQID /\ r.SEND_OPT = o /\ IsMachine(r)
    BY <2>1, <2>2 DEF IsMachine
  <2>4. f.STATE \notin {REQ_SENT, ACK_RCVD, ACK_SENT}
    BY <1>2, StateNumbers
  <2>5. QED
    BY <1>1, <2>2, <2>3, <2>4
<1>3. CASE ~(f.STATE <= STOPPING \/ f.STATE >= OPENED)
  BY <1>3 DEF ResetOptions
<1>4. QED
  BY <1>2, <1>3

\* A request of the machine's next identifier
Question(f, m) == m.cmd = "SEND" /\ m.pkt.code = "REQ" /\ m.pkt.id = f.CURID

LEMMA SendConfReqSays ==
  ASSUME NEW p, NEW f, IsMachine(f), f.CURID \in Nat
  PROVE  LET g == SendConfReq(p, f, TRUE)
         IN  /\ IsMachine(g) /\ g.STATE = f.STATE
             /\ g.REQID = f.CURID /\ g.CURID = f.CURID + 1
             /\ \E m : Question(f, m) /\ g.out = Append(Stopped(f), m)
             /\ g.SEND_OPT \in {f.SEND_OPT, NoOptions}
             /\ f.STATE \in {REQ_SENT, ACK_RCVD, ACK_SENT} => g.SEND_OPT = f.SEND_OPT
<1> DEFINE r == ResetOptions(p, f)
           g == StopTimer(r)
           m == Send(Packet("REQ", g.CURID, g.RECV_NEG), setup.conf)
<1>1. /\ IsMachine(r) /\ r.out = f.out /\ r.STATE = f.STATE
      /\ r.CURID = f.CURID /\ r.REQID = f.REQID
      /\ r.SEND_OPT \in {f.SEND_OPT, NoOptions}
      /\ f.STATE \in {REQ_SENT, ACK_RCVD, ACK_SENT} => r.SEND_OPT = f.SEND_OPT
  BY ResetAlike
<1>2. Stopped(r) = Stopped(f)
  BY <1>1 DEF Stopped
<1> HIDE DEF r
<1>3. /\ g.out = Stopped(f) /\ IsMachine(g) /\ g.STATE = f.STATE
      /\ g.CURID = f.CURID /\ g.SEND_OPT = r.SEND_OPT
  BY <1>1, <1>2, PostSays DEF StopTimer, Stopped
<1> HIDE DEF g
<1>4. PICK i \in Nat : i = f.CURID
  OBVIOUS
<1>5. PICK t : t = [g EXCEPT !.REQID = i]
  OBVIOUS
<1>6. /\ t.REQID = i /\ t.SEND_OPT = g.SEND_OPT /\ t.out = g.out
      /\ t.STATE = g.STATE /\ IsMachine(t)
  BY <1>3, <1>5 DEF IsMachine
<1>7. PICK j : j = i + 1
  OBVIOUS
<1>8. PICK h : h = [t EXCEPT !.CURID = j]
  OBVIOUS
<1>9. /\ h.REQID = i /\ h.CURID = j /\ h.SEND_OPT = g.SEND_OPT /\ h.out = g.out
      /\ h.STATE = g.STATE /\ IsMachine(h)
  BY <1>6, <1>8 DEF IsMachine
<1>10. h = [g EXCEPT !.REQID = g.CURID, !.CURID = @ + 1]
  BY <1>3, <1>4, <1>5, <1>7, <1>8
<1>11. SendConfReq(p, f, TRUE) = Post(h, m)
  BY <1>10 DEF SendConfReq, g, r
<1>12. Question(f, m)
  BY <1>3, SendFacts DEF Packet, Question
<1> HIDE DEF m
<1>13. PICK e : e = Post(h, m)
  OBVIOUS
<1>14. /\ e.out = Append(h.out, m) /\ IsMachine(e) /\ e.SEND_OPT = h.SEND_OPT
       /\ e.CURID = h.CURID /\ e.REQID = h.REQID /\ e.STATE = h.STATE
  BY <1>9, <1>13, PostSays
<1>15. /\ IsMachine(e) /\ e.STATE = f.STATE /\ e.REQID = f.CURID /\ e.CURID = f.CURID + 1
       /\ e.out = Append(Stopped(f), m) /\ e.SEND_OPT = r.SEND_OPT
  BY <1>3, <1>4, <1>7, <1>9, <1>14
<1>16. QED
  BY <1>1, <1>11, <1>12, <1>13, <1>15

\* f as far as the line, the timer and the other end can tell
Likewise(f, h) ==
  Alike(f, h) /\ (Negotiating(h.STATE) <=> Negotiating(f.STATE))

LEMMA BeginSays ==
  ASSUME NEW p, NEW f, Typed(f), NEW A, NEW h, Likewise(f, h)
  PROVE  /\ Says(f, Begin(p, h, TRUE), A) /\ IsMachine(Begin(p, h, TRUE))
         /\ Begin(p, h, TRUE).STATE = REQ_SENT
<1>1. IsSeq(f.out) /\ f.CURID \in Nat
  BY TypedFacts DEF Fielded
<1>2. IsMachine(h) /\ h.CURID = f.CURID /\ Stopped(h) = Stopped(f) /\ h.SEND_OPT = f.SEND_OPT
  BY DEF Likewise, Alike, Stopped
<1>3. PICK t : t = SendConfReq(p, h, TRUE)
  OBVIOUS
<1>4. PICK m : /\ IsMachine(t) /\ t.REQID = f.CURID /\ t.CURID = f.CURID + 1
               /\ Question(h, m) /\ t.out = Append(Stopped(f), m)
               /\ t.SEND_OPT \in {f.SEND_OPT, NoOptions}
  BY <1>1, <1>2, <1>3, SendConfReqSays
<1>5. PICK g : g = Goto(t, REQ_SENT)
  OBVIOUS
<1>6. Alike(t, g) /\ g.STATE = REQ_SENT
  BY <1>4, <1>5, GotoAlike
<1>7. REQ_SENT \notin {ACK_RCVD, ACK_SENT, OPENED}
  BY StateNumbers
<1>8. Asked(f, g)
  BY <1>2, <1>4, <1>6, <1>7 DEF Asked, Alike, Accepting, Question
<1>9. g.SEND_OPT \in {f.SEND_OPT, NoOptions} /\ g.STATE \notin {ACK_SENT, OPENED}
  BY <1>4, <1>6, <1>7 DEF Alike
<1>10. Says(f, g, A)
  BY <1>1, <1>8, <1>9, AskSays
<1>11. QED
  BY <1>3, <1>5, <1>6, <1>10 DEF Begin, Alike

LEMMA SendTermReqSays ==
  ASSUME NEW f, IsMachine(f), f.CURID \in Nat
  PROVE  LET g == SendTermReq(f, TRUE)
         IN  /\ IsMachine(g) /\ g.STATE = f.STATE
             /\ g.REQID = f.REQID /\ g.CURID = f.CURID + 1
             /\ \E m : Ending(m) /\ g.out = Append(Stopped(f), m)
             /\ g.SEND_OPT = f.SEND_OPT
<1> DEFINE g == StopTimer(f)
           m == Send(Packet("TERM_REQ", f.CURID, <<>>), MaxTerm)
<1>1. /\ g.out = Stopped(f) /\ IsMachine(g) /\ g.STATE = f.STATE /\ g.REQID = f.REQID
      /\ g.CURID = f.CURID /\ g.SEND_OPT = f.SEND_OPT
  BY PostSays DEF StopTimer, Stopped
<1> HIDE DEF g
<1>2. PICK j : j = f.CURID + 1
  OBVIOUS
<1>3. PICK h : h = [g EXCEPT !.CURID = j]
  OBVIOUS
<1>4. /\ h.REQID = g.REQID /\ h.CURID = j /\ h.SEND_OPT = g.SEND_OPT /\ h.out = g.out
      /\ h.STATE = g.STATE /\ IsMachine(h)
  BY <1>1, <1>3 DEF IsMachine
<1>5. h = [g EXCEPT !.CURID = @ + 1]
  BY <1>1, <1>2, <1>3
<1>6. SendTermReq(f, TRUE) = Post(h, m)
  BY <1>5 DEF SendTermReq, g
<1>7. Ending(m)
  BY SendFacts DEF Packet, Ending
<1> HIDE DEF m
<1>8. PICK e : e = Post(h, m)
  OBVIOUS
<1>9. /\ e.out = Append(h.out, m) /\ IsMachine(e) /\ e.SEND_OPT = h.SEND_OPT
      /\ e.CURID = h.CURID /\ e.REQID = h.REQID /\ e.STATE = h.STATE
  BY <1>4, <1>8, PostSays
<1>10. QED
  BY <1>1, <1>2, <1>4, <1>6, <1>7, <1>8, <1>9

LEMMA ShutSays ==
  ASSUME NEW f, Typed(f), NEW A, NEW h, Likewise(f, h)
  PROVE  /\ Says(f, Goto(SendTermReq(h, TRUE), CLOSING), A)
         /\ Goto(SendTermReq(h, TRUE), CLOSING).STATE = CLOSING
         /\ IsMachine(Goto(SendTermReq(h, TRUE), CLOSING))
<1>1. IsSeq(f.out) /\ f.CURID \in Nat
  BY TypedFacts DEF Fielded
<1>2. /\ IsMachine(h) /\ h.CURID = f.CURID /\ h.REQID = f.REQID
      /\ Stopped(h) = Stopped(f) /\ h.SEND_OPT = f.SEND_OPT
  BY DEF Likewise, Alike, Stopped
<1>3. PICK t : t = SendTermReq(h, TRUE)
  OBVIOUS
<1>4. PICK m : /\ IsMachine(t) /\ t.REQID = f.REQID /\ t.CURID = f.CURID + 1
               /\ Ending(m) /\ t.out = Append(Stopped(f), m)
               /\ t.SEND_OPT = f.SEND_OPT
  BY <1>1, <1>2, <1>3, SendTermReqSays
<1>5. PICK g : g = Goto(t, CLOSING)
  OBVIOUS
<1>6. Alike(t, g) /\ g.STATE = CLOSING
  BY <1>4, <1>5, GotoAlike
<1>7. CLOSING \notin {ACK_RCVD, ACK_SENT, OPENED}
  BY StateNumbers
<1>8. Remarks(f, g)
  BY <1>4, <1>6 DEF Remarks, Alike
<1>9. ~Accepting(g) /\ g.STATE \notin {ACK_SENT, OPENED}
  BY <1>6, <1>7 DEF Accepting
<1>10. g.REQID = f.REQID /\ g.CURID = f.CURID + 1 /\ g.SEND_OPT = f.SEND_OPT
  BY <1>4, <1>6 DEF Alike
<1>11. Says(f, g, A)
  BY <1>1, <1>8, <1>9, <1>10, RemarkSays
<1>12. QED
  BY <1>3, <1>5, <1>6, <1>11 DEF Alike

LEMMA AlikeSays ==
  ASSUME NEW f, Typed(f), NEW A, NEW h, Alike(f, h),
         Accepting(h) => \/ Accepting(f) /\ h.RECV_NEG = f.RECV_NEG
                         \/ \E a \in A : a.id = f.REQID /\ a.opts = h.RECV_NEG,
         h.STATE \in {ACK_SENT, OPENED} => f.STATE \in {ACK_SENT, OPENED}
  PROVE  Says(f, h, A)
<1>1. IsSeq(f.out)
  BY TypedFacts
<1>2. /\ Remarks(f, h) /\ h.REQID = f.REQID /\ h.CURID \in {f.CURID, f.CURID + 1}
      /\ h.SEND_OPT = f.SEND_OPT
  BY DEF Alike, Remarks
<1>3. QED
  BY <1>1, <1>2, RemarkSays

\* The machine says something on its own, or to the transmit task.
LEMMA PostAlikeSays ==
  ASSUME NEW f, Typed(f), NEW A, NEW h, Alike(f, h), NEW m, Aside(m),
         m.cmd = "SEND" => m.pkt.code # "ACK",
         Accepting(h) => \/ Accepting(f) /\ h.RECV_NEG = f.RECV_NEG
                         \/ \E a \in A : a.id = f.REQID /\ a.opts = h.RECV_NEG,
         h.STATE \in {ACK_SENT, OPENED} => f.STATE \in {ACK_SENT, OPENED}
  PROVE  Says(f, Post(h, m), A) /\ IsMachine(Post(h, m)) /\ Post(h, m).STATE = h.STATE
<1>1. IsSeq(f.out)
  BY TypedFacts
<1>2. PICK g : g = Post(h, m)
  OBVIOUS
<1>3. /\ g.out = Append(h.out, m) /\ IsMachine(g) /\ g.SEND_OPT = h.SEND_OPT
      /\ g.CURID = h.CURID /\ g.REQID = h.REQID /\ g.STATE = h.STATE
      /\ g.RECV_NEG = h.RECV_NEG
  BY <1>2, PostSays DEF Alike
<1>4. /\ Remarks(f, g) /\ g.REQID = f.REQID /\ g.CURID \in {f.CURID, f.CURID + 1}
      /\ g.SEND_OPT = f.SEND_OPT
  BY <1>3 DEF Alike, Remarks
<1>5. /\ Accepting(g) => \/ Accepting(f) /\ g.RECV_NEG = f.RECV_NEG
                         \/ \E a \in A : a.id = f.REQID /\ a.opts = g.RECV_NEG
      /\ g.STATE \in {ACK_SENT, OPENED} => f.STATE \in {ACK_SENT, OPENED}
  BY <1>3 DEF Accepting
<1>6. Says(f, g, A)
  BY <1>1, <1>4, <1>5, RemarkSays
<1>7. QED
  BY <1>2, <1>3, <1>6

LEMMA GotoSays ==
  ASSUME NEW f, Typed(f), NEW A, NEW h, Alike(f, h), NEW s,
         s \notin {ACK_RCVD, ACK_SENT, OPENED}
  PROVE  Says(f, Goto(h, s), A)
<1>1. PICK g : g = Goto(h, s)
  OBVIOUS
<1>2. Alike(f, g) /\ g.STATE = s
  BY <1>1, GotoAlike, AlikeChain DEF Alike
<1>3. ~Accepting(g) /\ g.STATE \notin {ACK_SENT, OPENED}
  BY <1>2 DEF Accepting
<1>4. QED
  BY <1>1, <1>2, <1>3, AlikeSays

LEMMA StaySays ==
  ASSUME NEW f, Typed(f), NEW A
  PROVE  Says(f, f, A)
<1>1. Alike(f, f)
  BY TypedFacts, LinkAlike
<1>2. QED
  BY <1>1, AlikeSays

LEMMA StopIsAside == Aside(Stop) /\ Stop.cmd # "SEND" /\ Aside(Restart) /\ Restart.cmd # "SEND"
BY CountedFacts DEF Aside, IsTimer

LEMMA EndSays ==
  ASSUME NEW f, Typed(f), NEW A, NEW s, s \notin {ACK_RCVD, ACK_SENT, OPENED}
  PROVE  /\ Says(f, Post(Goto(f, s), Stop), A)
         /\ Says(f, Goto(Post(f, Stop), s), A)
<1>1. IsMachine(f) /\ IsSeq(f.out)
  BY TypedFacts
<1>2. PICK h : h = Goto(f, s)
  OBVIOUS
<1>3. Alike(f, h) /\ h.STATE = s
  BY <1>1, <1>2, GotoAlike
<1>4. ~Accepting(h) /\ h.STATE \notin {ACK_SENT, OPENED}
  BY <1>3 DEF Accepting
<1>5. Says(f, Post(h, Stop), A)
  BY <1>3, <1>4, StopIsAside, PostAlikeSays
<1>6. PICK t : t = Post(f, Stop)
  OBVIOUS
<1>7. /\ t.out = Append(f.out, Stop) /\ IsMachine(t) /\ t.SEND_OPT = f.SEND_OPT
      /\ t.CURID = f.CURID /\ t.REQID = f.REQID
  BY <1>1, <1>6, PostSays
<1>8. PICK g : g = Goto(t, s)
  OBVIOUS
<1>9. Alike(t, g) /\ g.STATE = s
  BY <1>7, <1>8, GotoAlike
<1>10. /\ Remarks(f, g) /\ g.REQID = f.REQID /\ g.CURID \in {f.CURID, f.CURID + 1}
       /\ g.SEND_OPT = f.SEND_OPT
  BY <1>7, <1>9, StopIsAside DEF Alike, Remarks
<1>11. ~Accepting(g) /\ g.STATE \notin {ACK_SENT, OPENED}
  BY <1>9 DEF Accepting
<1>12. Says(f, g, A)
  BY <1>1, <1>10, <1>11, RemarkSays
<1>13. QED
  BY <1>2, <1>5, <1>6, <1>8, <1>12

\* A terminate acknowledgement that is not awaited
LEMMA TermAckSays ==
  ASSUME NEW f, Typed(f), NEW A, NEW h, Alike(f, h), NEW m,
         Accepting(h) => Accepting(f) /\ h.RECV_NEG = f.RECV_NEG,
         h.STATE \in {ACK_SENT, OPENED} => f.STATE \in {ACK_SENT, OPENED}
  PROVE  Says(f, SendTermAck(h, m, FALSE), A)
<1>1. PICK t : t = Send(Packet("TERM_ACK", m.id, <<>>), 0)
  OBVIOUS
<1>2. Aside(t) /\ t.pkt.code # "ACK"
  BY <1>1, SendFacts DEF Aside, IsTimer, Packet
<1>3. SendTermAck(h, m, FALSE) = Post(h, t)
  BY <1>1 DEF SendTermAck
<1>4. Accepting(h) => \/ Accepting(f) /\ h.RECV_NEG = f.RECV_NEG
                      \/ \E a \in A : a.id = f.REQID /\ a.opts = h.RECV_NEG
  OBVIOUS
<1>5. Says(f, Post(h, t), A)
  BY <1>2, <1>4, PostAlikeSays, Zenon
<1>6. QED
  BY <1>3, <1>5

-----------------------------------------------------------------------------
(* The handlers, one by one.                                               *)

LEMMA LikewiseFacts ==
  ASSUME NEW f, Typed(f)
  PROVE  /\ Likewise(f, f) /\ Likewise(f, LinkDown(f))
         /\ Alike(f, f) /\ Alike(f, LinkDown(f))
BY TypedFacts, LinkAlike DEF Likewise

LEMMA LowerUpSays ==
  ASSUME NEW p, NEW f, Typed(f), NEW A
  PROVE  Says(f, LowerUp(p, f, TRUE), A)
<1>1. f.STATE \in States /\ Likewise(f, f) /\ Alike(f, f)
  BY TypedFacts, LikewiseFacts
<1>2. CASE f.STATE = INITIAL \/ f.STATE = STARTING
  <2>1. LowerUp(p, f, TRUE) \in {Goto(f, CLOSED), Goto(f, STOPPED), Begin(p, f, TRUE)}
    BY <1>2, StateNumbers DEF LowerUp
  <2>2. {CLOSED, STOPPED} \cap {ACK_RCVD, ACK_SENT, OPENED} = {}
    BY StateNumbers
  <2>3. Says(f, Goto(f, CLOSED), A) /\ Says(f, Goto(f, STOPPED), A)
    BY <1>1, <2>2, GotoSays
  <2>4. QED
    BY <1>1, <2>1, <2>3, BeginSays
<1>3. CASE f.STATE # INITIAL /\ f.STATE # STARTING
  BY <1>3, StaySays DEF LowerUp
<1>4. QED
  BY <1>2, <1>3

LEMMA LowerDownSays ==
  ASSUME NEW p, NEW f, Typed(f), NEW A
  PROVE  Says(f, LowerDown(p, f), A)
<1>1. f.STATE \in States /\ Alike(f, f) /\ Alike(f, LinkDown(f))
  BY TypedFacts, LikewiseFacts
<1>2. {INITIAL, STARTING} \cap {ACK_RCVD, ACK_SENT, OPENED} = {}
  BY StateNumbers
<1>3. CASE f.STATE \in {CLOSED, STOPPED, OPENED}
  <2>1. LowerDown(p, f) \in {Goto(f, INITIAL), Goto(f, STARTING),
                             Goto(LinkDown(f), STARTING)}
    BY <1>3, StateNumbers DEF LowerDown
  <2>2. QED
    BY <1>1, <1>2, <2>1, GotoSays
<1>4. CASE f.STATE \in {CLOSING, STOPPING, REQ_SENT, ACK_RCVD, ACK_SENT}
  <2>1. LowerDown(p, f) \in {Post(Goto(f, INITIAL), Stop), Post(Goto(f, STARTING), Stop)}
    BY <1>4, StateNumbers DEF LowerDown
  <2>2. QED
    BY <1>2, <2>1, EndSays
<1>5. CASE f.STATE \in {INITIAL, STARTING}
  <2>1. LowerDown(p, f) = f
    BY <1>5, StateNumbers DEF LowerDown
  <2>2. QED
    BY <2>1, StaySays
<1>6. QED
  BY <1>1, <1>3, <1>4, <1>5, StateNumbers

LEMMA CloseSays ==
  ASSUME NEW p, NEW f, Typed(f), NEW A
  PROVE  Says(f, Close(p, f, TRUE), A)
<1>1. f.STATE \in States /\ Likewise(f, f) /\ Likewise(f, LinkDown(f)) /\ Alike(f, f)
  BY TypedFacts, LikewiseFacts
<1>2. {INITIAL, CLOSED, CLOSING} \cap {ACK_RCVD, ACK_SENT, OPENED} = {}
  BY StateNumbers
<1>3. CASE f.STATE \in {STARTING, STOPPED, STOPPING}
  <2>1. Close(p, f, TRUE) \in {Goto(f, INITIAL), Goto(f, CLOSED), Goto(f, CLOSING)}
    <3>1. PICK packet : packet = TRUE
      OBVIOUS
    <3>2. Close(p, f, packet) \in {Goto(f, INITIAL), Goto(f, CLOSED), Goto(f, CLOSING)}
      BY <1>3, StateNumbers DEF Close
    <3>3. QED
      BY <3>1, <3>2, Zenon
  <2>2. QED
    BY <1>1, <1>2, <2>1, GotoSays
<1>4. CASE f.STATE \in {REQ_SENT, ACK_RCVD, ACK_SENT, OPENED}
  <2>1. Close(p, f, TRUE) \in {Goto(SendTermReq(f, TRUE), CLOSING), Goto(SendTermReq(LinkDown(f), TRUE), CLOSING)}
    <3>1. PICK packet : packet = TRUE
      OBVIOUS
    <3>2. Close(p, f, packet) \in {Goto(SendTermReq(f, packet), CLOSING), Goto(SendTermReq(LinkDown(f), packet), CLOSING)}
      BY <1>4, StateNumbers DEF Close
    <3>3. QED
      BY <3>1, <3>2, Zenon
  <2>2. QED
    BY <1>1, <2>1, ShutSays
<1>5. CASE f.STATE \in {INITIAL, CLOSED, CLOSING}
  <2>1. Close(p, f, TRUE) = f
    <3>1. PICK packet : packet = TRUE
      OBVIOUS
    <3>2. Close(p, f, packet) = f
      BY <1>5, StateNumbers DEF Close
    <3>3. QED
      BY <3>1, <3>2, Zenon
  <2>2. QED
    BY <2>1, StaySays
<1>6. \/ f.STATE \in {STARTING, STOPPED, STOPPING}
      \/ f.STATE \in {REQ_SENT, ACK_RCVD, ACK_SENT, OPENED}
      \/ f.STATE \in {INITIAL, CLOSED, CLOSING}
  BY <1>1, StateNumbers
<1>7. QED
  BY <1>3, <1>4, <1>5, <1>6, Zenon

LEMMA OpenSays ==
  ASSUME NEW p, NEW f, Typed(f), NEW options, NEW A
  PROVE  Says(f, Open(p, f, TRUE, options), A)
<1> DEFINE g == [f EXCEPT !.OPTIONS = options]
           h == IF g.STATE = CLOSING THEN Goto(g, STOPPING) ELSE g
<1>1. Alike(f, g) /\ IsMachine(g) /\ g.STATE = f.STATE /\ g.RECV_NEG = f.RECV_NEG
  BY TypedFacts, OptionsAlike DEF Alike
<1> HIDE DEF g
<1>2. Likewise(f, g) /\ f.STATE \in States
  BY <1>1, TypedFacts DEF Likewise
<1>3. /\ Alike(f, h) /\ h.RECV_NEG = f.RECV_NEG
      /\ (h.STATE = IF f.STATE = CLOSING THEN STOPPING ELSE f.STATE)
  BY <1>1, GotoAlike, AlikeChain
<1> HIDE DEF h
<1>4. Likewise(f, h)
  BY <1>3, NegotiatingStates DEF Likewise
<1>5. Likewise(f, LinkDown(g))
  <2>1. Alike(g, LinkDown(g)) /\ LinkDown(g).STATE = g.STATE
    BY <1>1, LinkAlike
  <2>2. QED
    BY <1>1, <2>1, AlikeChain DEF Likewise
<1>6. CASE f.STATE \in {INITIAL, CLOSED}
  <2>1. Open(p, f, TRUE, options) \in {Goto(g, STARTING), Goto(g, STOPPED), Begin(p, g, TRUE)}
    <3>1. PICK packet : packet = TRUE
      OBVIOUS
    <3>2. CASE f.STATE = INITIAL
      <4>1. Open(p, f, packet, options) = Goto(g, STARTING)
        BY <1>1, <3>2, StateNumbers DEF Open, g
      <4>2. QED
        BY <3>1, <4>1, Zenon
    <3>3. CASE f.STATE = CLOSED
      <4>1. Open(p, f, packet, options) \in {Goto(g, STOPPED), Begin(p, g, packet)}
        BY <1>1, <3>3, StateNumbers DEF Open, g
      <4>2. QED
        BY <3>1, <4>1, Zenon
    <3>4. QED
      BY <1>6, <3>2, <3>3
  <2>2. {STARTING, STOPPED} \cap {ACK_RCVD, ACK_SENT, OPENED} = {}
    BY StateNumbers
  <2>3. Says(f, Goto(g, STARTING), A) /\ Says(f, Goto(g, STOPPED), A)
    BY <1>1, <2>2, GotoSays
  <2>4. QED
    BY <1>2, <2>1, <2>3, BeginSays
<1>7. ASSUME f.STATE \notin {INITIAL, CLOSED}
      PROVE  Open(p, f, TRUE, options) \in {Begin(p, h, TRUE), Begin(p, LinkDown(g), TRUE), h}
  BY <1>1, <1>7 DEF Open, g, h
<1>8. Says(f, h, A)
  <2>1. /\ h.STATE \in {ACK_SENT, OPENED} => f.STATE \in {ACK_SENT, OPENED}
        /\ Accepting(h) => Accepting(f) /\ h.RECV_NEG = f.RECV_NEG
    BY <1>3, StateNumbers DEF Accepting
  <2>2. QED
    BY <1>3, <2>1, AlikeSays
<1>9. QED
  BY <1>4, <1>5, <1>6, <1>7, <1>8, BeginSays

LEMMA RecvTermReqSays ==
  ASSUME NEW p, NEW f, Typed(f), NEW m, NEW A
  PROVE  Says(f, RecvTermReq(p, f, m), A)
<1>1. /\ f.STATE \in States /\ Alike(f, f) /\ Alike(f, LinkDown(f)) /\ IsMachine(f)
      /\ IsSeq(f.out)
  BY TypedFacts, LikewiseFacts
<1>2. CASE f.STATE \in {ACK_RCVD, ACK_SENT}
  <2>1. PICK h : h = Goto(f, REQ_SENT)
    OBVIOUS
  <2>2. Alike(f, h) /\ h.STATE = REQ_SENT /\ h.RECV_NEG = f.RECV_NEG
    BY <1>1, <2>1, GotoAlike
  <2>3. ~Accepting(h) /\ h.STATE \notin {ACK_SENT, OPENED}
    BY <2>2, StateNumbers DEF Accepting
  <2>4. RecvTermReq(p, f, m) = SendTermAck(h, m, FALSE)
    <3>1. CASE f.STATE = ACK_RCVD
      BY <2>1, <3>1, StateNumbers DEF RecvTermReq
    <3>2. CASE f.STATE = ACK_SENT
      BY <2>1, <3>2, StateNumbers DEF RecvTermReq
    <3>3. QED
      BY <1>2, <3>1, <3>2
  <2>5. Says(f, SendTermAck(h, m, FALSE), A)
    BY <2>2, <2>3, TermAckSays
  <2>6. QED
    BY <2>4, <2>5
<1>3. CASE f.STATE = OPENED
  <2>1. PICK h : h = LinkDown(f)
    OBVIOUS
  <2>2. PICK x : x = Send(Packet("TERM_ACK", m.id, <<>>), 1)
    OBVIOUS
  <2>3. PICK t : t = Post(h, x)
    OBVIOUS
  <2>4. /\ t.out = Append(f.out, x) /\ IsMachine(t) /\ t.SEND_OPT = f.SEND_OPT
        /\ t.CURID = f.CURID /\ t.REQID = f.REQID
    BY <1>1, <2>1, <2>3, PostSays DEF Alike
  <2>5. PICK g : g = Goto(t, STOPPING)
    OBVIOUS
  <2>6. Alike(t, g) /\ g.STATE = STOPPING
    BY <2>4, <2>5, GotoAlike
  <2>7. Ending(x)
    BY <2>2, SendFacts DEF Ending, Packet
  <2>8. Stopped(f) = f.out
    BY <1>3, NegotiatingStates DEF Stopped
  <2>9. /\ Remarks(f, g) /\ g.REQID = f.REQID /\ g.CURID \in {f.CURID, f.CURID + 1}
        /\ g.SEND_OPT = f.SEND_OPT
    BY <2>4, <2>6, <2>7, <2>8 DEF Remarks, Alike
  <2>10. ~Accepting(g) /\ g.STATE \notin {ACK_SENT, OPENED}
    BY <2>6, StateNumbers DEF Accepting
  <2>11. Says(f, g, A)
    BY <1>1, <2>9, <2>10, RemarkSays
  <2>12. RecvTermReq(p, f, m) = g
    BY <1>3, <2>1, <2>2, <2>3, <2>5, StateNumbers DEF RecvTermReq, SendTermAck
  <2>13. QED
    BY <2>11, <2>12
<1>4. CASE f.STATE \notin {ACK_RCVD, ACK_SENT, OPENED}
  <2>1. RecvTermReq(p, f, m) = SendTermAck(f, m, FALSE)
    BY <1>4 DEF RecvTermReq
  <2>2. QED
    BY <1>1, <1>4, <2>1, TermAckSays
<1>5. QED
  BY <1>2, <1>3, <1>4

LEMMA RecvTermAckSays ==
  ASSUME NEW p, NEW f, Typed(f), NEW m, NEW A
  PROVE  Says(f, RecvTermAck(p, f, m), A)
<1>1. f.STATE \in States /\ Alike(f, f) /\ Likewise(f, LinkDown(f))
  BY TypedFacts, LikewiseFacts
<1>2. CASE f.STATE \in {CLOSING, STOPPING}
  <2>1. PICK s : s = f.STATE - 2
    OBVIOUS
  <2>2. s \notin {ACK_RCVD, ACK_SENT, OPENED}
    BY <1>2, <2>1, StateNumbers
  <2>3. f.STATE # ACK_RCVD /\ f.STATE # OPENED
    BY <1>2, StateNumbers
  <2>4. RecvTermAck(p, f, m) = Goto(Post(f, Stop), s)
    BY <1>2, <2>1, <2>3, Zenon DEF RecvTermAck
  <2>5. QED
    BY <2>2, <2>4, EndSays
<1>3. CASE f.STATE = ACK_RCVD
  <2>1. RecvTermAck(p, f, m) = Goto(f, REQ_SENT)
    BY <1>3, StateNumbers DEF RecvTermAck
  <2>2. REQ_SENT \notin {ACK_RCVD, ACK_SENT, OPENED}
    BY StateNumbers
  <2>3. QED
    BY <1>1, <2>1, <2>2, GotoSays
<1>4. CASE f.STATE = OPENED
  <2>1. RecvTermAck(p, f, m) = Begin(p, LinkDown(f), TRUE)
    BY <1>4, StateNumbers DEF RecvTermAck
  <2>2. QED
    BY <1>1, <2>1, BeginSays
<1>5. CASE f.STATE \notin {CLOSING, STOPPING, ACK_RCVD, OPENED}
  BY <1>5, StaySays DEF RecvTermAck
<1>6. QED
  BY <1>2, <1>3, <1>4, <1>5

LEMMA RecvConfNakSays ==
  ASSUME NEW p, NEW f, Typed(f), NEW m, NEW A
  PROVE  Says(f, RecvConfNak(p, f, m), A)
<1> DEFINE g == IF f.STATE < OPENED THEN [f EXCEPT !.RECV_NEG = Revised(p, @, m)] ELSE f
<1>1. /\ f.STATE \in States /\ IsMachine(f) /\ IsSeq(f.out) /\ f.CURID \in Nat
  BY TypedFacts DEF Fielded
<1>2. Alike(f, g) /\ g.STATE = f.STATE
  <2>1. CASE f.STATE < OPENED
    <3>1. PICK u : u = Revised(p, f.RECV_NEG, m)
      OBVIOUS
    <3>2. g = [f EXCEPT !.RECV_NEG = u]
      BY <2>1, <3>1
    <3> HIDE DEF g
    <3>3. QED
      BY <1>1, <3>2, ReceivedAlike
  <2>2. CASE ~(f.STATE < OPENED)
    BY <2>2, LikewiseFacts
  <2>3. QED
    BY <2>1, <2>2
<1> HIDE DEF g
<1>3. Likewise(f, g) /\ IsMachine(g)
  BY <1>2 DEF Likewise, Alike
<1>4. Likewise(f, LinkDown(g))
  <2>1. Alike(g, LinkDown(g)) /\ LinkDown(g).STATE = g.STATE
    BY <1>3, LinkAlike
  <2>2. QED
    BY <1>2, <2>1, AlikeChain DEF Likewise
<1>5. CASE f.STATE \in {CLOSED, STOPPED}
  <2>1. RecvConfNak(p, f, m) = SendTermAck(g, m, FALSE)
    <3>1. CASE f.STATE = CLOSED
      BY <3>1, StateNumbers DEF RecvConfNak, g
    <3>2. CASE f.STATE = STOPPED
      BY <3>2, StateNumbers DEF RecvConfNak, g
    <3>3. QED
      BY <1>5, <3>1, <3>2
  <2>2. ~Accepting(g) /\ g.STATE \notin {ACK_SENT, OPENED}
    BY <1>2, <1>5, StateNumbers DEF Accepting
  <2>3. QED
    BY <1>2, <2>1, <2>2, TermAckSays
<1>6. CASE f.STATE \in {REQ_SENT, ACK_SENT}
  <2>1. PICK h : h = SendConfReq(p, g, TRUE)
    OBVIOUS
  <2>2. g.CURID = f.CURID /\ g.SEND_OPT = f.SEND_OPT /\ Stopped(g) = Stopped(f)
    BY <1>2 DEF Alike, Stopped
  <2>3. PICK x : /\ h.STATE = g.STATE /\ h.REQID = f.CURID /\ h.CURID = f.CURID + 1
                 /\ Question(g, x) /\ h.out = Append(Stopped(f), x)
                 /\ g.STATE \in {REQ_SENT, ACK_RCVD, ACK_SENT} => h.SEND_OPT = f.SEND_OPT
    <3>1. IsMachine(g) /\ g.CURID \in Nat
      BY <1>1, <1>3, <2>2
    <3>2. PICK x : Question(g, x) /\ SendConfReq(p, g, TRUE).out = Append(Stopped(g), x)
      BY <3>1, SendConfReqSays, Zenon
    <3>3. /\ SendConfReq(p, g, TRUE).STATE = g.STATE
          /\ SendConfReq(p, g, TRUE).REQID = g.CURID
          /\ SendConfReq(p, g, TRUE).CURID = g.CURID + 1
      BY <3>1, SendConfReqSays, Zenon
    <3>4. g.STATE \in {REQ_SENT, ACK_RCVD, ACK_SENT}
            => SendConfReq(p, g, TRUE).SEND_OPT = g.SEND_OPT
      BY <3>1, SendConfReqSays, Zenon
    <3>5. QED
      BY <2>1, <2>2, <3>2, <3>3, <3>4, Zenon
  <2>4. h.STATE = f.STATE /\ h.SEND_OPT = f.SEND_OPT /\ ~Accepting(h)
    BY <1>2, <1>6, <2>3, StateNumbers DEF Accepting
  <2>5. Asked(f, h)
    BY <2>2, <2>3, <2>4 DEF Asked, Question
  <2>6. Says(f, h, A)
    BY <1>1, <2>4, <2>5, AskSays
  <2>7. RecvConfNak(p, f, m) = h
    <3>1. CASE f.STATE = REQ_SENT
      BY <1>2, <2>1, <3>1, StateNumbers DEF RecvConfNak, g
    <3>2. CASE f.STATE = ACK_SENT
      BY <1>2, <2>1, <3>2, StateNumbers DEF RecvConfNak, g
    <3>3. QED
      BY <1>6, <3>1, <3>2
  <2>8. QED
    BY <2>6, <2>7
<1>7. CASE f.STATE \in {ACK_RCVD, OPENED}
  <2>1. RecvConfNak(p, f, m) \in {Begin(p, g, TRUE), Begin(p, LinkDown(g), TRUE)}
    <3>1. CASE f.STATE = ACK_RCVD
      BY <3>1, StateNumbers DEF RecvConfNak, g
    <3>2. CASE f.STATE = OPENED
      BY <3>2, StateNumbers DEF RecvConfNak, g
    <3>3. QED
      BY <1>7, <3>1, <3>2
  <2>2. QED
    BY <1>3, <1>4, <2>1, BeginSays
<1>8. CASE f.STATE \notin {CLOSED, STOPPED, REQ_SENT, ACK_SENT, ACK_RCVD, OPENED}
  <2>1. RecvConfNak(p, f, m) = g
    BY <1>2, <1>8 DEF RecvConfNak, g
  <2>2. ~Accepting(g) /\ g.STATE \notin {ACK_SENT, OPENED}
    BY <1>2, <1>8 DEF Accepting
  <2>3. QED
    BY <1>2, <2>1, <2>2, AlikeSays
<1>9. QED
  BY <1>5, <1>6, <1>7, <1>8

\* The machine comes up with the acknowledgement it has, or gives up.
LEMMA UpSays ==
  ASSUME NEW p, NEW f, Typed(f), NEW A, NEW h, Likewise(f, h), h.RECV_NEG = f.RECV_NEG,
         \/ Accepting(f)
         \/ \E a \in A : a.id = f.REQID /\ a.opts = f.RECV_NEG
  PROVE  LET g == Up(p, h, TRUE)
         IN  /\ Moved(f, g, A) /\ IsMachine(g) /\ g.SEND_OPT = f.SEND_OPT
             /\ g.STATE \in {OPENED, CLOSING}
             /\ \A x \in SentIn(g.out) : x.code = "ACK" => x \in SentIn(f.out)
<1>1. IsSeq(f.out) /\ f.CURID \in Nat
  BY TypedFacts DEF Fielded
<1>2. ASSUME NEW g, Remarks(f, g), g.REQID = f.REQID, g.CURID \in {f.CURID, f.CURID + 1},
             ~Accepting(g) \/ g.RECV_NEG = f.RECV_NEG
      PROVE  /\ Moved(f, g, A)
             /\ \A x \in SentIn(g.out) : x.code = "ACK" => x \in SentIn(f.out)
  <2>1. Tells(f, g, A)
    BY <1>2 DEF Tells, Remarks
  <2>2. QED
    BY <1>1, <1>2, <2>1, NoNewAck DEF Moved
<1>3. CASE Admits(p, h)
  <2>1. PICK t : t = LinkUp(h)
    OBVIOUS
  <2>2. Alike(h, t) /\ t.RECV_NEG = h.RECV_NEG /\ IsMachine(t)
    BY <2>1, LinkAlike DEF Likewise, Alike
  <2>3. PICK a : a = Goto(t, OPENED)
    OBVIOUS
  <2>4. Alike(t, a) /\ a.RECV_NEG = f.RECV_NEG /\ a.STATE = OPENED
    BY <2>2, <2>3, GotoAlike
  <2>5. Alike(f, a)
    BY <2>2, <2>4, AlikeChain DEF Likewise
  <2>6. PICK g : g = Post(a, Stop)
    OBVIOUS
  <2>7. /\ g.out = Append(f.out, Stop) /\ IsMachine(g) /\ g.SEND_OPT = f.SEND_OPT
        /\ g.CURID = f.CURID /\ g.REQID = f.REQID /\ g.STATE = OPENED
        /\ g.RECV_NEG = f.RECV_NEG
    BY <2>4, <2>5, <2>6, PostSays DEF Alike
  <2>8. Remarks(f, g)
    BY <2>7, StopIsAside DEF Remarks
  <2>9. /\ Moved(f, g, A)
        /\ \A x \in SentIn(g.out) : x.code = "ACK" => x \in SentIn(f.out)
    BY <1>2, <2>7, <2>8
  <2>10. Up(p, h, TRUE) = g
    BY <1>3, <2>1, <2>3, <2>6 DEF Up
  <2>11. QED
    BY <2>7, <2>9, <2>10
<1>4. CASE ~Admits(p, h)
  <2>1. PICK t : t = SendTermReq(h, TRUE)
    OBVIOUS
  <2>2. /\ IsMachine(h) /\ h.CURID = f.CURID /\ h.REQID = f.REQID
        /\ Stopped(h) = Stopped(f) /\ h.SEND_OPT = f.SEND_OPT
    BY DEF Likewise, Alike, Stopped
  <2>3. PICK m : /\ IsMachine(t) /\ t.REQID = f.REQID /\ t.CURID = f.CURID + 1
                 /\ Ending(m) /\ t.out = Append(Stopped(f), m)
                 /\ t.SEND_OPT = f.SEND_OPT
    BY <1>1, <2>1, <2>2, SendTermReqSays
  <2>4. PICK g : g = Goto(t, CLOSING)
    OBVIOUS
  <2>5. Alike(t, g) /\ g.STATE = CLOSING
    BY <2>3, <2>4, GotoAlike
  <2>6. Remarks(f, g) /\ ~Accepting(g)
    BY <2>3, <2>5, StateNumbers DEF Remarks, Alike, Accepting
  <2>7. /\ g.REQID = f.REQID /\ g.CURID = f.CURID + 1 /\ g.SEND_OPT = f.SEND_OPT
        /\ IsMachine(g)
    BY <2>3, <2>5 DEF Alike
  <2>8. /\ Moved(f, g, A)
        /\ \A x \in SentIn(g.out) : x.code = "ACK" => x \in SentIn(f.out)
    BY <1>2, <2>6, <2>7
  <2>9. Up(p, h, TRUE) = g
    BY <1>4, <2>1, <2>4 DEF Up
  <2>10. QED
    BY <2>5, <2>7, <2>8, <2>9
<1>5. QED
  BY <1>3, <1>4

LEMMA RecvConfAckSays ==
  ASSUME NEW p, NEW f, Typed(f), NEW A, NEW m \in A, IsForUs(f, m), m.code = "ACK",
         m.opts # Nothing
  PROVE  Says(f, RecvConfAck(p, f, m), A)
<1> DEFINE g == Acknowledged(f, m)
<1>1. /\ f.STATE \in States /\ IsMachine(f) /\ IsSeq(f.out) /\ f.CURID \in Nat
      /\ Likewise(f, f)
  BY TypedFacts, LikewiseFacts DEF Fielded
<1>2. Alike(f, g) /\ g.STATE = f.STATE /\ g.RECV_NEG = f.RECV_NEG
  <2>1. PICK u : u = [id |-> m.id, opts |-> m.opts]
    OBVIOUS
  <2>2. PICK h : h = [f EXCEPT !.RECV_OPT = u]
    OBVIOUS
  <2>3. Alike(f, h) /\ h.STATE = f.STATE /\ h.RECV_NEG = f.RECV_NEG
    BY <1>1, <2>2, ReceivedAlike
  <2>4. g \in {h, f}
    BY <2>1, <2>2 DEF Acknowledged
  <2>5. QED
    BY <1>1, <2>3, <2>4 DEF Likewise
<1> HIDE DEF g
<1>3. Likewise(f, g) /\ IsMachine(g)
  BY <1>2 DEF Likewise, Alike
<1>4. Likewise(f, LinkDown(g))
  <2>1. Alike(g, LinkDown(g)) /\ LinkDown(g).STATE = g.STATE
    BY <1>3, LinkAlike
  <2>2. QED
    BY <1>2, <2>1, AlikeChain DEF Likewise
<1>5. \E a \in A : a.id = f.REQID /\ a.opts = f.RECV_NEG
  BY DEF IsForUs
<1>6. CASE f.STATE \in {CLOSED, STOPPED}
  <2>1. RecvConfAck(p, f, m) = SendTermAck(g, m, FALSE)
    <3>1. CASE f.STATE = CLOSED
      BY <3>1, StateNumbers DEF RecvConfAck, g
    <3>2. CASE f.STATE = STOPPED
      BY <3>2, StateNumbers DEF RecvConfAck, g
    <3>3. QED
      BY <1>6, <3>1, <3>2
  <2>2. ~Accepting(g) /\ g.STATE \notin {ACK_SENT, OPENED}
    BY <1>2, <1>6, StateNumbers DEF Accepting
  <2>3. QED
    BY <1>2, <2>1, <2>2, TermAckSays
<1>7. CASE f.STATE = REQ_SENT
  <2>1. PICK t : t = Goto(g, ACK_RCVD)
    OBVIOUS
  <2>2. Alike(f, t) /\ t.STATE = ACK_RCVD /\ t.RECV_NEG = f.RECV_NEG
    BY <1>2, <1>3, <2>1, GotoAlike, AlikeChain
  <2>3. \E a \in A : a.id = f.REQID /\ a.opts = t.RECV_NEG
    BY <1>5, <2>2
  <2>4. t.STATE \notin {ACK_SENT, OPENED}
    BY <2>2, StateNumbers
  <2>5. Says(f, Post(t, Restart), A)
    BY <2>2, <2>3, <2>4, StopIsAside, PostAlikeSays
  <2>6. RecvConfAck(p, f, m) = Post(t, Restart)
    BY <1>7, <2>1, StateNumbers DEF RecvConfAck, g
  <2>7. QED
    BY <2>5, <2>6
<1>8. CASE f.STATE = ACK_SENT
  <2>1. PICK h : h = Up(p, g, TRUE)
    OBVIOUS
  <2>2. /\ Moved(f, h, A) /\ h.SEND_OPT = f.SEND_OPT
        /\ \A x \in SentIn(h.out) : x.code = "ACK" => x \in SentIn(f.out)
    <3>1. g.RECV_NEG = f.RECV_NEG /\ Likewise(f, g)
      BY <1>2, <1>3
    <3>2. Accepting(f) \/ \E a \in A : a.id = f.REQID /\ a.opts = f.RECV_NEG
      BY <1>5
    <3>3. LET u == Up(p, g, TRUE)
          IN  /\ Moved(f, u, A) /\ IsMachine(u) /\ u.SEND_OPT = f.SEND_OPT
              /\ u.STATE \in {OPENED, CLOSING}
              /\ \A x \in SentIn(u.out) : x.code = "ACK" => x \in SentIn(f.out)
      BY <3>1, <3>2, UpSays
    <3>4. QED
      BY <2>1, <3>3, Zenon
  <2>3. /\ f.STATE \notin {CLOSED, STOPPED} /\ f.STATE # REQ_SENT
        /\ f.STATE # ACK_RCVD /\ f.STATE # OPENED
    BY <1>8, StateNumbers
  <2>4. RecvConfAck(p, f, m) = h
    BY <1>8, <2>1, <2>3, Zenon DEF RecvConfAck, g
  <2>5. QED
    BY <1>8, <2>2, <2>4 DEF Says, SameWord, Agreed
<1>9. CASE f.STATE = ACK_RCVD
  <2>1. RecvConfAck(p, f, m) = Begin(p, g, TRUE)
    BY <1>9, StateNumbers DEF RecvConfAck, g
  <2>2. QED
    BY <1>3, <2>1, BeginSays
<1>10. CASE f.STATE = OPENED
  <2>1. RecvConfAck(p, f, m) = Begin(p, LinkDown(g), TRUE)
    BY <1>10, StateNumbers DEF RecvConfAck, g
  <2>2. QED
    BY <1>4, <2>1, BeginSays
<1>11. CASE f.STATE \notin {CLOSED, STOPPED, REQ_SENT, ACK_SENT, ACK_RCVD, OPENED}
  <2>1. RecvConfAck(p, f, m) = g
    BY <1>11 DEF RecvConfAck, g
  <2>2. ~Accepting(g) /\ g.STATE \notin {ACK_SENT, OPENED}
    BY <1>2, <1>11 DEF Accepting
  <2>3. QED
    BY <1>2, <2>1, <2>2, AlikeSays
<1>12. QED
  BY <1>6, <1>7, <1>8, <1>9, <1>10, <1>11

LEMMA TimeoutSays ==
  ASSUME NEW f, Typed(f), NEW hard \in BOOLEAN, NEW A
  PROVE  Says(f, Timeout(f, hard), A)
<1>1. f.STATE \in States /\ Alike(f, f)
  BY TypedFacts, LikewiseFacts
<1>2. PICK g : g = Timeout(f, hard)
  OBVIOUS
<1>3. CASE f.STATE \in {CLOSING, STOPPING} /\ hard
  <2>1. PICK s : s = f.STATE - 2
    OBVIOUS
  <2>2. s \notin {ACK_RCVD, ACK_SENT, OPENED}
    BY <1>3, <2>1, StateNumbers
  <2>3. g = Goto(f, s)
    BY <1>2, <1>3, <2>1, StateNumbers DEF Timeout
  <2>4. QED
    BY <1>1, <1>2, <2>2, <2>3, GotoSays
<1>4. CASE f.STATE \in {REQ_SENT, ACK_RCVD, ACK_SENT} /\ hard
  <2>1. g = Goto(f, STOPPED)
    BY <1>2, <1>4, StateNumbers DEF Timeout
  <2>2. STOPPED \notin {ACK_RCVD, ACK_SENT, OPENED}
    BY StateNumbers
  <2>3. QED
    BY <1>1, <1>2, <2>1, <2>2, GotoSays
<1>5. CASE f.STATE = ACK_RCVD /\ ~hard
  <2>1. g = Goto(f, REQ_SENT)
    BY <1>2, <1>5, StateNumbers DEF Timeout
  <2>2. REQ_SENT \notin {ACK_RCVD, ACK_SENT, OPENED}
    BY StateNumbers
  <2>3. QED
    BY <1>1, <1>2, <2>1, <2>2, GotoSays
<1>6. CASE /\ ~(f.STATE \in {CLOSING, STOPPING} /\ hard)
           /\ ~(f.STATE \in {REQ_SENT, ACK_RCVD, ACK_SENT} /\ hard)
           /\ ~(f.STATE = ACK_RCVD /\ ~hard)
  <2>1. g = f
    BY <1>1, <1>2, <1>6, StateNumbers DEF Timeout
  <2>2. QED
    BY <1>2, <2>1, StaySays
<1>7. QED
  BY <1>3, <1>4, <1>5, <1>6

\* Whatever the line and the other end make of f holds of g.
Follows(f, g, A) ==
  \A rx, ex, w, so :
    Side(f, rx, ex, w, A, so) /\ Ripe(f, Len(rx) + Len(ex)) => Side(g, rx, ex, w, A, so)

LEMMA MovedFollows ==
  ASSUME NEW f, IsSeq(f.out), f.CURID \in Nat, NEW A, NEW g, Moved(f, g, A)
  PROVE  Follows(f, g, A)
<1>1. ASSUME NEW rx, NEW ex, NEW w, NEW so, Side(f, rx, ex, w, A, so),
             Ripe(f, Len(rx) + Len(ex))
      PROVE  Side(g, rx, ex, w, A, so)
  BY <1>1, SideMoved
<1>2. QED
  BY <1>1 DEF Follows

LEMMA FollowsChain ==
  ASSUME NEW f, NEW g, NEW h, NEW A, Follows(f, g, A), Negotiating(g.STATE),
         Follows(g, h, A)
  PROVE  Follows(f, h, A)
<1>1. ASSUME NEW rx, NEW ex, NEW w, NEW so, Side(f, rx, ex, w, A, so),
             Ripe(f, Len(rx) + Len(ex))
      PROVE  Side(h, rx, ex, w, A, so)
  <2>1. Side(g, rx, ex, w, A, so)
    BY <1>1 DEF Follows
  <2>2. Ripe(g, Len(rx) + Len(ex))
    BY DEF Ripe
  <2>3. QED
    BY <2>1, <2>2 DEF Follows
<1>2. QED
  BY <1>1 DEF Follows

LEMMA MovedAlike ==
  ASSUME NEW f, NEW g, NEW h, NEW A, Moved(f, g, A), h.out = g.out, h.REQID = g.REQID,
         h.CURID = g.CURID, h.STATE = g.STATE, h.RECV_NEG = g.RECV_NEG
  PROVE  Moved(f, h, A)
BY DEF Moved, Tells, Asked, Accepting

\* The word of the machine stands, or it has just acknowledged the request m.
Answers(f, g, m) ==
  \/ SameWord(f, g)
  \/ /\ g.SEND_OPT = [id |-> m.id, opts |-> m.opts]
     /\ \A x \in SentIn(g.out) :
          x.code = "ACK" => x \in SentIn(f.out) \/ (x.id = m.id /\ x.opts = m.opts)

LEMMA ReplyFacts ==
  ASSUME NEW p, NEW opts, NEW reject
  PROVE  LET r == Answer(p, opts, reject)
         IN  r.code \in {"ACK", "NAK", "REJ"} /\ (r.code = "ACK" => r.opts = opts)
BY DEF Answer

LEMMA RecvConfReqSays ==
  ASSUME NEW p, NEW f, Typed(f), f.STATE >= CLOSED, NEW m, m.id # -1, NEW A
  PROVE  LET g == RecvConfReq(p, f, m, TRUE)
         IN  /\ Follows(f, g, A) /\ Answers(f, g, m) /\ (Agreed(f) => Agreed(g))
<1> DEFINE g == CASE f.STATE = OPENED -> Begin(p, LinkDown(f), TRUE)
                  [] f.STATE = STOPPED -> Begin(p, f, TRUE)
                  [] OTHER -> f
           reply == Answer(p, m.opts, g.NAKS >= MaxNaks)
           x == Send(Packet(reply.code, m.id, reply.opts), 0)
           h == Post(g, x)
           agreed == [h EXCEPT !.SEND_OPT = [id |-> m.id, opts |-> m.opts]]
           up == Up(p, agreed, TRUE)
           acked == [agreed EXCEPT !.STATE = ACK_SENT, !.NAKS = 0]
           both == [up EXCEPT !.NAKS = IF up.LINK THEN 0 ELSE @]
           other == [h EXCEPT !.STATE = IF @ = ACK_RCVD THEN @ ELSE REQ_SENT,
                              !.NAKS = IF reply.code = "NAK" THEN @ + 1 ELSE @]
<1>1. /\ f.STATE \in States /\ Likewise(f, f) /\ Likewise(f, LinkDown(f))
      /\ Alike(f, f) /\ IsSeq(f.out) /\ f.CURID \in Nat
  BY TypedFacts, LikewiseFacts DEF Fielded
<1>2. ASSUME NEW t, Says(f, t, A)
      PROVE  Follows(f, t, A) /\ Answers(f, t, m) /\ (Agreed(f) => Agreed(t))
  BY <1>1, <1>2, MovedFollows DEF Says, Answers
<1>3. CASE f.STATE \in {CLOSED, CLOSING, STOPPING}
  <2>1. RecvConfReq(p, f, m, TRUE) \in {SendTermAck(f, m, FALSE), f}
    <3>1. CASE f.STATE = CLOSED
      BY <3>1, StateNumbers DEF RecvConfReq
    <3>2. CASE f.STATE = CLOSING
      BY <3>2, StateNumbers DEF RecvConfReq
    <3>3. CASE f.STATE = STOPPING
      BY <3>3, StateNumbers DEF RecvConfReq
    <3>4. QED
      BY <1>3, <3>1, <3>2, <3>3
  <2>2. Says(f, SendTermAck(f, m, FALSE), A) /\ Says(f, f, A)
    BY <1>1, TermAckSays, StaySays
  <2>3. QED
    BY <1>2, <2>1, <2>2
<1>4. CASE f.STATE \in {STOPPED, REQ_SENT, ACK_RCVD, ACK_SENT, OPENED}
  <2>1. /\ Says(f, g, A) /\ Typed(g) /\ g.STATE \in {REQ_SENT, ACK_RCVD, ACK_SENT}
    <3>1. ASSUME NEW t, Likewise(f, t), Resembles(f, t)
          PROVE  /\ Says(f, Begin(p, t, TRUE), A) /\ Typed(Begin(p, t, TRUE))
                 /\ Begin(p, t, TRUE).STATE = REQ_SENT
      <4>1. PICK b : b = Begin(p, t, TRUE)
        OBVIOUS
      <4>2. Says(f, b, A) /\ IsMachine(b) /\ b.STATE = REQ_SENT
        BY <3>1, <4>1, BeginSays
      <4>3. CallDone(f, b)
        BY <3>1, <4>1, BeginDone
      <4>4. Typed(b)
        BY <4>2, <4>3, TypedFacts, StateNumbers DEF Typed, CallDone, Handled
      <4>5. QED
        BY <4>1, <4>2, <4>4
    <3>2. Resembles(f, f) /\ Resembles(f, LinkDown(f))
      BY ResemblesFacts
    <3>3. CASE f.STATE = OPENED
      <4>1. g = Begin(p, LinkDown(f), TRUE)
        BY <3>3, StateNumbers
      <4> HIDE DEF g
      <4>2. QED
        BY <1>1, <3>1, <3>2, <4>1
    <3>4. CASE f.STATE = STOPPED
      <4>1. g = Begin(p, f, TRUE)
        BY <3>4, StateNumbers
      <4> HIDE DEF g
      <4>2. QED
        BY <1>1, <3>1, <3>2, <4>1
    <3>5. CASE f.STATE \in {REQ_SENT, ACK_RCVD, ACK_SENT}
      <4>1. f.STATE # OPENED /\ f.STATE # STOPPED
        BY <3>5, StateNumbers
      <4>2. g = f
        BY <4>1, Zenon
      <4> HIDE DEF g
      <4>3. QED
        BY <3>5, <4>2, StaySays
    <3>6. QED
      BY <1>4, <3>3, <3>4, <3>5
  <2>2. /\ reply.code \in {"ACK", "NAK", "REJ"}
        /\ reply.code = "ACK" => reply.opts = m.opts
    <3>1. PICK reject, opts : reject = (g.NAKS >= MaxNaks) /\ opts = m.opts
      OBVIOUS
    <3>2. LET r == Answer(p, opts, reject)
          IN  r.code \in {"ACK", "NAK", "REJ"} /\ (r.code = "ACK" => r.opts = opts)
      BY ReplyFacts
    <3> HIDE DEF g
    <3>3. QED
      BY <3>1, <3>2
  <2>3. /\ Bare(x) /\ Aside(x) /\ x.cmd = "SEND" /\ x.pkt.code = reply.code
        /\ x.pkt.id = m.id /\ x.pkt.opts = reply.opts
    <3>1. PICK c, o : c = reply.code /\ o = reply.opts
      OBVIOUS
    <3>2. x = Send(Packet(c, m.id, o), 0) /\ c # "REQ"
      BY <2>2, <3>1
    <3> HIDE DEF x, reply
    <3>3. QED
      BY <3>1, <3>2, SendFacts DEF Bare, Aside, IsTimer, Packet
  <2>4. \/ reply.code = "ACK" /\ h.STATE # ACK_RCVD /\ RecvConfReq(p, f, m, TRUE) = acked
        \/ reply.code = "ACK" /\ h.STATE = ACK_RCVD /\ RecvConfReq(p, f, m, TRUE) = both
        \/ reply.code # "ACK" /\ RecvConfReq(p, f, m, TRUE) = other
    <3>1. f.STATE # CLOSED /\ f.STATE \notin {CLOSING, STOPPING}
      BY <1>4, StateNumbers
    <3>2. QED
      BY <3>1 DEF RecvConfReq
  <2> HIDE DEF g, reply, x
  <2>5. IsMachine(g) /\ IsSeq(g.out) /\ g.CURID \in Nat /\ Negotiating(g.STATE)
    BY <2>1, TypedFacts, NegotiatingStates DEF Fielded
  <2>6. /\ h.out = Append(g.out, x) /\ IsMachine(h) /\ h.SEND_OPT = g.SEND_OPT
        /\ h.CURID = g.CURID /\ h.REQID = g.REQID /\ h.STATE = g.STATE
        /\ h.RECV_NEG = g.RECV_NEG
    BY <2>5, PostSays
  <2>7. Typed(h)
    <3>1. Fielded(h)
      BY <2>1, TypedFacts, PostOut, SameFielded
    <3>2. Move(g, h, setup.conf)
      BY <2>3, <2>6 DEF Move, Plain
    <3>3. IsOut(h.out, setup.conf)
      BY <2>1, <3>2, TypedFacts, MoveKeeps
    <3> HIDE DEF h
    <3>4. QED
      BY <2>1, <2>6, <3>1, <3>3, TypedFacts DEF Typed
  <2> HIDE DEF h
  <2>8. Moved(g, h, A)
    <3>1. Tells(g, h, A)
      BY <2>3, <2>6 DEF Tells, Accepting
    <3>2. QED
      BY <3>1 DEF Moved
  <2>9. Follows(f, h, A)
    <3>1. Follows(f, g, A) /\ Follows(g, h, A)
      BY <1>1, <2>1, <2>5, <2>8, MovedFollows DEF Says
    <3>2. QED
      BY <2>5, <3>1, FollowsChain
  <2>10. \A y \in SentIn(h.out) :
           y.code = "ACK" => \/ y \in SentIn(f.out)
                             \/ reply.code = "ACK" /\ y.id = m.id /\ y.opts = m.opts
    <3>1. SentIn(h.out) \subseteq SentIn(g.out) \cup {x.pkt}
      BY <2>3, <2>5, <2>6, SentAppend
    <3>2. \A y \in SentIn(g.out) : y.code = "ACK" => y \in SentIn(f.out)
      BY <2>1 DEF Says, SameWord
    <3>3. QED
      BY <2>2, <2>3, <3>1, <3>2
  <2>11. PICK u : u = [id |-> m.id, opts |-> m.opts] /\ u # NoOptions
    <3>1. PICK u : u = [id |-> m.id, opts |-> m.opts]
      OBVIOUS
    <3>2. u.id = m.id /\ NoOptions.id = -1
      BY <3>1 DEF NoOptions
    <3>3. QED
      BY <3>1, <3>2
  <2>12. /\ Typed(agreed) /\ agreed.SEND_OPT = u /\ agreed.out = h.out
         /\ agreed.CURID = h.CURID /\ agreed.REQID = h.REQID /\ agreed.STATE = h.STATE
         /\ agreed.RECV_NEG = h.RECV_NEG
    <3>1. PICK e : e = [h EXCEPT !.SEND_OPT = u]
      OBVIOUS
    <3>2. e.out = h.out /\ SameFields(e, h) /\ IsMachine(e) /\ e.STATE = h.STATE
      BY <2>6, <3>1, SetOut
    <3>3. e.SEND_OPT = u
      BY <2>6, <3>1 DEF IsMachine
    <3>4. agreed = e
      BY <2>11, <3>1
    <3> HIDE DEF agreed
    <3>5. QED
      BY <2>7, <3>2, <3>3, <3>4, SameFielded DEF SameFields, Typed
  <2> HIDE DEF agreed
  <2>13. Follows(f, agreed, A) /\ Negotiating(agreed.STATE) /\ IsMachine(agreed)
    <3>1. Moved(g, agreed, A)
      BY <2>8, <2>12, MovedAlike
    <3>2. Follows(f, g, A) /\ Follows(g, agreed, A)
      BY <1>1, <2>1, <2>5, <3>1, MovedFollows DEF Says
    <3>3. QED
      BY <2>5, <2>6, <2>12, <3>2, FollowsChain, TypedFacts
  <2>14. ASSUME reply.code = "ACK", NEW t, Moved(agreed, t, A), t.SEND_OPT = u,
                \A y \in SentIn(t.out) : y.code = "ACK" => y \in SentIn(agreed.out)
         PROVE  Follows(f, t, A) /\ Answers(f, t, m) /\ Agreed(t)
    <3>1. Follows(agreed, t, A)
      BY <2>12, <2>14, TypedFacts, MovedFollows DEF Fielded
    <3>2. Follows(f, t, A)
      BY <2>13, <3>1, FollowsChain
    <3>3. QED
      BY <2>10, <2>11, <2>12, <2>14, <3>2 DEF Answers, Agreed
  <2>15. CASE reply.code = "ACK" /\ h.STATE # ACK_RCVD /\ RecvConfReq(p, f, m, TRUE) = acked
    <3>1. PICK a : a = [agreed EXCEPT !.STATE = ACK_SENT]
      OBVIOUS
    <3>2. Alike(agreed, a) /\ a.STATE = ACK_SENT
      BY <2>13, <3>1, GotoAlike DEF Goto
    <3>3. PICK t : t = [a EXCEPT !.NAKS = 0]
      OBVIOUS
    <3>4. Alike(a, t) /\ t.STATE = a.STATE
      BY <3>2, <3>3, NaksAlike DEF Alike
    <3>5. t = acked
      BY <3>1, <3>3
    <3>6. Alike(agreed, t) /\ ~Accepting(t)
      BY <3>2, <3>4, AlikeChain, StateNumbers DEF Accepting
    <3>7. /\ Moved(agreed, t, A) /\ t.SEND_OPT = u /\ t.out = agreed.out
      BY <2>12, <3>6 DEF Moved, Tells, Alike
    <3>8. QED
      BY <2>14, <2>15, <3>5, <3>7
  <2>16. CASE reply.code = "ACK" /\ h.STATE = ACK_RCVD /\ RecvConfReq(p, f, m, TRUE) = both
    <3>1. Likewise(agreed, agreed) /\ Accepting(agreed)
      BY <2>12, <2>16, LikewiseFacts DEF Accepting
    <3>2. /\ Moved(agreed, up, A) /\ IsMachine(up) /\ up.SEND_OPT = agreed.SEND_OPT
          /\ \A y \in SentIn(up.out) : y.code = "ACK" => y \in SentIn(agreed.out)
      BY <2>12, <3>1, UpSays
    <3> HIDE DEF up
    <3>3. PICK v : v = IF up.LINK THEN 0 ELSE up.NAKS
      OBVIOUS
    <3>4. PICK t : t = [up EXCEPT !.NAKS = v]
      OBVIOUS
    <3>5. Alike(up, t) /\ t.STATE = up.STATE /\ t.RECV_NEG = up.RECV_NEG
      BY <3>2, <3>4, NaksAlike
    <3>6. t = both
      BY <3>3, <3>4
    <3>7. Moved(agreed, t, A) /\ t.SEND_OPT = u /\ t.out = up.out
      BY <2>12, <3>2, <3>5, MovedAlike DEF Alike
    <3>8. QED
      BY <2>14, <2>16, <3>2, <3>6, <3>7
  <2>17. CASE reply.code # "ACK" /\ RecvConfReq(p, f, m, TRUE) = other
    <3>1. PICK s, v : /\ s = IF h.STATE = ACK_RCVD THEN h.STATE ELSE REQ_SENT
                      /\ v = IF reply.code = "NAK" THEN h.NAKS + 1 ELSE h.NAKS
      OBVIOUS
    <3>2. PICK a : a = [h EXCEPT !.STATE = s]
      OBVIOUS
    <3>3. Alike(h, a) /\ a.STATE = s /\ a.RECV_NEG = h.RECV_NEG
      BY <2>6, <3>2, GotoAlike DEF Goto
    <3>4. PICK t : t = [a EXCEPT !.NAKS = v]
      OBVIOUS
    <3>5. Alike(a, t) /\ t.STATE = a.STATE /\ t.RECV_NEG = a.RECV_NEG
      BY <3>3, <3>4, NaksAlike DEF Alike
    <3>6. t = other
      BY <3>1, <3>2, <3>4
    <3>7. Alike(h, t) /\ t.STATE = s /\ t.RECV_NEG = h.RECV_NEG
      BY <3>3, <3>5, AlikeChain
    <3>8. /\ Accepting(t) => Accepting(h)
          /\ t.STATE \notin {ACK_SENT, OPENED}
      BY <3>1, <3>7, StateNumbers DEF Accepting
    <3>9. Moved(h, t, A)
      BY <3>7, <3>8 DEF Moved, Tells, Alike
    <3>10. Follows(f, t, A)
      <4>1. Follows(h, t, A)
        BY <2>7, <3>9, TypedFacts, MovedFollows DEF Fielded
      <4>2. Negotiating(h.STATE)
        BY <2>5, <2>6
      <4>3. QED
        BY <2>9, <4>1, <4>2, FollowsChain
    <3>11. SameWord(f, t)
      <4>1. t.SEND_OPT = g.SEND_OPT /\ t.out = h.out
        BY <2>6, <3>7 DEF Alike
      <4>2. g.SEND_OPT \in {f.SEND_OPT, NoOptions}
        BY <2>1 DEF Says, SameWord
      <4>3. QED
        BY <2>10, <2>17, <4>1, <4>2 DEF SameWord
    <3>12. QED
      BY <2>17, <3>6, <3>8, <3>10, <3>11 DEF Answers, Agreed
  <2>18. QED
    BY <2>4, <2>15, <2>16, <2>17
<1>5. \/ f.STATE \in {CLOSED, CLOSING, STOPPING}
      \/ f.STATE \in {STOPPED, REQ_SENT, ACK_RCVD, ACK_SENT, OPENED}
  BY <1>1, StateNumbers
<1>6. QED
  BY <1>3, <1>4, <1>5, Zenon

-----------------------------------------------------------------------------
(* Both ends: what one asks and what the other has answered.               *)

\* The acknowledgements on a line and in the messages behind it
Acks(w, out) == {x \in PacketsIn(w) \cup SentIn(out) : x.code = "ACK"}

Agreeing(p) ==
  Side(fsm[p], rexmit[p], expired[p], wire[Peer(p)],
       Acks(wire[p], fsm[Peer(p)].out), fsm[Peer(p)].SEND_OPT)

AgreeLine ==
  setup.patient => \A r \in Peers : Agreeing(r) /\ Agreed(fsm[r])

LEMMA AgreeAt ==
  ASSUME AgreeLine, setup.patient, NEW p \in Peers
  PROVE  /\ Agreeing(p) /\ Agreed(fsm[p]) /\ Agreed(fsm[Peer(p)])
         /\ Side(fsm[Peer(p)], rexmit[Peer(p)], expired[Peer(p)], wire[p],
                 Acks(wire[Peer(p)], fsm[p].out), fsm[p].SEND_OPT)
<1>1. Peer(p) \in Peers /\ Peer(Peer(p)) = p
  BY PeerFacts
<1>2. \A r \in Peers : Agreeing(r) /\ Agreed(fsm[r])
  BY DEF AgreeLine
<1>3. Agreeing(p) /\ Agreed(fsm[p]) /\ Agreeing(Peer(p)) /\ Agreed(fsm[Peer(p)])
  BY <1>1, <1>2
<1>4. QED
  BY <1>1, <1>3 DEF Agreeing

LEMMA RipeNow ==
  ASSUME TimedLine, LineInv, setup.patient, NEW p \in Peers
  PROVE  Ripe(fsm[p], Len(rexmit[p]) + Len(expired[p]))
<1>1. PICK f, n : f = fsm[p] /\ n = Len(rexmit[p]) + Len(expired[p])
  OBVIOUS
<1>2. Timed(f, rexmit[p], expired[p])
  BY <1>1, LineAt
<1>3. /\ n \in Nat /\ setup.conf \in Nat /\ IsOut(f.out, setup.conf)
      /\ TimersOf(n, f.out) = Owed(f.STATE)
  BY <1>1, <1>2, TimedFacts, TypedFacts DEF Timed, Exact
<1>4. CASE ~Negotiating(f.STATE)
  <2>1. TimersOf(n, f.out) = 0
    BY <1>3, <1>4 DEF Owed
  <2>2. AllStopped(n, f.out)
    BY <1>3, <2>1, SpentIsStopped
  <2>3. QED
    BY <1>1, <2>2 DEF Ripe
<1>5. QED
  BY <1>1, <1>4 DEF Ripe

\* Both ends after a step of p, seen from each.
LEMMA AgreeStep ==
  ASSUME NEW p \in Peers, setup' = setup,
         Side(fsm'[p], rexmit'[p], expired'[p], wire'[Peer(p)],
              Acks(wire'[p], fsm'[Peer(p)].out), fsm'[Peer(p)].SEND_OPT),
         Side(fsm'[Peer(p)], rexmit'[Peer(p)], expired'[Peer(p)], wire'[p],
              Acks(wire'[Peer(p)], fsm'[p].out), fsm'[p].SEND_OPT),
         Agreed(fsm'[p]), Agreed(fsm'[Peer(p)])
  PROVE  AgreeLine'
<1>1. PICK q : q = Peer(p)
  OBVIOUS
<1>2. /\ q \in Peers /\ Peer(q) = p
      /\ \A r \in Peers : r = p \/ r = q
  BY <1>1, PeerFacts
<1>3. /\ Side(fsm'[p], rexmit'[p], expired'[p], wire'[Peer(p)],
              Acks(wire'[p], fsm'[Peer(p)].out), fsm'[Peer(p)].SEND_OPT)
      /\ Side(fsm'[q], rexmit'[q], expired'[q], wire'[Peer(q)],
              Acks(wire'[q], fsm'[Peer(q)].out), fsm'[Peer(q)].SEND_OPT)
      /\ Agreed(fsm'[p]) /\ Agreed(fsm'[q])
  BY <1>1, <1>2
<1>4. ASSUME NEW r \in Peers
      PROVE  /\ Side(fsm'[r], rexmit'[r], expired'[r], wire'[Peer(r)],
                     Acks(wire'[r], fsm'[Peer(r)].out), fsm'[Peer(r)].SEND_OPT)
             /\ Agreed(fsm'[r])
  BY <1>2, <1>3
<1>5. \A r \in Peers : Agreeing(r)' /\ Agreed(fsm[r])'
  BY <1>4 DEF Agreeing
<1>6. QED
  BY <1>5 DEF AgreeLine

LEMMA AcksLess ==
  ASSUME NEW w, NEW v, PacketsIn(v) \subseteq PacketsIn(w),
         NEW out, NEW o2, \A x \in SentIn(o2) : x.code = "ACK" => x \in SentIn(out)
  PROVE  Acks(v, o2) \subseteq Acks(w, out)
BY DEF Acks

\* A handler changes its machine, and the receive task takes a frame: what p
\* has asked and what it has answered.
LEMMA AgreeHandled ==
  ASSUME TimedLine, LineInv, AgreeLine, setup.patient, NEW p \in Peers, NEW g,
         Follows(fsm[p], g, Acks(wire[p], fsm[Peer(p)].out)), Agreed(g),
         fsm' = [fsm EXCEPT ![p] = g], UNCHANGED <<rexmit, expired, setup>>,
         NEW w, PacketsIn(w) \subseteq PacketsIn(wire[p]), wire' = [wire EXCEPT ![p] = w],
         Side(fsm[Peer(p)], rexmit[Peer(p)], expired[Peer(p)], w,
              Acks(wire[Peer(p)], g.out), g.SEND_OPT)
  PROVE  AgreeLine'
<1>1. PICK q : q = Peer(p)
  OBVIOUS
<1>2. q \in Peers /\ q # p
  BY <1>1, PeerFacts
<1>3. /\ fsm'[p] = g /\ fsm'[q] = fsm[q] /\ wire'[p] = w /\ wire'[q] = wire[q]
      /\ rexmit'[p] = rexmit[p] /\ rexmit'[q] = rexmit[q]
      /\ expired'[p] = expired[p] /\ expired'[q] = expired[q]
  <2>1. fsm = [r \in Peers |-> fsm[r]] /\ wire = [r \in Peers |-> wire[r]]
    BY DEF TimedLine, LineInv
  <2>2. QED
    BY <1>2, <2>1, UpdateAt
<1>4. PICK A, B : A = Acks(wire[p], fsm[q].out) /\ B = Acks(w, fsm[q].out)
  OBVIOUS
<1>5. Side(g, rexmit[p], expired[p], wire[q], A, fsm[q].SEND_OPT)
  <2>1. Side(fsm[p], rexmit[p], expired[p], wire[q], A, fsm[q].SEND_OPT)
    BY <1>1, <1>4, AgreeAt DEF Agreeing
  <2>2. Ripe(fsm[p], Len(rexmit[p]) + Len(expired[p]))
    BY RipeNow
  <2>3. Follows(fsm[p], g, A)
    BY <1>1, <1>4
  <2>4. QED
    BY <2>1, <2>2, <2>3 DEF Follows
<1>6. Side(g, rexmit[p], expired[p], wire[q], B, fsm[q].SEND_OPT)
  <2>1. B \subseteq A
    BY <1>4, AcksLess
  <2>2. QED
    BY <1>5, <2>1, SideLess
<1>7. Agreed(g) /\ Agreed(fsm[q])
  BY <1>1, AgreeAt
<1>8. Side(fsm[q], rexmit[q], expired[q], w, Acks(wire[q], g.out), g.SEND_OPT)
  BY <1>1
<1>9. QED
  BY <1>1, <1>3, <1>4, <1>6, <1>7, <1>8, AgreeStep

LEMMA AgreeCall ==
  ASSUME TimedLine, LineInv, Ample, AgreeLine, setup.patient, NEW p \in Peers, Call(p)
  PROVE  AgreeLine'
<1>1. PICK A : A = Acks(wire[p], fsm[Peer(p)].out)
  OBVIOUS
<1>2. ASSUME NEW op, NEW packet, NEW g, Says(fsm[p], g, A), Called(p, op, packet, g)
      PROVE  AgreeLine'
  <2>1. PICK w : w = wire[p]
    OBVIOUS
  <2>2. /\ fsm' = [fsm EXCEPT ![p] = g] /\ UNCHANGED <<rexmit, expired, setup>>
        /\ wire' = [wire EXCEPT ![p] = w]
    <3>1. wire = [r \in Peers |-> wire[r]] /\ wire' = wire
      BY <1>2 DEF Called, TimedLine
    <3>2. QED
      BY <1>2, <2>1, <3>1, AmpleCalled DEF Called
  <2>3. IsSeq(fsm[p].out) /\ fsm[p].CURID \in Nat
    BY LineAt, TypedFacts DEF Fielded
  <2>4. Follows(fsm[p], g, A) /\ Agreed(g)
    BY <1>2, <2>3, AgreeAt, MovedFollows DEF Says
  <2>5. Side(fsm[Peer(p)], rexmit[Peer(p)], expired[Peer(p)], w,
             Acks(wire[Peer(p)], g.out), g.SEND_OPT)
    <3>1. Side(fsm[Peer(p)], rexmit[Peer(p)], expired[Peer(p)], w,
               Acks(wire[Peer(p)], fsm[p].out), fsm[p].SEND_OPT)
      BY <2>1, AgreeAt
    <3>2. PICK B, b : B = Acks(wire[Peer(p)], g.out) /\ b = g.SEND_OPT
      OBVIOUS
    <3>3. B \subseteq Acks(wire[Peer(p)], fsm[p].out) /\ b \in {fsm[p].SEND_OPT, NoOptions}
      BY <1>2, <3>2, AcksLess DEF Says, SameWord
    <3>4. QED
      BY <3>1, <3>2, <3>3, SideLess
  <2>6. PacketsIn(w) \subseteq PacketsIn(wire[p])
    BY <2>1
  <2>7. QED
    BY <1>1, <2>2, <2>4, <2>5, <2>6, AgreeHandled
<1>3. Typed(fsm[p])
  BY LineAt
<1>4. CASE PPPFSM_lowerup(p)
  <2>1. \E packet \in BOOLEAN : Called(p, "lowerup", packet, LowerUp(p, fsm[p], packet))
    BY <1>4 DEF PPPFSM_lowerup
  <2>2. ~Called(p, "lowerup", FALSE, LowerUp(p, fsm[p], FALSE))
    BY AmpleCalled
  <2>3. Called(p, "lowerup", TRUE, LowerUp(p, fsm[p], TRUE))
    BY <2>1, <2>2, Zenon
  <2>4. QED
    BY <1>2, <1>3, <2>3, LowerUpSays
<1>5. CASE PPPFSM_lowerdown(p)
  BY <1>2, <1>3, <1>5, LowerDownSays DEF PPPFSM_lowerdown
<1>6. CASE PPPFSM_open(p)
  <2>1. PICK o : o = Head(todo[p]).options
    OBVIOUS
  <2>2. \E packet \in BOOLEAN : Called(p, "open", packet, Open(p, fsm[p], packet, o))
    BY <1>6, <2>1 DEF PPPFSM_open
  <2>3. ~Called(p, "open", FALSE, Open(p, fsm[p], FALSE, o))
    BY AmpleCalled
  <2>4. Called(p, "open", TRUE, Open(p, fsm[p], TRUE, o))
    BY <2>2, <2>3, Zenon
  <2>5. QED
    BY <1>2, <1>3, <2>4, OpenSays
<1>7. CASE PPPFSM_close(p)
  <2>1. \E packet \in BOOLEAN : Called(p, "close", packet, Close(p, fsm[p], packet))
    BY <1>7 DEF PPPFSM_close
  <2>2. ~Called(p, "close", FALSE, Close(p, fsm[p], FALSE))
    BY AmpleCalled
  <2>3. Called(p, "close", TRUE, Close(p, fsm[p], TRUE))
    BY <2>1, <2>2, Zenon
  <2>4. QED
    BY <1>2, <1>3, <2>3, CloseSays
<1>8. QED
  BY <1>4, <1>5, <1>6, <1>7 DEF Call

\* A request on the line has one of the identifiers its end has used.
LEMMA RequestAt ==
  ASSUME TimedLine, LineInv, AgreeLine, setup.patient, NEW p \in Peers,
         wire[p] # <<>>, Head(wire[p]).code = "REQ"
  PROVE  Head(wire[p]).id # -1
<1>1. PICK q, x : q = Peer(p) /\ x = Head(wire[p])
  OBVIOUS
<1>2. Side(fsm[q], rexmit[q], expired[q], wire[p], Acks(wire[q], fsm[p].out),
           fsm[p].SEND_OPT)
  BY <1>1, AgreeAt
<1>3. x \in PacketsIn(wire[p])
  BY <1>1, LineAt, PacketsTail
<1>4. x.id \in 0 .. fsm[q].CURID - 1
  BY <1>1, <1>2, <1>3 DEF Side, Claims
<1>5. fsm[q].CURID \in Nat
  BY <1>1, PeerFacts, LineAt, TypedFacts DEF Fielded
<1>6. QED
  BY <1>1, <1>4, <1>5

LEMMA AgreeInput ==
  ASSUME TimedLine, LineInv, Ample, AgreeLine, setup.patient, NEW p \in Peers, Input(p)
  PROVE  AgreeLine'
<1>1. Typed(fsm[p]) /\ IsSeq(wire[p]) /\ IsSeq(fsm[p].out) /\ fsm[p].CURID \in Nat
  BY LineAt, TypedFacts DEF Fielded
<1>2. wire[p] # <<>>
  BY DEF Input, InputConfReq, InputConfAck, InputConfNak, InputTermReq, InputTermAck,
         InputDropped
<1>3. PICK w, x : w = Tail(wire[p]) /\ x = Head(wire[p])
  OBVIOUS
<1>4. PacketsIn(w) \subseteq PacketsIn(wire[p]) /\ x \in PacketsIn(wire[p])
  BY <1>1, <1>2, <1>3, PacketsTail
<1>5. PICK A, B : A = Acks(wire[p], fsm[Peer(p)].out) /\ B = Acks(wire[Peer(p)], fsm[p].out)
  OBVIOUS
<1>6. Side(fsm[Peer(p)], rexmit[Peer(p)], expired[Peer(p)], wire[p], B, fsm[p].SEND_OPT)
  BY <1>5, AgreeAt
<1>7. ASSUME NEW g, Follows(fsm[p], g, A), Agreed(fsm[p]) => Agreed(g),
             SameWord(fsm[p], g) \/ (x.code = "REQ" /\ Answers(fsm[p], g, x)),
             fsm' = [fsm EXCEPT ![p] = g], UNCHANGED <<rexmit, expired, setup>>,
             wire' = [wire EXCEPT ![p] = w]
      PROVE  AgreeLine'
  <2>1. PICK C, c : C = Acks(wire[Peer(p)], g.out) /\ c = g.SEND_OPT
    OBVIOUS
  <2>2. Side(fsm[Peer(p)], rexmit[Peer(p)], expired[Peer(p)], w, C, c)
    <3>1. CASE SameWord(fsm[p], g)
      <4>1. C \subseteq B /\ c \in {fsm[p].SEND_OPT, NoOptions}
        BY <1>5, <2>1, <3>1, AcksLess DEF SameWord
      <4>2. QED
        BY <1>1, <1>2, <1>3, <1>6, <4>1, SideLess
    <3>2. CASE /\ x.code = "REQ" /\ c = [id |-> x.id, opts |-> x.opts]
               /\ \A y \in SentIn(g.out) :
                    y.code = "ACK" => \/ y \in SentIn(fsm[p].out)
                                      \/ y.id = x.id /\ y.opts = x.opts
      <4>1. \A y \in C : y \in B \/ (y.id = x.id /\ y.opts = x.opts)
        BY <1>5, <2>1, <3>2 DEF Acks
      <4>2. Side(fsm[Peer(p)], rexmit[Peer(p)], expired[Peer(p)], Tail(wire[p]), C,
                 [id |-> x.id, opts |-> x.opts])
        BY <1>1, <1>2, <1>3, <1>6, <3>2, <4>1, SideAnswered
      <4>3. QED
        BY <1>3, <3>2, <4>2
    <3>3. QED
      BY <1>7, <2>1, <3>1, <3>2 DEF Answers
  <2>3. Agreed(g)
    BY <1>7, AgreeAt
  <2>4. QED
    BY <1>4, <1>5, <1>7, <2>1, <2>2, <2>3, AgreeHandled
<1>8. ASSUME NEW code, NEW packet, NEW g, Says(fsm[p], g, A), Received(p, code, packet, g)
      PROVE  AgreeLine'
  <2>1. Follows(fsm[p], g, A) /\ SameWord(fsm[p], g) /\ (Agreed(fsm[p]) => Agreed(g))
    BY <1>1, <1>8, MovedFollows DEF Says
  <2>2. /\ fsm' = [fsm EXCEPT ![p] = g] /\ UNCHANGED <<rexmit, expired, setup>>
        /\ wire' = [wire EXCEPT ![p] = w]
    BY <1>3, <1>8, AmpleReceived DEF Received
  <2>3. QED
    BY <1>7, <2>1, <2>2
<1>9. CASE InputConfReq(p)
  <2>1. PICK g : g = RecvConfReq(p, fsm[p], x, TRUE)
    OBVIOUS
  <2>2. /\ Received(p, {"REQ"}, TRUE, g) /\ fsm[p].STATE >= CLOSED /\ x.code = "REQ"
    <3>1. /\ fsm[p].STATE >= CLOSED /\ x.code = "REQ"
          /\ \E packet \in BOOLEAN :
               Received(p, {"REQ"}, packet, RecvConfReq(p, fsm[p], x, packet))
      BY <1>3, <1>9 DEF InputConfReq, Received
    <3>2. ~Received(p, {"REQ"}, FALSE, RecvConfReq(p, fsm[p], x, FALSE))
      BY AmpleReceived
    <3>3. Received(p, {"REQ"}, TRUE, RecvConfReq(p, fsm[p], x, TRUE))
      BY <3>1, <3>2, Zenon
    <3>4. QED
      BY <2>1, <3>1, <3>3, Zenon
  <2>3. x.id # -1
    BY <1>2, <1>3, <2>2, RequestAt
  <2>4. /\ Follows(fsm[p], g, A) /\ Answers(fsm[p], g, x)
        /\ Agreed(fsm[p]) => Agreed(g)
    BY <1>1, <2>1, <2>2, <2>3, RecvConfReqSays
  <2>5. /\ fsm' = [fsm EXCEPT ![p] = g] /\ UNCHANGED <<rexmit, expired, setup>>
        /\ wire' = [wire EXCEPT ![p] = w]
    BY <1>3, <2>2, AmpleReceived DEF Received
  <2>6. QED
    BY <1>7, <2>2, <2>4, <2>5
<1>10. CASE InputTermReq(p)
  BY <1>1, <1>8, <1>10, RecvTermReqSays DEF InputTermReq
<1>11. CASE InputConfAck(p)
  <2>1. /\ IsForUs(fsm[p], x) /\ x.code = "ACK" /\ x.opts # Nothing
        /\ Received(p, {"ACK"}, TRUE, RecvConfAck(p, fsm[p], x))
    BY <1>3, <1>11, TypedFramed DEF InputConfAck, Received, Ample, Framed
  <2>2. x \in A
    BY <1>4, <1>5, <2>1 DEF Acks
  <2>3. Says(fsm[p], RecvConfAck(p, fsm[p], x), A)
    BY <1>1, <2>1, <2>2, RecvConfAckSays
  <2>4. QED
    BY <1>8, <2>1, <2>3
<1>12. CASE InputConfNak(p)
  BY <1>1, <1>8, <1>12, RecvConfNakSays DEF InputConfNak
<1>13. CASE InputTermAck(p)
  BY <1>1, <1>8, <1>13, RecvTermAckSays DEF InputTermAck
<1>14. CASE InputDropped(p)
  <2>1. PICK g : g = fsm[p]
    OBVIOUS
  <2>2. Says(fsm[p], g, A)
    BY <1>1, <2>1, StaySays
  <2>3. Follows(fsm[p], g, A) /\ SameWord(fsm[p], g) /\ (Agreed(fsm[p]) => Agreed(g))
    BY <1>1, <2>2, MovedFollows DEF Says
  <2>4. fsm' = [fsm EXCEPT ![p] = g]
    <3>1. fsm = [r \in Peers |-> fsm[r]] /\ fsm' = fsm
      BY <1>14 DEF InputDropped, LineInv
    <3>2. QED
      BY <2>1, <3>1
  <2>5. UNCHANGED <<rexmit, expired, setup>> /\ wire' = [wire EXCEPT ![p] = w]
    BY <1>3, <1>14 DEF InputDropped
  <2>6. QED
    BY <1>7, <2>3, <2>4, <2>5
<1>15. QED
  BY <1>9, <1>10, <1>11, <1>12, <1>13, <1>14 DEF Input

\* The transmit task takes a message of p: sx is its queue afterwards, v the
\* line it writes to.
LEMMA AgreeTaken ==
  ASSUME TimedLine, LineInv, AgreeLine, setup.patient, NEW p \in Peers,
         NEW cmd, Taken(p, cmd),
         NEW m, m = Head(fsm[p].out), NEW rx, rx = rexmit[p],
         NEW sx, rexmit' = [rexmit EXCEPT ![p] = sx],
         NEW v, wire' = [wire EXCEPT ![Peer(p)] = v],
         Handed(m, rx, sx, wire[Peer(p)], v)
  PROVE  AgreeLine'
<1>1. PICK q \in Peers : q = Peer(p) /\ q # p
  BY PeerFacts
<1>2. PICK f, u, w : f = fsm[p] /\ u = Tail(fsm[p].out) /\ w = wire[q]
  OBVIOUS
<1>3. PICK g : g = [f EXCEPT !.out = u]
  OBVIOUS
<1>4. /\ IsMachine(f) /\ IsSeq(f.out) /\ IsSeq(w) /\ IsSeq(rx) /\ Len(rx) \in Nat
      /\ f.out # <<>> /\ expired[p] = <<>> /\ UNCHANGED <<expired, setup>>
      /\ fsm' = [fsm EXCEPT ![p] = g]
  <2>1. IsMachine(f) /\ IsSeq(f.out) /\ IsSeq(rx) /\ Len(rx) \in Nat
    BY <1>2, LineAt, TypedFacts, IsSeqFacts
  <2>2. IsSeq(w)
    BY <1>2 DEF TimedLine
  <2>3. fsm' = [fsm EXCEPT ![p].out = Tail(fsm[p].out)]
    BY DEF Taken
  <2>4. QED
    BY <1>2, <1>3, <2>1, <2>2, <2>3 DEF Taken
<1>5. Twin(f, g) /\ g.out = u /\ g.SEND_OPT = f.SEND_OPT
  BY <1>3, <1>4 DEF Twin, IsMachine
<1>6. /\ fsm'[p] = g /\ fsm'[q] = fsm[q] /\ wire'[q] = v /\ wire'[p] = wire[p]
      /\ rexmit'[p] = sx /\ rexmit'[q] = rexmit[q]
      /\ expired'[p] = expired[p] /\ expired'[q] = expired[q]
  <2>1. fsm = [r \in Peers |-> fsm[r]] /\ wire = [r \in Peers |-> wire[r]]
        /\ rexmit = [r \in Peers |-> rexmit[r]]
    BY DEF TimedLine, LineInv
  <2>2. QED
    BY <1>1, <1>4, <2>1, UpdateAt
<1>7. /\ Side(f, rx, expired[p], w, Acks(wire[p], fsm[q].out), fsm[q].SEND_OPT)
      /\ Side(fsm[q], rexmit[q], expired[q], wire[p], Acks(w, f.out), f.SEND_OPT)
      /\ Agreed(f) /\ Agreed(fsm[q])
  BY <1>1, <1>2, AgreeAt DEF Agreeing
<1>8. PICK A, so, ex : A = Acks(wire[p], fsm[q].out) /\ so = fsm[q].SEND_OPT /\ ex = expired[p]
  OBVIOUS
<1>9. Side(g, sx, ex, v, A, so)
  <2>1. Side(f, rx, ex, w, A, so) /\ g.out = Tail(f.out) /\ m = Head(f.out) /\ ex = <<>>
    BY <1>2, <1>4, <1>5, <1>7, <1>8
  <2>2. Handed(m, rx, sx, w, v)
    BY <1>1, <1>2
  <2>3. QED
    BY <1>4, <1>5, <2>1, <2>2, SideTaken
<1>10. PICK B, C : B = Acks(w, f.out) /\ C = Acks(v, g.out)
  OBVIOUS
<1>11. C \subseteq B
  <2>1. /\ SentIn(g.out) \subseteq SentIn(f.out)
        /\ m.cmd = "SEND" => m.pkt \in SentIn(f.out)
    BY <1>2, <1>4, <1>5, SentTail
  <2>2. PacketsIn(v) \subseteq PacketsIn(w) \cup SentIn(f.out)
    <3>1. CASE m.cmd = "SEND"
      <4>1. PICK x : x = m.pkt
        OBVIOUS
      <4>2. v = Append(w, x)
        BY <1>1, <1>2, <3>1, <4>1 DEF Handed
      <4>3. PacketsIn(v) = PacketsIn(w) \cup {x}
        BY <1>4, <4>2, PacketsAppend
      <4>4. QED
        BY <2>1, <3>1, <4>1, <4>3
    <3>2. CASE m.cmd # "SEND"
      <4>1. v = w
        BY <1>1, <1>2, <3>2 DEF Handed
      <4>2. QED
        BY <4>1
    <3>3. QED
      BY <3>1, <3>2
  <2>3. QED
    BY <1>10, <2>1, <2>2 DEF Acks
<1>12. Side(fsm[q], rexmit[q], expired[q], wire[p], C, g.SEND_OPT)
  <2>1. f.SEND_OPT \in {f.SEND_OPT, NoOptions}
    OBVIOUS
  <2>2. Side(fsm[q], rexmit[q], expired[q], wire[p], C, f.SEND_OPT)
    BY <1>7, <1>10, <1>11, <2>1, SideLess
  <2>3. QED
    BY <1>5, <2>2
<1>13. Agreed(g)
  BY <1>5, <1>7 DEF Agreed, Twin
<1>14. /\ Side(fsm'[p], rexmit'[p], expired'[p], wire'[Peer(p)],
              Acks(wire'[p], fsm'[Peer(p)].out), fsm'[Peer(p)].SEND_OPT)
       /\ Side(fsm'[Peer(p)], rexmit'[Peer(p)], expired'[Peer(p)], wire'[p],
              Acks(wire'[Peer(p)], fsm'[p].out), fsm'[p].SEND_OPT)
       /\ Agreed(fsm'[p]) /\ Agreed(fsm'[Peer(p)])
  BY <1>1, <1>6, <1>7, <1>8, <1>9, <1>10, <1>12, <1>13
<1>15. QED
  BY <1>4, <1>14, AgreeStep

LEMMA AgreeTakeStop ==
  ASSUME TimedLine, LineInv, AgreeLine, setup.patient, NEW p \in Peers, TakeStop(p)
  PROVE  AgreeLine'
<1>1. PICK m, rx, v : m = Head(fsm[p].out) /\ rx = rexmit[p] /\ v = wire[Peer(p)]
  OBVIOUS
<1>2. Taken(p, "STOP")
  BY DEF TakeStop
<1>3. m = Stop /\ m.cmd # "SEND" /\ ~IsTimer(m)
  BY <1>1, <1>2, HeadTaken DEF Stop, IsTimer
<1>4. PICK sx : sx = IF rx = <<>> THEN rx ELSE Tail(rx)
  OBVIOUS
<1>5. Len(rx) <= 1 => Len(sx) = 0
  <2>1. IsSeq(rx) /\ Len(rx) \in Nat
    BY <1>1, LineAt, IsSeqFacts
  <2>2. CASE rx = <<>>
    BY <1>4, <2>2
  <2>3. CASE rx # <<>>
    <3>1. Len(sx) = Len(rx) - 1 /\ Len(rx) > 0
      BY <1>4, <2>1, <2>3, IsSeqFacts
    <3>2. QED
      BY <2>1, <3>1
  <2>4. QED
    BY <2>2, <2>3
<1>6. rexmit' = [rexmit EXCEPT ![p] = sx]
  <2>1. rexmit = [r \in Peers |-> rexmit[r]]
    BY DEF TimedLine
  <2>2. CASE rx = <<>>
    BY <1>1, <1>4, <2>1, <2>2 DEF TakeStop
  <2>3. CASE rx # <<>>
    BY <1>1, <1>4, <2>3 DEF TakeStop
  <2>4. QED
    BY <2>2, <2>3
<1>7. wire' = [wire EXCEPT ![Peer(p)] = v]
  <2>1. wire = [r \in Peers |-> wire[r]] /\ wire' = wire /\ Peer(p) \in Peers
    BY PeerFacts DEF TimedLine, TakeStop
  <2>2. QED
    BY <1>1, <2>1
<1>8. Handed(m, rx, sx, wire[Peer(p)], v)
  BY <1>1, <1>3, <1>5 DEF Handed
<1>9. QED
  BY <1>1, <1>2, <1>6, <1>7, <1>8, AgreeTaken

LEMMA AgreeTakeRestart ==
  ASSUME TimedLine, LineInv, AgreeLine, setup.patient, NEW p \in Peers, TakeRestart(p)
  PROVE  AgreeLine'
<1>1. PICK m, rx, v : m = Head(fsm[p].out) /\ rx = rexmit[p] /\ v = wire[Peer(p)]
  OBVIOUS
<1>2. Taken(p, "RESTART")
  BY DEF TakeRestart
<1>3. m # Stop /\ m.cmd # "SEND" /\ ~IsTimer(m)
  BY <1>1, <1>2, HeadTaken DEF Stop, Restart, IsTimer
<1>4. PICK a, c : a = rx[1] /\ c = setup.conf
  OBVIOUS
<1>5. PICK t : t = [a EXCEPT !.retry = c]
  OBVIOUS
<1>6. PICK sx : sx = IF rx = <<>> THEN rx ELSE [rx EXCEPT ![1] = t]
  OBVIOUS
<1>7. Len(sx) = Len(rx) /\ HeldIn(sx) \subseteq HeldIn(rx)
  <2>1. IsSeq(rx) /\ Len(rx) \in Nat /\ Packets(rx, setup.conf)
    BY <1>1, LineAt, IsSeqFacts DEF Timed
  <2>2. CASE rx = <<>>
    BY <1>6, <2>2
  <2>3. CASE rx # <<>>
    <3>1. Len(rx) > 0 /\ 1 \in 1 .. Len(rx)
      BY <2>1, <2>3, IsSeqFacts
    <3>2. IsSend(a)
      BY <1>4, <2>1, <3>1 DEF Packets
    <3>3. t.pkt = a.pkt
      <4>1. PICK x, y : a = [cmd |-> "SEND", pkt |-> x, retry |-> y]
        BY <3>2 DEF IsSend, Send
      <4>2. QED
        BY <1>5, <4>1
    <3>4. sx = [rx EXCEPT ![1] = t]
      BY <1>6, <2>3
    <3>5. PICK S : rx \in Seq(S)
      BY <2>1 DEF IsSeq
    <3>6. PICK U : U = S \cup {t}
      OBVIOUS
    <3>7. rx \in Seq(U) /\ t \in U
      BY <3>5, <3>6
    <3>8. /\ Len(sx) = Len(rx) /\ sx[1] = t
          /\ \A i \in 2 .. Len(rx) : sx[i] = rx[i]
      BY <2>1, <3>1, <3>4, <3>7, ExceptSeq
    <3>9. ASSUME NEW i \in 1 .. Len(rx)
          PROVE  sx[i].pkt \in HeldIn(rx)
      <4>1. CASE i = 1
        BY <1>4, <3>1, <3>3, <3>8, <4>1 DEF HeldIn
      <4>2. CASE i # 1
        <5>1. i \in 2 .. Len(rx)
          BY <2>1, <4>2
        <5>2. QED
          BY <3>8, <5>1 DEF HeldIn
      <4>3. QED
        BY <4>1, <4>2
    <3>10. QED
      BY <3>8, <3>9 DEF HeldIn
  <2>4. QED
    BY <2>2, <2>3
<1>8. rexmit' = [rexmit EXCEPT ![p] = sx]
  <2>1. rexmit = [r \in Peers |-> rexmit[r]]
    BY DEF TimedLine
  <2>2. CASE rx = <<>>
    BY <1>1, <1>6, <2>1, <2>2 DEF TakeRestart
  <2>3. CASE rx # <<>>
    <3>1. rexmit' = [rexmit EXCEPT ![p] =
                       [rexmit[p] EXCEPT ![1] =
                          [rexmit[p][1] EXCEPT !.retry = setup.conf]]]
      BY <1>1, <2>3 DEF TakeRestart
    <3>2. QED
      BY <1>1, <1>4, <1>5, <1>6, <2>3, <3>1
  <2>4. QED
    BY <2>2, <2>3
<1>9. wire' = [wire EXCEPT ![Peer(p)] = v]
  <2>1. wire = [r \in Peers |-> wire[r]] /\ wire' = wire /\ Peer(p) \in Peers
    BY PeerFacts DEF TimedLine, TakeRestart
  <2>2. QED
    BY <1>1, <2>1
<1>10. Handed(m, rx, sx, wire[Peer(p)], v)
  BY <1>1, <1>3, <1>7 DEF Handed
<1>11. QED
  BY <1>1, <1>2, <1>8, <1>9, <1>10, AgreeTaken

LEMMA AgreeTakeSend ==
  ASSUME TimedLine, LineInv, AgreeLine, setup.patient, NEW p \in Peers, TakeSend(p)
  PROVE  AgreeLine'
<1>1. PICK m, rx, w : m = Head(fsm[p].out) /\ rx = rexmit[p] /\ w = wire[Peer(p)]
  OBVIOUS
<1>2. Taken(p, "SEND")
  BY DEF TakeSend
<1>3. m.cmd = "SEND" /\ m # Stop /\ (IsTimer(m) <=> m.retry > 0)
  BY <1>1, <1>2, HeadTaken DEF Stop, IsTimer
<1>4. PICK v : v = Append(w, m.pkt)
  OBVIOUS
<1>5. wire' = [wire EXCEPT ![Peer(p)] = v]
  BY <1>1, <1>4 DEF TakeSend, Write
<1>6. CASE m.retry > 0
  <2>1. PICK i \in 1 .. Len(rx) + 1 : rexmit' = [rexmit EXCEPT ![p] = InsertAt(rx, i, m)]
    BY <1>1, <1>6 DEF TakeSend, Enqueue
  <2>2. PICK sx : sx = InsertAt(rx, i, m)
    OBVIOUS
  <2>3. rexmit' = [rexmit EXCEPT ![p] = sx]
    BY <2>1, <2>2
  <2>4. IsSeq(rx)
    BY <1>1, LineAt
  <2>5. Len(sx) = Len(rx) + 1
    BY <2>2, <2>4, IsSeqInsert
  <2>6. HeldIn(sx) \subseteq HeldIn(rx) \cup {m.pkt}
    BY <2>2, <2>4, HeldInsert
  <2>7. Handed(m, rx, sx, wire[Peer(p)], v)
    BY <1>1, <1>3, <1>4, <1>6, <2>5, <2>6 DEF Handed
  <2>8. QED
    BY <1>1, <1>2, <1>5, <2>3, <2>7, AgreeTaken
<1>7. CASE ~(m.retry > 0)
  <2>1. rexmit' = rexmit /\ rexmit = [r \in Peers |-> rexmit[r]]
    BY <1>1, <1>7 DEF TakeSend, TimedLine
  <2>2. PICK sx : sx = rx
    OBVIOUS
  <2>3. rexmit' = [rexmit EXCEPT ![p] = sx]
    BY <1>1, <2>1, <2>2
  <2>4. Handed(m, rx, sx, wire[Peer(p)], v)
    BY <1>1, <1>3, <1>4, <1>7, <2>2 DEF Handed
  <2>5. QED
    BY <1>1, <1>2, <1>5, <2>3, <2>4, AgreeTaken
<1>8. QED
  BY <1>6, <1>7

LEMMA AgreeExpiry ==
  ASSUME TimedLine, LineInv, AgreeLine, setup.patient, NEW p \in Peers, Expire(p)
  PROVE  AgreeLine'
<1>1. PICK q \in Peers : q = Peer(p) /\ q # p
  BY PeerFacts
<1>2. PICK f, rx, ex, w : f = fsm[p] /\ rx = rexmit[p] /\ ex = expired[p] /\ w = wire[q]
  OBVIOUS
<1>3. PICK sx, ey : sx = Tail(rx) /\ ey = <<Head(rx)>>
  OBVIOUS
<1>4. /\ rx # <<>> /\ ex = <<>> /\ UNCHANGED <<fsm, wire, setup>>
      /\ rexmit' = [rexmit EXCEPT ![p] = sx] /\ expired' = [expired EXCEPT ![p] = ey]
      /\ w = <<>> /\ f.out = <<>>
  BY <1>2, <1>3 DEF Expire, Quiet
<1>5. /\ rexmit'[p] = sx /\ rexmit'[q] = rexmit[q]
      /\ expired'[p] = ey /\ expired'[q] = expired[q]
  BY <1>1, <1>4, UpdateAt DEF TimedLine
<1>6. PICK A, so : A = Acks(wire[p], fsm[q].out) /\ so = fsm[q].SEND_OPT
  OBVIOUS
<1>7. /\ Side(f, rx, ex, w, A, so)
      /\ Side(fsm[q], rexmit[q], expired[q], wire[p], Acks(w, f.out), f.SEND_OPT)
      /\ Agreed(f) /\ Agreed(fsm[q])
  BY <1>1, <1>2, <1>6, AgreeAt DEF Agreeing
<1>8. Side(f, sx, ey, w, A, so)
  <2>1. IsSeq(rx)
    BY <1>2, LineAt
  <2>2. QED
    BY <1>3, <1>4, <1>7, <2>1, SideExpired
<1>9. /\ Side(fsm'[p], rexmit'[p], expired'[p], wire'[Peer(p)],
             Acks(wire'[p], fsm'[Peer(p)].out), fsm'[Peer(p)].SEND_OPT)
      /\ Side(fsm'[Peer(p)], rexmit'[Peer(p)], expired'[Peer(p)], wire'[p],
             Acks(wire'[Peer(p)], fsm'[p].out), fsm'[p].SEND_OPT)
      /\ Agreed(fsm'[p]) /\ Agreed(fsm'[Peer(p)])
  BY <1>1, <1>2, <1>4, <1>5, <1>6, <1>7, <1>8
<1>10. QED
  BY <1>4, <1>9, AgreeStep

LEMMA AgreeLose ==
  ASSUME TimedLine, LineInv, AgreeLine, setup.patient, NEW p \in Peers, Lose(p)
  PROVE  AgreeLine'
<1>1. PICK q \in Peers : q = Peer(p) /\ q # p
  BY PeerFacts
<1>2. PICK w, v : w = wire[p] /\ v = Tail(wire[p])
  OBVIOUS
<1>3. /\ w # <<>> /\ UNCHANGED <<fsm, rexmit, expired, setup>>
      /\ wire' = [wire EXCEPT ![p] = v] /\ IsSeq(w)
  BY <1>2, LineAt DEF Lose
<1>4. wire'[p] = v /\ wire'[q] = wire[q]
  BY <1>1, <1>3, UpdateAt DEF TimedLine
<1>5. PICK A, B, so, sq : /\ A = Acks(w, fsm[q].out) /\ B = Acks(v, fsm[q].out)
                          /\ so = fsm[q].SEND_OPT /\ sq = fsm[p].SEND_OPT
  OBVIOUS
<1>6. PICK C : C = Acks(wire[q], fsm[p].out)
  OBVIOUS
<1>7. /\ Side(fsm[p], rexmit[p], expired[p], wire[q], A, so)
      /\ Side(fsm[q], rexmit[q], expired[q], w, C, sq)
      /\ Agreed(fsm[p]) /\ Agreed(fsm[q])
  BY <1>1, <1>2, <1>5, <1>6, AgreeAt DEF Agreeing
<1>8. Side(fsm[p], rexmit[p], expired[p], wire[q], B, so)
  <2>1. PacketsIn(v) \subseteq PacketsIn(w)
    BY <1>2, <1>3, PacketsTail
  <2>2. B \subseteq A
    BY <1>5, <2>1, AcksLess
  <2>3. QED
    BY <1>7, <2>2, SideLess
<1>9. Side(fsm[q], rexmit[q], expired[q], v, C, sq)
  <2>1. C \subseteq C /\ sq \in {sq, NoOptions}
    OBVIOUS
  <2>2. Side(fsm[q], rexmit[q], expired[q], Tail(w), C, sq)
    BY <1>3, <1>7, <2>1, SideLess
  <2>3. QED
    BY <1>2, <2>2
<1>10. /\ Side(fsm'[p], rexmit'[p], expired'[p], wire'[Peer(p)],
              Acks(wire'[p], fsm'[Peer(p)].out), fsm'[Peer(p)].SEND_OPT)
       /\ Side(fsm'[Peer(p)], rexmit'[Peer(p)], expired'[Peer(p)], wire'[p],
              Acks(wire'[Peer(p)], fsm'[p].out), fsm'[p].SEND_OPT)
       /\ Agreed(fsm'[p]) /\ Agreed(fsm'[Peer(p)])
  BY <1>1, <1>3, <1>4, <1>5, <1>6, <1>7, <1>8, <1>9
<1>11. QED
  BY <1>3, <1>10, AgreeStep

LEMMA AgreeTimedOut ==
  ASSUME TimedLine, LineInv, AgreeLine, setup.patient, NEW p \in Peers, TimedOut(p)
  PROVE  AgreeLine'
<1>1. PICK q \in Peers : q = Peer(p) /\ q # p
  BY PeerFacts
<1>2. PICK f, rx, ex, w : f = fsm[p] /\ rx = rexmit[p] /\ ex = expired[p] /\ w = wire[q]
  OBVIOUS
<1>3. PICK m, x : m = ex[1] /\ x = ex[1].pkt
  OBVIOUS
<1>4. /\ ex # <<>> /\ setup' = setup /\ expired' = [expired EXCEPT ![p] = <<>>]
      /\ Typed(f) /\ IsSeq(f.out) /\ IsSeq(rx) /\ IsSeq(w) /\ f.CURID \in Nat
      /\ IsSeq(ex) /\ Len(ex) \in Nat /\ Len(ex) > 0
  <2>1. IsSeq(w) /\ IsSeq(ex)
    BY <1>2, LineAt DEF TimedLine, Timed, Packets
  <2>2. QED
    BY <1>2, <2>1, LineAt, TypedFacts, IsSeqFacts DEF TimedOut, Fielded
<1>5. PICK hard \in BOOLEAN :
        /\ hard <=> m.retry = 1
        /\ fsm' = [fsm EXCEPT ![p] = Timeout(f, hard)]
  <2>1. fsm' = [fsm EXCEPT ![p] = Timeout(f, m.retry = 1)]
    BY <1>2, <1>3 DEF TimedOut
  <2>2. (m.retry = 1) \in BOOLEAN
    OBVIOUS
  <2>3. QED
    BY <2>1, <2>2, Zenon
<1>6. PICK g : g = Timeout(f, hard)
  OBVIOUS
<1>7. PICK A, so, B, sf : /\ A = Acks(wire[p], fsm[q].out) /\ so = fsm[q].SEND_OPT
                          /\ B = Acks(w, f.out) /\ sf = f.SEND_OPT
  OBVIOUS
<1>8. /\ Side(f, rx, ex, w, A, so)
      /\ Side(fsm[q], rexmit[q], expired[q], wire[p], B, sf)
      /\ Agreed(f) /\ Agreed(fsm[q])
  BY <1>1, <1>2, <1>7, AgreeAt DEF Agreeing
<1>9. Says(f, g, A) /\ g.out = f.out
  BY <1>4, <1>6, TimeoutSays, TimeoutDone
<1>10. Side(g, rx, ex, w, A, so) /\ Agreed(g)
  <2>1. Follows(f, g, A)
    BY <1>4, <1>9, MovedFollows DEF Says
  <2>2. Ripe(f, Len(rx) + Len(ex))
    BY <1>2, RipeNow
  <2>3. QED
    BY <1>8, <1>9, <2>1, <2>2 DEF Follows, Says
<1>11. w = <<>>
  BY <1>1, <1>2, <1>4, LineAt DEF Calm
<1>12. PICK sx, v :
         /\ rexmit' = [rexmit EXCEPT ![p] = sx] /\ wire' = [wire EXCEPT ![q] = v]
         /\ Side(g, sx, <<>>, v, A, so)
         /\ v = w \/ v = Append(w, x)
  <2>1. CASE m.retry = 1
    <3>1. Side(g, rx, <<>>, w, A, so)
      BY <1>4, <1>10, <1>11, SideTimedOut
    <3>2. /\ rexmit' = rexmit /\ rexmit = [r \in Peers |-> rexmit[r]]
          /\ wire' = wire /\ wire = [r \in Peers |-> wire[r]]
      BY <1>2, <1>3, <2>1 DEF TimedOut, TimedLine
    <3>3. rexmit' = [rexmit EXCEPT ![p] = rx] /\ wire' = [wire EXCEPT ![q] = w]
      BY <1>2, <3>2
    <3>4. QED
      BY <3>1, <3>3
  <2>2. CASE m.retry # 1
    <3>1. PICK t : t = [m EXCEPT !.retry = @ - 1]
      OBVIOUS
    <3>2. t.pkt = ex[1].pkt
      <4>1. Packets(ex, setup.conf)
        BY <1>2, <1>3, <1>4, LineAt DEF Timed
      <4>2. IsSend(m)
        <5>1. 1 \in 1 .. Len(ex)
          BY <1>4
        <5>2. QED
          BY <1>3, <4>1, <5>1 DEF Packets
      <4>3. PICK y, z : m = [cmd |-> "SEND", pkt |-> y, retry |-> z]
        BY <4>2 DEF IsSend, Send
      <4>4. QED
        BY <1>3, <3>1, <4>3
    <3>3. PICK i \in 1 .. Len(rx) + 1 : rexmit' = [rexmit EXCEPT ![p] = InsertAt(rx, i, t)]
      BY <1>2, <1>3, <2>2, <3>1 DEF TimedOut, Enqueue
    <3>4. PICK sx, v : sx = InsertAt(rx, i, t) /\ v = Append(w, ex[1].pkt)
      OBVIOUS
    <3>5. Side(g, sx, <<>>, v, A, so)
      BY <1>4, <1>10, <1>11, <3>2, <3>4, SideTimedOut
    <3>6. wire' = [wire EXCEPT ![q] = v]
      BY <1>1, <1>2, <1>3, <2>2, <3>4 DEF TimedOut, Write
    <3>7. rexmit' = [rexmit EXCEPT ![p] = sx] /\ v = Append(w, x)
      BY <1>3, <3>3, <3>4
    <3>8. QED
      BY <3>5, <3>6, <3>7
  <2>3. QED
    BY <2>1, <2>2
<1>13. /\ fsm'[p] = g /\ fsm'[q] = fsm[q] /\ wire'[q] = v /\ wire'[p] = wire[p]
       /\ rexmit'[p] = sx /\ rexmit'[q] = rexmit[q]
       /\ expired'[p] = <<>> /\ expired'[q] = expired[q]
  <2>1. fsm' = [fsm EXCEPT ![p] = g]
    BY <1>5, <1>6
  <2>2. fsm = [r \in Peers |-> fsm[r]]
    BY DEF LineInv
  <2>3. /\ wire = [r \in Peers |-> wire[r]] /\ rexmit = [r \in Peers |-> rexmit[r]]
        /\ expired = [r \in Peers |-> expired[r]]
    BY DEF TimedLine
  <2>4. fsm'[p] = g /\ fsm'[q] = fsm[q]
    BY <1>1, <2>1, <2>2, UpdateAt
  <2>5. wire'[q] = v /\ wire'[p] = wire[p]
    BY <1>1, <1>12, <2>3, UpdateAt
  <2>6. rexmit'[p] = sx /\ rexmit'[q] = rexmit[q]
    BY <1>1, <1>12, <2>3, UpdateAt
  <2>7. expired'[p] = <<>> /\ expired'[q] = expired[q]
    BY <1>1, <1>4, <2>3, UpdateAt
  <2>8. QED
    BY <2>4, <2>5, <2>6, <2>7
<1>14. PICK C, sg : C = Acks(v, g.out) /\ sg = g.SEND_OPT
  OBVIOUS
<1>15. C \subseteq B
  <2>1. x.code # "ACK"
    <3>1. x \in HeldIn(ex)
      BY <1>3, <1>4 DEF HeldIn
    <3>2. QED
      BY <1>8, <3>1 DEF Side, InTime
  <2>2. PacketsIn(v) \subseteq PacketsIn(w) \cup {x}
    BY <1>4, <1>12, PacketsAppend
  <2>3. SentIn(g.out) = SentIn(f.out)
    BY <1>9
  <2>4. QED
    BY <1>7, <1>14, <2>1, <2>2, <2>3 DEF Acks
<1>16. Side(fsm[q], rexmit[q], expired[q], wire[p], C, sg)
  <2>1. sg \in {sf, NoOptions}
    BY <1>7, <1>9, <1>14 DEF Says, SameWord
  <2>2. QED
    BY <1>8, <1>15, <2>1, SideLess
<1>17. /\ Side(fsm'[p], rexmit'[p], expired'[p], wire'[Peer(p)],
              Acks(wire'[p], fsm'[Peer(p)].out), fsm'[Peer(p)].SEND_OPT)
       /\ Side(fsm'[Peer(p)], rexmit'[Peer(p)], expired'[Peer(p)], wire'[p],
              Acks(wire'[Peer(p)], fsm'[p].out), fsm'[p].SEND_OPT)
       /\ Agreed(fsm'[p]) /\ Agreed(fsm'[Peer(p)])
  BY <1>1, <1>7, <1>8, <1>10, <1>12, <1>13, <1>14, <1>16
<1>18. QED
  BY <1>4, <1>17, AgreeStep

LEMMA AgreeInit ==
  ASSUME PppInit
  PROVE  AgreeLine
<1>1. PICK e : e = <<>>
  OBVIOUS
<1>2. Len(e) = 0 /\ PacketsIn(e) = {} /\ HeldIn(e) = {} /\ SentIn(e) = {}
  BY <1>1, NoneIn
<1>3. ASSUME NEW r \in Peers
      PROVE  Agreeing(r) /\ Agreed(fsm[r])
  <2>1. PICK f, q : f = Fresh(r) /\ q = Peer(r) /\ q \in Peers
    BY <1>3, PeerFacts
  <2>2. /\ fsm[r] = f /\ fsm[q] = Fresh(q) /\ rexmit[r] = e /\ expired[r] = e
        /\ wire[r] = e /\ wire[q] = e
    BY <1>1, <1>3, <2>1 DEF PppInit
  <2>3. /\ f.STATE = INITIAL /\ f.CURID = 0 /\ f.REQID = -1 /\ f.out = e
        /\ Fresh(q).out = e /\ Fresh(q).SEND_OPT = NoOptions
    BY <1>1, <2>1 DEF Fresh
  <2>4. PICK A : A = Acks(e, e)
    OBVIOUS
  <2>5. A = {}
    BY <1>2, <2>4 DEF Acks
  <2>6. ~Accepting(f) /\ Agreed(f)
    BY <2>3, StateNumbers DEF Accepting, Agreed
  <2>7. Claims(f, {}, {}, A, NoOptions)
    BY <2>5, <2>6 DEF Claims, Granted, Confirmed, NoOldReq
  <2>8. InOrder(-1, {}, e, e)
    BY <1>2 DEF InOrder, NoOldReq
  <2>9. InTime(-1, 0, {}, e)
    BY <1>2 DEF InTime
  <2>10. Side(f, e, e, e, A, NoOptions)
    <3>1. /\ PacketsIn(e) \cup HeldIn(e) \cup SentIn(f.out) = {} /\ HeldIn(e) = {}
          /\ HeldIn(e) \cup HeldIn(e) = {} /\ Len(e) + Len(e) = 0
      BY <1>2, <2>3
    <3>2. Claims(f, PacketsIn(e) \cup HeldIn(e) \cup SentIn(f.out), HeldIn(e), A, NoOptions)
      BY <2>7, <3>1
    <3>3. InOrder(f.REQID, HeldIn(e), e, f.out)
      BY <2>3, <2>8, <3>1
    <3>4. InTime(f.REQID, Len(e) + Len(e), HeldIn(e) \cup HeldIn(e), f.out)
      BY <2>3, <2>9, <3>1
    <3>5. QED
      BY <3>2, <3>3, <3>4 DEF Side
  <2>11. QED
    BY <2>1, <2>2, <2>3, <2>4, <2>6, <2>10 DEF Agreeing
<1>4. QED
  BY <1>3 DEF AgreeLine

LEMMA SetupKept ==
  ASSUME [PppNext]_pppVars
  PROVE  setup' = setup
<1>1. CASE UNCHANGED pppVars
  BY <1>1 DEF pppVars
<1>2. ASSUME NEW p \in Peers, Call(p)
      PROVE  setup' = setup
  BY <1>2 DEF Call, PPPFSM_lowerup, PPPFSM_lowerdown, PPPFSM_open, PPPFSM_close, Called
<1>3. ASSUME NEW p \in Peers, Input(p)
      PROVE  setup' = setup
  BY <1>3 DEF Input, InputConfReq, InputConfAck, InputConfNak, InputTermReq,
              InputTermAck, InputDropped, Received
<1>4. ASSUME NEW p \in Peers, Transmit(p) \/ Expire(p) \/ Lose(p)
      PROVE  setup' = setup
  BY <1>4 DEF Transmit, TakeSend, TakeRestart, TakeStop, TimedOut, Taken, Expire, Lose
<1>5. QED
  BY <1>1, <1>2, <1>3, <1>4 DEF PppNext

LEMMA AgreeNext ==
  ASSUME TimedLine, LineInv, Ample, AgreeLine, [PppNext]_pppVars
  PROVE  AgreeLine'
<1>1. CASE ~setup.patient
  BY <1>1, SetupKept DEF AgreeLine
<1>2. CASE UNCHANGED pppVars
  BY <1>2 DEF AgreeLine, Agreeing, pppVars
<1>3. ASSUME setup.patient, NEW p \in Peers, Transmit(p)
      PROVE  AgreeLine'
  BY <1>3, AgreeTakeSend, AgreeTakeRestart, AgreeTakeStop, AgreeTimedOut DEF Transmit
<1>4. CASE setup.patient /\ PppNext
  BY <1>3, <1>4, AgreeCall, AgreeInput, AgreeExpiry, AgreeLose DEF PppNext
<1>5. QED
  BY <1>1, <1>2, <1>4

\* Whatever the situations, the calls, the losses and the retries allowed:
\* an end whose data passes has its own last request as the options it
\* receives with, and with timers longer than a round trip and unless memory
\* was short two ends whose data passes have agreed, each sending with what
\* the other receives with.
THEOREM OptionsAlwaysAgree == PppSpec => []OptionsAgree
<1> DEFINE I == LineInv /\ TypedLine /\ (Supplied => TimedLine /\ AgreeLine)
<1>1. ASSUME I
      PROVE  OptionsAgree
  <2>1. ASSUME NEW p \in Peers, fsm[p].LINK
        PROVE  /\ fsm[p].STATE = OPENED
               /\ fsm[p].RECV_OPT = [id |-> fsm[p].REQID, opts |-> fsm[p].RECV_NEG]
    <3>1. Valid(p, fsm[p])
      BY <1>1 DEF LineInv
    <3>2. fsm[p].LINK = TRUE
      BY <2>1, <3>1 DEF Valid
    <3>3. QED
      BY <3>1, <3>2 DEF Valid, Accepted
  <2>2. ASSUME NEW p \in Peers, fsm[p].LINK, setup.patient, Supplied,
               fsm[Peer(p)].LINK
        PROVE  fsm[Peer(p)].SEND_OPT = fsm[p].RECV_OPT
    <3>1. PICK f, so : f = fsm[p] /\ so = fsm[Peer(p)].SEND_OPT
      OBVIOUS
    <3>2. PICK rx, ex, w, A : Side(f, rx, ex, w, A, so)
      BY <1>1, <2>2, <3>1, AgreeAt DEF Agreeing
    <3>3. f.STATE = OPENED /\ f.RECV_OPT = [id |-> f.REQID, opts |-> f.RECV_NEG]
      BY <2>1, <2>2, <3>1
    <3>4. so # NoOptions
      <4>1. fsm[Peer(p)].STATE = OPENED
        BY <2>1, <2>2, PeerFacts
      <4>2. Agreed(fsm[Peer(p)])
        BY <1>1, <2>2, AgreeAt
      <4>3. QED
        BY <3>1, <4>1, <4>2 DEF Agreed
    <3>5. Accepting(f) /\ Confirmed(f, A)
      BY <3>3 DEF Accepting, Confirmed
    <3>6. so.id = f.REQID /\ so = [id |-> so.id, opts |-> so.opts]
      BY <3>2, <3>4, <3>5 DEF Side, Claims
    <3>7. so.opts = f.RECV_NEG
      <4>1. so \in Granted(A, so)
        BY <3>4 DEF Granted
      <4>2. QED
        BY <3>2, <3>5, <3>6, <4>1 DEF Side, Claims
    <3>8. QED
      BY <3>1, <3>3, <3>6, <3>7
  <2>3. QED
    BY <2>1, <2>2 DEF OptionsAgree
<1>2. PppInit => I
  BY LineInit, TypedInit, TimedInit, AgreeInit
<1>3. I /\ [PppNext]_pppVars => I'
  <2>1. ASSUME I, [PppNext]_pppVars
        PROVE  LineInv' /\ TypedLine'
    BY <2>1, TypedFramed, LineNext, TypedNext
  <2>2. ASSUME I, [PppNext]_pppVars, Supplied'
        PROVE  TimedLine' /\ AgreeLine'
    <3>1. Ample /\ TimedLine /\ AgreeLine
      BY <2>2, SuppliedBefore DEF Ample
    <3>2. QED
      BY <2>2, <3>1, TimedNext, AgreeNext
  <2>3. QED
    BY <2>1, <2>2
<1>4. QED
  BY <1>1, <1>2, <1>3, PTL DEF PppSpec
=============================================================================
