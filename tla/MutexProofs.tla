----------------------------- MODULE MutexProofs -----------------------------
(***************************************************************************)
(* For every set of tasks and mutexes, every protocol, priority and        *)
(* ceiling: mutual exclusion, and the agreement of the queues of mutexes,  *)
(* the states of the tasks and their places in the calls.  For a mutex by  *)
(* itself, which keeps its ceiling and is queued for by priority when it   *)
(* is inherited from: the priorities mutex.h promises.                     *)
(***************************************************************************)
EXTENDS Mutex, KernelProofs

Owned(s, t) == s.lock /\ s.owner = t

\* One mutex: its queue holds the tasks that wait for it, and a mutex that is
\* waited for is locked.
Queue(s, m, state, c) ==
  /\ Inj(s.waiters)
  /\ ToSet(s.waiters) = {t \in AppTask : /\ state[t] = "MUTEX_BLOCKED"
                                         /\ c[t].pc = "blocked" /\ c[t].m = m}
  /\ s.waiters # <<>> => s.lock
  /\ s.lock <=> s.owner # Nobody

\* One task, in state st, at place x, holding the mutexes g.  A task that was
\* woken from a mutex owns it, unless that was destroyed.
Place(t, mu, st, x, g) ==
  /\ \A m \in g : Owned(mu[m], t)
  /\ x.pc \in {"protect", "destroy", "flush"} => Owned(mu[x.m], t)
  /\ x.pc = "flush" => ~mu[x.m].valid
  /\ x.pc = "lock" => mu[x.m].owner # t
  /\ x.pc = "blocked" /\ st = "MUTEX_BLOCKED" => mu[x.m].owner # t
  /\ x.pc = "blocked" /\ st # "MUTEX_BLOCKED" /\ mu[x.m].valid => Owned(mu[x.m], t)

Tidy(mu, state, c, h) ==
  /\ \A m \in MutexId : Queue(mu[m], m, state, c)
  /\ \A t \in AppTask : Place(t, mu, state[t], c[t], h[t])

DataOK ==
  /\ mutex \in [MutexId -> MutexStruct]
  /\ at \in [AppTask -> At]
  /\ held \in [AppTask -> SUBSET MutexId]

\* No timeouts, no ticks: _mutex_lock waits without them.
Quiet(d) == Sound(d) /\ ~d.ticking /\ \A t \in Task : ~d.timed[t]

IInv == DataOK /\ Quiet(k) /\ Tidy(mutex, k.state, at, held)

-----------------------------------------------------------------------------
(* The kernel under the calls of mutex.c.                                   *)

LEMMA QuietPrime == Quiet(k') <=> Quiet(k)'
BY DEF Quiet, Sound, Basic, Agree, NoneAbove, IsReady

LEMMA QuietFacts ==
  ASSUME NEW d, Quiet(d)
  PROVE  /\ d \in Kernel /\ Sound(d) /\ Basic(d) /\ ~d.ticking
         /\ d.state \in [Task -> State] /\ d.active \in Task
         /\ d.my \in [Task -> Prio] /\ d.home \in [Task -> Prio]
         /\ d.boosted \in [Task -> Nat] /\ d.timed \in [Task -> BOOLEAN]
         /\ \A t \in Task : IsReady(d, t) <=> d.state[t] = "READY"
         /\ ~d.pend => IsReady(d, d.active)
BY DEF Quiet, Sound, Basic, Kernel, IsReady

\* _sched_set_priority_internal moves a descriptor, and may switch; no task
\* becomes ready or stops being so.
LEMMA SetPriorityEffect ==
  ASSUME NEW d, Quiet(d), IsReady(d, d.active), NEW t \in Task, NEW p \in Prio
  PROVE  LET e == SetPriorityInternal(d, t, p)
         IN  Quiet(e) /\ e.state = d.state /\ e.timed = d.timed
<1> DEFINE m == [d EXCEPT !.my[t] = p]
           u == Unlink(m, t, d.my[t])
           r == TaskReady(u, t)
           e == SetPriorityInternal(d, t, p)
<1>1. /\ d \in Kernel /\ Basic(d) /\ ~d.ticking /\ d.state \in [Task -> State]
      /\ IsReady(d, t) <=> d.state[t] = "READY"
  BY QuietFacts
<1>2. Basic(e) /\ IsReady(e, e.active) /\ e.isr = d.isr
  BY <1>1, SetPriorityLemma
<1>3. m \in Kernel /\ m.state = d.state /\ m.timed = d.timed /\ m.ticking = d.ticking
  BY <1>1 DEF Kernel
<1> HIDE DEF m
<1>4. /\ u.state = d.state /\ u.timed = d.timed /\ u.ticking = d.ticking
      /\ u.active = m.active /\ u.my = m.my
  BY <1>3 DEF Unlink, Kernel
<1>5. CASE ~IsReady(d, t)
  <2>1. e = m
    BY <1>5 DEF SetPriorityInternal, m
  <2> QED
    BY <1>1, <1>2, <1>3, <2>1 DEF Quiet, Sound
<1>6. CASE IsReady(d, t)
  <2>1. r.state = d.state /\ r.timed = d.timed /\ r.ticking = d.ticking
    <3>1. d.state = [d.state EXCEPT ![t] = "READY"]
      BY <1>1, <1>6
    <3>2. u \in [ready : {u.ready}, current : {u.current}, active : {u.active},
                 state : {u.state}, my : {u.my}, home : {u.home},
                 boosted : {u.boosted}, timeouts : {u.timeouts},
                 timed : {u.timed}, left : {u.left}, nopreempt : {u.nopreempt},
                 isr : {u.isr}, ticking : {u.ticking}, pend : {u.pend}]
      BY <1>3 DEF Unlink, Kernel
    <3> HIDE DEF u
    <3>3. /\ r.state = [u.state EXCEPT ![t] = "READY"]
          /\ r.timed = u.timed /\ r.ticking = u.ticking
      BY <3>2 DEF TaskReady
    <3> QED
      BY <1>4, <3>1, <3>3
  <2>2. e = r \/ e = Dispatch(r)
    BY <1>6 DEF SetPriorityInternal, m
  <2>3. Dispatch(r).state = r.state /\ Dispatch(r).timed = r.timed
        /\ Dispatch(r).ticking = r.ticking
    <3>1. r \in [ready : {r.ready}, current : {r.current}, active : {r.active},
                 state : {r.state}, my : {r.my}, home : {r.home},
                 boosted : {r.boosted}, timeouts : {r.timeouts},
                 timed : {r.timed}, left : {r.left}, nopreempt : {r.nopreempt},
                 isr : {r.isr}, ticking : {r.ticking}, pend : {r.pend}]
      BY <1>3 DEF TaskReady, Unlink, Kernel
    <3> HIDE DEF r
    <3> QED
      BY <3>1 DEF Dispatch
  <2> HIDE DEF r
  <2>4. e.state = d.state /\ e.timed = d.timed /\ e.ticking = d.ticking
    BY <2>1, <2>2, <2>3
  <2> QED
    BY <1>1, <1>2, <2>4 DEF Quiet, Sound
<1> QED
  BY <1>5, <1>6

LEMMA QuietCheck ==
  ASSUME NEW d, Quiet(d)
  PROVE  /\ LET e == CheckRunScheduler(d)
            IN  Quiet(e) /\ e.state = d.state /\ e.timed = d.timed
         /\ LET e == PendScheduler(d)
            IN  Quiet(e) /\ e.state = d.state /\ e.timed = d.timed
BY QuietFacts, SoundCheck, SoundPend, DispatchEffect, IsrEffect DEF Quiet

\* TD.BOOSTED is counted; nothing depends on it but the next unboost.
LEMMA QuietCount ==
  ASSUME NEW d, Quiet(d), NEW t \in Task, NEW n \in Nat
  PROVE  LET e == [d EXCEPT !.boosted[t] = n]
         IN  /\ Quiet(e) /\ e.state = d.state /\ e.timed = d.timed
             /\ e.home = d.home /\ e.active = d.active /\ e.pend = d.pend
<1> DEFINE e == [d EXCEPT !.boosted[t] = n]
<1>1. d \in Kernel
  BY QuietFacts
<1>2. /\ e \in Kernel /\ e.ready = d.ready /\ e.timeouts = d.timeouts
      /\ e.state = d.state /\ e.timed = d.timed /\ e.my = d.my
      /\ e.current = d.current /\ e.isr = d.isr /\ e.ticking = d.ticking
      /\ e.pend = d.pend /\ e.active = d.active /\ e.home = d.home
  BY <1>1 DEF Kernel
<1> HIDE DEF e
<1>3. Quiet(e)
  BY <1>2 DEF Quiet, Sound, Basic, Agree, NoneAbove, IsReady
<1> QED
  BY <1>2, <1>3 DEF e

LEMMA QuietBoost ==
  ASSUME NEW d, Quiet(d), IsReady(d, d.active), NEW t \in Task, NEW p \in Prio
  PROVE  LET e == BoostPriority(d, t, p)
         IN  Quiet(e) /\ e.state = d.state /\ e.timed = d.timed
<1>1. d.boosted[t] + 1 \in Nat
  BY QuietFacts
<1>2. PICK b : b = [d EXCEPT !.boosted[t] = d.boosted[t] + 1]
  OBVIOUS
<1>3. /\ Quiet(b) /\ b.state = d.state /\ b.timed = d.timed
      /\ b.active = d.active
  BY <1>1, <1>2, QuietCount
<1>4. IsReady(b, b.active)
  BY <1>3 DEF IsReady
<1>5. PICK s : s = SetPriorityInternal(b, t, p)
  OBVIOUS
<1>6. Quiet(s) /\ s.state = b.state /\ s.timed = b.timed
  BY <1>3, <1>4, <1>5, SetPriorityEffect
<1>7. BoostPriority(d, t, p) = CheckRunScheduler(s)
  BY <1>2, <1>5 DEF BoostPriority
<1> QED
  BY <1>3, <1>6, <1>7, QuietCheck

LEMMA QuietUnboost ==
  ASSUME NEW d, Quiet(d), IsReady(d, d.active), NEW t \in Task, NEW n \in Nat
  PROVE  LET e == UnboostPriority(d, t, n)
         IN  Quiet(e) /\ e.state = d.state /\ e.timed = d.timed
<1>1. d.boosted[t] \in Nat /\ d.home[t] \in Prio
  BY QuietFacts
<1>2. CASE d.boosted[t] = 0
  BY <1>2 DEF UnboostPriority
<1>3. CASE d.boosted[t] # 0 /\ d.boosted[t] > n
  <2>1. d.boosted[t] - n \in Nat
    BY <1>1, <1>3
  <2>2. UnboostPriority(d, t, n) = [d EXCEPT !.boosted[t] = d.boosted[t] - n]
    BY <1>3 DEF UnboostPriority
  <2> QED
    BY <2>1, <2>2, QuietCount
<1>4. CASE d.boosted[t] # 0 /\ ~(d.boosted[t] > n)
  <2>1. PICK b : b = [d EXCEPT !.boosted[t] = 0]
    OBVIOUS
  <2>2. /\ Quiet(b) /\ b.state = d.state /\ b.timed = d.timed
        /\ b.active = d.active
    BY <2>1, QuietCount
  <2>3. IsReady(b, b.active)
    BY <2>2 DEF IsReady
  <2>4. PICK s : s = SetPriorityInternal(b, t, d.home[t])
    OBVIOUS
  <2>5. Quiet(s) /\ s.state = b.state /\ s.timed = b.timed
    BY <1>1, <2>2, <2>3, <2>4, SetPriorityEffect
  <2>6. UnboostPriority(d, t, n) = CheckRunScheduler(s)
    BY <1>4, <2>1, <2>4 DEF UnboostPriority
  <2> QED
    BY <2>2, <2>5, <2>6, QuietCheck
<1> QED
  BY <1>2, <1>3, <1>4

\* A task is readied; no switch yet.
LEMMA QuietReady ==
  ASSUME NEW d, Quiet(d), NEW t \in Task, d.state[t] # "READY"
  PROVE  LET e == TaskReady(d, t)
         IN  /\ Quiet(e) /\ e.state = [d.state EXCEPT ![t] = "READY"]
             /\ e.active = d.active /\ e.pend = d.pend
             /\ ~d.pend => IsReady(e, e.active)
<1> DEFINE e == TaskReady(d, t)
<1>1. d \in Kernel /\ Sound(d) /\ ~d.ticking /\ \A v \in Task : ~d.timed[v]
  BY QuietFacts DEF Quiet
<1>2. /\ Sound(e) /\ e.state = [d.state EXCEPT ![t] = "READY"]
      /\ e.timed = [d.timed EXCEPT ![t] = FALSE]
  BY <1>1, SoundReady
<1>3. e.active = d.active /\ e.pend = d.pend /\ e.ticking = d.ticking
  BY <1>1 DEF TaskReady, Kernel
<1>4. \A v \in Task : ~e.timed[v]
  <2>1. d.timed \in [Task -> BOOLEAN]
    BY QuietFacts
  <2> QED
    BY <1>1, <1>2, <2>1
<1> HIDE DEF e
<1>5. Quiet(e)
  BY <1>1, <1>2, <1>3, <1>4 DEF Quiet
<1>6. ~d.pend => IsReady(e, e.active)
  BY <1>3, <1>5, QuietFacts
<1> QED
  BY <1>2, <1>3, <1>5, <1>6 DEF e

\* The executing task, or one that has just lost the processor, blocks.
LEMMA QuietPark ==
  ASSUME NEW d, Quiet(d), NEW t \in AppTask, IsReady(d, t),
         NEW st \in State \ {"READY"}
  PROVE  LET e == Dispatch([Unlink(d, t, d.my[t]) EXCEPT !.state[t] = st])
         IN  Quiet(e) /\ e.state = [d.state EXCEPT ![t] = st]
<1> DEFINE b == [Unlink(d, t, d.my[t]) EXCEPT !.state[t] = st]
           e == Dispatch(b)
<1>1. Sound(d) /\ d \in Kernel /\ ~d.ticking /\ \A v \in Task : ~d.timed[v]
  BY QuietFacts DEF Quiet
<1>2. /\ Basic(b) /\ (b.ticking => b.isr > 0)
      /\ b.state = [d.state EXCEPT ![t] = st] /\ b.timed = d.timed
  BY <1>1, ParkEffect
<1>3. b.ticking = d.ticking
  BY <1>1 DEF Unlink, Kernel
<1> HIDE DEF b
<1>4. b \in Kernel
  BY <1>2 DEF Basic
<1>5. Sound(e) /\ e.state = b.state /\ e.timed = b.timed
  BY <1>2, SoundDispatch
<1>6. e.ticking = b.ticking
  BY <1>4, DispatchEffect
<1> QED
  BY <1>1, <1>2, <1>3, <1>5, <1>6 DEF Quiet, b

\* What does not concern mutexes: _task_block, handlers, the dispatcher.
LEMMA QuietBlock ==
  ASSUME NEW d, Quiet(d), NEW t \in AppTask, IsReady(d, t)
  PROVE  LET e == TaskBlock(d, t)
         IN  Quiet(e) /\ e.state = [d.state EXCEPT ![t] = "BLOCKED"]
<1> DEFINE e == TaskBlock(d, t)
<1>1. Sound(d) /\ d \in Kernel /\ ~d.ticking /\ \A v \in Task : ~d.timed[v]
  BY QuietFacts DEF Quiet
<1>2. /\ Sound(e) /\ e.state = [d.state EXCEPT ![t] = "BLOCKED"]
      /\ e.timed = d.timed
  BY <1>1, SoundBlock
<1>3. e.ticking = d.ticking
  BY <1>1 DEF TaskBlock, Unlink, Kernel
<1> HIDE DEF e
<1> QED
  BY <1>1, <1>2, <1>3 DEF Quiet, e

LEMMA QuietIsr ==
  ASSUME NEW d, Quiet(d)
  PROVE  /\ LET e == IsrEntry(d) IN Quiet(e) /\ e.state = d.state
         /\ d.isr > 0 => LET e == IsrReturn(d) IN Quiet(e) /\ e.state = d.state
         /\ LET e == Dispatch(d) IN Quiet(e) /\ e.state = d.state
<1>1. /\ Sound(d) /\ Basic(d) /\ d \in Kernel /\ ~d.ticking
      /\ \A v \in Task : ~d.timed[v]
  BY QuietFacts DEF Quiet
<1>2. LET e == IsrEntry(d)
      IN  Sound(e) /\ e.state = d.state /\ e.timed = d.timed /\ ~e.ticking
  BY <1>1, SoundIsr DEF IsrEntry, Kernel
<1>3. d.isr > 0 =>
        LET e == IsrReturn(d)
        IN  Sound(e) /\ e.state = d.state /\ e.timed = d.timed /\ ~e.ticking
  BY <1>1, SoundIsr, IsrEffect
<1>4. LET e == Dispatch(d)
      IN  Sound(e) /\ e.state = d.state /\ e.timed = d.timed /\ ~e.ticking
  BY <1>1, SoundDispatch, DispatchEffect
<1> QED
  BY <1>1, <1>2, <1>3, <1>4 DEF Quiet

-----------------------------------------------------------------------------
(* Places in the calls.                                                     *)

LEMMA AtLemma ==
  ASSUME NEW a \in At
  PROVE  /\ a.pc \in {"free", "lock", "blocked", "protect", "handover",
                      "unboost", "destroy", "flush"}
         /\ a.pc \notin {"free", "unboost"} => a.m \in MutexId
         /\ a.pc = "lock" => a.priority \in Prio
         /\ a.pc \in {"lock", "blocked", "protect"} => a.goal \in Goal
         /\ a.pc \in {"handover", "unboost"} => a.count \in Nat
         /\ a.pc = "handover" => a.more \in {0, 1}
<1>1. CASE a = Free
  BY <1>1 DEF Free
<1>2. CASE a \in [pc : {"lock"}, m : MutexId, priority : Prio, goal : Goal]
  BY <1>2
<1>3. CASE a \in [pc : {"blocked", "protect"}, m : MutexId, goal : Goal]
  BY <1>3
<1>4. CASE a \in [pc : {"handover"}, m : MutexId, count : Nat, more : {0, 1}]
  BY <1>4
<1>5. CASE a \in [pc : {"unboost"}, count : Nat]
  BY <1>5
<1>6. CASE a \in [pc : {"destroy", "flush"}, m : MutexId]
  BY <1>6
<1> QED
  BY <1>1, <1>2, <1>3, <1>4, <1>5, <1>6 DEF At

\* What the actions put there.
LEMMA PlaceLemma ==
  /\ Free \in At /\ Free.pc = "free"
  /\ \A m \in MutexId, p \in Prio, g \in Goal :
       /\ [pc |-> "lock", m |-> m, priority |-> p, goal |-> g] \in At
       /\ [pc |-> "blocked", m |-> m, goal |-> g] \in At
       /\ [pc |-> "protect", m |-> m, goal |-> g] \in At
  /\ \A m \in MutexId :
       [pc |-> "destroy", m |-> m] \in At /\ [pc |-> "flush", m |-> m] \in At
  /\ \A n \in Nat :
       /\ [pc |-> "unboost", count |-> n] \in At
       /\ \A m \in MutexId, i \in {0, 1} :
            [pc |-> "handover", m |-> m, count |-> n, more |-> i] \in At
BY DEF At, Free

\* What a step of the executing task may assume.
LEMMA RunsLemma ==
  ASSUME IInv, NEW t \in AppTask, Runs(k, t)
  PROVE  /\ t \in Task /\ k.active = t /\ IsReady(k, t) /\ k.state[t] = "READY"
         /\ IsReady(k, k.active) /\ k.state \in [Task -> State]
         /\ Place(t, mutex, "READY", at[t], held[t])
         /\ at[t] \in At
<1>1. /\ Quiet(k) /\ t \in Task /\ k.active = t /\ ~k.pend
      /\ Tidy(mutex, k.state, at, held) /\ at[t] \in At
  BY AppTaskLemma DEF IInv, DataOK, Runs
<1>2. k.state[t] = "READY" /\ IsReady(k, t)
  BY <1>1, QuietFacts
<1>3. Place(t, mutex, k.state[t], at[t], held[t])
  BY <1>1 DEF Tidy
<1> QED
  BY <1>1, <1>2, <1>3, QuietFacts

-----------------------------------------------------------------------------
(* What the actions do to the mutexes and to who owns them.                 *)

\* The executing task goes on; BOOSTED and the attributes may change.
LEMMA MoveLemma ==
  ASSUME NEW mu, NEW mv, NEW state, NEW c \in [AppTask -> At],
         NEW h \in [AppTask -> SUBSET MutexId], NEW t \in AppTask,
         Tidy(mu, state, c, h), state[t] = "READY",
         \A m \in MutexId : /\ mv[m].lock = mu[m].lock
                            /\ mv[m].owner = mu[m].owner
                            /\ mv[m].waiters = mu[m].waiters
                            /\ mv[m].valid = mu[m].valid,
         NEW x \in At, NEW g \in SUBSET MutexId, Place(t, mu, "READY", x, g)
  PROVE  Tidy(mv, state, [c EXCEPT ![t] = x], [h EXCEPT ![t] = g])
<1> DEFINE d == [c EXCEPT ![t] = x]
           i == [h EXCEPT ![t] = g]
<1>1. /\ d[t] = x /\ i[t] = g
      /\ \A u \in AppTask \ {t} : d[u] = c[u] /\ i[u] = h[u]
      /\ d \in [AppTask -> At] /\ i \in [AppTask -> SUBSET MutexId]
  OBVIOUS
<1> HIDE DEF d, i
<1>2. \A m \in MutexId : Queue(mv[m], m, state, d)
  BY <1>1 DEF Tidy, Queue
<1>3. \A u \in AppTask : Place(u, mu, state[u], d[u], i[u])
  BY <1>1 DEF Tidy
<1>4. \A u \in AppTask : Place(u, mv, state[u], d[u], i[u])
  BY <1>1, <1>3, AtLemma DEF Place, Owned
<1> QED
  BY <1>2, <1>4 DEF Tidy, d, i

\* Tasks change that do not wait for a mutex.
LEMMA StateLemma ==
  ASSUME NEW mu, NEW state, NEW e, NEW c, NEW h, Tidy(mu, state, c, h),
         \A t \in AppTask : e[t] = "MUTEX_BLOCKED" <=> state[t] = "MUTEX_BLOCKED"
  PROVE  Tidy(mu, e, c, h)
<1>1. \A m \in MutexId : Queue(mu[m], m, e, c)
  BY DEF Tidy, Queue
<1>2. \A t \in AppTask : Place(t, mu, e[t], c[t], h[t])
  BY DEF Tidy, Place
<1> QED
  BY <1>1, <1>2 DEF Tidy

\* mv differs from mu in mutex m only, which is s there.
Changed(mu, mv, m, s) ==
  mv[m] = s /\ \A n \in MutexId \ {m} : mv[n] = mu[n]

\* The executing task takes a free mutex.
LEMMA TakeLemma ==
  ASSUME NEW mu, NEW mv, NEW state, NEW c \in [AppTask -> At],
         NEW h \in [AppTask -> SUBSET MutexId], NEW t \in AppTask,
         Tidy(mu, state, c, h), state[t] = "READY",
         NEW m \in MutexId, NEW s, Changed(mu, mv, m, s),
         ~mu[m].lock, s.lock, s.owner = t, s.valid = mu[m].valid,
         s.waiters = mu[m].waiters,
         NEW x \in At, NEW g \in SUBSET MutexId, Place(t, mv, "READY", x, g)
  PROVE  Tidy(mv, state, [c EXCEPT ![t] = x], [h EXCEPT ![t] = g])
<1> DEFINE d == [c EXCEPT ![t] = x]
           i == [h EXCEPT ![t] = g]
<1>1. /\ d[t] = x /\ i[t] = g
      /\ \A u \in AppTask \ {t} : d[u] = c[u] /\ i[u] = h[u]
      /\ d \in [AppTask -> At] /\ i \in [AppTask -> SUBSET MutexId]
  OBVIOUS
<1> HIDE DEF d, i
<1>2. t # Nobody
  BY AppTaskLemma, MutexAssumption
<1>3. mu[m].owner = Nobody /\ mu[m].waiters = <<>>
  BY DEF Tidy, Queue
<1>4. \A n \in MutexId : Queue(mv[n], n, state, d)
  BY <1>1, <1>2, <1>3 DEF Tidy, Queue, Changed
<1>5. \A u \in AppTask \ {t} : Place(u, mv, state[u], d[u], i[u])
  <2>1. SUFFICES ASSUME NEW u \in AppTask \ {t}
                 PROVE  Place(u, mv, state[u], c[u], h[u])
    BY <1>1
  <2>2. Place(u, mu, state[u], c[u], h[u]) /\ h[u] \subseteq MutexId /\ u # t
    BY DEF Tidy
  <2>3. \A n \in MutexId : Owned(mu[n], u) => n # m
    BY DEF Owned
  <2>4. c[u].pc = "blocked" /\ state[u] = "MUTEX_BLOCKED" => c[u].m # m
    <3>1. ToSet(mu[m].waiters) = {}
      BY <1>3, EmptyLemma
    <3> QED
      BY <3>1 DEF Tidy, Queue
  <2> QED
    BY <2>2, <2>3, <2>4, AtLemma DEF Place, Owned, Changed
<1>6. Tidy(mv, state, d, i)
  BY <1>1, <1>4, <1>5 DEF Tidy
<1> QED
  BY <1>6 DEF d, i

\* The executing task joins the queue of a mutex that another one owns.
LEMMA EnterLemma ==
  ASSUME NEW mu, NEW mv, NEW state \in [Task -> State], NEW c \in [AppTask -> At],
         NEW h \in [AppTask -> SUBSET MutexId], NEW t \in AppTask,
         Tidy(mu, state, c, h), state[t] = "READY",
         NEW m \in MutexId, NEW s, Changed(mu, mv, m, s),
         mu[m].lock, mu[m].owner # t,
         s.lock = mu[m].lock, s.owner = mu[m].owner, s.valid = mu[m].valid,
         Inj(s.waiters), ToSet(s.waiters) = ToSet(mu[m].waiters) \cup {t},
         NEW x \in At, x.pc = "blocked", x.m = m
  PROVE  Tidy(mv, [state EXCEPT ![t] = "MUTEX_BLOCKED"], [c EXCEPT ![t] = x], h)
<1> DEFINE d == [c EXCEPT ![t] = x]
           e == [state EXCEPT ![t] = "MUTEX_BLOCKED"]
<1>1. /\ d[t] = x /\ e[t] = "MUTEX_BLOCKED"
      /\ \A u \in AppTask \ {t} : d[u] = c[u] /\ e[u] = state[u]
  BY AppTaskLemma
<1> HIDE DEF d, e
<1>2. \A n \in MutexId : mv[n].lock = mu[n].lock /\ mv[n].owner = mu[n].owner
                         /\ mv[n].valid = mu[n].valid
  BY DEF Changed
<1>3. Queue(mv[m], m, e, d)
  BY <1>1 DEF Tidy, Queue, Changed
<1>4. \A n \in MutexId \ {m} : Queue(mv[n], n, e, d)
  BY <1>1 DEF Tidy, Queue, Changed
<1>5. \A u \in AppTask \ {t} : Place(u, mv, e[u], d[u], h[u])
  <2>1. SUFFICES ASSUME NEW u \in AppTask \ {t}
                 PROVE  Place(u, mv, state[u], c[u], h[u])
    BY <1>1
  <2>2. Place(u, mu, state[u], c[u], h[u]) /\ h[u] \subseteq MutexId
    BY DEF Tidy
  <2> QED
    BY <2>2, <1>2, AtLemma DEF Place, Owned
<1>6. Place(t, mv, e[t], d[t], h[t])
  <2>1. \A n \in h[t] : Owned(mu[n], t) /\ n \in MutexId
    BY DEF Tidy, Place
  <2> QED
    BY <2>1, <1>1, <1>2 DEF Place, Owned
<1> QED
  BY <1>3, <1>4, <1>5, <1>6 DEF Tidy, d, e

\* The owner hands the mutex to the first waiter, which becomes ready.
LEMMA GiveLemma ==
  ASSUME NEW mu, NEW mv, NEW state \in [Task -> State], NEW c \in [AppTask -> At],
         NEW h \in [AppTask -> SUBSET MutexId], NEW t \in AppTask,
         Tidy(mu, state, c, h), state[t] = "READY", c[t] = Free,
         NEW m \in MutexId, NEW s, Changed(mu, mv, m, s),
         mu[m].lock, mu[m].owner = t, NEW u \in ToSet(mu[m].waiters),
         s.lock, s.owner = u, s.valid = mu[m].valid,
         Inj(s.waiters), ToSet(s.waiters) = ToSet(mu[m].waiters) \ {u},
         NEW x \in At, x.pc = "handover"
  PROVE  Tidy(mv, [state EXCEPT ![u] = "READY"], [c EXCEPT ![t] = x],
              [h EXCEPT ![t] = @ \ {m}])
<1> DEFINE d == [c EXCEPT ![t] = x]
           e == [state EXCEPT ![u] = "READY"]
           i == [h EXCEPT ![t] = @ \ {m}]
<1>1. /\ u \in AppTask /\ state[u] = "MUTEX_BLOCKED" /\ c[u].pc = "blocked"
      /\ c[u].m = m /\ u # t
  BY DEF Tidy, Queue
<1>2. /\ d[t] = x /\ i[t] = h[t] \ {m} /\ e[u] = "READY"
      /\ \A v \in AppTask \ {t} : d[v] = c[v] /\ i[v] = h[v]
      /\ \A v \in AppTask \ {u} : e[v] = state[v]
  BY <1>1, AppTaskLemma
<1> HIDE DEF d, e, i
<1>3. u # Nobody
  BY <1>1, AppTaskLemma, MutexAssumption
<1>4. Queue(mv[m], m, e, d)
  BY <1>1, <1>2, <1>3 DEF Tidy, Queue, Changed
<1>5. \A n \in MutexId \ {m} : Queue(mv[n], n, e, d)
  BY <1>1, <1>2 DEF Tidy, Queue, Changed
<1>6. \A v \in AppTask \ {t, u} : Place(v, mv, e[v], d[v], i[v])
  <2>1. SUFFICES ASSUME NEW v \in AppTask \ {t, u}
                 PROVE  Place(v, mv, state[v], c[v], h[v])
    BY <1>2
  <2>2. Place(v, mu, state[v], c[v], h[v]) /\ h[v] \subseteq MutexId
    BY DEF Tidy
  <2>3. \A n \in MutexId : Owned(mu[n], v) => n # m
    BY DEF Owned
  <2> QED
    BY <2>2, <2>3, AtLemma DEF Place, Owned, Changed
<1>7. Place(u, mv, e[u], d[u], i[u])
  <2>1. \A n \in h[u] : Owned(mu[n], u) /\ n \in MutexId /\ n # m
    BY <1>1 DEF Tidy, Place, Owned
  <2>2. Owned(mv[m], u)
    BY DEF Changed, Owned
  <2> QED
    BY <1>1, <1>2, <2>1, <2>2 DEF Place, Changed
<1>8. Place(t, mv, e[t], d[t], i[t])
  <2>1. \A n \in h[t] : Owned(mu[n], t) /\ n \in MutexId
    BY DEF Tidy, Place
  <2> QED
    BY <1>2, <2>1 DEF Place, Changed
<1>9. Tidy(mv, e, d, i)
  BY <1>4, <1>5, <1>6, <1>7, <1>8 DEF Tidy
<1> QED
  BY <1>9 DEF d, e, i

\* The owner unlocks a mutex nobody waits for.
LEMMA ReleaseLemma ==
  ASSUME NEW mu, NEW mv, NEW state, NEW c \in [AppTask -> At],
         NEW h \in [AppTask -> SUBSET MutexId], NEW t \in AppTask,
         Tidy(mu, state, c, h), state[t] = "READY", c[t] = Free,
         NEW m \in MutexId, NEW s, Changed(mu, mv, m, s),
         mu[m].owner = t, mu[m].waiters = <<>>,
         ~s.lock, s.owner = Nobody, s.valid = mu[m].valid, s.waiters = <<>>,
         NEW x \in At, x.pc = "unboost"
  PROVE  Tidy(mv, state, [c EXCEPT ![t] = x], [h EXCEPT ![t] = @ \ {m}])
<1> DEFINE d == [c EXCEPT ![t] = x]
           i == [h EXCEPT ![t] = @ \ {m}]
<1>1. /\ d[t] = x /\ i[t] = h[t] \ {m}
      /\ \A v \in AppTask \ {t} : d[v] = c[v] /\ i[v] = h[v]
  OBVIOUS
<1> HIDE DEF d, i
<1>2. \A v \in AppTask : v # Nobody
  BY AppTaskLemma, MutexAssumption
<1>3. \A n \in MutexId : Queue(mv[n], n, state, d)
  BY <1>1 DEF Tidy, Queue, Changed
<1>4. \A v \in AppTask \ {t} : Place(v, mv, state[v], d[v], i[v])
  <2>1. SUFFICES ASSUME NEW v \in AppTask \ {t}
                 PROVE  Place(v, mv, state[v], c[v], h[v])
    BY <1>1
  <2>2. Place(v, mu, state[v], c[v], h[v]) /\ h[v] \subseteq MutexId
    BY DEF Tidy
  <2>3. \A n \in MutexId : Owned(mu[n], v) => n # m
    BY DEF Owned
  <2> QED
    BY <1>2, <2>2, <2>3, AtLemma DEF Place, Owned, Changed
<1>5. Place(t, mv, state[t], d[t], i[t])
  <2>1. \A n \in h[t] : Owned(mu[n], t) /\ n \in MutexId
    BY DEF Tidy, Place
  <2> QED
    BY <1>1, <2>1 DEF Place, Changed
<1>6. Tidy(mv, state, d, i)
  BY <1>3, <1>4, <1>5 DEF Tidy
<1> QED
  BY <1>6 DEF d, i

\* A waiter is readied because its mutex is destroyed.
LEMMA DropLemma ==
  ASSUME NEW mu, NEW mv, NEW state \in [Task -> State], NEW c \in [AppTask -> At],
         NEW h \in [AppTask -> SUBSET MutexId],
         Tidy(mu, state, c, h),
         NEW m \in MutexId, NEW s, Changed(mu, mv, m, s),
         ~mu[m].valid, NEW u \in ToSet(mu[m].waiters),
         s.lock = mu[m].lock, s.owner = mu[m].owner, s.valid = mu[m].valid,
         Inj(s.waiters), ToSet(s.waiters) = ToSet(mu[m].waiters) \ {u},
         s.waiters # <<>> => mu[m].waiters # <<>>
  PROVE  Tidy(mv, [state EXCEPT ![u] = "READY"], c, h)
<1> DEFINE e == [state EXCEPT ![u] = "READY"]
<1>1. /\ u \in AppTask /\ state[u] = "MUTEX_BLOCKED" /\ c[u].pc = "blocked"
      /\ c[u].m = m
  BY DEF Tidy, Queue
<1>2. /\ e[u] = "READY"
      /\ \A v \in AppTask \ {u} : e[v] = state[v]
  BY <1>1, AppTaskLemma
<1> HIDE DEF e
<1>3. \A n \in MutexId : /\ mv[n].lock = mu[n].lock /\ mv[n].owner = mu[n].owner
                         /\ mv[n].valid = mu[n].valid
  BY DEF Changed
<1>4. Queue(mv[m], m, e, c)
  BY <1>1, <1>2 DEF Tidy, Queue, Changed
<1>5. \A n \in MutexId \ {m} : Queue(mv[n], n, e, c)
  BY <1>1, <1>2 DEF Tidy, Queue, Changed
<1>6. \A v \in AppTask : Place(v, mv, e[v], c[v], h[v])
  <2>1. SUFFICES ASSUME NEW v \in AppTask
                 PROVE  Place(v, mv, e[v], c[v], h[v])
    OBVIOUS
  <2>2. Place(v, mu, state[v], c[v], h[v]) /\ h[v] \subseteq MutexId
    BY DEF Tidy
  <2> QED
    BY <2>2, <1>1, <1>2, <1>3, AtLemma DEF Place, Owned
<1>7. Tidy(mv, e, c, h)
  BY <1>4, <1>5, <1>6 DEF Tidy
<1> QED
  BY <1>7 DEF e

\* The owner destroys the mutex; its waiters are still queued.
LEMMA InvalidLemma ==
  ASSUME NEW mu, NEW mv, NEW state, NEW c \in [AppTask -> At],
         NEW h \in [AppTask -> SUBSET MutexId], NEW t \in AppTask,
         Tidy(mu, state, c, h), state[t] = "READY",
         NEW m \in MutexId, NEW s, Changed(mu, mv, m, s),
         c[t].pc = "destroy", c[t].m = m,
         s.lock = mu[m].lock, s.owner = mu[m].owner, ~s.valid,
         s.waiters = mu[m].waiters,
         NEW x \in At, x.pc = "flush", x.m = m
  PROVE  Tidy(mv, state, [c EXCEPT ![t] = x], h)
<1> DEFINE d == [c EXCEPT ![t] = x]
<1>1. d[t] = x /\ \A v \in AppTask \ {t} : d[v] = c[v]
  OBVIOUS
<1> HIDE DEF d
<1>2. \A n \in MutexId : /\ mv[n].lock = mu[n].lock /\ mv[n].owner = mu[n].owner
                         /\ mv[n].waiters = mu[n].waiters
                         /\ mv[n].valid => mu[n].valid
                         /\ ~mu[n].valid => ~mv[n].valid
  BY DEF Changed
<1>3. \A n \in MutexId : Queue(mv[n], n, state, d)
  BY <1>1, <1>2 DEF Tidy, Queue
<1>4. \A v \in AppTask \ {t} : Place(v, mv, state[v], d[v], h[v])
  <2>1. SUFFICES ASSUME NEW v \in AppTask \ {t}
                 PROVE  Place(v, mv, state[v], c[v], h[v])
    BY <1>1
  <2>2. Place(v, mu, state[v], c[v], h[v]) /\ h[v] \subseteq MutexId
    BY DEF Tidy
  <2> QED
    BY <2>2, <1>2, AtLemma DEF Place, Owned
<1>5. Place(t, mv, state[t], d[t], h[t])
  <2>1. Place(t, mu, state[t], c[t], h[t]) /\ h[t] \subseteq MutexId
    BY DEF Tidy
  <2>2. Owned(mv[m], t) /\ ~mv[m].valid /\ \A n \in h[t] : Owned(mv[n], t)
    BY <2>1, <1>2 DEF Place, Owned, Changed
  <2> QED
    BY <1>1, <2>2 DEF Place
<1>6. Tidy(mv, state, d, h)
  BY <1>3, <1>4, <1>5 DEF Tidy
<1> QED
  BY <1>6 DEF d

-----------------------------------------------------------------------------
(* The actions.                                                             *)

\* The invariant's parts, as facts a step starts from.
LEMMA PartsLemma ==
  ASSUME IInv
  PROVE  /\ mutex \in [MutexId -> MutexStruct] /\ at \in [AppTask -> At]
         /\ held \in [AppTask -> SUBSET MutexId]
         /\ Quiet(k) /\ Tidy(mutex, k.state, at, held)
         /\ k.state \in [Task -> State] /\ k.my \in [Task -> Prio]
         /\ k.home \in [Task -> Prio]
         /\ \A m \in MutexId :
              /\ mutex[m] \in MutexStruct /\ Queue(mutex[m], m, k.state, at)
              /\ mutex[m].waiters \in Seq(AppTask) /\ Inj(mutex[m].waiters)
              /\ mutex[m].boosted \in Nat /\ mutex[m].valid \in BOOLEAN
              /\ mutex[m].lock \in BOOLEAN /\ Ceiling(m) \in AppPrio
              /\ mutex[m].owner \in AppTask \cup {Nobody}
<1>1. /\ mutex \in [MutexId -> MutexStruct] /\ at \in [AppTask -> At]
      /\ held \in [AppTask -> SUBSET MutexId]
      /\ Quiet(k) /\ Tidy(mutex, k.state, at, held)
  BY DEF IInv, DataOK
<1>2. \A s \in MutexStruct :
        /\ s.waiters \in Seq(AppTask) /\ s.boosted \in Nat /\ s.valid \in BOOLEAN
        /\ s.lock \in BOOLEAN /\ s.attr.ceiling \in AppPrio
        /\ s.owner \in AppTask \cup {Nobody}
  BY DEF MutexStruct, MutexAttr
<1>3. \A m \in MutexId : mutex[m] \in MutexStruct
  BY <1>1
<1>4. \A m \in MutexId : Queue(mutex[m], m, k.state, at) /\ Inj(mutex[m].waiters)
  BY <1>1 DEF Tidy, Queue
<1> QED
  BY <1>1, <1>2, <1>3, <1>4, QuietFacts DEF Ceiling

\* mutex' differs in mutex m only, and there only in what is not control.
Tuned(m, lock, owner) ==
  \E s \in MutexStruct :
    /\ mutex' = [mutex EXCEPT ![m] = s]
    /\ s.lock = lock /\ s.owner = owner
    /\ s.waiters = mutex[m].waiters /\ s.valid = mutex[m].valid

LEMMA TunedLemma ==
  ASSUME IInv, NEW m \in MutexId, Tuned(m, mutex[m].lock, mutex[m].owner)
  PROVE  /\ mutex' \in [MutexId -> MutexStruct]
         /\ \A n \in MutexId : /\ mutex'[n].lock = mutex[n].lock
                               /\ mutex'[n].owner = mutex[n].owner
                               /\ mutex'[n].waiters = mutex[n].waiters
                               /\ mutex'[n].valid = mutex[n].valid
BY DEF Tuned, IInv, DataOK

\* The executing task goes to another place in its call.
LEMMA StepLemma ==
  ASSUME IInv, NEW t \in AppTask, Runs(k, t), Quiet(k'), k'.state = k.state,
         mutex' \in [MutexId -> MutexStruct],
         \A n \in MutexId : /\ mutex'[n].lock = mutex[n].lock
                            /\ mutex'[n].owner = mutex[n].owner
                            /\ mutex'[n].waiters = mutex[n].waiters
                            /\ mutex'[n].valid = mutex[n].valid,
         NEW x \in At, at' = [at EXCEPT ![t] = x],
         NEW g \in SUBSET MutexId, held' = [held EXCEPT ![t] = g],
         Place(t, mutex, "READY", x, g)
  PROVE  IInv'
<1>1. /\ at \in [AppTask -> At] /\ held \in [AppTask -> SUBSET MutexId]
      /\ Tidy(mutex, k.state, at, held) /\ k.state[t] = "READY"
  BY PartsLemma, RunsLemma
<1>2. DataOK'
  BY <1>1 DEF DataOK
<1>3. Quiet(k)'
  BY QuietPrime
<1>4. PICK mv : mv = mutex'
  OBVIOUS
<1>5. \A n \in MutexId : /\ mv[n].lock = mutex[n].lock
                         /\ mv[n].owner = mutex[n].owner
                         /\ mv[n].waiters = mutex[n].waiters
                         /\ mv[n].valid = mutex[n].valid
  BY <1>4
<1>6. Tidy(mv, k.state, [at EXCEPT ![t] = x], [held EXCEPT ![t] = g])
  BY <1>1, <1>5, MoveLemma
<1> QED
  BY <1>2, <1>3, <1>4, <1>6 DEF IInv

\* The section of _mutex_lock for MUTEX_PRIO_INHERIT.
LEMMA InheritLemma ==
  ASSUME IInv, NEW t \in AppTask, Runs(k, t), NEW m \in MutexId,
         NEW mu \in MutexStruct, mu.waiters = mutex[m].waiters,
         mu.valid = mutex[m].valid, InheritFromWaiters(t, m, mu)
  PROVE  /\ Quiet(k') /\ k'.state = k.state
         /\ Tuned(m, mu.lock, mu.owner)
<1>1. Quiet(k) /\ t \in Task /\ IsReady(k, k.active)
  BY PartsLemma, RunsLemma
<1>2. PICK p : p = MaxPriorityOn(k, mu.waiters)
  OBVIOUS
<1>3. p \in Nat
  <2> DEFINE S == {k.my[w] : w \in ToSet(mu.waiters)} \cup {LowestTaskPriority + 2}
  <2>1. k.my \in [Task -> Nat] /\ ToSet(mu.waiters) \subseteq Task
    BY PartsLemma, KernelAssumption, AppTaskLemma DEF Prio, Tidy, Queue
  <2>2. S \in SUBSET Nat /\ S # {}
    BY <2>1, KernelAssumption
  <2>3. p = Min(S)
    BY <1>2 DEF MaxPriorityOn
  <2> HIDE DEF S
  <2> QED
    BY <2>2, <2>3, MinLemma
<1>4. p < k.home[t] => p \in Prio
  BY <1>1, <1>3, PartsLemma, KernelAssumption DEF Prio
<1>5. /\ k' = k \/ (p < k.home[t] /\ k' = BoostPriority(k, t, p))
      /\ \E n \in {mu.boosted, mu.boosted + 1} :
           mutex' = [mutex EXCEPT ![m] = [mu EXCEPT !.boosted = n]]
  BY <1>2 DEF InheritFromWaiters
<1>6. Quiet(k') /\ k'.state = k.state
  BY <1>1, <1>4, <1>5, QuietBoost
<1>7. PICK n \in Nat : mutex' = [mutex EXCEPT ![m] = [mu EXCEPT !.boosted = n]]
  <2>1. mu.boosted \in Nat /\ mu.boosted + 1 \in Nat
    BY DEF MutexStruct
  <2> QED
    BY <1>5, <2>1
<1>8. PICK s : s = [mu EXCEPT !.boosted = n]
  OBVIOUS
<1>9. /\ s \in MutexStruct /\ s.lock = mu.lock /\ s.owner = mu.owner
      /\ s.waiters = mu.waiters /\ s.valid = mu.valid
  BY <1>8 DEF MutexStruct
<1>10. Tuned(m, mu.lock, mu.owner)
  BY <1>7, <1>8, <1>9 DEF Tuned
<1> QED
  BY <1>6, <1>10

\* Where a task goes that owns the mutex now.
Goes(t, m, x, g) ==
  /\ x \in At /\ g \in SUBSET MutexId
  /\ at' = [at EXCEPT ![t] = x] /\ held' = [held EXCEPT ![t] = g]
  /\ x.pc \in {"protect", "destroy", "free"}
  /\ x.pc # "free" => x.m = m
  /\ g \subseteq held[t] \cup {m}

LEMMA OwnLemma ==
  ASSUME IInv, NEW t \in AppTask, NEW m \in MutexId, NEW goal \in Goal,
         Own(t, m, goal)
  PROVE  \E x, g : Goes(t, m, x, g)
<1>1. held[t] \in SUBSET MutexId
  BY PartsLemma
<1>2. PICK x : x = IF Protects(m) THEN [pc |-> "protect", m |-> m, goal |-> goal]
                   ELSE IF goal = "destroy" THEN [pc |-> "destroy", m |-> m]
                   ELSE Free
  OBVIOUS
<1>3. PICK g : g = IF Protects(m) THEN held[t] ELSE held[t] \cup {m}
  OBVIOUS
<1>4. at' = [at EXCEPT ![t] = x] /\ held' = [held EXCEPT ![t] = g]
  BY <1>2, <1>3 DEF Own
<1>5. /\ x \in At /\ x.pc \in {"protect", "destroy", "free"}
      /\ x.pc # "free" => x.m = m
  <2>1. CASE Protects(m)
    <3>1. x = [pc |-> "protect", m |-> m, goal |-> goal]
      BY <1>2, <2>1
    <3>2. [pc |-> "protect", m |-> m, goal |-> goal] \in At
      BY DEF At
    <3> QED
      BY <3>1, <3>2
  <2>2. CASE ~Protects(m) /\ goal = "destroy"
    <3>1. x = [pc |-> "destroy", m |-> m]
      BY <1>2, <2>2
    <3>2. [pc |-> "destroy", m |-> m] \in At
      BY PlaceLemma
    <3> QED
      BY <3>1, <3>2
  <2>3. CASE ~Protects(m) /\ goal # "destroy"
    <3>1. x = Free
      BY <1>2, <2>3
    <3> QED
      BY <3>1, PlaceLemma
  <2> QED
    BY <2>1, <2>2, <2>3
<1>6. g \in SUBSET MutexId /\ g \subseteq held[t] \cup {m}
  BY <1>1, <1>3
<1> QED
  BY <1>4, <1>5, <1>6 DEF Goes

\* A free mutex is taken, by _mutex_lock or _mutex_try_lock.
LEMMA TakenLemma ==
  ASSUME IInv, NEW t \in AppTask, Runs(k, t), NEW m \in MutexId,
         ~mutex[m].lock, Quiet(k'), k'.state = k.state,
         NEW s \in MutexStruct, mutex' = [mutex EXCEPT ![m] = s],
         s.lock, s.owner = t, s.waiters = mutex[m].waiters,
         s.valid = mutex[m].valid, NEW x, NEW g, Goes(t, m, x, g)
  PROVE  IInv'
<1>1. /\ at \in [AppTask -> At] /\ held \in [AppTask -> SUBSET MutexId]
      /\ Tidy(mutex, k.state, at, held) /\ k.state[t] = "READY"
      /\ mutex \in [MutexId -> MutexStruct]
      /\ Place(t, mutex, "READY", at[t], held[t])
  BY PartsLemma, RunsLemma
<1>2. /\ x \in At /\ g \in SUBSET MutexId
      /\ at' = [at EXCEPT ![t] = x] /\ held' = [held EXCEPT ![t] = g]
  BY DEF Goes
<1>3. DataOK'
  BY <1>1, <1>2 DEF DataOK
<1>4. Quiet(k)'
  BY QuietPrime
<1>5. PICK mv : mv = mutex'
  OBVIOUS
<1>6. Changed(mutex, mv, m, s)
  BY <1>1, <1>5 DEF Changed
<1>7. Place(t, mv, "READY", x, g)
  <2>1. \A n \in held[t] : Owned(mv[n], t)
    BY <1>1, <1>6 DEF Place, Owned, Changed
  <2>2. Owned(mv[m], t)
    BY <1>6 DEF Owned, Changed
  <2> QED
    BY <2>1, <2>2 DEF Goes, Place
<1>8. Tidy(mv, k.state, [at EXCEPT ![t] = x], [held EXCEPT ![t] = g])
  BY <1>1, <1>2, <1>6, <1>7, TakeLemma
<1> QED
  BY <1>2, <1>3, <1>4, <1>5, <1>8 DEF IInv

LEMMA LockFreeLemma ==
  ASSUME IInv, NEW t \in AppTask, LockFree(t)
  PROVE  IInv'
<1>1. Runs(k, t) /\ at[t].pc = "lock"
  BY DEF LockFree, Continues
<1>2. PICK m \in MutexId : m = at[t].m
  BY <1>1, RunsLemma, AtLemma
<1>3. at[t].goal \in Goal
  BY <1>1, RunsLemma, AtLemma
<1>4. PICK mu : mu = [mutex[m] EXCEPT !.lock = TRUE, !.owner = t]
  OBVIOUS
<1>5. ~mutex[m].lock /\ InheritFromWaiters(t, m, mu) /\ Own(t, m, at[t].goal)
  BY <1>2, <1>4 DEF LockFree
<1>6. mutex[m] \in MutexStruct
  BY PartsLemma
<1>7. /\ mu \in MutexStruct /\ mu.lock = TRUE /\ mu.owner = t
      /\ mu.waiters = mutex[m].waiters /\ mu.valid = mutex[m].valid
  BY <1>4, <1>6 DEF MutexStruct
<1>8. Quiet(k') /\ k'.state = k.state /\ Tuned(m, mu.lock, mu.owner)
  BY <1>1, <1>5, <1>7, InheritLemma
<1>9. PICK s \in MutexStruct :
        /\ mutex' = [mutex EXCEPT ![m] = s]
        /\ s.lock = TRUE /\ s.owner = t
        /\ s.waiters = mutex[m].waiters /\ s.valid = mutex[m].valid
  BY <1>7, <1>8 DEF Tuned
<1>10. PICK x, g : Goes(t, m, x, g)
  BY <1>3, <1>5, OwnLemma
<1> QED
  BY <1>1, <1>5, <1>8, <1>9, <1>10, TakenLemma

LEMMA TryLockLemma ==
  ASSUME IInv, NEW t \in AppTask, NEW m \in MutexId, TryLock(t, m)
  PROVE  IInv'
<1>1. /\ Runs(k, t) /\ ~mutex[m].lock /\ k' = k
      /\ mutex' = [mutex EXCEPT ![m].lock = TRUE, ![m].owner = t]
      /\ Own(t, m, "own")
  BY DEF TryLock, Calls
<1>2. PICK s : s = [mutex[m] EXCEPT !.lock = TRUE, !.owner = t]
  OBVIOUS
<1>3. mutex[m] \in MutexStruct /\ mutex \in [MutexId -> MutexStruct] /\ Quiet(k)
  BY PartsLemma
<1>4. /\ s \in MutexStruct /\ s.lock /\ s.owner = t
      /\ s.waiters = mutex[m].waiters /\ s.valid = mutex[m].valid
  BY <1>2, <1>3 DEF MutexStruct
<1>5. mutex' = [mutex EXCEPT ![m] = s]
  BY <1>1, <1>2, <1>3
<1>6. Quiet(k') /\ k'.state = k.state
  BY <1>1, <1>3
<1>7. PICK x, g : Goes(t, m, x, g)
  BY <1>1, OwnLemma DEF Goal
<1> QED
  BY <1>1, <1>4, <1>5, <1>6, <1>7, TakenLemma

LEMMA StartLockLemma ==
  ASSUME IInv, NEW t \in AppTask, NEW m \in MutexId, NEW goal \in Goal,
         StartLock(t, m, goal)
  PROVE  IInv'
<1>1. /\ Runs(k, t) /\ at[t] = Free /\ mutex[m].owner # t
      /\ at' = [at EXCEPT ![t] = [pc |-> "lock", m |-> m,
                                  priority |-> k.my[t], goal |-> goal]]
      /\ k' = k /\ mutex' = mutex /\ held' = held
  BY DEF StartLock, Calls
<1>2. /\ Quiet(k) /\ k.my[t] \in Prio /\ held[t] \in SUBSET MutexId
      /\ mutex \in [MutexId -> MutexStruct]
      /\ held \in [AppTask -> SUBSET MutexId]
  BY PartsLemma, AppTaskLemma
<1>3. PICK x : x = [pc |-> "lock", m |-> m, priority |-> k.my[t], goal |-> goal]
  OBVIOUS
<1>4. x.pc = "lock" /\ x.m = m
  BY <1>3
<1>5. x \in At
  BY <1>2, <1>3 DEF At
<1>6. Place(t, mutex, "READY", at[t], held[t])
  BY <1>1, RunsLemma
<1>7. Place(t, mutex, "READY", x, held[t])
  BY <1>1, <1>4, <1>6 DEF Place
<1>8. held' = [held EXCEPT ![t] = held[t]] /\ at' = [at EXCEPT ![t] = x]
  BY <1>1, <1>2, <1>3
<1>9. Quiet(k') /\ k'.state = k.state /\ mutex' \in [MutexId -> MutexStruct]
      /\ \A n \in MutexId : /\ mutex'[n].lock = mutex[n].lock
                            /\ mutex'[n].owner = mutex[n].owner
                            /\ mutex'[n].waiters = mutex[n].waiters
                            /\ mutex'[n].valid = mutex[n].valid
  BY <1>1, <1>2
<1> QED
  BY <1>1, <1>2, <1>5, <1>7, <1>8, <1>9, StepLemma

LEMMA StartDestroyLemma ==
  ASSUME IInv, NEW t \in AppTask, NEW m \in MutexId, StartDestroy(t, m)
  PROVE  IInv'
<1>1. CASE StartLock(t, m, "destroy")
  BY <1>1, StartLockLemma DEF Goal
<1>2. CASE ~StartLock(t, m, "destroy")
  <2>1. /\ Runs(k, t) /\ at[t] = Free /\ mutex[m].owner = t
        /\ at' = [at EXCEPT ![t] = [pc |-> "destroy", m |-> m]]
        /\ k' = k /\ mutex' = mutex /\ held' = held
    BY <1>2 DEF StartDestroy, Calls
  <2>2. /\ Quiet(k) /\ held[t] \in SUBSET MutexId
        /\ mutex \in [MutexId -> MutexStruct] /\ Queue(mutex[m], m, k.state, at)
        /\ held \in [AppTask -> SUBSET MutexId]
    BY PartsLemma
  <2>3. PICK x : x = [pc |-> "destroy", m |-> m]
    OBVIOUS
  <2>4. x.pc = "destroy" /\ x.m = m
    BY <2>3
  <2>5. x \in At
    BY <2>3 DEF At
  <2>6. Place(t, mutex, "READY", at[t], held[t])
    BY <2>1, RunsLemma
  <2>7. Owned(mutex[m], t)
    <3>1. t # Nobody
      BY AppTaskLemma, MutexAssumption
    <3> QED
      BY <3>1, <2>1, <2>2 DEF Queue, Owned
  <2>8. Place(t, mutex, "READY", x, held[t])
    BY <2>4, <2>6, <2>7 DEF Place
  <2>9. held' = [held EXCEPT ![t] = held[t]] /\ at' = [at EXCEPT ![t] = x]
    BY <2>1, <2>2, <2>3
  <2>10. Quiet(k') /\ k'.state = k.state /\ mutex' \in [MutexId -> MutexStruct]
         /\ \A n \in MutexId : /\ mutex'[n].lock = mutex[n].lock
                               /\ mutex'[n].owner = mutex[n].owner
                               /\ mutex'[n].waiters = mutex[n].waiters
                               /\ mutex'[n].valid = mutex[n].valid
    BY <2>1, <2>2
  <2> QED
    BY <2>1, <2>2, <2>5, <2>8, <2>9, <2>10, StepLemma
<1> QED
  BY <1>1, <1>2

\* _sched_insert_priorityq_internal puts the descriptor somewhere in the queue.
LEMMA InsertPriorityLemma ==
  ASSUME NEW d, d.my \in [Task -> Prio], NEW s \in Seq(AppTask), Inj(s),
         NEW t \in AppTask, t \notin ToSet(s)
  PROVE  /\ InsertPriority(d, s, t) \in Seq(AppTask)
         /\ Inj(InsertPriority(d, s, t))
         /\ ToSet(InsertPriority(d, s, t)) = ToSet(s) \cup {t}
<1> DEFINE S == {i \in 1 .. Len(s) : d.my[s[i]] > d.my[t]} \cup {Len(s) + 1}
<1>1. s \in Seq(Task) /\ t \in Task /\ Len(s) \in Nat
  BY AppTaskLemma
<1>2. S \in SUBSET Nat /\ S # {} /\ S \subseteq 1 .. Len(s) + 1
  BY <1>1
<1>3. InsertPriority(d, s, t) = InsertAt(s, Min(S), t)
  BY DEF InsertPriority
<1> HIDE DEF S
<1>4. Min(S) \in 1 .. Len(s) + 1
  BY <1>2, MinLemma
<1>5. /\ InsertAt(s, Min(S), t) \in Seq(Task)
      /\ Inj(InsertAt(s, Min(S), t))
      /\ ToSet(InsertAt(s, Min(S), t)) = ToSet(s) \cup {t}
  BY <1>1, <1>4, InsertAtLemma
<1>6. ToSet(s) \subseteq AppTask
  BY DEF ToSet
<1> QED
  BY <1>3, <1>5, <1>6, AppSeqLemma

LEMMA LockBusyLemma ==
  ASSUME IInv, NEW t \in AppTask, LockBusy(t)
  PROVE  IInv'
<1>1. Runs(k, t) /\ at[t].pc = "lock" /\ held' = held
  BY DEF LockBusy, Continues
<1>2. PICK m \in MutexId : m = at[t].m
  BY <1>1, RunsLemma, AtLemma
<1>3. at[t].goal \in Goal /\ at[t].priority \in Prio
  BY <1>1, RunsLemma, AtLemma
<1>4. PICK p \in Prio : p = at[t].priority
  BY <1>3
<1>5. PICK owner : owner = mutex[m].owner
  OBVIOUS
<1>6. PICK needs \in BOOLEAN : needs = (Inherits(m) /\ k.home[owner] > p)
  OBVIOUS
<1>7. PICK b : b = IF needs /\ k.my[owner] > p THEN BoostPriority(k, owner, p) ELSE k
  OBVIOUS
<1>8. /\ mutex[m].lock
      /\ k' = Dispatch([Unlink(b, t, b.my[t]) EXCEPT !.state[t] = "MUTEX_BLOCKED"])
      /\ mutex' = [mutex EXCEPT
           ![m].boosted = IF needs THEN @ + 1 ELSE @,
           ![m].waiters = IF mutex[m].attr.sorted THEN InsertPriority(b, @, t)
                          ELSE Append(@, t)]
      /\ at' = [at EXCEPT ![t] = [pc |-> "blocked", m |-> m, goal |-> at[t].goal]]
  BY <1>2, <1>4, <1>5, <1>6, <1>7 DEF LockBusy
<1>9. /\ mutex \in [MutexId -> MutexStruct] /\ at \in [AppTask -> At]
      /\ held \in [AppTask -> SUBSET MutexId]
      /\ Quiet(k) /\ Tidy(mutex, k.state, at, held) /\ mutex[m] \in MutexStruct
      /\ Queue(mutex[m], m, k.state, at) /\ mutex[m].boosted \in Nat
      /\ mutex[m].owner \in AppTask \cup {Nobody}
  BY PartsLemma
<1>10. /\ t \in Task /\ IsReady(k, t) /\ k.state[t] = "READY"
       /\ IsReady(k, k.active) /\ k.state \in [Task -> State]
       /\ Place(t, mutex, "READY", at[t], held[t])
  BY <1>1, RunsLemma
<1>11. owner \in Task /\ mutex[m].owner # t
  BY <1>1, <1>2, <1>5, <1>8, <1>9, <1>10, AppTaskLemma DEF Queue, Place
<1>12. Quiet(b) /\ b.state = k.state /\ b.timed = k.timed
  BY <1>7, <1>9, <1>10, <1>11, QuietBoost
<1>13. Quiet(k') /\ k'.state = [k.state EXCEPT ![t] = "MUTEX_BLOCKED"]
  <2>1. IsReady(b, t)
    BY <1>10, <1>12 DEF IsReady
  <2>2. "MUTEX_BLOCKED" \in State \ {"READY"}
    BY DEF State
  <2> QED
    BY <1>8, <1>12, <2>1, <2>2, QuietPark
<1>14. PICK w \in Seq(AppTask) : w = mutex[m].waiters /\ Inj(w) /\ t \notin ToSet(w)
  BY <1>9, <1>10 DEF MutexStruct, Queue
<1>15. PICK v : v = IF mutex[m].attr.sorted THEN InsertPriority(b, w, t) ELSE Append(w, t)
  OBVIOUS
<1>16. v \in Seq(AppTask) /\ Inj(v) /\ ToSet(v) = ToSet(w) \cup {t}
  BY SMTT(30), <1>12, <1>14, <1>15, JoinLemma, InsertPriorityLemma, QuietFacts
<1>17. PICK n \in Nat : n = IF needs THEN mutex[m].boosted + 1 ELSE mutex[m].boosted
  BY <1>9
<1>18. PICK s : s = [mutex[m] EXCEPT !.boosted = n, !.waiters = v]
  OBVIOUS
<1>19. s \in MutexStruct /\ s.lock = mutex[m].lock /\ s.owner = mutex[m].owner
       /\ s.valid = mutex[m].valid /\ s.waiters = v
  BY <1>9, <1>16, <1>18 DEF MutexStruct
<1>20. mutex' = [mutex EXCEPT ![m] = s]
  BY <1>8, <1>9, <1>14, <1>15, <1>17, <1>18
<1>21. PICK x : x = [pc |-> "blocked", m |-> m, goal |-> at[t].goal]
  OBVIOUS
<1>22. x.pc = "blocked" /\ x.m = m
  BY <1>21
<1>23. x \in At
  BY <1>3, <1>21 DEF At
<1>24. DataOK'
  BY ZenonT(60), <1>1, <1>8, <1>9, <1>19, <1>20, <1>21, <1>23 DEF DataOK
<1>25. Quiet(k)'
  BY <1>13, QuietPrime
<1>26. PICK mv : mv = mutex'
  OBVIOUS
<1>27. Changed(mutex, mv, m, s)
  BY <1>9, <1>20, <1>26 DEF Changed
<1>28. Tidy(mv, [k.state EXCEPT ![t] = "MUTEX_BLOCKED"], [at EXCEPT ![t] = x], held)
  <2>1. Inj(s.waiters) /\ ToSet(s.waiters) = ToSet(mutex[m].waiters) \cup {t}
    BY <1>14, <1>16, <1>19
  <2> QED
    BY <2>1, <1>8, <1>9, <1>10, <1>11, <1>19, <1>22, <1>23, <1>27, EnterLemma
<1> QED
  BY <1>1, <1>8, <1>13, <1>21, <1>24, <1>25, <1>26, <1>28 DEF IInv

LEMMA LockResumeLemma ==
  ASSUME IInv, NEW t \in AppTask, LockResume(t)
  PROVE  IInv'
<1>1. Runs(k, t) /\ at[t].pc = "blocked"
  BY DEF LockResume, Continues
<1>2. PICK m \in MutexId : m = at[t].m
  BY <1>1, RunsLemma, AtLemma
<1>3. at[t].goal \in Goal
  BY <1>1, RunsLemma, AtLemma
<1>4. Place(t, mutex, "READY", at[t], held[t])
  BY <1>1, RunsLemma
<1>5. /\ mutex \in [MutexId -> MutexStruct] /\ mutex[m] \in MutexStruct
      /\ held \in [AppTask -> SUBSET MutexId] /\ held[t] \in SUBSET MutexId
      /\ Quiet(k)
  BY PartsLemma
<1>6. CASE mutex[m].valid
  <2>1. InheritFromWaiters(t, m, mutex[m]) /\ Own(t, m, at[t].goal)
    BY <1>2, <1>6 DEF LockResume
  <2>2. Quiet(k') /\ k'.state = k.state /\ Tuned(m, mutex[m].lock, mutex[m].owner)
    BY <1>1, <1>5, <2>1, InheritLemma
  <2>3. /\ mutex' \in [MutexId -> MutexStruct]
        /\ \A n \in MutexId : /\ mutex'[n].lock = mutex[n].lock
                              /\ mutex'[n].owner = mutex[n].owner
                              /\ mutex'[n].waiters = mutex[n].waiters
                              /\ mutex'[n].valid = mutex[n].valid
    BY <2>2, TunedLemma
  <2>4. PICK x, g : Goes(t, m, x, g)
    BY <1>3, <2>1, OwnLemma
  <2>5. Owned(mutex[m], t)
    BY <1>1, <1>2, <1>4, <1>6 DEF Place
  <2>6. Place(t, mutex, "READY", x, g)
    BY <1>4, <2>4, <2>5 DEF Goes, Place
  <2>7. x \in At /\ g \in SUBSET MutexId
        /\ at' = [at EXCEPT ![t] = x] /\ held' = [held EXCEPT ![t] = g]
    BY <2>4 DEF Goes
  <2> QED
    BY <1>1, <2>2, <2>3, <2>6, <2>7, StepLemma
<1>7. CASE ~mutex[m].valid
  <2>1. k' = k /\ mutex' = mutex /\ held' = held /\ at' = [at EXCEPT ![t] = Free]
    BY <1>2, <1>7 DEF LockResume
  <2>2. Free \in At /\ Free.pc = "free"
    BY PlaceLemma
  <2>3. Place(t, mutex, "READY", Free, held[t])
    BY <1>4, <2>2 DEF Place
  <2>4. held' = [held EXCEPT ![t] = held[t]]
    BY <1>5, <2>1
  <2>5. Quiet(k') /\ k'.state = k.state /\ mutex' \in [MutexId -> MutexStruct]
        /\ \A n \in MutexId : /\ mutex'[n].lock = mutex[n].lock
                              /\ mutex'[n].owner = mutex[n].owner
                              /\ mutex'[n].waiters = mutex[n].waiters
                              /\ mutex'[n].valid = mutex[n].valid
    BY <1>5, <2>1
  <2> QED
    BY <1>1, <1>5, <2>1, <2>2, <2>3, <2>4, <2>5, StepLemma
<1> QED
  BY <1>6, <1>7

LEMMA LockProtectLemma ==
  ASSUME IInv, NEW t \in AppTask, LockProtect(t)
  PROVE  IInv'
<1>1. Runs(k, t) /\ at[t].pc = "protect"
  BY DEF LockProtect, Continues
<1>2. PICK m \in MutexId : m = at[t].m
  BY <1>1, RunsLemma, AtLemma
<1>3. /\ Place(t, mutex, "READY", at[t], held[t])
      /\ t \in Task /\ IsReady(k, k.active)
  BY <1>1, RunsLemma
<1>4. /\ mutex \in [MutexId -> MutexStruct] /\ mutex[m] \in MutexStruct
      /\ held \in [AppTask -> SUBSET MutexId] /\ held[t] \in SUBSET MutexId
      /\ Quiet(k) /\ mutex[m].boosted \in Nat /\ Ceiling(m) \in AppPrio
  BY PartsLemma
<1>5. PICK c \in Prio : c = Ceiling(m)
  BY <1>4, KernelAssumption DEF Prio, AppPrio
<1>6. PICK needs : needs = (c < k.home[t])
  OBVIOUS
<1>7. PICK x : x = IF at[t].goal = "destroy" THEN [pc |-> "destroy", m |-> m] ELSE Free
  OBVIOUS
<1>8. /\ k' = IF needs /\ c < k.my[t] THEN BoostPriority(k, t, c) ELSE k
      /\ mutex' = [mutex EXCEPT ![m].boosted = IF needs THEN @ + 1 ELSE @]
      /\ at' = [at EXCEPT ![t] = x]
      /\ held' = [held EXCEPT ![t] = @ \cup {m}]
  BY <1>2, <1>5, <1>6, <1>7 DEF LockProtect
<1>9. Quiet(k') /\ k'.state = k.state
  BY <1>3, <1>4, <1>8, QuietBoost
<1>10. PICK n \in Nat : n = IF needs THEN mutex[m].boosted + 1 ELSE mutex[m].boosted
  BY <1>4
<1>11. PICK s : s = [mutex[m] EXCEPT !.boosted = n]
  OBVIOUS
<1>12. /\ s \in MutexStruct /\ s.lock = mutex[m].lock /\ s.owner = mutex[m].owner
       /\ s.waiters = mutex[m].waiters /\ s.valid = mutex[m].valid
  BY <1>4, <1>11 DEF MutexStruct
<1>13. mutex' = [mutex EXCEPT ![m] = s]
  BY <1>4, <1>8, <1>10, <1>11
<1>14. Tuned(m, mutex[m].lock, mutex[m].owner)
  BY <1>12, <1>13 DEF Tuned
<1>15. /\ mutex' \in [MutexId -> MutexStruct]
       /\ \A i \in MutexId : /\ mutex'[i].lock = mutex[i].lock
                             /\ mutex'[i].owner = mutex[i].owner
                             /\ mutex'[i].waiters = mutex[i].waiters
                             /\ mutex'[i].valid = mutex[i].valid
  BY <1>14, TunedLemma
<1>16. x \in At /\ x.pc \in {"destroy", "free"} /\ (x.pc # "free" => x.m = m)
  <2>1. CASE at[t].goal = "destroy"
    <3>1. x = [pc |-> "destroy", m |-> m]
      BY <1>7, <2>1
    <3> QED
      BY <3>1 DEF At
  <2>2. CASE at[t].goal # "destroy"
    <3>1. x = Free
      BY <1>7, <2>2
    <3> QED
      BY <3>1, PlaceLemma
  <2> QED
    BY <2>1, <2>2
<1>17. PICK g : g = held[t] \cup {m}
  OBVIOUS
<1>18. g \in SUBSET MutexId /\ held' = [held EXCEPT ![t] = g]
  BY <1>4, <1>8, <1>17
<1>19. Owned(mutex[m], t)
  BY <1>1, <1>2, <1>3 DEF Place
<1>20. Place(t, mutex, "READY", x, g)
  BY <1>3, <1>16, <1>17, <1>19 DEF Place
<1> QED
  BY <1>1, <1>8, <1>9, <1>15, <1>16, <1>18, <1>20, StepLemma

LEMMA UnlockLemma ==
  ASSUME IInv, NEW t \in AppTask, NEW m \in MutexId, Unlock(t, m)
  PROVE  IInv'
<1>1. /\ Runs(k, t) /\ at[t] = Free /\ mutex[m].lock /\ mutex[m].owner = t
      /\ held' = [held EXCEPT ![t] = @ \ {m}]
  BY DEF Unlock, Calls
<1>2. /\ mutex \in [MutexId -> MutexStruct] /\ at \in [AppTask -> At]
      /\ held \in [AppTask -> SUBSET MutexId]
      /\ Quiet(k) /\ Tidy(mutex, k.state, at, held) /\ mutex[m] \in MutexStruct
      /\ Queue(mutex[m], m, k.state, at) /\ mutex[m].boosted \in Nat
      /\ mutex[m].waiters \in Seq(AppTask) /\ Inj(mutex[m].waiters)
      /\ Ceiling(m) \in AppPrio /\ k.state \in [Task -> State]
  BY PartsLemma
<1>3. k.state[t] = "READY" /\ IsReady(k, k.active) /\ ~k.pend
  BY <1>1, RunsLemma DEF Runs
<1>4. PICK count \in Nat : count = mutex[m].boosted
  BY <1>2
<1>5. held' \in [AppTask -> SUBSET MutexId]
  BY <1>1, <1>2
<1>6. PICK mv : mv = mutex'
  OBVIOUS
<1>7. CASE mutex[m].waiters = <<>>
  <2>1. /\ mutex' = [mutex EXCEPT ![m].boosted = 0, ![m].lock = FALSE,
                                  ![m].owner = Nobody]
        /\ at' = [at EXCEPT ![t] = [pc |-> "unboost", count |-> count]]
        /\ k' = k
    BY <1>4, <1>7 DEF Unlock
  <2>2. PICK s : s = [mutex[m] EXCEPT !.boosted = 0, !.lock = FALSE,
                                      !.owner = Nobody]
    OBVIOUS
  <2>3. /\ s \in MutexStruct /\ ~s.lock /\ s.owner = Nobody
        /\ s.valid = mutex[m].valid /\ s.waiters = <<>>
    BY <1>2, <1>7, <2>2 DEF MutexStruct
  <2>4. mutex' = [mutex EXCEPT ![m] = s]
    BY <1>2, <2>1, <2>2
  <2>5. PICK x : x = [pc |-> "unboost", count |-> count]
    OBVIOUS
  <2>6. x.pc = "unboost"
    BY <2>5
  <2>7. x \in At
    BY <2>5 DEF At
  <2>8. at' = [at EXCEPT ![t] = x]
    BY <2>1, <2>5
  <2>9. DataOK'
    BY <1>2, <1>5, <2>3, <2>4, <2>7, <2>8 DEF DataOK
  <2>10. Quiet(k)' /\ k'.state = k.state
    BY <1>2, <2>1, QuietPrime
  <2>11. Changed(mutex, mv, m, s)
    BY <1>2, <1>6, <2>4 DEF Changed
  <2>12. Tidy(mv, k.state, [at EXCEPT ![t] = x], [held EXCEPT ![t] = @ \ {m}])
    BY <1>1, <1>2, <1>3, <1>7, <2>3, <2>6, <2>7, <2>11, ReleaseLemma
  <2> QED
    BY <1>1, <1>6, <2>8, <2>9, <2>10, <2>12 DEF IInv
<1>8. CASE mutex[m].waiters # <<>>
  <2>1. PICK w \in Seq(AppTask) : w = mutex[m].waiters /\ Inj(w) /\ w # <<>>
    BY <1>2, <1>8
  <2>2. PICK u \in AppTask : u = Head(w) /\ u \in ToSet(w)
    BY <2>1, HeadLemma
  <2>3. Tail(w) \in Seq(AppTask) /\ Inj(Tail(w)) /\ ToSet(Tail(w)) = ToSet(w) \ {u}
    BY <2>1, <2>2, HeadLemma
  <2>4. PICK r : r = TaskReady(k, u)
    OBVIOUS
  <2>5. PICK c \in Prio : c = Ceiling(m)
    BY <1>2, KernelAssumption DEF Prio, AppPrio
  <2>6. PICK needs \in BOOLEAN : needs = (Protects(m) /\ c < k.home[u])
    OBVIOUS
  <2>7. PICK more \in {0, 1} : more = IF needs THEN 1 ELSE 0
    OBVIOUS
  <2>8. /\ k' = IF needs /\ c < k.my[u] THEN BoostPriority(r, u, c) ELSE r
        /\ mutex' = [mutex EXCEPT ![m].boosted = 0, ![m].owner = u,
                                  ![m].waiters = Tail(@)]
        /\ at' = [at EXCEPT ![t] = [pc |-> "handover", m |-> m, count |-> count,
                                    more |-> more]]
    BY <1>4, <1>8, <2>1, <2>2, <2>4, <2>5, <2>6, <2>7 DEF Unlock
  <2>9. Quiet(k') /\ k'.state = [k.state EXCEPT ![u] = "READY"]
    <3>1. u \in Task /\ k.state[u] # "READY"
      BY <1>2, <2>1, <2>2, AppTaskLemma DEF Queue
    <3>2. /\ Quiet(r) /\ r.state = [k.state EXCEPT ![u] = "READY"]
          /\ IsReady(r, r.active)
      BY <1>2, <1>3, <2>4, <3>1, QuietReady
    <3> QED
      BY <2>8, <3>1, <3>2, QuietBoost
  <2>10. PICK s : s = [mutex[m] EXCEPT !.boosted = 0, !.owner = u,
                                       !.waiters = Tail(w)]
    OBVIOUS
  <2>11. /\ s \in MutexStruct /\ s.lock /\ s.owner = u
         /\ s.valid = mutex[m].valid /\ s.waiters = Tail(w)
    BY <1>1, <1>2, <2>3, <2>10 DEF MutexStruct
  <2>12. mutex' = [mutex EXCEPT ![m] = s]
    BY <1>2, <2>1, <2>8, <2>10
  <2>13. PICK x : x = [pc |-> "handover", m |-> m, count |-> count, more |-> more]
    OBVIOUS
  <2>14. x.pc = "handover"
    BY <2>13
  <2>15. x \in At
    BY <2>13 DEF At
  <2>16. at' = [at EXCEPT ![t] = x]
    BY <2>8, <2>13
  <2>17. DataOK'
    BY <1>2, <1>5, <2>11, <2>12, <2>15, <2>16 DEF DataOK
  <2>18. Quiet(k)'
    BY <2>9, QuietPrime
  <2>19. Changed(mutex, mv, m, s)
    BY <1>2, <1>6, <2>12 DEF Changed
  <2>20. u \in ToSet(mutex[m].waiters) /\ Inj(s.waiters)
         /\ ToSet(s.waiters) = ToSet(mutex[m].waiters) \ {u}
    BY <2>1, <2>2, <2>3, <2>11
  <2>21. Tidy(mv, [k.state EXCEPT ![u] = "READY"], [at EXCEPT ![t] = x],
              [held EXCEPT ![t] = @ \ {m}])
    BY <1>1, <1>2, <1>3, <2>11, <2>14, <2>15, <2>19, <2>20, GiveLemma
  <2> QED
    BY <1>1, <1>6, <2>9, <2>16, <2>17, <2>18, <2>21 DEF IInv
<1> QED
  BY <1>7, <1>8

LEMMA HandoverLemma ==
  ASSUME IInv, NEW t \in AppTask, Handover(t)
  PROVE  IInv'
<1>1. Runs(k, t) /\ at[t].pc = "handover"
  BY DEF Handover, Continues
<1>2. PICK m \in MutexId : m = at[t].m
  BY <1>1, RunsLemma, AtLemma
<1>3. PICK count \in Nat : count = at[t].count
  BY <1>1, RunsLemma, AtLemma
<1>4. PICK more \in Nat : more = at[t].more
  BY <1>1, RunsLemma, AtLemma
<1>5. /\ mutex' = [mutex EXCEPT ![m].boosted = @ + more]
      /\ k' = CheckRunScheduler(k)
      /\ at' = [at EXCEPT ![t] = [pc |-> "unboost", count |-> count]]
      /\ held' = held
  BY <1>2, <1>3, <1>4 DEF Handover
<1>6. /\ mutex \in [MutexId -> MutexStruct] /\ mutex[m] \in MutexStruct
      /\ held \in [AppTask -> SUBSET MutexId] /\ held[t] \in SUBSET MutexId
      /\ Quiet(k) /\ mutex[m].boosted \in Nat
  BY PartsLemma
<1>7. Quiet(k') /\ k'.state = k.state
  BY <1>5, <1>6, QuietCheck
<1>8. PICK n \in Nat : n = mutex[m].boosted + more
  BY <1>6
<1>9. PICK s : s = [mutex[m] EXCEPT !.boosted = n]
  OBVIOUS
<1>10. /\ s \in MutexStruct /\ s.lock = mutex[m].lock /\ s.owner = mutex[m].owner
       /\ s.waiters = mutex[m].waiters /\ s.valid = mutex[m].valid
  BY <1>6, <1>9 DEF MutexStruct
<1>11. mutex' = [mutex EXCEPT ![m] = s]
  BY <1>5, <1>6, <1>8, <1>9
<1>12. Tuned(m, mutex[m].lock, mutex[m].owner)
  BY <1>10, <1>11 DEF Tuned
<1>13. /\ mutex' \in [MutexId -> MutexStruct]
       /\ \A i \in MutexId : /\ mutex'[i].lock = mutex[i].lock
                             /\ mutex'[i].owner = mutex[i].owner
                             /\ mutex'[i].waiters = mutex[i].waiters
                             /\ mutex'[i].valid = mutex[i].valid
  BY <1>12, TunedLemma
<1>14. PICK x : x = [pc |-> "unboost", count |-> count]
  OBVIOUS
<1>15. x.pc = "unboost"
  BY <1>14
<1>16. x \in At
  BY <1>14 DEF At
<1>17. Place(t, mutex, "READY", at[t], held[t])
  BY <1>1, RunsLemma
<1>18. Place(t, mutex, "READY", x, held[t])
  BY <1>15, <1>17 DEF Place
<1>19. at' = [at EXCEPT ![t] = x] /\ held' = [held EXCEPT ![t] = held[t]]
  BY <1>5, <1>6, <1>14
<1> QED
  BY <1>1, <1>6, <1>7, <1>13, <1>16, <1>18, <1>19, StepLemma

LEMMA UnboostLemma ==
  ASSUME IInv, NEW t \in AppTask, Unboost(t)
  PROVE  IInv'
<1>1. Runs(k, t) /\ at[t].pc = "unboost"
  BY DEF Unboost, Continues
<1>2. PICK count \in Nat : count = at[t].count
  BY <1>1, RunsLemma, AtLemma
<1>3. /\ k' = IF count > 0 THEN UnboostPriority(k, t, count) ELSE k
      /\ at' = [at EXCEPT ![t] = Free]
      /\ mutex' = mutex /\ held' = held
  BY <1>2 DEF Unboost
<1>4. /\ Place(t, mutex, "READY", at[t], held[t])
      /\ t \in Task /\ IsReady(k, k.active)
  BY <1>1, RunsLemma
<1>5. /\ mutex \in [MutexId -> MutexStruct] /\ Quiet(k)
      /\ held \in [AppTask -> SUBSET MutexId] /\ held[t] \in SUBSET MutexId
  BY PartsLemma
<1>6. Quiet(k') /\ k'.state = k.state
  BY <1>3, <1>4, <1>5, QuietUnboost
<1>7. Free \in At /\ Free.pc = "free"
  BY PlaceLemma
<1>8. Place(t, mutex, "READY", Free, held[t])
  BY <1>4, <1>7 DEF Place
<1>9. held' = [held EXCEPT ![t] = held[t]]
  BY <1>3, <1>5
<1>10. /\ mutex' \in [MutexId -> MutexStruct]
       /\ \A i \in MutexId : /\ mutex'[i].lock = mutex[i].lock
                             /\ mutex'[i].owner = mutex[i].owner
                             /\ mutex'[i].waiters = mutex[i].waiters
                             /\ mutex'[i].valid = mutex[i].valid
  BY <1>3, <1>5
<1> QED
  BY <1>1, <1>3, <1>5, <1>6, <1>7, <1>8, <1>9, <1>10, StepLemma

LEMMA SetCeilingLemma ==
  ASSUME IInv, NEW t \in AppTask, NEW m \in MutexId, NEW c \in NewCeilings,
         SetCeiling(t, m, c)
  PROVE  IInv'
<1>1. /\ Runs(k, t) /\ mutex' = [mutex EXCEPT ![m].attr.ceiling = c]
      /\ k' = k /\ at' = at /\ held' = held
  BY DEF SetCeiling, Calls
<1>2. /\ mutex \in [MutexId -> MutexStruct] /\ mutex[m] \in MutexStruct
      /\ at \in [AppTask -> At] /\ Quiet(k)
      /\ held \in [AppTask -> SUBSET MutexId] /\ held[t] \in SUBSET MutexId
  BY PartsLemma
<1>3. PICK a : a = [mutex[m].attr EXCEPT !.ceiling = c]
  OBVIOUS
<1>4. a \in MutexAttr
  BY <1>2, <1>3, MutexAssumption DEF MutexStruct, MutexAttr
<1>5. PICK s : s = [mutex[m] EXCEPT !.attr = a]
  OBVIOUS
<1>6. /\ s \in MutexStruct /\ s.lock = mutex[m].lock /\ s.owner = mutex[m].owner
      /\ s.waiters = mutex[m].waiters /\ s.valid = mutex[m].valid
  BY <1>2, <1>4, <1>5 DEF MutexStruct
<1>7. mutex' = [mutex EXCEPT ![m] = s]
  BY <1>1, <1>2, <1>3, <1>5
<1>8. Tuned(m, mutex[m].lock, mutex[m].owner)
  BY <1>6, <1>7 DEF Tuned
<1>9. /\ mutex' \in [MutexId -> MutexStruct]
      /\ \A i \in MutexId : /\ mutex'[i].lock = mutex[i].lock
                            /\ mutex'[i].owner = mutex[i].owner
                            /\ mutex'[i].waiters = mutex[i].waiters
                            /\ mutex'[i].valid = mutex[i].valid
  BY <1>8, TunedLemma
<1>10. Place(t, mutex, "READY", at[t], held[t]) /\ at[t] \in At
  BY <1>1, RunsLemma
<1>11. at' = [at EXCEPT ![t] = at[t]] /\ held' = [held EXCEPT ![t] = held[t]]
  BY <1>1, <1>2
<1>12. Quiet(k') /\ k'.state = k.state
  BY <1>1, <1>2
<1> QED
  BY <1>1, <1>2, <1>9, <1>10, <1>11, <1>12, StepLemma

LEMMA DestroyLemma ==
  ASSUME IInv, NEW t \in AppTask, Destroy(t)
  PROVE  IInv'
<1>1. Runs(k, t) /\ at[t].pc = "destroy"
  BY DEF Destroy, Continues
<1>2. PICK m \in MutexId : m = at[t].m
  BY <1>1, RunsLemma, AtLemma
<1>3. /\ mutex' = [mutex EXCEPT ![m].valid = FALSE]
      /\ at' = [at EXCEPT ![t].pc = "flush"]
      /\ k' = k /\ held' = held
  BY <1>2 DEF Destroy
<1>4. /\ mutex \in [MutexId -> MutexStruct] /\ mutex[m] \in MutexStruct
      /\ at \in [AppTask -> At] /\ Quiet(k)
      /\ held \in [AppTask -> SUBSET MutexId]
      /\ Tidy(mutex, k.state, at, held)
  BY PartsLemma
<1>5. k.state[t] = "READY" /\ at[t] \in At
  BY <1>1, RunsLemma
<1>6. PICK s : s = [mutex[m] EXCEPT !.valid = FALSE]
  OBVIOUS
<1>7. /\ s \in MutexStruct /\ s.lock = mutex[m].lock /\ s.owner = mutex[m].owner
      /\ s.waiters = mutex[m].waiters /\ ~s.valid
  BY <1>4, <1>6 DEF MutexStruct
<1>8. mutex' = [mutex EXCEPT ![m] = s]
  BY <1>3, <1>4, <1>6
<1>9. PICK x : x = [at[t] EXCEPT !.pc = "flush"]
  OBVIOUS
<1>10. at' = [at EXCEPT ![t] = x]
  BY <1>3, <1>4, <1>9
<1>11. x \in At /\ x.pc = "flush" /\ x.m = m
  <2>1. at[t] \in [pc : {"destroy", "flush"}, m : MutexId]
    BY <1>1, <1>5 DEF At, Free
  <2>2. x \in [pc : {"destroy", "flush"}, m : MutexId] /\ x.pc = "flush"
        /\ x.m = at[t].m
    BY <1>9, <2>1
  <2> QED
    BY <1>2, <2>2 DEF At
<1>12. DataOK'
  <2>1. mutex' \in [MutexId -> MutexStruct]
    BY <1>4, <1>7, <1>8
  <2>2. at' \in [AppTask -> At]
    BY <1>4, <1>10, <1>11
  <2> QED
    BY <1>3, <1>4, <2>1, <2>2 DEF DataOK
<1>13. Quiet(k)' /\ k'.state = k.state
  BY <1>3, <1>4, QuietPrime
<1>14. PICK mv : mv = mutex'
  OBVIOUS
<1>15. Changed(mutex, mv, m, s)
  BY <1>4, <1>8, <1>14 DEF Changed
<1>16. Tidy(mv, k.state, [at EXCEPT ![t] = x], held)
  BY <1>1, <1>2, <1>4, <1>5, <1>7, <1>11, <1>15, InvalidLemma
<1> QED
  BY <1>3, <1>10, <1>12, <1>13, <1>14, <1>16 DEF IInv

LEMMA DestroyWakeLemma ==
  ASSUME IInv, NEW t \in AppTask, DestroyWake(t)
  PROVE  IInv'
<1>1. /\ Runs(k, t) /\ at[t].pc = "flush"
      /\ at' = at /\ held' = held
  BY DEF DestroyWake, Continues
<1>2. PICK m \in MutexId : m = at[t].m
  BY <1>1, RunsLemma, AtLemma
<1>3. /\ mutex[m].waiters # <<>>
      /\ k' = TaskReady(k, Head(mutex[m].waiters))
      /\ mutex' = [mutex EXCEPT ![m].waiters = Tail(@)]
  BY <1>2 DEF DestroyWake
<1>4. /\ mutex \in [MutexId -> MutexStruct] /\ mutex[m] \in MutexStruct
      /\ at \in [AppTask -> At] /\ Quiet(k)
      /\ held \in [AppTask -> SUBSET MutexId]
      /\ Tidy(mutex, k.state, at, held) /\ k.state \in [Task -> State]
      /\ mutex[m].waiters \in Seq(AppTask) /\ Inj(mutex[m].waiters)
      /\ Queue(mutex[m], m, k.state, at)
  BY PartsLemma
<1>5. ~mutex[m].valid
  <2>1. Place(t, mutex, "READY", at[t], held[t])
    BY <1>1, RunsLemma
  <2> QED
    BY <1>1, <1>2, <2>1 DEF Place
<1>6. PICK w \in Seq(AppTask) : w = mutex[m].waiters /\ Inj(w) /\ w # <<>>
  BY <1>3, <1>4
<1>7. PICK u \in AppTask : u = Head(w) /\ u \in ToSet(w)
  BY <1>6, HeadLemma
<1>8. Tail(w) \in Seq(AppTask) /\ Inj(Tail(w)) /\ ToSet(Tail(w)) = ToSet(w) \ {u}
  BY <1>6, <1>7, HeadLemma
<1>9. Quiet(k') /\ k'.state = [k.state EXCEPT ![u] = "READY"]
  <2>1. u \in Task /\ k.state[u] # "READY"
    BY <1>4, <1>6, <1>7, AppTaskLemma DEF Queue
  <2>2. k' = TaskReady(k, u)
    BY <1>3, <1>6, <1>7
  <2> QED
    BY <1>4, <2>1, <2>2, QuietReady
<1>10. PICK s : s = [mutex[m] EXCEPT !.waiters = Tail(w)]
  OBVIOUS
<1>11. /\ s \in MutexStruct /\ s.lock = mutex[m].lock
       /\ s.owner = mutex[m].owner /\ s.valid = mutex[m].valid
       /\ s.waiters = Tail(w)
  BY <1>4, <1>8, <1>10 DEF MutexStruct
<1>12. mutex' = [mutex EXCEPT ![m] = s]
  BY <1>3, <1>4, <1>6, <1>10
<1>13. DataOK'
  BY <1>1, <1>4, <1>11, <1>12 DEF DataOK
<1>14. Quiet(k)'
  BY <1>9, QuietPrime
<1>15. PICK mv : mv = mutex'
  OBVIOUS
<1>16. Changed(mutex, mv, m, s)
  BY <1>4, <1>12, <1>15 DEF Changed
<1>17. /\ u \in ToSet(mutex[m].waiters) /\ Inj(s.waiters)
       /\ ToSet(s.waiters) = ToSet(mutex[m].waiters) \ {u}
       /\ (s.waiters # <<>> => mutex[m].waiters # <<>>)
  BY <1>3, <1>6, <1>7, <1>8, <1>11
<1>18. Tidy(mv, [k.state EXCEPT ![u] = "READY"], at, held)
  BY <1>4, <1>5, <1>11, <1>16, <1>17, DropLemma
<1> QED
  BY <1>1, <1>9, <1>13, <1>14, <1>15, <1>18 DEF IInv

LEMMA DestroyEndLemma ==
  ASSUME IInv, NEW t \in AppTask, DestroyEnd(t)
  PROVE  IInv'
<1>1. /\ Runs(k, t) /\ at[t].pc = "flush"
      /\ at' = [at EXCEPT ![t] = Free] /\ mutex' = mutex
  BY DEF DestroyEnd, Continues
<1>2. PICK m \in MutexId : m = at[t].m
  BY <1>1, RunsLemma, AtLemma
<1>3. /\ mutex \in [MutexId -> MutexStruct] /\ Quiet(k)
      /\ mutex[m].boosted \in Nat
      /\ held \in [AppTask -> SUBSET MutexId] /\ held[t] \in SUBSET MutexId
  BY PartsLemma
<1>4. PICK u : u = IF mutex[m].boosted > 0
                   THEN UnboostPriority(k, t, mutex[m].boosted) ELSE k
  OBVIOUS
<1>5. k' = PendScheduler(u) /\ held' = [held EXCEPT ![t] = @ \ {m}]
  BY <1>2, <1>4 DEF DestroyEnd
<1>6. /\ Place(t, mutex, "READY", at[t], held[t])
      /\ t \in Task /\ IsReady(k, k.active)
  BY <1>1, RunsLemma
<1>7. Quiet(u) /\ u.state = k.state
  BY <1>3, <1>4, <1>6, QuietUnboost
<1>8. Quiet(k') /\ k'.state = k.state
  BY <1>5, <1>7, QuietCheck
<1>9. PICK g : g = held[t] \ {m}
  OBVIOUS
<1>10. g \in SUBSET MutexId /\ held' = [held EXCEPT ![t] = g]
  BY <1>3, <1>5, <1>9
<1>11. Free \in At /\ Free.pc = "free"
  BY PlaceLemma
<1>12. Place(t, mutex, "READY", Free, g)
  BY <1>6, <1>9, <1>11 DEF Place
<1>13. /\ mutex' \in [MutexId -> MutexStruct]
       /\ \A i \in MutexId : /\ mutex'[i].lock = mutex[i].lock
                             /\ mutex'[i].owner = mutex[i].owner
                             /\ mutex'[i].waiters = mutex[i].waiters
                             /\ mutex'[i].valid = mutex[i].valid
  BY <1>1, <1>3
<1> QED
  BY <1>1, <1>8, <1>10, <1>11, <1>12, <1>13, StepLemma

\* What else the tasks, the handlers and the dispatcher do.
LEMMA OtherLemma ==
  ASSUME IInv, \/ \E t \in AppTask : Block(t)
               \/ IsrStep
               \/ PendSV
  PROVE  IInv'
<1>1. /\ mutex \in [MutexId -> MutexStruct] /\ at \in [AppTask -> At]
      /\ held \in [AppTask -> SUBSET MutexId]
      /\ Quiet(k) /\ Tidy(mutex, k.state, at, held)
      /\ k.state \in [Task -> State]
  BY PartsLemma
<1>2. mutex' = mutex /\ at' = at /\ held' = held
  BY DEF Block, IsrStep, EnterIsr, ReturnFromIsr, IsrReady, PendSV
<1>3. SUFFICES /\ Quiet(k')
               /\ \A u \in AppTask : k'.state[u] = "MUTEX_BLOCKED" <=>
                                     k.state[u] = "MUTEX_BLOCKED"
  <2>1. PICK e : e = k'.state
    OBVIOUS
  <2>2. Tidy(mutex, e, at, held)
    BY <1>1, <1>3, <2>1, StateLemma
  <2>3. DataOK' /\ Quiet(k)'
    BY <1>1, <1>2, <1>3, QuietPrime DEF DataOK
  <2> QED
    BY <1>2, <2>1, <2>2, <2>3 DEF IInv
<1>4. CASE \E t \in AppTask : Block(t)
  <2>1. PICK t \in AppTask : Block(t)
    BY <1>4
  <2>2. Runs(k, t) /\ k' = TaskBlock(k, t)
    BY <2>1 DEF Block, Calls
  <2>3. IsReady(k, t) /\ k.state[t] = "READY"
    BY <2>2, RunsLemma
  <2>4. Quiet(k') /\ k'.state = [k.state EXCEPT ![t] = "BLOCKED"]
    BY <1>1, <2>2, <2>3, QuietBlock
  <2> QED
    BY <1>1, <2>3, <2>4, AppTaskLemma
<1>5. CASE EnterIsr \/ ReturnFromIsr \/ PendSV
  <2>1. k' = IsrEntry(k) \/ (k.isr > 0 /\ k' = IsrReturn(k)) \/ k' = Dispatch(k)
    BY <1>5 DEF EnterIsr, ReturnFromIsr, PendSV
  <2>2. Quiet(k') /\ k'.state = k.state
    BY <1>1, <2>1, QuietIsr
  <2> QED
    BY <2>2
<1>6. CASE \E u \in AppTask : IsrReady(u)
  <2>1. PICK u \in AppTask : k.state[u] = "BLOCKED" /\ k' = TaskReady(k, u)
    BY <1>6 DEF IsrReady
  <2>2. u \in Task
    BY AppTaskLemma
  <2>3. Quiet(k') /\ k'.state = [k.state EXCEPT ![u] = "READY"]
    BY <1>1, <2>1, <2>2, QuietReady
  <2> QED
    BY <1>1, <2>1, <2>3, AppTaskLemma
<1> QED
  BY <1>4, <1>5, <1>6 DEF IsrStep

LEMMA InitLemma == Init => IInv
<1> SUFFICES ASSUME Init PROVE IInv
  OBVIOUS
<1>1. /\ HomePriority \in [Task -> Prio] /\ AutoQueues \in [Prio -> Seq(Task)]
      /\ StartsWith(HomePriority, AutoQueues, {})
  BY MutexAssumption DEF StartsWith, IsInjective, Inj
<1>2. Sound(k) /\ \A t \in Task : k.state[t] = "READY" /\ ~k.timed[t]
  BY <1>1, SoundStartAll DEF Init
<1>3. ~k.ticking
  <2>1. PICK d : d = [InitKernel(HomePriority) EXCEPT
                        !.ready = AutoQueues,
                        !.state = [t \in Task |-> "READY"], !.current = 0]
    OBVIOUS
  <2>2. ~d.ticking /\ k = Dispatch(d)
    BY <2>1 DEF Init, StartKernel, InitKernel
  <2>3. d \in [ready : {d.ready}, current : {d.current}, active : {d.active},
               state : {d.state}, my : {d.my}, home : {d.home},
               boosted : {d.boosted}, timeouts : {d.timeouts},
               timed : {d.timed}, left : {d.left}, nopreempt : {d.nopreempt},
               isr : {d.isr}, ticking : {d.ticking}, pend : {d.pend}]
    BY <2>1 DEF InitKernel
  <2> QED
    BY <2>2, <2>3 DEF Dispatch
<1>4. PICK attr \in Attributes :
        mutex = [m \in MutexId |->
                   [valid |-> TRUE, lock |-> FALSE, owner |-> Nobody,
                    waiters |-> <<>>, boosted |-> 0, attr |-> attr[m]]]
  BY DEF Init
<1>5. /\ \A m \in MutexId :
           /\ mutex[m].lock = FALSE /\ mutex[m].owner = Nobody
           /\ mutex[m].waiters = <<>>
      /\ at = [t \in AppTask |-> Free] /\ held = [t \in AppTask |-> {}]
  BY <1>4 DEF Init
<1>6. DataOK
  <2>1. \A m \in MutexId : attr[m] \in MutexAttr
    BY <1>4, MutexAssumption
  <2>2. mutex \in [MutexId -> MutexStruct]
    BY <1>4, <2>1, EmptyLemma DEF MutexStruct
  <2> QED
    BY <1>5, <2>2, PlaceLemma DEF DataOK
<1>7. \A m \in MutexId : Queue(mutex[m], m, k.state, at)
  BY <1>2, <1>5, EmptyLemma, AppTaskLemma DEF Queue
<1>8. \A t \in AppTask : Place(t, mutex, k.state[t], at[t], held[t])
  BY <1>5, PlaceLemma DEF Place
<1> QED
  BY <1>2, <1>3, <1>6, <1>7, <1>8 DEF IInv, Quiet, Tidy

LEMMA TaskStepLemma ==
  ASSUME IInv, NEW t \in AppTask, TaskStep(t)
  PROVE  IInv'
<1>1. CASE \E m \in MutexId : StartLock(t, m, "own")
  BY <1>1, StartLockLemma DEF Goal
<1>2. CASE \E m \in MutexId : TryLock(t, m) \/ Unlock(t, m)
  BY <1>2, TryLockLemma, UnlockLemma
<1>3. CASE \E m \in MutexId, c \in NewCeilings : SetCeiling(t, m, c)
  BY <1>3, SetCeilingLemma
<1>4. CASE \E m \in MutexId : StartDestroy(t, m)
  BY <1>4, StartDestroyLemma
<1>5. CASE LockFree(t) \/ LockBusy(t) \/ LockResume(t) \/ LockProtect(t)
  BY <1>5, LockFreeLemma, LockBusyLemma, LockResumeLemma, LockProtectLemma
<1>6. CASE Handover(t) \/ Unboost(t)
  BY <1>6, HandoverLemma, UnboostLemma
<1>7. CASE Destroy(t) \/ DestroyWake(t) \/ DestroyEnd(t)
  BY <1>7, DestroyLemma, DestroyWakeLemma, DestroyEndLemma
<1>8. CASE Block(t)
  BY <1>8, OtherLemma
<1> QED
  BY <1>1, <1>2, <1>3, <1>4, <1>5, <1>6, <1>7, <1>8 DEF TaskStep

LEMMA NextLemma ==
  ASSUME IInv, [Next]_vars
  PROVE  IInv'
<1>1. CASE UNCHANGED vars
  <2>1. UNCHANGED <<k, mutex, at, held>>
    BY <1>1 DEF vars
  <2>2. Quiet(k)'
    BY <2>1, QuietPrime DEF IInv
  <2> QED
    BY <2>1, <2>2 DEF IInv, DataOK
<1>2. CASE \E t \in AppTask : TaskStep(t)
  BY <1>2, TaskStepLemma
<1>3. CASE IsrStep \/ PendSV
  BY <1>3, OtherLemma
<1> QED
  BY <1>1, <1>2, <1>3 DEF Next

LEMMA Inductive == Spec => []IInv
<1>1. Init => IInv
  BY InitLemma
<1>2. IInv /\ [Next]_vars => IInv'
  BY NextLemma
<1> QED
  BY <1>1, <1>2, PTL DEF Spec

-----------------------------------------------------------------------------

\* Mutual exclusion, for every protocol and queueing order: the new owner is
\* written before the waiter is readied, and what a woken task finds when it
\* is dispatched is still so (_mutex_lock, _mutex_unlock, _mutex_destroy).
THEOREM MutualExclusion == Spec => []HoldersOwn
<1>1. IInv => HoldersOwn
  BY DEF IInv, Tidy, Place, Owned, HoldersOwn
<1> QED
  BY <1>1, Inductive, PTL

\* WAITING_TASKS of every mutex, TD.STATE and the kernel's queues agree in the
\* middle of the calls too, when tasks are boosted and the processor is given
\* away there (mutex.c, sched.c).
THEOREM QueuesOfMutexesAgree == Spec => []WaitersAgree
<1>1. IInv => WaitersAgree
  <2> SUFFICES ASSUME IInv PROVE WaitersAgree
    OBVIOUS
  <2>1. DataOK /\ Tidy(mutex, k.state, at, held)
    BY DEF IInv
  <2>2. k \in Kernel /\ Agree(k, {}) /\ NoneAbove(k)
    BY DEF IInv, Quiet, Sound, Basic
  <2>3. TypeOK
    BY <2>1, <2>2 DEF DataOK, TypeOK
  <2>4. QueuesAgree(k)
    BY <2>2, AgreeLemma
  <2>5. ASSUME NEW m \in MutexId
        PROVE  /\ IsInjective(mutex[m].waiters)
               /\ ToSet(mutex[m].waiters) =
                    {t \in AppTask : /\ k.state[t] = "MUTEX_BLOCKED"
                                     /\ at[t].pc = "blocked" /\ at[t].m = m}
               /\ mutex[m].waiters # <<>> => mutex[m].lock
               /\ mutex[m].owner \notin ToSet(mutex[m].waiters)
    <3>1. Queue(mutex[m], m, k.state, at) /\ mutex[m].waiters \in Seq(AppTask)
      BY PartsLemma
    <3>2. IsInjective(mutex[m].waiters)
      <4>1. \A s \in Seq(AppTask) : Inj(s) => IsInjective(s)
        BY DEF Inj, IsInjective
      <4> QED
        BY <3>1, <4>1 DEF Queue
    <3>3. mutex[m].owner \notin ToSet(mutex[m].waiters)
      BY <2>1, <3>1 DEF Tidy, Queue, Place
    <3> QED
      BY <3>1, <3>2, <3>3 DEF Queue
  <2> QED
    BY <2>2, <2>3, <2>4, <2>5 DEF WaitersAgree
<1> QED
  BY <1>1, Inductive, PTL

-----------------------------------------------------------------------------
(* Priorities.  What the routines of the kernel do to MY_QUEUE, HOME_QUEUE, *)
(* BOOSTED and the preemption flag.                                         *)

SameRanks(d, c) ==
  /\ {"my", "home", "boosted", "nopreempt"} \subseteq DOMAIN d
  /\ d.my = c.my /\ d.home = c.home /\ d.boosted = c.boosted
  /\ d.nopreempt = c.nopreempt

LEMMA RanksTwice ==
  ASSUME NEW c, NEW d, NEW e, SameRanks(d, c), SameRanks(e, d)
  PROVE  SameRanks(e, c)
BY DEF SameRanks

LEMMA RanksStay ==
  ASSUME NEW c, SameRanks(c, c), NEW t
  PROVE  /\ \A p : SameRanks(Unlink(c, t, p), c)
         /\ SameRanks(TaskReady(c, t), c)
         /\ \A st : SameRanks([c EXCEPT !.state[t] = st], c)
         /\ SameRanks(Dispatch(c), c)
         /\ SameRanks(CheckRunScheduler(c), c)
         /\ SameRanks(IsrEntry(c), c) /\ SameRanks(IsrReturn(c), c)
         /\ \A p, st : SameRanks([Unlink(c, t, p) EXCEPT !.state[t] = st], c)
         /\ SameRanks(TaskBlock(c, t), c)
<1>1. \A p : SameRanks(Unlink(c, t, p), c)
  BY DEF SameRanks, Unlink
<1>2. SameRanks(TaskReady(c, t), c)
  BY DEF SameRanks, TaskReady
<1>3. \A st : SameRanks([c EXCEPT !.state[t] = st], c)
  BY DEF SameRanks
<1>4. SameRanks(Dispatch(c), c)
  BY DEF SameRanks, Dispatch
<1>5. SameRanks(CheckRunScheduler(c), c)
  BY <1>4 DEF CheckRunScheduler
<1>6. SameRanks(IsrEntry(c), c) /\ SameRanks(IsrReturn(c), c)
  BY DEF SameRanks, IsrEntry, IsrReturn
<1>7. \A p, st : SameRanks([Unlink(c, t, p) EXCEPT !.state[t] = st], c)
  BY DEF SameRanks, Unlink
<1>8. SameRanks(TaskBlock(c, t), c)
  BY DEF SameRanks, Unlink, TaskBlock
<1> QED
  BY <1>1, <1>2, <1>3, <1>4, <1>5, <1>6, <1>7, <1>8

LEMMA KernelRanks == \A d \in Kernel : SameRanks(d, d)
BY DEF Kernel, SameRanks

\* A task gets another priority, whether it is ready or not.
LEMMA SetPriorityRanks ==
  ASSUME NEW c, SameRanks(c, c), NEW t, NEW p
  PROVE  LET d == SetPriorityInternal(c, t, p)
         IN  /\ {"my", "home", "boosted", "nopreempt"} \subseteq DOMAIN d
             /\ d.my = [c.my EXCEPT ![t] = p] /\ d.home = c.home
             /\ d.boosted = c.boosted /\ d.nopreempt = c.nopreempt
<1>1. PICK m : m = [c EXCEPT !.my[t] = p]
  OBVIOUS
<1>2. /\ SameRanks(m, m) /\ m.my = [c.my EXCEPT ![t] = p]
      /\ m.home = c.home /\ m.boosted = c.boosted /\ m.nopreempt = c.nopreempt
  BY <1>1 DEF SameRanks
<1>3. PICK u : u = Unlink(m, t, c.my[t])
  OBVIOUS
<1>4. PICK r : r = TaskReady(u, t)
  OBVIOUS
<1>5. SameRanks(u, m)
  BY <1>2, <1>3, RanksStay
<1>6. SameRanks(u, u)
  BY <1>5 DEF SameRanks
<1>7. SameRanks(r, u)
  BY <1>4, <1>6, RanksStay
<1>8. SameRanks(r, m) /\ SameRanks(r, r)
  BY <1>5, <1>7 DEF SameRanks
<1>9. SameRanks(Dispatch(r), r)
  BY <1>8, RanksStay
<1>10. SetPriorityInternal(c, t, p) \in {m, r, Dispatch(r)}
  BY <1>1, <1>3, <1>4 DEF SetPriorityInternal
<1> QED
  BY <1>2, <1>8, <1>9, <1>10 DEF SameRanks

LEMMA BoostRanks ==
  ASSUME NEW d \in Kernel, NEW t \in Task, NEW p
  PROVE  LET e == BoostPriority(d, t, p)
         IN  /\ e.my = [d.my EXCEPT ![t] = p] /\ e.home = d.home
             /\ e.boosted = [d.boosted EXCEPT ![t] = @ + 1]
             /\ e.nopreempt = d.nopreempt
<1>1. PICK b : b = [d EXCEPT !.boosted[t] = @ + 1]
  OBVIOUS
<1>2. /\ SameRanks(b, b) /\ b.my = d.my /\ b.home = d.home
      /\ b.boosted = [d.boosted EXCEPT ![t] = @ + 1] /\ b.nopreempt = d.nopreempt
  BY <1>1, KernelRanks DEF SameRanks
<1>3. PICK s : s = SetPriorityInternal(b, t, p)
  OBVIOUS
<1>4. /\ SameRanks(s, s) /\ s.my = [d.my EXCEPT ![t] = p] /\ s.home = d.home
      /\ s.boosted = b.boosted /\ s.nopreempt = d.nopreempt
  BY <1>2, <1>3, SetPriorityRanks DEF SameRanks
<1>5. SameRanks(CheckRunScheduler(s), s)
  BY <1>4, RanksStay
<1> QED
  BY <1>1, <1>2, <1>3, <1>4, <1>5 DEF BoostPriority, SameRanks

\* All boosts are taken back at once.
LEMMA UnboostRanks ==
  ASSUME NEW d \in Kernel, NEW t \in Task, NEW n \in Nat, d.boosted[t] <= n,
         d.boosted[t] = 0 => d.my[t] = d.home[t]
  PROVE  LET e == UnboostPriority(d, t, n)
         IN  /\ e.my = [d.my EXCEPT ![t] = d.home[t]] /\ e.home = d.home
             /\ e.boosted = [d.boosted EXCEPT ![t] = 0]
             /\ e.nopreempt = d.nopreempt
<1>1. /\ d.boosted \in [Task -> Nat] /\ d.my \in [Task -> Prio]
      /\ d.boosted[t] \in Nat
  BY DEF Kernel
<1>2. CASE d.boosted[t] = 0
  <2>1. UnboostPriority(d, t, n) = d
    BY <1>2 DEF UnboostPriority
  <2>2. [d.boosted EXCEPT ![t] = 0] = d.boosted
    BY <1>1, <1>2
  <2>3. [d.my EXCEPT ![t] = d.home[t]] = d.my
    BY <1>1, <1>2
  <2> QED
    BY <2>1, <2>2, <2>3
<1>3. CASE d.boosted[t] # 0
  <2>1. PICK b : b = [d EXCEPT !.boosted[t] = 0]
    OBVIOUS
  <2>2. /\ SameRanks(b, b) /\ b.my = d.my /\ b.home = d.home
        /\ b.boosted = [d.boosted EXCEPT ![t] = 0] /\ b.nopreempt = d.nopreempt
    BY <2>1, KernelRanks DEF SameRanks
  <2>3. PICK s : s = SetPriorityInternal(b, t, d.home[t])
    OBVIOUS
  <2>4. /\ SameRanks(s, s) /\ s.my = [d.my EXCEPT ![t] = d.home[t]]
        /\ s.home = d.home /\ s.boosted = b.boosted /\ s.nopreempt = d.nopreempt
    BY <2>2, <2>3, SetPriorityRanks DEF SameRanks
  <2>5. SameRanks(CheckRunScheduler(s), s)
    BY <2>4, RanksStay
  <2>6. ~(d.boosted[t] > n)
    BY <1>1
  <2>7. UnboostPriority(d, t, n) = CheckRunScheduler(s)
    BY <1>3, <2>1, <2>3, <2>6 DEF UnboostPriority
  <2> QED
    BY <2>2, <2>4, <2>5, <2>7 DEF SameRanks
<1> QED
  BY <1>2, <1>3

\* A task that changes a priority leaves the most urgent ready task running.
LEMMA BoostSettled ==
  ASSUME NEW d, Quiet(d), IsReady(d, d.active), d.isr = 0,
         NEW t \in Task, NEW p \in Prio
  PROVE  Settled(BoostPriority(d, t, p))
<1>1. d.boosted[t] + 1 \in Nat
  BY QuietFacts
<1>2. PICK b : b = [d EXCEPT !.boosted[t] = d.boosted[t] + 1]
  OBVIOUS
<1>3. Quiet(b) /\ b.state = d.state /\ b.timed = d.timed /\ b.active = d.active
  BY <1>1, <1>2, QuietCount
<1>4. b \in Kernel /\ Basic(b) /\ IsReady(b, b.active) /\ b.isr = 0
  BY <1>2, <1>3, QuietFacts DEF IsReady, Kernel
<1>5. PICK s : s = SetPriorityInternal(b, t, p)
  OBVIOUS
<1>6. s \in Kernel /\ Basic(s) /\ IsReady(s, s.active) /\ s.isr = 0
  BY <1>4, <1>5, SetPriorityLemma
<1>7. BoostPriority(d, t, p) = CheckRunScheduler(s)
  BY <1>2, <1>5 DEF BoostPriority
<1> QED
  BY <1>6, <1>7, CheckRunSchedulerLemma

LEMMA UnboostSettled ==
  ASSUME NEW d, Quiet(d), IsReady(d, d.active), d.isr = 0, Settled(d),
         NEW t \in Task, NEW n \in Nat, d.boosted[t] <= n
  PROVE  Settled(UnboostPriority(d, t, n))
<1>1. d.boosted[t] \in Nat /\ d.home[t] \in Prio /\ 0 \in Nat
  BY QuietFacts
<1>2. CASE d.boosted[t] = 0
  BY <1>2 DEF UnboostPriority
<1>3. CASE d.boosted[t] # 0
  <2>1. PICK b : b = [d EXCEPT !.boosted[t] = 0]
    OBVIOUS
  <2>2. Quiet(b) /\ b.state = d.state /\ b.timed = d.timed /\ b.active = d.active
    BY <1>1, <2>1, QuietCount
  <2>3. b \in Kernel /\ Basic(b) /\ IsReady(b, b.active) /\ b.isr = 0
    BY <2>1, <2>2, QuietFacts DEF IsReady, Kernel
  <2>4. PICK s : s = SetPriorityInternal(b, t, d.home[t])
    OBVIOUS
  <2>5. s \in Kernel /\ Basic(s) /\ IsReady(s, s.active) /\ s.isr = 0
    BY <1>1, <2>3, <2>4, SetPriorityLemma
  <2>6. ~(d.boosted[t] > n)
    BY <1>1
  <2>7. UnboostPriority(d, t, n) = CheckRunScheduler(s)
    BY <1>3, <2>1, <2>4, <2>6 DEF UnboostPriority
  <2> QED
    BY <2>5, <2>7, CheckRunSchedulerLemma
<1> QED
  BY <1>2, <1>3

LEMMA UnboostIsr ==
  ASSUME NEW d, Quiet(d), IsReady(d, d.active), d.isr = 0,
         NEW t \in Task, NEW n \in Nat
  PROVE  UnboostPriority(d, t, n).isr = 0
<1>1. d.boosted[t] \in Nat /\ d.home[t] \in Prio /\ 0 \in Nat /\ d \in Kernel
  BY QuietFacts
<1>2. CASE d.boosted[t] = 0
  BY <1>2 DEF UnboostPriority
<1>3. CASE d.boosted[t] # 0 /\ d.boosted[t] > n
  BY <1>1, <1>3 DEF UnboostPriority, Kernel
<1>4. CASE d.boosted[t] # 0 /\ ~(d.boosted[t] > n)
  <2>1. PICK b : b = [d EXCEPT !.boosted[t] = 0]
    OBVIOUS
  <2>2. Quiet(b) /\ b.state = d.state /\ b.active = d.active
    BY <1>1, <2>1, QuietCount
  <2>3. b \in Kernel /\ Basic(b) /\ IsReady(b, b.active) /\ b.isr = 0
    BY <1>1, <2>1, <2>2, QuietFacts DEF IsReady, Kernel
  <2>4. PICK s : s = SetPriorityInternal(b, t, d.home[t])
    OBVIOUS
  <2>5. s \in Kernel /\ s.isr = 0
    BY <1>1, <2>3, <2>4, SetPriorityLemma
  <2>6. CheckRunScheduler(s).isr = 0
    BY <2>5 DEF CheckRunScheduler, Dispatch, Kernel
  <2> QED
    BY <1>4, <2>1, <2>4, <2>6 DEF UnboostPriority
<1> QED
  BY <1>2, <1>3, <1>4

LEMMA PendRanks ==
  ASSUME NEW c, SameRanks(c, c)
  PROVE  SameRanks(PendScheduler(c), c)
BY DEF SameRanks, PendScheduler

-----------------------------------------------------------------------------
(* The priorities of the owner of a mutex.  What mutex.h says of them holds *)
(* of a task that owns one mutex, which keeps its ceiling and is queued for *)
(* by priority when it is inherited from.                                   *)

OneMutex == \E m : MutexId = {m}
FixedCeilings == NewCeilings = {}
Regular == \A attr \in Attributes, m \in MutexId :
             attr[m].protocol = "inherit" => attr[m].sorted

Leaving == {"handover", "unboost"}

\* The next unlocking takes back all boosts of the owner: BOOSTED of the mutex
\* counts them, or will count the one for its ceiling.
Covered(t, d, s, x) ==
  \/ d.boosted[t] <= s.boosted
  \/ /\ x.pc \in {"blocked", "protect"} /\ d.boosted[t] = 1
     /\ s.attr.protocol = "protect"
     /\ d.my[t] <= s.attr.ceiling /\ s.attr.ceiling < d.home[t]

\* A task t at place x that holds the mutexes g, in the kernel d; s is the
\* mutex m.
Account(t, d, s, x, g, m) ==
  /\ d.my[t] <= d.home[t]
  /\ d.boosted[t] = 0 => d.my[t] = d.home[t]
  /\ x.pc \in Leaving => s.owner # t
  /\ x.pc = "lock" => x.priority = d.my[t]
  /\ s.owner = t /\ x.pc \notin {"flush", "free"} => s.valid
  /\ d.boosted[t] # 0 => IF x.pc \in Leaving THEN d.boosted[t] <= x.count
                         ELSE s.owner = t /\ Covered(t, d, s, x)
  /\ m \in g /\ s.attr.protocol = "protect" => d.my[t] <= s.attr.ceiling

Ordered(s, my) ==
  s.valid /\ s.attr.protocol = "inherit" =>
    /\ s.attr.sorted /\ Timely(s.waiters, my, 0)
    /\ \A w \in ToSet(s.waiters) : my[s.owner] <= my[w]

Priorities(d, s, c, h, m) ==
  /\ s.valid \/ s.lock
  /\ \A t \in AppTask : Account(t, d, s, c[t], h[t], m)
  /\ Ordered(s, d.my)

\* The most urgent ready task runs, except between the two halves of
\* _mutex_unlock and in the loop of _mutex_destroy; in _mutex_unlock the old
\* owner is as urgent as those still waiting.
Switches(d, s, c) ==
  /\ \A t \in Task : ~d.nopreempt[t]
  /\ Settled(d) \/ \E t \in AppTask : Runs(d, t) /\ c[t].pc \in {"handover", "flush"}
  /\ s.attr.protocol = "inherit" =>
       \A t \in AppTask : c[t].pc = "handover" =>
         Runs(d, t) /\ \A w \in ToSet(s.waiters) : d.my[t] <= d.my[w]

Lawful(d, mu, c, h) ==
  \A m \in MutexId : Priorities(d, mu[m], c, h, m) /\ Switches(d, mu[m], c)

PInv == IInv /\ Lawful(k, mutex, at, held)

-----------------------------------------------------------------------------
(* A task that a step does not concern keeps its account.                   *)

Untouched(v, d, e, s, r, x, y, g, i) ==
  /\ e.my[v] = d.my[v] /\ e.home[v] = d.home[v] /\ e.boosted[v] = d.boosted[v]
  /\ y = x /\ i = g
  /\ r.owner = v <=> s.owner = v
  /\ s.owner = v => s.boosted <= r.boosted /\ (s.valid => r.valid)

LEMMA UntouchedLemma ==
  ASSUME NEW v, NEW d, NEW e, NEW s, NEW r, NEW x, NEW y, NEW g, NEW i, NEW m,
         Account(v, d, s, x, g, m), Untouched(v, d, e, s, r, x, y, g, i),
         r.attr = s.attr, d.boosted[v] \in Nat, s.boosted \in Nat, r.boosted \in Nat
  PROVE  Account(v, e, r, y, i, m)
<1>1. Covered(v, d, s, x) /\ s.owner = v => Covered(v, e, r, x)
  BY DEF Covered, Untouched
<1> QED
  BY <1>1 DEF Account, Untouched

\* What the proofs for the actions start from.
LEMMA RankFacts ==
  ASSUME PInv, NEW m \in MutexId
  PROVE  /\ \A t \in Task : /\ k.my[t] \in Nat /\ k.home[t] \in Nat
                            /\ k.my[t] \in Prio /\ k.home[t] \in Prio
                            /\ k.boosted[t] \in Nat
         /\ k.my \in [Task -> Prio] /\ k.home \in [Task -> Prio]
         /\ k.boosted \in [Task -> Nat] /\ k \in Kernel /\ Quiet(k)
         /\ mutex \in [MutexId -> MutexStruct] /\ at \in [AppTask -> At]
         /\ held \in [AppTask -> SUBSET MutexId]
         /\ mutex[m] \in MutexStruct /\ mutex[m].boosted \in Nat
         /\ Ceiling(m) \in Nat /\ Ceiling(m) \in Prio
         /\ mutex[m].waiters \in Seq(AppTask) /\ Inj(mutex[m].waiters)
         /\ Queue(mutex[m], m, k.state, at)
         /\ \A t \in AppTask : t \in Task /\ Account(t, k, mutex[m], at[t], held[t], m)
         /\ mutex[m].valid \/ mutex[m].lock
         /\ Ordered(mutex[m], k.my)
         /\ Switches(k, mutex[m], at)
<1>1. Prio \subseteq Nat /\ AppPrio \subseteq Prio
  BY KernelAssumption DEF Prio, AppPrio
<1>2. Quiet(k) /\ DataOK /\ Priorities(k, mutex[m], at, held, m)
      /\ Switches(k, mutex[m], at)
  BY DEF PInv, IInv, Lawful
<1>3. k \in Kernel /\ k.my \in [Task -> Prio] /\ k.home \in [Task -> Prio]
      /\ k.boosted \in [Task -> Nat]
  BY <1>2, QuietFacts
<1>4. /\ mutex[m] \in MutexStruct /\ mutex[m].boosted \in Nat
      /\ mutex[m].waiters \in Seq(AppTask) /\ Inj(mutex[m].waiters)
      /\ Queue(mutex[m], m, k.state, at) /\ Ceiling(m) \in AppPrio
  BY PartsLemma DEF PInv
<1>5. \A t \in AppTask : t \in Task
  BY AppTaskLemma
<1> QED
  BY <1>1, <1>2, <1>3, <1>4, <1>5 DEF DataOK, Priorities

\* The executing task is not queued for a mutex, and alone on the processor.
LEMMA ActorFacts ==
  ASSUME PInv, NEW m \in MutexId, NEW t \in AppTask, Runs(k, t)
  PROVE  /\ k.isr = 0 /\ ~k.pend /\ k.active = t /\ IsReady(k, k.active)
         /\ \A v : Runs(k, v) => v = t
         /\ t \notin ToSet(mutex[m].waiters)
         /\ Place(t, mutex, "READY", at[t], held[t])
         /\ at[t].pc \notin {"handover", "flush"} => Settled(k)
<1>1. /\ k.state[t] = "READY" /\ IsReady(k, k.active)
      /\ Place(t, mutex, "READY", at[t], held[t])
  BY RunsLemma DEF PInv
<1>2. Queue(mutex[m], m, k.state, at) /\ Switches(k, mutex[m], at)
  BY RankFacts
<1> QED
  BY <1>1, <1>2 DEF Runs, Queue, Switches

\* A step of the executing task after which the kernel is settled.
LEMMA SwitchLemma ==
  ASSUME PInv, NEW m \in MutexId, NEW t \in AppTask, Runs(k, t),
         NEW d, NEW s, NEW x, x.pc # "handover", Settled(d),
         d.nopreempt = k.nopreempt, s.attr = mutex[m].attr
  PROVE  Switches(d, s, [at EXCEPT ![t] = x])
<1>1. Switches(k, mutex[m], at) /\ at \in [AppTask -> At]
  BY RankFacts
<1>2. \A v : Runs(k, v) => v = t
  BY ActorFacts
<1> QED
  BY <1>1, <1>2 DEF Switches

LEMMA OrderedStays ==
  ASSUME PInv, NEW m \in MutexId, NEW s, s.attr = mutex[m].attr,
         s.valid = mutex[m].valid, s.waiters = mutex[m].waiters,
         NEW my \in [Task -> Prio],
         \A w \in ToSet(s.waiters) : my[w] = k.my[w],
         s.waiters # <<>> => /\ s.owner = mutex[m].owner
                             /\ my[s.owner] <= k.my[s.owner]
  PROVE  Ordered(s, my)
<1>1. /\ s.waiters \in Seq(AppTask) /\ Queue(mutex[m], m, k.state, at)
      /\ mutex[m] \in MutexStruct /\ k.my \in [Task -> Prio]
      /\ Ordered(mutex[m], k.my) /\ \A t \in AppTask : t \in Task
  BY RankFacts
<1> SUFFICES ASSUME s.valid, s.attr.protocol = "inherit"
             PROVE  /\ s.attr.sorted /\ Timely(s.waiters, my, 0)
                    /\ \A w \in ToSet(s.waiters) : my[s.owner] <= my[w]
  BY DEF Ordered
<1>2. /\ s.attr.sorted /\ Timely(s.waiters, k.my, 0)
      /\ \A w \in ToSet(s.waiters) : k.my[mutex[m].owner] <= k.my[w]
  BY <1>1 DEF Ordered
<1>3. \A i \in 1 .. Len(s.waiters) : my[s.waiters[i]] = k.my[s.waiters[i]]
  BY DEF ToSet
<1>4. Timely(s.waiters, my, 0)
  BY <1>2, <1>3, SameTimely
<1>5. ASSUME NEW w \in ToSet(s.waiters)
      PROVE  my[s.owner] <= my[w]
  <2>1. s.waiters # <<>>
    BY <1>5 DEF ToSet
  <2>2. s.owner \in AppTask
    BY <1>1, <2>1 DEF Queue, MutexStruct
  <2>3. w \in AppTask
    BY <1>1, <1>5 DEF ToSet
  <2>4. /\ my[s.owner] \in Nat /\ k.my[s.owner] \in Nat /\ my[w] \in Nat
    BY <1>1, <2>2, <2>3, KernelAssumption DEF Prio
  <2>5. k.my[s.owner] <= my[w]
    BY <1>2, <1>5, <2>1
  <2> QED
    BY <2>1, <2>4, <2>5
<1> QED
  BY <1>2, <1>4, <1>5

\* The executing task t goes on to x, holding g; no other account changes.
LEMMA ActorLemma ==
  ASSUME PInv, NEW m \in MutexId, NEW t \in AppTask, Runs(k, t),
         NEW d, NEW s, NEW x, NEW g, s.boosted \in Nat,
         s.attr = mutex[m].attr, s.valid \/ s.lock,
         \A v \in AppTask \ {t} :
           Untouched(v, k, d, mutex[m], s, at[v], at[v], held[v], held[v]),
         Account(t, d, s, x, g, m), Ordered(s, d.my)
  PROVE  Priorities(d, s, [at EXCEPT ![t] = x], [held EXCEPT ![t] = g], m)
<1> DEFINE c == [at EXCEPT ![t] = x]
           h == [held EXCEPT ![t] = g]
<1>1. /\ at \in [AppTask -> At] /\ held \in [AppTask -> SUBSET MutexId]
      /\ mutex[m].boosted \in Nat
      /\ \A v \in AppTask : /\ k.boosted[v] \in Nat
                            /\ Account(v, k, mutex[m], at[v], held[v], m)
  BY RankFacts
<1>2. c[t] = x /\ h[t] = g /\ \A v \in AppTask \ {t} : c[v] = at[v] /\ h[v] = held[v]
  BY <1>1
<1> HIDE DEF c, h
<1>3. ASSUME NEW v \in AppTask \ {t}
      PROVE  Account(v, d, s, at[v], held[v], m)
  BY <1>1, <1>3, UntouchedLemma
<1>4. \A v \in AppTask : Account(v, d, s, c[v], h[v], m)
  BY <1>2, <1>3
<1> QED
  BY <1>1, <1>4 DEF Priorities, c, h

LEMMA StartLockPriorities ==
  ASSUME PInv, NEW m \in MutexId, MutexId = {m}, NEW t \in AppTask,
         NEW goal, StartLock(t, m, goal)
  PROVE  Priorities(k', mutex'[m], at', held', m) /\ Switches(k', mutex'[m], at')
<1>1. PICK x : x = [pc |-> "lock", m |-> m, priority |-> k.my[t], goal |-> goal]
  OBVIOUS
<1>2. /\ Runs(k, t) /\ at[t] = Free /\ mutex[m].owner # t
      /\ at' = [at EXCEPT ![t] = x] /\ k' = k /\ mutex' = mutex /\ held' = held
  BY <1>1 DEF StartLock, Calls
<1>3. /\ held' = [held EXCEPT ![t] = held[t]] /\ mutex[m].boosted \in Nat
      /\ mutex[m].valid \/ mutex[m].lock
      /\ Account(t, k, mutex[m], at[t], held[t], m) /\ Ordered(mutex[m], k.my)
  BY <1>2, RankFacts
<1>4. x.pc = "lock" /\ x.priority = k.my[t] /\ Free.pc = "free"
  BY <1>1 DEF Free
<1>5. Account(t, k, mutex[m], x, held[t], m)
  BY <1>2, <1>3, <1>4 DEF Account, Leaving
<1>6. \A v \in AppTask \ {t} :
        Untouched(v, k, k, mutex[m], mutex[m], at[v], at[v], held[v], held[v])
  BY <1>3 DEF Untouched
<1>7. Priorities(k, mutex[m], [at EXCEPT ![t] = x], [held EXCEPT ![t] = held[t]], m)
  BY <1>2, <1>3, <1>5, <1>6, ActorLemma
<1>8. Settled(k)
  BY <1>2, <1>4, ActorFacts
<1>9. Switches(k, mutex[m], [at EXCEPT ![t] = x])
  BY <1>2, <1>4, <1>8, SwitchLemma
<1> QED
  BY <1>2, <1>3, <1>7, <1>9

\* A sorted queue gives the new owner nothing to inherit.
LEMMA NothingInherited ==
  ASSUME PInv, NEW m \in MutexId, NEW t \in AppTask, NEW mu \in MutexStruct,
         mu.attr = mutex[m].attr, mutex[m].valid, InheritFromWaiters(t, m, mu)
  PROVE  k' = k /\ mutex'[m] = mu
<1>1. mutex \in [MutexId -> MutexStruct] /\ Ordered(mutex[m], k.my)
  BY RankFacts
<1>2. ~(Inherits(m) /\ ~mu.attr.sorted)
  BY <1>1 DEF Ordered, Inherits
<1>3. k' = k /\ mutex' = [mutex EXCEPT ![m] = [mu EXCEPT !.boosted = mu.boosted]]
  BY <1>2 DEF InheritFromWaiters
<1>4. [mu EXCEPT !.boosted = mu.boosted] = mu
  BY DEF MutexStruct
<1> QED
  BY <1>1, <1>3, <1>4

\* Where the new owner goes.
LEMMA OwnAccount ==
  ASSUME PInv, NEW m \in MutexId, NEW t \in AppTask, NEW goal, Own(t, m, goal),
         at[t].pc \notin Leaving, NEW s, s.attr = mutex[m].attr, s.owner = t,
         s.boosted = mutex[m].boosted, s.valid,
         k.boosted[t] # 0 => at[t].pc = "blocked" /\ mutex[m].owner = t
  PROVE  \E x, g : /\ at' = [at EXCEPT ![t] = x] /\ held' = [held EXCEPT ![t] = g]
                   /\ x.pc # "handover" /\ Account(t, k, s, x, g, m)
<1>1. /\ Account(t, k, mutex[m], at[t], held[t], m) /\ held[t] \in SUBSET MutexId
      /\ k.boosted[t] \in Nat /\ held \in [AppTask -> SUBSET MutexId]
  BY RankFacts
<1>2. CASE Protects(m)
  <2>1. PICK x : x = [pc |-> "protect", m |-> m, goal |-> goal]
    OBVIOUS
  <2>2. x.pc = "protect"
    BY <2>1
  <2>3. at' = [at EXCEPT ![t] = x] /\ held' = [held EXCEPT ![t] = held[t]]
    BY <1>2, <2>1 DEF Own
  <2>4. k.boosted[t] # 0 => Covered(t, k, s, x)
    BY <1>1, <2>2 DEF Account, Covered
  <2>5. Account(t, k, s, x, held[t], m)
    BY <1>1, <2>2, <2>4 DEF Account, Leaving
  <2> QED
    BY <2>2, <2>3, <2>5
<1>3. CASE ~Protects(m)
  <2>1. PICK x : x = IF goal = "destroy" THEN [pc |-> "destroy", m |-> m] ELSE Free
    OBVIOUS
  <2>2. at' = [at EXCEPT ![t] = x] /\ held' = [held EXCEPT ![t] = held[t] \cup {m}]
    BY <1>1, <1>3, <2>1 DEF Own
  <2>3. x.pc \in {"free", "destroy"} /\ s.attr.protocol # "protect"
    BY <1>3, <2>1 DEF Free, Protects
  <2>4. k.boosted[t] # 0 => Covered(t, k, s, x)
    BY <1>1, <2>3 DEF Account, Covered
  <2>5. Account(t, k, s, x, held[t] \cup {m}, m)
    BY <1>1, <2>3, <2>4 DEF Account, Leaving
  <2> QED
    BY <2>2, <2>3, <2>5
<1> QED
  BY <1>2, <1>3

\* A free mutex is taken.
LEMMA TakePriorities ==
  ASSUME PInv, NEW m \in MutexId, NEW t \in AppTask, Runs(k, t), ~mutex[m].lock,
         at[t].pc \notin Leaving \cup {"flush"}, NEW goal, Own(t, m, goal), k' = k,
         NEW s, s.owner = t, s.boosted = mutex[m].boosted, s.attr = mutex[m].attr,
         s.valid = mutex[m].valid, s.waiters = mutex[m].waiters
  PROVE  Priorities(k', s, at', held', m) /\ Switches(k', s, at')
<1>1. /\ Queue(mutex[m], m, k.state, at) /\ mutex[m].boosted \in Nat
      /\ Account(t, k, mutex[m], at[t], held[t], m) /\ k.my \in [Task -> Prio]
      /\ k.boosted[t] \in Nat /\ mutex[m].valid
  BY RankFacts
<1>2. mutex[m].owner = Nobody /\ s.waiters = <<>>
  BY <1>1 DEF Queue
<1>3. Nobody \notin AppTask
  BY MutexAssumption DEF AppTask
<1>4. k.boosted[t] = 0
  BY <1>1, <1>2, <1>3 DEF Account
<1>5. PICK x, g : /\ at' = [at EXCEPT ![t] = x] /\ held' = [held EXCEPT ![t] = g]
                  /\ x.pc # "handover" /\ Account(t, k, s, x, g, m)
  BY <1>1, <1>4, OwnAccount
<1>6. \A v \in AppTask \ {t} :
        Untouched(v, k, k, mutex[m], s, at[v], at[v], held[v], held[v])
  BY <1>1, <1>2, <1>3 DEF Untouched
<1>7. Ordered(s, k.my)
  BY <1>1, <1>2, OrderedStays DEF ToSet
<1>8. Priorities(k, s, [at EXCEPT ![t] = x], [held EXCEPT ![t] = g], m)
  BY <1>1, <1>5, <1>6, <1>7, ActorLemma
<1>9. Settled(k)
  BY ActorFacts DEF Leaving
<1>10. Switches(k, s, [at EXCEPT ![t] = x])
  BY <1>5, <1>9, SwitchLemma
<1> QED
  BY <1>5, <1>8, <1>10

LEMMA TryLockPriorities ==
  ASSUME PInv, NEW m \in MutexId, NEW t \in AppTask, TryLock(t, m)
  PROVE  Priorities(k', mutex'[m], at', held', m) /\ Switches(k', mutex'[m], at')
<1>1. /\ Runs(k, t) /\ at[t] = Free /\ ~mutex[m].lock /\ Own(t, m, "own") /\ k' = k
      /\ mutex' = [mutex EXCEPT ![m].lock = TRUE, ![m].owner = t]
  BY DEF TryLock, Calls
<1>2. mutex \in [MutexId -> MutexStruct] /\ mutex[m] \in MutexStruct
  BY RankFacts
<1>3. PICK s : s = [mutex[m] EXCEPT !.lock = TRUE, !.owner = t]
  OBVIOUS
<1>4. mutex'[m] = s
  BY <1>1, <1>2, <1>3
<1>5. /\ s.owner = t /\ s.boosted = mutex[m].boosted /\ s.attr = mutex[m].attr
      /\ s.valid = mutex[m].valid /\ s.waiters = mutex[m].waiters
  BY <1>2, <1>3 DEF MutexStruct
<1>6. at[t].pc \notin Leaving \cup {"flush"}
  BY <1>1 DEF Free, Leaving
<1> QED
  BY <1>1, <1>4, <1>5, <1>6, TakePriorities

LEMMA LockFreePriorities ==
  ASSUME PInv, NEW m \in MutexId, MutexId = {m}, NEW t \in AppTask, LockFree(t)
  PROVE  Priorities(k', mutex'[m], at', held', m) /\ Switches(k', mutex'[m], at')
<1>1. /\ Account(t, k, mutex[m], at[t], held[t], m) /\ mutex[m] \in MutexStruct
      /\ at \in [AppTask -> At] /\ (mutex[m].valid \/ mutex[m].lock)
  BY RankFacts
<1>2. Runs(k, t) /\ at[t].pc = "lock"
  BY DEF LockFree, Continues
<1>3. at[t].m = m
  BY <1>1, <1>2, AtLemma
<1>4. PICK s : s = [mutex[m] EXCEPT !.lock = TRUE, !.owner = t]
  OBVIOUS
<1>5. /\ ~mutex[m].lock /\ mutex[m].valid
      /\ InheritFromWaiters(t, m, s) /\ Own(t, m, at[t].goal)
  BY <1>1, <1>3, <1>4 DEF LockFree
<1>6. /\ s \in MutexStruct /\ s.owner = t /\ s.boosted = mutex[m].boosted
      /\ s.attr = mutex[m].attr /\ s.valid = mutex[m].valid
      /\ s.waiters = mutex[m].waiters
  BY <1>1, <1>4 DEF MutexStruct
<1>7. k' = k /\ mutex'[m] = s
  BY <1>5, <1>6, NothingInherited
<1>8. at[t].pc \notin Leaving \cup {"flush"}
  BY <1>2 DEF Leaving
<1> QED
  BY <1>2, <1>5, <1>6, <1>7, <1>8, TakePriorities

LEMMA LockResumePriorities ==
  ASSUME PInv, NEW m \in MutexId, MutexId = {m}, NEW t \in AppTask, LockResume(t)
  PROVE  Priorities(k', mutex'[m], at', held', m) /\ Switches(k', mutex'[m], at')
<1>1. /\ Account(t, k, mutex[m], at[t], held[t], m) /\ mutex[m] \in MutexStruct
      /\ at \in [AppTask -> At] /\ mutex[m].boosted \in Nat
      /\ held \in [AppTask -> SUBSET MutexId] /\ Ordered(mutex[m], k.my)
      /\ mutex[m].valid \/ mutex[m].lock
  BY RankFacts
<1>2. Runs(k, t) /\ at[t].pc = "blocked"
  BY DEF LockResume, Continues
<1>3. at[t].m = m
  BY <1>1, <1>2, AtLemma
<1>4. at[t].pc \notin Leaving
  BY <1>2 DEF Leaving
<1>5. /\ k' = k /\ mutex'[m] = mutex[m]
      /\ \E x, g : /\ at' = [at EXCEPT ![t] = x] /\ held' = [held EXCEPT ![t] = g]
                   /\ x.pc # "handover" /\ Account(t, k, mutex[m], x, g, m)
  <2>1. CASE mutex[m].valid
    <3>1. InheritFromWaiters(t, m, mutex[m]) /\ Own(t, m, at[t].goal)
      BY <1>3, <2>1 DEF LockResume
    <3>2. k' = k /\ mutex'[m] = mutex[m]
      BY <1>1, <2>1, <3>1, NothingInherited
    <3>3. mutex[m].owner = t
      BY <1>2, <1>3, <2>1, ActorFacts DEF Place, Owned
    <3>4. PICK goal : Own(t, m, goal)
      BY <3>1
    <3> QED
      BY <1>2, <1>4, <2>1, <3>2, <3>3, <3>4, OwnAccount
  <2>2. CASE ~mutex[m].valid
    <3>1. /\ at' = [at EXCEPT ![t] = Free] /\ k' = k /\ mutex' = mutex
          /\ held' = [held EXCEPT ![t] = held[t]]
      BY <1>1, <1>3, <2>2 DEF LockResume
    <3>2. mutex[m].owner # t
      BY <1>1, <1>2, <2>2 DEF Account
    <3>3. Account(t, k, mutex[m], Free, held[t], m) /\ Free.pc # "handover"
      BY <1>1, <1>4, <3>2 DEF Account, Free, Leaving
    <3> QED
      BY <3>1, <3>3
  <2> QED
    BY <2>1, <2>2
<1>6. PICK x, g : /\ at' = [at EXCEPT ![t] = x] /\ held' = [held EXCEPT ![t] = g]
                  /\ x.pc # "handover" /\ Account(t, k, mutex[m], x, g, m)
  BY <1>5
<1>7. \A v \in AppTask \ {t} :
        Untouched(v, k, k, mutex[m], mutex[m], at[v], at[v], held[v], held[v])
  BY <1>1 DEF Untouched
<1>8. Priorities(k, mutex[m], [at EXCEPT ![t] = x], [held EXCEPT ![t] = g], m)
  BY <1>1, <1>2, <1>6, <1>7, ActorLemma
<1>9. Settled(k)
  BY <1>2, ActorFacts
<1>10. Switches(k, mutex[m], [at EXCEPT ![t] = x])
  BY <1>2, <1>6, <1>9, SwitchLemma
<1> QED
  BY <1>5, <1>6, <1>8, <1>10

\* The owner t of the mutex s is raised to p when it wants that and is not
\* there yet, and the boost is counted in r; d and e are the kernel before and
\* after.
Raised(t, d, e, s, r, p, wants) ==
  /\ s.owner = t /\ r.owner = t /\ r.attr = s.attr /\ r.valid = s.valid
  /\ d.my[t] \in Nat /\ d.home[t] \in Nat /\ d.boosted[t] \in Nat
  /\ s.boosted \in Nat /\ e.home[t] = d.home[t]
  /\ r.boosted = IF wants THEN s.boosted + 1 ELSE s.boosted
  /\ IF wants /\ p < d.my[t]
     THEN e.my[t] = p /\ e.boosted[t] = d.boosted[t] + 1
     ELSE e.my[t] = d.my[t] /\ e.boosted[t] = d.boosted[t]

\* The ceiling is counted, and raises the owner if it is not there yet.
LEMMA ProtectAccount ==
  ASSUME NEW t, NEW d, NEW e, NEW s, NEW r, NEW c \in Nat, c = s.attr.ceiling,
         NEW wants \in BOOLEAN, wants <=> c < d.home[t],
         Raised(t, d, e, s, r, c, wants),
         NEW y, y.pc = "protect", NEW g, NEW m, Account(t, d, s, y, g, m),
         NEW x, x.pc \in {"free", "destroy"}
  PROVE  Account(t, e, r, x, g \cup {m}, m)
<1> USE DEF Raised
<1>1. /\ d.my[t] <= d.home[t] /\ (d.boosted[t] = 0 => d.my[t] = d.home[t])
      /\ d.boosted[t] # 0 => Covered(t, d, s, y)
  BY DEF Account, Leaving
<1>2. e.my[t] \in Nat /\ e.my[t] <= e.home[t] /\ e.my[t] <= c
  BY <1>1
<1>3. e.boosted[t] = 0 => e.my[t] = e.home[t]
  BY <1>1
<1>4. e.boosted[t] # 0 => e.boosted[t] <= r.boosted
  BY <1>1 DEF Covered
<1> QED
  BY <1>2, <1>3, <1>4 DEF Account, Covered, Leaving

LEMMA LockProtectPriorities ==
  ASSUME PInv, NEW m \in MutexId, MutexId = {m}, NEW t \in AppTask, LockProtect(t)
  PROVE  Priorities(k', mutex'[m], at', held', m) /\ Switches(k', mutex'[m], at')
<1>1. /\ Account(t, k, mutex[m], at[t], held[t], m) /\ mutex[m] \in MutexStruct
      /\ at \in [AppTask -> At] /\ mutex \in [MutexId -> MutexStruct]
      /\ held \in [AppTask -> SUBSET MutexId] /\ mutex[m].boosted \in Nat
      /\ Ceiling(m) \in Prio /\ Ceiling(m) \in Nat /\ (mutex[m].valid \/ mutex[m].lock)
      /\ k \in Kernel /\ Quiet(k) /\ k.my \in [Task -> Prio]
      /\ k.home \in [Task -> Prio] /\ k.boosted \in [Task -> Nat]
      /\ t \in Task /\ k.my[t] \in Nat /\ k.home[t] \in Nat /\ k.boosted[t] \in Nat
  BY RankFacts
<1>2. Runs(k, t) /\ at[t].pc = "protect"
  BY DEF LockProtect, Continues
<1>3. at[t].m = m
  BY <1>1, <1>2, AtLemma
<1>4. PICK c \in Prio : c = Ceiling(m) /\ c \in Nat
  BY <1>1
<1>5. PICK n \in Nat : n = IF c < k.home[t] THEN mutex[m].boosted + 1 ELSE mutex[m].boosted
  BY <1>1
<1>6. PICK s : s = [mutex[m] EXCEPT !.boosted = n]
  OBVIOUS
<1>7. PICK x : x = IF at[t].goal = "destroy" THEN [pc |-> "destroy", m |-> m] ELSE Free
  OBVIOUS
<1>8. x.pc \in {"free", "destroy"}
  BY <1>7 DEF Free
<1>9. /\ k' = IF c < k.home[t] /\ c < k.my[t] THEN BoostPriority(k, t, c) ELSE k
      /\ mutex' = [mutex EXCEPT ![m].boosted = IF c < k.home[t] THEN @ + 1 ELSE @]
      /\ at' = [at EXCEPT ![t] = x] /\ held' = [held EXCEPT ![t] = @ \cup {m}]
  BY <1>3, <1>4, <1>7 DEF LockProtect
<1>10. mutex'[m] = s
  BY <1>1, <1>5, <1>6, <1>9
<1>11. /\ s.boosted = n /\ s.attr = mutex[m].attr /\ s.owner = mutex[m].owner
      /\ s.waiters = mutex[m].waiters /\ s.valid = mutex[m].valid
      /\ s.lock = mutex[m].lock
  BY <1>1, <1>6 DEF MutexStruct
<1>12. PICK d : d = k'
  OBVIOUS
<1>13. /\ d.home = k.home /\ d.nopreempt = k.nopreempt
       /\ IF c < k.home[t] /\ c < k.my[t]
          THEN /\ d.my = [k.my EXCEPT ![t] = c]
               /\ d.boosted = [k.boosted EXCEPT ![t] = @ + 1]
          ELSE d.my = k.my /\ d.boosted = k.boosted
  BY <1>1, <1>9, <1>12, BoostRanks
<1>14. mutex[m].owner = t
  BY <1>2, <1>3, ActorFacts DEF Place, Owned
<1>15. Account(t, d, s, x, held[t] \cup {m}, m)
  <2>1. /\ IF c < k.home[t] /\ c < k.my[t]
           THEN d.my[t] = c /\ d.boosted[t] = k.boosted[t] + 1
           ELSE d.my[t] = k.my[t] /\ d.boosted[t] = k.boosted[t]
        /\ d.home[t] = k.home[t] /\ c = mutex[m].attr.ceiling
    BY <1>1, <1>4, <1>13 DEF Ceiling
  <2>2. PICK y : y = at[t]
    OBVIOUS
  <2>3. PICK g : g = held[t]
    OBVIOUS
  <2>4. PICK u : u = mutex[m]
    OBVIOUS
  <2>5. PICK wants \in BOOLEAN : wants <=> c < k.home[t]
    OBVIOUS
  <2>6. /\ y.pc = "protect" /\ c = u.attr.ceiling /\ Account(t, k, u, y, g, m)
        /\ Raised(t, k, d, u, s, c, wants)
    BY <1>1, <1>2, <1>5, <1>11, <1>14, <2>1, <2>2, <2>3, <2>4, <2>5 DEF Raised
  <2>7. Account(t, d, s, x, g \cup {m}, m)
    BY <1>4, <1>8, <2>5, <2>6, ProtectAccount
  <2> QED
    BY <2>3, <2>7
<1>16. \A v \in Task \ {t} : d.my[v] = k.my[v] /\ d.boosted[v] = k.boosted[v]
  BY <1>1, <1>13
<1>17. \A v \in AppTask \ {t} :
         Untouched(v, k, d, mutex[m], s, at[v], at[v], held[v], held[v])
  BY <1>11, <1>13, <1>14, <1>16, RankFacts DEF Untouched
<1>18. Ordered(s, d.my)
  <2>1. d.my \in [Task -> Prio] /\ d.my[t] <= k.my[t]
    BY <1>1, <1>4, <1>13
  <2>2. \A w \in ToSet(s.waiters) : w \in Task \ {t}
    BY <1>2, <1>11, ActorFacts, RankFacts DEF ToSet
  <2> QED
    BY <1>11, <1>14, <1>16, <2>1, <2>2, OrderedStays
<1>19. Settled(d)
  <2>1. IsReady(k, k.active) /\ k.isr = 0 /\ Settled(k)
    BY <1>2, ActorFacts
  <2> QED
    BY <1>1, <1>9, <1>12, <2>1, BoostSettled
<1>20. held' = [held EXCEPT ![t] = held[t] \cup {m}]
  BY <1>1, <1>9
<1>21. Priorities(d, s, [at EXCEPT ![t] = x],
                  [held EXCEPT ![t] = held[t] \cup {m}], m)
  BY <1>1, <1>2, <1>5, <1>11, <1>15, <1>17, <1>18, ActorLemma
<1>22. Switches(d, s, [at EXCEPT ![t] = x])
  BY <1>2, <1>11, <1>13, <1>19, <1>8, SwitchLemma
<1> QED
  BY <1>9, <1>10, <1>12, <1>20, <1>21, <1>22

\* The owner inherits the priority p of a task that comes to wait.
LEMMA InheritAccount ==
  ASSUME NEW o, NEW d, NEW e, NEW s, NEW r, NEW p \in Nat, NEW needs \in BOOLEAN,
         needs <=> s.attr.protocol = "inherit" /\ p < d.home[o],
         Raised(o, d, e, s, r, p, needs),
         NEW y, y.pc \notin Leaving, y.pc # "lock",
         NEW g, NEW m, Account(o, d, s, y, g, m)
  PROVE  /\ Account(o, e, r, y, g, m) /\ e.my[o] <= d.my[o]
         /\ s.attr.protocol = "inherit" => e.my[o] <= p
<1> USE DEF Raised
<1>1. /\ d.my[o] <= d.home[o] /\ (d.boosted[o] = 0 => d.my[o] = d.home[o])
      /\ d.boosted[o] # 0 => Covered(o, d, s, y)
  BY DEF Account
<1>2. CASE needs
  <2>1. s.attr.protocol = "inherit" /\ p < d.home[o]
    BY <1>2
  <2>2. d.boosted[o] <= s.boosted
    BY <1>1, <2>1 DEF Covered
  <2>3. /\ e.my[o] <= e.home[o] /\ e.my[o] <= d.my[o] /\ e.my[o] <= p
        /\ e.boosted[o] = 0 => e.my[o] = e.home[o]
        /\ e.boosted[o] <= r.boosted
    BY <1>1, <1>2, <2>1, <2>2
  <2> QED
    BY <2>1, <2>3 DEF Account, Covered
<1>3. CASE ~needs
  <2>1. /\ e.my[o] = d.my[o] /\ e.boosted[o] = d.boosted[o]
        /\ r.boosted = s.boosted
    BY <1>3
  <2>2. Covered(o, d, s, y) => Covered(o, e, r, y)
    BY <2>1 DEF Covered
  <2>3. s.attr.protocol = "inherit" => d.home[o] <= p
    BY <1>3
  <2>4. s.attr.protocol = "inherit" => e.my[o] <= p
    BY <1>1, <2>1, <2>3
  <2> QED
    BY <2>1, <2>2, <2>4 DEF Account
<1> QED
  BY <1>2, <1>3

\* Where the owner of a mutex is while another task executes.
LEMMA OwnerFacts ==
  ASSUME PInv, NEW m \in MutexId, MutexId = {m}, mutex[m].lock
  PROVE  LET o == mutex[m].owner
         IN  /\ o \in AppTask /\ o \in Task /\ o \notin ToSet(mutex[m].waiters)
             /\ at[o].pc \notin Leaving /\ at[o].pc # "lock"
<1>1. PICK o : o = mutex[m].owner
  OBVIOUS
<1>2. /\ mutex[m] \in MutexStruct /\ Queue(mutex[m], m, k.state, at)
      /\ at \in [AppTask -> At]
      /\ \A v \in AppTask : v \in Task /\ Account(v, k, mutex[m], at[v], held[v], m)
  BY RankFacts
<1>3. o \in AppTask
  BY <1>1, <1>2 DEF Queue, MutexStruct
<1>4. Place(o, mutex, k.state[o], at[o], held[o])
  BY <1>3 DEF PInv, IInv, Tidy
<1>5. at[o].pc \notin Leaving
  BY <1>1, <1>2, <1>3 DEF Account
<1>6. at[o].pc \in {"lock", "blocked"} => at[o].m = m
  BY <1>2, <1>3, AtLemma
<1>7. at[o].pc # "lock" /\ o \notin ToSet(mutex[m].waiters)
  BY <1>1, <1>2, <1>4, <1>6 DEF Place, Queue
<1> QED
  BY <1>1, <1>2, <1>3, <1>5, <1>7

\* A task joins the queue of a mutex, whose owner is as urgent as it.
LEMMA OrderedJoin ==
  ASSUME PInv, NEW m \in MutexId, MutexId = {m}, mutex[m].lock,
         NEW t \in AppTask, t \notin ToSet(mutex[m].waiters),
         NEW b, b.my \in [Task -> Prio],
         NEW s, s.attr = mutex[m].attr, s.valid = mutex[m].valid,
         s.owner = mutex[m].owner, s.owner # t,
         mutex[m].attr.sorted => s.waiters = InsertPriority(b, mutex[m].waiters, t),
         \A v \in Task \ {s.owner} : b.my[v] = k.my[v],
         b.my[s.owner] <= k.my[s.owner],
         mutex[m].attr.protocol = "inherit" => b.my[s.owner] <= k.my[t]
  PROVE  Ordered(s, b.my)
<1>1. PICK o \in AppTask : o = s.owner /\ o \in Task /\ o \notin ToSet(mutex[m].waiters)
  BY OwnerFacts
<1>2. PICK w \in Seq(AppTask) : w = mutex[m].waiters /\ Inj(w)
  BY RankFacts
<1>3. /\ w \in Seq(Task) /\ t \in Task /\ ToSet(w) \subseteq Task
      /\ \A i \in 1 .. Len(w) : w[i] \in ToSet(w)
  BY <1>2, AppTaskLemma DEF ToSet
<1> SUFFICES ASSUME s.valid, s.attr.protocol = "inherit"
             PROVE  /\ s.attr.sorted /\ Timely(s.waiters, b.my, 0)
                    /\ \A v \in ToSet(s.waiters) : b.my[s.owner] <= b.my[v]
  BY DEF Ordered
<1>4. /\ s.attr.sorted /\ Timely(w, k.my, 0) /\ \A v \in ToSet(w) : k.my[o] <= k.my[v]
  BY <1>1, <1>2, RankFacts DEF Ordered
<1>5. s.waiters = InsertPriority(b, w, t)
  BY <1>2, <1>4
<1>6. \A v \in ToSet(w) : b.my[v] = k.my[v]
  BY <1>1, <1>2, <1>3
<1>7. Timely(w, b.my, 0)
  BY <1>3, <1>4, <1>6, SameTimely
<1>8. Timely(s.waiters, b.my, 0)
  BY <1>2, <1>3, <1>5, <1>7, JoinTimely
<1>9. ToSet(s.waiters) = ToSet(w) \cup {t}
  BY <1>2, <1>5, InsertPriorityLemma
<1>10. \A v \in Task : b.my[v] \in Nat /\ k.my[v] \in Nat
  <2>1. Prio \subseteq Nat
    BY KernelAssumption DEF Prio
  <2> QED
    BY <2>1, RankFacts
<1>11. \A v \in ToSet(w) : b.my[o] <= b.my[v]
  BY <1>1, <1>3, <1>4, <1>6, <1>10
<1>12. b.my[o] <= b.my[t]
  BY <1>1, <1>3
<1> QED
  BY <1>1, <1>4, <1>8, <1>9, <1>11, <1>12

LEMMA LockBusyPriorities ==
  ASSUME PInv, NEW m \in MutexId, MutexId = {m}, NEW t \in AppTask, LockBusy(t)
  PROVE  Priorities(k', mutex'[m], at', held', m) /\ Switches(k', mutex'[m], at')
<1>1. /\ Account(t, k, mutex[m], at[t], held[t], m) /\ mutex[m] \in MutexStruct
      /\ at \in [AppTask -> At] /\ mutex \in [MutexId -> MutexStruct]
      /\ held \in [AppTask -> SUBSET MutexId] /\ mutex[m].boosted \in Nat
      /\ k \in Kernel /\ Quiet(k) /\ k.my \in [Task -> Prio]
      /\ k.home \in [Task -> Prio] /\ k.boosted \in [Task -> Nat]
      /\ t \in Task /\ k.my[t] \in Nat /\ k.home[t] \in Nat /\ k.boosted[t] \in Nat
  BY RankFacts
<1>2. Runs(k, t) /\ at[t].pc = "lock" /\ held' = held
  BY DEF LockBusy, Continues
<1>3. at[t].m = m /\ at[t].priority = k.my[t]
  BY <1>1, <1>2, AtLemma DEF Account
<1>4. mutex[m].lock
  BY <1>3 DEF LockBusy
<1>5. PICK o \in AppTask : o = mutex[m].owner
  BY <1>4, OwnerFacts
<1>6. o \in Task /\ at[o].pc \notin Leaving /\ at[o].pc # "lock" /\ o # t
  BY <1>2, <1>4, <1>5, OwnerFacts
<1>7. PICK p \in Prio : p = k.my[t] /\ p \in Nat
  BY <1>1
<1>8. PICK needs \in BOOLEAN : needs <=> mutex[m].attr.protocol = "inherit" /\ p < k.home[o]
  OBVIOUS
<1>9. PICK b : b = IF needs /\ p < k.my[o] THEN BoostPriority(k, o, p) ELSE k
  OBVIOUS
<1>10. PICK n \in Nat : n = IF needs THEN mutex[m].boosted + 1 ELSE mutex[m].boosted
  BY <1>1
<1>11. PICK w : w = IF mutex[m].attr.sorted THEN InsertPriority(b, mutex[m].waiters, t)
                    ELSE Append(mutex[m].waiters, t)
  OBVIOUS
<1>12. PICK s : s = [mutex[m] EXCEPT !.boosted = n, !.waiters = w]
  OBVIOUS
<1>13. PICK x : x = [pc |-> "blocked", m |-> m, goal |-> at[t].goal]
  OBVIOUS
<1>14. k.home[o] \in Nat /\ k.my[o] \in Nat /\ k.boosted[o] \in Nat
  BY <1>6, RankFacts
<1>15. /\ k' = Dispatch([Unlink(b, t, b.my[t]) EXCEPT !.state[t] = "MUTEX_BLOCKED"])
       /\ mutex'[m] = s /\ at' = [at EXCEPT ![t] = x]
  <2>1. (Inherits(m) /\ k.home[o] > p) <=> needs
    BY <1>7, <1>8, <1>14 DEF Inherits
  <2>2. b = IF (Inherits(m) /\ k.home[o] > p) /\ k.my[o] > p THEN BoostPriority(k, o, p)
            ELSE k
    BY <1>7, <1>9, <1>14, <2>1
  <2>3. /\ k' = Dispatch([Unlink(b, t, b.my[t]) EXCEPT !.state[t] = "MUTEX_BLOCKED"])
        /\ mutex' = [mutex EXCEPT
             ![m].boosted = IF Inherits(m) /\ k.home[o] > p THEN @ + 1 ELSE @,
             ![m].waiters = w]
        /\ at' = [at EXCEPT ![t] = x]
    BY <1>3, <1>5, <1>7, <1>11, <1>13, <2>2 DEF LockBusy
  <2>4. mutex'[m] = s
    BY <1>1, <1>10, <1>12, <2>1, <2>3
  <2> QED
    BY <2>3, <2>4
<1>16. /\ s.boosted = n /\ s.attr = mutex[m].attr /\ s.owner = o
       /\ s.waiters = w /\ s.valid = mutex[m].valid /\ s.lock
  BY <1>1, <1>4, <1>5, <1>12 DEF MutexStruct
<1>17. x.pc = "blocked"
  BY <1>13
<1>18. Quiet(b) /\ b.state = k.state /\ b.timed = k.timed
  <2>1. IsReady(k, k.active)
    BY <1>2, ActorFacts
  <2> QED
    BY <1>1, <1>6, <1>9, <2>1, QuietBoost
<1>19. /\ b.home = k.home /\ b.nopreempt = k.nopreempt
       /\ IF needs /\ p < k.my[o]
          THEN /\ b.my = [k.my EXCEPT ![o] = p]
               /\ b.boosted = [k.boosted EXCEPT ![o] = @ + 1]
          ELSE b.my = k.my /\ b.boosted = k.boosted
  BY <1>1, <1>6, <1>9, BoostRanks
<1>20. PICK d : d = k'
  OBVIOUS
<1>21. d.my = b.my /\ d.home = b.home /\ d.boosted = b.boosted /\ d.nopreempt = b.nopreempt
  <2>1. PICK e : e = [Unlink(b, t, b.my[t]) EXCEPT !.state[t] = "MUTEX_BLOCKED"]
    OBVIOUS
  <2>2. SameRanks(e, b)
    BY <1>18, <2>1, KernelRanks, RanksStay, QuietFacts
  <2>3. SameRanks(Dispatch(e), e)
    BY <2>2, RanksStay DEF SameRanks
  <2> QED
    BY <1>15, <1>20, <2>1, <2>2, <2>3 DEF SameRanks
<1>22. /\ Account(o, d, s, at[o], held[o], m) /\ d.my[o] <= k.my[o]
       /\ mutex[m].attr.protocol = "inherit" => d.my[o] <= p
  <2>1. Account(o, k, mutex[m], at[o], held[o], m)
    BY RankFacts
  <2>2. /\ d.home[o] = k.home[o]
        /\ IF needs /\ p < k.my[o]
           THEN d.my[o] = p /\ d.boosted[o] = k.boosted[o] + 1
           ELSE d.my[o] = k.my[o] /\ d.boosted[o] = k.boosted[o]
    BY <1>1, <1>6, <1>19, <1>21
  <2> QED
    <3>1. PICK y : y = at[o]
      OBVIOUS
    <3>2. PICK g : g = held[o]
      OBVIOUS
    <3>3. PICK u : u = mutex[m]
      OBVIOUS
    <3>4. /\ y.pc \notin Leaving /\ y.pc # "lock" /\ Account(o, k, u, y, g, m)
          /\ needs <=> u.attr.protocol = "inherit" /\ p < k.home[o]
          /\ Raised(o, k, d, u, s, p, needs)
      BY <1>1, <1>5, <1>6, <1>8, <1>10, <1>14, <1>16, <2>1, <2>2, <3>1, <3>2, <3>3
         DEF Raised
    <3>5. /\ Account(o, d, s, y, g, m) /\ d.my[o] <= k.my[o]
          /\ u.attr.protocol = "inherit" => d.my[o] <= p
      BY <1>7, <3>4, InheritAccount
    <3> QED
      BY <3>1, <3>2, <3>3, <3>5
<1>23. \A v \in Task \ {o} : /\ d.my[v] = k.my[v] /\ d.boosted[v] = k.boosted[v]
                             /\ d.home[v] = k.home[v]
  BY <1>1, <1>19, <1>21
<1>24. Account(t, d, s, x, held[t], m)
  <2>1. k.boosted[t] = 0
    BY <1>1, <1>2, <1>5, <1>6 DEF Account, Leaving
  <2>2. d.my[t] = k.my[t] /\ d.home[t] = k.home[t] /\ d.boosted[t] = 0
    BY <1>1, <1>6, <1>23, <2>1
  <2> QED
    BY <1>1, <1>6, <1>16, <1>17, <2>1, <2>2 DEF Account, Leaving
<1>25. ASSUME NEW v \in AppTask \ {t, o}
       PROVE  Account(v, d, s, at[v], held[v], m)
  <2>1. Account(v, k, mutex[m], at[v], held[v], m) /\ k.boosted[v] \in Nat /\ v \in Task
    BY RankFacts
  <2>2. Untouched(v, k, d, mutex[m], s, at[v], at[v], held[v], held[v])
    BY <1>5, <1>16, <1>23, <2>1 DEF Untouched
  <2> QED
    BY <1>1, <1>10, <1>16, <2>1, <2>2, UntouchedLemma
<1>26. Ordered(s, d.my)
  <2>1. b.my \in [Task -> Prio]
    BY <1>18, QuietFacts
  <2>2. t \notin ToSet(mutex[m].waiters)
    BY <1>2, ActorFacts
  <2>3. mutex[m].attr.sorted => s.waiters = InsertPriority(b, mutex[m].waiters, t)
    BY <1>11, <1>16
  <2>4. Ordered(s, b.my)
    BY <1>4, <1>5, <1>6, <1>7, <1>16, <1>21, <1>22, <1>23, <2>1, <2>2, <2>3, OrderedJoin
  <2> QED
    BY <1>21, <2>4
<1>27. Settled(d)
  <2>1. IsReady(b, t) /\ Sound(b)
    BY <1>2, <1>18, ActorFacts, QuietFacts DEF IsReady, Runs
  <2>2. "MUTEX_BLOCKED" \in State \ {"READY"}
    BY DEF State
  <2> QED
    BY <1>15, <1>20, <2>1, <2>2, ParkEffect, DispatchLemma DEF Basic
<1>28. Priorities(d, s, at', held, m)
  <2>1. PICK c : c = at'
    OBVIOUS
  <2>2. c[t] = x /\ \A v \in AppTask \ {t} : c[v] = at[v]
    BY <1>1, <1>15, <2>1
  <2>3. \A v \in AppTask : Account(v, d, s, c[v], held[v], m)
    BY <1>6, <1>22, <1>24, <1>25, <2>2
  <2> QED
    BY <1>16, <1>26, <2>1, <2>3 DEF Priorities
<1>29. Switches(d, s, [at EXCEPT ![t] = x])
  BY <1>2, <1>16, <1>17, <1>19, <1>21, <1>27, SwitchLemma
<1> QED
  BY <1>2, <1>15, <1>20, <1>28, <1>29

\* The last owner of a mutex nobody waits for takes its boosts with it.
LEMMA UnlockLastPriorities ==
  ASSUME PInv, NEW m \in MutexId, MutexId = {m}, NEW t \in AppTask, Unlock(t, m),
         mutex[m].waiters = <<>>
  PROVE  Priorities(k', mutex'[m], at', held', m) /\ Switches(k', mutex'[m], at')
<1>1. /\ Account(t, k, mutex[m], at[t], held[t], m) /\ mutex[m] \in MutexStruct
      /\ at \in [AppTask -> At] /\ mutex \in [MutexId -> MutexStruct]
      /\ held \in [AppTask -> SUBSET MutexId] /\ mutex[m].boosted \in Nat
      /\ k.my \in [Task -> Prio] /\ k.boosted[t] \in Nat
  BY RankFacts
<1>2. PICK s : s = [mutex[m] EXCEPT !.boosted = 0, !.lock = FALSE, !.owner = Nobody]
  OBVIOUS
<1>3. PICK x : x = [pc |-> "unboost", count |-> mutex[m].boosted]
  OBVIOUS
<1>4. PICK g : g = held[t] \ {m}
  OBVIOUS
<1>5. /\ Runs(k, t) /\ at[t] = Free /\ mutex[m].owner = t /\ k' = k
      /\ mutex[m].valid /\ mutex'[m] = s
      /\ at' = [at EXCEPT ![t] = x] /\ held' = [held EXCEPT ![t] = g]
  <2>1. /\ mutex' = [mutex EXCEPT ![m].boosted = 0, ![m].lock = FALSE,
                                  ![m].owner = Nobody]
        /\ Runs(k, t) /\ at[t] = Free /\ mutex[m].owner = t /\ k' = k
        /\ mutex[m].valid
        /\ at' = [at EXCEPT ![t] = x] /\ held' = [held EXCEPT ![t] = @ \ {m}]
    BY <1>3 DEF Unlock, Calls
  <2> QED
    BY <1>1, <1>2, <1>4, <2>1
<1>6. /\ s.boosted \in Nat /\ s.owner = Nobody /\ s.attr = mutex[m].attr
      /\ s.valid = mutex[m].valid /\ s.waiters = <<>> /\ s.waiters = mutex[m].waiters
  BY <1>1, <1>2 DEF MutexStruct
<1>7. x.pc = "unboost" /\ x.count = mutex[m].boosted
  BY <1>3
<1>8. Nobody \notin AppTask /\ Free.pc = "free"
  BY MutexAssumption DEF AppTask, Free
<1>9. Account(t, k, s, x, g, m)
  <2>1. k.boosted[t] # 0 => k.boosted[t] <= x.count
    BY <1>1, <1>5, <1>7, <1>8 DEF Account, Covered, Leaving
  <2> QED
    BY <1>1, <1>4, <1>6, <1>7, <1>8, <2>1 DEF Account, Leaving
<1>10. \A v \in AppTask \ {t} :
         Untouched(v, k, k, mutex[m], s, at[v], at[v], held[v], held[v])
  BY <1>5, <1>6, <1>8 DEF Untouched
<1>11. Ordered(s, k.my)
  BY <1>1, <1>6, OrderedStays DEF ToSet
<1>12. Priorities(k, s, [at EXCEPT ![t] = x], [held EXCEPT ![t] = g], m)
  BY <1>5, <1>6, <1>9, <1>10, <1>11, ActorLemma
<1>13. Settled(k)
  BY <1>5, <1>8, ActorFacts
<1>14. Switches(k, s, [at EXCEPT ![t] = x])
  BY <1>5, <1>6, <1>7, <1>13, SwitchLemma
<1> QED
  BY <1>5, <1>12, <1>14

\* The first task of the queue, which the next unlocking makes the owner.
LEMMA FirstFacts ==
  ASSUME PInv, NEW m \in MutexId, MutexId = {m}, mutex[m].waiters # <<>>,
         mutex[m].valid
  PROVE  LET u == Head(mutex[m].waiters)
         IN  /\ u \in AppTask /\ u \in Task /\ mutex[m].owner # u
             /\ k.boosted[u] = 0 /\ k.my[u] = k.home[u] /\ m \notin held[u]
             /\ at[u].pc = "blocked"
             /\ k.state[u] = "MUTEX_BLOCKED"
             /\ ToSet(Tail(mutex[m].waiters)) \subseteq ToSet(mutex[m].waiters)
             /\ mutex[m].attr.protocol = "inherit" =>
                  /\ Timely(Tail(mutex[m].waiters), k.my, 0)
                  /\ \A v \in ToSet(Tail(mutex[m].waiters)) : k.my[u] <= k.my[v]
<1>1. PICK w \in Seq(AppTask) : w = mutex[m].waiters /\ Inj(w) /\ w # <<>>
  BY RankFacts
<1>2. PICK u \in AppTask : u = Head(w) /\ u \in ToSet(w) /\ ToSet(Tail(w)) = ToSet(w) \ {u}
  BY <1>1, HeadLemma
<1>3. /\ Queue(mutex[m], m, k.state, at) /\ u \in Task
      /\ Account(u, k, mutex[m], at[u], held[u], m) /\ k.boosted[u] \in Nat
      /\ k.my \in [Task -> Prio]
  BY RankFacts
<1>4. k.state[u] = "MUTEX_BLOCKED" /\ at[u].pc = "blocked" /\ at[u].m = m
  BY <1>1, <1>2, <1>3 DEF Queue
<1>5. Place(u, mutex, k.state[u], at[u], held[u])
  BY DEF PInv, IInv, Tidy
<1>6. mutex[m].owner # u /\ m \notin held[u]
  BY <1>4, <1>5 DEF Place, Owned
<1>7. k.boosted[u] = 0 /\ k.my[u] = k.home[u]
  BY <1>3, <1>4, <1>6 DEF Account, Leaving
<1>8. ASSUME mutex[m].attr.protocol = "inherit"
      PROVE  /\ Timely(Tail(w), k.my, 0)
             /\ \A v \in ToSet(Tail(w)) : k.my[u] <= k.my[v]
  <2>1. Timely(w, k.my, 0)
    BY <1>1, <1>8, RankFacts DEF Ordered
  <2>2. Prio \subseteq Nat
    BY KernelAssumption DEF Prio
  <2>3. w \in Seq(Task) /\ k.my \in [Task -> Int] /\ 0 \in Int
    <3>1. w \in Seq(Task)
      BY AppTaskLemma
    <3>2. \A v \in Task : k.my[v] \in Nat
      BY RankFacts
    <3>3. k.my = [v \in Task |-> k.my[v]]
      BY <1>3
    <3> QED
      BY <3>1, <3>2, <3>3
  <2>4. Timely(Tail(w), k.my, 0)
    BY <1>1, <2>1, <2>3, TailTimely
  <2>5. ASSUME NEW v \in ToSet(Tail(w)) PROVE k.my[u] <= k.my[v]
    <3>1. v \in ToSet(w)
      BY <1>2, <2>5
    <3>2. PICK i \in 1 .. Len(w) : v = w[i]
      BY <3>1 DEF ToSet
    <3>3. u = w[1] /\ Len(w) \in Nat /\ k.my[u] \in Nat
      <4>1. Len(w) \in Nat /\ Head(w) = w[1]
        BY <1>1
      <4>2. k.my[u] \in Prio
        BY <1>3
      <4> QED
        BY <1>2, <2>2, <4>1, <4>2
    <3>4. CASE i = 1
      BY <3>2, <3>3, <3>4
    <3>5. CASE i # 1
      BY <2>1, <3>2, <3>3, <3>5 DEF Timely
    <3> QED
      BY <3>4, <3>5
  <2> QED
    BY <2>4, <2>5
<1> QED
  BY <1>1, <1>2, <1>3, <1>4, <1>6, <1>7, <1>8

\* The mutex passes to the first waiter, which may rise to the ceiling at once.
LEMMA UnlockFirstPriorities ==
  ASSUME PInv, NEW m \in MutexId, MutexId = {m}, NEW t \in AppTask, Unlock(t, m),
         mutex[m].waiters # <<>>
  PROVE  Priorities(k', mutex'[m], at', held', m) /\ Switches(k', mutex'[m], at')
<1>1. /\ Account(t, k, mutex[m], at[t], held[t], m) /\ mutex[m] \in MutexStruct
      /\ at \in [AppTask -> At] /\ mutex \in [MutexId -> MutexStruct]
      /\ held \in [AppTask -> SUBSET MutexId] /\ mutex[m].boosted \in Nat
      /\ k \in Kernel /\ Quiet(k) /\ k.my \in [Task -> Prio]
      /\ k.home \in [Task -> Prio] /\ k.boosted \in [Task -> Nat]
      /\ k.boosted[t] \in Nat /\ Ceiling(m) \in Prio /\ Ceiling(m) \in Nat
  BY RankFacts
<1>2. PICK w : w = mutex[m].waiters /\ mutex[m].valid
  BY DEF Unlock
<1>3. PICK u \in AppTask :
        /\ u = Head(w) /\ u \in Task /\ mutex[m].owner # u
        /\ k.boosted[u] = 0 /\ k.my[u] = k.home[u] /\ m \notin held[u]
        /\ at[u].pc = "blocked"
        /\ k.state[u] = "MUTEX_BLOCKED" /\ ToSet(Tail(w)) \subseteq ToSet(w)
        /\ mutex[m].attr.protocol = "inherit" =>
             /\ Timely(Tail(w), k.my, 0)
             /\ \A v \in ToSet(Tail(w)) : k.my[u] <= k.my[v]
  BY <1>2, FirstFacts
<1>4. PICK r : r = TaskReady(k, u)
  OBVIOUS
<1>5. PICK c \in Prio : c = Ceiling(m) /\ c \in Nat
  BY <1>1
<1>6. PICK needs \in BOOLEAN : needs = (Protects(m) /\ c < k.home[u])
  OBVIOUS
<1>7. PICK more : more = IF needs THEN 1 ELSE 0
  OBVIOUS
<1>8. PICK s : s = [mutex[m] EXCEPT !.boosted = 0, !.owner = u, !.waiters = Tail(w)]
  OBVIOUS
<1>9. PICK x : x = [pc |-> "handover", m |-> m, count |-> mutex[m].boosted,
                    more |-> more]
  OBVIOUS
<1>10. PICK g : g = held[t] \ {m}
  OBVIOUS
<1>11. /\ k' = IF needs /\ c < k.my[u] THEN BoostPriority(r, u, c) ELSE r
       /\ Runs(k, t) /\ at[t] = Free /\ mutex[m].owner = t
       /\ mutex'[m] = s /\ at' = [at EXCEPT ![t] = x] /\ held' = [held EXCEPT ![t] = g]
  <2>1. /\ mutex' = [mutex EXCEPT ![m].boosted = 0, ![m].owner = u,
                                  ![m].waiters = Tail(@)]
        /\ k' = IF needs /\ c < k.my[u] THEN BoostPriority(r, u, c) ELSE r
        /\ Runs(k, t) /\ at[t] = Free /\ mutex[m].owner = t
        /\ at' = [at EXCEPT ![t] = x] /\ held' = [held EXCEPT ![t] = @ \ {m}]
    BY <1>2, <1>3, <1>4, <1>5, <1>6, <1>7, <1>9 DEF Unlock, Calls
  <2>2. mutex'[m] = s
    BY <1>1, <1>2, <1>8, <2>1
  <2> QED
    BY <1>1, <1>10, <2>1, <2>2
<1>12. /\ s.boosted = 0 /\ s.owner = u /\ s.attr = mutex[m].attr
       /\ s.valid /\ s.waiters = Tail(w)
  BY <1>1, <1>2, <1>8 DEF MutexStruct
<1>13. x.pc = "handover" /\ x.count = mutex[m].boosted
  BY <1>9
<1>14. Free.pc = "free" /\ u # t
  BY <1>3, <1>11 DEF Free
<1>15. SameRanks(r, k)
  BY <1>1, <1>4, KernelRanks, RanksStay
<1>16. /\ Quiet(r) /\ r \in Kernel /\ IsReady(r, r.active) /\ r.isr = 0 /\ Runs(r, t)
  <2>1. k.isr = 0 /\ ~k.pend /\ k.active = t
    BY <1>11, ActorFacts
  <2>2. Quiet(r) /\ IsReady(r, r.active)
    BY <1>1, <1>3, <1>4, <2>1, QuietReady
  <2>3. r.isr = k.isr /\ r.active = k.active /\ r.pend = k.pend
    BY <1>1, <1>4 DEF TaskReady, Kernel
  <2> QED
    BY <2>1, <2>2, <2>3, QuietFacts DEF Runs
<1>17. PICK d : d = k'
  OBVIOUS
<1>18. /\ d.home = k.home /\ d.nopreempt = k.nopreempt
       /\ IF needs /\ c < k.my[u]
          THEN d.my = [k.my EXCEPT ![u] = c] /\ d.boosted = [k.boosted EXCEPT ![u] = @ + 1]
          ELSE d.my = k.my /\ d.boosted = k.boosted
  <2>1. /\ r.my = k.my /\ r.home = k.home /\ r.boosted = k.boosted
        /\ r.nopreempt = k.nopreempt
    BY <1>15 DEF SameRanks
  <2>2. PICK e : e = BoostPriority(r, u, c)
    OBVIOUS
  <2>3. /\ e.my = [k.my EXCEPT ![u] = c] /\ e.home = k.home
        /\ e.boosted = [k.boosted EXCEPT ![u] = @ + 1]
        /\ e.nopreempt = k.nopreempt
    <3>1. u \in Task /\ r \in Kernel
      BY <1>3, <1>16
    <3>2. /\ e.my = [r.my EXCEPT ![u] = c] /\ e.home = r.home
          /\ e.boosted = [r.boosted EXCEPT ![u] = @ + 1]
          /\ e.nopreempt = r.nopreempt
      BY <2>2, <3>1, BoostRanks
    <3> QED
      BY <2>1, <3>2
  <2>4. d = IF needs /\ c < k.my[u] THEN e ELSE r
    BY <1>11, <1>17, <2>2
  <2> QED
    BY <2>1, <2>3, <2>4
<1>19. \A v \in Task \ {u} : /\ d.my[v] = k.my[v] /\ d.boosted[v] = k.boosted[v]
                             /\ d.home[v] = k.home[v]
  BY <1>1, <1>18
<1>20. Account(t, d, s, x, g, m)
  <2>1. t \in Task \ {u}
    BY <1>14, AppTaskLemma
  <2>2. k.boosted[t] # 0 => k.boosted[t] <= mutex[m].boosted
    BY <1>1, <1>11, <1>14 DEF Account, Covered, Leaving
  <2> QED
    BY <1>1, <1>10, <1>12, <1>13, <1>14, <1>19, <2>1, <2>2 DEF Account, Leaving
<1>21. Account(u, d, s, at[u], held[u], m)
  <2>1. k.home[u] \in Nat /\ k.my[u] \in Nat
    BY <1>3, RankFacts
  <2>2. CASE needs /\ c < k.my[u]
    <3>1. /\ d.my[u] = c /\ d.boosted[u] = 1 /\ d.home[u] = k.home[u]
      BY <1>1, <1>3, <1>18, <2>2
    <3>2. /\ s.attr.protocol = "protect" /\ c = s.attr.ceiling /\ c < k.home[u]
      BY <1>5, <1>6, <1>12, <2>2 DEF Protects, Ceiling
    <3>3. Covered(u, d, s, at[u])
      BY <1>3, <1>5, <3>1, <3>2 DEF Covered
    <3> QED
      BY <1>3, <1>5, <1>12, <2>1, <3>1, <3>2, <3>3 DEF Account, Leaving
  <2>3. CASE ~(needs /\ c < k.my[u])
    <3>1. d.my[u] = k.home[u] /\ d.boosted[u] = 0 /\ d.home[u] = k.home[u]
      BY <1>3, <1>18, <2>3
    <3> QED
      BY <1>3, <1>12, <2>1, <3>1 DEF Account, Leaving
  <2> QED
    BY <2>2, <2>3
<1>22. ASSUME NEW v \in AppTask \ {t, u}
       PROVE  Account(v, d, s, at[v], held[v], m)
  <2>1. Account(v, k, mutex[m], at[v], held[v], m) /\ k.boosted[v] \in Nat /\ v \in Task
    BY RankFacts
  <2>2. Untouched(v, k, d, mutex[m], s, at[v], at[v], held[v], held[v])
    BY <1>11, <1>12, <1>19, <2>1 DEF Untouched
  <2>3. s.boosted \in Nat
    BY <1>12
  <2> QED
    BY <1>1, <1>12, <2>1, <2>2, <2>3, UntouchedLemma
<1>23. mutex[m].attr.protocol = "inherit" => d = r /\ d.my = k.my
  BY <1>6, <1>11, <1>15, <1>17 DEF Protects, SameRanks
<1>24. Ordered(s, d.my)
  <2>1. mutex[m].attr.protocol = "inherit" => mutex[m].attr.sorted
    BY <1>2, RankFacts DEF Ordered
  <2> QED
    BY <1>3, <1>12, <1>23, <2>1 DEF Ordered
<1>25. Priorities(d, s, at', held', m)
  <2>1. PICK a : a = at'
    OBVIOUS
  <2>2. PICK h : h = held'
    OBVIOUS
  <2>3. /\ a[t] = x /\ \A v \in AppTask \ {t} : a[v] = at[v]
        /\ h[t] = g /\ \A v \in AppTask \ {t} : h[v] = held[v]
    BY <1>1, <1>11, <2>1, <2>2
  <2>4. \A v \in AppTask : Account(v, d, s, a[v], h[v], m)
    BY <1>14, <1>20, <1>21, <1>22, <2>3
  <2> QED
    BY <1>1, <1>12, <1>24, <2>1, <2>2, <2>4 DEF Priorities
<1>26. Switches(d, s, at')
  <2>1. PICK a : a = at'
    OBVIOUS
  <2>2. a[t].pc = "handover" /\ \A v \in AppTask \ {t} : a[v] = at[v]
    BY <1>1, <1>11, <1>13, <2>1
  <2>3. \A v \in Task : ~d.nopreempt[v]
    BY <1>18, RankFacts DEF Switches
  <2>4. Settled(d) \/ Runs(d, t)
    BY <1>3, <1>5, <1>11, <1>16, <1>17, BoostSettled
  <2>5. ASSUME mutex[m].attr.protocol = "inherit", NEW v \in AppTask,
               a[v].pc = "handover"
        PROVE  Runs(d, v) /\ \A i \in ToSet(s.waiters) : d.my[v] <= d.my[i]
    <3>1. v # t => Runs(k, v)
      BY <2>2, <2>5, RankFacts DEF Switches
    <3>2. v = t
      BY <1>11, <3>1, ActorFacts
    <3>3. \A i \in ToSet(w) : k.my[t] <= k.my[i]
      BY <1>2, <1>11, <2>5, RankFacts DEF Ordered
    <3> QED
      BY <1>3, <1>12, <1>16, <1>23, <2>5, <3>2, <3>3
  <2> QED
    BY <1>12, <2>1, <2>2, <2>3, <2>4, <2>5 DEF Switches
<1> QED
  BY <1>11, <1>17, <1>25, <1>26

LEMMA UnlockPriorities ==
  ASSUME PInv, NEW m \in MutexId, MutexId = {m}, NEW t \in AppTask, Unlock(t, m)
  PROVE  Priorities(k', mutex'[m], at', held', m) /\ Switches(k', mutex'[m], at')
BY UnlockLastPriorities, UnlockFirstPriorities

LEMMA HandoverPriorities ==
  ASSUME PInv, NEW m \in MutexId, MutexId = {m}, NEW t \in AppTask, Handover(t)
  PROVE  Priorities(k', mutex'[m], at', held', m) /\ Switches(k', mutex'[m], at')
<1>1. /\ Account(t, k, mutex[m], at[t], held[t], m) /\ mutex[m] \in MutexStruct
      /\ at \in [AppTask -> At] /\ mutex \in [MutexId -> MutexStruct]
      /\ held \in [AppTask -> SUBSET MutexId] /\ mutex[m].boosted \in Nat
      /\ k \in Kernel /\ Quiet(k) /\ k.my \in [Task -> Prio]
  BY RankFacts
<1>2. Runs(k, t) /\ at[t].pc = "handover"
  BY DEF Handover, Continues
<1>3. at[t].m = m /\ at[t].more \in Nat
  BY <1>1, <1>2, AtLemma
<1>4. PICK n \in Nat : n = mutex[m].boosted + at[t].more
  BY <1>1, <1>3
<1>5. PICK s : s = [mutex[m] EXCEPT !.boosted = n]
  OBVIOUS
<1>6. PICK x : x = [pc |-> "unboost", count |-> at[t].count]
  OBVIOUS
<1>7. /\ k' = CheckRunScheduler(k) /\ mutex'[m] = s /\ at' = [at EXCEPT ![t] = x]
      /\ held' = held /\ held' = [held EXCEPT ![t] = held[t]]
  <2>1. /\ k' = CheckRunScheduler(k) /\ at' = [at EXCEPT ![t] = x] /\ held' = held
        /\ mutex' = [mutex EXCEPT ![m].boosted = @ + at[t].more]
    BY <1>3, <1>6 DEF Handover
  <2> QED
    BY <1>1, <1>4, <1>5, <2>1
<1>8. /\ s.boosted = n /\ s.attr = mutex[m].attr /\ s.owner = mutex[m].owner
      /\ s.valid = mutex[m].valid /\ s.waiters = mutex[m].waiters
      /\ s.valid \/ s.lock
  <2>1. mutex[m].valid \/ mutex[m].lock
    BY RankFacts
  <2> QED
    BY <1>1, <1>5, <2>1 DEF MutexStruct
<1>9. x.pc = "unboost" /\ x.count = at[t].count
  BY <1>6
<1>10. PICK d : d = k'
  OBVIOUS
<1>11. d.my = k.my /\ d.home = k.home /\ d.boosted = k.boosted
       /\ d.nopreempt = k.nopreempt
  BY <1>1, <1>7, <1>10, KernelRanks, RanksStay DEF SameRanks
<1>12. Account(t, d, s, x, held[t], m)
  BY <1>1, <1>2, <1>8, <1>9, <1>11 DEF Account, Leaving
<1>13. mutex[m].boosted <= s.boosted
  BY <1>1, <1>3, <1>4, <1>8
<1>14. \A v \in AppTask \ {t} :
         Untouched(v, k, d, mutex[m], s, at[v], at[v], held[v], held[v])
  BY <1>8, <1>11, <1>13 DEF Untouched
<1>15. Ordered(s, d.my)
  BY <1>8, <1>11, RankFacts DEF Ordered
<1>16. Priorities(d, s, [at EXCEPT ![t] = x], [held EXCEPT ![t] = held[t]], m)
  BY <1>2, <1>4, <1>8, <1>12, <1>14, <1>15, ActorLemma
<1>17. Settled(d)
  <2>1. IsReady(k, k.active) /\ k.isr = 0
    BY <1>2, ActorFacts
  <2> QED
    BY <1>1, <1>7, <1>10, <2>1, CheckRunSchedulerLemma, QuietFacts
<1>18. Switches(d, s, [at EXCEPT ![t] = x])
  BY <1>2, <1>8, <1>9, <1>11, <1>17, SwitchLemma
<1> QED
  BY <1>7, <1>10, <1>16, <1>18

LEMMA UnboostPriorities ==
  ASSUME PInv, NEW m \in MutexId, MutexId = {m}, NEW t \in AppTask, Unboost(t)
  PROVE  Priorities(k', mutex'[m], at', held', m) /\ Switches(k', mutex'[m], at')
<1>1. /\ Account(t, k, mutex[m], at[t], held[t], m) /\ mutex[m] \in MutexStruct
      /\ at \in [AppTask -> At] /\ mutex[m].boosted \in Nat
      /\ held \in [AppTask -> SUBSET MutexId]
      /\ k \in Kernel /\ Quiet(k) /\ k.my \in [Task -> Prio]
      /\ mutex[m].valid \/ mutex[m].lock
      /\ k.home \in [Task -> Prio] /\ k.boosted \in [Task -> Nat]
      /\ t \in Task /\ k.my[t] \in Nat /\ k.home[t] \in Nat /\ k.boosted[t] \in Nat
  BY RankFacts
<1>2. Runs(k, t) /\ at[t].pc = "unboost"
  BY DEF Unboost, Continues
<1>3. PICK n \in Nat : n = at[t].count
  BY <1>1, <1>2, AtLemma
<1>4. /\ k' = IF n > 0 THEN UnboostPriority(k, t, n) ELSE k
      /\ mutex' = mutex /\ at' = [at EXCEPT ![t] = Free]
      /\ held' = held /\ held' = [held EXCEPT ![t] = held[t]]
  BY <1>1, <1>3 DEF Unboost
<1>5. mutex[m].owner # t /\ k.boosted[t] <= n /\ (k.boosted[t] = 0 => k.my[t] = k.home[t])
  BY <1>1, <1>2, <1>3 DEF Account, Leaving
<1>6. PICK d : d = k'
  OBVIOUS
<1>7. /\ d.home = k.home /\ d.nopreempt = k.nopreempt
      /\ d.my = [k.my EXCEPT ![t] = k.home[t]]
      /\ d.boosted = [k.boosted EXCEPT ![t] = 0]
  <2>1. CASE n > 0
    BY <1>1, <1>4, <1>5, <1>6, <2>1, UnboostRanks
  <2>2. CASE ~(n > 0)
    <3>1. k.boosted[t] = 0 /\ k.my[t] = k.home[t] /\ d = k
      BY <1>1, <1>4, <1>5, <1>6, <2>2
    <3> QED
      BY <1>1, <3>1
  <2> QED
    BY <2>1, <2>2
<1>8. /\ d.my[t] = d.home[t] /\ d.boosted[t] = 0 /\ d.home[t] \in Nat
      /\ \A v \in Task \ {t} : d.my[v] = k.my[v] /\ d.boosted[v] = k.boosted[v]
  BY <1>1, <1>7
<1>9. m \notin held[t]
  BY <1>2, <1>5, ActorFacts DEF Place, Owned
<1>10. Account(t, d, mutex[m], Free, held[t], m)
  BY <1>8, <1>9 DEF Account, Free, Leaving
<1>11. \A v \in AppTask \ {t} :
         Untouched(v, k, d, mutex[m], mutex[m], at[v], at[v], held[v], held[v])
  BY <1>1, <1>7, <1>8, RankFacts DEF Untouched
<1>12. Ordered(mutex[m], d.my)
  <2>1. d.my \in [Task -> Prio]
    BY <1>1, <1>7
  <2>2. \A w \in ToSet(mutex[m].waiters) : w \in Task \ {t}
    BY <1>2, ActorFacts, RankFacts DEF ToSet
  <2>3. ASSUME mutex[m].waiters # <<>>
        PROVE  d.my[mutex[m].owner] <= k.my[mutex[m].owner]
    <3>1. mutex[m].lock
      BY <2>3, RankFacts DEF Queue
    <3>2. PICK o \in Task : o = mutex[m].owner
      BY <3>1, OwnerFacts
    <3>3. d.my[o] = k.my[o] /\ k.my[o] \in Nat
      BY <1>5, <1>8, <3>2, RankFacts
    <3> QED
      BY <3>2, <3>3
  <2> QED
    BY <1>8, <2>1, <2>2, <2>3, OrderedStays
<1>13. Settled(d)
  <2>1. IsReady(k, k.active) /\ k.isr = 0 /\ Settled(k)
    BY <1>2, ActorFacts
  <2> QED
    BY <1>1, <1>4, <1>5, <1>6, <2>1, UnboostSettled
<1>14. Priorities(d, mutex[m], [at EXCEPT ![t] = Free],
                  [held EXCEPT ![t] = held[t]], m)
  BY <1>1, <1>2, <1>10, <1>11, <1>12, ActorLemma
<1>15. Switches(d, mutex[m], [at EXCEPT ![t] = Free])
  BY <1>2, <1>7, <1>13, SwitchLemma DEF Free
<1> QED
  BY <1>4, <1>6, <1>14, <1>15

\* _mutex_destroy: a task that owns the mutex already, or locks it first.
LEMMA StartDestroyPriorities ==
  ASSUME PInv, NEW m \in MutexId, MutexId = {m}, NEW t \in AppTask, StartDestroy(t, m)
  PROVE  Priorities(k', mutex'[m], at', held', m) /\ Switches(k', mutex'[m], at')
<1>1. CASE StartLock(t, m, "destroy")
  BY <1>1, StartLockPriorities
<1>2. CASE ~StartLock(t, m, "destroy")
  <2>1. PICK x : x = [pc |-> "destroy", m |-> m]
    OBVIOUS
  <2>2. /\ Runs(k, t) /\ at[t] = Free /\ mutex[m].valid /\ mutex[m].owner = t
        /\ at' = [at EXCEPT ![t] = x] /\ k' = k /\ mutex' = mutex /\ held' = held
    BY <1>2, <2>1 DEF StartDestroy, Calls
  <2>3. /\ held' = [held EXCEPT ![t] = held[t]] /\ mutex[m].boosted \in Nat
        /\ Account(t, k, mutex[m], at[t], held[t], m) /\ Ordered(mutex[m], k.my)
    BY <2>2, RankFacts
  <2>4. x.pc = "destroy" /\ Free.pc = "free"
    BY <2>1 DEF Free
  <2>5. Account(t, k, mutex[m], x, held[t], m)
    BY <2>2, <2>3, <2>4 DEF Account, Covered, Leaving
  <2>6. \A v \in AppTask \ {t} :
          Untouched(v, k, k, mutex[m], mutex[m], at[v], at[v], held[v], held[v])
    BY <2>3 DEF Untouched
  <2>7. Priorities(k, mutex[m], [at EXCEPT ![t] = x],
                   [held EXCEPT ![t] = held[t]], m)
    BY <2>2, <2>3, <2>5, <2>6, ActorLemma
  <2>8. Settled(k)
    BY <2>2, <2>4, ActorFacts
  <2>9. Switches(k, mutex[m], [at EXCEPT ![t] = x])
    BY <2>2, <2>4, <2>8, SwitchLemma
  <2> QED
    BY <2>2, <2>3, <2>7, <2>9
<1> QED
  BY <1>1, <1>2

\* From here on the mutex is invalid, and stays locked.
LEMMA DestroyPriorities ==
  ASSUME PInv, NEW m \in MutexId, MutexId = {m}, NEW t \in AppTask, Destroy(t)
  PROVE  Priorities(k', mutex'[m], at', held', m) /\ Switches(k', mutex'[m], at')
<1>1. /\ Account(t, k, mutex[m], at[t], held[t], m) /\ mutex[m] \in MutexStruct
      /\ at \in [AppTask -> At] /\ mutex \in [MutexId -> MutexStruct]
      /\ mutex[m].boosted \in Nat /\ held \in [AppTask -> SUBSET MutexId]
  BY RankFacts
<1>2. Runs(k, t) /\ at[t].pc = "destroy" /\ k' = k /\ held' = held
  BY DEF Destroy, Continues
<1>3. at[t].m = m /\ at[t] \in [pc : {"destroy", "flush"}, m : MutexId]
  BY <1>1, <1>2, AtLemma DEF At, Free
<1>4. mutex[m].lock /\ mutex[m].owner = t
  BY <1>2, <1>3, ActorFacts DEF Place, Owned
<1>5. PICK s : s = [mutex[m] EXCEPT !.valid = FALSE]
  OBVIOUS
<1>6. PICK x : x = [at[t] EXCEPT !.pc = "flush"]
  OBVIOUS
<1>7. mutex'[m] = s /\ at' = [at EXCEPT ![t] = x] /\ held' = [held EXCEPT ![t] = held[t]]
  BY <1>1, <1>2, <1>3, <1>5, <1>6 DEF Destroy
<1>8. /\ ~s.valid /\ s.lock /\ s.owner = mutex[m].owner /\ s.attr = mutex[m].attr
      /\ s.boosted = mutex[m].boosted
  BY <1>1, <1>4, <1>5 DEF MutexStruct
<1>9. x.pc = "flush"
  BY <1>3, <1>6
<1>10. Account(t, k, s, x, held[t], m)
  BY <1>1, <1>2, <1>4, <1>8, <1>9 DEF Account, Covered, Leaving
<1>11. \A v \in AppTask \ {t} :
         Untouched(v, k, k, mutex[m], s, at[v], at[v], held[v], held[v])
  BY <1>1, <1>4, <1>8 DEF Untouched
<1>12. Ordered(s, k.my)
  BY <1>8 DEF Ordered
<1>13. Priorities(k, s, [at EXCEPT ![t] = x], [held EXCEPT ![t] = held[t]], m)
  BY <1>1, <1>2, <1>8, <1>10, <1>11, <1>12, ActorLemma
<1>14. Settled(k)
  BY <1>2, ActorFacts
<1>15. Switches(k, s, [at EXCEPT ![t] = x])
  BY <1>2, <1>8, <1>9, <1>14, SwitchLemma
<1> QED
  BY <1>2, <1>7, <1>13, <1>15

\* A waiting task is made ready; the switch is left to the end of the loop, or
\* to an interrupt.
LEMMA DestroyWakePriorities ==
  ASSUME PInv, NEW m \in MutexId, MutexId = {m}, NEW t \in AppTask, DestroyWake(t)
  PROVE  Priorities(k', mutex'[m], at', held', m) /\ Switches(k', mutex'[m], at')
<1>1. /\ mutex[m] \in MutexStruct /\ mutex \in [MutexId -> MutexStruct]
      /\ at \in [AppTask -> At] /\ k \in Kernel
      /\ Priorities(k, mutex[m], at, held, m) /\ Switches(k, mutex[m], at)
  BY RankFacts DEF PInv, Lawful
<1>2. Runs(k, t) /\ at[t].pc = "flush" /\ at' = at /\ held' = held
  BY DEF DestroyWake, Continues
<1>3. at[t].m = m
  BY <1>1, <1>2, AtLemma
<1>4. ~mutex[m].valid
  BY <1>2, <1>3, ActorFacts DEF Place
<1>5. PICK u : u = Head(mutex[m].waiters)
  OBVIOUS
<1>6. PICK s : s = [mutex[m] EXCEPT !.waiters = Tail(mutex[m].waiters)]
  OBVIOUS
<1>7. k' = TaskReady(k, u) /\ mutex'[m] = s
  BY <1>1, <1>3, <1>5, <1>6 DEF DestroyWake
<1>8. /\ s.valid = mutex[m].valid /\ s.lock = mutex[m].lock
      /\ s.owner = mutex[m].owner /\ s.attr = mutex[m].attr
      /\ s.boosted = mutex[m].boosted
  BY <1>1, <1>6 DEF MutexStruct
<1>9. PICK d : d = k'
  OBVIOUS
<1>10. /\ d.my = k.my /\ d.home = k.home /\ d.boosted = k.boosted
       /\ d.nopreempt = k.nopreempt
  BY <1>1, <1>7, <1>9, KernelRanks, RanksStay DEF SameRanks
<1>11. \A v \in AppTask :
         Account(v, k, mutex[m], at[v], held[v], m)
           => Account(v, d, s, at[v], held[v], m)
  BY <1>8, <1>10 DEF Account, Covered
<1>12. Priorities(d, s, at, held, m)
  BY <1>1, <1>4, <1>8, <1>11 DEF Priorities, Ordered
<1>13. /\ mutex[m].waiters # <<>> /\ mutex[m].waiters \in Seq(AppTask)
       /\ Queue(mutex[m], m, k.state, at) /\ \A v \in AppTask : v \in Task
  BY <1>3, RankFacts DEF DestroyWake
<1>14. u \in Task /\ k.state[u] # "READY"
  <2>1. u \in AppTask /\ u \in ToSet(mutex[m].waiters)
    BY <1>5, <1>13 DEF ToSet
  <2> QED
    BY <1>13, <2>1 DEF Queue
<1>15. Runs(d, t)
  <2>1. Quiet(d) /\ d.active = k.active /\ d.pend = k.pend /\ d.isr = k.isr
    BY <1>1, <1>7, <1>9, <1>14, RankFacts, QuietReady DEF TaskReady, Kernel
  <2> QED
    BY <1>2, <2>1 DEF Runs
<1>16. Switches(d, s, at)
  <2>1. mutex[m].attr.protocol = "inherit" =>
          \A v \in AppTask : at[v].pc = "handover" => v = t
    BY <1>1, <1>2, ActorFacts DEF Switches
  <2> QED
    BY <1>1, <1>2, <1>8, <1>10, <1>15, <2>1 DEF Switches
<1> QED
  BY <1>2, <1>7, <1>9, <1>12, <1>16

\* The boosts are taken back and the switch that is due is made pending.
LEMMA DestroyEndPriorities ==
  ASSUME PInv, NEW m \in MutexId, MutexId = {m}, NEW t \in AppTask, DestroyEnd(t)
  PROVE  Priorities(k', mutex'[m], at', held', m) /\ Switches(k', mutex'[m], at')
<1>1. /\ Account(t, k, mutex[m], at[t], held[t], m) /\ mutex[m] \in MutexStruct
      /\ at \in [AppTask -> At] /\ mutex[m].boosted \in Nat
      /\ held \in [AppTask -> SUBSET MutexId] /\ (mutex[m].valid \/ mutex[m].lock)
      /\ k \in Kernel /\ Quiet(k) /\ k.my \in [Task -> Prio]
      /\ k.home \in [Task -> Prio] /\ k.boosted \in [Task -> Nat]
      /\ t \in Task /\ k.my[t] \in Nat /\ k.home[t] \in Nat /\ k.boosted[t] \in Nat
  BY RankFacts
<1>2. Runs(k, t) /\ at[t].pc = "flush"
  BY DEF DestroyEnd, Continues
<1>3. at[t].m = m
  BY <1>1, <1>2, AtLemma
<1>4. mutex[m].owner = t /\ ~mutex[m].valid
  BY <1>2, <1>3, ActorFacts DEF Place, Owned
<1>5. PICK n \in Nat : n = mutex[m].boosted
  BY <1>1
<1>6. PICK e : e = IF n > 0 THEN UnboostPriority(k, t, n) ELSE k
  OBVIOUS
<1>7. PICK g : g = held[t] \ {m}
  OBVIOUS
<1>8. /\ k' = PendScheduler(e) /\ mutex' = mutex /\ at' = [at EXCEPT ![t] = Free]
      /\ held' = [held EXCEPT ![t] = g]
  BY <1>1, <1>3, <1>5, <1>6, <1>7 DEF DestroyEnd
<1>9. k.boosted[t] <= n /\ (k.boosted[t] = 0 => k.my[t] = k.home[t])
  BY <1>1, <1>2, <1>5 DEF Account, Covered, Leaving
<1>10. PICK d : d = k'
  OBVIOUS
<1>11. Quiet(e) /\ e \in Kernel /\ Basic(e) /\ (~e.pend => IsReady(e, e.active))
       /\ e.isr = 0
  <2>1. IsReady(k, k.active) /\ k.isr = 0
    BY <1>2, ActorFacts
  <2>2. Quiet(e) /\ e.isr = 0
    BY <1>1, <1>6, <2>1, QuietUnboost, UnboostIsr
  <2> QED
    BY <2>2, QuietFacts
<1>12. /\ e.home = k.home /\ e.nopreempt = k.nopreempt
       /\ e.my = [k.my EXCEPT ![t] = k.home[t]]
       /\ e.boosted = [k.boosted EXCEPT ![t] = 0]
  <2>1. CASE n > 0
    BY <1>1, <1>6, <1>9, <2>1, UnboostRanks
  <2>2. CASE ~(n > 0)
    <3>1. k.boosted[t] = 0 /\ k.my[t] = k.home[t] /\ e = k
      BY <1>1, <1>6, <1>9, <2>2
    <3> QED
      BY <1>1, <3>1
  <2> QED
    BY <2>1, <2>2
<1>13. /\ d.my = e.my /\ d.home = e.home /\ d.boosted = e.boosted
       /\ d.nopreempt = e.nopreempt /\ Settled(d)
  BY <1>8, <1>10, <1>11, KernelRanks, PendRanks, PendSchedulerLemma DEF SameRanks
<1>14. /\ d.my[t] = d.home[t] /\ d.boosted[t] = 0 /\ d.home[t] \in Nat
       /\ \A v \in Task \ {t} : d.my[v] = k.my[v] /\ d.boosted[v] = k.boosted[v]
  BY <1>1, <1>12, <1>13
<1>15. Account(t, d, mutex[m], Free, g, m)
  BY <1>7, <1>14 DEF Account, Free, Leaving
<1>16. \A v \in AppTask \ {t} :
         Untouched(v, k, d, mutex[m], mutex[m], at[v], at[v], held[v], held[v])
  BY <1>1, <1>12, <1>13, <1>14, RankFacts DEF Untouched
<1>17. Ordered(mutex[m], d.my)
  BY <1>4 DEF Ordered
<1>18. Priorities(d, mutex[m], [at EXCEPT ![t] = Free], [held EXCEPT ![t] = g], m)
  BY <1>1, <1>2, <1>15, <1>16, <1>17, ActorLemma
<1>19. Switches(d, mutex[m], [at EXCEPT ![t] = Free])
  BY <1>2, <1>12, <1>13, SwitchLemma DEF Free
<1> QED
  BY <1>8, <1>10, <1>18, <1>19

\* What moves no task between priorities and concerns no mutex.
LEMMA ElsewherePriorities ==
  ASSUME PInv, NEW m \in MutexId, SameRanks(k', k), Settled(k'),
         mutex' = mutex, at' = at, held' = held,
         \A v \in AppTask : Runs(k, v) => at[v].pc # "handover"
  PROVE  Priorities(k', mutex'[m], at', held', m) /\ Switches(k', mutex'[m], at')
<1>1. Priorities(k, mutex[m], at, held, m) /\ Switches(k, mutex[m], at)
  BY DEF PInv, Lawful
<1>2. PICK d : d = k'
  OBVIOUS
<1>3. /\ d.my = k.my /\ d.home = k.home /\ d.boosted = k.boosted
      /\ d.nopreempt = k.nopreempt /\ Settled(d)
  BY <1>2 DEF SameRanks
<1>4. \A v \in AppTask :
        Account(v, k, mutex[m], at[v], held[v], m)
          => Account(v, d, mutex[m], at[v], held[v], m)
  BY <1>3 DEF Account, Covered
<1>5. Priorities(d, mutex[m], at, held, m)
  BY <1>1, <1>3, <1>4 DEF Priorities, Ordered
<1>6. Switches(d, mutex[m], at)
  BY <1>1, <1>3 DEF Switches
<1> QED
  BY <1>2, <1>5, <1>6

LEMMA OtherPriorities ==
  ASSUME PInv, NEW m \in MutexId, \/ \E t \in AppTask : Block(t)
                                  \/ IsrStep
                                  \/ PendSV
  PROVE  Priorities(k', mutex'[m], at', held', m) /\ Switches(k', mutex'[m], at')
<1>1. /\ k \in Kernel /\ SameRanks(k, k) /\ Quiet(k) /\ Basic(k)
      /\ \A v \in Task : ~k.timed[v]
  BY RankFacts, KernelRanks, QuietFacts DEF Quiet
<1>2. mutex' = mutex /\ at' = at /\ held' = held
  BY DEF Block, IsrStep, EnterIsr, ReturnFromIsr, IsrReady, PendSV
<1>3. (\A v \in AppTask : Runs(k, v) => at[v].pc \notin {"handover", "flush"}) => Settled(k)
  BY RankFacts DEF Switches
<1>4. CASE \E t \in AppTask : Block(t)
  <2>1. PICK t \in AppTask : Runs(k, t) /\ at[t] = Free /\ k' = TaskBlock(k, t)
    BY <1>4 DEF Block, Calls
  <2>2. \A v \in AppTask : Runs(k, v) => at[v].pc \notin {"handover", "flush"}
    BY <2>1 DEF Runs, Free
  <2>3. SameRanks(k', k)
    BY <1>1, <2>1, RanksStay
  <2>4. TaskBlock(k, t).pend
    BY <1>1 DEF TaskBlock, Unlink, Kernel
  <2>5. Settled(k')
    BY <2>1, <2>4 DEF Settled
  <2> QED
    BY <1>2, <2>2, <2>3, <2>5, ElsewherePriorities
<1>5. CASE EnterIsr
  <2>1. ~Masked /\ k' = IsrEntry(k)
    BY <1>5 DEF EnterIsr
  <2>2. \A v \in AppTask : Runs(k, v) => at[v].pc # "handover"
    BY <2>1 DEF Masked
  <2>3. SameRanks(k', k)
    BY <1>1, <2>1, RanksStay
  <2>4. Settled(k')
    <3>1. PICK n \in Nat : n = k.isr + 1 /\ n # 0
      BY <1>1 DEF Kernel
    <3>2. IsrEntry(k) = [k EXCEPT !.isr = n]
      BY <3>1 DEF IsrEntry
    <3>3. ~k.pend => IsReady(k, k.active)
      BY <1>1, QuietFacts
    <3> QED
      BY <1>1, <2>1, <3>1, <3>2, <3>3 DEF Settled, IsReady, Kernel
  <2> QED
    BY <1>2, <2>2, <2>3, <2>4, ElsewherePriorities
<1>6. CASE ReturnFromIsr \/ (\E u \in AppTask : IsrReady(u)) \/ PendSV
  <2>1. k.isr > 0 \/ k.pend
    BY <1>6 DEF ReturnFromIsr, IsrReady, PendSV
  <2>2. \A v \in AppTask : Runs(k, v) => at[v].pc \notin {"handover", "flush"}
    BY <2>1 DEF Runs
  <2>3. Settled(k)
    BY <1>3, <2>2
  <2>4. CASE ReturnFromIsr
    <3>1. k.isr > 0 /\ k' = IsrReturn(k)
      BY <2>4 DEF ReturnFromIsr
    <3>2. SameRanks(k', k) /\ Settled(k')
      BY <1>1, <2>3, <3>1, RanksStay, IsrReturnLemma
    <3> QED
      BY <1>2, <2>2, <3>2, ElsewherePriorities
  <2>5. CASE \E u \in AppTask : IsrReady(u)
    <3>1. PICK u \in AppTask : /\ k.isr > 0 /\ k.state[u] = "BLOCKED"
                               /\ k' = TaskReady(k, u)
      BY <2>5 DEF IsrReady
    <3>2. u \in Task /\ ~IsReady(k, u) /\ ~k.timed[u]
      BY <1>1, <3>1, AppTaskLemma DEF IsReady
    <3>3. Agree(k, {u}) /\ NoneAbove(k) /\ IsReady(k, Idle)
      BY <1>1, <3>2, UnlinkedLemma DEF Basic
    <3>4. ~k.pend => IsReady(k, k.active)
      BY <1>1, QuietFacts
    <3>5. SameRanks(k', k) /\ Settled(k')
      BY <1>1, <3>1, <3>2, <3>3, <3>4, RanksStay, IsrReadyLemma
    <3> QED
      BY <1>2, <2>2, <3>5, ElsewherePriorities
  <2>6. CASE PendSV
    <3>1. k' = Dispatch(k)
      BY <2>6 DEF PendSV
    <3>2. SameRanks(k', k) /\ Settled(k')
      BY <1>1, <3>1, RanksStay, DispatchLemma
    <3> QED
      BY <1>2, <2>2, <3>2, ElsewherePriorities
  <2> QED
    BY <1>6, <2>4, <2>5, <2>6
<1> QED
  BY <1>4, <1>5, <1>6 DEF IsrStep

LEMMA InitPriorities ==
  ASSUME Init, Regular, NEW m \in MutexId
  PROVE  Priorities(k, mutex[m], at, held, m) /\ Switches(k, mutex[m], at)
<1>1. /\ HomePriority \in [Task -> Prio] /\ AutoQueues \in [Prio -> Seq(Task)]
      /\ StartsWith(HomePriority, AutoQueues, {})
  BY MutexAssumption DEF StartsWith, IsInjective, Inj
<1>2. Settled(k)
  BY <1>1, SoundStartAll DEF Init
<1>3. /\ k.my = HomePriority /\ k.home = HomePriority
      /\ k.boosted = [t \in Task |-> 0] /\ k.nopreempt = [t \in Task |-> FALSE]
  <2>1. PICK d : d = [InitKernel(HomePriority) EXCEPT
                        !.ready = AutoQueues,
                        !.state = [t \in Task |-> "READY"], !.current = 0]
    OBVIOUS
  <2>2. /\ d.my = HomePriority /\ d.home = HomePriority
        /\ d.boosted = [t \in Task |-> 0] /\ d.nopreempt = [t \in Task |-> FALSE]
        /\ SameRanks(d, d)
    BY <2>1 DEF InitKernel, SameRanks
  <2>3. k = Dispatch(d)
    BY <2>1 DEF Init, StartKernel
  <2>4. SameRanks(Dispatch(d), d)
    BY <2>2, RanksStay
  <2> QED
    BY <2>2, <2>3, <2>4 DEF SameRanks
<1>4. PICK attr \in Attributes :
        mutex = [i \in MutexId |->
                   [valid |-> TRUE, lock |-> FALSE, owner |-> Nobody,
                    waiters |-> <<>>, boosted |-> 0, attr |-> attr[i]]]
  BY DEF Init
<1>5. PICK s : s = mutex[m]
  OBVIOUS
<1>6. /\ s.valid /\ s.waiters = <<>> /\ s.attr = attr[m]
      /\ at = [t \in AppTask |-> Free] /\ held = [t \in AppTask |-> {}]
  BY <1>4, <1>5 DEF Init
<1>7. ASSUME NEW t \in AppTask PROVE Account(t, k, s, at[t], held[t], m)
  <2>1. t \in Task /\ HomePriority[t] \in Nat
    BY <1>1, AppTaskLemma, KernelAssumption DEF Prio
  <2>2. k.my[t] = k.home[t] /\ k.home[t] \in Nat /\ k.boosted[t] = 0
    BY <1>3, <2>1
  <2>3. at[t] = Free /\ held[t] = {}
    BY <1>6
  <2> QED
    BY <2>2, <2>3 DEF Account, Free, Leaving
<1>8. Ordered(s, k.my)
  <2>1. s.attr.protocol = "inherit" => s.attr.sorted
    BY <1>4, <1>6 DEF Regular
  <2>2. Timely(<<>>, k.my, 0) /\ ToSet(<<>>) = {}
    BY DEF Timely, ToSet
  <2> QED
    BY <1>6, <2>1, <2>2 DEF Ordered
<1>9. Priorities(k, s, at, held, m)
  BY <1>6, <1>7, <1>8 DEF Priorities
<1>10. \A t \in AppTask : at[t].pc # "handover"
  BY <1>6 DEF Free
<1>11. Switches(k, s, at)
  BY <1>2, <1>3, <1>10 DEF Switches
<1> QED
  BY <1>5, <1>9, <1>11

LEMMA TaskStepPriorities ==
  ASSUME PInv, FixedCeilings, NEW m \in MutexId, MutexId = {m}, NEW t \in AppTask,
         TaskStep(t)
  PROVE  Priorities(k', mutex'[m], at', held', m) /\ Switches(k', mutex'[m], at')
<1>1. CASE \E i \in MutexId : StartLock(t, i, "own")
  BY <1>1, StartLockPriorities
<1>2. CASE \E i \in MutexId : TryLock(t, i) \/ Unlock(t, i)
  BY <1>2, TryLockPriorities, UnlockPriorities
<1>3. CASE LockFree(t) \/ LockBusy(t) \/ LockResume(t) \/ LockProtect(t)
  BY <1>3, LockFreePriorities, LockBusyPriorities, LockResumePriorities,
     LockProtectPriorities
<1>4. CASE Handover(t) \/ Unboost(t)
  BY <1>4, HandoverPriorities, UnboostPriorities
<1>5. CASE (\E i \in MutexId : StartDestroy(t, i))
           \/ Destroy(t) \/ DestroyWake(t) \/ DestroyEnd(t)
  BY <1>5, StartDestroyPriorities, DestroyPriorities, DestroyWakePriorities,
     DestroyEndPriorities
<1>6. CASE Block(t)
  BY <1>6, OtherPriorities
<1> QED
  BY <1>1, <1>2, <1>3, <1>4, <1>5, <1>6 DEF TaskStep, FixedCeilings

LEMMA LawfulInductive ==
  ASSUME OneMutex, FixedCeilings, Regular
  PROVE  Spec => []PInv
<1>1. Init => PInv
  <2> SUFFICES ASSUME Init PROVE PInv
    OBVIOUS
  <2>1. IInv
    BY InitLemma
  <2>2. Lawful(k, mutex, at, held)
    BY InitPriorities DEF Lawful
  <2> QED
    BY <2>1, <2>2 DEF PInv
<1>2. PInv /\ [Next]_vars => PInv'
  <2> SUFFICES ASSUME PInv, [Next]_vars PROVE PInv'
    OBVIOUS
  <2>1. IInv'
    BY NextLemma DEF PInv
  <2>2. Lawful(k', mutex', at', held')
    <3>1. ASSUME NEW m \in MutexId
          PROVE  /\ Priorities(k', mutex'[m], at', held', m)
                 /\ Switches(k', mutex'[m], at')
      <4>1. MutexId = {m}
        BY <3>1 DEF OneMutex
      <4>2. CASE UNCHANGED vars
        BY <4>2 DEF vars, PInv, Lawful
      <4>3. CASE \E t \in AppTask : TaskStep(t)
        BY <4>1, <4>3, TaskStepPriorities
      <4>4. CASE IsrStep \/ PendSV
        BY <4>4, OtherPriorities
      <4> QED
        BY <4>2, <4>3, <4>4 DEF Next
    <3> QED
      BY <3>1 DEF Lawful
  <2>3. Lawful(k, mutex, at, held)'
    BY <2>2 DEF Lawful, Priorities, Switches, Account, Covered, Ordered, Timely,
       Settled, Runs, IsReady
  <2> QED
    BY <2>1, <2>3 DEF PInv
<1> QED
  BY <1>1, <1>2, PTL DEF Spec

-----------------------------------------------------------------------------

\* The owner of a mutex with inheritance is as urgent as every waiting task:
\* _mutex_lock boosts it, and whoever gets the mutex next was first in the
\* sorted queue.
THEOREM OwnerInherits ==
  ASSUME OneMutex, FixedCeilings, Regular
  PROVE  Spec => []InheritsHighest
<1>1. PInv => InheritsHighest
  BY RankFacts DEF InheritsHighest, Inherits, Ordered
<1> QED
  BY <1>1, LawfulInductive, PTL

\* While a task waits for a mutex whose owner could run, nothing less urgent
\* executes: neither after a boost, which moves the owner between ready queues,
\* nor in the middle of _mutex_unlock, before the old owner gives way.
THEOREM NoneInverted ==
  ASSUME OneMutex, FixedCeilings, Regular
  PROVE  Spec => []NoInversion
<1>1. ASSUME OneMutex, PInv, NEW m \in MutexId, NEW t \in Task,
             mutex[m].valid, Inherits(m), Runs(k, t),
             NEW w \in ToSet(mutex[m].waiters), IsReady(k, mutex[m].owner)
      PROVE  k.my[t] <= k.my[w]
  <2>1. /\ Switches(k, mutex[m], at) /\ Quiet(k) /\ k \in Kernel
        /\ \A v \in Task : k.my[v] \in Nat /\ k.my[v] \in Prio
        /\ mutex[m].attr.protocol = "inherit"
        /\ \A v \in ToSet(mutex[m].waiters) : k.my[mutex[m].owner] <= k.my[v]
    BY <1>1, RankFacts DEF Ordered, Inherits
  <2>2. PICK o \in Task : o = mutex[m].owner
    <3>1. mutex[m].waiters \in Seq(AppTask) /\ mutex[m].waiters # <<>>
          /\ Queue(mutex[m], m, k.state, at) /\ mutex[m] \in MutexStruct
      BY <1>1, RankFacts DEF ToSet
    <3> QED
      BY <3>1, AppTaskLemma DEF Queue, MutexStruct
  <2>3. w \in Task
    BY <1>1, RankFacts DEF ToSet
  <2>4. CASE Settled(k)
    <3>1. k.current = k.my[t]
      BY <1>1, <2>1, <2>4 DEF Settled, Runs, Switches
    <3>2. Agree(k, {}) /\ NoneAbove(k)
      BY <2>1, QuietFacts DEF Basic
    <3>3. o \in ToSet(k.ready[k.my[o]])
      BY <1>1, <2>1, <2>2, <3>2 DEF Agree
    <3>4. k.ready[k.my[o]] # <<>>
      BY <3>3 DEF ToSet
    <3>5. k.current <= k.my[o]
      BY <2>1, <2>2, <3>2, <3>4 DEF NoneAbove
    <3> QED
      BY <2>1, <2>2, <2>3, <3>1, <3>5
  <2>5. CASE \E v \in AppTask : Runs(k, v) /\ at[v].pc \in {"handover", "flush"}
    <3>1. PICK v \in AppTask : Runs(k, v) /\ at[v].pc \in {"handover", "flush"}
      BY <2>5
    <3>2. v = t
      BY <1>1, <3>1 DEF Runs
    <3>3. at[v].pc # "flush"
      <4>1. at[v] \in At /\ MutexId = {m}
        BY <1>1, RankFacts DEF OneMutex
      <4>2. at[v].pc = "flush" => at[v].m = m
        BY <4>1, AtLemma
      <4> QED
        BY <1>1, <3>1, <4>2, ActorFacts DEF Place
    <3> QED
      BY <2>1, <3>1, <3>2, <3>3 DEF Switches
  <2> QED
    BY <2>1, <2>4, <2>5 DEF Switches
<1>2. OneMutex /\ PInv => NoInversion
  BY <1>1 DEF NoInversion
<1> QED
  BY <1>2, LawfulInductive, PTL

\* A task that holds a mutex with a ceiling is at least as urgent as that,
\* whether it took the mutex free, was given it or was boosted while it waited.
THEOREM CeilingReached ==
  ASSUME OneMutex, FixedCeilings, Regular
  PROVE  Spec => []CeilingHeld
<1>1. ASSUME PInv, NEW t \in AppTask, NEW m \in held[t], Protects(m)
      PROVE  k.my[t] <= Ceiling(m)
  <2>1. m \in MutexId
    BY <1>1 DEF PInv, IInv, DataOK
  <2>2. Account(t, k, mutex[m], at[t], held[t], m)
    BY <1>1, <2>1, RankFacts
  <2> QED
    BY <1>1, <2>2 DEF Account, Protects, Ceiling
<1>2. PInv => CeilingHeld
  BY <1>1 DEF CeilingHeld
<1> QED
  BY <1>2, LawfulInductive, PTL

\* Every boost is taken back: BOOSTED of the mutex never falls short of the
\* boosts of its owner, although both are counted in separate statements and
\* the mutex changes hands in between.
THEOREM BoostsTakenBack ==
  ASSUME OneMutex, FixedCeilings, Regular
  PROVE  Spec => []BoostsEnd
<1>1. ASSUME OneMutex, PInv, NEW t \in AppTask, at[t] = Free, Owns(t) = {}
      PROVE  k.my[t] = k.home[t] /\ k.boosted[t] = 0
  <2>1. PICK m : MutexId = {m}
    BY <1>1 DEF OneMutex
  <2>2. Account(t, k, mutex[m], at[t], held[t], m)
    BY <1>1, <2>1, RankFacts
  <2>3. mutex[m].owner # t
    BY <1>1, <2>1 DEF Owns
  <2> QED
    BY <1>1, <2>2, <2>3 DEF Account, Free, Leaving
<1>2. OneMutex /\ PInv => BoostsEnd
  BY <1>1 DEF BoostsEnd
<1> QED
  BY <1>2, LawfulInductive, PTL
=============================================================================
