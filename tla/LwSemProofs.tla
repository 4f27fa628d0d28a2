----------------------------- MODULE LwSemProofs -----------------------------
(***************************************************************************)
(* For every set of tasks, every priority, timeout and initial value: a    *)
(* semaphore that is created once keeps its queue, the states of the tasks *)
(* and the queues of the kernel in agreement, and lets no task wait while  *)
(* it has a token.                                                         *)
(*                                                                         *)
(* The inductive invariant adds to these where each task is in its call:   *)
(* only a task inside a wait is LWSEM_BLOCKED, and the kernel is settled   *)
(* except inside the loop of _lwsem_destroy, which readies tasks without   *)
(* calling the scheduler and runs with interrupts disabled.                *)
(*                                                                         *)
(* The second part shows that the code implements the abstract semaphore   *)
(* of module Semaphore.                                                    *)
(***************************************************************************)
EXTENDS LwSem, KernelProofs

\* _lwsem_create overwrites the queue of a semaphore that is in use, so what
\* follows holds of a semaphore that is created at most once.
CreatedOnce == MaxCreations <= 1

DataOK ==
  /\ sem \in [valid : BOOLEAN, value : Int, waiters : Seq(AppTask)]
  /\ at \in [AppTask -> At]
  /\ info \in [AppTask -> BOOLEAN]
  /\ made \in 0 .. MaxCreations

KernelOK ==
  /\ Basic(k)
  /\ ~k.pend => IsReady(k, k.active)
  /\ k.ticking => k.isr > 0
  /\ Destroying \/ Settled(k)
  /\ \A t \in AppTask : at[t] = "destroying" => Runs(k, t)

\* The tasks that are LWSEM_BLOCKED are those on TD_QUEUE and inside a wait.
Queued(w, state, timed, call) ==
  /\ w \in Seq(AppTask) /\ Inj(w)
  /\ ToSet(w) = {t \in AppTask : state[t] = "LWSEM_BLOCKED"}
  /\ \A t \in AppTask :
       /\ state[t] = "LWSEM_BLOCKED" => call[t] \in Blocked
       /\ call[t] \in Blocked =>
            \/ state[t] = "LWSEM_BLOCKED"
            \/ state[t] = "READY" /\ ~timed[t]
WaitsOK == Queued(sem.waiters, k.state, k.timed, at)

\* Nobody is past the check of VALID before the first creation.
FreshOK ==
  made = 0 => /\ ~sem.valid /\ sem.waiters = <<>>
              /\ \A t \in AppTask : at[t] \in Outcome

IInv == DataOK /\ KernelOK /\ WaitsOK /\ FreshOK /\ NoIdleToken

-----------------------------------------------------------------------------
\* What a step that finds the active task executing may assume.
LEMMA RunsLemma ==
  ASSUME IInv, NEW t \in AppTask, Runs(k, t)
  PROVE  /\ k \in Kernel /\ Basic(k) /\ IsReady(k, t)
         /\ t \in Task /\ k.active = t /\ k.isr = 0 /\ ~k.pend
         /\ k.state[t] = "READY" /\ ~k.timed[t]
         /\ t \notin ToSet(sem.waiters)
         /\ \A u \in AppTask : at[u] = "destroying" => u = t
<1>1. k \in Kernel /\ Basic(k) /\ IsReady(k, t)
  BY DEF IInv, KernelOK, Basic, Runs
<1>2. \A u \in AppTask : at[u] = "destroying" => u = t
  BY DEF IInv, KernelOK, Runs
<1> QED
  BY <1>1, <1>2, AppTaskLemma DEF Runs, IsReady, IInv, WaitsOK, Queued

\* A step that leaves the kernel and the queue alone, and takes the active
\* task from one place of its call to another that is not inside a wait.
LEMMA CallStepLemma ==
  ASSUME IInv, NEW t \in AppTask, Runs(k, t), at[t] # "destroying",
         NEW a \in At \ Blocked, at' = [at EXCEPT ![t] = a],
         k' = k, sem'.waiters = sem.waiters
  PROVE  KernelOK' /\ WaitsOK'
<1>1. /\ k \in Kernel /\ Basic(k) /\ IsReady(k, t) /\ t \in Task
      /\ k.state[t] = "READY" /\ \A u \in AppTask : at[u] = "destroying" => u = t
  BY RunsLemma
<1>2. at \in [AppTask -> At]
  BY DEF IInv, DataOK
<1>3. Settled(k) /\ Basic(k) /\ (~k.pend => IsReady(k, k.active))
      /\ (k.ticking => k.isr > 0)
  BY <1>1 DEF IInv, KernelOK, Destroying
<1>4. \A u \in AppTask : at'[u] = "destroying" => u = t
  BY <1>1, <1>2
<1>5. KernelOK'
  <2>1. Basic(k)' /\ Settled(k)'
    BY <1>3 DEF Basic, Settled, Agree, NoneAbove, IsReady
  <2>2. Runs(k, t)'
    BY DEF Runs
  <2> QED
    BY <1>3, <1>4, <2>1, <2>2 DEF KernelOK, IsReady
<1>6. WaitsOK'
  BY <1>1, <1>2 DEF IInv, WaitsOK, Queued
<1> QED
  BY <1>5, <1>6

\* The kernel's part of the invariant after the active task called the
\* dispatcher.
LEMMA SwitchedLemma ==
  ASSUME IInv, NEW t \in AppTask, Runs(k, t), at[t] # "destroying",
         NEW a \in At \ {"destroying"}, at' = [at EXCEPT ![t] = a],
         Basic(k'), Settled(k'), k'.ticking = k.ticking
  PROVE  KernelOK'
<1>1. \A u \in AppTask : at[u] = "destroying" => u = t
  BY RunsLemma
<1>2. at \in [AppTask -> At]
  BY DEF IInv, DataOK
<1>3. \A u \in AppTask : at'[u] # "destroying"
  BY <1>1, <1>2
<1>4. k.ticking = FALSE
  BY DEF IInv, KernelOK, Runs, Basic, Kernel
<1> QED
  BY <1>3, <1>4 DEF KernelOK, Basic, Settled, Agree, NoneAbove, IsReady

\* A task joins the queue and blocks.
LEMMA EnqueueLemma ==
  ASSUME IInv, NEW t \in AppTask, Enqueue(t),
         NEW a \in Blocked, at' = [at EXCEPT ![t] = a],
         k'.state = [k.state EXCEPT ![t] = "LWSEM_BLOCKED"],
         \A u \in Task \ {t} : k'.timed[u] = k.timed[u]
  PROVE  DataOK' /\ WaitsOK' /\ FreshOK' /\ NoIdleToken'
<1>1. /\ Runs(k, t) /\ at[t] = "wait" /\ sem.value <= 0
      /\ sem' = [sem EXCEPT !.waiters = Append(@, t)]
      /\ info' = [info EXCEPT ![t] = TRUE] /\ made' = made
  BY DEF Enqueue
<1>2. t \in Task /\ k \in Kernel /\ t \notin ToSet(sem.waiters)
  BY <1>1, RunsLemma
<1>3. DataOK /\ Queued(sem.waiters, k.state, k.timed, at)
  BY DEF IInv, WaitsOK
<1>4. sem.waiters \in Seq(AppTask) /\ Inj(sem.waiters) /\ sem.waiters \in Seq(Task)
  BY <1>3, AppTaskLemma DEF Queued
<1> DEFINE w == Append(sem.waiters, t)
<1>5. Inj(w) /\ ToSet(w) = ToSet(sem.waiters) \cup {t}
  BY <1>2, <1>4, AppendLemma
<1>6. w \in Seq(AppTask)
  BY <1>4
<1>7. sem'.waiters = w /\ sem'.value = sem.value /\ sem'.valid = sem.valid
      /\ sem' \in [valid : BOOLEAN, value : Int, waiters : Seq(AppTask)]
  BY <1>1, <1>3, <1>6 DEF DataOK
<1> HIDE DEF w
<1>8. k.state \in [Task -> State] /\ at \in [AppTask -> At]
  BY <1>2, <1>3 DEF Kernel, DataOK
<1>9. WaitsOK'
  <2>1. ToSet(w) = {u \in AppTask : k'.state[u] = "LWSEM_BLOCKED"}
    BY <1>2, <1>3, <1>5, <1>8, AppTaskLemma DEF Queued
  <2>2. ASSUME NEW u \in AppTask
        PROVE  /\ k'.state[u] = "LWSEM_BLOCKED" => at'[u] \in Blocked
               /\ at'[u] \in Blocked =>
                    \/ k'.state[u] = "LWSEM_BLOCKED"
                    \/ k'.state[u] = "READY" /\ ~k'.timed[u]
    <3>1. CASE u = t
      <4>1. at'[u] = a /\ k'.state[u] = "LWSEM_BLOCKED"
        BY <1>2, <1>8, <3>1
      <4> QED
        BY <4>1
    <3>2. CASE u # t
      BY <1>3, <1>8, <3>2, AppTaskLemma DEF Queued
    <3> QED
      BY <3>1, <3>2
  <2> QED
    BY <1>5, <1>6, <1>7, <2>1, <2>2 DEF WaitsOK, Queued
<1>10. DataOK'
  BY <1>1, <1>3, <1>7 DEF DataOK, At
<1>11. made # 0
  BY <1>1 DEF IInv, FreshOK, Outcome
<1> QED
  BY <1>1, <1>3, <1>7, <1>9, <1>10, <1>11 DEF FreshOK, NoIdleToken, DataOK

LEMMA WaitLemma ==
  ASSUME IInv, NEW t \in AppTask,
         WaitForever(t) \/ \E d \in Timeouts : WaitTimed(t, d)
  PROVE  IInv'
<1>1. Runs(k, t) /\ at[t] = "wait" /\ Enqueue(t)
  BY DEF WaitForever, WaitTimed, Enqueue
<1>2. k \in Kernel /\ Basic(k) /\ IsReady(k, t) /\ t \in Task
  BY <1>1, RunsLemma
<1>3. "LWSEM_BLOCKED" \in State \ {"READY"}
  BY DEF State
<1>4. /\ k.timed \in [Task -> BOOLEAN]
      /\ {"blocked", "timedBlocked"} = Blocked
      /\ Blocked \subseteq At \ {"destroying"}
  BY <1>2 DEF Kernel, Blocked, At
<1>5. CASE WaitForever(t)
  <2> DEFINE b == [Unlink(k, t, k.my[t]) EXCEPT !.state[t] = "LWSEM_BLOCKED"]
  <2>1. /\ Basic(b) /\ b.state = [k.state EXCEPT ![t] = "LWSEM_BLOCKED"]
        /\ b.timed = k.timed /\ b.ticking = k.ticking
    BY <1>2, <1>3, BlockLemma
  <2>2. k' = Dispatch(b) /\ at' = [at EXCEPT ![t] = "blocked"]
    BY <1>5 DEF WaitForever
  <2> HIDE DEF b
  <2>3. b \in Kernel
    BY <2>1 DEF Basic
  <2>4. /\ k'.state = b.state /\ k'.timed = b.timed /\ k'.ticking = b.ticking
    BY <2>2, <2>3, DispatchEffect
  <2>5. Basic(k') /\ Settled(k')
    BY <2>1, <2>2, <2>3, DispatchLemma
  <2> QED
    BY <1>1, <1>4, <2>1, <2>2, <2>4, <2>5, SwitchedLemma, EnqueueLemma DEF IInv
<1>6. ASSUME NEW d \in Timeouts, WaitTimed(t, d)
      PROVE  IInv'
  <2> DEFINE b == Delay([k EXCEPT !.state[t] = "LWSEM_BLOCKED"], t, d)
  <2>1. d \in Int
    BY LwSemAssumption
  <2>2. /\ Basic(b) /\ b.state = [k.state EXCEPT ![t] = "LWSEM_BLOCKED"]
        /\ b.timed = [k.timed EXCEPT ![t] = TRUE] /\ b.ticking = k.ticking
    BY <1>2, <1>3, <2>1, DelayBlockedLemma
  <2>3. k' = Dispatch(b) /\ at' = [at EXCEPT ![t] = "timedBlocked"]
    BY <1>6 DEF WaitTimed
  <2> HIDE DEF b
  <2>4. b \in Kernel
    BY <2>2 DEF Basic
  <2>5. /\ k'.state = b.state /\ k'.timed = b.timed /\ k'.ticking = b.ticking
    BY <2>3, <2>4, DispatchEffect
  <2>6. Basic(k') /\ Settled(k')
    BY <2>2, <2>3, <2>4, DispatchLemma
  <2>7. \A u \in Task \ {t} : k'.timed[u] = k.timed[u]
    BY <1>4, <2>2, <2>5
  <2> QED
    BY <1>1, <1>4, <2>2, <2>3, <2>5, <2>6, <2>7, SwitchedLemma, EnqueueLemma
    DEF IInv
<1> QED
  BY <1>5, <1>6

\* The actions that neither block nor wake a task.
LEMMA CallLemma ==
  ASSUME CreatedOnce, IInv, NEW t \in AppTask,
         \/ \E v \in InitialValues : Create(t, v)
         \/ \E op \in Checked : Check(t, op)
         \/ Poll(t) \/ Acquire(t) \/ Resume(t) \/ Destroy(t)
  PROVE  IInv'
<1>1. /\ Runs(k, t) /\ at[t] \in Outcome \cup Checked \cup Blocked
      /\ at[t] # "destroying" /\ k' = k
  BY DEF Create, Check, Poll, Acquire, Resume, Destroy, Outcome, Checked,
         Blocked
<1>2. DataOK /\ FreshOK /\ NoIdleToken /\ WaitsOK
  BY DEF IInv
<1>3. /\ Outcome \cup Checked \cup {"destroying"} = At \ Blocked
      /\ {"none", "ok", "timeout", "invalid"} = Outcome
      /\ {"wait", "poll", "post"} = Checked
  BY DEF Outcome, Checked, Blocked, At
<1>4. ASSUME NEW v \in InitialValues, Create(t, v)
      PROVE  IInv'
  <2>1. /\ made = 0 /\ made' = 1 /\ at' = at /\ info' = info /\ at[t] \in Outcome
        /\ sem' = [valid |-> TRUE, value |-> v, waiters |-> <<>>]
        /\ sem.waiters = <<>> /\ v \in Int
    BY <1>2, <1>4, LwSemAssumption DEF Create, CreatedOnce, DataOK, FreshOK
  <2>2. at' = [at EXCEPT ![t] = at[t]]
    BY <1>2, <2>1 DEF DataOK
  <2>3. DataOK'
    BY <1>2, <1>4, <2>1, LwSemAssumption DEF DataOK, Create
  <2>4. KernelOK' /\ WaitsOK'
    BY <1>1, <1>3, <2>1, <2>2, CallStepLemma
  <2> QED
    BY <2>1, <2>3, <2>4 DEF IInv, FreshOK, NoIdleToken
<1>5. ASSUME NEW op \in Checked, Check(t, op)
      PROVE  IInv'
  <2> DEFINE a == IF sem.valid THEN op
                  ELSE IF op = "wait" THEN "invalid" ELSE "none"
  <2>1. /\ at' = [at EXCEPT ![t] = a] /\ sem' = sem /\ info' = info
        /\ made' = made
    BY <1>5 DEF Check
  <2>2. a \in Outcome \cup Checked /\ (~sem.valid => a \in Outcome)
    BY <1>3
  <2> HIDE DEF a
  <2>3. KernelOK' /\ WaitsOK'
    BY <1>1, <1>3, <2>1, <2>2, CallStepLemma
  <2>4. DataOK' /\ FreshOK'
    BY <1>2, <1>3, <2>1, <2>2 DEF DataOK, FreshOK
  <2> QED
    BY <1>2, <2>1, <2>3, <2>4 DEF IInv, NoIdleToken
<1>6. CASE Poll(t)
  <2>1. PICK a \in Outcome : at' = [at EXCEPT ![t] = a]
    BY <1>3, <1>6 DEF Poll
  <2>2. /\ info' = info /\ made' = made /\ at[t] = "poll"
        /\ sem' = sem \/ sem' = [sem EXCEPT !.value = @ - 1]
    BY <1>6 DEF Poll, TakeToken
  <2>3. /\ sem' \in [valid : BOOLEAN, value : Int, waiters : Seq(AppTask)]
        /\ sem'.waiters = sem.waiters /\ sem'.valid = sem.valid
        /\ sem'.value = sem.value \/ sem'.value = sem.value - 1
    BY <1>2, <2>2 DEF DataOK
  <2>4. KernelOK' /\ WaitsOK'
    BY <1>1, <1>3, <2>1, <2>3, CallStepLemma
  <2>5. DataOK' /\ FreshOK' /\ NoIdleToken'
    BY <1>2, <1>3, <2>1, <2>2, <2>3 DEF DataOK, FreshOK, NoIdleToken, Outcome
  <2> QED
    BY <2>4, <2>5 DEF IInv
<1>7. CASE Acquire(t)
  <2>1. PICK a \in Outcome : at' = [at EXCEPT ![t] = a]
    BY <1>3, <1>7 DEF Acquire
  <2>2. /\ info' = info /\ made' = made /\ at[t] = "wait"
        /\ sem' = [sem EXCEPT !.value = @ - 1]
    BY <1>7 DEF Acquire, TakeToken
  <2>3. /\ sem' \in [valid : BOOLEAN, value : Int, waiters : Seq(AppTask)]
        /\ sem'.waiters = sem.waiters /\ sem'.valid = sem.valid
        /\ sem'.value = sem.value - 1
    BY <1>2, <2>2 DEF DataOK
  <2>4. KernelOK' /\ WaitsOK'
    BY <1>1, <1>3, <2>1, <2>3, CallStepLemma
  <2>5. DataOK' /\ FreshOK' /\ NoIdleToken'
    BY <1>2, <1>3, <2>1, <2>2, <2>3 DEF DataOK, FreshOK, NoIdleToken, Outcome
  <2> QED
    BY <2>4, <2>5 DEF IInv
<1>8. CASE Resume(t)
  <2>1. PICK a \in Outcome : at' = [at EXCEPT ![t] = a]
    BY <1>3, <1>8 DEF Resume
  <2>2. info' = info /\ made' = made /\ sem' = sem /\ at[t] \in Blocked
    BY <1>8 DEF Resume
  <2>3. KernelOK' /\ WaitsOK'
    BY <1>1, <1>3, <2>1, <2>2, CallStepLemma
  <2>4. DataOK' /\ FreshOK' /\ NoIdleToken'
    BY <1>2, <1>3, <2>1, <2>2 DEF DataOK, FreshOK, NoIdleToken
  <2> QED
    BY <2>3, <2>4 DEF IInv
<1>9. CASE Destroy(t)
  <2>1. /\ at' = [at EXCEPT ![t] = "destroying"] /\ info' = info
        /\ made' = made /\ sem.valid /\ sem' = [sem EXCEPT !.valid = FALSE]
    BY <1>9 DEF Destroy
  <2>2. /\ sem' \in [valid : BOOLEAN, value : Int, waiters : Seq(AppTask)]
        /\ sem'.waiters = sem.waiters /\ sem'.value = sem.value
    BY <1>2, <2>1 DEF DataOK
  <2>3. KernelOK' /\ WaitsOK'
    BY <1>1, <1>3, <2>1, <2>2, CallStepLemma
  <2>4. DataOK' /\ FreshOK' /\ NoIdleToken'
    BY <1>2, <1>3, <2>1, <2>2 DEF DataOK, FreshOK, NoIdleToken
  <2> QED
    BY <2>3, <2>4 DEF IInv
<1> QED
  BY <1>4, <1>5, <1>6, <1>7, <1>8, <1>9

\* A task leaves the queue and is readied.
LEMMA DequeueLemma ==
  ASSUME NEW w, NEW v \in Seq(AppTask), NEW state \in [Task -> State],
         NEW timed \in [Task -> BOOLEAN], NEW call, NEW h \in AppTask,
         Queued(w, state, timed, call), Inj(v), ToSet(v) = ToSet(w) \ {h}
  PROVE  Queued(v, [state EXCEPT ![h] = "READY"], [timed EXCEPT ![h] = FALSE],
                call)
<1> DEFINE s == [state EXCEPT ![h] = "READY"]
           d == [timed EXCEPT ![h] = FALSE]
<1>1. s[h] = "READY" /\ ~d[h]
  BY AppTaskLemma
<1>2. \A u \in AppTask \ {h} : s[u] = state[u] /\ d[u] = timed[u]
  BY AppTaskLemma
<1> HIDE DEF s, d
<1>3. ToSet(v) = {u \in AppTask : s[u] = "LWSEM_BLOCKED"}
  BY <1>1, <1>2 DEF Queued
<1>4. ASSUME NEW u \in AppTask
      PROVE  /\ s[u] = "LWSEM_BLOCKED" => call[u] \in Blocked
             /\ call[u] \in Blocked =>
                  \/ s[u] = "LWSEM_BLOCKED"
                  \/ s[u] = "READY" /\ ~d[u]
  <2>1. CASE u = h
    BY <1>1, <2>1
  <2>2. CASE u # h
    BY <1>2, <2>2 DEF Queued
  <2> QED
    BY <2>1, <2>2
<1>5. Queued(v, s, d, call)
  BY <1>3, <1>4 DEF Queued
<1> QED
  BY <1>5 DEF s, d

LEMMA QueuedCallLemma ==
  ASSUME NEW w, NEW state, NEW timed, NEW call \in [AppTask -> At],
         NEW t \in AppTask, NEW a \in At \ Blocked,
         Queued(w, state, timed, call), state[t] # "LWSEM_BLOCKED"
  PROVE  Queued(w, state, timed, [call EXCEPT ![t] = a])
BY DEF Queued

\* The head of the queue, a task that is LWSEM_BLOCKED, is woken.
LEMMA WakeHeadLemma ==
  ASSUME IInv, sem.waiters # <<>>
  PROVE  LET h == Head(sem.waiters)
             d == Wake(k, h)
         IN  /\ h \in AppTask /\ k.state[h] = "LWSEM_BLOCKED"
             /\ Basic(d) /\ (~d.pend => IsReady(d, d.active))
             /\ d.active = k.active /\ d.pend = k.pend
             /\ d.isr = k.isr /\ d.ticking = k.ticking
             /\ d.state = [k.state EXCEPT ![h] = "READY"]
             /\ d.timed = [k.timed EXCEPT ![h] = FALSE]
             /\ Tail(sem.waiters) \in Seq(AppTask)
             /\ Queued(Tail(sem.waiters), d.state, d.timed, at)
<1> DEFINE h == Head(sem.waiters)
           d == Wake(k, h)
<1>1. /\ sem.waiters \in Seq(AppTask) /\ Inj(sem.waiters)
      /\ ToSet(sem.waiters) = {t \in AppTask : k.state[t] = "LWSEM_BLOCKED"}
      /\ Queued(sem.waiters, k.state, k.timed, at)
  BY DEF IInv, WaitsOK, Queued
<1>2. /\ h \in ToSet(sem.waiters) /\ Inj(Tail(sem.waiters))
      /\ ToSet(Tail(sem.waiters)) = ToSet(sem.waiters) \ {h}
  BY <1>1, AppTaskLemma, TailLemma
<1>3. h \in AppTask /\ k.state[h] = "LWSEM_BLOCKED" /\ h \in Task
  BY <1>1, <1>2, AppTaskLemma
<1>4. /\ k \in Kernel /\ Basic(k) /\ (~k.pend => IsReady(k, k.active))
      /\ k.state \in [Task -> State] /\ k.timed \in [Task -> BOOLEAN]
  BY DEF IInv, KernelOK, Basic, Kernel
<1>5. /\ Basic(d) /\ (~d.pend => IsReady(d, d.active))
      /\ d.state = [k.state EXCEPT ![h] = "READY"]
      /\ d.timed = [k.timed EXCEPT ![h] = FALSE]
      /\ d.active = k.active /\ d.pend = k.pend
      /\ d.isr = k.isr /\ d.ticking = k.ticking
  BY <1>3, <1>4, WakeLemma
<1>6. Tail(sem.waiters) \in Seq(AppTask)
  BY <1>1
<1> HIDE DEF h, d
<1>7. Queued(Tail(sem.waiters), d.state, d.timed, at)
  <2> DEFINE w == sem.waiters
             v == Tail(w)
  <2>1. /\ v \in Seq(AppTask) /\ Inj(v) /\ ToSet(v) = ToSet(w) \ {h}
        /\ Queued(w, k.state, k.timed, at)
    BY <1>1, <1>2, <1>6
  <2> HIDE DEF w, v
  <2>2. Queued(v, [k.state EXCEPT ![h] = "READY"],
               [k.timed EXCEPT ![h] = FALSE], at)
    BY <1>3, <1>4, <2>1, DequeueLemma
  <2> QED
    BY <1>5, <2>2 DEF w, v
<1> QED
  BY <1>3, <1>5, <1>6, <1>7 DEF h, d

\* A post in a task or in a handler; t is the task that posts.
LEMMA PostDataLemma ==
  ASSUME IInv, PostTo
  PROVE  /\ sem' \in [valid : BOOLEAN, value : Int, waiters : Seq(AppTask)]
         /\ info' \in [AppTask -> BOOLEAN] /\ NoIdleToken'
         /\ Queued(sem'.waiters, k'.state, k'.timed, at)
         /\ k'.ticking = k.ticking /\ k'.isr = k.isr
         /\ \A t \in Task : k.state[t] = "READY" => k'.state[t] = "READY"
<1>1. DataOK /\ NoIdleToken /\ k \in Kernel /\ WaitsOK
  BY DEF IInv, KernelOK, Basic
<1>2. ASSUME Wakes, k' = CheckRunScheduler(Wake(k, Head(sem.waiters))),
             sem' = [sem EXCEPT !.waiters = Tail(@)],
             info' = [info EXCEPT ![Head(sem.waiters)] = FALSE]
      PROVE  /\ sem' \in [valid : BOOLEAN, value : Int, waiters : Seq(AppTask)]
             /\ info' \in [AppTask -> BOOLEAN] /\ NoIdleToken'
             /\ Queued(sem'.waiters, k'.state, k'.timed, at)
             /\ k'.ticking = k.ticking /\ k'.isr = k.isr
             /\ \A t \in Task : k.state[t] = "READY" => k'.state[t] = "READY"
  <2> DEFINE h == Head(sem.waiters)
             d == Wake(k, h)
  <2>1. sem.waiters # <<>>
    BY <1>2 DEF Wakes
  <2>2. /\ h \in AppTask /\ Basic(d) /\ d.isr = k.isr /\ d.ticking = k.ticking
        /\ d.state = [k.state EXCEPT ![h] = "READY"]
        /\ Tail(sem.waiters) \in Seq(AppTask)
        /\ Queued(Tail(sem.waiters), d.state, d.timed, at)
    BY <2>1, WakeHeadLemma
  <2>3. k' = CheckRunScheduler(d)
    BY <1>2
  <2> HIDE DEF h, d
  <2>4. d \in Kernel
    BY <2>2 DEF Basic
  <2>5. /\ k'.state = d.state /\ k'.timed = d.timed /\ k'.isr = d.isr
        /\ k'.ticking = d.ticking
    BY <2>3, <2>4, DispatchEffect
  <2>6. /\ sem'.waiters = Tail(sem.waiters) /\ sem'.value = sem.value
        /\ sem' \in [valid : BOOLEAN, value : Int, waiters : Seq(AppTask)]
    BY <1>1, <1>2, <2>2 DEF DataOK
  <2>7. NoIdleToken'
    BY <1>1, <2>1, <2>6 DEF NoIdleToken
  <2>8. info' \in [AppTask -> BOOLEAN]
    BY <1>1, <1>2, <2>2 DEF DataOK, h
  <2>9. \A t \in Task : k.state[t] = "READY" => k'.state[t] = "READY"
    BY <1>1, <2>2, <2>5 DEF Kernel
  <2> QED
    BY <2>2, <2>5, <2>6, <2>7, <2>8, <2>9
<1>3. ASSUME ~Wakes, sem' = [sem EXCEPT !.value = @ + 1], k' = k, info' = info
      PROVE  /\ sem' \in [valid : BOOLEAN, value : Int, waiters : Seq(AppTask)]
             /\ info' \in [AppTask -> BOOLEAN] /\ NoIdleToken'
             /\ Queued(sem'.waiters, k'.state, k'.timed, at)
             /\ k'.ticking = k.ticking /\ k'.isr = k.isr
             /\ \A t \in Task : k.state[t] = "READY" => k'.state[t] = "READY"
  <2>1. /\ sem'.waiters = sem.waiters /\ sem'.value = sem.value + 1
        /\ sem' \in [valid : BOOLEAN, value : Int, waiters : Seq(AppTask)]
        /\ sem.value \in Int
    BY <1>1, <1>3 DEF DataOK
  <2>2. NoIdleToken'
    BY <1>3, <2>1 DEF NoIdleToken, Wakes
  <2> QED
    BY <1>1, <1>3, <2>1, <2>2 DEF DataOK, WaitsOK
<1> QED
  BY <1>2, <1>3 DEF PostTo

LEMMA PostLemma ==
  ASSUME IInv, NEW t \in AppTask, Post(t)
  PROVE  IInv'
<1>1. /\ Runs(k, t) /\ at[t] = "post" /\ PostTo /\ made' = made
      /\ at' = [at EXCEPT ![t] = "none"]
  BY DEF Post
<1>2. /\ k \in Kernel /\ Basic(k) /\ IsReady(k, t) /\ t \in Task
      /\ k.active = t /\ k.isr = 0 /\ ~k.pend /\ k.state[t] = "READY"
      /\ at \in [AppTask -> At] /\ DataOK /\ FreshOK
  BY <1>1, RunsLemma DEF IInv, DataOK
<1>3. /\ sem' \in [valid : BOOLEAN, value : Int, waiters : Seq(AppTask)]
      /\ info' \in [AppTask -> BOOLEAN] /\ NoIdleToken'
      /\ Queued(sem'.waiters, k'.state, k'.timed, at)
      /\ k'.ticking = k.ticking
      /\ k'.state[t] = "READY"
  BY <1>1, <1>2, PostDataLemma
<1>4. "none" \in At \ Blocked /\ "none" \in At \ {"destroying"}
  BY DEF At, Outcome, Blocked
<1>5. WaitsOK'
  BY <1>1, <1>2, <1>3, <1>4, QueuedCallLemma DEF WaitsOK
<1>6. Basic(k') /\ Settled(k')
  <2>1. Settled(k)
    BY <1>1, <1>2, RunsLemma DEF IInv, KernelOK, Destroying
  <2>2. CASE Wakes
    <3> DEFINE d == Wake(k, Head(sem.waiters))
    <3>1. Basic(d) /\ (~d.pend => IsReady(d, d.active)) /\ d.isr = 0
      BY <1>2, <2>2, WakeHeadLemma DEF Wakes
    <3>2. k' = CheckRunScheduler(d)
      BY <1>1, <2>2 DEF PostTo
    <3> HIDE DEF d
    <3> QED
      BY <3>1, <3>2, CheckRunSchedulerLemma DEF Basic
  <2>3. CASE ~Wakes
    BY <1>1, <1>2, <2>1, <2>3 DEF PostTo
  <2> QED
    BY <2>2, <2>3
<1>7. KernelOK'
  BY <1>1, <1>3, <1>4, <1>6, SwitchedLemma
<1>8. DataOK' /\ FreshOK'
  BY <1>1, <1>2, <1>3, <1>4 DEF DataOK, FreshOK, Outcome
<1> QED
  BY <1>3, <1>5, <1>7, <1>8 DEF IInv

LEMMA SleepLemma ==
  ASSUME IInv, NEW t \in AppTask, NEW n \in Delays, Sleep(t, n)
  PROVE  IInv'
<1> DEFINE d == Delay(k, t, n)
<1>1. /\ Runs(k, t) /\ at[t] \in Outcome /\ k' = Dispatch(d)
      /\ sem' = sem /\ at' = at /\ info' = info /\ made' = made
  BY DEF Sleep
<1>2. /\ k \in Kernel /\ Basic(k) /\ IsReady(k, t) /\ t \in Task
      /\ k.state[t] = "READY" /\ n \in Int
  BY <1>1, RunsLemma, LwSemAssumption
<1>3. d \in Kernel /\ Basic(d)
  BY <1>2, DelayLemma
<1>4. /\ d.state = k.state /\ d.timed = [k.timed EXCEPT ![t] = TRUE]
      /\ d.ticking = k.ticking
  BY <1>2, DelayEffect
<1> HIDE DEF d
<1>5. /\ k'.state = k.state /\ k'.timed = [k.timed EXCEPT ![t] = TRUE]
      /\ k'.ticking = k.ticking
  BY <1>1, <1>3, <1>4, DispatchEffect
<1>6. Basic(k') /\ Settled(k')
  BY <1>1, <1>3, DispatchLemma
<1>7. at' = [at EXCEPT ![t] = at[t]] /\ at[t] \in At \ {"destroying"}
      /\ at[t] \notin Blocked
  BY <1>1 DEF IInv, DataOK, At, Outcome, Blocked
<1>8. KernelOK'
  BY <1>1, <1>5, <1>6, <1>7, SwitchedLemma, Zenon DEF Outcome
<1>9. WaitsOK'
  <2>1. Queued(sem.waiters, k.state, k.timed, at)
    BY DEF IInv, WaitsOK
  <2>2. \A u \in Task \ {t} : k'.timed[u] = k.timed[u]
    BY <1>2, <1>5 DEF Kernel
  <2>3. Queued(sem.waiters, k.state, k'.timed, at)
    BY <1>7, <2>1, <2>2, AppTaskLemma DEF Queued
  <2> QED
    BY <1>1, <1>5, <2>3 DEF WaitsOK
<1>10. DataOK' /\ FreshOK' /\ NoIdleToken'
  BY <1>1 DEF IInv, DataOK, FreshOK, NoIdleToken
<1> QED
  BY <1>8, <1>9, <1>10 DEF IInv

\* The loop of _lwsem_destroy and its end.
LEMMA DestroyLoopLemma ==
  ASSUME IInv, NEW t \in AppTask, DestroyNext(t) \/ DestroyEnd(t)
  PROVE  IInv'
<1>1. at[t] = "destroying" /\ info' = info /\ made' = made
  BY DEF DestroyNext, DestroyEnd
<1>2. Runs(k, t)
  BY <1>1 DEF IInv, KernelOK
<1>3. /\ k \in Kernel /\ Basic(k) /\ IsReady(k, t) /\ t \in Task
      /\ k.active = t /\ k.isr = 0 /\ ~k.pend /\ k.state[t] = "READY"
      /\ at \in [AppTask -> At] /\ DataOK /\ WaitsOK
      /\ \A u \in AppTask : at[u] = "destroying" => u = t
  BY <1>2, RunsLemma DEF IInv, DataOK
<1>4. made # 0
  BY <1>1 DEF IInv, FreshOK, Outcome
<1>5. CASE DestroyNext(t)
  <2> DEFINE h == Head(sem.waiters)
             d == Wake(k, h)
  <2>1. /\ k' = d /\ at' = at /\ sem' = [sem EXCEPT !.waiters = Tail(@)]
        /\ sem.waiters # <<>>
    BY <1>5 DEF DestroyNext
  <2>2. /\ h \in AppTask /\ Basic(d) /\ (~d.pend => IsReady(d, d.active))
        /\ d.active = k.active /\ d.pend = k.pend
        /\ d.isr = k.isr /\ d.ticking = k.ticking
        /\ Tail(sem.waiters) \in Seq(AppTask)
        /\ Queued(Tail(sem.waiters), d.state, d.timed, at)
    BY <2>1, WakeHeadLemma
  <2>3. /\ sem' \in [valid : BOOLEAN, value : Int, waiters : Seq(AppTask)]
        /\ sem'.waiters = Tail(sem.waiters) /\ sem'.value = sem.value
    BY <1>3, <2>1, <2>2 DEF DataOK
  <2> HIDE DEF d, h
  <2>4. WaitsOK'
    BY <2>1, <2>2, <2>3 DEF WaitsOK
  <2>5. KernelOK'
    <3>1. Runs(k', t) /\ Destroying'
      BY <1>1, <1>3, <2>1, <2>2 DEF Runs, Destroying
    <3>2. Basic(k') /\ (~k'.pend => IsReady(k', k'.active))
          /\ (k'.ticking => k'.isr > 0)
      BY <2>1, <2>2 DEF IInv, KernelOK
    <3> QED
      BY <1>3, <2>1, <3>1, <3>2
      DEF KernelOK, Basic, Agree, NoneAbove, IsReady, Runs
  <2>6. DataOK' /\ FreshOK' /\ NoIdleToken'
    BY <1>1, <1>3, <1>4, <2>1, <2>3
    DEF IInv, DataOK, FreshOK, NoIdleToken
  <2> QED
    BY <2>4, <2>5, <2>6 DEF IInv
<1>6. CASE DestroyEnd(t)
  <2>1. /\ k' = PendScheduler(k) /\ sem' = sem
        /\ at' = [at EXCEPT ![t] = "none"]
    BY <1>6 DEF DestroyEnd
  <2>2. Basic(k') /\ Settled(k')
    BY <1>3, <2>1, PendSchedulerLemma
  <2>3. /\ k'.state = k.state /\ k'.timed = k.timed
        /\ k'.ticking = k.ticking /\ k'.isr = k.isr
    BY <1>3, <2>1, IsrEffect
  <2>4. "none" \in At \ Blocked /\ "none" \in Outcome
    BY DEF At, Outcome, Blocked
  <2>5. WaitsOK'
    BY <1>3, <2>1, <2>3, <2>4, QueuedCallLemma DEF WaitsOK
  <2>6. KernelOK'
    <3>1. \A u \in AppTask : at'[u] # "destroying"
      BY <1>3, <2>1
    <3>2. k'.ticking => k'.isr > 0
      BY <2>3 DEF IInv, KernelOK
    <3> QED
      BY <2>2, <3>1, <3>2
      DEF KernelOK, Basic, Settled, Agree, NoneAbove, IsReady
  <2>7. DataOK' /\ FreshOK' /\ NoIdleToken'
    BY <1>1, <1>3, <1>4, <2>1, <2>4
    DEF IInv, DataOK, FreshOK, NoIdleToken
  <2> QED
    BY <2>5, <2>6, <2>7 DEF IInv
<1> QED
  BY <1>5, <1>6

LEMMA TaskStepLemma ==
  ASSUME CreatedOnce, IInv, NEW t \in AppTask, TaskStep(t)
  PROVE  IInv'
BY CallLemma, WaitLemma, PostLemma, SleepLemma, DestroyLoopLemma DEF TaskStep

\* Handlers, ticks and PendSV run while no task is inside _lwsem_destroy.
LEMMA CalmLemma ==
  ASSUME IInv, ~Masked \/ k.isr > 0 \/ k.pend
  PROVE  /\ k \in Kernel /\ Basic(k) /\ Settled(k)
         /\ (k.ticking => k.isr > 0)
         /\ \A t \in AppTask : at[t] # "destroying"
<1>1. \A t \in AppTask : at[t] # "destroying"
  BY DEF IInv, KernelOK, Masked, Runs, Basic, Kernel
<1> QED
  BY <1>1 DEF IInv, KernelOK, Destroying, Basic

LEMMA CalmStepLemma ==
  ASSUME \A t \in AppTask : at[t] # "destroying", at' = at,
         Basic(k'), Settled(k'), k'.ticking => k'.isr > 0
  PROVE  KernelOK'
BY DEF KernelOK, Basic, Settled, Agree, NoneAbove, IsReady

\* A step of the kernel that moves no task.
LEMMA KernelStepLemma ==
  ASSUME IInv, \A t \in AppTask : at[t] # "destroying",
         at' = at, sem' = sem, info' = info, made' = made,
         Basic(k'), Settled(k'), k'.ticking => k'.isr > 0,
         k'.state = k.state, k'.timed = k.timed
  PROVE  IInv'
<1>1. KernelOK'
  BY CalmStepLemma
<1>2. DataOK' /\ WaitsOK' /\ FreshOK' /\ NoIdleToken'
  BY DEF IInv, DataOK, WaitsOK, FreshOK, NoIdleToken
<1> QED
  BY <1>1, <1>2 DEF IInv

LEMMA HandlerLemma ==
  ASSUME IInv, HandlerPost \/ HandlerPoll
  PROVE  IInv'
<1>1. k.isr > 0 /\ sem.valid /\ at' = at /\ made' = made
  BY DEF HandlerPost, HandlerPoll
<1>2. /\ k \in Kernel /\ Basic(k) /\ Settled(k) /\ (k.ticking => k.isr > 0)
      /\ \A t \in AppTask : at[t] # "destroying"
      /\ DataOK /\ FreshOK /\ WaitsOK /\ NoIdleToken
  BY <1>1, CalmLemma DEF IInv
<1>3. CASE HandlerPost
  <2>1. PostTo
    BY <1>3 DEF HandlerPost
  <2>2. /\ sem' \in [valid : BOOLEAN, value : Int, waiters : Seq(AppTask)]
        /\ info' \in [AppTask -> BOOLEAN] /\ NoIdleToken'
        /\ Queued(sem'.waiters, k'.state, k'.timed, at)
        /\ k'.ticking = k.ticking /\ k'.isr = k.isr
    BY <2>1, PostDataLemma
  <2>3. Basic(k') /\ Settled(k')
    <3>1. CASE Wakes
      <4> DEFINE d == Wake(k, Head(sem.waiters))
      <4>1. /\ Basic(d) /\ (~d.pend => IsReady(d, d.active)) /\ d.isr = k.isr
        BY <3>1, WakeHeadLemma DEF Wakes
      <4>2. k' = CheckRunScheduler(d)
        BY <2>1, <3>1 DEF PostTo
      <4> HIDE DEF d
      <4>3. k' = d
        BY <1>1, <1>2, <4>1, <4>2 DEF CheckRunScheduler, NeedsSwitch, Kernel
      <4> QED
        BY <1>1, <1>2, <4>1, <4>3 DEF Settled, Kernel
    <3>2. CASE ~Wakes
      BY <1>2, <2>1, <3>2 DEF PostTo
    <3> QED
      BY <3>1, <3>2
  <2>4. KernelOK'
    BY <1>1, <1>2, <2>2, <2>3, CalmStepLemma
  <2>5. DataOK' /\ WaitsOK' /\ FreshOK'
    BY <1>1, <1>2, <2>2 DEF DataOK, WaitsOK, FreshOK
  <2> QED
    BY <2>2, <2>4, <2>5 DEF IInv
<1>4. CASE HandlerPoll
  <2>1. /\ k' = k /\ info' = info
        /\ sem' = [sem EXCEPT !.value = @ - 1]
    BY <1>4 DEF HandlerPoll, TakeToken
  <2>2. /\ sem' \in [valid : BOOLEAN, value : Int, waiters : Seq(AppTask)]
        /\ sem'.waiters = sem.waiters /\ sem'.value = sem.value - 1
    BY <1>2, <2>1 DEF DataOK
  <2>3. KernelOK'
    BY <1>1, <1>2, <2>1, CalmStepLemma
  <2>4. DataOK' /\ WaitsOK' /\ FreshOK' /\ NoIdleToken'
    BY <1>1, <1>2, <2>1, <2>2 DEF DataOK, WaitsOK, FreshOK, NoIdleToken
  <2> QED
    BY <2>3, <2>4 DEF IInv
<1> QED
  BY <1>3, <1>4

\* The tick wakes a delayed task; one that waits leaves the queue with it.
LEMMA WakeDueLemma ==
  ASSUME IInv, WakeDue
  PROVE  IInv'
<1> DEFINE h == Head(k.timeouts)
           w == sem.waiters
<1>1. /\ k.ticking /\ k.timeouts # <<>> /\ k' = TickWake(k)
      /\ sem' = IF k.state[h] = "LWSEM_BLOCKED"
                THEN [sem EXCEPT !.waiters = Without(@, h)] ELSE sem
      /\ at' = at /\ info' = info /\ made' = made
  BY DEF WakeDue, Due
<1>2. k.isr > 0
  BY <1>1 DEF IInv, KernelOK
<1>3. /\ k \in Kernel /\ Basic(k) /\ Settled(k)
      /\ \A t \in AppTask : at[t] # "destroying"
      /\ DataOK /\ FreshOK /\ NoIdleToken
      /\ Queued(w, k.state, k.timed, at)
  BY <1>2, CalmLemma DEF IInv, WaitsOK
<1>4. Basic(k') /\ Settled(k')
  BY <1>1, <1>2, <1>3, TickWakeLemma
<1>5. /\ h \in AppTask /\ k.timed[h]
      /\ k'.state = [k.state EXCEPT ![h] = "READY"]
      /\ k'.timed = [k.timed EXCEPT ![h] = FALSE]
      /\ k'.isr = k.isr /\ k'.ticking = k.ticking
  BY <1>1, <1>3, TickWakeEffect
<1> HIDE DEF h
<1>6. KernelOK'
  BY <1>1, <1>2, <1>3, <1>4, <1>5, CalmStepLemma
<1> DEFINE v == IF k.state[h] = "LWSEM_BLOCKED" THEN Without(w, h) ELSE w
<1>7. v \in Seq(AppTask) /\ Inj(v) /\ ToSet(v) = ToSet(w) \ {h}
  <2>1. /\ w \in Seq(AppTask) /\ w \in Seq(Task) /\ Inj(w)
        /\ ToSet(w) = {t \in AppTask : k.state[t] = "LWSEM_BLOCKED"}
    BY <1>3, AppTaskLemma DEF Queued
  <2>2. CASE k.state[h] = "LWSEM_BLOCKED"
    <3>1. h \in ToSet(w)
      BY <1>5, <2>1, <2>2
    <3>2. /\ Without(w, h) \in Seq(Task) /\ Inj(Without(w, h))
          /\ ToSet(Without(w, h)) = ToSet(w) \ {h}
      BY <2>1, <3>1, WithoutLemma
    <3> QED
      BY <2>1, <2>2, <3>2, AppSeqLemma
  <2>3. CASE k.state[h] # "LWSEM_BLOCKED"
    BY <2>1, <2>3
  <2> QED
    BY <2>2, <2>3
<1>8. sem' \in [valid : BOOLEAN, value : Int, waiters : Seq(AppTask)]
      /\ sem'.waiters = v /\ sem'.value = sem.value /\ sem'.valid = sem.valid
  BY <1>1, <1>3, <1>7 DEF DataOK
<1>9. NoIdleToken'
  <2>1. w = <<>> => v = <<>>
    <3> SUFFICES ASSUME w = <<>> PROVE v = <<>>
      OBVIOUS
    <3>1. ToSet(w) = {}
      BY DEF ToSet
    <3>2. ToSet(w) = {t \in AppTask : k.state[t] = "LWSEM_BLOCKED"}
      BY <1>3 DEF Queued
    <3> QED
      BY <1>5, <3>1, <3>2
  <2> QED
    BY <1>3, <1>8, <2>1 DEF NoIdleToken
<1>10. made # 0 \/ w = <<>>
  BY <1>3 DEF FreshOK
<1>11. FreshOK'
  <2>1. ASSUME made = 0
        PROVE  k.state[h] # "LWSEM_BLOCKED"
    BY <1>3, <1>5, <2>1 DEF FreshOK, Queued, Outcome, Blocked
  <2> QED
    BY <1>1, <1>3, <1>8, <2>1 DEF FreshOK
<1> HIDE DEF v, w
<1>12. WaitsOK'
  <2>1. k.state \in [Task -> State] /\ k.timed \in [Task -> BOOLEAN]
    BY <1>3 DEF Kernel
  <2>2. Queued(v, [k.state EXCEPT ![h] = "READY"],
               [k.timed EXCEPT ![h] = FALSE], at)
    BY <1>3, <1>5, <1>7, <2>1, DequeueLemma
  <2> QED
    BY <1>1, <1>5, <1>8, <2>2 DEF WaitsOK
<1>13. DataOK'
  BY <1>1, <1>3, <1>8 DEF DataOK
<1> QED
  BY <1>6, <1>9, <1>11, <1>12, <1>13 DEF IInv

LEMMA IsrStepLemma ==
  ASSUME IInv, IsrStep
  PROVE  IInv'
<1>1. CASE EnterIsr
  <2>1. /\ ~Masked /\ ~k.ticking /\ k' = IsrEntry(k) /\ sem' = sem
        /\ at' = at /\ info' = info /\ made' = made
    BY <1>1 DEF EnterIsr
  <2>2. /\ k \in Kernel /\ Basic(k) /\ Settled(k)
        /\ \A t \in AppTask : at[t] # "destroying"
    BY <2>1, CalmLemma
  <2>3. /\ Basic(k') /\ Settled(k') /\ k'.state = k.state
        /\ k'.timed = k.timed /\ k'.ticking = k.ticking
    BY <2>1, <2>2, IsrEntryLemma
  <2> QED
    BY <2>1, <2>2, <2>3, KernelStepLemma
<1>2. CASE ReturnFromIsr
  <2>1. /\ k.isr > 0 /\ ~k.ticking /\ k' = IsrReturn(k) /\ sem' = sem
        /\ at' = at /\ info' = info /\ made' = made
    BY <1>2 DEF ReturnFromIsr
  <2>2. /\ k \in Kernel /\ Basic(k) /\ Settled(k)
        /\ \A t \in AppTask : at[t] # "destroying"
    BY <2>1, CalmLemma
  <2>3. /\ Basic(k') /\ Settled(k') /\ k'.state = k.state
        /\ k'.timed = k.timed /\ k'.ticking = k.ticking
    BY <2>1, <2>2, IsrReturnLemma, IsrEffect
  <2> QED
    BY <2>1, <2>2, <2>3, KernelStepLemma
<1>3. CASE HandlerPost \/ HandlerPoll
  BY <1>3, HandlerLemma
<1>4. CASE Tick
  <2>1. /\ k.isr > 0 /\ k' = TickStart(k) /\ sem' = sem
        /\ at' = at /\ info' = info /\ made' = made
    BY <1>4 DEF Tick
  <2>2. /\ k \in Kernel /\ Basic(k) /\ Settled(k)
        /\ \A t \in AppTask : at[t] # "destroying"
    BY <2>1, CalmLemma
  <2>3. /\ Basic(k') /\ Settled(k') /\ k'.state = k.state
        /\ k'.timed = k.timed /\ k'.isr = k.isr
    BY <2>1, <2>2, TickStartLemma, IsrEffect
  <2> QED
    BY <2>1, <2>2, <2>3, KernelStepLemma
<1>5. CASE WakeDue
  BY <1>5, WakeDueLemma
<1>6. CASE TickReturn
  <2>1. /\ k.ticking /\ k' = TickEnd(k) /\ sem' = sem
        /\ at' = at /\ info' = info /\ made' = made
    BY <1>6 DEF TickReturn
  <2>2. k.isr > 0
    BY <2>1 DEF IInv, KernelOK
  <2>3. /\ k \in Kernel /\ Basic(k) /\ Settled(k)
        /\ \A t \in AppTask : at[t] # "destroying"
    BY <2>2, CalmLemma
  <2>4. /\ Basic(k') /\ Settled(k') /\ k'.state = k.state
        /\ k'.timed = k.timed /\ ~k'.ticking
    BY <2>1, <2>3, TickEndLemma
  <2> QED
    BY <2>1, <2>3, <2>4, KernelStepLemma
<1> QED
  BY <1>1, <1>2, <1>3, <1>4, <1>5, <1>6 DEF IsrStep

LEMMA PendSVLemma ==
  ASSUME IInv, PendSV
  PROVE  IInv'
<1>1. /\ k.pend /\ k' = Dispatch(k) /\ sem' = sem
      /\ at' = at /\ info' = info /\ made' = made
  BY DEF PendSV
<1>2. /\ k \in Kernel /\ Basic(k) /\ (k.ticking => k.isr > 0)
      /\ \A t \in AppTask : at[t] # "destroying"
  BY <1>1, CalmLemma
<1>3. /\ k'.state = k.state /\ k'.timed = k.timed
      /\ k'.isr = k.isr /\ k'.ticking = k.ticking
  BY <1>1, <1>2, DispatchEffect
<1> QED
  BY <1>1, <1>2, <1>3, DispatchLemma, KernelStepLemma

\* The kernel with every task ready, as _mqx leaves it.
LEMMA StartLemma ==
  LET d == StartKernel(HomePriority, AutoQueues)
  IN  /\ Basic(d) /\ Settled(d) /\ d.state = [t \in Task |-> "READY"]
      /\ d.timed = [t \in Task |-> FALSE] /\ d.ticking = FALSE
<1> DEFINE all == [t \in Task |-> "READY"]
           b == [InitKernel(HomePriority) EXCEPT
                   !.ready = AutoQueues, !.state = all, !.current = 0]
<1>1. /\ HomePriority \in [Task -> Prio] /\ AutoQueues \in [Prio -> Seq(Task)]
      /\ Idle \in Task /\ LowestTaskPriority \in Nat
      /\ all \in [Task -> State]
  BY KernelAssumption, LwSemAssumption DEF State
<1>2. 0 \in Prio /\ Prio \subseteq Nat
  BY <1>1 DEF Prio
<1>3. InitKernel(HomePriority) \in Kernel
  BY <1>1 DEF InitKernel, Kernel, State
<1>4. /\ b \in Kernel /\ b.ready = AutoQueues /\ b.my = HomePriority
      /\ b.state = all /\ b.timeouts = <<>> /\ b.current = 0
      /\ b.timed = [t \in Task |-> FALSE] /\ b.ticking = FALSE
  <2>1. /\ InitKernel(HomePriority).my = HomePriority
        /\ InitKernel(HomePriority).timeouts = <<>>
        /\ InitKernel(HomePriority).timed = [t \in Task |-> FALSE]
        /\ InitKernel(HomePriority).ticking = FALSE
    BY DEF InitKernel
  <2> HIDE DEF all
  <2> QED
    BY <1>1, <1>2, <1>3, <2>1 DEF Kernel
<1> HIDE DEF b
<1>5. \A t \in Task : IsReady(b, t) /\ ~b.timed[t]
  BY <1>4 DEF IsReady
<1>6. Agree(b, {})
  <2>1. \A p \in Prio : /\ Inj(AutoQueues[p])
                        /\ ToSet(AutoQueues[p]) = {t \in Task : HomePriority[t] = p}
    BY <1>1, LwSemAssumption DEF Inj, IsInjective
  <2>2. Inj(<<>>) /\ ToSet(<<>>) = {}
    BY DEF Inj, ToSet
  <2> QED
    BY <1>4, <1>5, <2>1, <2>2 DEF Agree
<1>7. NoneAbove(b)
  BY <1>2, <1>4 DEF NoneAbove
<1>8. Basic(b)
  BY <1>1, <1>4, <1>5, <1>6, <1>7 DEF Basic
<1> QED
  BY <1>4, <1>8, DispatchLemma, DispatchEffect DEF StartKernel, b

LEMMA InitLemma == Init => IInv
<1> SUFFICES ASSUME Init PROVE IInv
  OBVIOUS
<1>1. /\ Basic(k) /\ Settled(k) /\ k.state = [t \in Task |-> "READY"]
      /\ k.timed = [t \in Task |-> FALSE] /\ k.ticking = FALSE
  BY StartLemma DEF Init
<1>2. /\ sem = [valid |-> FALSE, value |-> 0, waiters |-> <<>>]
      /\ at = [t \in AppTask |-> "none"] /\ made = 0
      /\ info = [t \in AppTask |-> FALSE]
  BY DEF Init
<1>3. DataOK
  BY <1>2, LwSemAssumption DEF DataOK, At, Outcome
<1>4. KernelOK
  BY <1>1, <1>2 DEF KernelOK, Settled
<1>5. WaitsOK
  <2>1. Inj(<<>>) /\ ToSet(<<>>) = {}
    BY DEF Inj, ToSet
  <2>2. \A t \in AppTask : k.state[t] = "READY" /\ at[t] \notin Blocked
    BY <1>1, <1>2, AppTaskLemma DEF Blocked
  <2> QED
    BY <1>2, <2>1, <2>2 DEF WaitsOK, Queued
<1>6. FreshOK /\ NoIdleToken
  BY <1>2 DEF FreshOK, NoIdleToken, Outcome
<1> QED
  BY <1>3, <1>4, <1>5, <1>6 DEF IInv

\* The invariant the properties below follow from.
LEMMA Inductive == ASSUME CreatedOnce PROVE Spec => []IInv
<1>1. Init => IInv
  BY InitLemma
<1>2. IInv /\ [Next]_vars => IInv'
  <2> SUFFICES ASSUME IInv, [Next]_vars PROVE IInv'
    OBVIOUS
  <2>1. CASE UNCHANGED vars
    BY <2>1 DEF vars, IInv, DataOK, KernelOK, WaitsOK, FreshOK, NoIdleToken,
       Queued, Basic, Settled, Agree, NoneAbove, IsReady, Runs, Destroying
  <2>2. CASE Next
    BY <2>2, TaskStepLemma, IsrStepLemma, PendSVLemma DEF Next
  <2> QED
    BY <2>1, <2>2
<1> QED
  BY <1>1, <1>2, PTL DEF Spec

\* Every step leaves well-typed values behind.
THEOREM TypeCorrect == ASSUME CreatedOnce PROVE Spec => []TypeOK
<1>1. IInv => TypeOK
  BY DEF IInv, DataOK, KernelOK, Basic, TypeOK
<1> QED
  BY <1>1, Inductive, PTL

\* A task is on the semaphore's queue exactly while it is LWSEM_BLOCKED, and
\* these queues, the ready queues and TIMEOUT_QUEUE never contradict TD.STATE.
THEOREM QueueAndTasksAgree == ASSUME CreatedOnce PROVE Spec => []WaitersAgree
<1>1. IInv => WaitersAgree
  <2> SUFFICES ASSUME IInv PROVE WaitersAgree
    OBVIOUS
  <2>1. /\ k \in Kernel /\ Agree(k, {}) /\ NoneAbove(k)
        /\ Queued(sem.waiters, k.state, k.timed, at)
    BY DEF IInv, KernelOK, Basic, WaitsOK
  <2>2. QueuesAgree(k)
    BY <2>1, AgreeLemma
  <2>3. IsInjective(sem.waiters)
    BY <2>1 DEF Queued, Inj, IsInjective
  <2> QED
    BY <2>1, <2>2, <2>3 DEF Queued, WaitersAgree, IsReady
<1> QED
  BY <1>1, Inductive, PTL

\* A post that found no waiter and a wait that found no token cannot pass
\* each other, whoever preempts whom between the check of VALID and the rest
\* of a call.
THEOREM NoTokenIdles == ASSUME CreatedOnce PROVE Spec => []NoIdleToken
<1>1. IInv => NoIdleToken
  BY DEF IInv
<1> QED
  BY <1>1, Inductive, PTL

-----------------------------------------------------------------------------
(* The semaphore implements module Semaphore: every step of its calls, of   *)
(* the handlers and of the kernel is a step of the abstract semaphore or    *)
(* leaves it as it was.                                                     *)

\* Why a wait that is not on the queue any more came off it: INFO is still
\* set when nobody posted to it, so either its time was up, and then it had
\* a timeout, or the semaphore is gone.
Reason(t) ==
  /\ k.state[t] = "LWSEM_BLOCKED" => info[t]
  /\ at[t] = "blocked" =>
       /\ ~k.timed[t]
       /\ info[t] /\ k.state[t] # "LWSEM_BLOCKED" => ~sem.valid
ReasonsOK ==
  /\ \A t \in AppTask : Reason(t)
  /\ Destroying => ~sem.valid

RInv == IInv /\ ReasonsOK

-----------------------------------------------------------------------------
LEMMA CallSeenLemma ==
  ASSUME NEW b \in BOOLEAN, NEW i \in BOOLEAN
  PROVE  /\ \A p \in Outcome : CallSeen(p, b, i) = p
         /\ \A p \in Checked \cup {"destroying"} : CallSeen(p, b, i) = "none"
         /\ \A p \in Blocked : CallSeen(p, b, i) =
              IF b THEN "waiting" ELSE IF i THEN "left" ELSE "granted"
BY DEF CallSeen, Outcome, Checked, Blocked

\* Changing the place of one task, with nothing else to see.
LEMMA SettleLemma ==
  ASSUME NEW t \in AppTask, NEW out, AbstractCall'[t] = out,
         \A u \in AppTask \ {t} : AbstractCall'[u] = AbstractCall[u]
  PROVE  AbstractCall' = [AbstractCall EXCEPT ![t] = out]
BY DEF AbstractCall

LEMMA StutterLemma ==
  ASSUME \A u \in AppTask : AbstractCall'[u] = AbstractCall[u]
  PROVE  AbstractCall' = AbstractCall
BY DEF AbstractCall

\* A step of a task t outside the loop of _lwsem_destroy.
LEMMA OutsideDestroyLemma ==
  ASSUME IInv, NEW t \in AppTask, Runs(k, t), at[t] # "destroying"
  PROVE  /\ ~Destroying /\ AbstractQueue = sem.waiters
         /\ k.state[t] = "READY" /\ ~k.timed[t]
         /\ at \in [AppTask -> At] /\ info \in [AppTask -> BOOLEAN]
         /\ \A a \in At \ {"destroying"} :
              at' = [at EXCEPT ![t] = a] =>
                ~Destroying' /\ AbstractQueue' = sem'.waiters
<1>1. \A u \in AppTask : at[u] = "destroying" => u = t
  BY RunsLemma
<1>2. k.state[t] = "READY" /\ ~k.timed[t]
  BY RunsLemma
<1>3. at \in [AppTask -> At] /\ info \in [AppTask -> BOOLEAN]
  BY DEF IInv, DataOK
<1>4. ~Destroying /\ AbstractQueue = sem.waiters
  BY <1>1 DEF Destroying, AbstractQueue
<1>5. ASSUME NEW a \in At \ {"destroying"}, at' = [at EXCEPT ![t] = a]
      PROVE  ~Destroying' /\ AbstractQueue' = sem'.waiters
  <2>1. \A u \in AppTask : at'[u] # "destroying"
    BY <1>1, <1>3, <1>5
  <2> QED
    BY <2>1 DEF Destroying, AbstractQueue
<1> QED
  BY <1>2, <1>3, <1>4, <1>5

\* A step of t that changes only its own place and the semaphore's token.
LEMMA PlaceLemma ==
  ASSUME RInv, NEW t \in AppTask, Runs(k, t), at[t] # "destroying",
         NEW a \in Outcome \cup Checked, at' = [at EXCEPT ![t] = a],
         k' = k, info' = info, sem'.valid = sem.valid,
         sem'.waiters = sem.waiters
  PROVE  /\ ReasonsOK'
         /\ AbstractQueue' = AbstractQueue
         /\ AbstractCall' =
              [AbstractCall EXCEPT ![t] = IF a \in Outcome THEN a ELSE "none"]
<1>1. /\ a \in At \ {"destroying"} /\ a \notin Blocked
      /\ a \in Outcome => a \notin Checked
  BY DEF At, Outcome, Checked, Blocked
<1>2. /\ ~Destroying /\ AbstractQueue = sem.waiters
      /\ at \in [AppTask -> At] /\ info \in [AppTask -> BOOLEAN]
      /\ k.state[t] = "READY"
      /\ ~Destroying' /\ AbstractQueue' = sem'.waiters
  BY <1>1, OutsideDestroyLemma DEF RInv
<1>3. AbstractCall'[t] = IF a \in Outcome THEN a ELSE "none"
  <2> DEFINE b == k'.state[t] = "LWSEM_BLOCKED" /\ ~Destroying'
  <2>1. AbstractCall'[t] = CallSeen(a, b, info[t])
    BY <1>2 DEF AbstractCall
  <2>2. b \in BOOLEAN /\ info[t] \in BOOLEAN
    BY <1>2
  <2> HIDE DEF b
  <2>3. a \in Outcome \/ (a \in Checked /\ a \notin Outcome)
    BY <1>1
  <2> QED
    BY <2>1, <2>2, <2>3, CallSeenLemma
<1>4. \A u \in AppTask \ {t} : AbstractCall'[u] = AbstractCall[u]
  BY <1>2 DEF AbstractCall
<1>5. ReasonsOK'
  <2>1. ASSUME NEW u \in AppTask PROVE Reason(u)'
    <3>1. Reason(u)
      BY DEF RInv, ReasonsOK
    <3>2. CASE u = t
      BY <1>1, <1>2, <3>1, <3>2 DEF Reason, Blocked
    <3>3. CASE u # t
      BY <1>2, <3>1, <3>3 DEF Reason
    <3> QED
      BY <3>2, <3>3
  <2> QED
    BY <1>2, <2>1 DEF ReasonsOK
<1> QED
  BY <1>2, <1>3, <1>4, <1>5, SettleLemma

\* What the abstract semaphore sees of the active task.
LEMMA SeenLemma ==
  ASSUME IInv, NEW t \in AppTask, Runs(k, t), at[t] # "destroying"
  PROVE  /\ at[t] \in Outcome => AbstractCall[t] = at[t]
         /\ at[t] \in Checked => AbstractCall[t] = "none"
         /\ at[t] \in Blocked =>
              AbstractCall[t] = IF info[t] THEN "left" ELSE "granted"
<1>1. /\ ~Destroying /\ info \in [AppTask -> BOOLEAN] /\ k.state[t] = "READY"
  BY OutsideDestroyLemma
<1> DEFINE b == k.state[t] = "LWSEM_BLOCKED" /\ ~Destroying
<1>2. AbstractCall[t] = CallSeen(at[t], b, info[t])
  BY DEF AbstractCall
<1>3. b \in BOOLEAN /\ info[t] \in BOOLEAN /\ ~b
  BY <1>1
<1> HIDE DEF b
<1> QED
  BY <1>2, <1>3, CallSeenLemma

AbstractStep == [Abstract!Next]_(Abstract!vars)

LEMMA CallRefines ==
  ASSUME CreatedOnce, RInv, NEW t \in AppTask,
         \/ \E v \in InitialValues : Create(t, v)
         \/ \E op \in Checked : Check(t, op)
         \/ Poll(t) \/ Acquire(t) \/ Resume(t)
  PROVE  AbstractStep /\ ReasonsOK'
<1>1. /\ Runs(k, t) /\ at[t] \in Outcome \cup Checked \cup Blocked
      /\ at[t] # "destroying" /\ k' = k /\ info' = info
  BY DEF Create, Check, Poll, Acquire, Resume, Outcome, Checked, Blocked
<1>2. /\ IInv /\ ReasonsOK /\ DataOK /\ FreshOK
      /\ ~Destroying /\ AbstractQueue = sem.waiters
      /\ at \in [AppTask -> At]
  BY <1>1, OutsideDestroyLemma DEF RInv, IInv
<1>3. /\ at[t] \in Outcome => AbstractCall[t] = at[t]
      /\ at[t] \in Checked => AbstractCall[t] = "none"
      /\ at[t] \in Blocked =>
           AbstractCall[t] = IF info[t] THEN "left" ELSE "granted"
  BY <1>1, <1>2, SeenLemma
<1>4. /\ {"none", "ok", "timeout", "invalid"} = Outcome
      /\ {"wait", "poll", "post"} = Checked
      /\ {"blocked", "timedBlocked"} = Blocked
      /\ Abstract!Outcome = Outcome
  BY DEF Outcome, Checked, Blocked, Abstract!Outcome
<1>5. ASSUME NEW v \in InitialValues, Create(t, v)
      PROVE  AbstractStep /\ ReasonsOK'
  <2>1. /\ made = 0 /\ at' = at
        /\ sem' = [valid |-> TRUE, value |-> v, waiters |-> <<>>]
        /\ ~sem.valid /\ sem.waiters = <<>>
        /\ \A u \in AppTask : at[u] \in Outcome
    BY <1>2, <1>5, LwSemAssumption DEF Create, CreatedOnce, DataOK, FreshOK
  <2>2. ~Destroying' /\ AbstractQueue' = <<>> /\ AbstractQueue = <<>>
    BY <1>2, <2>1 DEF Destroying, AbstractQueue
  <2>3. AbstractCall' = AbstractCall
    BY <1>1, <1>2, <2>1, <2>2 DEF AbstractCall
  <2>4. Abstract!Create(v)
    BY <2>1, <2>2, <2>3 DEF Abstract!Create
  <2>5. ReasonsOK'
    BY <1>1, <1>2, <1>4, <2>1, <2>2 DEF ReasonsOK, Reason
  <2> QED
    BY <2>4, <2>5 DEF AbstractStep, Abstract!Next
<1>6. ASSUME NEW op \in Checked, Check(t, op)
      PROVE  AbstractStep /\ ReasonsOK'
  <2> DEFINE a == IF sem.valid THEN op
                  ELSE IF op = "wait" THEN "invalid" ELSE "none"
  <2>1. /\ at' = [at EXCEPT ![t] = a] /\ sem' = sem /\ at[t] \in Outcome
    BY <1>6 DEF Check
  <2>2. /\ a \in Outcome \cup Checked
        /\ a \in Outcome => a \in {"none", "invalid"} /\ ~sem.valid
    BY <1>4
  <2> HIDE DEF a
  <2>3. /\ ReasonsOK' /\ AbstractQueue' = AbstractQueue
        /\ AbstractCall' =
             [AbstractCall EXCEPT ![t] = IF a \in Outcome THEN a ELSE "none"]
    BY <1>1, <2>1, <2>2, PlaceLemma
  <2>4. Abstract!Resting(t)
    BY <1>3, <1>4, <2>1 DEF Abstract!Resting
  <2>5. Abstract!Forget(t) \/ Abstract!Refuse(t)
    BY <2>1, <2>2, <2>3, <2>4
    DEF Abstract!Forget, Abstract!Refuse, Abstract!Settle
  <2> QED
    BY <2>3, <2>5 DEF AbstractStep, Abstract!Next
<1>7. CASE Poll(t)
  <2>1. at[t] = "poll" /\ Abstract!Resting(t)
    BY <1>3, <1>4, <1>7 DEF Poll, Abstract!Resting
  <2>2. CASE sem' = sem /\ at' = [at EXCEPT ![t] = "none"]
    <3>1. /\ ReasonsOK' /\ AbstractQueue' = AbstractQueue
          /\ AbstractCall' = [AbstractCall EXCEPT ![t] = "none"]
      BY <1>1, <1>4, <2>2, PlaceLemma
    <3>2. Abstract!Forget(t)
      BY <2>1, <2>2, <3>1 DEF Abstract!Forget, Abstract!Settle
    <3> QED
      BY <3>1, <3>2 DEF AbstractStep, Abstract!Next
  <2>3. CASE /\ sem.value > 0 /\ sem' = [sem EXCEPT !.value = @ - 1]
             /\ at' = [at EXCEPT ![t] = "ok"]
    <3>1. /\ sem'.waiters = sem.waiters /\ sem'.valid = sem.valid
          /\ sem'.value = sem.value - 1
      BY <1>2, <2>3 DEF DataOK
    <3>2. /\ ReasonsOK' /\ AbstractQueue' = AbstractQueue
          /\ AbstractCall' = [AbstractCall EXCEPT ![t] = "ok"]
      BY <1>1, <1>4, <2>3, <3>1, PlaceLemma
    <3>3. Abstract!Take(t)
      BY <2>1, <2>3, <3>1, <3>2 DEF Abstract!Take, Abstract!Settle
    <3> QED
      BY <3>2, <3>3 DEF AbstractStep, Abstract!Next
  <2> QED
    BY <1>7, <2>2, <2>3 DEF Poll, TakeToken
<1>8. CASE Acquire(t)
  <2> DEFINE a == IF sem.valid THEN "ok" ELSE "invalid"
  <2>1. /\ sem.value > 0 /\ sem' = [sem EXCEPT !.value = @ - 1]
        /\ at[t] = "wait" /\ at' = [at EXCEPT ![t] = a]
    BY <1>8 DEF Acquire, TakeToken
  <2>2. a \in Outcome /\ (a = "invalid" => ~sem.valid)
        /\ a \in {"ok", "invalid"}
    BY <1>4
  <2> HIDE DEF a
  <2>3. /\ sem'.waiters = sem.waiters /\ sem'.valid = sem.valid
        /\ sem'.value = sem.value - 1
    BY <1>2, <2>1 DEF DataOK
  <2>4. /\ ReasonsOK' /\ AbstractQueue' = AbstractQueue
        /\ AbstractCall' = [AbstractCall EXCEPT ![t] = a]
    BY <1>1, <2>1, <2>2, <2>3, PlaceLemma
  <2>5. Abstract!Resting(t)
    BY <1>3, <1>4, <2>1 DEF Abstract!Resting
  <2>6. Abstract!Take(t)
    BY <2>1, <2>2, <2>3, <2>4, <2>5 DEF Abstract!Take, Abstract!Settle
  <2> QED
    BY <2>4, <2>6 DEF AbstractStep, Abstract!Next
<1>9. CASE Resume(t)
  <2> DEFINE a == IF ~sem.valid THEN "invalid"
                  ELSE IF at[t] = "timedBlocked" /\ info[t] THEN "timeout"
                  ELSE "ok"
  <2>1. at[t] \in Blocked /\ at' = [at EXCEPT ![t] = a] /\ sem' = sem
    BY <1>2, <1>9 DEF Resume
  <2>2. a \in Outcome
    BY <1>4
  <2>3. IF info[t] THEN a = (IF sem.valid THEN "timeout" ELSE "invalid")
        ELSE a = (IF sem.valid THEN "ok" ELSE "invalid")
    <3>1. at[t] = "blocked" /\ info[t] => ~sem.valid
      <4>1. Reason(t) /\ k.state[t] = "READY"
        BY <1>1, <1>2, OutsideDestroyLemma DEF ReasonsOK
      <4> QED
        BY <4>1 DEF Reason
    <3> QED
      BY <1>4, <2>1, <3>1
  <2> HIDE DEF a
  <2>4. /\ ReasonsOK' /\ AbstractQueue' = AbstractQueue
        /\ AbstractCall' = [AbstractCall EXCEPT ![t] = a]
    BY <1>1, <2>1, <2>2, PlaceLemma
  <2>5. Abstract!Return(t)
    BY <1>3, <2>1, <2>3, <2>4 DEF Abstract!Return, Abstract!Settle
  <2> QED
    BY <2>4, <2>5 DEF AbstractStep, Abstract!Next
<1> QED
  BY <1>5, <1>6, <1>7, <1>8, <1>9

\* A step of the kernel in which no task starts or stops waiting.
LEMMA KernelStutters ==
  ASSUME RInv, at' = at, sem' = sem, info' = info, k'.state = k.state,
         \A u \in AppTask : at[u] = "blocked" => k'.timed[u] = k.timed[u]
  PROVE  AbstractStep /\ ReasonsOK'
<1>1. AbstractCall' = AbstractCall /\ AbstractQueue' = AbstractQueue
  BY DEF AbstractCall, AbstractQueue, Destroying
<1>2. ReasonsOK'
  BY DEF RInv, ReasonsOK, Reason, Destroying
<1> QED
  BY <1>1, <1>2 DEF AbstractStep, Abstract!vars

LEMMA SleepRefines ==
  ASSUME RInv, NEW t \in AppTask, NEW n \in Delays, Sleep(t, n)
  PROVE  AbstractStep /\ ReasonsOK'
<1> DEFINE d == Delay(k, t, n)
<1>1. /\ Runs(k, t) /\ at[t] \in Outcome /\ k' = Dispatch(d)
      /\ sem' = sem /\ at' = at /\ info' = info
  BY DEF Sleep
<1>2. k \in Kernel /\ Basic(k) /\ IsReady(k, t) /\ t \in Task /\ n \in Int
  BY <1>1, RunsLemma, LwSemAssumption DEF RInv
<1>3. d \in Kernel
  BY <1>2, DelayLemma
<1>4. d.state = k.state /\ d.timed = [k.timed EXCEPT ![t] = TRUE]
  BY <1>2, DelayEffect
<1> HIDE DEF d
<1>5. k'.state = k.state /\ k'.timed = [k.timed EXCEPT ![t] = TRUE]
  BY <1>1, <1>3, <1>4, DispatchEffect
<1>6. \A u \in AppTask : at[u] = "blocked" => k'.timed[u] = k.timed[u]
  BY <1>1, <1>2, <1>5, AppTaskLemma DEF Outcome, Kernel
<1> QED
  BY <1>1, <1>5, <1>6, KernelStutters

\* What a wait that blocks does to the task.
LEMMA WaitEffect ==
  ASSUME IInv, NEW t \in AppTask,
         WaitForever(t) \/ \E d \in Timeouts : WaitTimed(t, d)
  PROVE  /\ Enqueue(t) /\ \E a \in Blocked : at' = [at EXCEPT ![t] = a]
         /\ k'.state = [k.state EXCEPT ![t] = "LWSEM_BLOCKED"]
         /\ \A u \in Task \ {t} : k'.timed[u] = k.timed[u]
         /\ at'[t] = "blocked" => ~k'.timed[t]
<1>1. Runs(k, t) /\ Enqueue(t)
  BY DEF WaitForever, WaitTimed, Enqueue
<1>2. /\ k \in Kernel /\ Basic(k) /\ IsReady(k, t) /\ t \in Task
      /\ ~k.timed[t] /\ at \in [AppTask -> At]
      /\ k.timed \in [Task -> BOOLEAN]
  BY <1>1, RunsLemma DEF IInv, DataOK, Kernel
<1>3. /\ "LWSEM_BLOCKED" \in State \ {"READY"}
      /\ {"blocked", "timedBlocked"} = Blocked
  BY DEF State, Blocked
<1>4. CASE WaitForever(t)
  <2> DEFINE b == [Unlink(k, t, k.my[t]) EXCEPT !.state[t] = "LWSEM_BLOCKED"]
  <2>1. /\ Basic(b) /\ b.state = [k.state EXCEPT ![t] = "LWSEM_BLOCKED"]
        /\ b.timed = k.timed
    BY <1>2, <1>3, BlockLemma
  <2>2. k' = Dispatch(b) /\ at' = [at EXCEPT ![t] = "blocked"]
    BY <1>4 DEF WaitForever
  <2> HIDE DEF b
  <2>3. k'.state = b.state /\ k'.timed = b.timed
    BY <2>1, <2>2, DispatchEffect DEF Basic
  <2> QED
    BY <1>1, <1>2, <1>3, <2>1, <2>2, <2>3
<1>5. ASSUME NEW d \in Timeouts, WaitTimed(t, d)
      PROVE  /\ \E a \in Blocked : at' = [at EXCEPT ![t] = a]
             /\ k'.state = [k.state EXCEPT ![t] = "LWSEM_BLOCKED"]
             /\ \A u \in Task \ {t} : k'.timed[u] = k.timed[u]
             /\ at'[t] = "blocked" => ~k'.timed[t]
  <2> DEFINE b == Delay([k EXCEPT !.state[t] = "LWSEM_BLOCKED"], t, d)
  <2>0. d \in Int
    BY LwSemAssumption
  <2>1. /\ Basic(b) /\ b.state = [k.state EXCEPT ![t] = "LWSEM_BLOCKED"]
        /\ b.timed = [k.timed EXCEPT ![t] = TRUE]
    BY <1>2, <1>3, <2>0, DelayBlockedLemma
  <2>2. k' = Dispatch(b) /\ at' = [at EXCEPT ![t] = "timedBlocked"]
    BY <1>5 DEF WaitTimed
  <2> HIDE DEF b
  <2>3. k'.state = b.state /\ k'.timed = b.timed
    BY <2>1, <2>2, DispatchEffect DEF Basic
  <2> QED
    BY <1>2, <1>3, <2>1, <2>2, <2>3
<1> QED
  BY <1>1, <1>4, <1>5

LEMMA WaitRefines ==
  ASSUME RInv, NEW t \in AppTask,
         WaitForever(t) \/ \E d \in Timeouts : WaitTimed(t, d)
  PROVE  AbstractStep /\ ReasonsOK'
<1>1. /\ Enqueue(t)
      /\ k'.state = [k.state EXCEPT ![t] = "LWSEM_BLOCKED"]
      /\ \A u \in Task \ {t} : k'.timed[u] = k.timed[u]
      /\ at'[t] = "blocked" => ~k'.timed[t]
  BY WaitEffect DEF RInv
<1>2. PICK a \in Blocked : at' = [at EXCEPT ![t] = a]
  BY WaitEffect DEF RInv
<1>3. /\ Runs(k, t) /\ at[t] = "wait" /\ sem.value <= 0
      /\ sem' = [sem EXCEPT !.waiters = Append(@, t)]
      /\ info' = [info EXCEPT ![t] = TRUE]
  BY <1>1 DEF Enqueue
<1>4. a \in At \ {"destroying"}
  BY DEF At, Blocked
<1>5. /\ ~Destroying /\ AbstractQueue = sem.waiters
      /\ at \in [AppTask -> At] /\ info \in [AppTask -> BOOLEAN]
      /\ ~Destroying' /\ AbstractQueue' = sem'.waiters
  BY <1>2, <1>3, <1>4, OutsideDestroyLemma DEF RInv
<1>6. /\ k.state \in [Task -> State] /\ DataOK
      /\ \A u \in AppTask : Reason(u)
  BY DEF RInv, ReasonsOK, IInv, KernelOK, Basic, Kernel
<1>7. /\ sem'.waiters = Append(sem.waiters, t)
      /\ sem'.valid = sem.valid /\ sem'.value = sem.value
  BY <1>3, <1>6 DEF DataOK
<1>8. /\ k'.state[t] = "LWSEM_BLOCKED" /\ info'[t] = TRUE /\ at'[t] = a
      /\ \A u \in AppTask \ {t} : /\ k'.state[u] = k.state[u]
                                  /\ info'[u] = info[u] /\ at'[u] = at[u]
                                  /\ k'.timed[u] = k.timed[u]
  BY <1>1, <1>2, <1>3, <1>5, <1>6, AppTaskLemma
<1>9. AbstractCall' = [AbstractCall EXCEPT ![t] = "waiting"]
  <2>1. AbstractCall'[t] = CallSeen(a, TRUE, TRUE)
    BY <1>5, <1>8 DEF AbstractCall
  <2>2. \A u \in AppTask \ {t} : AbstractCall'[u] = AbstractCall[u]
    BY <1>5, <1>8 DEF AbstractCall
  <2> QED
    BY ZenonT(60), <2>1, <2>2, CallSeenLemma, SettleLemma
<1>10. AbstractCall[t] = "none"
  BY <1>3, SeenLemma DEF RInv, Checked
<1>11. Abstract!Join(t)
  BY <1>3, <1>5, <1>7, <1>9, <1>10
  DEF Abstract!Join, Abstract!Settle, Abstract!Resting, Abstract!Outcome
<1>12. ReasonsOK'
  <2>1. ASSUME NEW u \in AppTask PROVE Reason(u)'
    BY <1>1, <1>6, <1>7, <1>8 DEF Reason
  <2> QED
    BY <1>5, <2>1 DEF ReasonsOK
<1> QED
  BY <1>11, <1>12 DEF AbstractStep, Abstract!Next

\* A post hands its token to the head of the queue or stores it.
LEMMA PostRefines ==
  ASSUME RInv, PostTo, ~Destroying, ~Destroying',
         \A u \in AppTask : at'[u] # at[u] => at[u] \in Checked /\ at'[u] = "none"
  PROVE  AbstractStep /\ ReasonsOK'
<1>1. /\ IInv /\ DataOK /\ k \in Kernel
      /\ Queued(sem.waiters, k.state, k.timed, at)
      /\ \A u \in AppTask : Reason(u)
      /\ AbstractQueue = sem.waiters /\ AbstractQueue' = sem'.waiters
  BY DEF RInv, ReasonsOK, IInv, KernelOK, WaitsOK, Basic, AbstractQueue
<1>2. /\ k.state \in [Task -> State] /\ k.timed \in [Task -> BOOLEAN]
      /\ info \in [AppTask -> BOOLEAN] /\ at \in [AppTask -> At]
      /\ Blocked \cap Checked = {} /\ Blocked \cap Outcome = {}
  BY <1>1 DEF Kernel, DataOK, Blocked, Checked, Outcome
\* A task whose place changes looks the same to the abstract semaphore.
<1>3. ASSUME NEW u \in AppTask, k'.state[u] = k.state[u], info'[u] = info[u]
      PROVE  AbstractCall'[u] = AbstractCall[u]
  <2>1. CASE at'[u] = at[u]
    BY <1>3, <2>1 DEF AbstractCall
  <2>2. CASE at'[u] # at[u]
    <3> DEFINE b == k.state[u] = "LWSEM_BLOCKED"
    <3>1. /\ AbstractCall'[u] = CallSeen("none", b, info[u])
          /\ AbstractCall[u] = CallSeen(at[u], b, info[u])
          /\ at[u] \in Checked /\ b \in BOOLEAN /\ info[u] \in BOOLEAN
      BY <1>2, <1>3, <2>2 DEF AbstractCall
    <3> HIDE DEF b
    <3>2. "none" \in Outcome
      BY DEF Outcome
    <3> QED
      BY <3>1, <3>2, CallSeenLemma
  <2> QED
    BY <2>1, <2>2
<1>4. CASE Wakes
  <2> DEFINE h == Head(sem.waiters)
             d == Wake(k, h)
  <2>1. /\ sem.waiters # <<>> /\ k' = CheckRunScheduler(d) /\ sem.value >= 0
        /\ sem' = [sem EXCEPT !.waiters = Tail(@)]
        /\ info' = [info EXCEPT ![h] = FALSE]
    BY <1>4 DEF PostTo, Wakes
  <2>2. /\ h \in AppTask /\ k.state[h] = "LWSEM_BLOCKED" /\ Basic(d)
        /\ d.state = [k.state EXCEPT ![h] = "READY"]
        /\ d.timed = [k.timed EXCEPT ![h] = FALSE]
    BY <1>1, <2>1, WakeHeadLemma
  <2> HIDE DEF d
  <2>3. k'.state = d.state /\ k'.timed = d.timed
    BY <2>1, <2>2, DispatchEffect DEF Basic
  <2>4. /\ sem'.waiters = Tail(sem.waiters) /\ sem'.valid = sem.valid
        /\ sem'.value = sem.value
    BY <1>1, <2>1 DEF DataOK
  <2> HIDE DEF h
  <2>5. at[h] \in Blocked /\ at'[h] = at[h]
    BY <1>1, <1>2, <2>2 DEF Queued
  <2>6. /\ k'.state[h] = "READY" /\ ~k'.timed[h] /\ info'[h] = FALSE
        /\ \A u \in AppTask \ {h} : /\ k'.state[u] = k.state[u]
                                    /\ k'.timed[u] = k.timed[u]
                                    /\ info'[u] = info[u]
    BY <1>2, <2>1, <2>2, <2>3, AppTaskLemma
  <2>7. AbstractCall' = [AbstractCall EXCEPT ![h] = "granted"]
    <3>1. AbstractCall'[h] = CallSeen(at[h], FALSE, FALSE)
      BY <2>2, <2>5, <2>6 DEF AbstractCall
    <3>2. AbstractCall'[h] = "granted"
      BY <2>5, <3>1, CallSeenLemma
    <3>3. \A u \in AppTask \ {h} : AbstractCall'[u] = AbstractCall[u]
      BY <1>3, <2>6
    <3> QED
      BY <2>2, <3>2, <3>3, SettleLemma
  <2>8. Abstract!Grant
    BY <1>1, <2>1, <2>4, <2>7 DEF Abstract!Grant, Abstract!Settle, h
  <2>9. ReasonsOK'
    <3>1. ASSUME NEW u \in AppTask PROVE Reason(u)'
      <4>1. CASE u = h
        BY <2>6, <4>1 DEF Reason
      <4>2. CASE u # h
        <5>1. at'[u] = "blocked" => at[u] = "blocked"
          OBVIOUS
        <5> QED
          BY <1>1, <2>4, <2>6, <4>2, <5>1 DEF Reason
      <4> QED
        BY <4>1, <4>2
    <3> QED
      BY <3>1 DEF ReasonsOK
  <2> QED
    BY <2>8, <2>9 DEF AbstractStep, Abstract!Next
<1>5. CASE ~Wakes
  <2>1. k' = k /\ info' = info /\ sem' = [sem EXCEPT !.value = @ + 1]
    BY <1>5 DEF PostTo
  <2>2. /\ sem'.waiters = sem.waiters /\ sem'.valid = sem.valid
        /\ sem'.value = sem.value + 1 /\ sem.value \in Int
    BY <1>1, <2>1 DEF DataOK
  <2>3. AbstractCall' = AbstractCall
    BY <1>3, <2>1, StutterLemma
  <2>4. Abstract!Store
    BY <1>1, <1>5, <2>2, <2>3 DEF Abstract!Store, Wakes
  <2>5. ReasonsOK'
    BY <1>1, <2>1, <2>2 DEF ReasonsOK, Reason
  <2> QED
    BY <2>4, <2>5 DEF AbstractStep, Abstract!Next
<1> QED
  BY <1>4, <1>5

LEMMA TaskPostRefines ==
  ASSUME RInv, NEW t \in AppTask, Post(t)
  PROVE  AbstractStep /\ ReasonsOK'
<1>1. /\ Runs(k, t) /\ at[t] = "post" /\ PostTo
      /\ at' = [at EXCEPT ![t] = "none"]
  BY DEF Post
<1>2. "none" \in At \ {"destroying"} /\ "post" \in Checked
  BY DEF At, Outcome, Checked
<1>3. ~Destroying /\ ~Destroying' /\ at \in [AppTask -> At]
  BY <1>1, <1>2, OutsideDestroyLemma DEF RInv
<1> QED
  BY <1>1, <1>2, <1>3, PostRefines

\* All waiting clients are sent away at once when VALID is cleared; the loop
\* then readies their tasks one by one.
LEMMA DestroyRefines ==
  ASSUME RInv, NEW t \in AppTask, Destroy(t)
  PROVE  AbstractStep /\ ReasonsOK'
<1>1. /\ Runs(k, t) /\ at[t] \in Outcome /\ sem.valid /\ k' = k /\ info' = info
      /\ sem' = [sem EXCEPT !.valid = FALSE]
      /\ at' = [at EXCEPT ![t] = "destroying"]
  BY DEF Destroy
<1>2. /\ at[t] # "destroying" /\ Blocked \cap Outcome = {}
      /\ Outcome \subseteq At /\ "destroying" \notin Blocked
  BY <1>1 DEF Outcome, Blocked, At
<1>3. /\ ~Destroying /\ AbstractQueue = sem.waiters
      /\ at \in [AppTask -> At] /\ info \in [AppTask -> BOOLEAN]
      /\ k.state[t] = "READY"
  BY <1>1, <1>2, OutsideDestroyLemma DEF RInv
<1>4. DataOK /\ Queued(sem.waiters, k.state, k.timed, at)
      /\ \A u \in AppTask : Reason(u)
  BY DEF RInv, IInv, WaitsOK, ReasonsOK
<1>5. Destroying' /\ AbstractQueue' = <<>>
  BY <1>1, <1>3 DEF Destroying, AbstractQueue
<1>6. sem'.valid = FALSE /\ sem'.value = sem.value
  BY <1>1, <1>4 DEF DataOK
<1>7. AbstractCall[t] = at[t] /\ Abstract!Outcome = Outcome
  BY <1>1, <1>2, SeenLemma DEF RInv, Outcome, Abstract!Outcome
<1>8. ASSUME NEW u \in AppTask
      PROVE  AbstractCall'[u] = IF u \in ToSet(sem.waiters) THEN "left"
                                ELSE IF u = t THEN "none" ELSE AbstractCall[u]
  <2> DEFINE b == k.state[u] = "LWSEM_BLOCKED"
  <2>1. /\ AbstractCall'[u] = CallSeen(at'[u], FALSE, info[u])
        /\ AbstractCall[u] = CallSeen(at[u], b, info[u])
    BY <1>1, <1>3, <1>5 DEF AbstractCall
  <2>2. b <=> u \in ToSet(sem.waiters)
    BY <1>4 DEF Queued
  <2>3. CASE u = t
    <3>1. ~b /\ at'[u] = "destroying" /\ info[u] \in BOOLEAN
      BY <1>1, <1>3, <2>3
    <3> QED
      BY ZenonT(60), <2>1, <2>2, <2>3, <3>1, CallSeenLemma
  <2>4. CASE u # t /\ b
    <3>1. at[u] \in Blocked /\ info[u] = TRUE /\ at'[u] = at[u]
      BY <1>1, <1>3, <1>4, <2>4 DEF Queued, Reason
    <3> QED
      BY <2>1, <2>2, <2>4, <3>1, CallSeenLemma
  <2>5. CASE u # t /\ ~b
    <3>1. at'[u] = at[u]
      BY <1>1, <1>3, <2>5
    <3>2. b = FALSE
      BY <2>5
    <3> QED
      BY <2>1, <2>2, <2>5, <3>1, <3>2
  <2> QED
    BY <2>3, <2>4, <2>5
<1>9. AbstractCall' = [u \in AppTask |->
        IF u \in ToSet(sem.waiters) THEN "left"
        ELSE IF u = t THEN "none" ELSE AbstractCall[u]]
  BY <1>8 DEF AbstractCall
<1>10. Abstract!Destroy(t)
  <2>1. Abstract!Resting(t)
    BY <1>1, <1>7 DEF Abstract!Resting
  <2>2. Abstract!ToSet(sem.waiters) = ToSet(sem.waiters)
    BY DEF ToSet, Abstract!ToSet
  <2> QED
    BY <1>1, <1>3, <1>5, <1>6, <1>9, <2>1, <2>2 DEF Abstract!Destroy
<1>11. ReasonsOK'
  <2>1. ASSUME NEW u \in AppTask PROVE Reason(u)'
    <3>1. Reason(u)
      BY <1>4
    <3>2. CASE u = t
      BY <1>1, <1>2, <1>3, <3>2 DEF Reason, Blocked
    <3>3. CASE u # t
      BY <1>1, <1>3, <1>6, <3>1, <3>3 DEF Reason
    <3> QED
      BY <3>2, <3>3
  <2> QED
    BY <1>6, <2>1 DEF ReasonsOK
<1> QED
  BY <1>10, <1>11 DEF AbstractStep, Abstract!Next

LEMMA DestroyLoopRefines ==
  ASSUME RInv, NEW t \in AppTask, DestroyNext(t) \/ DestroyEnd(t)
  PROVE  AbstractStep /\ ReasonsOK'
<1>1. at[t] = "destroying" /\ Destroying /\ info' = info
  BY DEF DestroyNext, DestroyEnd, Destroying
<1>2. /\ IInv /\ DataOK /\ k \in Kernel /\ ~sem.valid
      /\ Queued(sem.waiters, k.state, k.timed, at)
      /\ \A u \in AppTask : Reason(u) /\ (at[u] = "destroying" => u = t)
      /\ AbstractQueue = <<>>
  BY <1>1 DEF RInv, ReasonsOK, IInv, KernelOK, Runs, WaitsOK, Basic,
              AbstractQueue
<1>3. /\ k.state \in [Task -> State] /\ k.timed \in [Task -> BOOLEAN]
      /\ info \in [AppTask -> BOOLEAN] /\ at \in [AppTask -> At]
  BY <1>2 DEF Kernel, DataOK
<1>4. CASE DestroyNext(t)
  <2> DEFINE h == Head(sem.waiters)
             d == Wake(k, h)
  <2>1. /\ sem.waiters # <<>> /\ k' = d /\ at' = at
        /\ sem' = [sem EXCEPT !.waiters = Tail(@)]
    BY <1>4 DEF DestroyNext
  <2>2. /\ h \in AppTask /\ k.state[h] = "LWSEM_BLOCKED"
        /\ d.state = [k.state EXCEPT ![h] = "READY"]
        /\ d.timed = [k.timed EXCEPT ![h] = FALSE]
    BY <1>2, <2>1, WakeHeadLemma
  <2> HIDE DEF d, h
  <2>3. sem'.valid = sem.valid /\ sem'.value = sem.value
    BY <1>2, <2>1 DEF DataOK
  <2>4. Destroying' /\ AbstractQueue' = <<>>
    BY <1>1, <2>1 DEF Destroying, AbstractQueue
  <2>5. AbstractCall' = AbstractCall
    BY <1>1, <2>1, <2>4 DEF AbstractCall
  <2>6. /\ k'.state[h] = "READY" /\ ~k'.timed[h]
        /\ \A u \in AppTask \ {h} : /\ k'.state[u] = k.state[u]
                                    /\ k'.timed[u] = k.timed[u]
    BY <1>3, <2>1, <2>2, AppTaskLemma
  <2>7. ReasonsOK'
    <3>1. ASSUME NEW u \in AppTask PROVE Reason(u)'
      <4>1. CASE u = h
        BY <1>2, <2>3, <2>6, <4>1 DEF Reason
      <4>2. CASE u # h
        BY <1>1, <1>2, <2>1, <2>3, <2>6, <4>2 DEF Reason
      <4> QED
        BY <4>1, <4>2
    <3> QED
      BY <1>2, <2>3, <3>1 DEF ReasonsOK
  <2> QED
    BY <1>2, <2>3, <2>4, <2>5, <2>7 DEF AbstractStep, Abstract!vars
<1>5. CASE DestroyEnd(t)
  <2>1. /\ k' = PendScheduler(k) /\ sem' = sem /\ sem.waiters = <<>>
        /\ at' = [at EXCEPT ![t] = "none"]
    BY <1>5 DEF DestroyEnd
  <2>2. k'.state = k.state /\ k'.timed = k.timed
    BY <1>2, <2>1, IsrEffect
  <2>3. ~Destroying' /\ AbstractQueue' = <<>>
    BY <1>2, <1>3, <2>1 DEF Destroying, AbstractQueue
  <2>4. \A u \in AppTask : k.state[u] # "LWSEM_BLOCKED"
    <3>1. ToSet(sem.waiters) = {}
      BY <2>1 DEF ToSet
    <3> QED
      BY <1>2, <3>1 DEF Queued
  <2>5. ASSUME NEW u \in AppTask PROVE AbstractCall'[u] = AbstractCall[u]
    <3>1. /\ AbstractCall'[u] = CallSeen(at'[u], FALSE, info[u])
          /\ AbstractCall[u] = CallSeen(at[u], FALSE, info[u])
          /\ info[u] \in BOOLEAN
      BY <1>1, <1>3, <2>2, <2>4 DEF AbstractCall
    <3>2. CASE u = t
      <4>1. at'[u] = "none" /\ at[u] = "destroying" /\ "none" \in Outcome
        BY <1>1, <1>3, <2>1, <3>2 DEF Outcome
      <4>2. CallSeen("none", FALSE, info[u]) = "none"
        BY <3>1, <4>1, CallSeenLemma
      <4>3. CallSeen("destroying", FALSE, info[u]) = "none"
        BY <3>1, CallSeenLemma
      <4> QED
        BY <3>1, <4>1, <4>2, <4>3
    <3>3. CASE u # t
      BY <1>3, <2>1, <3>1, <3>3
    <3> QED
      BY <3>2, <3>3
  <2>6. AbstractCall' = AbstractCall
    BY <2>5, StutterLemma
  <2>7. ReasonsOK'
    BY <1>1, <1>2, <1>3, <2>1, <2>2, <2>3 DEF ReasonsOK, Reason
  <2> QED
    BY <1>2, <2>1, <2>3, <2>6, <2>7 DEF AbstractStep, Abstract!vars
<1> QED
  BY <1>4, <1>5

\* The tick makes a waiting client leave, or wakes a task that only sleeps.
LEMMA WakeDueRefines ==
  ASSUME RInv, WakeDue
  PROVE  AbstractStep /\ ReasonsOK'
<1> DEFINE h == Head(k.timeouts)
           w == sem.waiters
<1>1. /\ k.ticking /\ k.timeouts # <<>> /\ k' = TickWake(k)
      /\ sem' = IF k.state[h] = "LWSEM_BLOCKED"
                THEN [sem EXCEPT !.waiters = Without(@, h)] ELSE sem
      /\ at' = at /\ info' = info
  BY DEF WakeDue, Due
<1>2. k.isr > 0 /\ IInv
  BY <1>1 DEF RInv, IInv, KernelOK
<1>3. /\ k \in Kernel /\ Basic(k)
      /\ \A t \in AppTask : at[t] # "destroying"
      /\ DataOK /\ Queued(w, k.state, k.timed, at)
      /\ \A t \in AppTask : Reason(t)
  BY <1>2, CalmLemma DEF RInv, IInv, WaitsOK, ReasonsOK
<1>4. /\ h \in AppTask /\ k.timed[h]
      /\ k'.state = [k.state EXCEPT ![h] = "READY"]
      /\ k'.timed = [k.timed EXCEPT ![h] = FALSE]
  BY <1>1, <1>3, TickWakeEffect
<1> HIDE DEF h
<1>5. /\ k.state \in [Task -> State] /\ k.timed \in [Task -> BOOLEAN]
      /\ info \in [AppTask -> BOOLEAN] /\ at \in [AppTask -> At]
  BY <1>3 DEF Kernel, DataOK
<1>6. /\ ~Destroying /\ ~Destroying'
      /\ AbstractQueue = w /\ AbstractQueue' = sem'.waiters
  BY <1>1, <1>3 DEF Destroying, AbstractQueue
<1>7. /\ k'.state[h] = "READY" /\ ~k'.timed[h]
      /\ \A u \in AppTask \ {h} : /\ k'.state[u] = k.state[u]
                                  /\ k'.timed[u] = k.timed[u]
  BY <1>4, <1>5, AppTaskLemma
<1>8. \A u \in AppTask \ {h} : AbstractCall'[u] = AbstractCall[u]
  BY <1>1, <1>6, <1>7 DEF AbstractCall
\* Only a wait with a timeout is on TIMEOUT_QUEUE.
<1>9. at[h] # "blocked"
  BY <1>3, <1>4 DEF Reason
<1>10. sem'.valid = sem.valid /\ sem'.value = sem.value
  BY <1>1, <1>3 DEF DataOK
<1>11. ReasonsOK'
  <2>1. ASSUME NEW u \in AppTask PROVE Reason(u)'
    <3>1. CASE u = h
      BY <1>1, <1>7, <1>9, <3>1 DEF Reason
    <3>2. CASE u # h
      BY <1>1, <1>3, <1>7, <1>10, <3>2 DEF Reason
    <3> QED
      BY <3>1, <3>2
  <2> QED
    BY <1>6, <2>1 DEF ReasonsOK
<1>12. CASE k.state[h] = "LWSEM_BLOCKED"
  <2>1. at[h] \in Blocked /\ info[h] = TRUE /\ h \in ToSet(w)
    BY <1>3, <1>4, <1>12 DEF Queued, Reason
  <2>2. AbstractCall' = [AbstractCall EXCEPT ![h] = "left"]
    <3>1. AbstractCall'[h] = CallSeen(at[h], FALSE, TRUE)
      BY <1>1, <1>4, <1>7, <2>1 DEF AbstractCall
    <3>2. AbstractCall'[h] = "left"
      BY <2>1, <3>1, CallSeenLemma
    <3> QED
      BY <1>4, <1>8, <3>2, SettleLemma
  <2>3. AbstractCall[h] = "waiting"
    <3>1. AbstractCall[h] = CallSeen(at[h], TRUE, TRUE)
      BY <1>4, <1>6, <1>12, <2>1 DEF AbstractCall
    <3> QED
      BY <2>1, <3>1, CallSeenLemma
  <2>4. sem'.waiters = Without(w, h)
    BY <1>1, <1>3, <1>12 DEF DataOK
  <2>5. \E i \in 1 .. Len(w) : w[i] = h /\ Without(w, h) = RemoveAt(w, i)
    <3> DEFINE j == CHOOSE i \in 1 .. Len(w) : w[i] = h
    <3>1. j \in 1 .. Len(w) /\ w[j] = h
      BY <2>1 DEF ToSet
    <3>2. Without(w, h) = RemoveAt(w, j)
      BY DEF Without
    <3> QED
      BY <3>1, <3>2
  <2>6. Abstract!Expire(h)
    <3>1. \A i \in 1 .. Len(w) : Abstract!RemoveAt(w, i) = RemoveAt(w, i)
      BY DEF RemoveAt, Abstract!RemoveAt
    <3> QED
      BY <1>6, <1>10, <2>2, <2>3, <2>4, <2>5, <3>1
      DEF Abstract!Expire, Abstract!Settle
  <2> QED
    BY <1>4, <1>11, <2>6 DEF AbstractStep, Abstract!Next
<1>13. CASE k.state[h] # "LWSEM_BLOCKED"
  <2>1. sem' = sem
    BY <1>1, <1>13
  <2>2. AbstractCall'[h] = AbstractCall[h]
    BY <1>1, <1>4, <1>6, <1>7, <1>13 DEF AbstractCall
  <2>3. AbstractCall' = AbstractCall
    BY <1>8, <2>2, StutterLemma
  <2> QED
    BY <1>6, <1>11, <2>1, <2>3 DEF AbstractStep, Abstract!vars
<1> QED
  BY <1>12, <1>13

LEMMA TaskStepRefines ==
  ASSUME CreatedOnce, RInv, NEW t \in AppTask, TaskStep(t)
  PROVE  AbstractStep /\ ReasonsOK'
BY CallRefines, WaitRefines, TaskPostRefines, DestroyRefines,
   DestroyLoopRefines, SleepRefines DEF TaskStep

LEMMA IsrStepRefines ==
  ASSUME RInv, IsrStep \/ PendSV
  PROVE  AbstractStep /\ ReasonsOK'
<1>1. IInv /\ DataOK /\ k \in Kernel
  BY DEF RInv, IInv, KernelOK, Basic
<1>2. CASE EnterIsr \/ ReturnFromIsr \/ Tick \/ TickReturn \/ PendSV
  <2>1. /\ at' = at /\ sem' = sem /\ info' = info
        /\ \/ k' = IsrEntry(k) \/ k' = IsrReturn(k) \/ k' = TickStart(k)
           \/ k' = TickEnd(k) \/ k' = Dispatch(k)
    BY <1>2 DEF EnterIsr, ReturnFromIsr, Tick, TickReturn, PendSV
  <2>2. /\ IsrEntry(k).state = k.state /\ IsrEntry(k).timed = k.timed
        /\ TickEnd(k).state = k.state /\ TickEnd(k).timed = k.timed
    BY <1>1 DEF IsrEntry, TickEnd, Kernel
  <2>3. k'.state = k.state /\ k'.timed = k.timed
    BY <1>1, <2>1, <2>2, IsrEffect, DispatchEffect
  <2> QED
    BY <2>1, <2>3, KernelStutters
<1>3. CASE HandlerPost
  <2>1. k.isr > 0 /\ PostTo /\ at' = at
    BY <1>3 DEF HandlerPost
  <2>2. \A t \in AppTask : at[t] # "destroying"
    BY <1>1, <2>1, CalmLemma
  <2> QED
    BY <2>1, <2>2, PostRefines DEF Destroying
<1>4. CASE HandlerPoll
  <2>1. /\ k' = k /\ at' = at /\ info' = info /\ sem.value > 0
        /\ sem' = [sem EXCEPT !.value = @ - 1]
    BY <1>4 DEF HandlerPoll, TakeToken
  <2>2. /\ sem'.waiters = sem.waiters /\ sem'.valid = sem.valid
        /\ sem'.value = sem.value - 1
    BY <1>1, <2>1 DEF DataOK
  <2>3. AbstractCall' = AbstractCall /\ AbstractQueue' = AbstractQueue
    BY <2>1, <2>2 DEF AbstractCall, AbstractQueue, Destroying
  <2>4. Abstract!HandlerTake
    BY <2>1, <2>2, <2>3 DEF Abstract!HandlerTake
  <2>5. ReasonsOK'
    BY <2>1, <2>2 DEF RInv, ReasonsOK, Reason, Destroying
  <2> QED
    BY <2>4, <2>5 DEF AbstractStep, Abstract!Next
<1>5. CASE WakeDue
  BY <1>5, WakeDueRefines
<1> QED
  BY <1>2, <1>3, <1>4, <1>5 DEF IsrStep

LEMMA InitRefines == Init => Abstract!Init /\ ReasonsOK
<1> SUFFICES ASSUME Init PROVE Abstract!Init /\ ReasonsOK
  OBVIOUS
<1>1. /\ sem = [valid |-> FALSE, value |-> 0, waiters |-> <<>>]
      /\ at = [t \in AppTask |-> "none"] /\ info = [t \in AppTask |-> FALSE]
      /\ k.state = [t \in Task |-> "READY"]
  BY StartLemma DEF Init
<1>2. ~Destroying /\ AbstractQueue = <<>>
  BY <1>1 DEF Destroying, AbstractQueue
<1>3. AbstractCall = [t \in AppTask |-> "none"]
  <2>1. \A t \in AppTask : AbstractCall[t] = CallSeen("none", FALSE, FALSE)
    BY <1>1, AppTaskLemma DEF AbstractCall
  <2>2. CallSeen("none", FALSE, FALSE) = "none"
    BY CallSeenLemma DEF Outcome
  <2> QED
    BY <2>1, <2>2 DEF AbstractCall
<1>4. ReasonsOK
  BY <1>1, <1>2, AppTaskLemma DEF ReasonsOK, Reason
<1> QED
  BY <1>1, <1>2, <1>3, <1>4 DEF Abstract!Init

\* Whoever preempts whom, and whichever handlers and timeouts come between
\* the steps of its calls, a semaphore that is created once hands out its
\* tokens as module Semaphore does: in the order of arrival, none lost and
\* none invented, and every call returns what its caller was given.
THEOREM Implements == ASSUME CreatedOnce PROVE Spec => ImplementsSemaphore
<1>1. Init => RInv /\ Abstract!Init
  BY InitLemma, InitRefines DEF RInv
<1>2. RInv /\ [Next]_vars => RInv' /\ [Abstract!Next]_(Abstract!vars)
  <2> SUFFICES ASSUME RInv, [Next]_vars
               PROVE  RInv' /\ [Abstract!Next]_(Abstract!vars)
    OBVIOUS
  <2>1. CASE UNCHANGED vars
    <3>1. k' = k /\ at' = at /\ sem' = sem /\ info' = info /\ made' = made
      BY <2>1 DEF vars
    <3>2. AbstractStep /\ ReasonsOK'
      BY <3>1, KernelStutters
    <3>3. IInv'
      BY <3>1 DEF RInv, IInv, DataOK, KernelOK, WaitsOK, FreshOK,
         NoIdleToken, Queued, Basic, Settled, Agree, NoneAbove, IsReady, Runs,
         Destroying
    <3> QED
      BY <3>2, <3>3 DEF RInv, AbstractStep
  <2>2. CASE Next
    <3>1. IInv'
      BY <2>2, TaskStepLemma, IsrStepLemma, PendSVLemma DEF Next, RInv
    <3>2. AbstractStep /\ ReasonsOK'
      BY <2>2, TaskStepRefines, IsrStepRefines DEF Next
    <3> QED
      BY <3>1, <3>2 DEF RInv, AbstractStep
  <2> QED
    BY <2>1, <2>2
<1> QED
  BY <1>1, <1>2, PTL DEF Spec, ImplementsSemaphore, Abstract!Spec
=============================================================================
