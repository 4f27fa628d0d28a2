--------------------------- MODULE TaskLifeProofs ---------------------------
(***************************************************************************)
(* For every set of tasks and children, every priority and timeout: while  *)
(* tasks are aborted with care (MayAbort), the queues and the descriptors  *)
(* agree, nothing freed stays linked, one task at most takes another one   *)
(* apart, the lock is never lost and no destroyed queue strands a task.    *)
(*                                                                         *)
(* The inductive invariant adds where each task is in its call and what it *)
(* may assume of the task its call is about: the victim and the child were *)
(* looked up before the lock was waited for, and the tables below say what *)
(* can have become of them since.                                          *)
(***************************************************************************)
EXTENDS TaskLife, KernelProofs

\* What follows holds of tasks that are aborted with care.
Cautious == Careful = TRUE

DataOK ==
  /\ td \in [AppTask -> Life]
  /\ call \in [AppTask -> [at : At, who : AppTask]]
  /\ q \in [valid : BOOLEAN, policy : {"FIFO", "PRIORITY"},
            waiting : Seq(AppTask)]
  /\ sem \in [value : 0 .. MaxValue, waiters : Seq(AppTask)]
  /\ lock \in [value : 0 .. 1, waiters : Seq(AppTask)]
  /\ made \in 0 .. MaxQueues
  /\ resuming \in BOOLEAN

\* The tasks in each kind of waiting are those on the queues for it.
Waiting(qw, sw, lw, state, timed) ==
  /\ Inj(qw) /\ Inj(sw) /\ Inj(lw)
  /\ ToSet(qw) = {t \in AppTask : state[t] = "TASK_QUEUE_BLOCKED"}
  /\ ToSet(sw) \cap ToSet(lw) = {}
  /\ ToSet(sw) \cup ToSet(lw) = {t \in AppTask : state[t] = "LWSEM_BLOCKED"}
  /\ \A t \in AppTask : timed[t] => state[t] = "READY" \/ t \in ToSet(sw)

\* Only a task on its way to the lock waits for it.
Locking(lw, c) == \A t \in ToSet(lw) : c[t].at \in {"wantsDestroy", "wantsCreate"}

\* What becomes of tasks: one that does not exist yet is BLOCKED and calls
\* nothing, a dead one is BLOCKED unless it buries itself.
Living(d, c, state, timed) ==
  \A t \in AppTask :
    /\ d[t] \in {"none", "built"} =>
         state[t] = "BLOCKED" /\ ~timed[t] /\ c[t].at = "run"
    /\ d[t] \in Dead =>
         /\ ~timed[t]
         /\ \/ state[t] = "BLOCKED"
            \/ state[t] = "READY" /\ c[t].who = t /\ c[t].at \in {"cleanup", "free"}

\* What a call knows of the task it is about.
Knowing(d, c) ==
  \A t \in AppTask :
    /\ c[t].at \in {"cleanup", "free"} => d[c[t].who] \in Dead
    /\ c[t].at \in {"exit", "wantsDestroy", "hasDestroy"} =>
         d[c[t].who] \in Dead \cup {"alive"}
    /\ c[t].at = "exit" => c[t].who = t
    /\ c[t].at \in {"wantsCreate", "hasCreate"} => d[c[t].who] = "none"
    /\ c[t].at = "ready" => d[c[t].who] = "built"

\* Two tasks neither create nor take apart the same one.
Apart(c) ==
  \A t, u \in AppTask :
    /\ {c[t].at, c[u].at} \subseteq {"cleanup", "free"}
         /\ c[t].who = c[u].who => t = u
    /\ {c[t].at, c[u].at} \subseteq {"wantsCreate", "hasCreate", "ready"}
         /\ c[t].who = c[u].who => t = u

WaitsOK == Waiting(q.waiting, sem.waiters, lock.waiters, k.state, k.timed)
CallsOK ==
  /\ Locking(lock.waiters, call)
  /\ Living(td, call, k.state, k.timed)
  /\ Knowing(td, call)
  /\ Apart(call)

IInv == DataOK /\ Sound(k) /\ WaitsOK /\ CallsOK /\ LockKept /\ NoneStranded

-----------------------------------------------------------------------------
(* The queues.                                                              *)

\* A task leaves a queue on which it may be.
LEMMA OffLemma ==
  ASSUME NEW s \in Seq(AppTask), Inj(s), NEW t \in AppTask
  PROVE  /\ Off(s, t) \in Seq(AppTask)
         /\ Inj(Off(s, t))
         /\ ToSet(Off(s, t)) = ToSet(s) \ {t}
<1>1. s \in Seq(Task) /\ ToSet(s) \subseteq AppTask
  BY AppTaskLemma DEF ToSet
<1>2. CASE t \in ToSet(s)
  <2>1. /\ Without(s, t) \in Seq(Task) /\ Inj(Without(s, t))
        /\ ToSet(Without(s, t)) = ToSet(s) \ {t}
    BY <1>1, <1>2, WithoutLemma
  <2> QED
    BY <1>1, <1>2, <2>1, AppSeqLemma DEF Off
<1>3. CASE t \notin ToSet(s)
  BY <1>3 DEF Off
<1> QED
  BY <1>2, <1>3

\* A task leaves all queues.
LEMMA LeaveLemma ==
  ASSUME NEW qw, NEW sw, NEW lw, NEW qv, NEW sv, NEW lv,
         NEW state \in [Task -> State], NEW timed \in [Task -> BOOLEAN],
         NEW u \in AppTask, NEW st \in {"READY", "BLOCKED"},
         Waiting(qw, sw, lw, state, timed), Inj(qv), Inj(sv), Inj(lv),
         ToSet(qv) = ToSet(qw) \ {u}, ToSet(sv) = ToSet(sw) \ {u},
         ToSet(lv) = ToSet(lw) \ {u}
  PROVE  Waiting(qv, sv, lv, [state EXCEPT ![u] = st],
                 [timed EXCEPT ![u] = FALSE])
<1> DEFINE s == [state EXCEPT ![u] = st]
           d == [timed EXCEPT ![u] = FALSE]
<1>1. s[u] = st /\ ~d[u] /\ \A t \in AppTask \ {u} : s[t] = state[t] /\ d[t] = timed[t]
  BY AppTaskLemma
<1> HIDE DEF s, d
<1>2. ToSet(qv) = {t \in AppTask : s[t] = "TASK_QUEUE_BLOCKED"}
  BY <1>1 DEF Waiting
<1>3. ToSet(sv) \cup ToSet(lv) = {t \in AppTask : s[t] = "LWSEM_BLOCKED"}
  BY <1>1 DEF Waiting
<1>4. \A t \in AppTask : d[t] => s[t] = "READY" \/ t \in ToSet(sv)
  BY <1>1 DEF Waiting
<1>5. Waiting(qv, sv, lv, s, d)
  BY <1>2, <1>3, <1>4 DEF Waiting
<1> QED
  BY <1>5 DEF s, d

-----------------------------------------------------------------------------
(* The calls.                                                               *)

\* A task that is on a queue of an object is alive.
LEMMA WaiterLemma ==
  ASSUME DataOK, WaitsOK, CallsOK, NEW t \in AppTask,
         t \in ToSet(q.waiting) \cup ToSet(sem.waiters) \cup ToSet(lock.waiters)
  PROVE  /\ td[t] = "alive" /\ t \in Task /\ k.state[t] # "READY"
         /\ k.state[t] # "LWSEM_BLOCKED" => ~k.timed[t]
<1>1. k.state[t] \in {"TASK_QUEUE_BLOCKED", "LWSEM_BLOCKED"}
  BY DEF WaitsOK, Waiting
<1>2. td[t] \in Life /\ td[t] \notin {"none", "built"} \cup Dead
  BY <1>1 DEF DataOK, CallsOK, Living
<1>3. td[t] = "alive"
  BY <1>2 DEF Life, Dead
<1> QED
  BY <1>1, <1>3, AppTaskLemma DEF WaitsOK, Waiting

\* What a step of the executing task may assume.
LEMMA RunsLemma ==
  ASSUME IInv, NEW t \in AppTask, Runs(k, t)
  PROVE  /\ k \in Kernel /\ t \in Task /\ IsReady(k, t) /\ k.active = t
         /\ k.state[t] = "READY" /\ ~k.timed[t]
         /\ k.state \in [Task -> State] /\ k.timed \in [Task -> BOOLEAN]
         /\ t \notin ToSet(q.waiting) \cup ToSet(sem.waiters)
                        \cup ToSet(lock.waiters)
         /\ call[t] \in [at : At, who : AppTask] /\ call[t].who \in AppTask
         /\ td[t] = "alive" \/ (td[t] \in Dead /\ call[t].who = t
                                  /\ call[t].at \in {"cleanup", "free"})
<1>1. k \in Kernel /\ IsReady(k, t) /\ k.active = t /\ t \in Task
  BY AppTaskLemma DEF IInv, Sound, Basic, Runs
<1>2. /\ k.state[t] = "READY" /\ ~k.timed[t]
      /\ k.state \in [Task -> State] /\ k.timed \in [Task -> BOOLEAN]
  BY <1>1 DEF IsReady, Kernel
<1>3. t \notin ToSet(q.waiting) \cup ToSet(sem.waiters) \cup ToSet(lock.waiters)
  BY <1>2 DEF IInv, WaitsOK, Waiting
<1>4. call[t] \in [at : At, who : AppTask] /\ call[t].who \in AppTask
  BY DEF IInv, DataOK
<1>5. td[t] \in Life /\ td[t] \notin {"none", "built"}
  BY <1>2 DEF IInv, DataOK, CallsOK, Living
<1>6. td[t] \in Dead => call[t].who = t /\ call[t].at \in {"cleanup", "free"}
  BY <1>2 DEF IInv, CallsOK, Living
<1>7. td[t] = "alive" \/ td[t] \in Dead
  BY <1>5 DEF Life, Dead
<1> QED
  BY <1>1, <1>2, <1>3, <1>4, <1>6, <1>7

\* The states of living tasks may change.
LEMMA LivingStateLemma ==
  ASSUME NEW d, NEW c, NEW state, NEW timed, NEW s, NEW m,
         Living(d, c, state, timed),
         \A t \in AppTask : d[t] # "alive" => s[t] = state[t] /\ m[t] = timed[t]
  PROVE  Living(d, c, s, m)
BY DEF Living, Dead

\* Who may go to which place of which call.
MayGo(place, t, u) ==
  /\ place \in {"run", "exit", "drain", "wantsDestroy", "wantsCreate"}
  /\ place \in {"exit", "wantsDestroy"} => td[u] \in Dead \cup {"alive"}
  /\ place = "exit" => u = t
  /\ place = "wantsCreate" =>
       /\ td[u] = "none"
       /\ \A v \in AppTask :
            call[v].at \in {"wantsCreate", "hasCreate", "ready"} =>
              call[v].who # u

\* The calls when one task, which is alive, begins or leaves a call.
LEMMA GoesLemma ==
  ASSUME DataOK, CallsOK, NEW t \in AppTask, NEW u \in AppTask, NEW place,
         td[t] = "alive", Goes(t, place, u), MayGo(place, t, u)
  PROVE  /\ call' \in [AppTask -> [at : At, who : AppTask]]
         /\ call'[t] = [at |-> place, who |-> u]
         /\ \A v \in AppTask \ {t} : call'[v] = call[v]
         /\ Knowing(td, call') /\ Apart(call')
         /\ Living(td, call', k.state, k.timed)
<1>1. call \in [AppTask -> [at : At, who : AppTask]] /\ place \in At
  BY DEF DataOK, At, MayGo
<1>2. call' = [call EXCEPT ![t] = [at |-> place, who |-> u]]
  BY DEF Goes
<1>3. /\ call' \in [AppTask -> [at : At, who : AppTask]]
      /\ call'[t] = [at |-> place, who |-> u]
      /\ \A v \in AppTask \ {t} : call'[v] = call[v]
  BY <1>1, <1>2
<1>4. call'[t].at = place /\ call'[t].who = u
  BY <1>3
<1>6. Knowing(td, call')
  <2> SUFFICES ASSUME NEW v \in AppTask
               PROVE  /\ call'[v].at \in {"cleanup", "free"} => td[call'[v].who] \in Dead
                      /\ call'[v].at \in {"exit", "wantsDestroy", "hasDestroy"} =>
                           td[call'[v].who] \in Dead \cup {"alive"}
                      /\ call'[v].at = "exit" => call'[v].who = v
                      /\ call'[v].at \in {"wantsCreate", "hasCreate"} =>
                           td[call'[v].who] = "none"
                      /\ call'[v].at = "ready" => td[call'[v].who] = "built"
    BY DEF Knowing
  <2>1. CASE v = t
    BY <1>4, <2>1 DEF MayGo
  <2>2. CASE v # t
    BY <1>3, <2>2 DEF CallsOK, Knowing
  <2> QED
    BY <2>1, <2>2
<1>7. Apart(call')
  BY <1>3, <1>4 DEF CallsOK, Apart, MayGo
<1>8. Living(td, call', k.state, k.timed)
  <2>1. \A v \in AppTask : td[v] # "alive" => call'[v] = call[v]
    BY <1>3
  <2> QED
    BY <2>1 DEF CallsOK, Living, Dead
<1> QED
  BY <1>3, <1>6, <1>7, <1>8

\* Those who wait for the lock are where they were.
LEMMA LockingLemma ==
  ASSUME NEW lw, NEW lv, NEW c, NEW d, NEW t, lw \in Seq(AppTask),
         Locking(lw, c), ToSet(lv) \subseteq ToSet(lw), t \notin ToSet(lv),
         \A v \in AppTask \ {t} : d[v] = c[v]
  PROVE  Locking(lv, d)
<1>1. ToSet(lw) \subseteq AppTask
  BY DEF ToSet
<1> QED
  BY <1>1 DEF Locking

LEMMA LockSameLemma ==
  ASSUME LockKept, lock'.value = lock.value,
         \A v \in AppTask : call'[v].at \in {"hasDestroy", "hasCreate", "cleanup"}
                       <=> call[v].at \in {"hasDestroy", "hasCreate", "cleanup"}
  PROVE  LockKept'
BY DEF LockKept, Holds

LEMMA StrandedLemma ==
  ASSUME NoneStranded, q'.valid = q.valid, q.waiting = <<>> => q'.waiting = <<>>,
         \A v \in AppTask : call[v].at = "drain" => call'[v].at = "drain"
  PROVE  NoneStranded'
BY DEF NoneStranded

\* A step of the kernel that moves no task.
LEMMA KernelStepLemma ==
  ASSUME IInv, UNCHANGED <<td, call, q, sem, lock, made>>,
         resuming' \in BOOLEAN,
         Sound(k'), k'.state = k.state, k'.timed = k.timed
  PROVE  IInv'
<1>1. DataOK' /\ WaitsOK' /\ CallsOK' /\ LockKept' /\ NoneStranded'
  BY DEF IInv, DataOK, WaitsOK, CallsOK, LockKept, Holds, NoneStranded
<1>2. Sound(k)'
  BY DEF Sound, Basic, Agree, NoneAbove, IsReady
<1> QED
  BY <1>1, <1>2 DEF IInv

LEMMA SoundPrime == Sound(k') <=> Sound(k)'
BY DEF Sound, Basic, Agree, NoneAbove, IsReady

\* A step that leaves the kernel and the queues alone: t goes on in its call.
LEMMA CallLemma ==
  ASSUME IInv, NEW t \in AppTask, resuming' = resuming,
         \/ \E u \in Children : Create(t, u)
         \/ \E u \in AppTask : Destroy(t, u)
         \/ AbortSelf(t) \/ Exit(t)
  PROVE  IInv'
<1>1. /\ Runs(k, t) /\ k' = k /\ UNCHANGED <<td, q, sem, lock, made>>
      /\ call[t].at \in {"run", "exit"}
  BY DEF Create, Destroy, AbortSelf, Exit, Calls
<1>2. /\ td[t] = "alive" /\ t \notin ToSet(lock.waiters)
  BY <1>1, RunsLemma
<1>3. /\ DataOK /\ CallsOK /\ WaitsOK /\ LockKept /\ NoneStranded /\ Sound(k)
      /\ lock.waiters \in Seq(AppTask)
  BY DEF IInv, DataOK
<1>4. PICK place \in {"exit", "wantsDestroy", "wantsCreate"}, u \in AppTask :
        Goes(t, place, u) /\ MayGo(place, t, u)
  <2>1. ASSUME NEW u \in Children, Create(t, u)
        PROVE  u \in AppTask /\ Goes(t, "wantsCreate", u) /\ MayGo("wantsCreate", t, u)
    <3>1. /\ Goes(t, "wantsCreate", u) /\ td[u] = "none" /\ u \in AppTask
          /\ \A v \in AppTask : v # u => call[v].who # u
      BY <2>1, TaskLifeAssumption DEF Create
    <3>2. call[u].at = "run"
      BY <1>3, <3>1 DEF CallsOK, Living
    <3> QED
      BY <3>1, <3>2 DEF MayGo
  <2>2. ASSUME NEW u \in AppTask, Destroy(t, u)
        PROVE  Goes(t, "wantsDestroy", u) /\ MayGo("wantsDestroy", t, u)
    BY <2>2 DEF Destroy, Dead, MayGo
  <2>3. ASSUME AbortSelf(t)
        PROVE  Goes(t, "exit", t) /\ MayGo("exit", t, t)
    BY <1>2, <2>3 DEF AbortSelf, MayGo
  <2>4. ASSUME Exit(t)
        PROVE  Goes(t, "wantsDestroy", t) /\ MayGo("wantsDestroy", t, t)
    BY <1>2, <2>4 DEF Exit, MayGo
  <2> QED
    BY <2>1, <2>2, <2>3, <2>4
<1>6. /\ call' \in [AppTask -> [at : At, who : AppTask]]
      /\ call'[t] = [at |-> place, who |-> u]
      /\ \A v \in AppTask \ {t} : call'[v] = call[v]
      /\ Knowing(td, call') /\ Apart(call')
      /\ Living(td, call', k.state, k.timed)
  BY <1>2, <1>3, <1>4, GoesLemma
<1>11. Locking(lock.waiters, call')
  BY <1>2, <1>3, <1>6, LockingLemma DEF CallsOK
<1>7. LockKept' /\ NoneStranded'
  <2>1. call'[t].at = place
    BY <1>6
  <2>2. \A v \in AppTask :
          /\ (call'[v].at \in {"hasDestroy", "hasCreate", "cleanup"})
               <=> (call[v].at \in {"hasDestroy", "hasCreate", "cleanup"})
          /\ call[v].at = "drain" => call'[v].at = "drain"
    BY <1>1, <1>6, <2>1
  <2> QED
    BY <1>1, <1>3, <2>2, LockSameLemma, StrandedLemma
<1>8. Sound(k)' /\ WaitsOK'
  BY <1>1, <1>3, SoundPrime DEF WaitsOK
<1>9. DataOK'
  BY <1>1, <1>3, <1>6 DEF DataOK
<1>10. CallsOK'
  BY <1>1, <1>6, <1>11 DEF CallsOK
<1> QED
  BY <1>7, <1>8, <1>9, <1>10 DEF IInv

-----------------------------------------------------------------------------
(* The task queue.                                                          *)

\* A step that wakes or parks living tasks and moves nobody in its call.
LEMMA AliveStepLemma ==
  ASSUME IInv, UNCHANGED <<td, call>>, lock'.value = lock.value,
         ToSet(lock'.waiters) \subseteq ToSet(lock.waiters),
         \A v \in AppTask : td[v] # "alive" =>
           k'.state[v] = k.state[v] /\ k'.timed[v] = k.timed[v]
  PROVE  CallsOK' /\ LockKept'
<1>1. Locking(lock'.waiters, call')
  BY DEF IInv, CallsOK, Locking
<1>2. Living(td', call', k'.state, k'.timed)
  BY LivingStateLemma DEF IInv, CallsOK
<1>3. Knowing(td', call') /\ Apart(call')
  BY DEF IInv, CallsOK
<1>4. CallsOK'
  BY <1>1, <1>2, <1>3 DEF CallsOK
<1>5. LockKept'
  BY LockSameLemma DEF IInv
<1> QED
  BY <1>4, <1>5

LEMMA JoinedLemma ==
  ASSUME DataOK, k \in Kernel, Inj(q.waiting), NEW t \in AppTask,
         t \notin ToSet(q.waiting)
  PROVE  /\ Joined(t) \in Seq(AppTask) /\ Inj(Joined(t))
         /\ ToSet(Joined(t)) = ToSet(q.waiting) \cup {t}
<1> DEFINE s == q.waiting
           behind == {i \in 1 .. Len(s) : k.my[s[i]] > k.my[t]}
<1>1. s \in Seq(AppTask) /\ s \in Seq(Task) /\ t \in Task /\ ToSet(s) \subseteq AppTask
  BY AppTaskLemma DEF DataOK, ToSet
<1>2. Min(behind \cup {Len(s) + 1}) \in 1 .. Len(s) + 1
  <2>1. behind \cup {Len(s) + 1} \in SUBSET Nat /\ behind \cup {Len(s) + 1} # {}
        /\ behind \cup {Len(s) + 1} \subseteq 1 .. Len(s) + 1
    BY <1>1
  <2> HIDE DEF behind
  <2> QED
    BY <2>1, MinLemma
<1>3. /\ InsertPriority(k, s, t) \in Seq(Task) /\ Inj(InsertPriority(k, s, t))
      /\ ToSet(InsertPriority(k, s, t)) = ToSet(s) \cup {t}
  BY ZenonT(60), <1>1, <1>2, InsertAtLemma DEF InsertPriority
<1>4. InsertPriority(k, s, t) \in Seq(AppTask)
  BY <1>1, <1>3, AppSeqLemma
<1> QED
  BY <1>1, <1>3, <1>4, JoinLemma DEF Joined

\* A ready task joins the task queue.
LEMMA EnterQueueLemma ==
  ASSUME NEW qw, NEW sw, NEW lw, NEW qv,
         NEW state \in [Task -> State], NEW timed \in [Task -> BOOLEAN],
         NEW u \in AppTask, state[u] = "READY", ~timed[u],
         Waiting(qw, sw, lw, state, timed), Inj(qv),
         ToSet(qv) = ToSet(qw) \cup {u}
  PROVE  Waiting(qv, sw, lw, [state EXCEPT ![u] = "TASK_QUEUE_BLOCKED"], timed)
<1> DEFINE s == [state EXCEPT ![u] = "TASK_QUEUE_BLOCKED"]
<1>1. /\ s[u] = "TASK_QUEUE_BLOCKED" /\ \A t \in AppTask \ {u} : s[t] = state[t]
  BY AppTaskLemma
<1> HIDE DEF s
<1>2. ToSet(qv) = {t \in AppTask : s[t] = "TASK_QUEUE_BLOCKED"}
  BY <1>1 DEF Waiting
<1>3. ToSet(sw) \cup ToSet(lw) = {t \in AppTask : s[t] = "LWSEM_BLOCKED"}
  BY <1>1 DEF Waiting
<1>4. \A t \in AppTask : timed[t] => s[t] = "READY" \/ t \in ToSet(sw)
  BY <1>1 DEF Waiting
<1>5. Waiting(qv, sw, lw, s, timed)
  BY <1>2, <1>3, <1>4 DEF Waiting
<1> QED
  BY <1>5 DEF s

\* One task, which is alive and ready, is suspended on the queue.
LEMMA SuspendLemma ==
  ASSUME IInv, NEW t \in AppTask, resuming' = resuming,
         Suspend(t) \/ \E u \in AppTask : SuspendTask(t, u)
  PROVE  IInv'
<1>1. PICK u \in AppTask :
        /\ td[u] = "alive" /\ IsReady(k, u)
        /\ k' = Dispatch(Parked(u)) \/ (u # t /\ k' = Parked(u))
        /\ q' = [q EXCEPT !.waiting = Joined(u)]
  BY RunsLemma DEF Suspend, SuspendTask, Calls
<1>2. /\ UNCHANGED <<td, call, sem, lock, made>>
      /\ q.valid /\ k.active = t
  BY DEF Suspend, SuspendTask, Calls, Runs
<1>3. /\ DataOK /\ WaitsOK /\ CallsOK /\ LockKept /\ Sound(k)
      /\ k \in Kernel /\ k.state[u] = "READY" /\ ~k.timed[u]
      /\ k.state \in [Task -> State] /\ k.timed \in [Task -> BOOLEAN]
      /\ q.waiting \in Seq(AppTask) /\ Inj(q.waiting)
      /\ u \notin ToSet(q.waiting) /\ u \in Task
  BY <1>1, AppTaskLemma
     DEF IInv, Sound, Basic, Kernel, IsReady, DataOK, WaitsOK, Waiting
<1>4. /\ Sound(k') /\ k'.state = [k.state EXCEPT ![u] = "TASK_QUEUE_BLOCKED"]
      /\ k'.timed = k.timed
  <2>1. "TASK_QUEUE_BLOCKED" \in State \ {"READY"}
    BY DEF State
  <2>2. LET d == Parked(u)
        IN  /\ Basic(d) /\ (d.ticking => d.isr > 0) /\ (k.active # u => Sound(d))
            /\ d.state = [k.state EXCEPT ![u] = "TASK_QUEUE_BLOCKED"]
            /\ d.timed = k.timed
    BY SMTT(30), <1>1, <1>3, <2>1, ParkEffect DEF Parked
  <2>3. CASE k' = Dispatch(Parked(u))
    BY <2>2, <2>3, SoundDispatch
  <2>4. CASE u # t /\ k' = Parked(u)
    BY <1>2, <2>2, <2>4
  <2> QED
    BY <1>1, <2>3, <2>4
<1>5. /\ q' \in [valid : BOOLEAN, policy : {"FIFO", "PRIORITY"},
                 waiting : Seq(AppTask)]
      /\ q'.waiting = Joined(u) /\ q'.valid /\ Inj(Joined(u))
      /\ ToSet(Joined(u)) = ToSet(q.waiting) \cup {u}
  BY <1>1, <1>2, <1>3, JoinedLemma DEF DataOK
<1>6. DataOK'
  BY <1>2, <1>3, <1>5 DEF DataOK
<1>7. WaitsOK'
  BY <1>2, <1>3, <1>4, <1>5, EnterQueueLemma DEF WaitsOK
<1>8. CallsOK' /\ LockKept'
  BY <1>1, <1>2, <1>3, <1>4, AliveStepLemma
<1>9. NoneStranded'
  BY <1>5 DEF NoneStranded
<1> QED
  BY <1>4, <1>6, <1>7, <1>8, <1>9, SoundPrime DEF IInv

\* The calls of a step in which one living task, which does not have the
\* lock, begins or leaves a call, or is made to.
LEMMA CallStateLemma ==
  ASSUME IInv, NEW t \in AppTask, NEW u \in AppTask, NEW place,
         td[t] = "alive", Goes(t, place, u), MayGo(place, t, u), ~Holds(t),
         td' = td, lock'.value = lock.value,
         ToSet(lock'.waiters) \subseteq ToSet(lock.waiters),
         t \notin ToSet(lock'.waiters),
         \A v \in AppTask : td[v] # "alive" =>
           k'.state[v] = k.state[v] /\ k'.timed[v] = k.timed[v]
  PROVE  /\ CallsOK' /\ LockKept'
         /\ call' \in [AppTask -> [at : At, who : AppTask]]
         /\ call'[t].at = place
         /\ \A v \in AppTask \ {t} : call'[v] = call[v]
<1>1. DataOK /\ CallsOK /\ LockKept /\ lock.waiters \in Seq(AppTask)
  BY DEF IInv, DataOK
<1>2. /\ call' \in [AppTask -> [at : At, who : AppTask]]
      /\ call'[t] = [at |-> place, who |-> u]
      /\ \A v \in AppTask \ {t} : call'[v] = call[v]
      /\ Knowing(td, call') /\ Apart(call')
      /\ Living(td, call', k.state, k.timed)
  BY <1>1, GoesLemma
<1>3. Living(td', call', k'.state, k'.timed)
  BY <1>2, LivingStateLemma
<1>4. Locking(lock'.waiters, call')
  BY <1>1, <1>2, LockingLemma DEF CallsOK
<1>5. CallsOK'
  BY <1>2, <1>3, <1>4 DEF CallsOK
<1>6. call'[t].at = place
  BY <1>2
<1>7. LockKept'
  <2>1. place \notin {"hasDestroy", "hasCreate", "cleanup"}
    BY DEF MayGo
  <2>2. \A v \in AppTask :
          (call'[v].at \in {"hasDestroy", "hasCreate", "cleanup"})
            <=> (call[v].at \in {"hasDestroy", "hasCreate", "cleanup"})
    BY <1>2, <1>6, <2>1 DEF Holds
  <2> QED
    BY <1>1, <2>2, LockSameLemma
<1> QED
  BY <1>2, <1>5, <1>6, <1>7

\* The first task of the queue is resumed.
LEMMA ReadyFirstLemma ==
  ASSUME IInv, q.waiting # <<>>,
         q'.waiting = Tail(q.waiting), q'.policy = q.policy,
         UNCHANGED <<sem, lock>>,
         k' = ReadyFirst \/ k' = PendScheduler(ReadyFirst)
  PROVE  /\ Sound(k)' /\ WaitsOK'
         /\ q'.waiting \in Seq(AppTask)
         /\ \A v \in AppTask : td[v] # "alive" =>
              k'.state[v] = k.state[v] /\ k'.timed[v] = k.timed[v]
<1> DEFINE u == Head(q.waiting)
<1>1. /\ DataOK /\ WaitsOK /\ CallsOK /\ Sound(k) /\ q.waiting \in Seq(AppTask)
      /\ Waiting(q.waiting, sem.waiters, lock.waiters, k.state, k.timed)
      /\ k.state \in [Task -> State] /\ k.timed \in [Task -> BOOLEAN]
      /\ sem.waiters \in Seq(AppTask) /\ lock.waiters \in Seq(AppTask)
  BY DEF IInv, DataOK, WaitsOK, Sound, Basic, Kernel
<1>2. /\ Inj(q.waiting) /\ Inj(sem.waiters) /\ Inj(lock.waiters)
  BY <1>1 DEF Waiting
<1>3. /\ u \in AppTask /\ u \in ToSet(q.waiting)
      /\ Tail(q.waiting) \in Seq(AppTask) /\ Inj(Tail(q.waiting))
      /\ ToSet(Tail(q.waiting)) = ToSet(q.waiting) \ {u}
  BY <1>1, <1>2, HeadLemma
<1> HIDE DEF u
<1>4. /\ td[u] = "alive" /\ u \in Task
      /\ k.state[u] # "READY" /\ ~k.timed[u]
      /\ u \notin ToSet(sem.waiters) /\ u \notin ToSet(lock.waiters)
  <2>1. k.state[u] = "TASK_QUEUE_BLOCKED"
    BY <1>1, <1>3 DEF Waiting
  <2> QED
    BY <1>1, <1>3, <2>1, WaiterLemma DEF Waiting
<1>5. /\ Sound(k')
      /\ k'.state = [k.state EXCEPT ![u] = "READY"]
      /\ k'.timed = [k.timed EXCEPT ![u] = FALSE]
  <2>1. LET d == TaskReady(k, u)
        IN  /\ Sound(d)
            /\ d.state = [k.state EXCEPT ![u] = "READY"]
            /\ d.timed = [k.timed EXCEPT ![u] = FALSE]
    BY <1>1, <1>4, SoundReady
  <2> QED
    BY <2>1, SoundPend DEF ReadyFirst, u
<1>6. WaitsOK'
  <2>1. /\ ToSet(sem.waiters) = ToSet(sem.waiters) \ {u}
        /\ ToSet(lock.waiters) = ToSet(lock.waiters) \ {u}
    BY <1>4
  <2>2. Waiting(Tail(q.waiting), sem.waiters, lock.waiters,
                [k.state EXCEPT ![u] = "READY"], [k.timed EXCEPT ![u] = FALSE])
    BY <1>1, <1>2, <1>3, <2>1, LeaveLemma
  <2> QED
    BY <1>5, <2>2 DEF WaitsOK
<1>7. \A v \in AppTask : td[v] # "alive" =>
         k'.state[v] = k.state[v] /\ k'.timed[v] = k.timed[v]
  BY <1>1, <1>4, <1>5, AppTaskLemma
<1> QED
  BY <1>3, <1>5, <1>6, <1>7, SoundPrime

LEMMA ResumeLemma ==
  ASSUME IInv, ResumeQueue \/ ResumeMore
  PROVE  IInv'
<1>1. /\ UNCHANGED <<td, call, sem, lock, made>> /\ resuming' \in BOOLEAN
      /\ DataOK /\ Sound(k)
  BY DEF ResumeQueue, ResumeMore, IInv, DataOK
<1>2. CASE /\ q.waiting # <<>> /\ q' = [q EXCEPT !.waiting = Tail(@)]
           /\ k' = ReadyFirst \/ k' = PendScheduler(ReadyFirst)
  <2>1. /\ q'.waiting = Tail(q.waiting) /\ q'.policy = q.policy
        /\ q'.valid = q.valid
    BY <1>1, <1>2 DEF DataOK
  <2>2. /\ Sound(k)' /\ WaitsOK' /\ q'.waiting \in Seq(AppTask)
        /\ \A v \in AppTask : td[v] # "alive" =>
              k'.state[v] = k.state[v] /\ k'.timed[v] = k.timed[v]
    BY <1>1, <1>2, <2>1, ReadyFirstLemma
  <2>3. q' \in [valid : BOOLEAN, policy : {"FIFO", "PRIORITY"},
                waiting : Seq(AppTask)]
    BY <1>1, <1>2, <2>1, <2>2 DEF DataOK
  <2>4. DataOK'
    BY <1>1, <2>3 DEF DataOK
  <2>5. CallsOK' /\ LockKept'
    BY <1>1, <2>2, AliveStepLemma
  <2>6. NoneStranded'
    BY <1>1, <1>2, <2>1 DEF IInv, NoneStranded
  <2> QED
    BY <2>2, <2>4, <2>5, <2>6 DEF IInv
<1>3. CASE k' = PendScheduler(k) /\ UNCHANGED q
  <2>1. Sound(k') /\ k'.state = k.state /\ k'.timed = k.timed
    BY <1>1, <1>3, SoundPend
  <2> QED
    BY <1>1, <1>3, <2>1, KernelStepLemma
<1>4. \/ /\ q.waiting # <<>> /\ q' = [q EXCEPT !.waiting = Tail(@)]
         /\ k' = ReadyFirst \/ k' = PendScheduler(ReadyFirst)
      \/ k' = PendScheduler(k) /\ UNCHANGED q
  BY DEF ResumeQueue, ResumeMore
<1> QED
  BY <1>2, <1>3, <1>4

\* A task in the loop of _taskq_destroy, at its first round or a later one.
LEMMA DestroyQueueLemma ==
  ASSUME IInv, NEW t \in AppTask, resuming' = resuming,
         DestroyQueue(t) \/ Drain(t)
  PROVE  IInv'
<1>1. /\ UNCHANGED <<td, sem, lock, made>> /\ DataOK /\ Sound(k)
      /\ Runs(k, t) /\ call[t].at \in {"run", "drain"}
      /\ q \in [valid : BOOLEAN, policy : {"FIFO", "PRIORITY"},
                waiting : Seq(AppTask)]
  BY DEF DestroyQueue, Drain, Calls, IInv, DataOK
<1>2. /\ td[t] = "alive" /\ t \notin ToSet(lock.waiters) /\ ~Holds(t)
      /\ call[t].who \in AppTask
  BY <1>1, RunsLemma DEF Holds
<1>3. MayGo("drain", t, t) /\ MayGo("run", t, t)
  BY DEF MayGo
<1>4. CASE /\ q.waiting # <<>>
           /\ \/ q' = [q EXCEPT !.valid = FALSE, !.waiting = Tail(@)]
              \/ q' = [q EXCEPT !.waiting = Tail(@)]
           /\ k' = ReadyFirst
           /\ Goes(t, "drain", t) \/ (call[t].at = "drain" /\ UNCHANGED call)
  <2>1. /\ q'.waiting = Tail(q.waiting) /\ q'.policy = q.policy
    BY <1>1, <1>4
  <2>2. /\ Sound(k)' /\ WaitsOK' /\ q'.waiting \in Seq(AppTask)
        /\ \A v \in AppTask : td[v] # "alive" =>
              k'.state[v] = k.state[v] /\ k'.timed[v] = k.timed[v]
    BY <1>1, <1>4, <2>1, ReadyFirstLemma
  <2>3. q' \in [valid : BOOLEAN, policy : {"FIFO", "PRIORITY"},
                waiting : Seq(AppTask)]
    BY <1>1, <1>4, <2>1, <2>2
  <2>4. /\ CallsOK' /\ LockKept'
        /\ call' \in [AppTask -> [at : At, who : AppTask]]
        /\ call'[t].at = "drain"
    <3>1. CASE Goes(t, "drain", t)
      BY <1>1, <1>2, <1>3, <2>2, <3>1, CallStateLemma
    <3>2. CASE call[t].at = "drain" /\ UNCHANGED call
      BY <1>1, <2>2, <3>2, AliveStepLemma DEF DataOK
    <3> QED
      BY <1>4, <3>1, <3>2
  <2>5. DataOK'
    BY <1>1, <2>3, <2>4, resuming' = resuming DEF DataOK
  <2>6. NoneStranded'
    BY <2>4 DEF NoneStranded
  <2> QED
    BY <2>2, <2>4, <2>5, <2>6 DEF IInv
<1>5. CASE /\ q.waiting = <<>>
           /\ q' = [q EXCEPT !.valid = FALSE] \/ UNCHANGED q
           /\ k' = PendScheduler(k)
           /\ Goes(t, "run", t) \/ UNCHANGED call
  <2>1. Sound(k') /\ k'.state = k.state /\ k'.timed = k.timed
    BY <1>1, <1>5, SoundPend
  <2>2. /\ CallsOK' /\ LockKept'
        /\ call' \in [AppTask -> [at : At, who : AppTask]]
    <3>1. CASE Goes(t, "run", t)
      BY <1>1, <1>2, <1>3, <2>1, <3>1, CallStateLemma
    <3>2. CASE UNCHANGED call
      BY <1>1, <2>1, <3>2, AliveStepLemma DEF DataOK
    <3> QED
      BY <1>5, <3>1, <3>2
  <2>3. /\ q' \in [valid : BOOLEAN, policy : {"FIFO", "PRIORITY"},
                   waiting : Seq(AppTask)]
        /\ q'.waiting = q.waiting
    BY <1>1, <1>5
  <2>4. DataOK' /\ NoneStranded'
    BY <1>1, <1>5, <2>2, <2>3 DEF DataOK, NoneStranded
  <2>5. WaitsOK'
    BY <1>1, <2>1, <2>3 DEF IInv, WaitsOK
  <2> QED
    BY <2>1, <2>2, <2>4, <2>5, SoundPrime DEF IInv
<1>6. \/ /\ q.waiting # <<>>
         /\ \/ q' = [q EXCEPT !.valid = FALSE, !.waiting = Tail(@)]
            \/ q' = [q EXCEPT !.waiting = Tail(@)]
         /\ k' = ReadyFirst
         /\ Goes(t, "drain", t) \/ (call[t].at = "drain" /\ UNCHANGED call)
      \/ /\ q.waiting = <<>>
         /\ q' = [q EXCEPT !.valid = FALSE] \/ UNCHANGED q
         /\ k' = PendScheduler(k)
         /\ Goes(t, "run", t) \/ UNCHANGED call
  BY DEF DestroyQueue, Drain
<1> QED
  BY <1>4, <1>5, <1>6

\* The queue is empty when it is created again: its task structure is not
\* in use by anybody, as no destroyer is in its loop.
LEMMA CreateQueueLemma ==
  ASSUME IInv, NEW t \in AppTask, NEW policy \in Policies, resuming' = resuming,
         CreateQueue(t, policy)
  PROVE  IInv'
<1>1. /\ UNCHANGED <<k, td, call, sem, lock>>
      /\ made \in Nat /\ made < MaxQueues /\ made' = made + 1
      /\ q' = [valid |-> TRUE, policy |-> policy, waiting |-> <<>>]
      /\ q.waiting = <<>>
  BY DEF CreateQueue, IInv, DataOK, NoneStranded
<1>2. /\ q' \in [valid : BOOLEAN, policy : {"FIFO", "PRIORITY"},
                 waiting : Seq(AppTask)]
      /\ q'.waiting = <<>> /\ q'.valid
  BY <1>1, TaskLifeAssumption
<1>3. made' \in 0 .. MaxQueues
  BY <1>1, TaskLifeAssumption
<1>4. DataOK'
  BY <1>1, <1>2, <1>3 DEF IInv, DataOK
<1>5. WaitsOK' /\ CallsOK' /\ LockKept'
  BY <1>1, <1>2 DEF IInv, WaitsOK, CallsOK, LockKept, Holds
<1>6. NoneStranded' /\ Sound(k)'
  BY <1>1, <1>2, SoundPrime DEF NoneStranded, IInv
<1> QED
  BY <1>4, <1>5, <1>6 DEF IInv

-----------------------------------------------------------------------------
(* Waiting.                                                                 *)

\* A step of the kernel and the semaphore that moves nobody in its call.
LEMMA WaitStepLemma ==
  ASSUME IInv, UNCHANGED <<td, call, q, lock, made>>, resuming' = resuming,
         Sound(k'), WaitsOK',
         sem' \in [value : 0 .. MaxValue, waiters : Seq(AppTask)],
         \A v \in AppTask : td[v] # "alive" =>
           k'.state[v] = k.state[v] /\ k'.timed[v] = k.timed[v]
  PROVE  IInv'
<1>1. CallsOK' /\ LockKept'
  BY AliveStepLemma
<1>2. DataOK' /\ NoneStranded'
  BY DEF IInv, DataOK, NoneStranded
<1> QED
  BY <1>1, <1>2, SoundPrime DEF IInv

\* _task_block, _time_delay and _task_ready of a blocked task
LEMMA BlockSleepReadyLemma ==
  ASSUME IInv, NEW t \in AppTask, resuming' = resuming,
         \/ Block(t)
         \/ \E d \in Timeouts : Sleep(t, d)
         \/ \E u \in AppTask : Ready(t, u)
  PROVE  IInv'
<1>1. /\ UNCHANGED <<td, call, q, sem, lock, made>> /\ Calls(t) /\ Runs(k, t)
      /\ DataOK /\ WaitsOK /\ Sound(k)
      /\ k.state \in [Task -> State] /\ k.timed \in [Task -> BOOLEAN]
  BY DEF Block, Sleep, Ready, Calls, IInv, Sound, Basic, Kernel
<1>2. /\ td[t] = "alive" /\ IsReady(k, t) /\ t \in Task
      /\ k.state[t] = "READY" /\ ~k.timed[t]
      /\ t \notin ToSet(q.waiting) \cup ToSet(sem.waiters)
                     \cup ToSet(lock.waiters)
  BY <1>1, RunsLemma DEF Calls
<1>3. Waiting(q.waiting, sem.waiters, lock.waiters, k.state, k.timed)
  BY <1>1 DEF WaitsOK
<1>4. CASE Block(t)
  <2>1. /\ Sound(k') /\ k'.state = [k.state EXCEPT ![t] = "BLOCKED"]
        /\ k'.timed = k.timed
    BY <1>1, <1>2, <1>4, SoundBlock DEF Block
  <2>2. k'.timed = [k.timed EXCEPT ![t] = FALSE]
    BY <1>1, <1>2, <2>1
  <2>3. Waiting(q.waiting, sem.waiters, lock.waiters,
                [k.state EXCEPT ![t] = "BLOCKED"], [k.timed EXCEPT ![t] = FALSE])
    <3>1. /\ ToSet(q.waiting) = ToSet(q.waiting) \ {t}
          /\ ToSet(sem.waiters) = ToSet(sem.waiters) \ {t}
          /\ ToSet(lock.waiters) = ToSet(lock.waiters) \ {t}
      BY <1>2
    <3>2. Inj(q.waiting) /\ Inj(sem.waiters) /\ Inj(lock.waiters)
      BY <1>3 DEF Waiting
    <3> QED
      BY <1>1, <1>3, <3>1, <3>2, LeaveLemma
  <2>4. WaitsOK'
    BY <1>1, <2>1, <2>2, <2>3 DEF WaitsOK
  <2>5. \A v \in AppTask : td[v] # "alive" =>
           k'.state[v] = k.state[v] /\ k'.timed[v] = k.timed[v]
    BY <1>1, <1>2, <2>1, AppTaskLemma
  <2> QED
    BY <1>1, <2>1, <2>4, <2>5, WaitStepLemma DEF DataOK
<1>5. ASSUME NEW d \in Timeouts, Sleep(t, d)
      PROVE  IInv'
  <2>1. d \in Int
    BY TaskLifeAssumption
  <2>2. /\ Sound(k') /\ k'.state = k.state
        /\ k'.timed = [k.timed EXCEPT ![t] = TRUE]
    BY <1>1, <1>2, <1>5, <2>1, SoundDelay DEF Sleep
  <2>3. WaitsOK'
    BY <1>1, <1>2, <1>3, <2>2, AppTaskLemma DEF WaitsOK, Waiting
  <2>4. \A v \in AppTask : td[v] # "alive" =>
           k'.state[v] = k.state[v] /\ k'.timed[v] = k.timed[v]
    BY <1>1, <1>2, <2>2, AppTaskLemma
  <2> QED
    BY <1>1, <2>2, <2>3, <2>4, WaitStepLemma DEF DataOK
<1>6. ASSUME NEW u \in AppTask, Ready(t, u)
      PROVE  IInv'
  <2>1. /\ td[u] = "alive" /\ k.state[u] = "BLOCKED" /\ ~k.timed[u] /\ u \in Task
        /\ k' = PendScheduler(TaskReady(k, u))
    BY <1>6, AppTaskLemma DEF Ready
  <2>2. LET d == TaskReady(k, u)
        IN  /\ Sound(d)
            /\ d.state = [k.state EXCEPT ![u] = "READY"]
            /\ d.timed = [k.timed EXCEPT ![u] = FALSE]
    BY <1>1, <2>1, SoundReady
  <2>3. /\ Sound(k') /\ k'.state = [k.state EXCEPT ![u] = "READY"]
        /\ k'.timed = [k.timed EXCEPT ![u] = FALSE]
    BY <2>1, <2>2, SoundPend
  <2>4. Waiting(q.waiting, sem.waiters, lock.waiters,
                [k.state EXCEPT ![u] = "READY"], [k.timed EXCEPT ![u] = FALSE])
    <3>1. /\ ToSet(q.waiting) = ToSet(q.waiting) \ {u}
          /\ ToSet(sem.waiters) = ToSet(sem.waiters) \ {u}
          /\ ToSet(lock.waiters) = ToSet(lock.waiters) \ {u}
      BY <1>3, <2>1 DEF Waiting
    <3>2. Inj(q.waiting) /\ Inj(sem.waiters) /\ Inj(lock.waiters)
      BY <1>3 DEF Waiting
    <3> QED
      BY <1>1, <1>3, <3>1, <3>2, LeaveLemma
  <2>5. WaitsOK'
    BY <1>1, <2>3, <2>4 DEF WaitsOK
  <2>6. \A v \in AppTask : td[v] # "alive" =>
           k'.state[v] = k.state[v] /\ k'.timed[v] = k.timed[v]
    BY <1>1, <2>1, <2>3, AppTaskLemma
  <2> QED
    BY <1>1, <2>3, <2>5, <2>6, WaitStepLemma DEF DataOK
<1> QED
  BY <1>4, <1>5, <1>6

\* A ready task joins the queue of the semaphore, with or without a timeout,
\* or that of the lock.
LEMMA EnterSemLemma ==
  ASSUME NEW qw, NEW sw, NEW lw, NEW sv, NEW lv, NEW b \in BOOLEAN,
         NEW state \in [Task -> State], NEW timed \in [Task -> BOOLEAN],
         NEW u \in AppTask, state[u] = "READY", ~timed[u],
         Waiting(qw, sw, lw, state, timed), Inj(sv), Inj(lv),
         \/ ToSet(sv) = ToSet(sw) \cup {u} /\ ToSet(lv) = ToSet(lw)
         \/ ToSet(sv) = ToSet(sw) /\ ToSet(lv) = ToSet(lw) \cup {u} /\ ~b
  PROVE  Waiting(qw, sv, lv, [state EXCEPT ![u] = "LWSEM_BLOCKED"],
                 [timed EXCEPT ![u] = b])
<1> DEFINE s == [state EXCEPT ![u] = "LWSEM_BLOCKED"]
           d == [timed EXCEPT ![u] = b]
<1>1. /\ s[u] = "LWSEM_BLOCKED" /\ d[u] = b
      /\ \A t \in AppTask \ {u} : s[t] = state[t] /\ d[t] = timed[t]
  BY AppTaskLemma
<1> HIDE DEF s, d
<1>2. u \notin ToSet(sw) /\ u \notin ToSet(lw)
  BY DEF Waiting
<1>3. ToSet(qw) = {t \in AppTask : s[t] = "TASK_QUEUE_BLOCKED"}
  BY <1>1 DEF Waiting
<1>4. ToSet(sv) \cup ToSet(lv) = {t \in AppTask : s[t] = "LWSEM_BLOCKED"}
  BY <1>1 DEF Waiting
<1>5. \A t \in AppTask : d[t] => s[t] = "READY" \/ t \in ToSet(sv)
  BY <1>1 DEF Waiting
<1>6. ToSet(sv) \cap ToSet(lv) = {}
  BY <1>2 DEF Waiting
<1>7. Waiting(qw, sv, lv, s, d)
  BY <1>3, <1>4, <1>5, <1>6 DEF Waiting
<1> QED
  BY <1>7 DEF s, d

LEMMA WaitLemma ==
  ASSUME IInv, NEW t \in AppTask, resuming' = resuming, Wait(t)
  PROVE  IInv'
<1>1. /\ UNCHANGED <<td, call, q, lock, made>> /\ Calls(t) /\ Runs(k, t)
      /\ DataOK /\ WaitsOK /\ Sound(k)
      /\ k.state \in [Task -> State] /\ k.timed \in [Task -> BOOLEAN]
      /\ sem \in [value : 0 .. MaxValue, waiters : Seq(AppTask)]
  BY DEF Wait, Calls, IInv, DataOK, Sound, Basic, Kernel
<1>2. /\ td[t] = "alive" /\ IsReady(k, t) /\ t \in Task
      /\ k.state[t] = "READY" /\ ~k.timed[t] /\ t \notin ToSet(sem.waiters)
  BY <1>1, RunsLemma DEF Calls
<1>3. Waiting(q.waiting, sem.waiters, lock.waiters, k.state, k.timed)
  BY <1>1 DEF WaitsOK
<1>4. CASE sem.value > 0 /\ sem' = [sem EXCEPT !.value = @ - 1] /\ UNCHANGED k
  <2>1. /\ sem' \in [value : 0 .. MaxValue, waiters : Seq(AppTask)]
        /\ sem'.waiters = sem.waiters
    BY <1>1, <1>4, TaskLifeAssumption
  <2>2. Sound(k') /\ WaitsOK'
    BY <1>1, <1>4, <2>1 DEF WaitsOK
  <2> QED
    BY <1>1, <1>4, <2>1, <2>2, WaitStepLemma
<1>5. ASSUME sem' = [sem EXCEPT !.waiters = Append(@, t)],
             NEW b \in BOOLEAN, Sound(k'),
             k'.state = [k.state EXCEPT ![t] = "LWSEM_BLOCKED"],
             k'.timed = [k.timed EXCEPT ![t] = b]
      PROVE  IInv'
  <2>1. /\ sem'.waiters = Append(sem.waiters, t)
        /\ Append(sem.waiters, t) \in Seq(AppTask)
        /\ Inj(Append(sem.waiters, t))
        /\ ToSet(Append(sem.waiters, t)) = ToSet(sem.waiters) \cup {t}
        /\ Inj(lock.waiters)
    BY <1>1, <1>2, <1>3, <1>5, JoinLemma DEF Waiting
  <2>2. sem' \in [value : 0 .. MaxValue, waiters : Seq(AppTask)]
    BY <1>1, <1>5, <2>1
  <2>3. Waiting(q.waiting, Append(sem.waiters, t), lock.waiters,
                [k.state EXCEPT ![t] = "LWSEM_BLOCKED"], [k.timed EXCEPT ![t] = b])
    BY <1>1, <1>2, <1>3, <2>1, EnterSemLemma
  <2>4. WaitsOK'
    BY <1>1, <1>5, <2>1, <2>3 DEF WaitsOK
  <2>5. \A v \in AppTask : td[v] # "alive" =>
           k'.state[v] = k.state[v] /\ k'.timed[v] = k.timed[v]
    BY <1>1, <1>2, <1>5, AppTaskLemma
  <2> QED
    BY <1>1, <1>5, <2>2, <2>4, <2>5, WaitStepLemma
<1>9. Sound(k) /\ IsReady(k, t)
  BY <1>1, <1>2
<1>6. CASE /\ sem' = [sem EXCEPT !.waiters = Append(@, t)]
           /\ k' = Dispatch(Unlink([k EXCEPT !.state[t] = "LWSEM_BLOCKED"], t, k.my[t]))
  <2>1. "LWSEM_BLOCKED" \in State \ {"READY"}
    BY DEF State
  <2>2. k' = Dispatch(StateParked(k, t, "LWSEM_BLOCKED"))
    BY <1>6 DEF StateParked, StateSet
  <2>3. /\ Sound(k') /\ k'.state = [k.state EXCEPT ![t] = "LWSEM_BLOCKED"]
        /\ k'.timed = k.timed
    BY <1>9, <2>1, <2>2, SoundStateParked
  <2>4. k'.timed = [k.timed EXCEPT ![t] = FALSE]
    BY <1>1, <1>2, <2>3
  <2> QED
    BY <1>5, <1>6, <2>3, <2>4
<1>7. ASSUME sem' = [sem EXCEPT !.waiters = Append(@, t)], NEW d \in Timeouts,
             k' = Dispatch(Delay([k EXCEPT !.state[t] = "LWSEM_BLOCKED"], t, d))
      PROVE  IInv'
  <2>1. d \in Int /\ "LWSEM_BLOCKED" \in State \ {"READY"}
    BY TaskLifeAssumption DEF State
  <2>3. k' = Dispatch(Delay(StateSet(k, t, "LWSEM_BLOCKED"), t, d))
    BY <1>7 DEF StateSet
  <2>2. /\ Sound(k') /\ k'.state = [k.state EXCEPT ![t] = "LWSEM_BLOCKED"]
        /\ k'.timed = [k.timed EXCEPT ![t] = TRUE]
    BY <1>9, <2>1, <2>3, SoundStateDelay
  <2> QED
    BY <1>5, <1>7, <2>2
<1>8. \/ sem.value > 0 /\ sem' = [sem EXCEPT !.value = @ - 1] /\ UNCHANGED k
      \/ /\ sem' = [sem EXCEPT !.waiters = Append(@, t)]
         /\ k' = Dispatch(Unlink([k EXCEPT !.state[t] = "LWSEM_BLOCKED"], t, k.my[t]))
      \/ /\ sem' = [sem EXCEPT !.waiters = Append(@, t)]
         /\ \E d \in Timeouts :
              k' = Dispatch(Delay([k EXCEPT !.state[t] = "LWSEM_BLOCKED"], t, d))
  <2>1. [k EXCEPT !.state[t] = "LWSEM_BLOCKED"].my = k.my
    BY <1>1 DEF Sound, Basic, Kernel
  <2> QED
    BY <2>1, Zenon DEF Wait
<1> QED
  BY <1>4, <1>6, <1>7, <1>8

LEMMA LeaveSemLemma ==
  ASSUME NEW qw, NEW sw, NEW lw, NEW sv,
         NEW state \in [Task -> State], NEW timed \in [Task -> BOOLEAN],
         NEW u \in AppTask, Waiting(qw, sw, lw, state, timed),
         u \notin ToSet(qw), u \notin ToSet(lw), Inj(sv),
         ToSet(sv) = ToSet(sw) \ {u}
  PROVE  Waiting(qw, sv, lw, [state EXCEPT ![u] = "READY"],
                 [timed EXCEPT ![u] = FALSE])
<1>1. /\ ToSet(qw) = ToSet(qw) \ {u} /\ ToSet(lw) = ToSet(lw) \ {u}
      /\ Inj(qw) /\ Inj(lw)
  BY DEF Waiting
<1> QED
  BY <1>1, LeaveLemma

\* A living task that does not run leaves the semaphore's queue and is ready.
LEMMA LeavesSemLemma ==
  ASSUME IInv, UNCHANGED <<td, call, q, lock, made>>, resuming' = resuming,
         NEW u \in AppTask, td[u] = "alive",
         u \notin ToSet(q.waiting), u \notin ToSet(lock.waiters),
         sem'.value = sem.value, sem' \in [value : 0 .. MaxValue, waiters : Seq(AppTask)],
         Inj(sem'.waiters), ToSet(sem'.waiters) = ToSet(sem.waiters) \ {u},
         Sound(k'), k'.state = [k.state EXCEPT ![u] = "READY"],
         k'.timed = [k.timed EXCEPT ![u] = FALSE]
  PROVE  IInv'
<1>1. /\ Waiting(q.waiting, sem.waiters, lock.waiters, k.state, k.timed)
      /\ k.state \in [Task -> State] /\ k.timed \in [Task -> BOOLEAN]
  BY DEF IInv, WaitsOK, Sound, Basic, Kernel
<1>3. Waiting(q.waiting, sem'.waiters, lock.waiters,
              [k.state EXCEPT ![u] = "READY"], [k.timed EXCEPT ![u] = FALSE])
  BY <1>1, LeaveSemLemma
<1>4. WaitsOK'
  BY <1>3 DEF WaitsOK
<1>5. \A v \in AppTask : td[v] # "alive" =>
         k'.state[v] = k.state[v] /\ k'.timed[v] = k.timed[v]
  BY <1>1, AppTaskLemma
<1> QED
  BY <1>4, <1>5, WaitStepLemma

LEMMA PostSemLemma ==
  ASSUME IInv, resuming' = resuming, PostSem
  PROVE  IInv'
<1>1. /\ UNCHANGED <<td, call, q, lock, made>>
      /\ DataOK /\ WaitsOK /\ CallsOK /\ Sound(k)
      /\ sem \in [value : 0 .. MaxValue, waiters : Seq(AppTask)]
      /\ Waiting(q.waiting, sem.waiters, lock.waiters, k.state, k.timed)
  BY DEF PostSem, IInv, DataOK, WaitsOK
<1>2. CASE /\ sem.waiters # <<>>
           /\ sem' = [sem EXCEPT !.waiters = Tail(@)]
           /\ k' = CheckRunScheduler(Wake(k, Head(sem.waiters)))
  <2> DEFINE u == Head(sem.waiters)
  <2>1. /\ u \in AppTask /\ u \in ToSet(sem.waiters)
        /\ Tail(sem.waiters) \in Seq(AppTask) /\ Inj(Tail(sem.waiters))
        /\ ToSet(Tail(sem.waiters)) = ToSet(sem.waiters) \ {u}
    BY <1>1, <1>2, HeadLemma DEF Waiting
  <2> HIDE DEF u
  <2>2. /\ td[u] = "alive" /\ u \in Task /\ ~IsReady(k, u)
        /\ u \notin ToSet(q.waiting) /\ u \notin ToSet(lock.waiters)
    BY <1>1, <2>1, WaiterLemma DEF Waiting, IsReady
  <2>3. /\ Sound(k') /\ k'.state = [k.state EXCEPT ![u] = "READY"]
        /\ k'.timed = [k.timed EXCEPT ![u] = FALSE]
    <3>1. LET d == Wake(k, u)
          IN  /\ Sound(d)
              /\ d.state = [k.state EXCEPT ![u] = "READY"]
              /\ d.timed = [k.timed EXCEPT ![u] = FALSE]
      BY <1>1, <2>2, SoundWake
    <3> QED
      BY <1>2, <3>1, SoundCheck DEF u
  <2>4. /\ sem'.value = sem.value /\ sem'.waiters = Tail(sem.waiters)
        /\ sem' \in [value : 0 .. MaxValue, waiters : Seq(AppTask)]
    BY <1>1, <1>2, <2>1
  <2> QED
    BY <1>1, <2>1, <2>2, <2>3, <2>4, LeavesSemLemma
<1>3. CASE sem.value < MaxValue /\ sem' = [sem EXCEPT !.value = @ + 1] /\ UNCHANGED k
  <2>1. /\ sem' \in [value : 0 .. MaxValue, waiters : Seq(AppTask)]
        /\ sem'.waiters = sem.waiters
    BY SMTT(30), <1>1, <1>3, TaskLifeAssumption
  <2>2. Sound(k') /\ WaitsOK'
    BY <1>1, <1>3, <2>1 DEF WaitsOK
  <2> QED
    BY <1>1, <1>3, <2>1, <2>2, WaitStepLemma
<1> QED
  BY <1>2, <1>3 DEF PostSem

\* The tick wakes a delayed task and takes it off the semaphore's queue.
LEMMA WakeDueLemma ==
  ASSUME IInv, resuming' = resuming, WakeDue
  PROVE  IInv'
<1> DEFINE u == Head(k.timeouts)
<1>1. /\ UNCHANGED <<td, call, q, lock, made>>
      /\ DataOK /\ WaitsOK /\ CallsOK /\ Sound(k)
      /\ sem \in [value : 0 .. MaxValue, waiters : Seq(AppTask)]
      /\ Waiting(q.waiting, sem.waiters, lock.waiters, k.state, k.timed)
      /\ k.ticking /\ k.timeouts # <<>> /\ k' = TickWake(k)
      /\ sem' = IF k.state[u] = "LWSEM_BLOCKED"
                THEN [sem EXCEPT !.waiters = Off(@, u)] ELSE sem
  BY DEF WakeDue, Due, IInv, DataOK, WaitsOK
<1>2. /\ Sound(k') /\ u \in AppTask /\ k.timed[u]
      /\ k'.state = [k.state EXCEPT ![u] = "READY"]
      /\ k'.timed = [k.timed EXCEPT ![u] = FALSE]
  BY <1>1, SoundTickWake
<1> HIDE DEF u
<1>3. /\ k.state[u] = "READY" \/ u \in ToSet(sem.waiters)
      /\ u \notin ToSet(q.waiting) /\ u \notin ToSet(lock.waiters)
      /\ Inj(sem.waiters)
      /\ u \in ToSet(sem.waiters) => k.state[u] = "LWSEM_BLOCKED"
  BY <1>1, <1>2 DEF Waiting
<1>4. td[u] = "alive"
  BY <1>1, <1>2 DEF DataOK, CallsOK, Living, Life, Dead
<1>5. /\ Off(sem.waiters, u) \in Seq(AppTask) /\ Inj(Off(sem.waiters, u))
      /\ ToSet(Off(sem.waiters, u)) = ToSet(sem.waiters) \ {u}
  BY <1>1, <1>2, <1>3, OffLemma
<1>6. /\ sem'.value = sem.value /\ sem' \in [value : 0 .. MaxValue, waiters : Seq(AppTask)]
      /\ Inj(sem'.waiters) /\ ToSet(sem'.waiters) = ToSet(sem.waiters) \ {u}
  <2>1. CASE k.state[u] = "LWSEM_BLOCKED"
    BY <1>1, <1>5, <2>1
  <2>2. CASE k.state[u] # "LWSEM_BLOCKED"
    BY <1>1, <1>3, <2>2
  <2> QED
    BY <2>1, <2>2
<1> QED
  BY <1>1, <1>2, <1>3, <1>4, <1>6, LeavesSemLemma

-----------------------------------------------------------------------------
(* The lock, creation and destruction.                                      *)

\* From where to where a call goes on, and what then becomes of the task it
\* is about.
Advances(from, to, x, y) ==
  \/ from = "wantsDestroy" /\ to = "hasDestroy" /\ y = x
  \/ from = "wantsCreate" /\ to = "hasCreate" /\ y = x
  \/ from = "hasDestroy" /\ to = "run" /\ y = x
  \/ from = "hasCreate" /\ to = "ready" /\ y = "built"
  \/ from = "cleanup" /\ to = "free" /\ y = "unlisted"
  \/ from = "ready" /\ to = "run" /\ y = "alive"

LEMMA AdvanceLemma ==
  ASSUME NEW d \in [AppTask -> Life], NEW e \in [AppTask -> Life],
         NEW c \in [AppTask -> [at : At, who : AppTask]],
         NEW b \in [AppTask -> [at : At, who : AppTask]],
         NEW state, NEW timed,
         Living(d, c, state, timed), Knowing(d, c), Apart(c),
         NEW t \in AppTask, b[t].who = c[t].who,
         \A v \in AppTask \ {t} : b[v] = c[v],
         \A v \in AppTask \ {c[t].who} : e[v] = d[v],
         Advances(c[t].at, b[t].at, d[c[t].who], e[c[t].who]),
         d[t] = "alive" \/ c[t].at = "cleanup"
  PROVE  Living(e, b, state, timed) /\ Knowing(e, b) /\ Apart(b)
<1> DEFINE u == c[t].who
<1>1. u \in AppTask /\ c[t].at \in At /\ b[t].at \in At
  OBVIOUS
<1>2. \/ e[u] = d[u]
      \/ d[u] = "none" /\ e[u] = "built" /\ c[t].at = "hasCreate"
      \/ d[u] = "built" /\ e[u] = "alive" /\ c[t].at = "ready"
      \/ d[u] \in Dead /\ e[u] = "unlisted"
  BY <1>1 DEF Advances, Knowing
<1>3. Apart(b)
  <2> SUFFICES ASSUME NEW v \in AppTask, NEW w \in AppTask
               PROVE  /\ {b[v].at, b[w].at} \subseteq {"cleanup", "free"}
                           /\ b[v].who = b[w].who => v = w
                      /\ {b[v].at, b[w].at} \subseteq {"wantsCreate", "hasCreate", "ready"}
                           /\ b[v].who = b[w].who => v = w
    BY DEF Apart
  <2>1. \A x \in AppTask :
          /\ b[x].who = c[x].who
          /\ b[x].at \in {"cleanup", "free"} => c[x].at \in {"cleanup", "free"}
          /\ b[x].at \in {"wantsCreate", "hasCreate", "ready"} =>
               c[x].at \in {"wantsCreate", "hasCreate", "ready"}
    BY DEF Advances
  <2> QED
    BY <2>1 DEF Apart
<1>4. Knowing(e, b)
  <2>1. ASSUME NEW v \in AppTask, v # t
        PROVE  /\ b[v].at \in {"cleanup", "free"} => e[b[v].who] \in Dead
               /\ b[v].at \in {"exit", "wantsDestroy", "hasDestroy"} =>
                    e[b[v].who] \in Dead \cup {"alive"}
               /\ b[v].at = "exit" => b[v].who = v
               /\ b[v].at \in {"wantsCreate", "hasCreate"} => e[b[v].who] = "none"
               /\ b[v].at = "ready" => e[b[v].who] = "built"
    <3>1. b[v] = c[v] /\ c[v].who \in AppTask
      BY <2>1
    <3>2. CASE c[v].who # u
      BY <3>1, <3>2 DEF Knowing
    <3>3. CASE c[v].who = u
      <4>1. c[t].at \in {"hasCreate", "ready"} =>
              c[v].at \notin {"wantsCreate", "hasCreate", "ready"}
        BY <2>1, <3>3 DEF Apart
      <4> QED
        BY <1>2, <3>1, <3>3, <4>1 DEF Knowing, Dead
    <3> QED
      BY <3>2, <3>3
  <2>2. /\ b[t].at \in {"cleanup", "free"} => e[b[t].who] \in Dead
        /\ b[t].at \in {"exit", "wantsDestroy", "hasDestroy"} =>
             e[b[t].who] \in Dead \cup {"alive"}
        /\ b[t].at = "exit" => b[t].who = t
        /\ b[t].at \in {"wantsCreate", "hasCreate"} => e[b[t].who] = "none"
        /\ b[t].at = "ready" => e[b[t].who] = "built"
    BY DEF Knowing, Advances, Dead
  <2> QED
    BY <2>1, <2>2 DEF Knowing
<1>5. Living(e, b, state, timed)
  <2> SUFFICES ASSUME NEW v \in AppTask
               PROVE  /\ e[v] \in {"none", "built"} =>
                           state[v] = "BLOCKED" /\ ~timed[v] /\ b[v].at = "run"
                      /\ e[v] \in Dead =>
                           /\ ~timed[v]
                           /\ \/ state[v] = "BLOCKED"
                              \/ state[v] = "READY" /\ b[v].who = v
                                   /\ b[v].at \in {"cleanup", "free"}
    BY DEF Living
  <2>1. e[v] \in {"none", "built"} => d[v] \in {"none", "built"}
    BY <1>2 DEF Dead
  <2>2. e[v] \in Dead => d[v] \in Dead
    BY <1>2 DEF Dead
  <2>3. d[v] # "alive" =>
          /\ b[v].who = c[v].who
          /\ b[v].at = c[v].at \/ (c[v].at = "cleanup" /\ b[v].at = "free")
    BY DEF Advances
  <2> QED
    BY <2>1, <2>2, <2>3 DEF Living, Dead
<1> QED
  BY <1>3, <1>4, <1>5

LEMMA GrantedLemma ==
  /\ DOMAIN Granted = {"wantsDestroy", "wantsCreate"}
  /\ Granted["wantsDestroy"] = "hasDestroy"
  /\ Granted["wantsCreate"] = "hasCreate"
BY DEF Granted

\* A task that is given the lock goes on with it.
LEMMA GrantLemma ==
  ASSUME NEW d \in [AppTask -> Life],
         NEW c \in [AppTask -> [at : At, who : AppTask]],
         NEW b \in [AppTask -> [at : At, who : AppTask]],
         NEW t \in AppTask, b[t].at = Granted[c[t].at], b[t].who = c[t].who,
         \A v \in AppTask \ {t} : b[v] = c[v],
         NEW state, NEW timed,
         Living(d, c, state, timed), Knowing(d, c), Apart(c),
         c[t].at \in {"wantsDestroy", "wantsCreate"}, d[t] = "alive"
  PROVE  /\ b[t].at \in {"hasDestroy", "hasCreate"}
         /\ Living(d, b, state, timed) /\ Knowing(d, b) /\ Apart(b)
<1>1. Advances(c[t].at, b[t].at, d[c[t].who], d[c[t].who])
  BY GrantedLemma DEF Advances
<1>2. b[t].at \in {"hasDestroy", "hasCreate"}
  BY GrantedLemma
<1> QED
  BY <1>1, <1>2, AdvanceLemma

\* A task takes the lock, or waits for it.
LEMMA TakeLockLemma ==
  ASSUME IInv, NEW t \in AppTask, resuming' = resuming, TakeLock(t)
  PROVE  IInv'
<1>1. /\ UNCHANGED <<td, q, sem, made>> /\ Runs(k, t)
      /\ DataOK /\ WaitsOK /\ CallsOK /\ LockKept /\ NoneStranded /\ Sound(k)
      /\ k.state \in [Task -> State] /\ k.timed \in [Task -> BOOLEAN]
      /\ lock \in [value : 0 .. 1, waiters : Seq(AppTask)]
      /\ call \in [AppTask -> [at : At, who : AppTask]]
      /\ td \in [AppTask -> Life]
  BY DEF TakeLock, IInv, DataOK, Sound, Basic, Kernel
<1>2. call[t].at \in {"wantsDestroy", "wantsCreate"}
  BY GrantedLemma DEF TakeLock, Wants
<1>3. /\ td[t] = "alive" /\ IsReady(k, t) /\ t \in Task
      /\ k.state[t] = "READY" /\ ~k.timed[t] /\ t \notin ToSet(lock.waiters)
  BY <1>1, <1>2, RunsLemma
<1>4. Waiting(q.waiting, sem.waiters, lock.waiters, k.state, k.timed)
  BY <1>1 DEF WaitsOK
<1>5. CASE /\ lock.value > 0
           /\ lock' = [lock EXCEPT !.value = @ - 1]
           /\ call' = [call EXCEPT ![t].at = Granted[@]]
           /\ UNCHANGED k
  <2>1. /\ lock' \in [value : 0 .. 1, waiters : Seq(AppTask)]
        /\ lock'.waiters = lock.waiters /\ lock.value = 1 /\ lock'.value = 0
    BY <1>1, <1>5
  <2>2. /\ call' \in [AppTask -> [at : At, who : AppTask]]
        /\ call'[t].at \in {"hasDestroy", "hasCreate"}
        /\ \A v \in AppTask \ {t} : call'[v] = call[v]
        /\ Living(td, call', k.state, k.timed) /\ Knowing(td, call') /\ Apart(call')
    <3>1. Granted[call[t].at] \in At
      BY <1>2, GrantedLemma DEF At
    <3>2. /\ call' \in [AppTask -> [at : At, who : AppTask]]
          /\ call'[t].at = Granted[call[t].at] /\ call'[t].who = call[t].who
          /\ \A v \in AppTask \ {t} : call'[v] = call[v]
      BY <1>1, <1>5, <3>1
    <3>3. Living(td, call, k.state, k.timed) /\ Knowing(td, call) /\ Apart(call)
      BY <1>1 DEF CallsOK
    <3> QED
      BY <1>1, <1>2, <1>3, <3>2, <3>3, GrantLemma
  <2>3. Locking(lock.waiters, call')
    BY <1>1, <1>3, <2>2, LockingLemma DEF CallsOK
  <2>4. CallsOK'
    BY <1>1, <1>5, <2>1, <2>2, <2>3 DEF CallsOK
  <2>5. LockKept'
    BY <1>1, <2>1, <2>2 DEF LockKept, Holds
  <2>6. NoneStranded'
    BY <1>1, <1>2, <2>2, StrandedLemma
  <2>7. DataOK'
    BY <1>1, <2>1, <2>2, resuming' = resuming DEF DataOK
  <2>8. WaitsOK' /\ Sound(k)'
    BY <1>1, <1>5, <2>1, SoundPrime DEF WaitsOK
  <2> QED
    BY <2>4, <2>5, <2>6, <2>7, <2>8 DEF IInv
<1>6. CASE /\ lock' = [lock EXCEPT !.waiters = Append(@, t)]
           /\ k' = Dispatch([Unlink(k, t, k.my[t]) EXCEPT
                               !.state[t] = "LWSEM_BLOCKED"])
           /\ UNCHANGED call
  <2>1. /\ lock'.waiters = Append(lock.waiters, t)
        /\ Append(lock.waiters, t) \in Seq(AppTask)
        /\ Inj(Append(lock.waiters, t))
        /\ ToSet(Append(lock.waiters, t)) = ToSet(lock.waiters) \cup {t}
        /\ Inj(sem.waiters)
    BY <1>1, <1>3, <1>4, <1>6, JoinLemma DEF Waiting
  <2>2. /\ lock' \in [value : 0 .. 1, waiters : Seq(AppTask)]
        /\ lock'.value = lock.value
    BY <1>1, <1>6, <2>1
  <2>3. /\ Sound(k') /\ k'.state = [k.state EXCEPT ![t] = "LWSEM_BLOCKED"]
        /\ k'.timed = k.timed
    <3>1. "LWSEM_BLOCKED" \in State \ {"READY"} /\ Sound(k) /\ IsReady(k, t)
      BY <1>1, <1>3 DEF State
    <3>2. LET d == [Unlink(k, t, k.my[t]) EXCEPT !.state[t] = "LWSEM_BLOCKED"]
          IN  /\ Basic(d) /\ (d.ticking => d.isr > 0)
              /\ d.state = [k.state EXCEPT ![t] = "LWSEM_BLOCKED"]
              /\ d.timed = k.timed
      BY <3>1, ParkEffect
    <3> QED
      BY <1>6, <3>2, SoundDispatch
  <2>4. k'.timed = [k.timed EXCEPT ![t] = FALSE]
    BY ZenonT(60), <1>1, <1>3, <2>3
  <2>5. Waiting(q.waiting, sem.waiters, Append(lock.waiters, t),
                [k.state EXCEPT ![t] = "LWSEM_BLOCKED"],
                [k.timed EXCEPT ![t] = FALSE])
    BY <1>1, <1>3, <1>4, <2>1, EnterSemLemma
  <2>6. WaitsOK'
    BY <1>1, <2>1, <2>3, <2>4, <2>5 DEF WaitsOK
  <2>7. Living(td', call', k'.state, k'.timed)
    <3>1. \A v \in AppTask : td[v] # "alive" =>
            k'.state[v] = k.state[v] /\ k'.timed[v] = k.timed[v]
      BY <1>1, <1>3, <2>3, AppTaskLemma
    <3>2. Living(td, call, k.state, k.timed)
      BY <1>1 DEF CallsOK
    <3>3. Living(td, call, k'.state, k'.timed)
      BY <3>1, <3>2, LivingStateLemma
    <3> QED
      BY <1>1, <1>6, <3>3
  <2>8. CallsOK'
    <3>1. Locking(lock'.waiters, call')
      BY <1>1, <1>2, <1>6, <2>1 DEF CallsOK, Locking
    <3> QED
      BY <1>1, <1>6, <2>7, <3>1 DEF CallsOK
  <2>9. LockKept' /\ NoneStranded'
    BY <1>1, <1>6, <2>2 DEF LockKept, Holds, NoneStranded
  <2>10. DataOK'
    BY <1>1, <1>6, <2>2, resuming' = resuming DEF DataOK
  <2> QED
    BY <2>3, <2>6, <2>8, <2>9, <2>10, SoundPrime DEF IInv
<1> QED
  BY <1>5, <1>6 DEF TakeLock

\* A task waiting for the lock leaves its queue and is ready.
LEMMA LeaveLockLemma ==
  ASSUME NEW qw, NEW sw, NEW lw, NEW lv,
         NEW state \in [Task -> State], NEW timed \in [Task -> BOOLEAN],
         NEW u \in AppTask, Waiting(qw, sw, lw, state, timed),
         u \in ToSet(lw), Inj(lv), ToSet(lv) = ToSet(lw) \ {u}
  PROVE  Waiting(qw, sw, lv, [state EXCEPT ![u] = "READY"],
                 [timed EXCEPT ![u] = FALSE])
<1>1. /\ ToSet(qw) = ToSet(qw) \ {u} /\ ToSet(sw) = ToSet(sw) \ {u}
      /\ Inj(qw) /\ Inj(sw)
  BY DEF Waiting
<1> QED
  BY <1>1, LeaveLemma

\* The holder gives the lock back, to the first who waits for it, and goes on.
LEMMA PostLockLemma ==
  ASSUME IInv, NEW t \in AppTask, NEW place, Runs(k, t), Holds(t),
         PostLock(t, place),
         UNCHANGED <<q, sem, made>>, resuming' = resuming,
         td' \in [AppTask -> Life],
         \A v \in AppTask \ {call[t].who} : td'[v] = td[v],
         Advances(call[t].at, place, td[call[t].who], td'[call[t].who])
  PROVE  IInv'
<1>1. /\ DataOK /\ WaitsOK /\ CallsOK /\ LockKept /\ NoneStranded /\ Sound(k)
      /\ k.state \in [Task -> State] /\ k.timed \in [Task -> BOOLEAN]
      /\ lock \in [value : 0 .. 1, waiters : Seq(AppTask)]
      /\ call \in [AppTask -> [at : At, who : AppTask]]
      /\ td \in [AppTask -> Life]
      /\ Waiting(q.waiting, sem.waiters, lock.waiters, k.state, k.timed)
      /\ Living(td, call, k.state, k.timed) /\ Knowing(td, call) /\ Apart(call)
  BY DEF IInv, DataOK, Sound, Basic, Kernel, WaitsOK, CallsOK
<1>2. /\ td[t] = "alive" \/ call[t].at = "cleanup"
      /\ t \notin ToSet(lock.waiters) /\ call[t].who \in AppTask
      /\ call[t].at \in {"hasDestroy", "hasCreate", "cleanup"}
  BY RunsLemma DEF Holds
<1>3. /\ place \in {"run", "ready", "free"} /\ place \in At
  BY <1>2 DEF Advances, At
<1>4. lock.value = 0 /\ \A v \in AppTask : Holds(v) => v = t
  BY <1>1 DEF LockKept
<1> DEFINE c == [call EXCEPT ![t].at = place]
<1>5. /\ c \in [AppTask -> [at : At, who : AppTask]]
      /\ c[t].at = place /\ c[t].who = call[t].who
      /\ \A v \in AppTask \ {t} : c[v] = call[v]
  BY <1>1, <1>3
<1> HIDE DEF c
<1>6. Living(td', c, k.state, k.timed) /\ Knowing(td', c) /\ Apart(c)
  <2>1. Advances(call[t].at, c[t].at, td[call[t].who], td'[call[t].who])
    BY <1>5
  <2> QED
    BY SMTT(30), <1>1, <1>2, <1>5, <2>1, AdvanceLemma
<1>7. Locking(lock.waiters, c)
  BY <1>1, <1>2, <1>5, LockingLemma DEF CallsOK
<1>8. CASE /\ lock' = [lock EXCEPT !.value = @ + 1]
           /\ call' = c /\ UNCHANGED k
  <2>1. /\ lock' \in [value : 0 .. 1, waiters : Seq(AppTask)]
        /\ lock'.value = 1 /\ lock'.waiters = lock.waiters
    BY <1>1, <1>4, <1>8
  <2>2. CallsOK'
    BY <1>6, <1>7, <1>8, <2>1 DEF CallsOK
  <2>3. LockKept'
    BY <1>3, <1>4, <1>5, <1>8, <2>1 DEF LockKept, Holds
  <2>4. NoneStranded'
    BY <1>1, <1>2, <1>5, <1>8, StrandedLemma
  <2>5. DataOK'
    BY <1>1, <1>5, <1>8, <2>1, resuming' = resuming DEF DataOK
  <2>6. WaitsOK' /\ Sound(k)'
    BY <1>1, <1>8, <2>1, SoundPrime DEF WaitsOK
  <2> QED
    BY <2>2, <2>3, <2>4, <2>5, <2>6 DEF IInv
<1>9. ASSUME lock.waiters # <<>>, lock' = [lock EXCEPT !.waiters = Tail(@)],
             call' = [call EXCEPT ![t].at = place,
                                  ![Head(lock.waiters)].at = Granted[@]],
             k' = CheckRunScheduler(Wake(k, Head(lock.waiters)))
      PROVE  IInv'
  <2>0. PICK n \in AppTask : n = Head(lock.waiters)
    BY <1>1, <1>9, HeadLemma DEF Waiting
  <2>1. /\ n \in AppTask /\ n \in ToSet(lock.waiters)
        /\ Tail(lock.waiters) \in Seq(AppTask) /\ Inj(Tail(lock.waiters))
        /\ ToSet(Tail(lock.waiters)) = ToSet(lock.waiters) \ {n}
    BY <1>1, <1>9, <2>0, HeadLemma DEF Waiting
  <2>2. /\ lock'.waiters = Tail(lock.waiters) /\ lock'.value = 0
        /\ lock' \in [value : 0 .. 1, waiters : Seq(AppTask)]
    BY <1>1, <1>4, <1>9, <2>1
  <2>3. /\ call' = [call EXCEPT ![t].at = place, ![n].at = Granted[@]]
        /\ k' = CheckRunScheduler(Wake(k, n))
    BY <1>9, <2>0
  <2>4. /\ td[n] = "alive" /\ n \in Task /\ ~IsReady(k, n) /\ n # t
    BY <1>1, <1>2, <2>1, WaiterLemma DEF IsReady
  <2>5. c[n].at \in {"wantsDestroy", "wantsCreate"}
    BY <1>7, <2>1 DEF Locking
  <2>6. td'[n] = "alive"
    <3>1. CASE n = call[t].who
      BY <1>1, <1>2, <2>4, <3>1 DEF Knowing, Advances, Dead
    <3>2. CASE n # call[t].who
      BY <2>1, <2>4, <3>2
    <3> QED
      BY <3>1, <3>2
  <2>7. /\ call' \in [AppTask -> [at : At, who : AppTask]]
        /\ call'[n].at = Granted[c[n].at] /\ call'[n].who = c[n].who
        /\ \A v \in AppTask \ {n} : call'[v] = c[v]
    <3>1. Granted[c[n].at] \in At /\ c[n] = call[n]
      BY <1>5, <2>4, <2>5, GrantedLemma DEF At
    <3>2. call'[t] = [call[t] EXCEPT !.at = place] /\ c[t] = [call[t] EXCEPT !.at = place]
      BY <1>1, <2>1, <2>3, <2>4 DEF c
    <3>3. call'[n] = [call[n] EXCEPT !.at = Granted[call[n].at]]
      BY <1>1, <2>1, <2>3, <2>4
    <3>4. call' = [v \in AppTask |-> call'[v]]
      BY <1>1, <2>3
    <3>5. \A v \in AppTask \ {n} : call'[v] = c[v]
      BY <1>1, <1>5, <2>3, <3>2
    <3>6. /\ call'[n] \in [at : At, who : AppTask] /\ call'[n].who = c[n].who
          /\ call'[n].at = Granted[c[n].at]
      BY <1>1, <2>1, <3>1, <3>3
    <3>7. \A v \in AppTask : call'[v] \in [at : At, who : AppTask]
      BY <1>5, <3>5, <3>6
    <3>8. call' \in [AppTask -> [at : At, who : AppTask]]
      BY <3>4, <3>7
    <3> QED
      BY <3>5, <3>6, <3>8
  <2>8. /\ call'[n].at \in {"hasDestroy", "hasCreate"}
        /\ Living(td', call', k.state, k.timed) /\ Knowing(td', call') /\ Apart(call')
    BY <1>5, <1>6, <2>1, <2>5, <2>6, <2>7, GrantLemma
  <2>9. /\ Sound(k') /\ k'.state = [k.state EXCEPT ![n] = "READY"]
        /\ k'.timed = [k.timed EXCEPT ![n] = FALSE]
    <3>1. LET d == Wake(k, n)
          IN  /\ Sound(d)
              /\ d.state = [k.state EXCEPT ![n] = "READY"]
              /\ d.timed = [k.timed EXCEPT ![n] = FALSE]
      BY <1>1, <2>4, SoundWake
    <3> QED
      BY <2>3, <3>1, SoundCheck
  <2>10. Living(td', call', k'.state, k'.timed)
    <3>1. \A v \in AppTask : td'[v] # "alive" =>
            k'.state[v] = k.state[v] /\ k'.timed[v] = k.timed[v]
      BY <1>1, <2>1, <2>6, <2>9, AppTaskLemma
    <3> QED
      BY <2>8, <3>1, LivingStateLemma
  <2>11. Locking(Tail(lock.waiters), call')
    BY <1>1, <1>7, <2>1, <2>7, LockingLemma
  <2>12. CallsOK'
    BY <2>2, <2>8, <2>10, <2>11 DEF CallsOK
  <2>13. LockKept'
    <3>1. /\ call'[n].at \in {"hasDestroy", "hasCreate", "cleanup"}
          /\ \A v \in AppTask :
               call'[v].at \in {"hasDestroy", "hasCreate", "cleanup"} => v = n
      <4>1. \A v \in AppTask \ {n, t} : call'[v] = call[v]
        BY <1>5, <2>7
      <4>2. call'[t].at = place
        BY <1>5, <2>4, <2>7
      <4> QED
        BY <1>3, <1>4, <2>8, <4>1, <4>2 DEF Holds
    <3> QED
      BY <2>1, <2>2, <3>1 DEF LockKept, Holds
  <2>14. NoneStranded'
    <3>1. \A v \in AppTask : call[v].at = "drain" => call'[v].at = "drain"
      BY <1>2, <1>5, <2>5, <2>7
    <3> QED
      BY <1>1, <3>1, StrandedLemma
  <2>15. DataOK'
    BY <1>1, <2>2, <2>7, resuming' = resuming DEF DataOK
  <2>16. Waiting(q.waiting, sem.waiters, Tail(lock.waiters),
                 [k.state EXCEPT ![n] = "READY"], [k.timed EXCEPT ![n] = FALSE])
    BY <1>1, <2>1, LeaveLockLemma
  <2>17. WaitsOK'
    BY <1>1, <2>2, <2>9, <2>16 DEF WaitsOK
  <2> QED
    BY <2>9, <2>12, <2>13, <2>14, <2>15, <2>17, SoundPrime DEF IInv
<1>10. \/ /\ lock' = [lock EXCEPT !.value = @ + 1]
          /\ call' = c /\ UNCHANGED k
       \/ /\ lock.waiters # <<>> /\ lock' = [lock EXCEPT !.waiters = Tail(@)]
          /\ call' = [call EXCEPT ![t].at = place,
                                  ![Head(lock.waiters)].at = Granted[@]]
          /\ k' = CheckRunScheduler(Wake(k, Head(lock.waiters)))
  BY DEF PostLock, c
<1> QED
  BY <1>8, <1>9, <1>10

\* _task_build_internal with the lock, the end of _task_destroy_internal with
\* it, and the return of one who came second
LEMMA GiveBackLemma ==
  ASSUME IInv, NEW t \in AppTask, resuming' = resuming,
         \/ Build(t)
         \/ Unlist(t)
         \/ Runs(k, t) /\ call[t].at = "hasDestroy" /\ AlreadyDying(t) /\ UNCHANGED made
  PROVE  IInv'
<1>1. td \in [AppTask -> Life] /\ Runs(k, t) /\ Holds(t)
  BY DEF IInv, DataOK, Build, Unlist, Holds
<1>2. call[t].who \in AppTask
  BY <1>1, RunsLemma
<1>3. CASE Build(t)
  <2>1. /\ td' \in [AppTask -> Life]
        /\ \A v \in AppTask \ {call[t].who} : td'[v] = td[v]
        /\ td'[call[t].who] = "built"
    BY <1>1, <1>2, <1>3 DEF Build, Life
  <2>2. Advances(call[t].at, "ready", td[call[t].who], td'[call[t].who])
    BY <1>3, <2>1 DEF Build, Advances
  <2>3. PostLock(t, "ready") /\ UNCHANGED <<q, sem, made>>
    BY <1>3 DEF Build
  <2> QED
    BY <1>1, <2>1, <2>2, <2>3, PostLockLemma
<1>4. CASE Unlist(t)
  <2>1. /\ td' \in [AppTask -> Life]
        /\ \A v \in AppTask \ {call[t].who} : td'[v] = td[v]
        /\ td'[call[t].who] = "unlisted"
    BY <1>1, <1>2, <1>4 DEF Unlist, Life
  <2>2. Advances(call[t].at, "free", td[call[t].who], td'[call[t].who])
    BY <1>4, <2>1 DEF Unlist, Advances
  <2>3. PostLock(t, "free") /\ UNCHANGED <<q, sem, made>>
    BY <1>4 DEF Unlist
  <2> QED
    BY <1>1, <2>1, <2>2, <2>3, PostLockLemma
<1>5. CASE call[t].at = "hasDestroy" /\ AlreadyDying(t) /\ UNCHANGED made
  <2>1. /\ td' \in [AppTask -> Life]
        /\ \A v \in AppTask : td'[v] = td[v]
    BY <1>1, <1>5 DEF AlreadyDying
  <2>2. Advances(call[t].at, "run", td[call[t].who], td'[call[t].who])
    BY <1>2, <1>5, <2>1 DEF Advances
  <2>3. PostLock(t, "run") /\ UNCHANGED <<q, sem, made>>
    BY <1>5 DEF AlreadyDying
  <2> QED
    BY <1>1, <2>1, <2>2, <2>3, PostLockLemma
<1> QED
  BY <1>3, <1>4, <1>5

\* A call that has ended is about nobody.
LEMMA EndLemma ==
  ASSUME NEW d, NEW c, NEW b, NEW state, NEW timed, NEW t \in AppTask,
         Living(d, c, state, timed), Knowing(d, c), Apart(c),
         b[t].at = "run", \A v \in AppTask \ {t} : b[v] = c[v],
         d[t] \in Dead => state[t] = "BLOCKED"
  PROVE  Living(d, b, state, timed) /\ Knowing(d, b) /\ Apart(b)
<1>1. Knowing(d, b)
  <2> SUFFICES ASSUME NEW v \in AppTask
               PROVE  /\ b[v].at \in {"cleanup", "free"} => d[b[v].who] \in Dead
                      /\ b[v].at \in {"exit", "wantsDestroy", "hasDestroy"} =>
                           d[b[v].who] \in Dead \cup {"alive"}
                      /\ b[v].at = "exit" => b[v].who = v
                      /\ b[v].at \in {"wantsCreate", "hasCreate"} =>
                           d[b[v].who] = "none"
                      /\ b[v].at = "ready" => d[b[v].who] = "built"
    BY DEF Knowing
  <2>1. CASE v = t
    BY <2>1
  <2>2. CASE v # t
    BY <2>2 DEF Knowing
  <2> QED
    BY <2>1, <2>2
<1>2. Apart(b)
  BY DEF Apart
<1>3. Living(d, b, state, timed)
  BY DEF Living
<1> QED
  BY <1>1, <1>2, <1>3

\* The child is ready, or stays blocked as its creator wanted it.
LEMMA ReadyChildLemma ==
  ASSUME IInv, NEW t \in AppTask, resuming' = resuming, ReadyChild(t)
  PROVE  IInv'
<1> DEFINE u == call[t].who
<1>1. /\ UNCHANGED <<q, sem, lock, made>> /\ Runs(k, t) /\ call[t].at = "ready"
      /\ DataOK /\ WaitsOK /\ CallsOK /\ LockKept /\ NoneStranded /\ Sound(k)
      /\ k.state \in [Task -> State] /\ k.timed \in [Task -> BOOLEAN]
      /\ lock.waiters \in Seq(AppTask)
      /\ call \in [AppTask -> [at : At, who : AppTask]]
      /\ td \in [AppTask -> Life] /\ td' = [td EXCEPT ![u] = "alive"]
      /\ Goes(t, "run", t)
      /\ k' = PendScheduler(TaskReady(k, u)) \/ k' = k
      /\ Waiting(q.waiting, sem.waiters, lock.waiters, k.state, k.timed)
      /\ Living(td, call, k.state, k.timed) /\ Knowing(td, call) /\ Apart(call)
  BY DEF ReadyChild, IInv, DataOK, Sound, Basic, Kernel, WaitsOK, CallsOK
<1>2. /\ td[t] = "alive" /\ t \notin ToSet(lock.waiters) /\ u \in AppTask
  BY <1>1, RunsLemma
<1>3. /\ td[u] = "built" /\ k.state[u] = "BLOCKED" /\ ~k.timed[u] /\ u \in Task
  BY <1>1, <1>2, AppTaskLemma DEF Knowing, Living
<1> HIDE DEF u
<1>4. /\ td' \in [AppTask -> Life] /\ td'[u] = "alive"
      /\ \A v \in AppTask \ {u} : td'[v] = td[v]
  BY <1>1, <1>2 DEF Life
<1> DEFINE c == [call EXCEPT ![t].at = "run"]
<1>5. /\ c \in [AppTask -> [at : At, who : AppTask]]
      /\ c[t].at = "run" /\ c[t].who = call[t].who
      /\ \A v \in AppTask \ {t} : c[v] = call[v]
  BY <1>1 DEF At
<1> HIDE DEF c
<1>6. Living(td', c, k.state, k.timed) /\ Knowing(td', c) /\ Apart(c)
  <2>1. Advances(call[t].at, c[t].at, td[u], td'[u])
    BY <1>1, <1>4, <1>5 DEF Advances
  <2> QED
    <3>1. /\ td \in [AppTask -> Life] /\ call \in [AppTask -> [at : At, who : AppTask]]
          /\ Living(td, call, k.state, k.timed) /\ Knowing(td, call) /\ Apart(call)
          /\ td[t] = "alive" /\ u = call[t].who
      BY <1>1, <1>2 DEF u
    <3> QED
      BY SMTT(30), <1>4, <1>5, <2>1, <3>1, AdvanceLemma
<1>7. /\ call' \in [AppTask -> [at : At, who : AppTask]] /\ call'[t].at = "run"
      /\ \A v \in AppTask \ {t} : call'[v] = call[v]
      /\ \A v \in AppTask \ {t} : call'[v] = c[v]
  BY <1>1, <1>5 DEF Goes, At
<1>8. td'[t] \notin Dead
  BY <1>2, <1>4 DEF Dead
<1>9. Living(td', call', k.state, k.timed) /\ Knowing(td', call') /\ Apart(call')
  BY <1>6, <1>7, <1>8, EndLemma
<1>10. Locking(lock.waiters, call')
  <2>1. Locking(lock.waiters, call) /\ lock.waiters \in Seq(AppTask)
    BY <1>1 DEF CallsOK
  <2> QED
    BY <1>2, <1>7, <2>1, LockingLemma
<1>11. LockKept'
  <2>1. \A v \in AppTask :
          (call'[v].at \in {"hasDestroy", "hasCreate", "cleanup"})
            <=> (call[v].at \in {"hasDestroy", "hasCreate", "cleanup"})
    BY <1>1, <1>7
  <2> QED
    BY <1>1, <2>1, LockSameLemma
<1>12. NoneStranded'
  BY <1>1, <1>7, StrandedLemma
<1>13. DataOK'
  BY <1>1, <1>4, <1>7, resuming' = resuming DEF DataOK
<1>14. CASE k' = k
  <2>1. CallsOK'
    BY <1>1, <1>9, <1>10, <1>14 DEF CallsOK
  <2>2. WaitsOK' /\ Sound(k)'
    BY <1>1, <1>14, SoundPrime DEF WaitsOK
  <2> QED
    BY <1>11, <1>12, <1>13, <2>1, <2>2 DEF IInv
<1>15. CASE k' = PendScheduler(TaskReady(k, u))
  <2>1. LET d == TaskReady(k, u)
        IN  /\ Sound(d)
            /\ d.state = [k.state EXCEPT ![u] = "READY"]
            /\ d.timed = [k.timed EXCEPT ![u] = FALSE]
    BY <1>1, <1>3, SoundReady
  <2>2. /\ Sound(k') /\ k'.state = [k.state EXCEPT ![u] = "READY"]
        /\ k'.timed = [k.timed EXCEPT ![u] = FALSE]
    BY <1>15, <2>1, SoundPend
  <2>3. Living(td', call', k'.state, k'.timed)
    <3>1. \A v \in AppTask : td'[v] # "alive" =>
            k'.state[v] = k.state[v] /\ k'.timed[v] = k.timed[v]
      BY <1>1, <1>4, <2>2, AppTaskLemma
    <3> QED
      BY <1>9, <3>1, LivingStateLemma
  <2>4. CallsOK'
    BY <1>1, <1>9, <1>10, <2>3 DEF CallsOK
  <2>5. Waiting(q.waiting, sem.waiters, lock.waiters,
                [k.state EXCEPT ![u] = "READY"], [k.timed EXCEPT ![u] = FALSE])
    <3>1. /\ u \notin ToSet(q.waiting) /\ u \notin ToSet(lock.waiters)
          /\ u \notin ToSet(sem.waiters) /\ Inj(sem.waiters)
      BY <1>1, <1>2, <1>3 DEF Waiting
    <3>2. ToSet(sem.waiters) = ToSet(sem.waiters) \ {u}
      BY <3>1
    <3> QED
      BY <1>1, <1>2, <3>1, <3>2, LeaveSemLemma
  <2>6. WaitsOK'
    BY <1>1, <2>2, <2>5 DEF WaitsOK
  <2> QED
    BY <1>11, <1>12, <1>13, <2>2, <2>4, <2>6, SoundPrime DEF IInv
<1> QED
  BY <1>1, <1>14, <1>15

\* The descriptor is freed; a task that destroyed itself leaves.
LEMMA FreeLemma ==
  ASSUME IInv, NEW t \in AppTask, resuming' = resuming, Free(t)
  PROVE  IInv'
<1> DEFINE u == call[t].who
<1>1. /\ UNCHANGED <<q, sem, lock, made>> /\ Runs(k, t) /\ call[t].at = "free"
      /\ DataOK /\ WaitsOK /\ CallsOK /\ LockKept /\ NoneStranded /\ Sound(k)
      /\ k.state \in [Task -> State] /\ k.timed \in [Task -> BOOLEAN]
      /\ call \in [AppTask -> [at : At, who : AppTask]]
      /\ td \in [AppTask -> Life] /\ td' = [td EXCEPT ![u] = "freed"]
      /\ Goes(t, "run", t)
      /\ k' = IF u # t THEN k
              ELSE Dispatch([Unlink(k, t, k.my[t]) EXCEPT !.state[t] = "BLOCKED"])
  BY DEF Free, IInv, DataOK, Sound, Basic, Kernel
<1>2. /\ Living(td, call, k.state, k.timed) /\ Knowing(td, call) /\ Apart(call)
      /\ Locking(lock.waiters, call) /\ lock.waiters \in Seq(AppTask)
      /\ Waiting(q.waiting, sem.waiters, lock.waiters, k.state, k.timed)
  BY <1>1 DEF WaitsOK, CallsOK, DataOK
<1>3. /\ t \notin ToSet(lock.waiters) /\ u \in AppTask /\ t \in Task
      /\ IsReady(k, t) /\ k.state[t] = "READY" /\ ~k.timed[t]
      /\ t \notin ToSet(q.waiting) \cup ToSet(sem.waiters)
      /\ td[t] = "alive" \/ (td[t] \in Dead /\ u = t)
  BY <1>1, RunsLemma
<1>4. td[u] \in Dead
  BY <1>1, <1>2 DEF Knowing
<1> HIDE DEF u
<1>5. /\ td' \in [AppTask -> Life] /\ td'[u] = "freed"
      /\ \A v \in AppTask \ {u} : td'[v] = td[v]
  BY <1>1, <1>3 DEF Life
<1>6. Living(td', call, k.state, k.timed) /\ Knowing(td', call)
  <2>1. Living(td', call, k.state, k.timed)
    BY <1>2, <1>3, <1>4, <1>5 DEF Living, Dead
  <2>2. \A v \in AppTask : td[v] = td'[v] \/ (td[v] \in Dead /\ td'[v] \in Dead)
    BY <1>4, <1>5 DEF Dead
  <2>3. Knowing(td', call)
    BY <1>1, <1>2, <2>2 DEF Knowing, Dead
  <2> QED
    BY <2>1, <2>3
<1>7. /\ call' \in [AppTask -> [at : At, who : AppTask]] /\ call'[t].at = "run"
      /\ \A v \in AppTask \ {t} : call'[v] = call[v]
  BY <1>1 DEF Goes, At
<1>8. Locking(lock.waiters, call')
  BY <1>2, <1>3, <1>7, LockingLemma
<1>9. LockKept'
  <2>1. \A v \in AppTask :
          (call'[v].at \in {"hasDestroy", "hasCreate", "cleanup"})
            <=> (call[v].at \in {"hasDestroy", "hasCreate", "cleanup"})
    BY <1>1, <1>7
  <2> QED
    BY <1>1, <2>1, LockSameLemma
<1>10. NoneStranded'
  BY <1>1, <1>7, StrandedLemma
<1>11. DataOK'
  BY <1>1, <1>5, <1>7, resuming' = resuming DEF DataOK
<1>14. Apart(call)
  BY <1>2
<1>12. CASE u # t
  <2>1. td'[t] \notin Dead
    BY <1>3, <1>5, <1>12 DEF Dead
  <2>2. Living(td', call', k.state, k.timed) /\ Knowing(td', call') /\ Apart(call')
    BY <1>6, <1>7, <1>14, <2>1, EndLemma
  <2>3. CallsOK'
    BY <1>1, <1>8, <1>12, <2>2 DEF CallsOK
  <2>4. WaitsOK' /\ Sound(k)'
    BY <1>1, <1>12, SoundPrime DEF WaitsOK
  <2> QED
    BY <1>9, <1>10, <1>11, <2>3, <2>4 DEF IInv
<1>13. CASE u = t
  <2>1. /\ Sound(k') /\ k'.state = [k.state EXCEPT ![t] = "BLOCKED"]
        /\ k'.timed = k.timed
    <3>1. "BLOCKED" \in State \ {"READY"} /\ Sound(k) /\ IsReady(k, t)
      BY <1>1, <1>3 DEF State
    <3>2. LET d == [Unlink(k, t, k.my[t]) EXCEPT !.state[t] = "BLOCKED"]
          IN  /\ Basic(d) /\ (d.ticking => d.isr > 0)
              /\ d.state = [k.state EXCEPT ![t] = "BLOCKED"]
              /\ d.timed = k.timed
      BY <3>1, ParkEffect
    <3> QED
      BY <1>1, <1>13, <3>2, SoundDispatch
  <2>2. /\ k'.state[t] = "BLOCKED"
        /\ \A v \in AppTask \ {t} : k'.state[v] = k.state[v]
        /\ k'.timed = [k.timed EXCEPT ![t] = FALSE]
    <3>1. k.state \in [Task -> State] /\ k.timed \in [Task -> BOOLEAN] /\ ~k.timed[t]
      BY <1>1, <1>3
    <3> QED
      BY ZenonT(60), <1>3, <2>1, <3>1, AppTaskLemma
  <2>3. Living(td', call, k'.state, k'.timed)
    BY <1>3, <1>5, <1>6, <1>13, <2>1, <2>2 DEF Living, Dead
  <2>4. Living(td', call', k'.state, k'.timed) /\ Knowing(td', call') /\ Apart(call')
    <3>1. Knowing(td', call) /\ k'.state[t] = "BLOCKED"
      BY <1>6, <2>2
    <3> QED
      BY <1>7, <1>14, <2>3, <3>1, EndLemma
  <2>5. CallsOK'
    BY <1>1, <1>8, <2>4 DEF CallsOK
  <2>6. Waiting(q.waiting, sem.waiters, lock.waiters,
                [k.state EXCEPT ![t] = "BLOCKED"], [k.timed EXCEPT ![t] = FALSE])
    <3>1. /\ ToSet(q.waiting) = ToSet(q.waiting) \ {t}
          /\ ToSet(sem.waiters) = ToSet(sem.waiters) \ {t}
          /\ ToSet(lock.waiters) = ToSet(lock.waiters) \ {t}
      BY <1>3
    <3>2. Inj(q.waiting) /\ Inj(sem.waiters) /\ Inj(lock.waiters)
      BY <1>2 DEF Waiting
    <3> QED
      BY <1>1, <1>2, <3>1, <3>2, LeaveLemma
  <2>7. WaitsOK'
    BY <1>1, <2>1, <2>2, <2>6 DEF WaitsOK
  <2> QED
    BY <1>9, <1>10, <1>11, <2>1, <2>5, <2>7, SoundPrime DEF IInv
<1> QED
  BY <1>12, <1>13

\* A task leaves all the queues, which its state does not decide.
LEMMA OffAllLemma ==
  ASSUME DataOK, Waiting(q.waiting, sem.waiters, lock.waiters, k.state, k.timed),
         k.state \in [Task -> State], k.timed \in [Task -> BOOLEAN],
         NEW u \in AppTask, NEW st \in {"READY", "BLOCKED"}
  PROVE  /\ Off(q.waiting, u) \in Seq(AppTask)
         /\ Off(sem.waiters, u) \in Seq(AppTask)
         /\ Off(lock.waiters, u) \in Seq(AppTask)
         /\ ToSet(Off(lock.waiters, u)) = ToSet(lock.waiters) \ {u}
         /\ q.waiting = <<>> => Off(q.waiting, u) = <<>>
         /\ Waiting(Off(q.waiting, u), Off(sem.waiters, u), Off(lock.waiters, u),
                    [k.state EXCEPT ![u] = st], [k.timed EXCEPT ![u] = FALSE])
<1>1. /\ q.waiting \in Seq(AppTask) /\ sem.waiters \in Seq(AppTask)
      /\ lock.waiters \in Seq(AppTask)
      /\ Inj(q.waiting) /\ Inj(sem.waiters) /\ Inj(lock.waiters)
  BY DEF DataOK, Waiting
<1>2. /\ Off(q.waiting, u) \in Seq(AppTask) /\ Inj(Off(q.waiting, u))
      /\ ToSet(Off(q.waiting, u)) = ToSet(q.waiting) \ {u}
  BY <1>1, OffLemma
<1>3. /\ Off(sem.waiters, u) \in Seq(AppTask) /\ Inj(Off(sem.waiters, u))
      /\ ToSet(Off(sem.waiters, u)) = ToSet(sem.waiters) \ {u}
  BY <1>1, OffLemma
<1>4. /\ Off(lock.waiters, u) \in Seq(AppTask) /\ Inj(Off(lock.waiters, u))
      /\ ToSet(Off(lock.waiters, u)) = ToSet(lock.waiters) \ {u}
  BY <1>1, OffLemma
<1>5. Waiting(Off(q.waiting, u), Off(sem.waiters, u), Off(lock.waiters, u),
              [k.state EXCEPT ![u] = st], [k.timed EXCEPT ![u] = FALSE])
  BY ZenonT(60), <1>2, <1>3, <1>4, LeaveLemma
<1>6. q.waiting = <<>> => Off(q.waiting, u) = <<>>
  BY EmptyLemma DEF Off
<1> QED
  BY <1>2, <1>3, <1>4, <1>5, <1>6

\* The victim of a destruction leaves every queue.
LEMMA BuryLemma ==
  ASSUME IInv, NEW t \in AppTask, resuming' = resuming, UNCHANGED made,
         Runs(k, t), call[t].at = "hasDestroy", td[call[t].who] \notin Dead,
         Bury(t, call[t].who)
  PROVE  IInv'
<1>0. PICK u \in AppTask : u = call[t].who
  BY DEF IInv, DataOK
<1>1. /\ DataOK /\ WaitsOK /\ CallsOK /\ LockKept /\ NoneStranded /\ Sound(k)
      /\ k.state \in [Task -> State] /\ k.timed \in [Task -> BOOLEAN]
      /\ call \in [AppTask -> [at : At, who : AppTask]]
      /\ td \in [AppTask -> Life]
  BY DEF IInv, DataOK, Sound, Basic, Kernel
<1>2. /\ Living(td, call, k.state, k.timed) /\ Knowing(td, call) /\ Apart(call)
      /\ Locking(lock.waiters, call) /\ lock.waiters \in Seq(AppTask)
      /\ Waiting(q.waiting, sem.waiters, lock.waiters, k.state, k.timed)
  BY <1>1 DEF WaitsOK, CallsOK, DataOK
<1>3. /\ td' = [td EXCEPT ![u] = "dying"]
      /\ call' = [call EXCEPT ![t].at = "cleanup"]
      /\ k' = IF u = t THEN k
              ELSE [(IF IsReady(k, u) THEN Unlink(k, u, k.my[u])
                     ELSE TimeDequeue(k, u)) EXCEPT !.state[u] = "BLOCKED"]
      /\ q' = [q EXCEPT !.waiting = Off(@, u)]
      /\ sem' = [sem EXCEPT !.waiters = Off(@, u)]
      /\ lock' = [lock EXCEPT !.waiters = Off(@, u)]
  BY <1>0 DEF Bury, Buried
<1>4. /\ t \notin ToSet(lock.waiters) /\ t \in Task /\ u \in Task
      /\ k.active = t /\ k.state[t] = "READY" /\ ~k.timed[t]
      /\ td[t] = "alive"
  BY <1>1, RunsLemma, AppTaskLemma
<1>5. td[u] = "alive"
  BY <1>0, <1>2 DEF Knowing
<1>6. /\ td' \in [AppTask -> Life] /\ td'[u] = "dying"
      /\ \A v \in AppTask \ {u} : td'[v] = td[v]
  BY <1>1, <1>3 DEF Life
<1>7. /\ call' \in [AppTask -> [at : At, who : AppTask]]
      /\ call'[t].at = "cleanup" /\ call'[t].who = u
      /\ \A v \in AppTask \ {t} : call'[v] = call[v]
  BY <1>0, <1>1, <1>3 DEF At
<1>8. PICK st \in {"READY", "BLOCKED"} :
        /\ Sound(k')
        /\ k'.state = [k.state EXCEPT ![u] = st]
        /\ k'.timed = [k.timed EXCEPT ![u] = FALSE]
        /\ st = "READY" => u = t
  <2>1. CASE u = t
    <3>1. /\ k' = k /\ k.state = [k.state EXCEPT ![u] = "READY"]
          /\ k.timed = [k.timed EXCEPT ![u] = FALSE]
      BY <1>1, <1>3, <1>4, <2>1
    <3> QED
      BY <1>1, <2>1, <3>1
  <2>2. CASE u # t /\ IsReady(k, u)
    <3>1. /\ "BLOCKED" \in State \ {"READY"} /\ Sound(k) /\ IsReady(k, u)
          /\ k.active # u
      BY <1>1, <1>4, <2>2 DEF State
    <3>2. k' = [Unlink(k, u, k.my[u]) EXCEPT !.state[u] = "BLOCKED"]
      BY <1>3, <2>2
    <3>3. /\ Sound(k') /\ k'.state = [k.state EXCEPT ![u] = "BLOCKED"]
          /\ k'.timed = k.timed
      BY <3>1, <3>2, ParkEffect
    <3>4. k.timed = [k.timed EXCEPT ![u] = FALSE]
      BY <1>1, <2>2 DEF IsReady
    <3> QED
      BY <3>3, <3>4
  <2>3. CASE u # t /\ ~IsReady(k, u)
    <3>1. "BLOCKED" \in State \ {"READY"} /\ Sound(k) /\ ~IsReady(k, u)
      BY <1>1, <2>3 DEF State
    <3>2. k' = [TimeDequeue(k, u) EXCEPT !.state[u] = "BLOCKED"]
      BY <1>3, <2>3
    <3>3. /\ Sound(k') /\ k'.state = [k.state EXCEPT ![u] = "BLOCKED"]
          /\ k'.timed = [k.timed EXCEPT ![u] = FALSE]
      BY <1>4, <3>1, <3>2, SoundBury
    <3> QED
      BY <3>3
  <2> QED
    BY <2>1, <2>2, <2>3
<1>9. /\ Off(q.waiting, u) \in Seq(AppTask)
      /\ Off(sem.waiters, u) \in Seq(AppTask)
      /\ Off(lock.waiters, u) \in Seq(AppTask)
      /\ ToSet(Off(lock.waiters, u)) = ToSet(lock.waiters) \ {u}
      /\ q.waiting = <<>> => Off(q.waiting, u) = <<>>
      /\ Waiting(Off(q.waiting, u), Off(sem.waiters, u), Off(lock.waiters, u),
                 [k.state EXCEPT ![u] = st], [k.timed EXCEPT ![u] = FALSE])
  BY <1>1, <1>2, OffAllLemma
<1>10. /\ q' \in [valid : BOOLEAN, policy : {"FIFO", "PRIORITY"},
                  waiting : Seq(AppTask)]
       /\ sem' \in [value : 0 .. MaxValue, waiters : Seq(AppTask)]
       /\ lock' \in [value : 0 .. 1, waiters : Seq(AppTask)]
       /\ q'.waiting = Off(q.waiting, u) /\ q'.valid = q.valid
       /\ sem'.waiters = Off(sem.waiters, u)
       /\ lock'.waiters = Off(lock.waiters, u) /\ lock'.value = lock.value
  BY <1>1, <1>3, <1>9 DEF DataOK
<1>11. WaitsOK'
  BY <1>8, <1>9, <1>10 DEF WaitsOK
<1>12. Living(td', call', k'.state, k'.timed)
  <2>1. /\ k'.state[u] = st /\ ~k'.timed[u]
        /\ \A v \in AppTask \ {u} : k'.state[v] = k.state[v] /\ k'.timed[v] = k.timed[v]
    BY <1>1, <1>4, <1>8, AppTaskLemma
  <2> QED
    BY <1>2, <1>4, <1>6, <1>7, <1>8, <2>1 DEF Living, Dead
<1>13. Knowing(td', call')
  <2> SUFFICES ASSUME NEW v \in AppTask
               PROVE  /\ call'[v].at \in {"cleanup", "free"} => td'[call'[v].who] \in Dead
                      /\ call'[v].at \in {"exit", "wantsDestroy", "hasDestroy"} =>
                           td'[call'[v].who] \in Dead \cup {"alive"}
                      /\ call'[v].at = "exit" => call'[v].who = v
                      /\ call'[v].at \in {"wantsCreate", "hasCreate"} =>
                           td'[call'[v].who] = "none"
                      /\ call'[v].at = "ready" => td'[call'[v].who] = "built"
    BY DEF Knowing
  <2>1. CASE v = t
    BY <1>6, <1>7, <2>1 DEF Dead
  <2>2. CASE v # t
    <3>1. call'[v] = call[v] /\ call[v].who \in AppTask
      BY <1>1, <1>7, <2>2
    <3>2. CASE call[v].who = u
      BY <1>2, <1>5, <1>6, <3>1, <3>2 DEF Knowing, Dead
    <3>3. CASE call[v].who # u
      BY <1>2, <1>6, <3>1, <3>3 DEF Knowing
    <3> QED
      BY <3>2, <3>3
  <2> QED
    BY <2>1, <2>2
<1>14. Apart(call')
  <2>1. \A v \in AppTask : call[v].at \in {"cleanup", "free"} => call[v].who # u
    BY <1>2, <1>5 DEF Knowing, Dead
  <2> QED
    BY <1>2, <1>7, <2>1 DEF Apart
<1>15. CallsOK'
  <2>1. Locking(Off(lock.waiters, u), call')
    <3>1. /\ ToSet(Off(lock.waiters, u)) \subseteq ToSet(lock.waiters)
          /\ t \notin ToSet(Off(lock.waiters, u))
      BY <1>4, <1>9
    <3> QED
      BY <1>2, <1>7, <3>1, LockingLemma
  <2> QED
    BY <1>10, <1>12, <1>13, <1>14, <2>1 DEF CallsOK
<1>16. LockKept'
  <2>1. \A v \in AppTask :
          (call'[v].at \in {"hasDestroy", "hasCreate", "cleanup"})
            <=> (call[v].at \in {"hasDestroy", "hasCreate", "cleanup"})
    BY <1>7
  <2> QED
    BY <1>1, <1>10, <2>1, LockSameLemma
<1>17. NoneStranded'
  BY <1>1, <1>7, <1>9, <1>10, StrandedLemma
<1>18. DataOK'
  BY <1>1, <1>6, <1>7, <1>10, resuming' = resuming DEF DataOK
<1> QED
  BY <1>8, <1>11, <1>15, <1>16, <1>17, <1>18, SoundPrime DEF IInv

LEMMA RemoveVictimLemma ==
  ASSUME IInv, NEW t \in AppTask, resuming' = resuming, RemoveVictim(t)
  PROVE  IInv'
BY GiveBackLemma, BuryLemma DEF RemoveVictim

\* Another task is made to destroy itself.
LEMMA AbortLemma ==
  ASSUME Cautious, IInv, NEW t \in AppTask, NEW u \in AppTask,
         resuming' = resuming, Abort(t, u)
  PROVE  IInv'
<1>1. /\ DataOK /\ WaitsOK /\ CallsOK /\ LockKept /\ NoneStranded /\ Sound(k)
      /\ k.state \in [Task -> State] /\ k.timed \in [Task -> BOOLEAN]
      /\ UNCHANGED <<td, made>>
  BY DEF Abort, IInv, DataOK, Sound, Basic, Kernel
<1>2. /\ Waiting(q.waiting, sem.waiters, lock.waiters, k.state, k.timed)
      /\ lock.waiters \in Seq(AppTask) /\ sem.waiters \in Seq(AppTask)
      /\ Inj(lock.waiters) /\ Inj(sem.waiters)
  BY <1>1 DEF WaitsOK, DataOK, Waiting
<1>3. /\ td[u] = "alive" /\ ~Holds(u) /\ call[u].at # "drain" /\ u \in Task
      /\ ~(k.state[u] = "LWSEM_BLOCKED" /\ k.timed[u])
      /\ Goes(u, "exit", u)
      /\ q' = [q EXCEPT !.waiting = Off(@, u)]
  BY AppTaskLemma DEF Cautious, Abort, MayAbort
<1>4. k' = IF IsReady(k, u) THEN k ELSE CheckRunScheduler(Wake(k, u))
  BY <1>3 DEF Abort
<1>5. /\ Sound(k')
      /\ k'.state = [k.state EXCEPT ![u] = "READY"]
      /\ k'.timed = [k.timed EXCEPT ![u] = FALSE]
  <2>1. CASE IsReady(k, u)
    <3>1. /\ k.state = [k.state EXCEPT ![u] = "READY"]
          /\ k.timed = [k.timed EXCEPT ![u] = FALSE]
      BY <1>1, <2>1 DEF IsReady
    <3> QED
      BY <1>1, <1>4, <2>1, <3>1
  <2>2. CASE ~IsReady(k, u)
    <3>1. LET d == Wake(k, u)
          IN  /\ Sound(d)
              /\ d.state = [k.state EXCEPT ![u] = "READY"]
              /\ d.timed = [k.timed EXCEPT ![u] = FALSE]
      BY <1>1, <1>3, <2>2, SoundWake
    <3> QED
      BY <1>4, <2>2, <3>1, SoundCheck
  <2> QED
    BY <2>1, <2>2
<1>6. /\ Off(q.waiting, u) \in Seq(AppTask)
      /\ Off(sem.waiters, u) \in Seq(AppTask)
      /\ Off(lock.waiters, u) \in Seq(AppTask)
      /\ ToSet(Off(lock.waiters, u)) = ToSet(lock.waiters) \ {u}
      /\ q.waiting = <<>> => Off(q.waiting, u) = <<>>
      /\ Waiting(Off(q.waiting, u), Off(sem.waiters, u), Off(lock.waiters, u),
                 [k.state EXCEPT ![u] = "READY"], [k.timed EXCEPT ![u] = FALSE])
  BY <1>1, <1>2, OffAllLemma
<1>7. /\ sem' \in [value : 0 .. MaxValue, waiters : Seq(AppTask)]
      /\ lock' \in [value : 0 .. 1, waiters : Seq(AppTask)]
      /\ sem'.waiters = Off(sem.waiters, u)
      /\ lock'.waiters = Off(lock.waiters, u) /\ lock'.value = lock.value
  <2>1. CASE k.timed[u]
    <3>1. u \notin ToSet(sem.waiters) /\ u \notin ToSet(lock.waiters)
      BY <1>2, <1>3, <2>1 DEF Waiting
    <3>2. UNCHANGED <<sem, lock>>
      BY <2>1 DEF Abort
    <3> QED
      BY <1>1, <3>1, <3>2 DEF DataOK, Off
  <2>2. CASE ~k.timed[u]
    <3>1. /\ sem' = [sem EXCEPT !.waiters = Off(@, u)]
          /\ lock' = [lock EXCEPT !.waiters = Off(@, u)]
      BY <2>2 DEF Abort
    <3> QED
      BY <1>1, <1>6, <3>1 DEF DataOK
  <2> QED
    BY <2>1, <2>2
<1>8. /\ q' \in [valid : BOOLEAN, policy : {"FIFO", "PRIORITY"},
                 waiting : Seq(AppTask)]
      /\ q'.waiting = Off(q.waiting, u) /\ q'.valid = q.valid
  BY <1>1, <1>3, <1>6 DEF DataOK
<1>9. WaitsOK'
  BY <1>5, <1>6, <1>7, <1>8 DEF WaitsOK
<1>10. /\ CallsOK' /\ LockKept'
       /\ call' \in [AppTask -> [at : At, who : AppTask]]
       /\ call'[u].at = "exit"
       /\ \A v \in AppTask \ {u} : call'[v] = call[v]
  <2>1. MayGo("exit", u, u)
    BY <1>3 DEF MayGo
  <2>2. \A v \in AppTask : td[v] # "alive" =>
           k'.state[v] = k.state[v] /\ k'.timed[v] = k.timed[v]
    BY <1>1, <1>3, <1>5, AppTaskLemma
  <2>3. /\ ToSet(lock'.waiters) \subseteq ToSet(lock.waiters)
        /\ u \notin ToSet(lock'.waiters) /\ td' = td
    BY <1>1, <1>6, <1>7
  <2> QED
    BY <1>3, <1>7, <2>1, <2>2, <2>3, CallStateLemma
<1>11. NoneStranded'
  <2>1. \A v \in AppTask : call[v].at = "drain" => call'[v].at = "drain"
    BY <1>3, <1>10
  <2> QED
    BY <1>1, <1>6, <1>8, <2>1, StrandedLemma
<1>12. DataOK'
  BY <1>1, <1>7, <1>8, <1>10, resuming' = resuming DEF DataOK
<1> QED
  BY <1>5, <1>9, <1>10, <1>11, <1>12, SoundPrime DEF IInv

-----------------------------------------------------------------------------
(* All together.                                                            *)

LEMMA IsrLemma ==
  ASSUME IInv, resuming' = resuming, IsrStep \/ PendSV
  PROVE  IInv'
<1>1. Sound(k) /\ resuming' \in BOOLEAN
  BY DEF IInv, DataOK
<1>2. CASE EnterIsr \/ ReturnFromIsr \/ Tick \/ TickReturn
  <2>1. UNCHANGED <<td, call, q, sem, lock, made>>
    BY <1>2 DEF EnterIsr, ReturnFromIsr, Tick, TickReturn
  <2>2. \/ k' = IsrEntry(k)
        \/ k.isr > 0 /\ ~k.ticking /\ k' = IsrReturn(k)
        \/ k.isr > 0 /\ k' = TickStart(k)
        \/ k.ticking /\ k' = TickEnd(k)
    BY <1>2 DEF EnterIsr, ReturnFromIsr, Tick, TickReturn
  <2>3. Sound(k') /\ k'.state = k.state /\ k'.timed = k.timed
    BY <1>1, <2>2, SoundIsr
  <2> QED
    BY <1>1, <2>1, <2>3, KernelStepLemma
<1>3. CASE PendSV
  <2>1. UNCHANGED <<td, call, q, sem, lock, made>> /\ k' = Dispatch(k)
    BY <1>3 DEF PendSV
  <2>2. Sound(k') /\ k'.state = k.state /\ k'.timed = k.timed
    BY <1>1, <2>1, SoundDispatch DEF Sound
  <2> QED
    BY <1>1, <2>1, <2>2, KernelStepLemma
<1>4. CASE HandlerPost
  BY <1>4, PostSemLemma DEF HandlerPost
<1>5. CASE WakeDue
  BY <1>5, WakeDueLemma
<1> QED
  BY <1>2, <1>3, <1>4, <1>5 DEF IsrStep

LEMMA InitLemma == Init => IInv
<1> SUFFICES ASSUME Init PROVE IInv
  OBVIOUS
<1> DEFINE C == Children
<1>1. /\ HomePriority \in [Task -> Prio] /\ AutoQueues \in [Prio -> Seq(Task)]
      /\ Children \in SUBSET AppTask
      /\ StartsWith(HomePriority, AutoQueues, Children)
  BY TaskLifeAssumption DEF StartsWith
<1>2. /\ Sound(k)
      /\ \A t \in Task : /\ k.state[t] = IF t \in C THEN "BLOCKED" ELSE "READY"
                        /\ ~k.timed[t]
  <2>1. k = StartedBut(HomePriority, AutoQueues, Children)
    BY DEF Init, StartedBut
  <2> QED
    BY SMTT(30), <1>1, <2>1, SoundStart
<1>3. /\ td = [t \in AppTask |-> IF t \in C THEN "none" ELSE "alive"]
      /\ call = [t \in AppTask |-> [at |-> "run", who |-> t]]
      /\ q = [valid |-> FALSE, policy |-> "FIFO", waiting |-> <<>>]
      /\ sem = [value |-> 0, waiters |-> <<>>]
      /\ lock = [value |-> 1, waiters |-> <<>>]
      /\ made = 0 /\ resuming = FALSE
  BY DEF Init
<1>4. DataOK
  <2>1. MaxValue \in Nat /\ MaxQueues \in Nat /\ <<>> \in Seq(AppTask)
    BY TaskLifeAssumption
  <2>2. td \in [AppTask -> Life] /\ call \in [AppTask -> [at : At, who : AppTask]]
    BY <1>3 DEF Life, At
  <2>3. /\ q \in [valid : BOOLEAN, policy : {"FIFO", "PRIORITY"},
                  waiting : Seq(AppTask)]
        /\ sem \in [value : 0 .. MaxValue, waiters : Seq(AppTask)]
        /\ lock \in [value : 0 .. 1, waiters : Seq(AppTask)]
    BY <1>3, <2>1
  <2>4. made \in 0 .. MaxQueues
    BY <1>3, <2>1
  <2>5. resuming \in BOOLEAN
    BY <1>3
  <2> QED
    BY <2>2, <2>3, <2>4, <2>5 DEF DataOK
<1>5. WaitsOK
  <2>1. \A t \in AppTask : ~k.timed[t] /\ k.state[t] \in {"READY", "BLOCKED"}
    BY <1>2, AppTaskLemma
  <2> QED
    BY <1>3, <2>1, EmptyLemma DEF WaitsOK, Waiting
<1>6. CallsOK
  <2>1. Locking(lock.waiters, call)
    BY <1>3, EmptyLemma DEF Locking
  <2>2. Living(td, call, k.state, k.timed)
    BY <1>2, <1>3, AppTaskLemma DEF Living, Dead
  <2>3. Knowing(td, call)
    BY <1>3 DEF Knowing
  <2>4. Apart(call)
    BY <1>3 DEF Apart
  <2> QED
    BY <2>1, <2>2, <2>3, <2>4 DEF CallsOK
<1>7. LockKept
  BY <1>3 DEF LockKept, Holds
<1>8. NoneStranded
  BY <1>3 DEF NoneStranded
<1> QED
  BY <1>2, <1>4, <1>5, <1>6, <1>7, <1>8 DEF IInv

LEMMA TaskStepLemma ==
  ASSUME Cautious, IInv, NEW t \in AppTask, resuming' = resuming, TaskStep(t)
  PROVE  IInv'
<1>1. CASE \E policy \in Policies : CreateQueue(t, policy)
  BY <1>1, CreateQueueLemma
<1>2. CASE Suspend(t) \/ \E u \in AppTask : SuspendTask(t, u)
  BY <1>2, SuspendLemma
<1>3. CASE DestroyQueue(t) \/ Drain(t)
  BY <1>3, DestroyQueueLemma
<1>4. CASE \/ Block(t)
           \/ \E d \in Timeouts : Sleep(t, d)
           \/ \E u \in AppTask : Ready(t, u)
  BY <1>4, BlockSleepReadyLemma
<1>5. CASE Wait(t)
  BY <1>5, WaitLemma
<1>6. CASE Post(t)
  BY <1>6, PostSemLemma DEF Post
<1>7. CASE TakeLock(t)
  BY <1>7, TakeLockLemma
<1>8. CASE \/ \E u \in Children : Create(t, u)
           \/ \E u \in AppTask : Destroy(t, u)
           \/ AbortSelf(t) \/ Exit(t)
  BY <1>8, CallLemma
<1>9. CASE Build(t) \/ Unlist(t)
  BY <1>9, GiveBackLemma
<1>10. CASE ReadyChild(t)
  BY <1>10, ReadyChildLemma
<1>11. CASE RemoveVictim(t)
  BY <1>11, RemoveVictimLemma
<1>12. CASE Free(t)
  BY <1>12, FreeLemma
<1>13. CASE \E u \in AppTask : Abort(t, u)
  BY <1>13, AbortLemma
<1> QED
  BY <1>1, <1>2, <1>3, <1>4, <1>5, <1>6, <1>7, <1>8, <1>9, <1>10, <1>11,
     <1>12, <1>13 DEF TaskStep

LEMMA Inductive ==
  ASSUME Cautious
  PROVE  Spec => []IInv
<1>1. Init => IInv
  BY InitLemma
<1>2. IInv /\ [Next]_vars => IInv'
  <2> SUFFICES ASSUME IInv, [Next]_vars PROVE IInv'
    OBVIOUS
  <2>1. CASE UNCHANGED vars
    BY <2>1 DEF vars, IInv, DataOK, Sound, Basic, Agree, NoneAbove, IsReady,
                WaitsOK, CallsOK, LockKept, Holds, NoneStranded
  <2>2. CASE resuming /\ ResumeMore
    BY <2>2, ResumeLemma
  <2>3. CASE HandlerResume \/ \E t \in AppTask : Resume(t)
    BY <2>3, ResumeLemma DEF HandlerResume, Resume
  <2>4. CASE UNCHANGED resuming /\ (IsrStep \/ PendSV)
    BY <2>4, IsrLemma
  <2>5. CASE UNCHANGED resuming /\ \E t \in AppTask : TaskStep(t)
    BY <2>5, TaskStepLemma
  <2> QED
    BY <2>1, <2>2, <2>3, <2>4, <2>5 DEF Next
<1> QED
  BY <1>1, <1>2, PTL DEF Spec

-----------------------------------------------------------------------------

\* TD.STATE, the life of a task and the queues agree: a blocked task is on
\* the one queue its state names although _task_destroy and _task_abort look
\* at single bits of TD.STATE (task.c:868-893, 152-186).
THEOREM DescriptorsMatch == ASSUME Cautious PROVE Spec => []QueuesMatch
<1>1. IInv => QueuesMatch
  <2> SUFFICES ASSUME IInv PROVE QueuesMatch
    OBVIOUS
  <2>1. DataOK /\ Sound(k) /\ WaitsOK
    BY DEF IInv
  <2>2. k \in Kernel /\ Agree(k, {})
    BY <2>1 DEF Sound, Basic
  <2>3. TypeOK
    BY <2>1, <2>2 DEF DataOK, TypeOK
  <2>4. QueuesAgree(k)
    BY <2>2, AgreeLemma
  <2>5. /\ q.waiting \in Seq(AppTask) /\ sem.waiters \in Seq(AppTask)
        /\ lock.waiters \in Seq(AppTask)
    BY <2>1 DEF DataOK
  <2>6. \A s \in Seq(AppTask) : Inj(s) => IsInjective(s)
    BY DEF Inj, IsInjective
  <2> QED
    BY <2>1, <2>3, <2>4, <2>5, <2>6 DEF QueuesMatch, WaitsOK, Waiting
<1> QED
  BY <1>1, Inductive, PTL

\* A descriptor that is being freed is linked to no queue, nor does its task
\* execute: only a task that destroys itself is ready until it leaves.
THEOREM NothingDangles == ASSUME Cautious PROVE Spec => []NoneDangles
<1>1. IInv => NoneDangles
  <2> SUFFICES ASSUME IInv, NEW t \in AppTask, td[t] \in Dead
               PROVE  /\ IsReady(k, t) => BuriesHimself(t)
                      /\ \A p \in Prio : t \in ToSet(k.ready[p]) => IsReady(k, t)
                      /\ t \notin ToSet(k.timeouts)
                      /\ t \notin ToSet(q.waiting)
                      /\ t \notin ToSet(sem.waiters) \cup ToSet(lock.waiters)
                      /\ Runs(k, t) => IsReady(k, t)
    BY DEF NoneDangles
  <2>1. DataOK /\ Sound(k) /\ WaitsOK /\ CallsOK /\ t \in Task
    BY AppTaskLemma DEF IInv
  <2>2. /\ ~k.timed[t]
        /\ k.state[t] = "BLOCKED" \/ (k.state[t] = "READY" /\ BuriesHimself(t))
    BY <2>1 DEF CallsOK, Living, BuriesHimself
  <2>3. Agree(k, {})
    BY <2>1 DEF Sound, Basic
  <2>4. \A p \in Prio : t \in ToSet(k.ready[p]) => IsReady(k, t)
    BY <2>3 DEF Agree
  <2>5. t \notin ToSet(k.timeouts)
    BY <2>2, <2>3 DEF Agree
  <2>6. /\ t \notin ToSet(q.waiting)
        /\ t \notin ToSet(sem.waiters) \cup ToSet(lock.waiters)
    BY <2>1, <2>2 DEF WaitsOK, Waiting
  <2>7. Runs(k, t) => IsReady(k, t)
    BY <2>1 DEF Sound, Runs
  <2> QED
    BY <2>2, <2>4, <2>5, <2>6, <2>7 DEF IsReady
<1> QED
  BY <1>1, Inductive, PTL

\* However many tasks call _task_destroy for the same one, and whoever is
\* preempted between the lookup and the lock: one takes it apart.
THEOREM OneBuries == ASSUME Cautious PROVE Spec => []OneUndertaker
<1>1. IInv => OneUndertaker
  BY DEF IInv, CallsOK, Apart, OneUndertaker
<1> QED
  BY <1>1, Inductive, PTL

\* TASK_CREATE_LWSEM is free or one task has it.
THEOREM LockNeverLost == ASSUME Cautious PROVE Spec => []LockKept
<1>1. IInv => LockKept
  BY DEF IInv
<1> QED
  BY <1>1, Inductive, PTL

\* _taskq_destroy strands nobody although it opens a window in each round.
THEOREM NobodyStranded == ASSUME Cautious PROVE Spec => []NoneStranded
<1>1. IInv => NoneStranded
  BY DEF IInv
<1> QED
  BY <1>1, Inductive, PTL

-----------------------------------------------------------------------------
(* A queue by priority is sorted.                                           *)

\* Nothing these calls do changes a priority: MY_QUEUE stays.
MyKept(d, c) == "my" \in DOMAIN d /\ d.my = c.my

LEMMA KeptTwice ==
  ASSUME NEW c, NEW d, NEW e, MyKept(d, c), MyKept(e, d)
  PROVE  MyKept(e, c)
BY DEF MyKept

LEMMA MyKeptByRoutines ==
  ASSUME NEW c, "my" \in DOMAIN c, NEW t
  PROVE  /\ MyKept(c, c)
         /\ \A p : MyKept(Unlink(c, t, p), c)
         /\ MyKept(TaskReady(c, t), c)
         /\ \A st : MyKept([c EXCEPT !.state[t] = st], c)
         /\ MyKept(Dispatch(c), c)
         /\ MyKept(PendScheduler(c), c)
         /\ MyKept(CheckRunScheduler(c), c)
         /\ MyKept(IsrEntry(c), c) /\ MyKept(IsrReturn(c), c)
         /\ MyKept(TickStart(c), c) /\ MyKept(TickEnd(c), c)
         /\ MyKept(TimeDequeue(c, t), c)
<1>1. MyKept(c, c) /\ \A p : MyKept(Unlink(c, t, p), c)
  BY DEF MyKept, Unlink
<1>2. MyKept(TaskReady(c, t), c)
  BY DEF MyKept, TaskReady
<1>3. \A st : MyKept([c EXCEPT !.state[t] = st], c)
  BY DEF MyKept
<1>4. MyKept(Dispatch(c), c)
  BY DEF MyKept, Dispatch
<1>5. MyKept(PendScheduler(c), c)
  BY DEF MyKept, PendScheduler
<1>6. MyKept(CheckRunScheduler(c), c)
  BY <1>1, <1>4 DEF CheckRunScheduler
<1>7. MyKept(IsrEntry(c), c) /\ MyKept(IsrReturn(c), c)
  BY DEF MyKept, IsrEntry, IsrReturn
<1>8. MyKept(TickStart(c), c) /\ MyKept(TickEnd(c), c)
  BY DEF MyKept, TickStart, TickEnd
<1>9. MyKept(TimeDequeue(c, t), c)
  BY DEF MyKept, TimeDequeue
<1> QED
  BY <1>1, <1>2, <1>3, <1>4, <1>5, <1>6, <1>7, <1>8, <1>9

LEMMA MyKeptByMoves ==
  ASSUME NEW c, "my" \in DOMAIN c, NEW t
  PROVE  /\ \A st : MyKept([Unlink(c, t, c.my[t]) EXCEPT !.state[t] = st], c)
         /\ \A d : MyKept(Delay(c, t, d), c)
         /\ MyKept(TaskBlock(c, t), c)
         /\ MyKept(Wake(c, t), c)
         /\ MyKept(TickWake(c), c)
<1>1. \A st : MyKept([Unlink(c, t, c.my[t]) EXCEPT !.state[t] = st], c)
  BY DEF MyKept, Unlink
<1>2. \A d : MyKept(Delay(c, t, d), c)
  BY DEF MyKept, Unlink, Delay
<1>3. MyKept(TaskBlock(c, t), c)
  BY DEF MyKept, Unlink, TaskBlock
<1>4. MyKept(Wake(c, t), c)
  <2>1. MyKept(TimeDequeue(c, t), c)
    BY MyKeptByRoutines
  <2>2. MyKept(Wake(c, t), TimeDequeue(c, t))
    BY <2>1, MyKeptByRoutines DEF Wake, MyKept
  <2> QED
    BY <2>1, <2>2, KeptTwice
<1>5. MyKept(TickWake(c), c)
  <2> DEFINE h == Head(c.timeouts)
             e == [c EXCEPT !.timeouts = Tail(@), !.timed[h] = FALSE, !.left[h] = 0]
  <2>1. MyKept(e, c)
    BY DEF MyKept
  <2>2. TickWake(c) = TaskReady(e, h)
    BY DEF TickWake
  <2> HIDE DEF e, h
  <2>3. MyKept(TaskReady(e, h), e)
    BY <2>1, MyKeptByRoutines DEF MyKept
  <2> QED
    BY <2>1, <2>2, <2>3, KeptTwice
<1> QED
  BY <1>1, <1>2, <1>3, <1>4, <1>5

\* No step changes the priority of a task.
LEMMA PrioritiesStay ==
  ASSUME IInv, Next
  PROVE  k'.my = k.my
<1> DEFINE Kept(d) == MyKept(d, k)
<1>1. "my" \in DOMAIN k
  BY DEF IInv, Sound, Basic, Kernel
<1>2. \A t : /\ Kept(k)
             /\ Kept(TaskReady(k, t)) /\ Kept(Unlink(k, t, k.my[t]))
             /\ Kept(IsrEntry(k)) /\ Kept(IsrReturn(k))
             /\ Kept(TickStart(k)) /\ Kept(TickEnd(k)) /\ Kept(TickWake(k))
             /\ Kept(TimeDequeue(k, t)) /\ Kept(TaskBlock(k, t)) /\ Kept(Wake(k, t))
             /\ \A d : Kept(Delay(k, t, d))
             /\ \A st : Kept([Unlink(k, t, k.my[t]) EXCEPT !.state[t] = st])
             /\ \A st : Kept([k EXCEPT !.state[t] = st])
  BY <1>1, MyKeptByRoutines, MyKeptByMoves
<1>3. ASSUME NEW d, Kept(d)
      PROVE  /\ Kept(Dispatch(d)) /\ Kept(PendScheduler(d)) /\ Kept(CheckRunScheduler(d))
             /\ \A t : Kept(Unlink(d, t, k.my[t])) /\ \A n : Kept(Delay(d, t, n))
             /\ \A t, st : Kept([d EXCEPT !.state[t] = st])
  <2>1. "my" \in DOMAIN d /\ d.my = k.my
    BY <1>3 DEF MyKept
  <2>2. \A e : MyKept(e, d) => Kept(e)
    BY <1>3, KeptTwice
  <2> QED
    BY <2>1, <2>2, MyKeptByRoutines, MyKeptByMoves
<1> HIDE DEF Kept
<1>4. Kept(k')
  <2>1. CASE ResumeMore \/ ResumeQueue
    BY <1>2, <1>3, <2>1 DEF ResumeMore, ResumeQueue, ReadyFirst
  <2>2. CASE \E t \in AppTask : Resume(t) \/ HandlerResume
    BY <2>1, <2>2 DEF Resume, HandlerResume
  <2>3. CASE EnterIsr \/ ReturnFromIsr \/ Tick \/ WakeDue \/ TickReturn \/ PendSV
    BY <1>2, <1>3, <2>3 DEF EnterIsr, ReturnFromIsr, Tick, WakeDue, TickReturn, PendSV
  <2>4. CASE PostSem
    BY <1>2, <1>3, <2>4 DEF PostSem
  <2>5. CASE \E t \in AppTask : TaskStep(t)
    <3> SUFFICES ASSUME NEW t \in AppTask, TaskStep(t) PROVE Kept(k')
      BY <2>5
    <3>1. ASSUME NEW place, PostLock(t, place)
          PROVE  Kept(k')
      BY <1>2, <1>3, <3>1 DEF PostLock
    <3>2. CASE Suspend(t) \/ \E u \in AppTask : SuspendTask(t, u)
      <4>1. \A u : Kept(Parked(u)) /\ Kept(Dispatch(Parked(u)))
        BY <1>2, <1>3 DEF Parked
      <4> QED
        BY <3>2, <4>1 DEF Suspend, SuspendTask
    <3>3. CASE \/ \E policy \in Policies : CreateQueue(t, policy)
               \/ DestroyQueue(t) \/ Drain(t)
      BY <1>2, <1>3, <3>3 DEF CreateQueue, DestroyQueue, Drain, ReadyFirst
    <3>4. CASE Block(t) \/ (\E d \in Timeouts : Sleep(t, d)) \/ \E u \in AppTask : Ready(t, u)
      BY <1>2, <1>3, <3>4 DEF Block, Sleep, Ready
    <3>5. CASE Wait(t)
      <4> DEFINE w == [k EXCEPT !.state[t] = "LWSEM_BLOCKED"]
      <4>1. Kept(w) /\ w.my = k.my
        BY <1>1, <1>2 DEF Kept, MyKept
      <4>2. \/ k' = k
            \/ k' = Dispatch(Unlink(w, t, w.my[t]))
            \/ k' = Dispatch(Unlink(w, t, k.my[t]))
            \/ \E d \in Timeouts : k' = Dispatch(Delay(w, t, d))
        BY <3>5 DEF Wait
      <4> HIDE DEF w
      <4> QED
        BY <1>2, <1>3, <4>1, <4>2
    <3>6. CASE Post(t)
      BY <2>4, <3>6 DEF Post
    <3>7. CASE TakeLock(t)
      BY <1>2, <1>3, <3>7 DEF TakeLock
    <3>8. CASE \/ \E u \in Children : Create(t, u)
               \/ \E u \in AppTask : Destroy(t, u)
               \/ AbortSelf(t) \/ Exit(t)
      BY <1>2, <3>8 DEF Create, Destroy, AbortSelf, Exit
    <3>9. CASE Build(t) \/ Unlist(t)
      BY <3>1, <3>9 DEF Build, Unlist
    <3>10. CASE ReadyChild(t)
      BY <1>2, <1>3, <3>10 DEF ReadyChild
    <3>11. CASE RemoveVictim(t)
      <4>1. CASE AlreadyDying(t)
        BY <3>1, <4>1 DEF AlreadyDying
      <4>2. CASE Bury(t, call[t].who)
        BY <1>2, <1>3, <4>2 DEF Bury
      <4> QED
        BY <3>11, <4>1, <4>2 DEF RemoveVictim
    <3>12. CASE Free(t)
      BY <1>2, <1>3, <3>12 DEF Free
    <3>13. CASE \E u \in AppTask : Abort(t, u)
      BY <1>2, <1>3, <3>13 DEF Abort
    <3> QED
      BY <3>2, <3>3, <3>4, <3>5, <3>6, <3>7, <3>8, <3>9, <3>10, <3>11, <3>12,
         <3>13 DEF TaskStep
  <2> QED
    BY <2>1, <2>2, <2>3, <2>4, <2>5 DEF Next, IsrStep, HandlerPost, HandlerResume
<1> QED
  BY <1>4 DEF Kept, MyKept

\* What a step does to the queue.
LEMMA QueueSteps ==
  ASSUME IInv, Next
  PROVE  \/ q'.policy = q.policy /\ q'.waiting = q.waiting
         \/ q'.waiting = <<>>
         \/ /\ q'.policy = q.policy
            /\ \/ q.waiting # <<>> /\ q'.waiting = Tail(q.waiting)
               \/ \E u \in AppTask : \/ q'.waiting = Off(q.waiting, u)
                                     \/ /\ u \notin ToSet(q.waiting)
                                        /\ q'.waiting = Joined(u)
<1> DEFINE Same == q'.policy = q.policy /\ q'.waiting = q.waiting
           Shorter == /\ q'.policy = q.policy
                      /\ q.waiting # <<>> /\ q'.waiting = Tail(q.waiting)
           Left(u) == q'.policy = q.policy /\ q'.waiting = Off(q.waiting, u)
           Came(u) == /\ q'.policy = q.policy
                      /\ u \notin ToSet(q.waiting) /\ q'.waiting = Joined(u)
<1>1. /\ q \in [valid : BOOLEAN, policy : {"FIFO", "PRIORITY"},
                waiting : Seq(AppTask)]
      /\ call \in [AppTask -> [at : At, who : AppTask]]
      /\ \A u \in ToSet(q.waiting) : k.state[u] = "TASK_QUEUE_BLOCKED"
  BY DEF IInv, DataOK, WaitsOK, Waiting
<1>2. CASE ResumeMore \/ ResumeQueue
  BY <1>1, <1>2 DEF ResumeMore, ResumeQueue
<1>3. CASE \E t \in AppTask : Resume(t) \/ HandlerResume
  BY <1>2, <1>3 DEF Resume, HandlerResume
<1>4. CASE EnterIsr \/ ReturnFromIsr \/ Tick \/ WakeDue \/ TickReturn \/ PendSV
  BY <1>4 DEF EnterIsr, ReturnFromIsr, Tick, WakeDue, TickReturn, PendSV
<1>5. CASE PostSem
  BY <1>5 DEF PostSem
<1>6. CASE \E t \in AppTask : TaskStep(t)
  <2> SUFFICES ASSUME NEW t \in AppTask, TaskStep(t)
               PROVE  \/ Same \/ q'.waiting = <<>> \/ Shorter
                      \/ \E u \in AppTask : Left(u) \/ Came(u)
    BY <1>6
  <2>1. CASE Suspend(t) \/ \E u \in AppTask : SuspendTask(t, u)
    <3>1. PICK u \in AppTask : q' = [q EXCEPT !.waiting = Joined(u)] /\ IsReady(k, u)
      BY <2>1, RunsLemma DEF Suspend, SuspendTask, Calls
    <3>2. Came(u)
      BY <1>1, <3>1 DEF IsReady
    <3> QED
      BY <3>2
  <2>2. CASE \E policy \in Policies : CreateQueue(t, policy)
    BY <2>2 DEF CreateQueue
  <2>3. CASE DestroyQueue(t)
    BY <1>1, <2>3 DEF DestroyQueue
  <2>4. CASE Drain(t)
    BY <1>1, <2>4 DEF Drain
  <2>5. CASE Block(t) \/ (\E d \in Timeouts : Sleep(t, d)) \/ \E u \in AppTask : Ready(t, u)
    BY <2>5 DEF Block, Sleep, Ready
  <2>6. CASE Wait(t) \/ Post(t) \/ TakeLock(t)
    BY <1>5, <2>6 DEF Wait, Post, PostSem, TakeLock
  <2>7. CASE \/ \E u \in Children : Create(t, u)
             \/ \E u \in AppTask : Destroy(t, u)
             \/ AbortSelf(t) \/ Exit(t)
    BY <2>7 DEF Create, Destroy, AbortSelf, Exit
  <2>8. CASE Build(t) \/ Unlist(t) \/ ReadyChild(t) \/ Free(t)
    BY <2>8 DEF Build, Unlist, ReadyChild, Free
  <2>9. CASE RemoveVictim(t)
    <3>1. CASE AlreadyDying(t)
      BY <3>1 DEF AlreadyDying
    <3>2. CASE Bury(t, call[t].who)
      <4>1. call[t].who \in AppTask
        BY <1>1
      <4>2. Left(call[t].who)
        BY <1>1, <3>2 DEF Bury
      <4> QED
        BY <4>1, <4>2
    <3> QED
      BY <2>9, <3>1, <3>2 DEF RemoveVictim
  <2>10. CASE \E u \in AppTask : Abort(t, u)
    <3>1. PICK u \in AppTask : q' = [q EXCEPT !.waiting = Off(@, u)]
      BY <2>10 DEF Abort
    <3>2. Left(u)
      BY <1>1, <3>1
    <3> QED
      BY <3>2
  <2> QED
    BY <2>1, <2>2, <2>3, <2>4, <2>5, <2>6, <2>7, <2>8, <2>9, <2>10 DEF TaskStep
<1> QED
  BY <1>2, <1>3, <1>4, <1>5, <1>6 DEF Next, IsrStep, HandlerPost, HandlerResume

\* A task leaves the queue, or joins it.
LEMMA RankedSteps ==
  ASSUME NEW s \in Seq(AppTask), Inj(s), k \in Kernel, Timely(s, k.my, 0)
  PROVE  /\ s # <<>> => Timely(Tail(s), k.my, 0)
         /\ \A t \in AppTask : /\ Timely(Off(s, t), k.my, 0)
                               /\ t \notin ToSet(s) =>
                                    Timely(InsertPriority(k, s, t), k.my, 0)
<1>1. PICK l \in [Task -> Int] : l = k.my
  BY DEF Kernel, Prio
<1>2. s \in Seq(Task) /\ AppTask \subseteq Task /\ 0 \in Int /\ Timely(s, l, 0)
  BY <1>1, AppTaskLemma
<1>3. s # <<>> => Timely(Tail(s), l, 0)
  BY <1>2, TailTimely
<1>4. ASSUME NEW t \in AppTask
      PROVE  Timely(Off(s, t), l, 0)
  <2>1. CASE t \in ToSet(s)
    <3>1. PICK i : i = CHOOSE j \in 1 .. Len(s) : s[j] = t
      OBVIOUS
    <3>2. i \in 1 .. Len(s)
      BY <2>1, <3>1 DEF ToSet
    <3>3. Timely(RemoveAt(s, i), l, 0)
      BY <1>2, <3>2, RemoveTimely
    <3> QED
      BY <2>1, <3>1, <3>3 DEF Off, Without
  <2>2. CASE t \notin ToSet(s)
    BY <1>2, <2>2 DEF Off
  <2> QED
    BY <2>1, <2>2
<1>5. ASSUME NEW t \in AppTask, t \notin ToSet(s)
      PROVE  Timely(InsertPriority(k, s, t), k.my, 0)
  BY <1>2, <1>5, JoinTimely DEF Kernel
<1> QED
  BY <1>1, <1>3, <1>4, <1>5

Ranked == q.policy = "PRIORITY" => Timely(q.waiting, k.my, 0)

LEMMA RankedKept ==
  ASSUME IInv, Ranked, [Next]_vars
  PROVE  Ranked'
<1>1. CASE UNCHANGED vars
  BY <1>1 DEF vars, Ranked
<1>2. CASE Next
  <2>1. k'.my = k.my
    BY <1>2, PrioritiesStay
  <2>2. k \in Kernel /\ q.waiting \in Seq(AppTask) /\ Inj(q.waiting)
    BY DEF IInv, DataOK, Sound, Basic, WaitsOK, Waiting
  <2> SUFFICES ASSUME q'.policy = "PRIORITY"
               PROVE  Timely(q'.waiting, k.my, 0)
    BY <2>1 DEF Ranked
  <2>3. CASE q'.waiting = <<>>
    BY <2>3 DEF Timely
  <2>4. CASE q'.policy = q.policy
    <3>1. Timely(q.waiting, k.my, 0)
      BY <2>4 DEF Ranked
    <3>2. \A t : Joined(t) = InsertPriority(k, q.waiting, t)
      BY <2>4 DEF Joined
    <3> QED
      BY <1>2, <2>2, <2>3, <3>1, <3>2, RankedSteps, QueueSteps
  <2> QED
    BY <1>2, <2>3, <2>4, QueueSteps
<1> QED
  BY <1>1, <1>2

\* A queue by priority is resumed in the order of the priorities, although
\* tasks of all priorities join it, are resumed from it one by one, aborted
\* and destroyed on it (taskq.c, _sched_insert_priorityq_internal).
THEOREM ResumedByPriority == ASSUME Cautious PROVE Spec => []UrgentFirst
<1>1. Init => Ranked
  BY DEF Init, Ranked
<1>2. IInv /\ Ranked /\ [Next]_vars => Ranked'
  BY RankedKept
<1>3. Ranked => UrgentFirst
  BY DEF Ranked, Timely, UrgentFirst
<1> QED
  BY <1>1, <1>2, <1>3, Inductive, PTL DEF Spec
=============================================================================
