---------------------------- MODULE LwEventProofs ----------------------------
(***************************************************************************)
(* For every set of tasks, bits, wishes, priority and timeout: the queue   *)
(* of a lightweight event, the states of the tasks and their places in the *)
(* calls agree, in the middle of the loops as well, and no task waits for  *)
(* bits that are set.                                                      *)
(***************************************************************************)
EXTENDS LwEvent, KernelProofs

\* A second creation empties WAITING_TASKS under the tasks on it.
CreatedOnce == MaxCreations <= 1

Loop == [loop : {"none", "set", "destroy"}, set : SUBSET Bit,
         next : Nat \ {0}, from : Seq(AppTask)]
Event == [valid : BOOLEAN, value : SUBSET Bit, auto : SUBSET Bit,
          waiters : Seq(AppTask)]

DataOK ==
  /\ ev \in Event
  /\ at \in [AppTask -> At]
  /\ ask \in [AppTask -> Wish]
  /\ bits \in [AppTask -> SUBSET Bit]
  /\ info \in [AppTask -> BOOLEAN]
  /\ pass \in Loop
  /\ made \in 0 .. MaxCreations

\* The tasks that wait are those on the queue, inside a wait; nobody else has
\* a timeout.
Waiting(w, state, timed, c) ==
  /\ Inj(w)
  /\ ToSet(w) = {t \in AppTask : state[t] = "LWEVENT_BLOCKED"}
  /\ \A t \in AppTask :
       /\ t \in ToSet(w) => c[t] \in Blocked
       /\ c[t] \in Blocked => t \in ToSet(w) \/ (state[t] = "READY" /\ ~timed[t])
       /\ timed[t] => t \in ToSet(w)
WaitsOK == Waiting(ev.waiters, k.state, k.timed, at)

\* Nobody waits before the first creation.
FreshOK == made = 0 => ~ev.valid /\ ev.waiters = <<>>

\* While a task waits its LWEVENT_BITS hold its mask.
Masks(w, b, a) == \A t \in ToSet(w) : b[t] = a[t].mask

\* The loop of _lwevent_set has left only tasks behind it that the bits it
\* still has do not satisfy.
Left(w, a, p) ==
  p.loop = "set" =>
    \A i \in 1 .. Len(w) : i < p.next => ~Satisfied(a[w[i]], p.set)

\* No timeout shortens the queue under a loop.
LoopOK ==
  /\ Masks(ev.waiters, bits, ask)
  /\ Left(ev.waiters, ask, pass)
  /\ pass.loop # "none" => ~k.ticking

IInv == DataOK /\ Sound(k) /\ WaitsOK /\ FreshOK /\ LoopOK /\ NoneMissed

-----------------------------------------------------------------------------
(* What the steps have in common.                                           *)

LEMMA SoundPrime == Sound(k') <=> Sound(k)'
BY DEF Sound, Basic, Agree, NoneAbove, IsReady

\* Fewer bits satisfy nobody they did not satisfy before.
LEMMA FewerLemma ==
  ASSUME NEW w, NEW a, NEW b \in SUBSET a, Satisfied(w, b)
  PROVE  Satisfied(w, a)
BY DEF Satisfied

\* What a step of the executing task may assume.
LEMMA RunsLemma ==
  ASSUME IInv, NEW t \in AppTask, Runs(k, t)
  PROVE  /\ t \in Task /\ IsReady(k, t) /\ k.active = t
         /\ k.state[t] = "READY" /\ ~k.timed[t]
         /\ k.state \in [Task -> State] /\ k.timed \in [Task -> BOOLEAN]
         /\ t \notin ToSet(ev.waiters)
         /\ ~k.ticking
<1>1. k \in Kernel /\ IsReady(k, t) /\ k.active = t /\ t \in Task /\ ~k.ticking
  BY AppTaskLemma DEF IInv, Sound, Basic, Runs
<1>2. /\ k.state[t] = "READY" /\ ~k.timed[t]
      /\ k.state \in [Task -> State] /\ k.timed \in [Task -> BOOLEAN]
  BY <1>1 DEF IsReady, Kernel
<1> QED
  BY <1>1, <1>2 DEF IInv, WaitsOK, Waiting

\* A queued task leaves the queue and is ready.
LEMMA WokenLemma ==
  ASSUME NEW w, NEW v, NEW c,
         NEW state \in [Task -> State], NEW timed \in [Task -> BOOLEAN],
         NEW u \in AppTask, Waiting(w, state, timed, c), u \in ToSet(w),
         Inj(v), ToSet(v) = ToSet(w) \ {u}
  PROVE  Waiting(v, [state EXCEPT ![u] = "READY"], [timed EXCEPT ![u] = FALSE], c)
<1> DEFINE s == [state EXCEPT ![u] = "READY"]
           d == [timed EXCEPT ![u] = FALSE]
<1>1. /\ s[u] = "READY" /\ d[u] = FALSE
      /\ \A t \in AppTask \ {u} : s[t] = state[t] /\ d[t] = timed[t]
  BY AppTaskLemma
<1> HIDE DEF s, d
<1>2. Waiting(v, s, d, c)
  BY <1>1 DEF Waiting
<1> QED
  BY <1>2 DEF s, d

\* A ready task joins the queue.
LEMMA EnterLemma ==
  ASSUME NEW w, NEW v, NEW c \in [AppTask -> At],
         NEW state \in [Task -> State], NEW timed \in [Task -> BOOLEAN],
         NEW t \in AppTask, state[t] = "READY", ~timed[t],
         Waiting(w, state, timed, c), Inj(v), ToSet(v) = ToSet(w) \cup {t},
         NEW b \in BOOLEAN, NEW place \in Blocked
  PROVE  Waiting(v, [state EXCEPT ![t] = "LWEVENT_BLOCKED"],
                 [timed EXCEPT ![t] = b], [c EXCEPT ![t] = place])
<1> DEFINE s == [state EXCEPT ![t] = "LWEVENT_BLOCKED"]
           d == [timed EXCEPT ![t] = b]
           e == [c EXCEPT ![t] = place]
<1>1. /\ s[t] = "LWEVENT_BLOCKED" /\ d[t] = b /\ e[t] = place
      /\ \A u \in AppTask \ {t} : s[u] = state[u] /\ d[u] = timed[u] /\ e[u] = c[u]
  BY AppTaskLemma
<1> HIDE DEF s, d, e
<1>2. Waiting(v, s, d, e)
  BY <1>1 DEF Waiting
<1> QED
  BY <1>2 DEF s, d, e

\* A ready task ends its call.
LEMMA GoLemma ==
  ASSUME NEW w, NEW c \in [AppTask -> At], NEW state, NEW timed,
         NEW t \in AppTask, Waiting(w, state, timed, c),
         state[t] = "READY", NEW place \in Outcome
  PROVE  Waiting(w, state, timed, [c EXCEPT ![t] = place])
<1> DEFINE e == [c EXCEPT ![t] = place]
<1>1. e[t] \notin Blocked /\ \A u \in AppTask \ {t} : e[u] = c[u]
  BY DEF Blocked, Outcome
<1> HIDE DEF e
<1>2. Waiting(w, state, timed, e)
  BY <1>1 DEF Waiting
<1> QED
  BY <1>2 DEF e

\* _lwevent_set removes the task at its cursor.
LEMMA CutLemma ==
  ASSUME NEW s \in Seq(AppTask), Inj(s), NEW i \in 1 .. Len(s)
  PROVE  /\ RemoveAt(s, i) \in Seq(AppTask) /\ Inj(RemoveAt(s, i))
         /\ ToSet(RemoveAt(s, i)) = ToSet(s) \ {s[i]}
         /\ Len(RemoveAt(s, i)) = Len(s) - 1
         /\ \A j \in 1 .. Len(s) - 1 : j < i => RemoveAt(s, i)[j] = s[j]
<1>1. s \in Seq(Task) /\ s[i] \in ToSet(s)
  BY AppTaskLemma DEF ToSet
<1>2. (CHOOSE j \in 1 .. Len(s) : s[j] = s[i]) = i
  BY DEF Inj
<1>3. Without(s, s[i]) = RemoveAt(s, i)
  BY <1>2 DEF Without
<1>4. /\ RemoveAt(s, i) \in Seq(AppTask) /\ Inj(RemoveAt(s, i))
      /\ ToSet(RemoveAt(s, i)) = ToSet(s) \ {s[i]}
  BY <1>1, <1>3, LeaveAppLemma
<1> QED
  BY <1>1, <1>4, RemoveAtLemma

\* A waiting task is woken, whether its time runs or not.
LEMMA WaiterLemma ==
  ASSUME IInv, NEW u \in ToSet(ev.waiters)
  PROVE  LET d == Wake(k, u)
         IN  /\ u \in AppTask /\ k.state[u] # "READY"
             /\ Sound(d) /\ d.ticking = k.ticking
             /\ d.state = [k.state EXCEPT ![u] = "READY"]
             /\ d.timed = [k.timed EXCEPT ![u] = FALSE]
<1>1. u \in AppTask /\ u \in Task /\ k.state[u] = "LWEVENT_BLOCKED"
  BY AppTaskLemma DEF IInv, WaitsOK, Waiting
<1>2. ~IsReady(k, u)
  BY <1>1 DEF IsReady
<1>3. PICK d : d = Wake(k, u)
  OBVIOUS
<1>4. /\ Sound(d) /\ d.state = [k.state EXCEPT ![u] = "READY"]
      /\ d.timed = [k.timed EXCEPT ![u] = FALSE]
  BY <1>1, <1>2, <1>3, SoundWake DEF IInv
<1>5. d.ticking = k.ticking
  <2>1. k \in Kernel
    BY DEF IInv, Sound, Basic
  <2> QED
    BY <2>1, <1>3 DEF Wake, TaskReady, TimeDequeue, Kernel
<1> QED
  BY <1>1, <1>3, <1>4, <1>5

\* The invariant's parts, as facts a step starts from.
LEMMA PartsLemma ==
  ASSUME IInv
  PROVE  /\ ev \in Event /\ at \in [AppTask -> At] /\ ask \in [AppTask -> Wish]
         /\ bits \in [AppTask -> SUBSET Bit] /\ info \in [AppTask -> BOOLEAN]
         /\ pass \in Loop /\ made \in 0 .. MaxCreations
         /\ ev.valid \in BOOLEAN /\ ev.value \in SUBSET Bit
         /\ ev.auto \in SUBSET Bit /\ ev.waiters \in Seq(AppTask)
         /\ Inj(ev.waiters) /\ Sound(k) /\ Basic(k)
         /\ Waiting(ev.waiters, k.state, k.timed, at)
         /\ Masks(ev.waiters, bits, ask) /\ Left(ev.waiters, ask, pass)
         /\ pass.loop # "none" => ~k.ticking
         /\ k.ticking => k.isr > 0
         /\ k.state \in [Task -> State] /\ k.timed \in [Task -> BOOLEAN]
BY DEF IInv, DataOK, Event, WaitsOK, Waiting, LoopOK, Sound, Basic, Kernel

-----------------------------------------------------------------------------
(* Steps that wake and queue nobody.                                        *)

\* Bits that are cleared, or kept for the loop.
LEMMA BitsLemma ==
  ASSUME IInv, NEW m \in SetMask, Set(m) \/ Clear(m) \/ SetAutoClear(m)
  PROVE  IInv'
<1> USE PartsLemma
<1>1. /\ m \in SUBSET Bit /\ 1 \in Nat \ {0} /\ ev.valid
      /\ UNCHANGED <<k, at, ask, bits, info, made>>
      /\ pass.loop = "none" /\ ~k.ticking
  <2>1. Caller
    BY DEF Set, Clear, SetAutoClear
  <2>2. pass.loop = "none" /\ ~k.ticking
    <3>1. CASE InHandler
      BY <3>1 DEF InHandler
    <3>2. CASE \E t \in AppTask : Starts(t)
      BY <3>2, RunsLemma DEF Starts
    <3> QED
      BY <2>1, <3>1, <3>2 DEF Caller
  <2> QED
    BY <2>2, LwEventAssumption DEF Set, Clear, SetAutoClear
<1>2. Sound(k)'
  BY <1>1, SoundPrime
<1>3. CASE Set(m)
  <2>1. ev' = ev /\ pass' = [loop |-> "set", set |-> ev.value \cup m,
                             next |-> 1, from |-> ev.waiters]
    BY <1>3 DEF Set, Begin
  <2>2. pass' \in Loop
    BY <1>1, <2>1 DEF Loop
  <2>3. DataOK'
    BY <1>1, <2>1, <2>2 DEF DataOK
  <2>4. Left(ev'.waiters, ask', pass')
    BY <2>1 DEF Left
  <2>5. LoopOK'
    BY <1>1, <2>1, <2>4 DEF LoopOK
  <2>6. WaitsOK' /\ FreshOK' /\ NoneMissed'
    BY <1>1, <2>1 DEF IInv, WaitsOK, FreshOK, NoneMissed
  <2> QED
    BY <1>2, <2>3, <2>5, <2>6 DEF IInv
<1>4. CASE Clear(m) \/ SetAutoClear(m)
  <2>1. /\ ev' \in Event /\ ev'.waiters = ev.waiters /\ ev'.valid = ev.valid
        /\ ev'.value \subseteq ev.value /\ pass' = pass
    BY <1>1, <1>4 DEF Clear, SetAutoClear, Event
  <2>2. DataOK'
    BY <1>1, <2>1 DEF DataOK
  <2>3. WaitsOK' /\ FreshOK' /\ LoopOK'
    BY <1>1, <2>1 DEF IInv, WaitsOK, FreshOK, LoopOK
  <2>4. NoneMissed'
    BY <1>1, <2>1, FewerLemma DEF IInv, NoneMissed
  <2> QED
    BY <1>2, <2>2, <2>3, <2>4 DEF IInv
<1> QED
  BY <1>3, <1>4

\* The task at the cursor and what it waits for.
LEMMA CursorLemma ==
  ASSUME IInv, pass.next <= Len(ev.waiters)
  PROVE  /\ pass.next \in 1 .. Len(ev.waiters)
         /\ Waiter \in ToSet(ev.waiters) /\ Waiter \in AppTask
         /\ Waiter = ev.waiters[pass.next]
         /\ Served <=> Satisfied(ask[Waiter], pass.set)
<1>1. pass.next \in 1 .. Len(ev.waiters)
  BY PartsLemma DEF Loop
<1>2. Waiter \in ToSet(ev.waiters) /\ Waiter \in AppTask
  BY <1>1, PartsLemma DEF Waiter, ToSet
<1>3. ask[Waiter] \in Wish /\ bits[Waiter] = ask[Waiter].mask
  BY <1>2, PartsLemma DEF Masks
<1>4. Served <=> Satisfied(ask[Waiter], pass.set)
  BY <1>3 DEF Served, Satisfied
<1> QED
  BY <1>1, <1>2, <1>4 DEF Waiter

LEMMA SkipLemma ==
  ASSUME IInv, Skip
  PROVE  IInv'
<1> USE PartsLemma
<1>1. /\ pass.loop = "set" /\ pass.next \in 1 .. Len(ev.waiters)
      /\ ~Satisfied(ask[ev.waiters[pass.next]], pass.set)
      /\ pass' = [pass EXCEPT !.next = @ + 1]
      /\ UNCHANGED <<k, ev, at, ask, bits, info, made>>
  BY CursorLemma DEF Skip
<1>2. /\ pass' \in Loop /\ pass'.loop = "set" /\ pass'.set = pass.set
      /\ pass'.next = pass.next + 1 /\ pass.next \in Nat
  BY SMTT(30), <1>1 DEF Loop
<1>3. Sound(k)'
  BY <1>1, SoundPrime
<1>4. Left(ev'.waiters, ask', pass')
  BY <1>1, <1>2 DEF Left
<1>5. DataOK' /\ WaitsOK' /\ FreshOK' /\ NoneMissed'
  BY <1>1, <1>2 DEF IInv, DataOK, WaitsOK, FreshOK, NoneMissed
<1>6. LoopOK'
  BY <1>1, <1>4 DEF LoopOK
<1> QED
  BY <1>3, <1>5, <1>6 DEF IInv

\* The loops end: the scheduler is asked with interrupts enabled.
LEMMA LoopEndLemma ==
  ASSUME IInv, SetEnd \/ DestroyEnd
  PROVE  IInv'
<1> USE PartsLemma
<1>1. /\ pass' = NoPass /\ k' = PendScheduler(k)
      /\ UNCHANGED <<at, ask, bits, info, made>>
  BY DEF SetEnd, DestroyEnd
<1>2. Sound(k') /\ k'.state = k.state /\ k'.timed = k.timed
  BY <1>1, SoundPend
<1>3. Sound(k)'
  BY <1>2, SoundPrime
<1>4. /\ pass' \in Loop /\ pass'.loop = "none"
  BY <1>1 DEF Loop, NoPass
<1>5. /\ ev' \in Event /\ ev'.waiters = ev.waiters /\ ev'.valid = ev.valid
      /\ \A t \in ToSet(ev.waiters) : ~Satisfied(ask[t], ev'.value)
  <2>1. CASE SetEnd
    <3>1. /\ pass.loop = "set" /\ pass.next > Len(ev.waiters)
          /\ ev' = [ev EXCEPT !.value = pass.set]
      BY <2>1 DEF SetEnd
    <3>2. /\ ev' \in Event /\ ev'.waiters = ev.waiters /\ ev'.valid = ev.valid
          /\ ev'.value = pass.set
      BY <3>1 DEF Event, Loop
    <3>3. \A i \in 1 .. Len(ev.waiters) : ~Satisfied(ask[ev.waiters[i]], pass.set)
      BY <3>1 DEF Left, Loop
    <3>4. \A t \in ToSet(ev.waiters) : ~Satisfied(ask[t], pass.set)
      BY <3>3 DEF ToSet
    <3> QED
      BY <3>2, <3>4
  <2>2. CASE DestroyEnd
    BY <2>2 DEF DestroyEnd, ToSet, IInv, NoneMissed
  <2> QED
    BY <2>1, <2>2
<1>6. DataOK'
  BY <1>1, <1>4, <1>5 DEF DataOK
<1>7. WaitsOK' /\ FreshOK' /\ NoneMissed'
  BY <1>1, <1>2, <1>5 DEF IInv, WaitsOK, FreshOK, NoneMissed
<1>8. Left(ev'.waiters, ask', pass')
  BY <1>4 DEF Left
<1>9. LoopOK'
  BY <1>1, <1>4, <1>5, <1>8 DEF LoopOK
<1> QED
  BY <1>3, <1>6, <1>7, <1>9 DEF IInv

\* The call of t ends.
LEMMA EndLemma ==
  ASSUME IInv, NEW t \in AppTask, Refuse(t) \/ Resume(t)
  PROVE  IInv'
<1> USE PartsLemma
<1>1. Runs(k, t) /\ UNCHANGED <<k, ev, ask, bits, info, pass, made>>
  BY DEF Refuse, Resume, Starts
<1>2. PICK out \in Outcome : at' = [at EXCEPT ![t] = out]
  BY DEF Refuse, Resume, Settle, Outcome
<1>3. Sound(k)'
  BY <1>1, SoundPrime
<1>4. at' \in [AppTask -> At]
  BY <1>2 DEF At
<1>5. DataOK'
  BY <1>1, <1>4 DEF DataOK
<1>6. WaitsOK'
  <2>1. k.state[t] = "READY"
    BY <1>1, RunsLemma
  <2>2. Waiting(ev.waiters, k.state, k.timed, [at EXCEPT ![t] = out])
    BY <2>1, GoLemma
  <2> QED
    BY <1>1, <1>2, <2>2 DEF WaitsOK
<1>7. FreshOK' /\ LoopOK' /\ NoneMissed'
  BY <1>1 DEF IInv, FreshOK, LoopOK, NoneMissed
<1> QED
  BY <1>3, <1>5, <1>6, <1>7 DEF IInv

\* Nobody on the queue asks for something else.
LEMMA OthersLemma ==
  ASSUME NEW w, NEW a \in [AppTask -> Wish], NEW b \in [AppTask -> SUBSET Bit],
         NEW t \in AppTask, NEW x, NEW y, ToSet(w) \subseteq AppTask, t \notin ToSet(w)
  PROVE  \A u \in ToSet(w) : /\ [a EXCEPT ![t] = x][u] = a[u]
                             /\ [b EXCEPT ![t] = y][u] = b[u]
OBVIOUS

LEMMA CatchLemma ==
  ASSUME IInv, NEW t \in AppTask, NEW w \in Wishes[t], Catch(t, w)
  PROVE  IInv'
<1> USE PartsLemma
<1>1. /\ Runs(k, t) /\ pass.loop = "none" /\ ev.valid
      /\ ask' = [ask EXCEPT ![t] = w]
      /\ bits' = [bits EXCEPT ![t] = ev.value \cap w.mask]
      /\ ev' = [ev EXCEPT !.value = @ \ (ev.auto \cap w.mask)]
      /\ at' = [at EXCEPT ![t] = "ok"]
      /\ UNCHANGED <<k, info, pass, made>>
  BY DEF Catch, Starts, Settle
<1>2. w \in Wish
  BY LwEventAssumption DEF Wish
<1>3. /\ k.state[t] = "READY" /\ t \notin ToSet(ev.waiters)
      /\ ToSet(ev.waiters) \subseteq AppTask
  BY <1>1, RunsLemma DEF Waiting
<1>4. /\ ev' \in Event /\ ev'.waiters = ev.waiters /\ ev'.valid = ev.valid
      /\ ev'.value \subseteq ev.value
  BY <1>1 DEF Event
<1>5. Sound(k)'
  BY <1>1, SoundPrime
<1>6. "ok" \in Outcome
  BY DEF Outcome
<1>7. DataOK'
  BY <1>1, <1>2, <1>4, <1>6 DEF DataOK, At
<1>8. WaitsOK'
  <2>1. Waiting(ev.waiters, k.state, k.timed, [at EXCEPT ![t] = "ok"])
    BY <1>3, <1>6, GoLemma
  <2> QED
    BY <1>1, <1>4, <2>1 DEF WaitsOK
<1>9. FreshOK'
  BY <1>1, <1>4 DEF IInv, FreshOK
<1>10. \A u \in ToSet(ev.waiters) : ask'[u] = ask[u] /\ bits'[u] = bits[u]
  BY <1>1, <1>3, OthersLemma
<1>11. Masks(ev'.waiters, bits', ask') /\ Left(ev'.waiters, ask', pass')
  BY <1>1, <1>4, <1>10 DEF Masks, Left
<1>12. LoopOK'
  BY <1>1, <1>11 DEF LoopOK
<1>13. NoneMissed'
  BY <1>1, <1>4, <1>10, FewerLemma DEF IInv, NoneMissed
<1> QED
  BY <1>5, <1>7, <1>8, <1>9, <1>12, <1>13 DEF IInv

LEMMA CreateLemma ==
  ASSUME CreatedOnce, IInv, NEW t \in AppTask, NEW auto \in {{}, Bit}, Create(t, auto)
  PROVE  IInv'
<1> USE PartsLemma
<1>1. /\ Runs(k, t) /\ pass.loop = "none" /\ made = 0 /\ made' = 1
      /\ made' \in 0 .. MaxCreations
      /\ ev' = [valid |-> TRUE, value |-> {}, auto |-> auto, waiters |-> <<>>]
      /\ UNCHANGED <<k, at, ask, bits, info, pass>>
  BY LwEventAssumption DEF CreatedOnce, Create, Starts
<1>2. ev.waiters = <<>> /\ ev'.waiters = <<>>
  BY <1>1 DEF IInv, FreshOK
<1>3. ev' \in Event
  BY <1>1, EmptyLemma DEF Event
<1>4. Sound(k)'
  BY <1>1, SoundPrime
<1>5. DataOK'
  BY <1>1, <1>3 DEF DataOK
<1>6. WaitsOK' /\ FreshOK' /\ LoopOK'
  BY <1>1, <1>2 DEF IInv, WaitsOK, FreshOK, LoopOK
<1>7. NoneMissed'
  BY <1>2, EmptyLemma DEF NoneMissed
<1> QED
  BY <1>4, <1>5, <1>6, <1>7 DEF IInv

LEMMA DestroyLemma ==
  ASSUME IInv, NEW t \in AppTask, Destroy(t)
  PROVE  IInv'
<1> USE PartsLemma
<1>1. /\ Runs(k, t) /\ ev.valid
      /\ ev' = [ev EXCEPT !.valid = FALSE]
      /\ pass' = [loop |-> "destroy", set |-> {}, next |-> 1, from |-> ev.waiters]
      /\ UNCHANGED <<k, at, ask, bits, info, made>>
      /\ pass.loop = "none"
  BY DEF Destroy, Starts, Begin
<1>2. /\ ev' \in Event /\ ev'.waiters = ev.waiters /\ ev'.value = ev.value
      /\ pass' \in Loop /\ pass'.loop = "destroy"
  <2>1. ev' \in Event /\ ev'.waiters = ev.waiters /\ ev'.value = ev.value
    BY <1>1 DEF Event
  <2>2. 1 \in Nat \ {0} /\ {} \in SUBSET Bit /\ ev.waiters \in Seq(AppTask)
    OBVIOUS
  <2>3. pass' \in Loop /\ pass'.loop = "destroy"
    BY <1>1, <2>2 DEF Loop
  <2> QED
    BY <2>1, <2>3
<1>3. ~k.ticking
  BY <1>1, RunsLemma
<1>4. Sound(k)'
  BY <1>1, SoundPrime
<1>5. DataOK'
  BY <1>1, <1>2 DEF DataOK
<1>6. WaitsOK' /\ FreshOK' /\ NoneMissed'
  BY <1>1, <1>2 DEF IInv, WaitsOK, FreshOK, NoneMissed
<1>7. LoopOK'
  BY <1>1, <1>2, <1>3 DEF LoopOK, Left
<1> QED
  BY <1>4, <1>5, <1>6, <1>7 DEF IInv

-----------------------------------------------------------------------------
(* Steps that wake a task.                                                  *)

\* A step of a loop or of the tick: u leaves the queue, now v, and is ready.
LEMMA LeftQueueLemma ==
  ASSUME IInv, NEW u \in ToSet(ev.waiters), NEW v \in Seq(AppTask),
         Inj(v), ToSet(v) = ToSet(ev.waiters) \ {u},
         ev' \in Event, ev'.waiters = v, ev'.valid = ev.valid,
         k'.state = [k.state EXCEPT ![u] = "READY"],
         k'.timed = [k.timed EXCEPT ![u] = FALSE],
         UNCHANGED <<at, made>>
  PROVE  WaitsOK' /\ FreshOK'
<1>1. PICK w : w = ev.waiters
  OBVIOUS
<1>2. PICK state \in [Task -> State], timed \in [Task -> BOOLEAN] :
        state = k.state /\ timed = k.timed
  BY PartsLemma
<1>3. Waiting(w, state, timed, at) /\ u \in AppTask /\ u \in ToSet(w)
      /\ ToSet(v) = ToSet(w) \ {u}
  BY <1>1, <1>2, PartsLemma DEF Waiting
<1>4. Waiting(v, [state EXCEPT ![u] = "READY"], [timed EXCEPT ![u] = FALSE], at)
  BY <1>3, WokenLemma
<1>5. WaitsOK'
  BY <1>2, <1>4 DEF WaitsOK
<1>6. FreshOK'
  BY EmptyLemma DEF IInv, FreshOK
<1> QED
  BY <1>5, <1>6

LEMMA HandOutLemma ==
  ASSUME IInv, HandOut
  PROVE  IInv'
<1> USE PartsLemma
<1>1. /\ pass.loop = "set" /\ pass.next <= Len(ev.waiters)
      /\ k' = Wake(k, Waiter)
      /\ ev' = [ev EXCEPT !.waiters = RemoveAt(@, pass.next)]
      /\ info' = [info EXCEPT ![Waiter] = FALSE]
      /\ bits' = [bits EXCEPT ![Waiter] = @ \cap pass.set]
      /\ pass' = [pass EXCEPT !.set = @ \ (ev.auto \cap bits'[Waiter])]
      /\ UNCHANGED <<at, ask, made>>
  BY DEF HandOut
<1>2. PICK i \in 1 .. Len(ev.waiters) : i = pass.next
  BY <1>1, CursorLemma
<1>3. PICK u \in ToSet(ev.waiters) :
        u = Waiter /\ u \in AppTask /\ u = ev.waiters[i]
  BY <1>1, <1>2, CursorLemma
<1>4. PICK v : v = RemoveAt(ev.waiters, i)
  OBVIOUS
<1>5. /\ v \in Seq(AppTask) /\ Inj(v) /\ ToSet(v) = ToSet(ev.waiters) \ {u}
      /\ Len(v) = Len(ev.waiters) - 1
      /\ \A j \in 1 .. Len(ev.waiters) - 1 : j < i => v[j] = ev.waiters[j]
  <2>1. PICK w \in Seq(AppTask) : w = ev.waiters
    OBVIOUS
  <2>2. Inj(w) /\ i \in 1 .. Len(w)
    BY <1>2, <2>1
  <2>3. /\ RemoveAt(w, i) \in Seq(AppTask) /\ Inj(RemoveAt(w, i))
        /\ ToSet(RemoveAt(w, i)) = ToSet(w) \ {w[i]}
        /\ Len(RemoveAt(w, i)) = Len(w) - 1
        /\ \A j \in 1 .. Len(w) - 1 : j < i => RemoveAt(w, i)[j] = w[j]
    BY <2>2, CutLemma
  <2> QED
    BY <1>3, <1>4, <2>1, <2>3
<1>6. /\ Sound(k') /\ k'.ticking = k.ticking
      /\ k'.state = [k.state EXCEPT ![u] = "READY"]
      /\ k'.timed = [k.timed EXCEPT ![u] = FALSE]
  BY <1>1, <1>3, WaiterLemma
<1>7. ev' \in Event /\ ev'.waiters = v /\ ev'.valid = ev.valid
  BY <1>1, <1>2, <1>4, <1>5 DEF Event
<1>8. /\ pass' \in Loop /\ pass'.loop = "set" /\ pass'.next = i
      /\ pass'.set \subseteq pass.set
  BY <1>1, <1>2 DEF Loop
<1>9. /\ info' \in [AppTask -> BOOLEAN]
      /\ bits' \in [AppTask -> SUBSET Bit]
      /\ \A t \in AppTask \ {u} : bits'[t] = bits[t]
  BY <1>1, <1>3
<1>10. Sound(k)'
  BY <1>6, SoundPrime
<1>11. DataOK'
  BY <1>1, <1>7, <1>8, <1>9 DEF DataOK
<1>12. WaitsOK' /\ FreshOK'
  BY <1>1, <1>5, <1>6, <1>7, LeftQueueLemma
<1>13. LoopOK'
  <2>1. Masks(v, bits', ask)
    BY <1>5, <1>9 DEF Masks, Waiting
  <2>2. \A j \in 1 .. Len(v) : j < i => ~Satisfied(ask[v[j]], pass'.set)
    <3>1. SUFFICES ASSUME NEW j \in 1 .. Len(v), j < i
                   PROVE  ~Satisfied(ask[v[j]], pass'.set)
      OBVIOUS
    <3>2. /\ j \in 1 .. Len(ev.waiters) - 1 /\ j \in 1 .. Len(ev.waiters)
          /\ v[j] = ev.waiters[j]
      BY <1>5, <3>1
    <3>3. ~Satisfied(ask[ev.waiters[j]], pass.set)
      BY <1>1, <1>2, <3>1, <3>2 DEF Left
    <3>4. pass'.set \in SUBSET pass.set
      BY <1>8
    <3> QED
      BY <3>2, <3>3, <3>4, FewerLemma
  <2>3. Left(v, ask, pass')
    BY <1>8, <2>2 DEF Left
  <2>4. ~k'.ticking
    BY <1>1, <1>6
  <2> QED
    BY <1>1, <1>7, <2>1, <2>3, <2>4 DEF LoopOK
<1>14. NoneMissed'
  BY <1>8 DEF NoneMissed
<1> QED
  BY <1>10, <1>11, <1>12, <1>13, <1>14 DEF IInv

LEMMA DestroyNextLemma ==
  ASSUME IInv, DestroyNext
  PROVE  IInv'
<1> USE PartsLemma
<1>1. /\ pass.loop = "destroy" /\ ev.waiters # <<>>
      /\ k' = Wake(k, Head(ev.waiters))
      /\ ev' = [ev EXCEPT !.waiters = Tail(@)]
      /\ UNCHANGED <<at, ask, bits, info, pass, made>>
  BY DEF DestroyNext
<1>2. PICK u : u = Head(ev.waiters)
  OBVIOUS
<1>3. PICK v : v = Tail(ev.waiters)
  OBVIOUS
<1>4. /\ u \in ToSet(ev.waiters) /\ v \in Seq(AppTask) /\ Inj(v)
      /\ ToSet(v) = ToSet(ev.waiters) \ {u}
  BY <1>1, <1>2, <1>3, HeadLemma
<1>5. /\ Sound(k') /\ k'.ticking = k.ticking
      /\ k'.state = [k.state EXCEPT ![u] = "READY"]
      /\ k'.timed = [k.timed EXCEPT ![u] = FALSE]
  BY <1>1, <1>2, <1>4, WaiterLemma
<1>6. /\ ev' \in Event /\ ev'.waiters = v /\ ev'.valid = ev.valid
      /\ ev'.value = ev.value
  BY <1>1, <1>3, <1>4 DEF Event
<1>7. Sound(k)'
  BY <1>5, SoundPrime
<1>8. DataOK'
  BY <1>1, <1>6 DEF DataOK
<1>9. WaitsOK' /\ FreshOK'
  BY <1>1, <1>4, <1>5, <1>6, LeftQueueLemma
<1>10. LoopOK'
  BY <1>1, <1>4, <1>5, <1>6 DEF LoopOK, Masks, Left
<1>11. NoneMissed'
  BY <1>1, <1>4, <1>6 DEF IInv, NoneMissed
<1> QED
  BY <1>7, <1>8, <1>9, <1>10, <1>11 DEF IInv

\* The tick wakes the first of TIMEOUT_QUEUE, which waits for the event.
LEMMA WakeDueLemma ==
  ASSUME IInv, WakeDue
  PROVE  IInv'
<1> USE PartsLemma
<1>1. PICK u : u = Head(k.timeouts)
  OBVIOUS
<1>2. /\ k.ticking /\ k.timeouts # <<>> /\ k' = TickWake(k)
      /\ ev' = [ev EXCEPT !.waiters = Without(@, u)]
      /\ UNCHANGED <<at, ask, bits, info, pass, made>>
      /\ pass.loop = "none"
  BY <1>1 DEF WakeDue, Due, Loop
<1>3. /\ Sound(k') /\ u \in AppTask /\ k.timed[u]
      /\ k'.state = [k.state EXCEPT ![u] = "READY"]
      /\ k'.timed = [k.timed EXCEPT ![u] = FALSE]
  BY <1>1, <1>2, SoundTickWake
<1>4. u \in ToSet(ev.waiters)
  BY <1>3 DEF Waiting
<1>5. PICK v : v = Without(ev.waiters, u)
  OBVIOUS
<1>6. v \in Seq(AppTask) /\ Inj(v) /\ ToSet(v) = ToSet(ev.waiters) \ {u}
  BY <1>4, <1>5, LeaveAppLemma
<1>7. /\ ev' \in Event /\ ev'.waiters = v /\ ev'.valid = ev.valid
      /\ ev'.value = ev.value
  BY <1>2, <1>5, <1>6 DEF Event
<1>8. Sound(k)'
  BY <1>3, SoundPrime
<1>9. DataOK'
  BY <1>2, <1>7 DEF DataOK
<1>10. WaitsOK' /\ FreshOK'
  BY <1>2, <1>3, <1>4, <1>6, <1>7, LeftQueueLemma
<1>11. LoopOK'
  BY <1>2, <1>6, <1>7 DEF LoopOK, Masks, Left
<1>12. NoneMissed'
  BY <1>2, <1>6, <1>7 DEF IInv, NoneMissed
<1> QED
  BY <1>8, <1>9, <1>10, <1>11, <1>12 DEF IInv

-----------------------------------------------------------------------------
(* The executing task blocks, or switches.                                  *)

LEMMA EnqueueLemma ==
  ASSUME IInv, NEW t \in AppTask, NEW w \in Wishes[t], Enqueue(t, w),
         NEW place \in Blocked, Settle(t, place), Sound(k'),
         k'.state = [k.state EXCEPT ![t] = "LWEVENT_BLOCKED"],
         NEW b \in BOOLEAN, k'.timed = [k.timed EXCEPT ![t] = b]
  PROVE  IInv'
<1> USE PartsLemma
<1>1. /\ Runs(k, t) /\ pass.loop = "none" /\ ev.valid
      /\ ~Satisfied(w, ev.value)
      /\ ask' = [ask EXCEPT ![t] = w]
      /\ bits' = [bits EXCEPT ![t] = w.mask]
      /\ ev' = [ev EXCEPT !.waiters = Append(@, t)]
      /\ info' = [info EXCEPT ![t] = TRUE]
      /\ at' = [at EXCEPT ![t] = place]
      /\ UNCHANGED <<pass, made>>
  BY DEF Enqueue, Starts, Settle
<1>2. w \in Wish /\ w.mask \in SUBSET Bit /\ place \in At
  BY LwEventAssumption DEF Wish, At
<1>3. /\ k.state[t] = "READY" /\ ~k.timed[t] /\ t \notin ToSet(ev.waiters)
      /\ ToSet(ev.waiters) \subseteq AppTask
  BY <1>1, RunsLemma DEF Waiting
<1>4. PICK v : v = Append(ev.waiters, t)
  OBVIOUS
<1>5. v \in Seq(AppTask) /\ Inj(v) /\ ToSet(v) = ToSet(ev.waiters) \cup {t}
  <2>1. PICK q \in Seq(AppTask) : q = ev.waiters
    OBVIOUS
  <2>2. Inj(q) /\ t \notin ToSet(q)
    BY <1>3, <2>1
  <2>3. /\ Append(q, t) \in Seq(AppTask) /\ Inj(Append(q, t))
        /\ ToSet(Append(q, t)) = ToSet(q) \cup {t}
    BY <2>2, JoinLemma
  <2> QED
    BY <1>4, <2>1, <2>3
<1>6. /\ ev' \in Event /\ ev'.waiters = v /\ ev'.valid = ev.valid
      /\ ev'.value = ev.value
  BY <1>1, <1>4, <1>5 DEF Event
<1>7. Sound(k)'
  BY SoundPrime
<1>8. DataOK'
  BY <1>1, <1>2, <1>6 DEF DataOK
<1>9. WaitsOK'
  <2>1. PICK q : q = ev.waiters
    OBVIOUS
  <2>2. PICK state \in [Task -> State], timed \in [Task -> BOOLEAN] :
          state = k.state /\ timed = k.timed
    OBVIOUS
  <2>3. Waiting(q, state, timed, at) /\ state[t] = "READY" /\ ~timed[t]
        /\ ToSet(v) = ToSet(q) \cup {t}
    BY <1>3, <1>5, <2>1, <2>2
  <2>4. Waiting(v, [state EXCEPT ![t] = "LWEVENT_BLOCKED"],
                [timed EXCEPT ![t] = b], [at EXCEPT ![t] = place])
    BY <1>5, <2>3, EnterLemma
  <2> QED
    BY <1>1, <1>6, <2>2, <2>4 DEF WaitsOK
<1>10. FreshOK'
  BY <1>1, <1>6 DEF IInv, FreshOK
<1>11. /\ \A u \in ToSet(ev.waiters) : ask'[u] = ask[u] /\ bits'[u] = bits[u]
       /\ ask'[t] = w /\ bits'[t] = w.mask
  BY <1>1, <1>2, <1>3, OthersLemma
<1>12. Masks(v, bits', ask') /\ Left(v, ask', pass')
  BY <1>1, <1>5, <1>11 DEF Masks, Left
<1>13. LoopOK'
  BY <1>1, <1>6, <1>12 DEF LoopOK
<1>14. NoneMissed'
  <2>1. \A u \in ToSet(ev.waiters) : ~Satisfied(ask[u], ev.value)
    BY <1>1 DEF IInv, NoneMissed
  <2>2. \A u \in ToSet(v) : ~Satisfied(ask'[u], ev.value)
    BY <1>1, <1>5, <1>11, <2>1
  <2> QED
    BY <1>6, <2>2 DEF NoneMissed
<1> QED
  BY <1>7, <1>8, <1>9, <1>10, <1>13, <1>14 DEF IInv

\* What blocking does to the executing task.
LEMMA BlockEffect ==
  ASSUME IInv, NEW t \in AppTask, NEW w \in Wishes[t],
         WaitForever(t, w) \/ \E d \in Timeouts : WaitTimed(t, w, d)
  PROVE  /\ Enqueue(t, w) /\ Sound(k')
         /\ k'.state = [k.state EXCEPT ![t] = "LWEVENT_BLOCKED"]
         /\ \E place \in Blocked, b \in BOOLEAN :
              /\ Settle(t, place) /\ k'.timed = [k.timed EXCEPT ![t] = b]
              /\ b => place = "timedBlocked"
<1>1. Enqueue(t, w) /\ Runs(k, t) /\ Sound(k)
  BY DEF WaitForever, WaitTimed, Enqueue, Starts, IInv
<1>2. IsReady(k, t) /\ ~k.timed[t]
  BY <1>1, RunsLemma
<1>3. PICK st \in State \ {"READY"} : st = "LWEVENT_BLOCKED"
  BY DEF State
<1>4. CASE WaitForever(t, w)
  <2>1. Settle(t, "blocked") /\ "blocked" \in Blocked
    BY <1>4 DEF WaitForever, Blocked
  <2>2. PICK d : d = [Unlink(k, t, k.my[t]) EXCEPT !.state[t] = st]
    OBVIOUS
  <2>3. /\ Basic(d) /\ (d.ticking => d.isr > 0)
        /\ d.state = [k.state EXCEPT ![t] = st] /\ d.timed = k.timed
    BY <2>2, <1>1, <1>2, ParkEffect
  <2>4. k' = Dispatch(d)
    BY <2>2, <1>3, <1>4 DEF WaitForever
  <2>5. Sound(k') /\ k'.state = d.state /\ k'.timed = d.timed
    BY <2>3, <2>4, SoundDispatch
  <2>6. k'.timed = [k.timed EXCEPT ![t] = FALSE]
    <3>1. k.timed \in [Task -> BOOLEAN] /\ ~k.timed[t]
      BY <1>1, RunsLemma
    <3>2. k.timed = [k.timed EXCEPT ![t] = FALSE]
      BY <3>1
    <3> QED
      BY <2>3, <2>5, <3>2
  <2> QED
    BY <1>1, <1>3, <2>1, <2>3, <2>5, <2>6
<1>5. ASSUME NEW d \in Timeouts, WaitTimed(t, w, d)
      PROVE  /\ Settle(t, "timedBlocked") /\ "timedBlocked" \in Blocked
             /\ Sound(k') /\ k'.state = [k.state EXCEPT ![t] = st]
             /\ k'.timed = [k.timed EXCEPT ![t] = TRUE]
  <2>1. Settle(t, "timedBlocked") /\ "timedBlocked" \in Blocked
    BY <1>5 DEF WaitTimed, Blocked
  <2>2. d \in Int
    BY LwEventAssumption
  <2>3. k' = Dispatch(Delay(StateSet(k, t, st), t, d))
    BY <1>3, <1>5 DEF WaitTimed, StateSet
  <2>4. /\ Sound(k') /\ k'.state = [k.state EXCEPT ![t] = st]
        /\ k'.timed = [k.timed EXCEPT ![t] = TRUE]
    BY <1>1, <1>2, <2>2, <2>3, SoundStateDelay
  <2> QED
    BY <2>1, <2>4
<1> QED
  BY <1>1, <1>3, <1>4, <1>5

LEMMA WaitLemma ==
  ASSUME IInv, NEW t \in AppTask, NEW w \in Wishes[t],
         WaitForever(t, w) \/ \E d \in Timeouts : WaitTimed(t, w, d)
  PROVE  IInv'
<1>1. /\ Enqueue(t, w) /\ Sound(k')
      /\ k'.state = [k.state EXCEPT ![t] = "LWEVENT_BLOCKED"]
  BY BlockEffect
<1>2. PICK place \in Blocked, b \in BOOLEAN :
        Settle(t, place) /\ k'.timed = [k.timed EXCEPT ![t] = b]
  BY BlockEffect
<1> QED
  BY <1>1, <1>2, EnqueueLemma

\* The kernel's own steps leave the event alone.
LEMMA IsrLemma ==
  ASSUME IInv, EnterIsr \/ ReturnFromIsr \/ Tick \/ TickReturn \/ PendSV
  PROVE  IInv'
<1> USE PartsLemma
<1>1. UNCHANGED <<ev, at, ask, bits, info, pass, made>>
  BY DEF EnterIsr, ReturnFromIsr, Tick, TickReturn, PendSV
<1>2. Sound(k') /\ k'.state = k.state /\ k'.timed = k.timed
  <2>1. CASE EnterIsr
    BY <2>1, SoundIsr DEF EnterIsr
  <2>2. CASE ReturnFromIsr
    BY <2>2, SoundIsr DEF ReturnFromIsr, InHandler
  <2>3. CASE Tick
    BY <2>3, SoundIsr DEF Tick, InHandler
  <2>4. CASE TickReturn
    BY <2>4, SoundIsr DEF TickReturn
  <2>5. CASE PendSV
    BY <2>5, SoundDispatch DEF PendSV
  <2> QED
    BY <2>1, <2>2, <2>3, <2>4, <2>5
<1>3. pass.loop # "none" => ~k'.ticking
  <2>1. k \in Kernel
    BY DEF Basic
  <2>2. CASE EnterIsr \/ ReturnFromIsr \/ Tick
    BY <2>2 DEF EnterIsr, ReturnFromIsr, Tick, Masked, InHandler
  <2>3. CASE TickReturn
    BY <2>1, <2>3 DEF TickReturn, TickEnd, Kernel
  <2>4. CASE PendSV
    BY <2>1, <2>4, DispatchEffect DEF PendSV
  <2> QED
    BY <2>2, <2>3, <2>4
<1>4. Sound(k)'
  BY <1>2, SoundPrime
<1>5. DataOK'
  BY <1>1 DEF DataOK
<1>6. WaitsOK' /\ FreshOK' /\ NoneMissed'
  BY <1>1, <1>2 DEF IInv, WaitsOK, FreshOK, NoneMissed
<1>7. LoopOK'
  BY <1>1, <1>3 DEF LoopOK
<1> QED
  BY <1>4, <1>5, <1>6, <1>7 DEF IInv

LEMMA InitLemma == Init => IInv
<1> SUFFICES ASSUME Init PROVE IInv
  OBVIOUS
<1>1. /\ HomePriority \in [Task -> Prio] /\ AutoQueues \in [Prio -> Seq(Task)]
      /\ StartsWith(HomePriority, AutoQueues, {})
  BY LwEventAssumption DEF StartsWith, IsInjective, Inj
<1>2. Sound(k) /\ \A t \in Task : k.state[t] = "READY" /\ ~k.timed[t]
  BY <1>1, SoundStartAll DEF Init
<1>3. /\ ev = [valid |-> FALSE, value |-> {}, auto |-> {}, waiters |-> <<>>]
      /\ at = [t \in AppTask |-> "none"]
      /\ ask = [t \in AppTask |-> NoWish]
      /\ bits = [t \in AppTask |-> {}]
      /\ info = [t \in AppTask |-> FALSE]
      /\ pass = NoPass
      /\ made = 0
  BY DEF Init
<1>4. ev.waiters = <<>> /\ ~ev.valid /\ pass.loop = "none"
  BY <1>3 DEF NoPass
<1>5. DataOK
  <2>1. ev \in Event
    BY <1>3, EmptyLemma DEF Event
  <2>2. pass \in Loop
    BY <1>3, EmptyLemma DEF NoPass, Loop
  <2>3. ask \in [AppTask -> Wish]
    BY <1>3 DEF NoWish, Wish
  <2>4. at \in [AppTask -> At]
    BY <1>3 DEF At, Outcome
  <2>5. 0 \in 0 .. MaxCreations
    BY LwEventAssumption
  <2> QED
    BY <1>3, <2>1, <2>2, <2>3, <2>4, <2>5 DEF DataOK
<1>6. WaitsOK
  <2>1. \A t \in AppTask : /\ k.state[t] = "READY" /\ ~k.timed[t]
                           /\ at[t] \notin Blocked
    BY <1>2, <1>3, AppTaskLemma DEF Blocked
  <2> QED
    BY <1>4, <2>1, EmptyLemma DEF WaitsOK, Waiting
<1>7. FreshOK
  BY <1>4 DEF FreshOK
<1>8. LoopOK /\ NoneMissed
  BY <1>4, EmptyLemma DEF LoopOK, Masks, Left, NoneMissed
<1> QED
  BY <1>2, <1>5, <1>6, <1>7, <1>8 DEF IInv

LEMMA TaskStepLemma ==
  ASSUME CreatedOnce, IInv, NEW t \in AppTask, TaskStep(t)
  PROVE  IInv'
<1>1. CASE \E auto \in {{}, Bit} : Create(t, auto)
  BY <1>1, CreateLemma
<1>2. CASE Destroy(t)
  BY <1>2, DestroyLemma
<1>3. CASE Refuse(t) \/ Resume(t)
  BY <1>3, EndLemma
<1>4. CASE \E w \in Wishes[t] : Catch(t, w)
  BY <1>4, CatchLemma
<1>5. CASE \E w \in Wishes[t] : \/ WaitForever(t, w)
                                \/ \E d \in Timeouts : WaitTimed(t, w, d)
  BY <1>5, WaitLemma
<1> QED
  BY <1>1, <1>2, <1>3, <1>4, <1>5 DEF TaskStep

LEMMA NextLemma ==
  ASSUME CreatedOnce, IInv, [Next]_vars
  PROVE  IInv'
<1>1. CASE UNCHANGED vars
  <2>1. UNCHANGED <<k, ev, at, ask, bits, info, pass, made>>
    BY <1>1 DEF vars
  <2>2. Sound(k)'
    BY <2>1, SoundPrime DEF IInv
  <2> QED
    BY <2>1, <2>2 DEF IInv, DataOK, WaitsOK, FreshOK, LoopOK, NoneMissed
<1>2. CASE \E t \in AppTask : TaskStep(t)
  BY <1>2, TaskStepLemma
<1>3. CASE \E m \in SetMask : Set(m) \/ Clear(m) \/ SetAutoClear(m)
  BY <1>3, BitsLemma
<1>4. CASE Skip \/ HandOut \/ SetEnd \/ DestroyNext \/ DestroyEnd
  BY <1>4, SkipLemma, HandOutLemma, LoopEndLemma, DestroyNextLemma
<1>5. CASE EnterIsr \/ ReturnFromIsr \/ Tick \/ WakeDue \/ TickReturn \/ PendSV
  BY <1>5, IsrLemma, WakeDueLemma
<1> QED
  BY <1>1, <1>2, <1>3, <1>4, <1>5 DEF Next

LEMMA Inductive ==
  ASSUME CreatedOnce
  PROVE  Spec => []IInv
<1>1. Init => IInv
  BY InitLemma
<1>2. IInv /\ [Next]_vars => IInv'
  BY NextLemma
<1> QED
  BY <1>1, <1>2, PTL DEF Spec

-----------------------------------------------------------------------------

\* WAITING_TASKS, TD.STATE and the kernel's queues agree between the rounds
\* of the loops of _lwevent_set and _lwevent_destroy, and when a timeout takes
\* a task off the queue (lwevent.c, _time_notify_kernel).
THEOREM QueueAndTasksAgree == ASSUME CreatedOnce PROVE Spec => []WaitersAgree
<1>1. IInv => WaitersAgree
  <2> SUFFICES ASSUME IInv PROVE WaitersAgree
    OBVIOUS
  <2>1. DataOK /\ Sound(k) /\ WaitsOK
    BY DEF IInv
  <2>2. k \in Kernel /\ Agree(k, {}) /\ NoneAbove(k)
    BY <2>1 DEF Sound, Basic
  <2>3. TypeOK
    BY <2>1, <2>2 DEF DataOK, Event, Loop, TypeOK
  <2>4. QueuesAgree(k)
    BY <2>2, AgreeLemma
  <2>5. IsInjective(ev.waiters)
    <3>1. \A s \in Seq(AppTask) : Inj(s) => IsInjective(s)
      BY DEF Inj, IsInjective
    <3> QED
      BY <2>1, <3>1 DEF DataOK, Event, WaitsOK, Waiting
  <2> QED
    BY <2>1, <2>2, <2>3, <2>4, <2>5 DEF WaitersAgree, WaitsOK, Waiting, IsReady
<1> QED
  BY <1>1, Inductive, PTL

\* _lwevent_set takes the bits that clear themselves out of set_bits while its
\* loop goes on, and writes VALUE only behind the loop; still no task is left
\* on WAITING_TASKS that the bits in VALUE satisfy (lwevent.c).
THEOREM NobodyMissed == ASSUME CreatedOnce PROVE Spec => []NoneMissed
<1>1. IInv => NoneMissed
  BY DEF IInv
<1> QED
  BY <1>1, Inductive, PTL

-----------------------------------------------------------------------------
(* LwEvent implements EventGroup.                                           *)

\* The elements of q are in the order they have in s.
Ordered(q, s) ==
  \A i, j \in 1 .. Len(q) : i < j =>
    \E a, b \in 1 .. Len(s) : a < b /\ s[a] = q[i] /\ s[b] = q[j]

LEMMA OrderedLemma ==
  ASSUME NEW s \in Seq(AppTask)
  PROVE  /\ Ordered(s, s)
         /\ \A w \in Seq(AppTask) : \A i \in 1 .. Len(w) :
              Ordered(w, s) => Ordered(RemoveAt(w, i), s)
<1>1. Ordered(s, s)
  BY DEF Ordered
<1>2. ASSUME NEW w \in Seq(AppTask), NEW i \in 1 .. Len(w), Ordered(w, s)
      PROVE  Ordered(RemoveAt(w, i), s)
  <2>1. PICK v : v = RemoveAt(w, i)
    OBVIOUS
  <2>2. /\ Len(v) = Len(w) - 1
        /\ \A j \in 1 .. Len(w) - 1 : v[j] = IF j < i THEN w[j] ELSE w[j + 1]
    BY <2>1, AppTaskLemma, RemoveAtLemma
  <2>3. ASSUME NEW a \in 1 .. Len(v), NEW b \in 1 .. Len(v), a < b
        PROVE  \E c, d \in 1 .. Len(w) : c < d /\ w[c] = v[a] /\ w[d] = v[b]
    <3>1. PICK c \in 1 .. Len(w) : c = IF a < i THEN a ELSE a + 1
      BY <2>2
    <3>2. PICK d \in 1 .. Len(w) : d = IF b < i THEN b ELSE b + 1
      BY <2>2
    <3>3. c < d
      BY <2>3, <3>1, <3>2
    <3>4. w[c] = v[a] /\ w[d] = v[b]
      BY <2>2, <3>1, <3>2
    <3> QED
      BY <3>3, <3>4
  <2>4. Ordered(v, s)
    BY <1>2, <2>3 DEF Ordered
  <2> QED
    BY <2>1, <2>4
<1> QED
  BY <1>1, <1>2

\* The loop of _lwevent_set on the queue f, of which w is left, with the
\* cursor at n and the bits s still to be handed out. b and a are LWEVENT_BITS
\* and the wishes.
Away(f, w) == ToSet(f) \ ToSet(w)
Handed(f, w, b) == {x \in Bit : \E t \in Away(f, w) : x \in b[t]}

\* Behind the cursor the queue is as it was; before it tasks have left.
Shape(f, w, n) ==
  /\ Inj(f) /\ Len(w) <= Len(f) /\ n <= Len(w) + 1
  /\ ToSet(w) \subseteq ToSet(f) /\ Ordered(w, f)
  /\ \A i \in 1 .. Len(w) : n <= i => w[i] = f[i + (Len(f) - Len(w))]

\* What those that left were given.
Dealt(f, w, s, a, b, auto) ==
  /\ \A t \in Away(f, w) :
       /\ b[t] \subseteq a[t].mask /\ Satisfied(a[t], b[t])
       /\ b[t] \cap auto \cap s = {} /\ b[t] \ auto \subseteq s
  /\ \A t, u \in Away(f, w) : t # u => b[t] \cap b[u] \cap auto = {}

\* A task that the cursor passed lost a bit to one before it, if all the bits
\* of this call would have satisfied it.
Passed(f, w, n, s, a, b, auto) ==
  \A i \in 1 .. Len(w) :
    i < n /\ Satisfied(a[w[i]], s \cup Handed(f, w, b)) =>
      \E c, d \in 1 .. Len(f) :
        /\ c < d /\ f[d] = w[i] /\ f[c] \in Away(f, w)
        /\ b[f[c]] \cap a[w[i]].mask \cap auto # {}

Walk(f, w, n, s, a, b, auto, value) ==
  /\ Shape(f, w, n)
  /\ Dealt(f, w, s, a, b, auto)
  /\ Passed(f, w, n, s, a, b, auto)
  /\ value \subseteq s \cup Handed(f, w, b)

\* TD.INFO tells who left the queue without its bits.
InfoOK ==
  \A t \in AppTask :
    /\ t \in ToSet(ev.waiters) => info[t]
    /\ k.timed[t] => at[t] = "timedBlocked"
    /\ at[t] = "blocked" /\ info[t] /\ ev.valid => t \in ToSet(ev.waiters)
    /\ made = 0 => at[t] \notin Blocked

\* Nobody else runs during a loop.
PassOK ==
  /\ pass.loop # "none" =>
       k.isr > 0 \/ (~k.pend /\ (k.active \in AppTask => at[k.active] \in Outcome))
  /\ pass.loop = "destroy" => ~ev.valid
  /\ pass.loop = "set" =>
       /\ ev.valid
       /\ \A t \in ToSet(pass.from) : at[t] \in Blocked
       /\ \A t \in Away(pass.from, ev.waiters) : ~info[t]
       /\ Walk(pass.from, ev.waiters, pass.next, pass.set, ask, bits, ev.auto,
               ev.value)

RInv == IInv /\ InfoOK /\ PassOK

LEMMA BeginWalk ==
  ASSUME NEW w \in Seq(AppTask), Inj(w), NEW a, NEW b, NEW auto, NEW value,
         NEW s, value \subseteq s
  PROVE  Walk(w, w, 1, s, a, b, auto, value)
<1>1. Away(w, w) = {} /\ Len(w) \in Nat
  BY DEF Away
<1>2. Shape(w, w, 1)
  BY <1>1, OrderedLemma DEF Shape
<1>3. Dealt(w, w, s, a, b, auto)
  BY <1>1 DEF Dealt
<1>4. Passed(w, w, 1, s, a, b, auto)
  BY DEF Passed
<1> QED
  BY <1>2, <1>3, <1>4 DEF Walk

\* The task at the cursor lost a bit to one that left, or is not satisfied by
\* all the bits of the call.
LEMMA SkipWalk ==
  ASSUME NEW f \in Seq(AppTask), NEW w \in Seq(AppTask), NEW n \in 1 .. Len(w),
         NEW s \in SUBSET Bit, NEW a \in [AppTask -> Wish],
         NEW b \in [AppTask -> SUBSET Bit], NEW auto, NEW value,
         Walk(f, w, n, s, a, b, auto, value), ~Satisfied(a[w[n]], s)
  PROVE  Walk(f, w, n + 1, s, a, b, auto, value)
<1>1. Len(w) \in Nat /\ Len(f) \in Nat /\ n \in Nat
  OBVIOUS
<1>2. Shape(f, w, n) /\ Dealt(f, w, s, a, b, auto) /\ Passed(f, w, n, s, a, b, auto)
  BY DEF Walk
<1>3. Shape(f, w, n + 1)
  BY <1>1, <1>2 DEF Shape
<1>4. ASSUME Satisfied(a[w[n]], s \cup Handed(f, w, b))
      PROVE  \E c, d \in 1 .. Len(f) :
               /\ c < d /\ f[d] = w[n] /\ f[c] \in Away(f, w)
               /\ b[f[c]] \cap a[w[n]].mask \cap auto # {}
  <2>1. PICK d : d = n + (Len(f) - Len(w))
    OBVIOUS
  <2>2. d \in 1 .. Len(f) /\ f[d] = w[n]
    BY <1>1, <1>2, <2>1 DEF Shape
  <2>3. PICK x \in Bit : x \in a[w[n]].mask /\ x \in Handed(f, w, b) /\ x \notin s
    <3>1. a[w[n]] \in Wish
      OBVIOUS
    <3> QED
      BY <1>4, <3>1 DEF Satisfied, Handed, Wish
  <2>4. PICK t \in Away(f, w) : x \in b[t]
    BY <2>3 DEF Handed
  <2>5. x \in auto
    BY <1>2, <2>3, <2>4 DEF Dealt
  <2>6. PICK c \in 1 .. Len(f) : f[c] = t
    BY <2>4 DEF Away, ToSet
  <2>7. c < d
    <3>1. SUFFICES ASSUME c >= d PROVE FALSE
      BY <2>2
    <3>2. PICK i : i = c - (Len(f) - Len(w))
      OBVIOUS
    <3>3. i \in 1 .. Len(w) /\ n <= i /\ i + (Len(f) - Len(w)) = c
      BY <1>1, <1>2, <2>1, <3>1, <3>2 DEF Shape
    <3>4. w[i] = t
      BY <1>2, <2>6, <3>3 DEF Shape
    <3> QED
      BY <2>4, <3>3, <3>4 DEF Away, ToSet
  <2>8. b[f[c]] \cap a[w[n]].mask \cap auto # {}
    BY <2>3, <2>4, <2>5, <2>6
  <2> QED
    BY <2>2, <2>4, <2>6, <2>7, <2>8
<1>5. Passed(f, w, n + 1, s, a, b, auto)
  <2>1. SUFFICES ASSUME NEW i \in 1 .. Len(w), i < n + 1,
                        Satisfied(a[w[i]], s \cup Handed(f, w, b))
                 PROVE  \E c, d \in 1 .. Len(f) :
                          /\ c < d /\ f[d] = w[i] /\ f[c] \in Away(f, w)
                          /\ b[f[c]] \cap a[w[i]].mask \cap auto # {}
    BY DEF Passed
  <2>2. CASE i = n
    BY <1>4, <2>1, <2>2
  <2>3. CASE i < n
    BY <1>2, <2>1, <2>3 DEF Passed
  <2> QED
    BY <1>1, <2>1, <2>2, <2>3
<1> QED
  BY <1>2, <1>3, <1>5 DEF Walk

\* A wish that a set satisfies is satisfied by what it asks for in that set.
LEMMA EnoughLemma ==
  ASSUME NEW w \in Wish, NEW s \in SUBSET Bit, Satisfied(w, s)
  PROVE  Satisfied(w, w.mask \cap s)
BY DEF Satisfied, Wish

\* The task u at the cursor leaves with its bits: v, c and z are the queue,
\* LWEVENT_BITS and the bits to hand out then.
Handing(f, w, n, s, a, b, auto, value, u, v, c, z) ==
  /\ f \in Seq(AppTask) /\ w \in Seq(AppTask) /\ Inj(w)
  /\ n \in 1 .. Len(w) /\ s \in SUBSET Bit
  /\ a \in [AppTask -> Wish] /\ b \in [AppTask -> SUBSET Bit]
  /\ Walk(f, w, n, s, a, b, auto, value)
  /\ u \in AppTask /\ u = w[n] /\ b[u] = a[u].mask /\ Satisfied(a[u], s)
  /\ v = RemoveAt(w, n) /\ c = [b EXCEPT ![u] = @ \cap s]
  /\ z = s \ (auto \cap c[u])

LEMMA HandWalk ==
  ASSUME NEW f, NEW w, NEW n, NEW s, NEW a, NEW b, NEW auto, NEW value,
         NEW u, NEW v, NEW c, NEW z,
         Handing(f, w, n, s, a, b, auto, value, u, v, c, z)
  PROVE  Walk(f, v, n, z, a, c, auto, value) /\ Away(f, v) = Away(f, w) \cup {u}
<1> USE DEF Handing
<1>1. Shape(f, w, n) /\ Dealt(f, w, s, a, b, auto) /\ Passed(f, w, n, s, a, b, auto)
  BY DEF Walk
<1>2. /\ v \in Seq(AppTask) /\ Inj(v) /\ ToSet(v) = ToSet(w) \ {u}
      /\ Len(v) = Len(w) - 1
  BY CutLemma
<1>3. \A i \in 1 .. Len(w) - 1 : v[i] = IF i < n THEN w[i] ELSE w[i + 1]
  BY AppTaskLemma, RemoveAtLemma
<1>4. u \in ToSet(w) /\ u \in ToSet(f)
  BY <1>1 DEF Shape, ToSet
<1>5. Away(f, v) = Away(f, w) \cup {u}
  BY <1>2, <1>4 DEF Away
<1>6. /\ c \in [AppTask -> SUBSET Bit] /\ c[u] = a[u].mask \cap s
      /\ \A t \in AppTask \ {u} : c[t] = b[t]
      /\ Away(f, w) \subseteq AppTask \ {u}
  <2>1. ToSet(f) \subseteq AppTask
    BY DEF ToSet
  <2> QED
    BY <1>4, <2>1 DEF Away
<1>7. Shape(f, v, n)
  <2>1. Len(f) \in Nat /\ Len(w) \in Nat /\ Len(v) <= Len(f) /\ n <= Len(v) + 1
    BY <1>1, <1>2 DEF Shape
  <2>2. Ordered(v, f)
    BY <1>1, OrderedLemma DEF Shape
  <2>3. ASSUME NEW i \in 1 .. Len(v), n <= i
        PROVE  v[i] = f[i + (Len(f) - Len(v))]
    <3>1. i + 1 \in 1 .. Len(w) /\ n <= i + 1 /\ i \in 1 .. Len(w) - 1 /\ ~(i < n)
      BY <1>2, <2>1, <2>3
    <3>2. v[i] = w[i + 1]
      BY <1>3, <3>1
    <3>3. w[i + 1] = f[(i + 1) + (Len(f) - Len(w))]
      BY <1>1, <3>1 DEF Shape
    <3>4. (i + 1) + (Len(f) - Len(w)) = i + (Len(f) - Len(v))
      BY <1>2, <2>1
    <3> QED
      BY <3>2, <3>3, <3>4
  <2> QED
    BY <1>1, <1>2, <2>1, <2>2, <2>3 DEF Shape
<1>8. Dealt(f, v, z, a, c, auto)
  <2>1. \A t \in Away(f, w) :
          /\ c[t] \subseteq a[t].mask /\ Satisfied(a[t], c[t])
          /\ c[t] \cap auto \cap z = {} /\ c[t] \ auto \subseteq z
          /\ c[t] \cap c[u] \cap auto = {}
    BY <1>1, <1>6 DEF Dealt
  <2>2. /\ c[u] \subseteq a[u].mask /\ Satisfied(a[u], c[u])
        /\ c[u] \cap auto \cap z = {} /\ c[u] \ auto \subseteq z
    <3>1. Satisfied(a[u], c[u])
      BY <1>6, EnoughLemma
    <3> QED
      BY <1>6, <3>1
  <2>3. \A t, r \in Away(f, w) : t # r => c[t] \cap c[r] \cap auto = {}
    BY <1>1, <1>6 DEF Dealt
  <2> QED
    BY ZenonT(60), <1>5, <2>1, <2>2, <2>3 DEF Dealt
<1>9. z \cup Handed(f, v, c) = s \cup Handed(f, w, b)
  <2>1. \A x \in Bit : x \in Handed(f, v, c) <=> x \in Handed(f, w, b) \/ x \in c[u]
    BY <1>5, <1>6 DEF Handed
  <2>2. Handed(f, v, c) \subseteq Bit /\ Handed(f, w, b) \subseteq Bit
    BY DEF Handed
  <2>3. c[u] \subseteq s /\ z \subseteq s /\ s \ c[u] \subseteq z /\ s \subseteq Bit
    BY <1>6
  <2> QED
    BY <2>1, <2>2, <2>3
<1>10. Passed(f, v, n, z, a, c, auto)
  <2>1. SUFFICES ASSUME NEW i \in 1 .. Len(v), i < n,
                        Satisfied(a[v[i]], s \cup Handed(f, w, b))
                 PROVE  \E p, d \in 1 .. Len(f) :
                          /\ p < d /\ f[d] = v[i] /\ f[p] \in Away(f, v)
                          /\ c[f[p]] \cap a[v[i]].mask \cap auto # {}
    BY <1>9 DEF Passed
  <2>2. i \in 1 .. Len(w) /\ v[i] = w[i]
    BY <1>2, <1>3, <2>1
  <2>3. PICK p \in 1 .. Len(f), d \in 1 .. Len(f) :
          /\ p < d /\ f[d] = w[i] /\ f[p] \in Away(f, w)
          /\ b[f[p]] \cap a[w[i]].mask \cap auto # {}
    BY <1>1, <2>1, <2>2 DEF Passed
  <2>4. c[f[p]] = b[f[p]] /\ f[p] \in Away(f, v)
    BY <1>5, <1>6, <2>3
  <2> QED
    BY <2>2, <2>3, <2>4
<1> QED
  BY <1>5, <1>7, <1>8, <1>9, <1>10 DEF Walk

AbstractStep == [Abstract!Next]_(Abstract!vars)

\* The abstract event's operators are those of the code.
LEMMA AbstractOps ==
  /\ \A s : Abstract!ToSet(s) = ToSet(s)
  /\ \A s \in Seq(AppTask) : Inj(s) => Abstract!IsInjective(s)
  /\ \A w, s : Abstract!Satisfied(w, s) <=> Satisfied(w, s)
  /\ Abstract!Wish = Wish
  /\ \A t : Abstract!Resting(t) <=> AbstractCall[t] \in Outcome
<1>1. \A s : Abstract!ToSet(s) = ToSet(s)
  BY DEF Abstract!ToSet, ToSet
<1>2. \A s \in Seq(AppTask) : Inj(s) => Abstract!IsInjective(s)
  BY DEF Inj, Abstract!IsInjective
<1>3. \A w, s : Abstract!Satisfied(w, s) <=> Satisfied(w, s)
  BY DEF Satisfied, Abstract!Satisfied
<1>4. Abstract!Wish = Wish
  BY DEF Wish, Abstract!Wish
<1>5. \A t : Abstract!Resting(t) <=> AbstractCall[t] \in Outcome
  BY DEF Abstract!Resting, Abstract!Outcome, Outcome
<1> QED
  BY <1>1, <1>2, <1>3, <1>4, <1>5

\* What the clients see of their calls does not change.
LEMMA SameLemma ==
  ASSUME \A t \in AppTask :
           /\ Place(t)' = Place(t)
           /\ Place(t) \in {"granted", "ok"} => bits'[t] = bits[t]
  PROVE  AbstractCall' = AbstractCall /\ AbstractSignals' = AbstractSignals
<1>1. AbstractCall' = AbstractCall
  BY DEF AbstractCall
<1>2. \A t \in AppTask :
        (IF Place(t) \in {"granted", "ok"} THEN bits[t] ELSE {})' =
        (IF Place(t) \in {"granted", "ok"} THEN bits[t] ELSE {})
  OBVIOUS
<1>3. AbstractSignals' = AbstractSignals
  BY <1>2 DEF AbstractSignals
<1> QED
  BY <1>1, <1>3

LEMMA StutterLemma ==
  ASSUME ev'.valid = ev.valid, ev'.value = ev.value, ev'.auto = ev.auto,
         ask' = ask, AbstractQueue' = AbstractQueue,
         AbstractCall' = AbstractCall, AbstractSignals' = AbstractSignals
  PROVE  AbstractStep
BY DEF AbstractStep, Abstract!vars

\* A step of the call of t alone.
LEMMA CallLemma ==
  ASSUME NEW t \in AppTask,
         \A u \in AppTask \ {t} : Place(u)' = Place(u) /\ bits'[u] = bits[u]
  PROVE  /\ AbstractCall' = [AbstractCall EXCEPT ![t] = Place(t)']
         /\ AbstractSignals' =
              [AbstractSignals EXCEPT
                 ![t] = (IF Place(t) \in {"granted", "ok"} THEN bits[t] ELSE {})']
<1>1. AbstractCall' = [AbstractCall EXCEPT ![t] = Place(t)']
  BY DEF AbstractCall
<1>2. \A u \in AppTask \ {t} :
        (IF Place(u) \in {"granted", "ok"} THEN bits[u] ELSE {})' =
        (IF Place(u) \in {"granted", "ok"} THEN bits[u] ELSE {})
  OBVIOUS
<1>3. AbstractSignals' =
        [AbstractSignals EXCEPT
           ![t] = (IF Place(t) \in {"granted", "ok"} THEN bits[t] ELSE {})']
  BY <1>2 DEF AbstractSignals
<1> QED
  BY <1>1, <1>3

LEMMA PlaceLemma ==
  ASSUME NEW t, at'[t] = at[t], info'[t] = info[t],
         t \in ToSet(AbstractQueue)' <=> t \in ToSet(AbstractQueue)
  PROVE  Place(t)' = Place(t)
BY DEF Place

\* Only the loop's own steps are taken during a loop.
LEMMA PassLemma ==
  ASSUME RInv, pass.loop # "none"
  PROVE  /\ ~k.ticking /\ (k.isr = 0 => ~k.pend)
         /\ \A t \in AppTask : Runs(k, t) => at[t] \in Outcome /\ at[t] \notin Blocked
<1>1. ~k.ticking
  BY DEF RInv, IInv, LoopOK
<1>2. k.isr > 0 \/ (~k.pend /\ (k.active \in AppTask => at[k.active] \in Outcome))
  BY DEF RInv, PassOK
<1>3. k.isr \in Nat
  BY PartsLemma DEF RInv, Basic, Kernel
<1> QED
  BY <1>1, <1>2, <1>3 DEF Runs, Outcome, Blocked

\* A call that may begin now.
LEMMA CallerLemma ==
  ASSUME Caller
  PROVE  /\ pass.loop = "none"
         /\ k.isr > 0 \/ (~k.pend /\ (k.active \in AppTask => at[k.active] \in Outcome))
BY DEF Caller, InHandler, Starts, Runs

LEMMA NoPassLemma ==
  ASSUME pass'.loop = "none"
  PROVE  PassOK'
BY DEF PassOK

LEMMA BitsRefines ==
  ASSUME RInv, NEW m \in SetMask, Set(m) \/ Clear(m) \/ SetAutoClear(m)
  PROVE  AbstractStep /\ InfoOK' /\ PassOK'
<1>1. /\ m \in SUBSET Bit /\ ev.valid
      /\ UNCHANGED <<k, at, ask, bits, info, made>>
      /\ pass.loop = "none" /\ AbstractQueue = ev.waiters
      /\ k.isr > 0 \/ (~k.pend /\ (k.active \in AppTask => at[k.active] \in Outcome))
  <2>1. Caller
    BY DEF Set, Clear, SetAutoClear
  <2> QED
    BY <2>1, CallerLemma, LwEventAssumption DEF Set, Clear, SetAutoClear, AbstractQueue
<1>2. /\ ev \in Event /\ ev.waiters \in Seq(AppTask) /\ Inj(ev.waiters)
      /\ Waiting(ev.waiters, k.state, k.timed, at)
  BY PartsLemma DEF RInv
<1>3. CASE Set(m)
  <2>1. /\ ev' = ev
        /\ pass' = [loop |-> "set", set |-> ev.value \cup m,
                    next |-> 1, from |-> ev.waiters]
    BY <1>3 DEF Set, Begin
  <2>2. /\ pass'.loop = "set" /\ pass'.set = ev.value \cup m /\ pass'.next = 1
        /\ pass'.from = ev.waiters /\ ev'.waiters = ev.waiters
    BY <2>1
  <2>3. AbstractQueue' = ev.waiters
    BY <2>2 DEF AbstractQueue
  <2>4. \A t \in AppTask : Place(t)' = Place(t) /\ bits'[t] = bits[t]
    BY <1>1, <2>3, PlaceLemma
  <2>5. AbstractCall' = AbstractCall /\ AbstractSignals' = AbstractSignals
    BY <2>4, SameLemma
  <2>6. AbstractStep
    BY <1>1, <2>1, <2>3, <2>5, StutterLemma
  <2>7. InfoOK'
    BY <1>1, <2>1 DEF RInv, InfoOK
  <2>8. Walk(ev.waiters, ev.waiters, 1, ev.value \cup m, ask, bits, ev.auto, ev.value)
    BY <1>2, BeginWalk
  <2>9. Away(ev.waiters, ev.waiters) = {}
    BY DEF Away
  <2>10. \A t \in ToSet(ev.waiters) : at[t] \in Blocked
    BY <1>2 DEF Waiting
  <2>11. PassOK'
    BY <1>1, <2>1, <2>2, <2>8, <2>9, <2>10 DEF PassOK
  <2> QED
    BY <2>6, <2>7, <2>11
<1>4. CASE Clear(m) \/ SetAutoClear(m)
  <2>1. /\ pass' = pass /\ ev'.waiters = ev.waiters /\ ev'.valid = ev.valid
        /\ \/ ev'.value = ev.value \ m /\ ev'.auto = ev.auto
           \/ ev'.value = ev.value /\ ev'.auto = m
    BY <1>2, <1>4 DEF Clear, SetAutoClear, Event
  <2>2. AbstractQueue' = AbstractQueue
    BY <1>1, <2>1 DEF AbstractQueue
  <2>3. \A t \in AppTask : Place(t)' = Place(t) /\ bits'[t] = bits[t]
    BY <1>1, <2>2, PlaceLemma
  <2>4. AbstractCall' = AbstractCall /\ AbstractSignals' = AbstractSignals
    BY <2>3, SameLemma
  <2>5. Abstract!Clear(m) \/ Abstract!SetAutoClear(m)
    BY <1>1, <2>1, <2>2, <2>4 DEF Abstract!Clear, Abstract!SetAutoClear
  <2>6. AbstractStep
    BY <1>1, <2>5 DEF AbstractStep, Abstract!Next
  <2>7. InfoOK'
    BY <1>1, <2>1 DEF RInv, InfoOK
  <2>8. PassOK'
    BY <1>1, <2>1, NoPassLemma
  <2> QED
    BY <2>6, <2>7, <2>8
<1> QED
  BY <1>3, <1>4

LEMMA SkipRefines ==
  ASSUME RInv, Skip
  PROVE  AbstractStep /\ InfoOK' /\ PassOK'
<1>1. /\ pass.loop = "set" /\ pass.next \in 1 .. Len(ev.waiters)
      /\ ~Satisfied(ask[ev.waiters[pass.next]], pass.set)
      /\ pass' = [pass EXCEPT !.next = @ + 1]
      /\ UNCHANGED <<k, ev, at, ask, bits, info, made>>
  BY CursorLemma DEF Skip, RInv
<1>2. /\ pass \in Loop /\ ev.waiters \in Seq(AppTask)
      /\ ask \in [AppTask -> Wish] /\ bits \in [AppTask -> SUBSET Bit]
  BY PartsLemma DEF RInv
<1>3. /\ pass'.loop = "set" /\ pass'.set = pass.set /\ pass'.from = pass.from
      /\ pass'.next = pass.next + 1
      /\ pass.from \in Seq(AppTask) /\ pass.set \in SUBSET Bit
  BY <1>1, <1>2 DEF Loop
<1>4. AbstractQueue' = AbstractQueue
  BY <1>1, <1>3 DEF AbstractQueue
<1>5. \A t \in AppTask : Place(t)' = Place(t) /\ bits'[t] = bits[t]
  BY <1>1, <1>4, PlaceLemma
<1>6. AbstractStep
  BY <1>1, <1>4, <1>5, SameLemma, StutterLemma
<1>7. InfoOK'
  BY <1>1 DEF RInv, InfoOK
<1>8. Walk(pass.from, ev.waiters, pass.next + 1, pass.set, ask, bits, ev.auto,
           ev.value)
  <2>1. Walk(pass.from, ev.waiters, pass.next, pass.set, ask, bits, ev.auto,
             ev.value)
    BY <1>1 DEF RInv, PassOK
  <2>2. PICK f \in Seq(AppTask), w \in Seq(AppTask), n \in 1 .. Len(ev.waiters),
             s \in SUBSET Bit :
          f = pass.from /\ w = ev.waiters /\ n = pass.next /\ s = pass.set
    BY <1>1, <1>2, <1>3
  <2>3. Walk(f, w, n + 1, s, ask, bits, ev.auto, ev.value)
    BY <1>1, <1>2, <2>1, <2>2, SkipWalk
  <2> QED
    BY <2>2, <2>3
<1>9. PassOK'
  BY <1>1, <1>3, <1>8 DEF RInv, PassOK
<1> QED
  BY <1>6, <1>7, <1>9

LEMMA CreateRefines ==
  ASSUME CreatedOnce, RInv, NEW t \in AppTask, NEW auto \in {{}, Bit}, Create(t, auto)
  PROVE  AbstractStep /\ InfoOK' /\ PassOK'
<1>1. /\ pass.loop = "none" /\ made = 0
      /\ ev' = [valid |-> TRUE, value |-> {}, auto |-> auto, waiters |-> <<>>]
      /\ UNCHANGED <<k, at, ask, bits, info, pass>>
  BY PartsLemma, LwEventAssumption DEF CreatedOnce, Create, Starts, RInv
<1>2. ev.waiters = <<>> /\ ~ev.valid /\ ev.valid \in BOOLEAN
  BY <1>1, PartsLemma DEF RInv, IInv, FreshOK
<1>3. /\ ev'.waiters = <<>> /\ ev'.valid = TRUE /\ ev'.value = {}
      /\ ev'.auto = auto /\ auto \in SUBSET Bit
  BY <1>1
<1>4. AbstractQueue = <<>> /\ AbstractQueue' = <<>>
  BY <1>1, <1>2, <1>3 DEF AbstractQueue
<1>5. \A u \in AppTask : Place(u)' = Place(u) /\ bits'[u] = bits[u]
  BY <1>1, <1>4, PlaceLemma
<1>6. AbstractCall' = AbstractCall /\ AbstractSignals' = AbstractSignals
  BY <1>5, SameLemma
<1>7. Abstract!Create(auto)
  BY <1>1, <1>2, <1>3, <1>4, <1>6 DEF Abstract!Create
<1>8. AbstractStep
  BY <1>3, <1>7 DEF AbstractStep, Abstract!Next
<1>9. InfoOK'
  <2>1. \A u \in AppTask : at'[u] # "blocked" /\ u \notin ToSet(ev'.waiters)
    BY <1>1, <1>3, EmptyLemma DEF RInv, InfoOK, Blocked
  <2>2. made' # 0
    BY LwEventAssumption, <1>1 DEF Create
  <2> QED
    BY <1>1, <2>1, <2>2 DEF RInv, InfoOK
<1>10. PassOK'
  BY <1>1, NoPassLemma
<1> QED
  BY <1>8, <1>9, <1>10

LEMMA DestroyRefines ==
  ASSUME RInv, NEW t \in AppTask, Destroy(t)
  PROVE  AbstractStep /\ InfoOK' /\ PassOK'
<1>1. /\ Starts(t) /\ ev.valid /\ pass.loop = "none"
      /\ ev' = [ev EXCEPT !.valid = FALSE]
      /\ pass' = [loop |-> "destroy", set |-> {}, next |-> 1, from |-> ev.waiters]
      /\ UNCHANGED <<k, at, ask, bits, info, made>>
  BY DEF Destroy, Starts, Begin
<1>2. /\ ev \in Event /\ Waiting(ev.waiters, k.state, k.timed, at)
  BY PartsLemma DEF RInv
<1>3. /\ ev'.valid = FALSE /\ ev'.value = ev.value /\ ev'.auto = ev.auto
      /\ ev'.waiters = ev.waiters /\ pass'.loop = "destroy"
  BY <1>1, <1>2 DEF Event
<1>4. AbstractQueue = ev.waiters /\ AbstractQueue' = <<>> /\ ToSet(<<>>) = {}
  BY <1>1, <1>3, EmptyLemma DEF AbstractQueue
<1>5. \A u \in AppTask \ ToSet(ev.waiters) : Place(u)' = Place(u) /\ bits'[u] = bits[u]
  BY <1>1, <1>4, PlaceLemma
<1>6. \A u \in AppTask : u \in ToSet(ev.waiters) =>
        Place(u) = "waiting" /\ Place(u)' = "left"
  BY <1>1, <1>2, <1>4 DEF Waiting, RInv, InfoOK, Place, Blocked, Outcome
<1>7. AbstractCall' = [u \in AppTask |-> IF u \in ToSet(AbstractQueue) THEN "left"
                                         ELSE AbstractCall[u]]
  BY <1>4, <1>5, <1>6 DEF AbstractCall
<1>8. AbstractSignals' = AbstractSignals
  <2>1. \A u \in AppTask :
          (IF Place(u) \in {"granted", "ok"} THEN bits[u] ELSE {})' =
          (IF Place(u) \in {"granted", "ok"} THEN bits[u] ELSE {})
    <3>1. SUFFICES ASSUME NEW u \in AppTask
                   PROVE (IF Place(u) \in {"granted", "ok"} THEN bits[u] ELSE {})' =
                         (IF Place(u) \in {"granted", "ok"} THEN bits[u] ELSE {})
      OBVIOUS
    <3>2. CASE u \in ToSet(ev.waiters)
      BY <1>6, <3>2
    <3>3. CASE u \notin ToSet(ev.waiters)
      BY <1>5, <3>3
    <3> QED
      BY <3>2, <3>3
  <2> QED
    BY <2>1 DEF AbstractSignals
<1>9. Abstract!Destroy
  BY <1>1, <1>3, <1>4, <1>7, <1>8, AbstractOps DEF Abstract!Destroy
<1>10. AbstractStep
  BY <1>9 DEF AbstractStep, Abstract!Next
<1>11. InfoOK'
  BY <1>1, <1>3 DEF RInv, InfoOK
<1>12. PassOK'
  BY <1>1, <1>3 DEF PassOK, Starts, Runs
<1> QED
  BY <1>10, <1>11, <1>12

\* A task that is woken during a loop does not run yet.
LEMMA WakeEffect ==
  ASSUME IInv, NEW u, k' = Wake(k, u)
  PROVE  k'.isr = k.isr /\ k'.pend = k.pend /\ k'.active = k.active
<1>1. k \in Kernel
  BY PartsLemma DEF Basic
<1> QED
  BY <1>1 DEF Wake, TaskReady, TimeDequeue, Kernel

LEMMA DestroyNextRefines ==
  ASSUME RInv, DestroyNext
  PROVE  AbstractStep /\ InfoOK' /\ PassOK'
<1>1. /\ pass.loop = "destroy" /\ ev.waiters # <<>>
      /\ k' = Wake(k, Head(ev.waiters))
      /\ ev' = [ev EXCEPT !.waiters = Tail(@)]
      /\ UNCHANGED <<at, ask, bits, info, pass, made>>
  BY DEF DestroyNext
<1>2. IInv /\ ev \in Event /\ ev.waiters \in Seq(AppTask) /\ Inj(ev.waiters)
      /\ k.timed \in [Task -> BOOLEAN] /\ ~ev.valid
  BY <1>1, PartsLemma DEF RInv, PassOK
<1>3. PICK u : u = Head(ev.waiters)
  OBVIOUS
<1>4. u \in ToSet(ev.waiters) /\ ToSet(Tail(ev.waiters)) = ToSet(ev.waiters) \ {u}
  BY <1>1, <1>2, <1>3, HeadLemma
<1>5. /\ ev'.waiters = Tail(ev.waiters) /\ ev'.valid = ev.valid
      /\ ev'.value = ev.value /\ ev'.auto = ev.auto
  BY <1>1, <1>2 DEF Event
<1>6. /\ k'.timed = [k.timed EXCEPT ![u] = FALSE]
      /\ k'.isr = k.isr /\ k'.pend = k.pend /\ k'.active = k.active
  BY <1>1, <1>2, <1>3, <1>4, WaiterLemma, WakeEffect
<1>7. AbstractQueue' = AbstractQueue
  BY <1>1 DEF AbstractQueue
<1>8. \A t \in AppTask : Place(t)' = Place(t) /\ bits'[t] = bits[t]
  BY <1>1, <1>7, PlaceLemma
<1>9. AbstractStep
  BY <1>1, <1>5, <1>7, <1>8, SameLemma, StutterLemma
<1>10. \A t \in AppTask : k'.timed[t] => k.timed[t]
  BY <1>2, <1>6, AppTaskLemma
<1>11. InfoOK'
  BY <1>1, <1>2, <1>4, <1>5, <1>10 DEF RInv, InfoOK
<1>12. PassOK'
  BY <1>1, <1>2, <1>5, <1>6 DEF RInv, PassOK
<1> QED
  BY <1>9, <1>11, <1>12

LEMMA DestroyEndRefines ==
  ASSUME RInv, DestroyEnd
  PROVE  AbstractStep /\ InfoOK' /\ PassOK'
<1>1. /\ pass.loop = "destroy" /\ ev.waiters = <<>>
      /\ pass' = NoPass /\ k' = PendScheduler(k)
      /\ UNCHANGED <<ev, at, ask, bits, info, made>>
  BY DEF DestroyEnd
<1>2. k'.timed = k.timed
  BY <1>1, PartsLemma, SoundPend DEF RInv
<1>3. pass'.loop = "none"
  BY <1>1 DEF NoPass
<1>4. AbstractQueue' = AbstractQueue
  BY <1>1, <1>3 DEF AbstractQueue
<1>5. \A t \in AppTask : Place(t)' = Place(t) /\ bits'[t] = bits[t]
  BY <1>1, <1>4, PlaceLemma
<1>6. AbstractStep
  BY <1>1, <1>4, <1>5, SameLemma, StutterLemma
<1>7. InfoOK'
  BY <1>1, <1>2 DEF RInv, InfoOK
<1>8. PassOK'
  BY <1>3, NoPassLemma
<1> QED
  BY <1>6, <1>7, <1>8

LEMMA HandOutRefines ==
  ASSUME RInv, HandOut
  PROVE  AbstractStep /\ InfoOK' /\ PassOK'
<1>1. /\ pass.loop = "set" /\ pass.next <= Len(ev.waiters) /\ Served
      /\ k' = Wake(k, Waiter)
      /\ ev' = [ev EXCEPT !.waiters = RemoveAt(@, pass.next)]
      /\ info' = [info EXCEPT ![Waiter] = FALSE]
      /\ bits' = [bits EXCEPT ![Waiter] = @ \cap pass.set]
      /\ pass' = [pass EXCEPT !.set = @ \ (ev.auto \cap bits'[Waiter])]
      /\ UNCHANGED <<at, ask, made>>
  BY DEF HandOut
<1>2. /\ IInv /\ pass \in Loop /\ ev \in Event /\ ask \in [AppTask -> Wish]
      /\ bits \in [AppTask -> SUBSET Bit] /\ info \in [AppTask -> BOOLEAN]
      /\ ev.waiters \in Seq(AppTask) /\ Inj(ev.waiters)
      /\ Masks(ev.waiters, bits, ask) /\ k.timed \in [Task -> BOOLEAN]
  BY PartsLemma DEF RInv
<1>3. PICK f \in Seq(AppTask), w \in Seq(AppTask), n \in 1 .. Len(ev.waiters),
           s \in SUBSET Bit :
        f = pass.from /\ w = ev.waiters /\ n = pass.next /\ s = pass.set
  BY <1>1, <1>2, CursorLemma DEF Loop
<1>4. PICK u \in AppTask : /\ u = Waiter /\ u = w[n] /\ u \in ToSet(w)
                           /\ Satisfied(ask[u], s) /\ bits[u] = ask[u].mask
  BY <1>1, <1>2, <1>3, CursorLemma DEF Masks
<1>5. PICK v : v = RemoveAt(w, n)
  OBVIOUS
<1>6. PICK z : z = s \ (ev.auto \cap bits'[u])
  OBVIOUS
<1>7. /\ Walk(f, w, n, s, ask, bits, ev.auto, ev.value) /\ ev.valid
      /\ \A t \in ToSet(f) : at[t] \in Blocked
      /\ \A t \in Away(f, w) : ~info[t]
      /\ k.isr > 0 \/ (~k.pend /\ (k.active \in AppTask => at[k.active] \in Outcome))
  BY <1>1, <1>3 DEF RInv, PassOK
<1>8. Inj(w) /\ n \in 1 .. Len(w) /\ bits' = [bits EXCEPT ![u] = @ \cap s]
  BY <1>1, <1>2, <1>3, <1>4
<1>9. Walk(f, v, n, z, ask, bits', ev.auto, ev.value) /\ Away(f, v) = Away(f, w) \cup {u}
  <2>1. PICK a \in [AppTask -> Wish], b \in [AppTask -> SUBSET Bit] :
          a = ask /\ b = bits
    BY <1>2
  <2>2. PICK auto, value, c : auto = ev.auto /\ value = ev.value /\ c = bits'
    OBVIOUS
  <2>3. /\ Walk(f, w, n, s, a, b, auto, value) /\ Inj(w)
        /\ u = w[n] /\ b[u] = a[u].mask /\ Satisfied(a[u], s)
        /\ c = [b EXCEPT ![u] = @ \cap s] /\ z = s \ (auto \cap c[u])
    BY <1>4, <1>6, <1>7, <1>8, <2>1, <2>2
  <2>4. n \in 1 .. Len(w)
    BY <1>8
  <2>5. Handing(f, w, n, s, a, b, auto, value, u, v, c, z)
    BY <1>5, <2>3, <2>4 DEF Handing
  <2>6. Walk(f, v, n, z, a, c, auto, value) /\ Away(f, v) = Away(f, w) \cup {u}
    BY <2>5, HandWalk
  <2> QED
    BY <2>1, <2>2, <2>6
<1>10. /\ ev'.waiters = v /\ ev'.valid = ev.valid
       /\ ev'.value = ev.value /\ ev'.auto = ev.auto
       /\ pass'.loop = "set" /\ pass'.set = z /\ pass'.next = n /\ pass'.from = f
  BY <1>1, <1>2, <1>3, <1>4, <1>5, <1>6 DEF Event, Loop
<1>11. /\ ~info'[u] /\ \A t \in AppTask \ {u} : info'[t] = info[t] /\ bits'[t] = bits[t]
  BY <1>1, <1>2, <1>4
<1>12. AbstractQueue = f /\ AbstractQueue' = f
  BY <1>1, <1>3, <1>10 DEF AbstractQueue
<1>13. u \in ToSet(f)
  BY <1>4, <1>7 DEF Walk, Shape
<1>14. Place(u) = "waiting" /\ Place(u)' = "waiting"
  BY <1>1, <1>7, <1>12, <1>13 DEF Place, Blocked, Outcome
<1>15. \A t \in AppTask \ {u} : Place(t)' = Place(t)
  BY <1>1, <1>11, <1>12, PlaceLemma
<1>16. \A t \in AppTask :
         Place(t)' = Place(t) /\ (Place(t) \in {"granted", "ok"} => bits'[t] = bits[t])
  BY <1>11, <1>14, <1>15
<1>17. AbstractStep
  BY <1>1, <1>10, <1>12, <1>16, SameLemma, StutterLemma
<1>18. /\ k'.timed = [k.timed EXCEPT ![u] = FALSE]
       /\ k'.isr = k.isr /\ k'.pend = k.pend /\ k'.active = k.active
  BY <1>1, <1>2, <1>3, <1>4, WaiterLemma, WakeEffect
<1>19. \A t \in AppTask : k'.timed[t] => k.timed[t]
  BY <1>2, <1>18, AppTaskLemma
<1>20. ToSet(v) = ToSet(w) \ {u}
  BY <1>4, <1>5, <1>8, CutLemma
<1>21. InfoOK'
  <2>1. \A t \in AppTask : t \in ToSet(v) => info'[t]
    BY <1>3, <1>11, <1>20 DEF RInv, InfoOK
  <2>2. \A t \in AppTask : at[t] = "blocked" /\ info'[t] => t \in ToSet(v)
    BY <1>3, <1>7, <1>11, <1>20 DEF RInv, InfoOK
  <2> QED
    BY <1>1, <1>10, <1>19, <2>1, <2>2 DEF RInv, InfoOK
<1>22. \A t \in Away(f, v) : ~info'[t]
  <2>1. Away(f, w) \subseteq AppTask
    BY DEF Away, ToSet
  <2> QED
    BY <1>7, <1>9, <1>11, <2>1
<1>23. PassOK'
  BY <1>1, <1>7, <1>9, <1>10, <1>18, <1>22 DEF PassOK
<1> QED
  BY <1>17, <1>21, <1>23

\* Behind the last task the loop has handed out what the abstract event asks.
Ending(f, w, n, s, a, b, auto, value) ==
  /\ f \in Seq(AppTask) /\ w \in Seq(AppTask) /\ n \in Nat /\ n > Len(w)
  /\ s \in SUBSET Bit /\ a \in [AppTask -> Wish]
  /\ b \in [AppTask -> SUBSET Bit]
  /\ Walk(f, w, n, s, a, b, auto, value)
  /\ \A i \in 1 .. Len(w) : ~Satisfied(a[w[i]], s)

\* The tasks in gone were given the bits h, and those in s are left.
Ended(f, gone, h, s, a, b, auto) ==
  /\ s = (s \cup h) \ (auto \cap h)
  /\ h = UNION {b[t] : t \in gone}
  /\ \A t \in gone : b[t] \subseteq a[t].mask \cap (s \cup h) /\ Satisfied(a[t], b[t])
  /\ \A t, u \in gone : t # u => b[t] \cap b[u] \cap auto = {}
  /\ \A i \in 1 .. Len(f) : f[i] \notin gone =>
       /\ ~Satisfied(a[f[i]], s)
       /\ Satisfied(a[f[i]], s \cup h) =>
            \E j \in 1 .. i - 1 :
              f[j] \in gone /\ b[f[j]] \cap a[f[i]].mask \cap auto # {}

LEMMA EndWalk ==
  ASSUME NEW f, NEW w, NEW n, NEW s, NEW a, NEW b, NEW auto, NEW value,
         Ending(f, w, n, s, a, b, auto, value)
  PROVE  Ended(f, Away(f, w), Handed(f, w, b), s, a, b, auto)
<1> USE DEF Ending
<1>1. /\ Shape(f, w, n) /\ Dealt(f, w, s, a, b, auto)
      /\ Passed(f, w, n, s, a, b, auto)
  BY DEF Walk
<1>2. Away(f, w) \subseteq AppTask
  BY DEF Away, ToSet
<1>3. PICK h : h = Handed(f, w, b)
  OBVIOUS
<1>4. \A x : x \in h <=> \E t \in Away(f, w) : x \in b[t]
  BY <1>2, <1>3 DEF Handed
<1>5. h = UNION {b[t] : t \in Away(f, w)}
  BY <1>4
<1>6. s = (s \cup h) \ (auto \cap h)
  <2>1. \A x \in h : (x \in auto => x \notin s) /\ (x \notin auto => x \in s)
    BY <1>1, <1>4 DEF Dealt
  <2> QED
    BY <2>1
<1>7. \A t \in Away(f, w) : /\ b[t] \subseteq a[t].mask \cap (s \cup h)
                            /\ Satisfied(a[t], b[t])
  BY <1>1, <1>4 DEF Dealt
<1>8. \A t, u \in Away(f, w) : t # u => b[t] \cap b[u] \cap auto = {}
  BY <1>1 DEF Dealt
<1>9. ASSUME NEW i \in 1 .. Len(f), f[i] \notin Away(f, w)
      PROVE  /\ ~Satisfied(a[f[i]], s)
             /\ Satisfied(a[f[i]], s \cup h) =>
                  \E j \in 1 .. i - 1 :
                    /\ f[j] \in Away(f, w)
                    /\ b[f[j]] \cap a[f[i]].mask \cap auto # {}
  <2>1. f[i] \in ToSet(w)
    BY <1>9 DEF Away, ToSet
  <2>2. PICK j \in 1 .. Len(w) : w[j] = f[i]
    BY <2>1 DEF ToSet
  <2>3. ~Satisfied(a[f[i]], s)
    BY <2>2
  <2>4. ASSUME Satisfied(a[f[i]], s \cup h)
        PROVE  \E c \in 1 .. i - 1 :
                 /\ f[c] \in Away(f, w)
                 /\ b[f[c]] \cap a[f[i]].mask \cap auto # {}
    <3>1. j < n /\ Satisfied(a[w[j]], s \cup Handed(f, w, b))
      BY <1>3, <2>2, <2>4
    <3>2. PICK c \in 1 .. Len(f), d \in 1 .. Len(f) :
            /\ c < d /\ f[d] = w[j] /\ f[c] \in Away(f, w)
            /\ b[f[c]] \cap a[w[j]].mask \cap auto # {}
      BY <1>1, <3>1 DEF Passed
    <3>3. d = i
      BY <1>1, <2>2, <3>2 DEF Shape, Inj
    <3>4. c \in 1 .. i - 1
      BY <3>2, <3>3
    <3> QED
      BY <2>2, <3>2, <3>4
  <2> QED
    BY <2>3, <2>4
<1> QED
  BY <1>3, <1>5, <1>6, <1>7, <1>8, <1>9 DEF Ended

LEMMA SetEndRefines ==
  ASSUME RInv, SetEnd
  PROVE  AbstractStep /\ InfoOK' /\ PassOK'
<1>1. /\ pass.loop = "set" /\ pass.next > Len(ev.waiters)
      /\ ev' = [ev EXCEPT !.value = pass.set]
      /\ pass' = NoPass /\ k' = PendScheduler(k)
      /\ UNCHANGED <<at, ask, bits, info, made>>
  BY DEF SetEnd
<1>2. /\ pass \in Loop /\ ev \in Event /\ ask \in [AppTask -> Wish]
      /\ bits \in [AppTask -> SUBSET Bit] /\ ev.waiters \in Seq(AppTask)
      /\ Inj(ev.waiters) /\ Left(ev.waiters, ask, pass)
      /\ Waiting(ev.waiters, k.state, k.timed, at)
  BY PartsLemma DEF RInv
<1>3. PICK f \in Seq(AppTask), w \in Seq(AppTask), n \in Nat, s \in SUBSET Bit :
        f = pass.from /\ w = ev.waiters /\ n = pass.next /\ s = pass.set
  BY <1>2 DEF Loop
<1>4. /\ Walk(f, w, n, s, ask, bits, ev.auto, ev.value) /\ ev.valid
      /\ \A t \in ToSet(f) : at[t] \in Blocked
      /\ \A t \in Away(f, w) : ~info[t]
  BY <1>1, <1>3 DEF RInv, PassOK
<1>5. \A i \in 1 .. Len(w) : ~Satisfied(ask[w[i]], s)
  BY <1>1, <1>2, <1>3 DEF Left
<1>6. PICK gone, h, m : /\ gone = Away(f, w) /\ h = Handed(f, w, bits)
                        /\ m = s \cup h
  OBVIOUS
<1>7. /\ s = m \ (ev.auto \cap h)
      /\ h = UNION {bits[t] : t \in gone}
      /\ \A t \in gone : bits[t] \subseteq ask[t].mask \cap m /\ Satisfied(ask[t], bits[t])
      /\ \A t, u \in gone : t # u => bits[t] \cap bits[u] \cap ev.auto = {}
      /\ \A i \in 1 .. Len(f) : f[i] \notin gone =>
           /\ ~Satisfied(ask[f[i]], s)
           /\ Satisfied(ask[f[i]], m) =>
                \E j \in 1 .. i - 1 :
                  /\ f[j] \in gone
                  /\ bits[f[j]] \cap ask[f[i]].mask \cap ev.auto # {}
  <2>1. PICK a, b, auto, value :
          a = ask /\ b = bits /\ auto = ev.auto /\ value = ev.value
    OBVIOUS
  <2>2. Walk(f, w, n, s, a, b, auto, value) /\ n > Len(w)
    BY <1>1, <1>3, <1>4, <2>1
  <2>3. Ending(f, w, n, s, a, b, auto, value)
    BY <1>2, <1>5, <2>1, <2>2 DEF Ending
  <2>4. Ended(f, Away(f, w), Handed(f, w, b), s, a, b, auto)
    BY <2>3, EndWalk
  <2>5. Ended(f, gone, h, s, ask, bits, ev.auto)
    BY <1>6, <2>1, <2>4
  <2> QED
    BY <1>6, <2>5 DEF Ended
<1>8. m \in SUBSET Bit /\ ev.value \cup m = m /\ h \subseteq Bit
  BY <1>4, <1>6 DEF Walk, Handed
<1>9. /\ ev'.value = s /\ ev'.valid = ev.valid /\ ev'.auto = ev.auto
      /\ ev'.waiters = w /\ pass'.loop = "none"
  BY <1>1, <1>2, <1>3 DEF Event, NoPass
<1>10. AbstractQueue = f /\ AbstractQueue' = w
  BY <1>1, <1>3, <1>9 DEF AbstractQueue
<1>11. /\ gone \in SUBSET ToSet(f) /\ gone \subseteq AppTask
       /\ ToSet(w) = ToSet(f) \ gone /\ Inj(w) /\ Ordered(w, f)
  <2>1. Inj(w) /\ ToSet(w) \subseteq ToSet(f) /\ Ordered(w, f)
    BY <1>2, <1>3, <1>4 DEF Walk, Shape
  <2>2. ToSet(f) \subseteq AppTask
    BY DEF ToSet
  <2> QED
    BY <1>6, <2>1, <2>2 DEF Away
<1>12. \A t \in gone : Place(t)' = "granted"
  BY <1>1, <1>4, <1>6, <1>10, <1>11 DEF Place, Blocked, Outcome
<1>13. \A t \in gone : Place(t) = "waiting"
  BY <1>1, <1>4, <1>6, <1>10, <1>11 DEF Place, Blocked, Outcome
<1>14. \A t \in AppTask \ gone : Place(t)' = Place(t)
  BY <1>1, <1>10, <1>11, PlaceLemma
<1>15. AbstractCall' = [t \in AppTask |-> IF t \in gone THEN "granted"
                                          ELSE AbstractCall[t]]
  BY <1>12, <1>14 DEF AbstractCall
<1>16. PICK given : given = [t \in gone |-> bits[t]]
  OBVIOUS
<1>17. given \in [gone -> SUBSET Bit] /\ \A t \in gone : given[t] = bits[t]
  BY <1>2, <1>11, <1>16
<1>18. AbstractSignals' = [t \in AppTask |-> IF t \in gone THEN given[t]
                                             ELSE AbstractSignals[t]]
  <2>1. \A t \in AppTask :
          (IF Place(t) \in {"granted", "ok"} THEN bits[t] ELSE {})' =
          IF t \in gone THEN given[t]
          ELSE IF Place(t) \in {"granted", "ok"} THEN bits[t] ELSE {}
    BY <1>1, <1>12, <1>14, <1>17
  <2> QED
    BY <2>1 DEF AbstractSignals
<1>19. Abstract!Leaves(w, f, gone)
  BY <1>11, AbstractOps DEF Abstract!Leaves, Ordered
<1>20. Abstract!Fair(m, gone, given)
  BY <1>7, <1>17, AbstractOps DEF Abstract!Fair
<1>21. Abstract!Justified(m, s, gone, given)
  <2>1. \A i \in 1 .. Len(f) : f[i] \notin gone =>
          /\ ~Satisfied(ask[f[i]], s)
          /\ Satisfied(ask[f[i]], m) =>
               \E j \in 1 .. i - 1 :
                 /\ f[j] \in gone
                 /\ given[f[j]] \cap ask[f[i]].mask \cap ev.auto # {}
    BY <1>7, <1>17
  <2> QED
    BY <1>10, <2>1, AbstractOps DEF Abstract!Justified
<1>22. s = m \ (ev.auto \cap UNION {given[t] : t \in gone})
  <2>1. {given[t] : t \in gone} = {bits[t] : t \in gone}
    BY <1>17
  <2> QED
    BY <1>7, <2>1
<1>23. Abstract!Set(m)
  <2>1. gone \in SUBSET Abstract!ToSet(AbstractQueue)
    BY <1>10, <1>11, AbstractOps
  <2>2. Abstract!Fair(ev.value \cup m, gone, given)
    BY <1>8, <1>20
  <2>3. Abstract!Justified(ev.value \cup m, ev'.value, gone, given)
    BY <1>8, <1>9, <1>21
  <2>4. ev'.value = (ev.value \cup m) \ (ev.auto \cap UNION {given[t] : t \in gone})
    BY <1>8, <1>9, <1>22
  <2>5. Abstract!Leaves(AbstractQueue', AbstractQueue, gone)
    BY <1>10, <1>19
  <2>6. UNCHANGED <<ev.valid, ev.auto, ask>>
    BY <1>1, <1>9
  <2> QED
    BY ZenonT(60), <1>4, <1>15, <1>17, <1>18, <2>1, <2>2, <2>3, <2>4, <2>5, <2>6
    DEF Abstract!Set
<1>24. AbstractStep
  BY <1>8, <1>23 DEF AbstractStep, Abstract!Next
<1>25. k'.timed = k.timed
  BY <1>1, PartsLemma, SoundPend DEF RInv
<1>26. InfoOK'
  BY <1>1, <1>3, <1>9, <1>25 DEF RInv, InfoOK
<1>27. PassOK'
  BY <1>9, NoPassLemma
<1> QED
  BY <1>24, <1>26, <1>27

\* The call of the executing task t ends with out.
LEMMA OutcomeLemma ==
  ASSUME RInv, NEW t \in AppTask, Runs(k, t), pass.loop = "none",
         NEW out \in Outcome, at' = [at EXCEPT ![t] = out],
         UNCHANGED <<k, pass, info, made>>,
         ev'.valid = ev.valid, ev'.waiters = ev.waiters,
         \A u \in AppTask \ {t} : bits'[u] = bits[u]
  PROVE  /\ InfoOK' /\ PassOK' /\ AbstractQueue' = AbstractQueue
         /\ AbstractCall' = [AbstractCall EXCEPT ![t] = out]
         /\ AbstractSignals' = [AbstractSignals EXCEPT
                                  ![t] = IF out = "ok" THEN bits'[t] ELSE {}]
<1>1. at \in [AppTask -> At] /\ ~k.timed[t]
  BY PartsLemma, RunsLemma DEF RInv
<1>2. at'[t] = out /\ \A u \in AppTask \ {t} : at'[u] = at[u]
  BY <1>1
<1>3. AbstractQueue' = AbstractQueue
  BY DEF AbstractQueue
<1>4. Place(t)' = out
  BY <1>2 DEF Place
<1>5. \A u \in AppTask \ {t} : Place(u)' = Place(u) /\ bits'[u] = bits[u]
  BY <1>2, <1>3, PlaceLemma
<1>6. /\ AbstractCall' = [AbstractCall EXCEPT ![t] = Place(t)']
      /\ AbstractSignals' =
           [AbstractSignals EXCEPT
              ![t] = (IF Place(t) \in {"granted", "ok"} THEN bits[t] ELSE {})']
  BY <1>5, CallLemma
<1>7. out # "granted" /\ out \notin Blocked /\ out # "blocked"
  BY DEF Outcome, Blocked
<1>8. (IF Place(t) \in {"granted", "ok"} THEN bits[t] ELSE {})'
        = IF out = "ok" THEN bits'[t] ELSE {}
  BY <1>4, <1>7
<1>9. InfoOK'
  BY <1>1, <1>2, <1>7 DEF RInv, InfoOK
<1>10. PassOK'
  BY NoPassLemma
<1> QED
  BY <1>3, <1>4, <1>6, <1>8, <1>9, <1>10

LEMMA RefuseRefines ==
  ASSUME RInv, NEW t \in AppTask, Refuse(t)
  PROVE  AbstractStep /\ InfoOK' /\ PassOK'
<1>1. /\ Runs(k, t) /\ at[t] \in Outcome /\ pass.loop = "none" /\ ~ev.valid
      /\ at' = [at EXCEPT ![t] = "invalid"] /\ "invalid" \in Outcome
      /\ UNCHANGED <<k, ev, ask, bits, info, pass, made>>
  BY DEF Refuse, Starts, Settle, Outcome
<1>2. /\ InfoOK' /\ PassOK' /\ AbstractQueue' = AbstractQueue
      /\ AbstractCall' = [AbstractCall EXCEPT ![t] = "invalid"]
      /\ AbstractSignals' = [AbstractSignals EXCEPT ![t] = {}]
  BY <1>1, OutcomeLemma
<1>3. Abstract!Resting(t)
  BY <1>1, AbstractOps DEF AbstractCall, Place
<1>4. Abstract!Refuse(t)
  BY <1>1, <1>2, <1>3 DEF Abstract!Refuse, Abstract!Settle
<1>5. AbstractStep
  BY <1>4 DEF AbstractStep, Abstract!Next
<1> QED
  BY <1>2, <1>5

LEMMA ResumeRefines ==
  ASSUME RInv, NEW t \in AppTask, Resume(t)
  PROVE  AbstractStep /\ InfoOK' /\ PassOK'
<1>1. /\ Runs(k, t) /\ at[t] \in Blocked
      /\ UNCHANGED <<k, ev, ask, bits, info, pass, made>>
  BY DEF Resume
<1>2. PICK out : out = IF ~ev.valid THEN "invalid"
                       ELSE IF at[t] = "timedBlocked" /\ info[t] THEN "timeout"
                       ELSE "ok"
  OBVIOUS
<1>3. out \in Outcome /\ at' = [at EXCEPT ![t] = out]
  BY <1>2 DEF Resume, Settle, Outcome
<1>4. pass.loop = "none"
  BY <1>1, PassLemma
<1>5. t \notin ToSet(ev.waiters)
  BY <1>1, RunsLemma DEF RInv
<1>6. /\ InfoOK' /\ PassOK' /\ AbstractQueue' = AbstractQueue
      /\ AbstractCall' = [AbstractCall EXCEPT ![t] = out]
      /\ AbstractSignals' = [AbstractSignals EXCEPT
                               ![t] = IF out = "ok" THEN bits[t] ELSE {}]
  BY <1>1, <1>3, <1>4, OutcomeLemma
<1>7. AbstractCall[t] = IF info[t] THEN "left" ELSE "granted"
  BY <1>1, <1>4, <1>5 DEF AbstractCall, Place, AbstractQueue, Blocked, Outcome
<1>8. AbstractSignals[t] = IF info[t] THEN {} ELSE bits[t]
  BY <1>7 DEF AbstractSignals, AbstractCall
<1>9. AbstractSignals = [AbstractSignals EXCEPT ![t] = AbstractSignals[t]]
  BY DEF AbstractSignals
<1>10. Abstract!Return(t)
  <2>1. CASE ~ev.valid
    BY <1>1, <1>2, <1>6, <1>7, <2>1 DEF Abstract!Return, Abstract!Settle
  <2>2. CASE ev.valid /\ info[t]
    <3>1. out = "timeout"
      BY <1>1, <1>2, <1>5, <2>2 DEF RInv, InfoOK, Blocked
    <3>2. AbstractSignals' = AbstractSignals
      BY <1>6, <1>8, <1>9, <2>2, <3>1
    <3> QED
      BY <1>1, <1>6, <1>7, <2>2, <3>1, <3>2 DEF Abstract!Return, Abstract!Settle
  <2>3. CASE ev.valid /\ ~info[t]
    <3>1. out = "ok"
      BY <1>2, <2>3
    <3>2. AbstractSignals' = AbstractSignals
      BY <1>6, <1>8, <1>9, <2>3, <3>1
    <3> QED
      BY <1>1, <1>6, <1>7, <2>3, <3>1, <3>2 DEF Abstract!Return, Abstract!Settle
  <2> QED
    BY <2>1, <2>2, <2>3
<1>11. AbstractStep
  BY <1>10 DEF AbstractStep, Abstract!Next
<1> QED
  BY <1>6, <1>11

LEMMA CatchRefines ==
  ASSUME RInv, NEW t \in AppTask, NEW w \in Wishes[t], Catch(t, w)
  PROVE  AbstractStep /\ InfoOK' /\ PassOK'
<1>1. /\ Runs(k, t) /\ at[t] \in Outcome /\ pass.loop = "none" /\ ev.valid
      /\ Satisfied(w, ev.value)
      /\ ask' = [ask EXCEPT ![t] = w]
      /\ bits' = [bits EXCEPT ![t] = ev.value \cap w.mask]
      /\ ev' = [ev EXCEPT !.value = @ \ (ev.auto \cap w.mask)]
      /\ at' = [at EXCEPT ![t] = "ok"] /\ "ok" \in Outcome
      /\ UNCHANGED <<k, info, pass, made>>
  BY DEF Catch, Starts, Settle, Outcome
<1>2. ev \in Event /\ bits \in [AppTask -> SUBSET Bit] /\ w \in Wish
  BY PartsLemma, LwEventAssumption DEF RInv, Wish
<1>3. /\ ev'.waiters = ev.waiters /\ ev'.valid = ev.valid /\ ev'.auto = ev.auto
      /\ ev'.value = ev.value \ (ev.auto \cap w.mask)
      /\ bits'[t] = w.mask \cap ev.value
      /\ \A u \in AppTask \ {t} : bits'[u] = bits[u]
  BY <1>1, <1>2 DEF Event
<1>4. /\ InfoOK' /\ PassOK' /\ AbstractQueue' = AbstractQueue
      /\ AbstractCall' = [AbstractCall EXCEPT ![t] = "ok"]
      /\ AbstractSignals' = [AbstractSignals EXCEPT ![t] = bits'[t]]
  BY <1>1, <1>3, OutcomeLemma
<1>5. Abstract!Resting(t)
  BY <1>1, AbstractOps DEF AbstractCall, Place
<1>6. Abstract!Catch(t, w)
  BY <1>1, <1>3, <1>4, <1>5, AbstractOps DEF Abstract!Catch, Abstract!Settle
<1>7. w \in Abstract!Wish
  BY <1>2, AbstractOps
<1>8. AbstractStep
  BY <1>6, <1>7 DEF AbstractStep, Abstract!Next
<1> QED
  BY <1>4, <1>8

LEMMA WaitRefines ==
  ASSUME RInv, NEW t \in AppTask, NEW w \in Wishes[t],
         WaitForever(t, w) \/ \E d \in Timeouts : WaitTimed(t, w, d)
  PROVE  AbstractStep /\ InfoOK' /\ PassOK'
<1>1. /\ Runs(k, t) /\ at[t] \in Outcome /\ pass.loop = "none" /\ ev.valid
      /\ ~Satisfied(w, ev.value)
      /\ ask' = [ask EXCEPT ![t] = w]
      /\ bits' = [bits EXCEPT ![t] = w.mask]
      /\ ev' = [ev EXCEPT !.waiters = Append(@, t)]
      /\ info' = [info EXCEPT ![t] = TRUE]
      /\ UNCHANGED <<pass, made>>
  BY BlockEffect DEF Enqueue, Starts, RInv
<1>2. PICK place \in Blocked, b \in BOOLEAN :
        /\ Settle(t, place) /\ k'.timed = [k.timed EXCEPT ![t] = b]
        /\ b => place = "timedBlocked"
  BY BlockEffect DEF RInv
<1>3. /\ ev \in Event /\ bits \in [AppTask -> SUBSET Bit] /\ w \in Wish
      /\ info \in [AppTask -> BOOLEAN] /\ at \in [AppTask -> At]
      /\ ev.waiters \in Seq(AppTask) /\ Inj(ev.waiters) /\ made # 0
      /\ k.timed \in [Task -> BOOLEAN] /\ t \notin ToSet(ev.waiters)
  BY <1>1, PartsLemma, RunsLemma, LwEventAssumption DEF RInv, Wish, IInv, FreshOK
<1>4. PICK v : v = Append(ev.waiters, t)
  OBVIOUS
<1>5. ToSet(v) = ToSet(ev.waiters) \cup {t}
  <2>1. PICK q \in Seq(AppTask) : q = ev.waiters
    BY <1>3
  <2>2. Inj(q) /\ t \notin ToSet(q)
    BY <1>3, <2>1
  <2>3. ToSet(Append(q, t)) = ToSet(q) \cup {t}
    BY <2>2, JoinLemma
  <2> QED
    BY <1>4, <2>1, <2>3
<1>6. /\ ev'.waiters = v /\ ev'.valid = ev.valid /\ ev'.auto = ev.auto
      /\ ev'.value = ev.value
  BY <1>1, <1>3, <1>4 DEF Event
<1>7. /\ at'[t] = place /\ info'[t] = TRUE
      /\ \A u \in AppTask \ {t} : /\ at'[u] = at[u] /\ info'[u] = info[u]
                                  /\ bits'[u] = bits[u]
  BY <1>1, <1>2, <1>3 DEF Settle
<1>8. AbstractQueue = ev.waiters /\ AbstractQueue' = v
  BY <1>1, <1>6 DEF AbstractQueue
<1>9. Place(t)' = "waiting"
  BY <1>5, <1>7, <1>8 DEF Place, Blocked, Outcome
<1>10. \A u \in AppTask \ {t} : Place(u)' = Place(u) /\ bits'[u] = bits[u]
  BY <1>5, <1>7, <1>8, PlaceLemma
<1>11. /\ AbstractCall' = [AbstractCall EXCEPT ![t] = Place(t)']
       /\ AbstractSignals' =
            [AbstractSignals EXCEPT
               ![t] = (IF Place(t) \in {"granted", "ok"} THEN bits[t] ELSE {})']
  BY <1>10, CallLemma
<1>12. (IF Place(t) \in {"granted", "ok"} THEN bits[t] ELSE {})' = {}
  BY <1>9
<1>13. Abstract!Resting(t)
  BY <1>1, AbstractOps DEF AbstractCall, Place
<1>14. AbstractQueue' = Append(AbstractQueue, t)
  BY <1>4, <1>8
<1>15. Abstract!Join(t, w)
  BY <1>1, <1>6, <1>9, <1>11, <1>12, <1>13, <1>14, AbstractOps
  DEF Abstract!Join, Abstract!Settle
<1>16. w \in Abstract!Wish
  BY <1>3, AbstractOps
<1>17. AbstractStep
  BY <1>15, <1>16 DEF AbstractStep, Abstract!Next
<1>18. \A u \in AppTask : k'.timed[u] => at'[u] = "timedBlocked"
  <2>1. /\ k'.timed[t] = b
        /\ \A u \in AppTask \ {t} : k'.timed[u] = k.timed[u]
    BY <1>2, <1>3, AppTaskLemma
  <2> QED
    BY <1>2, <1>7, <2>1 DEF RInv, InfoOK
<1>19. InfoOK'
  <2>1. \A u \in AppTask : u \in ToSet(v) => info'[u]
    BY <1>5, <1>7 DEF RInv, InfoOK
  <2>2. \A u \in AppTask : at'[u] = "blocked" /\ info'[u] => u \in ToSet(v)
    BY <1>1, <1>5, <1>7 DEF RInv, InfoOK
  <2>3. made' # 0
    BY <1>1, <1>3
  <2> QED
    BY <1>6, <1>18, <2>1, <2>2, <2>3 DEF InfoOK
<1>20. PassOK'
  BY <1>1, NoPassLemma
<1> QED
  BY <1>17, <1>19, <1>20

LEMMA IsrRefines ==
  ASSUME RInv, EnterIsr \/ ReturnFromIsr \/ Tick \/ TickReturn \/ PendSV
  PROVE  AbstractStep /\ InfoOK' /\ PassOK'
<1>1. UNCHANGED <<ev, at, ask, bits, info, pass, made>>
  BY DEF EnterIsr, ReturnFromIsr, Tick, TickReturn, PendSV
<1>2. pass.loop = "none"
  <2>1. SUFFICES ASSUME pass.loop # "none" PROVE FALSE
    OBVIOUS
  <2>2. ~k.ticking /\ (k.isr = 0 => ~k.pend)
    BY <2>1, PassLemma
  <2> QED
    BY <2>1, <2>2 DEF EnterIsr, ReturnFromIsr, Tick, TickReturn, PendSV,
                      Masked, InHandler
<1>3. k'.timed = k.timed
  <2>1. Sound(k)
    BY DEF RInv, IInv
  <2>2. CASE EnterIsr
    BY <2>1, <2>2, SoundIsr DEF EnterIsr
  <2>3. CASE ReturnFromIsr
    BY <2>1, <2>3, SoundIsr DEF ReturnFromIsr, InHandler
  <2>4. CASE Tick
    BY <2>1, <2>4, SoundIsr DEF Tick, InHandler
  <2>5. CASE TickReturn
    BY <2>1, <2>5, SoundIsr DEF TickReturn
  <2>6. CASE PendSV
    BY <2>1, <2>6, SoundDispatch DEF PendSV, Sound
  <2> QED
    BY <2>2, <2>3, <2>4, <2>5, <2>6
<1>4. AbstractQueue' = AbstractQueue
  BY <1>1 DEF AbstractQueue
<1>5. \A t \in AppTask : Place(t)' = Place(t) /\ bits'[t] = bits[t]
  BY <1>1, <1>4, PlaceLemma
<1>6. AbstractStep
  BY <1>1, <1>4, <1>5, SameLemma, StutterLemma
<1>7. InfoOK'
  BY <1>1, <1>3 DEF RInv, InfoOK
<1>8. PassOK'
  BY <1>1, <1>2, NoPassLemma
<1> QED
  BY <1>6, <1>7, <1>8

LEMMA WakeDueRefines ==
  ASSUME RInv, WakeDue
  PROVE  AbstractStep /\ InfoOK' /\ PassOK'
<1>1. PICK u : u = Head(k.timeouts)
  OBVIOUS
<1>2. /\ k.ticking /\ k.timeouts # <<>> /\ k' = TickWake(k)
      /\ ev' = [ev EXCEPT !.waiters = Without(@, u)]
      /\ UNCHANGED <<at, ask, bits, info, pass, made>>
  BY <1>1 DEF WakeDue, Due
<1>3. pass.loop = "none"
  BY <1>2, PassLemma
<1>4. /\ Sound(k) /\ ev \in Event /\ ev.waiters \in Seq(AppTask) /\ Inj(ev.waiters)
      /\ k.timed \in [Task -> BOOLEAN]
      /\ Waiting(ev.waiters, k.state, k.timed, at)
  BY PartsLemma DEF RInv
<1>5. u \in AppTask /\ k.timed[u] /\ k'.timed = [k.timed EXCEPT ![u] = FALSE]
  BY <1>1, <1>2, <1>4, SoundTickWake
<1>6. u \in ToSet(ev.waiters) /\ at[u] = "timedBlocked" /\ info[u]
  BY <1>4, <1>5 DEF Waiting, RInv, InfoOK
<1>7. PICK w : w = ev.waiters /\ w \in Seq(AppTask)
  BY <1>4
<1>8. PICK v : v = Without(ev.waiters, u)
  OBVIOUS
<1>9. v \in Seq(AppTask) /\ Inj(v) /\ ToSet(v) = ToSet(w) \ {u}
  BY <1>4, <1>6, <1>7, <1>8, LeaveAppLemma
<1>10. Ordered(v, w)
  <2>1. PICK i : i = CHOOSE j \in 1 .. Len(w) : w[j] = u
    OBVIOUS
  <2>2. i \in 1 .. Len(w)
    BY <1>6, <1>7, <2>1 DEF ToSet
  <2>3. v = RemoveAt(w, i)
    BY <1>7, <1>8, <2>1 DEF Without
  <2> QED
    BY <1>7, <2>2, <2>3, OrderedLemma
<1>11. /\ ev'.waiters = v /\ ev'.valid = ev.valid /\ ev'.auto = ev.auto
       /\ ev'.value = ev.value
  BY <1>2, <1>4, <1>7, <1>8 DEF Event
<1>12. AbstractQueue = w /\ AbstractQueue' = v
  BY <1>2, <1>3, <1>7, <1>11 DEF AbstractQueue
<1>13. Place(u) = "waiting" /\ Place(u)' = "left"
  BY <1>2, <1>6, <1>7, <1>9, <1>12 DEF Place, Outcome
<1>14. \A t \in AppTask \ {u} : Place(t)' = Place(t) /\ bits'[t] = bits[t]
  BY <1>2, <1>9, <1>12, PlaceLemma
<1>15. /\ AbstractCall' = [AbstractCall EXCEPT ![u] = Place(u)']
       /\ AbstractSignals' =
            [AbstractSignals EXCEPT
               ![u] = (IF Place(u) \in {"granted", "ok"} THEN bits[u] ELSE {})']
  BY <1>5, <1>14, CallLemma
<1>16. (IF Place(u) \in {"granted", "ok"} THEN bits[u] ELSE {})' = {}
  BY <1>13
<1>17. AbstractSignals' = AbstractSignals
  <2>1. AbstractSignals[u] = {}
    BY <1>5, <1>13 DEF AbstractSignals
  <2>2. AbstractSignals = [AbstractSignals EXCEPT ![u] = AbstractSignals[u]]
    BY DEF AbstractSignals
  <2> QED
    BY <1>15, <1>16, <2>1, <2>2
<1>18. AbstractCall[u] = "waiting"
  BY <1>5, <1>13 DEF AbstractCall
<1>19. Abstract!Leaves(v, w, {u})
  BY <1>9, <1>10, AbstractOps DEF Abstract!Leaves, Ordered
<1>20. Abstract!Expire(u)
  BY <1>2, <1>11, <1>12, <1>13, <1>15, <1>17, <1>18, <1>19
  DEF Abstract!Expire, Abstract!Settle
<1>21. AbstractStep
  BY <1>5, <1>20 DEF AbstractStep, Abstract!Next
<1>22. \A t \in AppTask : k'.timed[t] => k.timed[t]
  BY <1>4, <1>5, AppTaskLemma
<1>23. InfoOK'
  BY <1>2, <1>6, <1>7, <1>9, <1>11, <1>22 DEF RInv, InfoOK
<1>24. PassOK'
  BY <1>2, <1>3, NoPassLemma
<1> QED
  BY <1>21, <1>23, <1>24

LEMMA InitRefines == Init => RInv /\ Abstract!Init
<1> SUFFICES ASSUME Init PROVE RInv /\ Abstract!Init
  OBVIOUS
<1>1. IInv
  BY InitLemma
<1>2. /\ ev = [valid |-> FALSE, value |-> {}, auto |-> {}, waiters |-> <<>>]
      /\ at = [t \in AppTask |-> "none"]
      /\ pass.loop = "none"
      /\ made = 0
  BY DEF Init, NoPass
<1>3. /\ ~ev.valid /\ ev.valid = FALSE /\ ev.value = {} /\ ev.auto = {}
      /\ ev.waiters = <<>>
  BY <1>2
<1>4. \A t \in AppTask : at[t] = "none" /\ at[t] \in Outcome /\ at[t] \notin Blocked
  BY <1>2 DEF Outcome, Blocked
<1>5. \A t \in AppTask : ~k.timed[t]
  BY <1>1, <1>4, <1>3, EmptyLemma DEF IInv, WaitsOK, Waiting
<1>6. InfoOK
  BY <1>3, <1>4, <1>5, EmptyLemma DEF InfoOK
<1>7. PassOK
  BY <1>2 DEF PassOK
<1>8. AbstractQueue = <<>>
  BY <1>2, <1>3 DEF AbstractQueue
<1>9. \A t \in AppTask : Place(t) = "none"
  BY <1>4 DEF Place
<1>10. AbstractCall = [t \in AppTask |-> "none"]
  BY <1>9 DEF AbstractCall
<1>11. AbstractSignals = [t \in AppTask |-> {}]
  BY <1>9 DEF AbstractSignals
<1>12. ask \in [AppTask -> Abstract!Wish]
  BY <1>1, PartsLemma, AbstractOps
<1>13. Abstract!Init
  BY <1>3, <1>8, <1>10, <1>11, <1>12 DEF Abstract!Init
<1> QED
  BY <1>1, <1>6, <1>7, <1>13 DEF RInv

LEMMA TaskRefines ==
  ASSUME CreatedOnce, RInv, NEW t \in AppTask, TaskStep(t)
  PROVE  AbstractStep /\ InfoOK' /\ PassOK'
<1>1. CASE \E auto \in {{}, Bit} : Create(t, auto)
  BY <1>1, CreateRefines
<1>2. CASE Destroy(t)
  BY <1>2, DestroyRefines
<1>3. CASE Refuse(t)
  BY <1>3, RefuseRefines
<1>4. CASE Resume(t)
  BY <1>4, ResumeRefines
<1>5. CASE \E w \in Wishes[t] : Catch(t, w)
  BY <1>5, CatchRefines
<1>6. CASE \E w \in Wishes[t] : \/ WaitForever(t, w)
                                \/ \E d \in Timeouts : WaitTimed(t, w, d)
  BY <1>6, WaitRefines
<1> QED
  BY <1>1, <1>2, <1>3, <1>4, <1>5, <1>6 DEF TaskStep

LEMMA NextRefines ==
  ASSUME CreatedOnce, RInv, [Next]_vars
  PROVE  AbstractStep /\ RInv'
<1>1. IInv'
  BY NextLemma DEF RInv
<1>2. CASE UNCHANGED vars
  <2>1. UNCHANGED <<k, ev, at, ask, bits, info, pass, made>>
    BY <1>2 DEF vars
  <2>2. AbstractQueue' = AbstractQueue
    BY <2>1 DEF AbstractQueue
  <2>3. \A t \in AppTask : Place(t)' = Place(t) /\ bits'[t] = bits[t]
    BY <2>1, <2>2, PlaceLemma
  <2>4. AbstractStep
    BY <2>1, <2>2, <2>3, SameLemma, StutterLemma
  <2>5. InfoOK' /\ PassOK'
    BY <2>1 DEF RInv, InfoOK, PassOK
  <2> QED
    BY <1>1, <2>4, <2>5 DEF RInv
<1>3. CASE \E t \in AppTask : TaskStep(t)
  BY <1>1, <1>3, TaskRefines DEF RInv
<1>4. CASE \E m \in SetMask : Set(m) \/ Clear(m) \/ SetAutoClear(m)
  BY <1>1, <1>4, BitsRefines DEF RInv
<1>5. CASE Skip \/ HandOut \/ SetEnd \/ DestroyNext \/ DestroyEnd
  BY <1>1, <1>5, SkipRefines, HandOutRefines, SetEndRefines,
     DestroyNextRefines, DestroyEndRefines DEF RInv
<1>6. CASE EnterIsr \/ ReturnFromIsr \/ Tick \/ WakeDue \/ TickReturn \/ PendSV
  BY <1>1, <1>6, IsrRefines, WakeDueRefines DEF RInv
<1> QED
  BY <1>2, <1>3, <1>4, <1>5, <1>6 DEF Next

\* _lwevent_set hands out its bits in a loop that interrupts and timeouts
\* cannot enter, task by task; its callers see one step that serves the tasks
\* in the order of arrival, gives no bit that clears itself twice, and leaves
\* nobody without a reason.  Waits, timeouts, the bits a wait returns and the
\* destruction are those of module EventGroup too (lwevent.c).
THEOREM Implements == ASSUME CreatedOnce PROVE Spec => ImplementsEventGroup
<1>1. Init => RInv /\ Abstract!Init
  BY InitRefines
<1>2. RInv /\ [Next]_vars => RInv' /\ [Abstract!Next]_(Abstract!vars)
  BY NextRefines DEF AbstractStep
<1> QED
  BY <1>1, <1>2, PTL DEF Spec, ImplementsEventGroup, Abstract!Spec
=============================================================================
