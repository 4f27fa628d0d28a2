---------------------------- MODULE LwMsgQProofs ----------------------------
(***************************************************************************)
(* For every set of tasks, ring, priority and timeout: the waiting queues  *)
(* of a lightweight message queue, the states of the tasks and their       *)
(* places in the calls agree, and no wake-up is lost although a woken task *)
(* may find the message or the slot gone.                                  *)
(***************************************************************************)
EXTENDS LwMsgQ, KernelProofs, FiniteSetTheorems

\* A second creation empties the waiting queues under the tasks on them.
CreatedOnce == MaxCreations <= 1

DataOK ==
  /\ q \in Queue
  /\ at \in [AppTask -> At]
  /\ buf \in [AppTask -> Message]
  /\ wait \in [AppTask -> Patience]
  /\ info \in [AppTask -> BOOLEAN]
  /\ made \in 0 .. MaxCreations

\* The tasks in each kind of waiting are those on the queue for it, inside
\* the call for it; only readers wait with a timeout.
Waiting(rd, wr, state, timed, c) ==
  /\ Inj(rd) /\ Inj(wr)
  /\ ToSet(rd) = {t \in AppTask : state[t] = "LWMSGQ_READ_BLOCKED"}
  /\ ToSet(wr) = {t \in AppTask : state[t] = "LWMSGQ_WRITE_BLOCKED"}
  /\ \A t \in AppTask :
       /\ t \in ToSet(rd) => c[t] = "reading"
       /\ t \in ToSet(wr) => c[t] = "writing"
       /\ c[t] \in {"reading", "writing"} =>
            t \in ToSet(rd) \cup ToSet(wr) \/ (state[t] = "READY" /\ ~timed[t])
       /\ timed[t] => t \in ToSet(rd)
WaitsOK == Waiting(q.readers, q.writers, k.state, k.timed, at)

\* Nobody waits before the first creation.
FreshOK ==
  made = 0 => /\ ~q.valid /\ q.readers = <<>> /\ q.writers = <<>>
              /\ \A t \in AppTask : at[t] \notin Inside

\* Tasks are counted, so there must be finitely many.
Finite  == IsFiniteSet(Task)
WakesOK == Finite => NoLostWake

IInv == DataOK /\ Sound(k) /\ WaitsOK /\ FreshOK /\ WakesOK

-----------------------------------------------------------------------------
(* What the steps have in common.                                           *)

LEMMA SoundPrime == Sound(k') <=> Sound(k)'
BY DEF Sound, Basic, Agree, NoneAbove, IsReady

\* What a step of the executing task may assume.
LEMMA RunsLemma ==
  ASSUME IInv, NEW t \in AppTask, Runs(k, t)
  PROVE  /\ t \in Task /\ IsReady(k, t) /\ k.active = t
         /\ k.state[t] = "READY" /\ ~k.timed[t]
         /\ k.state \in [Task -> State] /\ k.timed \in [Task -> BOOLEAN]
         /\ t \notin ToSet(q.readers) \cup ToSet(q.writers)
<1>1. k \in Kernel /\ IsReady(k, t) /\ k.active = t /\ t \in Task
  BY AppTaskLemma DEF IInv, Sound, Basic, Runs
<1>2. /\ k.state[t] = "READY" /\ ~k.timed[t]
      /\ k.state \in [Task -> State] /\ k.timed \in [Task -> BOOLEAN]
  BY <1>1 DEF IsReady, Kernel
<1> QED
  BY <1>1, <1>2 DEF IInv, WaitsOK, Waiting

\* A queued task leaves its queue and is ready.
LEMMA WokenLemma ==
  ASSUME NEW rd, NEW wr, NEW rv, NEW wv, NEW c,
         NEW state \in [Task -> State], NEW timed \in [Task -> BOOLEAN],
         NEW u \in AppTask, Waiting(rd, wr, state, timed, c),
         u \in ToSet(rd) \cup ToSet(wr), Inj(rv), Inj(wv),
         ToSet(rv) = ToSet(rd) \ {u}, ToSet(wv) = ToSet(wr) \ {u}
  PROVE  Waiting(rv, wv, [state EXCEPT ![u] = "READY"],
                 [timed EXCEPT ![u] = FALSE], c)
<1> DEFINE s == [state EXCEPT ![u] = "READY"]
           d == [timed EXCEPT ![u] = FALSE]
<1>1. /\ s[u] = "READY" /\ d[u] = FALSE
      /\ \A t \in AppTask \ {u} : s[t] = state[t] /\ d[t] = timed[t]
  BY AppTaskLemma
<1> HIDE DEF s, d
<1>2. /\ ToSet(rv) = {t \in AppTask : s[t] = "LWMSGQ_READ_BLOCKED"}
      /\ ToSet(wv) = {t \in AppTask : s[t] = "LWMSGQ_WRITE_BLOCKED"}
  BY <1>1 DEF Waiting
<1>3. \A t \in AppTask :
         /\ t \in ToSet(rv) => c[t] = "reading"
         /\ t \in ToSet(wv) => c[t] = "writing"
         /\ c[t] \in {"reading", "writing"} =>
              t \in ToSet(rv) \cup ToSet(wv) \/ (s[t] = "READY" /\ ~d[t])
         /\ d[t] => t \in ToSet(rv)
  BY <1>1 DEF Waiting
<1>4. Waiting(rv, wv, s, d, c)
  BY <1>2, <1>3 DEF Waiting
<1> QED
  BY <1>4 DEF s, d

\* A ready task joins the readers.
LEMMA EnterReadersLemma ==
  ASSUME NEW rd, NEW wr, NEW v, NEW c \in [AppTask -> At],
         NEW state \in [Task -> State], NEW timed \in [Task -> BOOLEAN],
         NEW t \in AppTask, state[t] = "READY", ~timed[t],
         Waiting(rd, wr, state, timed, c), Inj(v),
         ToSet(v) = ToSet(rd) \cup {t},
         NEW b \in BOOLEAN
  PROVE  Waiting(v, wr, [state EXCEPT ![t] = "LWMSGQ_READ_BLOCKED"],
                 [timed EXCEPT ![t] = b], [c EXCEPT ![t] = "reading"])
<1> DEFINE s == [state EXCEPT ![t] = "LWMSGQ_READ_BLOCKED"]
           d == [timed EXCEPT ![t] = b]
           e == [c EXCEPT ![t] = "reading"]
<1>1. /\ s[t] = "LWMSGQ_READ_BLOCKED" /\ d[t] = b /\ e[t] = "reading"
      /\ \A u \in AppTask \ {t} : s[u] = state[u] /\ d[u] = timed[u] /\ e[u] = c[u]
  BY AppTaskLemma
<1> HIDE DEF s, d, e
<1>2. /\ ToSet(v) = {u \in AppTask : s[u] = "LWMSGQ_READ_BLOCKED"}
      /\ ToSet(wr) = {u \in AppTask : s[u] = "LWMSGQ_WRITE_BLOCKED"}
  BY <1>1 DEF Waiting
<1>3. t \notin ToSet(rd) /\ t \notin ToSet(wr)
  BY DEF Waiting
<1>4. \A u \in AppTask :
         /\ u \in ToSet(v) => e[u] = "reading"
         /\ u \in ToSet(wr) => e[u] = "writing"
         /\ e[u] \in {"reading", "writing"} =>
              u \in ToSet(v) \cup ToSet(wr) \/ (s[u] = "READY" /\ ~d[u])
         /\ d[u] => u \in ToSet(v)
  BY <1>1, <1>3 DEF Waiting
<1>5. Waiting(v, wr, s, d, e)
  BY <1>2, <1>4 DEF Waiting
<1> QED
  BY <1>5 DEF s, d, e

\* A ready task joins the writers.
LEMMA EnterWritersLemma ==
  ASSUME NEW rd, NEW wr, NEW v, NEW c \in [AppTask -> At],
         NEW state \in [Task -> State], NEW timed \in [Task -> BOOLEAN],
         NEW t \in AppTask, state[t] = "READY", ~timed[t],
         Waiting(rd, wr, state, timed, c), Inj(v),
         ToSet(v) = ToSet(wr) \cup {t}
  PROVE  Waiting(rd, v, [state EXCEPT ![t] = "LWMSGQ_WRITE_BLOCKED"],
                 timed, [c EXCEPT ![t] = "writing"])
<1> DEFINE s == [state EXCEPT ![t] = "LWMSGQ_WRITE_BLOCKED"]
           e == [c EXCEPT ![t] = "writing"]
<1>1. /\ s[t] = "LWMSGQ_WRITE_BLOCKED" /\ e[t] = "writing"
      /\ \A u \in AppTask \ {t} : s[u] = state[u] /\ e[u] = c[u]
  BY AppTaskLemma
<1> HIDE DEF s, e
<1>2. /\ ToSet(rd) = {u \in AppTask : s[u] = "LWMSGQ_READ_BLOCKED"}
      /\ ToSet(v) = {u \in AppTask : s[u] = "LWMSGQ_WRITE_BLOCKED"}
  BY <1>1 DEF Waiting
<1>3. t \notin ToSet(rd) /\ t \notin ToSet(wr)
  BY DEF Waiting
<1>4. \A u \in AppTask :
         /\ u \in ToSet(rd) => e[u] = "reading"
         /\ u \in ToSet(v) => e[u] = "writing"
         /\ e[u] \in {"reading", "writing"} =>
              u \in ToSet(rd) \cup ToSet(v) \/ (s[u] = "READY" /\ ~timed[u])
         /\ timed[u] => u \in ToSet(rd)
  BY <1>1, <1>3 DEF Waiting
<1>5. Waiting(rd, v, s, timed, e)
  BY <1>2, <1>4 DEF Waiting
<1> QED
  BY <1>5 DEF s, e

\* A task that is on neither queue goes elsewhere, or blocks itself there.
LEMMA MoveLemma ==
  ASSUME NEW rd, NEW wr, NEW c \in [AppTask -> At],
         NEW state \in [Task -> State], NEW timed \in [Task -> BOOLEAN],
         NEW t \in AppTask, Waiting(rd, wr, state, timed, c),
         t \notin ToSet(rd) \cup ToSet(wr), NEW place \in At,
         place \notin {"reading", "writing"},
         NEW st, st \in {"READY", "BLOCKED"}
  PROVE  Waiting(rd, wr, [state EXCEPT ![t] = st], timed, [c EXCEPT ![t] = place])
<1> DEFINE s == [state EXCEPT ![t] = st]
           e == [c EXCEPT ![t] = place]
<1>1. /\ s[t] = st /\ e[t] = place
      /\ \A v \in AppTask \ {t} : s[v] = state[v] /\ e[v] = c[v]
  BY AppTaskLemma
<1> HIDE DEF s, e
<1>2. Waiting(rd, wr, s, timed, e)
  BY <1>1 DEF Waiting
<1> QED
  BY <1>2 DEF s, e

-----------------------------------------------------------------------------
(* Counting the woken tasks.                                                *)

LEMMA CountLemma ==
  ASSUME Finite, NEW A \in SUBSET AppTask, NEW B \in SUBSET AppTask
  PROVE  /\ Cardinality(A) \in Nat /\ Cardinality(B) \in Nat
         /\ A \subseteq B => Cardinality(A) <= Cardinality(B)
         /\ \A u \in AppTask \ A :
              A \cup {u} \subseteq B => Cardinality(A) + 1 <= Cardinality(B)
         /\ \A u \in Task :
              A \ {u} \subseteq B => Cardinality(A) - 1 <= Cardinality(B)
<1>1. IsFiniteSet(A) /\ IsFiniteSet(B)
  BY FS_Subset, AppTaskLemma DEF Finite
<1>2. Cardinality(A) \in Nat /\ Cardinality(B) \in Nat
  BY <1>1, FS_CardinalityType
<1>3. A \subseteq B => Cardinality(A) <= Cardinality(B)
  BY <1>1, FS_Subset
<1>4. ASSUME NEW u \in AppTask \ A, A \cup {u} \subseteq B
      PROVE  Cardinality(A) + 1 <= Cardinality(B)
  <2>1. IsFiniteSet(A \cup {u}) /\ Cardinality(A \cup {u}) = Cardinality(A) + 1
    BY <1>1, FS_AddElement
  <2> QED
    BY <2>1, <1>1, <1>4, FS_Subset
<1>5. ASSUME NEW u \in Task, A \ {u} \subseteq B
      PROVE  Cardinality(A) - 1 <= Cardinality(B)
  <2>1. /\ IsFiniteSet(A \ {u})
        /\ Cardinality(A \ {u}) = IF u \in A THEN Cardinality(A) - 1
                                             ELSE Cardinality(A)
    BY <1>1, FS_RemoveElement
  <2>2. Cardinality(A \ {u}) <= Cardinality(B)
    BY <2>1, <1>1, <1>5, FS_Subset
  <2> QED
    BY <2>1, <2>2, <1>2
<1> QED
  BY <1>2, <1>3, <1>4, <1>5

Way(place, c, state, timed, inf) ==
  {t \in AppTask : c[t] = place /\ state[t] = "READY" /\ ~timed[t] /\ ~inf[t]}

\* While somebody waits there are n on their way.
Enough(w, n, A) == Finite => (w # <<>> => n <= Cardinality(A))

Wakes(rd, wr, n, c, state, timed, inf) ==
  /\ Enough(rd, n, Way("reading", c, state, timed, inf))
  /\ Enough(wr, Capacity - n, Way("writing", c, state, timed, inf))

LEMMA WakesLemma ==
  /\ WakesOK <=> Wakes(q.readers, q.writers, q.size, at, k.state, k.timed, info)
  /\ WakesOK' <=> Wakes(q'.readers, q'.writers, q'.size, at', k'.state, k'.timed, info')
<1>1. /\ OnTheWay("reading") = Way("reading", at, k.state, k.timed, info)
      /\ OnTheWay("writing") = Way("writing", at, k.state, k.timed, info)
  BY DEF OnTheWay, Way, IsReady
<1>2. /\ OnTheWay("reading")' = Way("reading", at', k'.state, k'.timed, info')
      /\ OnTheWay("writing")' = Way("writing", at', k'.state, k'.timed, info')
  BY DEF OnTheWay, Way, IsReady
<1> QED
  BY <1>1, <1>2 DEF WakesOK, Wakes, Enough, NoLostWake, Finite

LEMMA EnoughLemma ==
  ASSUME NEW w, NEW v, NEW n \in Int, NEW m \in Int, NEW A \in SUBSET AppTask,
         NEW B \in SUBSET AppTask, Enough(w, n, A), v # <<>> => w # <<>>
  PROVE  /\ v = <<>> => Enough(v, m, B)
         /\ m <= 0 => Enough(v, m, B)
         /\ A \subseteq B /\ m <= n => Enough(v, m, B)
         /\ \A u \in AppTask \ A :
              A \cup {u} \subseteq B /\ m <= n + 1 => Enough(v, m, B)
         /\ \A u \in Task :
              A \ {u} \subseteq B /\ m <= n - 1 => Enough(v, m, B)
<1>1. CASE ~Finite
  BY <1>1 DEF Enough
<1>2. CASE Finite
  <2>1. /\ Cardinality(A) \in Nat /\ Cardinality(B) \in Nat
        /\ w # <<>> => n <= Cardinality(A)
    BY <1>2, CountLemma DEF Enough
  <2>2. m <= 0 => Enough(v, m, B)
    BY <2>1 DEF Enough
  <2>3. A \subseteq B /\ m <= n => Enough(v, m, B)
    BY <2>1, <1>2, CountLemma DEF Enough
  <2>4. ASSUME NEW u \in AppTask \ A, A \cup {u} \subseteq B, m <= n + 1
        PROVE  Enough(v, m, B)
    <3>1. Cardinality(A) + 1 <= Cardinality(B)
      BY <2>4, <1>2, CountLemma
    <3> QED
      BY <3>1, <2>1, <2>4 DEF Enough
  <2>5. ASSUME NEW u \in Task, A \ {u} \subseteq B, m <= n - 1
        PROVE  Enough(v, m, B)
    <3>1. Cardinality(A) - 1 <= Cardinality(B)
      BY <2>5, <1>2, CountLemma
    <3> QED
      BY <3>1, <2>1, <2>5 DEF Enough
  <2> QED
    BY <2>2, <2>3, <2>4, <2>5 DEF Enough
<1> QED
  BY <1>1, <1>2

\* Nothing that counts changes, or more tasks are on their way.
LEMMA KeepLemma ==
  ASSUME NEW rd, NEW wr, NEW rv, NEW wv, NEW n \in 0 .. Capacity,
         NEW c, NEW state, NEW timed, NEW inf,
         NEW e, NEW s, NEW d, NEW i,
         Wakes(rd, wr, n, c, state, timed, inf),
         rv # <<>> => rd # <<>>, wv # <<>> => wr # <<>>,
         \A t \in AppTask :
           c[t] \in {"reading", "writing"} /\ state[t] = "READY"
             /\ ~timed[t] /\ ~inf[t] =>
               e[t] = c[t] /\ s[t] = "READY" /\ ~d[t] /\ ~i[t]
  PROVE  Wakes(rv, wv, n, e, s, d, i)
<1> DEFINE A(p) == Way(p, c, state, timed, inf)
           B(p) == Way(p, e, s, d, i)
<1>1. A("reading") \subseteq B("reading") /\ A("writing") \subseteq B("writing")
  BY DEF Way
<1>2. \A p \in {"reading", "writing"} : A(p) \in SUBSET AppTask /\ B(p) \in SUBSET AppTask
  BY DEF Way
<1>3. Enough(rd, n, A("reading")) /\ Enough(wr, Capacity - n, A("writing"))
  BY DEF Wakes
<1>4. /\ n \in Int /\ Capacity - n \in Int
      /\ n <= n /\ Capacity - n <= Capacity - n
  BY LwMsgQAssumption
<1> HIDE DEF A, B
<1>5. Enough(rv, n, B("reading"))
  BY <1>1, <1>2, <1>3, <1>4, EnoughLemma
<1>6. Enough(wv, Capacity - n, B("writing"))
  <2>1. PICK x \in Int : x = Capacity - n
    BY <1>4
  <2>2. Enough(wr, x, A("writing")) /\ x <= x
    BY <2>1, <1>3
  <2>3. Enough(wv, x, B("writing"))
    BY <2>2, <1>1, <1>2, EnoughLemma
  <2> QED
    BY <2>1, <2>3
<1> QED
  BY <1>5, <1>6 DEF Wakes, B

\* A message comes or goes: t is no longer on its way, a waiter at the
\* other end is.
Counted(v, c, state, timed, inf) ==
  c[v] \in {"reading", "writing"} /\ state[v] = "READY" /\ ~timed[v] /\ ~inf[v]
Woke(u, place, c, state, e, s, d, i) ==
  /\ c[u] = place /\ state[u] # "READY"
  /\ e[u] = place /\ s[u] = "READY" /\ ~d[u] /\ ~i[u]

Kept(t, c, state, timed, inf, e, s, d, i) ==
  \A v \in AppTask \ {t} : Counted(v, c, state, timed, inf) =>
    e[v] = c[v] /\ s[v] = "READY" /\ ~d[v] /\ ~i[v]
Joined(place, c, state, e, s, d, i) ==
  \E u \in AppTask : Woke(u, place, c, state, e, s, d, i)
IsNot(t, place, c) == t \in AppTask => c[t] # place

LEMMA LossLemma ==
  ASSUME NEW rd, NEW wr, NEW rv, NEW wv,
         NEW n \in 0 .. Capacity, NEW m \in 0 .. Capacity,
         NEW c, NEW state, NEW timed, NEW inf,
         NEW e, NEW s, NEW d, NEW i, NEW t \in Task,
         Wakes(rd, wr, n, c, state, timed, inf),
         rv # <<>> => rd # <<>>, wv # <<>> => wr # <<>>,
         Kept(t, c, state, timed, inf, e, s, d, i),
         m = n - 1, IsNot(t, "writing", c),
         wv # <<>> => Joined("writing", c, state, e, s, d, i)
  PROVE  Wakes(rv, wv, m, e, s, d, i)
<1> DEFINE A(p) == Way(p, c, state, timed, inf)
           B(p) == Way(p, e, s, d, i)
<1>1. \A p \in {"reading", "writing"} : A(p) \in SUBSET AppTask /\ B(p) \in SUBSET AppTask
  BY DEF Way
<1>2. Enough(rd, n, A("reading")) /\ Enough(wr, Capacity - n, A("writing"))
  BY DEF Wakes
<1>3. \A p \in {"reading", "writing"} :
        /\ A(p) \ {t} \subseteq B(p)
        /\ (t \in AppTask => c[t] # p) => A(p) \subseteq B(p)
  BY DEF Way, Counted, Kept
<1>4. \A p \in {"reading", "writing"}, u \in AppTask :
        Woke(u, p, c, state, e, s, d, i) => u \in AppTask \ A(p) /\ u \in B(p)
  BY DEF Way, Woke
<1>5. /\ n \in Int /\ m \in Int
      /\ Capacity - n \in Int /\ Capacity - m \in Int
      /\ m <= n - 1 /\ Capacity - m <= Capacity - n + 1
  BY LwMsgQAssumption
<1> HIDE DEF A, B
<1>6. A("writing") \subseteq B("writing")
  BY <1>3 DEF IsNot
<1>7. Enough(rv, m, B("reading"))
  BY <1>1, <1>2, <1>3, <1>5, EnoughLemma
<1>8. Enough(wv, Capacity - m, B("writing"))
  <2>1. CASE wv = <<>>
    BY <2>1 DEF Enough
  <2>2. CASE wv # <<>>
    <3>1. PICK u \in AppTask : Woke(u, "writing", c, state, e, s, d, i)
      BY <2>2 DEF Joined
    <3>2. u \in AppTask \ A("writing") /\ A("writing") \cup {u} \subseteq B("writing")
      BY <3>1, <1>6, <1>4
    <3> QED
      BY <1>1, <1>2, <1>5, <3>2, EnoughLemma
  <2> QED
    BY <2>1, <2>2
<1> QED
  BY <1>7, <1>8 DEF Wakes, B

LEMMA GainLemma ==
  ASSUME NEW rd, NEW wr, NEW rv, NEW wv,
         NEW n \in 0 .. Capacity, NEW m \in 0 .. Capacity,
         NEW c, NEW state, NEW timed, NEW inf,
         NEW e, NEW s, NEW d, NEW i, NEW t \in Task,
         Wakes(rd, wr, n, c, state, timed, inf),
         rv # <<>> => rd # <<>>, wv # <<>> => wr # <<>>,
         Kept(t, c, state, timed, inf, e, s, d, i),
         m = n + 1, IsNot(t, "reading", c),
         rv # <<>> => Joined("reading", c, state, e, s, d, i)
  PROVE  Wakes(rv, wv, m, e, s, d, i)
<1> DEFINE A(p) == Way(p, c, state, timed, inf)
           B(p) == Way(p, e, s, d, i)
<1>1. \A p \in {"reading", "writing"} : A(p) \in SUBSET AppTask /\ B(p) \in SUBSET AppTask
  BY DEF Way
<1>2. Enough(rd, n, A("reading")) /\ Enough(wr, Capacity - n, A("writing"))
  BY DEF Wakes
<1>3. \A p \in {"reading", "writing"} :
        /\ A(p) \ {t} \subseteq B(p)
        /\ (t \in AppTask => c[t] # p) => A(p) \subseteq B(p)
  BY DEF Way, Counted, Kept
<1>4. \A p \in {"reading", "writing"}, u \in AppTask :
        Woke(u, p, c, state, e, s, d, i) => u \in AppTask \ A(p) /\ u \in B(p)
  BY DEF Way, Woke
<1>5. /\ n \in Int /\ m \in Int
      /\ Capacity - n \in Int /\ Capacity - m \in Int
      /\ m <= n + 1 /\ Capacity - m <= Capacity - n - 1
  BY LwMsgQAssumption
<1> HIDE DEF A, B
<1>6. A("reading") \subseteq B("reading")
  BY <1>3 DEF IsNot
<1>7. Enough(wv, Capacity - m, B("writing"))
  BY <1>1, <1>2, <1>3, <1>5, EnoughLemma
<1>8. Enough(rv, m, B("reading"))
  <2>1. CASE rv = <<>>
    BY <2>1 DEF Enough
  <2>2. CASE rv # <<>>
    <3>1. PICK u \in AppTask : Woke(u, "reading", c, state, e, s, d, i)
      BY <2>2 DEF Joined
    <3>2. u \in AppTask \ A("reading") /\ A("reading") \cup {u} \subseteq B("reading")
      BY <3>1, <1>6, <1>4
    <3> QED
      BY <1>1, <1>2, <1>5, <3>2, EnoughLemma
  <2> QED
    BY <2>1, <2>2
<1> QED
  BY <1>7, <1>8 DEF Wakes, B

\* With nothing to fetch, or no room, whoever likes may queue.
LEMMA ReaderQueuesLemma ==
  ASSUME NEW rd, NEW wr, NEW queue, NEW n \in 0 .. Capacity, n = 0,
         NEW c, NEW state, NEW timed, NEW inf,
         NEW e, NEW s, NEW d, NEW i, NEW t \in Task,
         Wakes(rd, wr, n, c, state, timed, inf),
         Kept(t, c, state, timed, inf, e, s, d, i), IsNot(t, "writing", c)
  PROVE  Wakes(queue, wr, n, e, s, d, i)
<1> DEFINE A(p) == Way(p, c, state, timed, inf)
           B(p) == Way(p, e, s, d, i)
<1>1. \A p \in {"reading", "writing"} : A(p) \in SUBSET AppTask /\ B(p) \in SUBSET AppTask
  BY DEF Way
<1>2. Enough(wr, Capacity - n, A("writing"))
  BY DEF Wakes
<1>3. A("writing") \subseteq B("writing")
  BY DEF Way, Counted, Kept, IsNot
<1>4. PICK x \in Int : x = Capacity - n /\ x <= x
  BY LwMsgQAssumption
<1> HIDE DEF A, B
<1>5. Enough(wr, x, B("writing"))
  BY <1>1, <1>2, <1>3, <1>4, EnoughLemma
<1>6. Enough(queue, n, B("reading"))
  BY <1>1, CountLemma, LwMsgQAssumption DEF Enough
<1> QED
  BY <1>4, <1>5, <1>6 DEF Wakes, B

LEMMA WriterQueuesLemma ==
  ASSUME NEW rd, NEW wr, NEW queue, NEW n \in 0 .. Capacity, n = Capacity,
         NEW c, NEW state, NEW timed, NEW inf,
         NEW e, NEW s, NEW d, NEW i, NEW t \in Task,
         Wakes(rd, wr, n, c, state, timed, inf),
         Kept(t, c, state, timed, inf, e, s, d, i), IsNot(t, "reading", c)
  PROVE  Wakes(rd, queue, n, e, s, d, i)
<1> DEFINE A(p) == Way(p, c, state, timed, inf)
           B(p) == Way(p, e, s, d, i)
<1>1. \A p \in {"reading", "writing"} : A(p) \in SUBSET AppTask /\ B(p) \in SUBSET AppTask
  BY DEF Way
<1>2. Enough(rd, n, A("reading"))
  BY DEF Wakes
<1>3. A("reading") \subseteq B("reading")
  BY DEF Way, Counted, Kept, IsNot
<1>4. PICK x \in Int : x = n /\ x <= x
  BY LwMsgQAssumption
<1> HIDE DEF A, B
<1>5. Enough(rd, x, B("reading"))
  BY <1>1, <1>2, <1>3, <1>4, EnoughLemma
<1>6. Enough(queue, Capacity - n, B("writing"))
  BY <1>1, CountLemma, LwMsgQAssumption DEF Enough
<1> QED
  BY <1>4, <1>5, <1>6 DEF Wakes, B

-----------------------------------------------------------------------------
(* Steps of the executing task.                                             *)

\* The call ends, or fails, without anybody being woken.
LEMMA EndLemma ==
  ASSUME IInv, NEW t \in AppTask, Runs(k, t), NEW out \in Outcome,
         Settle(t, out), UNCHANGED <<k, q, info, made>>, DataOK',
         at[t] # "writing", at[t] = "reading" => info[t]
  PROVE  IInv'
<1>1. /\ t \notin ToSet(q.readers) \cup ToSet(q.writers)
      /\ k.state[t] = "READY"
      /\ k.state \in [Task -> State] /\ k.timed \in [Task -> BOOLEAN]
  BY RunsLemma
<1>2. /\ at \in [AppTask -> At] /\ at' = [at EXCEPT ![t] = out]
      /\ out \in At /\ out \notin Inside /\ out \notin {"reading", "writing"}
      /\ q \in Queue
  BY DEF IInv, DataOK, Settle, At, Outcome, Inside
<1>3. Sound(k)'
  BY SoundPrime DEF IInv
<1>4. WaitsOK'
  <2>1. k.state = [k.state EXCEPT ![t] = "READY"]
    BY <1>1
  <2>2. Waiting(q.readers, q.writers, k.state, k.timed, at)
    BY DEF IInv, WaitsOK
  <2>3. Waiting(q.readers, q.writers, [k.state EXCEPT ![t] = "READY"], k.timed,
                [at EXCEPT ![t] = out])
    BY <1>1, <1>2, <2>2, MoveLemma
  <2>4. Waiting(q.readers, q.writers, k.state, k.timed, [at EXCEPT ![t] = out])
    BY <2>1, <2>3
  <2> QED
    BY <1>2, <2>4 DEF WaitsOK
<1>5. FreshOK'
  BY <1>2 DEF IInv, FreshOK, Inside
<1>6. WakesOK'
  <2>1. Wakes(q.readers, q.writers, q.size, at, k.state, k.timed, info)
    BY WakesLemma DEF IInv
  <2>2. \A v \in AppTask :
           at[v] \in {"reading", "writing"} /\ k.state[v] = "READY"
             /\ ~k.timed[v] /\ ~info[v] =>
               at'[v] = at[v] /\ k.state[v] = "READY" /\ ~k.timed[v] /\ ~info[v]
    BY <1>2
  <2>3. q.size \in 0 .. Capacity
    BY <1>2 DEF Queue
  <2>4. Wakes(q.readers, q.writers, q.size, at', k.state, k.timed, info)
    BY <2>1, <2>2, <2>3, KeepLemma
  <2> QED
    BY <2>4, WakesLemma
<1> QED
  BY <1>3, <1>4, <1>5, <1>6 DEF IInv

LEMMA OutcomeLemma ==
  ASSUME IInv, NEW t \in AppTask,
         \/ Refuse(t) \/ FindEmpty(t) \/ ReadTimeout(t) \/ Released(t)
         \/ \E m \in Message : FindFull(t, m)
  PROVE  IInv'
<1>1. \A out \in Outcome : Settle(t, out) => at' \in [AppTask -> At]
  BY DEF IInv, DataOK, Settle, At
<1>2. wait' \in [AppTask -> Patience] /\ buf' \in [AppTask -> Message]
  BY DEF IInv, DataOK, Refuse, FindEmpty, ReadTimeout, Released, FindFull, Sends,
         NoWait, Patience
<1>3. PICK out \in Outcome : Settle(t, out)
  BY DEF Refuse, FindEmpty, ReadTimeout, Released, FindFull, Outcome
<1>4. /\ Runs(k, t) /\ UNCHANGED <<k, q, info, made>>
      /\ at[t] # "writing" /\ (at[t] = "reading" => info[t])
  BY DEF Refuse, FindEmpty, ReadTimeout, Released, FindFull, Starts, Outcome,
         TimedOut
<1>5. DataOK'
  BY <1>1, <1>2, <1>3, <1>4 DEF IInv, DataOK
<1> QED
  BY <1>3, <1>4, <1>5, EndLemma

LEMMA CreateLemma ==
  ASSUME CreatedOnce, IInv, NEW t \in AppTask, Create(t)
  PROVE  IInv'
<1>1. made = 0 /\ made' = 1 /\ made' \in 0 .. MaxCreations
  BY LwMsgQAssumption DEF IInv, DataOK, CreatedOnce, Create
<1>2. q.readers = <<>> /\ q.writers = <<>> /\ q'.readers = <<>> /\ q'.writers = <<>>
  BY <1>1 DEF IInv, DataOK, Queue, FreshOK, Create
<1>3. q' \in Queue
  <2>1. 0 \in Slot /\ 0 \in 0 .. Capacity
    BY LwMsgQAssumption DEF Slot
  <2> QED
    BY <2>1, EmptyLemma DEF IInv, DataOK, Queue, Create
<1>4. UNCHANGED <<k, at, buf, wait, info>>
  BY DEF Create
<1>5. DataOK'
  BY <1>1, <1>3, <1>4 DEF IInv, DataOK
<1>6. Sound(k)'
  BY <1>4, SoundPrime DEF IInv
<1>7. WaitsOK'
  BY <1>2, <1>4 DEF IInv, WaitsOK
<1>8. FreshOK'
  BY <1>1 DEF FreshOK
<1>9. WakesOK'
  BY <1>2 DEF WakesOK, NoLostWake
<1> QED
  BY <1>5, <1>6, <1>7, <1>8, <1>9 DEF IInv

LEMMA UsedLemma ==
  ASSUME IInv, q.valid \/ (\E t \in AppTask : at[t] \in Inside), made' = made
  PROVE  FreshOK'
BY DEF IInv, FreshOK

\* The ring keeps its type.
LEMMA RingLemma ==
  ASSUME q \in Queue
  PROVE  /\ q.size > 0 => Taken \in Queue /\ Taken.size = q.size - 1
         /\ Taken.readers = q.readers /\ Taken.writers = q.writers
         /\ q.size > 0 => Taken.valid = q.valid
         /\ \A m \in Message :
              /\ q.size < Capacity => Stored(m) \in Queue
              /\ Stored(m).size = q.size + 1
              /\ Stored(m).readers = q.readers /\ Stored(m).writers = q.writers
<1>1. \A i \in Slot : After(i) \in Slot
  BY LwMsgQAssumption DEF Slot, After
<1>2. q.size > 0 => q.size - 1 \in 0 .. Capacity
  BY LwMsgQAssumption DEF Queue
<1>3. q.size < Capacity => q.size + 1 \in 0 .. Capacity
  BY LwMsgQAssumption DEF Queue
<1>4. /\ q.size > 0 => Taken \in Queue /\ Taken.size = q.size - 1
      /\ Taken.readers = q.readers /\ Taken.writers = q.writers
      /\ q.size > 0 => Taken.valid = q.valid
  BY <1>1, <1>2 DEF Taken, Queue
<1>5. ASSUME NEW m \in Message
      PROVE  /\ q.size < Capacity => Stored(m) \in Queue
             /\ Stored(m).size = q.size + 1
             /\ Stored(m).readers = q.readers /\ Stored(m).writers = q.writers
  BY <1>1, <1>3 DEF Stored, Queue
<1> QED
  BY <1>4, <1>5

\* A writer that is woken by _lwmsgq_receive.
LEMMA WriterLemma ==
  ASSUME IInv, q.writers # <<>>
  PROVE  LET u == Head(q.writers)
             d == CheckRunScheduler(TaskReady(k, u))
         IN  /\ u \in AppTask /\ u \in ToSet(q.writers) /\ at[u] = "writing"
             /\ k.state[u] # "READY"
             /\ Sound(d)
             /\ d.state = [k.state EXCEPT ![u] = "READY"]
             /\ d.timed = [k.timed EXCEPT ![u] = FALSE]
<1>1. PICK u : u = Head(q.writers)
  OBVIOUS
<1>2. u \in AppTask /\ u \in ToSet(q.writers)
  BY <1>1, HeadLemma DEF IInv, DataOK, Queue, WaitsOK, Waiting
<1>3. at[u] = "writing" /\ k.state[u] = "LWMSGQ_WRITE_BLOCKED" /\ ~k.timed[u]
  BY <1>2 DEF IInv, WaitsOK, Waiting
<1>4. PICK e : e = TaskReady(k, u)
  OBVIOUS
<1>5. /\ Sound(e) /\ e.state = [k.state EXCEPT ![u] = "READY"]
      /\ e.timed = [k.timed EXCEPT ![u] = FALSE]
  BY <1>2, <1>3, <1>4, SoundReady, AppTaskLemma DEF IInv
<1>6. PICK d : d = CheckRunScheduler(e)
  OBVIOUS
<1>7. Sound(d) /\ d.state = e.state /\ d.timed = e.timed
  BY <1>5, <1>6, SoundCheck
<1> QED
  BY <1>1, <1>2, <1>3, <1>4, <1>5, <1>6, <1>7

\* The executing task, which is ready, goes to another place in its call.
LEMMA GoLemma ==
  ASSUME NEW rd, NEW wr, NEW c \in [AppTask -> At],
         NEW state \in [Task -> State], NEW timed \in [Task -> BOOLEAN],
         NEW t \in AppTask, Waiting(rd, wr, state, timed, c),
         state[t] = "READY", NEW place \in At \ {"reading", "writing"}
  PROVE  Waiting(rd, wr, state, timed, [c EXCEPT ![t] = place])
<1>1. state = [state EXCEPT ![t] = "READY"]
  OBVIOUS
<1>2. t \notin ToSet(rd) \cup ToSet(wr)
  BY DEF Waiting
<1>3. Waiting(rd, wr, [state EXCEPT ![t] = "READY"], timed, [c EXCEPT ![t] = place])
  BY <1>2, MoveLemma
<1> QED
  BY <1>1, <1>3

LEMMA TakeLemma ==
  ASSUME IInv, NEW t \in AppTask, Take(t)
  PROVE  IInv'
<1>1. /\ t \in Task /\ Runs(k, t) /\ q.size > 0
      /\ q.valid \/ at[t] \in Inside
      /\ at[t] # "writing"
      /\ at' = [at EXCEPT ![t] = "received"]
      /\ made' = made
  BY AppTaskLemma DEF Take, MayTake, Starts, Settle, Inside, Outcome
<1>2. /\ k.state[t] = "READY" /\ ~k.timed[t]
      /\ k.state \in [Task -> State] /\ k.timed \in [Task -> BOOLEAN]
  BY <1>1, RunsLemma
<1>3. /\ q \in Queue /\ at \in [AppTask -> At] /\ info \in [AppTask -> BOOLEAN]
      /\ buf \in [AppTask -> Message] /\ wait \in [AppTask -> Patience]
      /\ "received" \in At \ {"reading", "writing"}
      /\ at' \in [AppTask -> At]
      /\ Inj(q.readers) /\ Inj(q.writers)
      /\ q.size \in 0 .. Capacity
  <2>1. /\ q \in Queue /\ at \in [AppTask -> At] /\ info \in [AppTask -> BOOLEAN]
        /\ buf \in [AppTask -> Message] /\ wait \in [AppTask -> Patience]
        /\ Inj(q.readers) /\ Inj(q.writers)
    BY DEF IInv, DataOK, WaitsOK, Waiting
  <2>2. "received" \in At \ {"reading", "writing"}
    BY DEF At, Outcome
  <2> QED
    BY <1>1, <2>1, <2>2 DEF Queue
<1>10. PICK m \in 0 .. Capacity : m = q.size - 1
  BY <1>1, <1>3, LwMsgQAssumption
<1>4. /\ Taken \in Queue /\ Taken.size = q.size - 1
      /\ Taken.readers = q.readers /\ Taken.writers = q.writers
  BY <1>1, <1>3, RingLemma
<1>5. buf' \in [AppTask -> Message] /\ wait' \in [AppTask -> Patience]
  BY <1>3 DEF Take, Queue, NoWait, Patience
<1>6. FreshOK'
  BY <1>1, UsedLemma
<1>7. /\ Waiting(q.readers, q.writers, k.state, k.timed, at)
      /\ Wakes(q.readers, q.writers, q.size, at, k.state, k.timed, info)
  BY WakesLemma DEF IInv, WaitsOK
<1>8. CASE q.writers = <<>>
  <2>1. q' = Taken /\ k' = k /\ info' = info
    BY <1>8 DEF Take
  <2>2. Sound(k)'
    BY <2>1, SoundPrime DEF IInv
  <2>3. WaitsOK'
    BY <1>1, <1>2, <1>3, <1>4, <1>7, <2>1, GoLemma DEF WaitsOK
  <2>4. Wakes(q.readers, q.writers, m, at', k.state, k.timed, info)
    <3>1. Kept(t, at, k.state, k.timed, info, at', k.state, k.timed, info)
      BY <1>1, <1>3 DEF Counted, Kept
    <3>2. IsNot(t, "writing", at)
      BY <1>1 DEF IsNot
    <3> QED
      BY <1>1, <1>3, <1>7, <1>8, <1>10, <3>1, <3>2, LossLemma
  <2>5. WakesOK'
    BY <2>1, <2>4, <1>4, <1>10, WakesLemma
  <2> QED
    BY <1>1, <1>3, <1>4, <1>5, <1>6, <2>1, <2>2, <2>3, <2>5 DEF IInv, DataOK
<1>9. CASE q.writers # <<>>
  <2>1. PICK u : u = Head(q.writers)
    OBVIOUS
  <2>2. /\ q' = [Taken EXCEPT !.writers = Tail(q.writers)]
        /\ info' = [info EXCEPT ![u] = FALSE]
        /\ k' = CheckRunScheduler(TaskReady(k, u))
    BY <1>4, <1>9, <2>1 DEF Take
  <2>3. /\ u \in AppTask /\ u \in ToSet(q.writers) /\ at[u] = "writing"
        /\ k.state[u] # "READY" /\ Sound(k')
        /\ k'.state = [k.state EXCEPT ![u] = "READY"]
        /\ k'.timed = [k.timed EXCEPT ![u] = FALSE]
    BY <1>9, <2>1, <2>2, WriterLemma
  <2>4. Sound(k)'
    BY <2>3, SoundPrime
  <2>5. /\ Tail(q.writers) \in Seq(AppTask) /\ Inj(Tail(q.writers))
        /\ ToSet(Tail(q.writers)) = ToSet(q.writers) \ {u}
    BY <1>3, <1>9, <2>1, HeadLemma DEF Queue
  <2>6. /\ q' \in Queue /\ q'.size = q.size - 1
        /\ q'.readers = q.readers /\ q'.writers = Tail(q.writers)
    BY <1>4, <2>2, <2>5 DEF Queue
  <2>7. /\ k'.state \in [Task -> State] /\ k'.timed \in [Task -> BOOLEAN]
        /\ k'.state[t] = "READY" /\ k'.state[u] = "READY" /\ ~k'.timed[u] /\ u # t
        /\ \A v \in AppTask \ {u} : k'.state[v] = k.state[v] /\ k'.timed[v] = k.timed[v]
    BY <1>1, <1>2, <2>3, AppTaskLemma DEF State
  <2>8. WaitsOK'
    <3>1. ToSet(q.readers) = ToSet(q.readers) \ {u}
      BY <2>3, <1>7 DEF Waiting
    <3>4. Waiting(q.readers, Tail(q.writers), [k.state EXCEPT ![u] = "READY"],
                  [k.timed EXCEPT ![u] = FALSE], at)
      BY <1>2, <1>3, <1>7, <2>3, <2>5, <3>1, WokenLemma
    <3>2. Waiting(q.readers, Tail(q.writers), k'.state, k'.timed, at)
      BY <3>4, <2>3
    <3>3. Waiting(q.readers, Tail(q.writers), k'.state, k'.timed, at')
      BY <1>1, <1>3, <2>7, <3>2, GoLemma
    <3> QED
      BY <3>3, <2>6 DEF WaitsOK
  <2>9. Wakes(q.readers, Tail(q.writers), m, at', k'.state, k'.timed, info')
    <3>1. Kept(t, at, k.state, k.timed, info, at', k'.state, k'.timed, info')
      BY <1>1, <1>3, <2>2, <2>3, <2>7 DEF Counted, Kept
    <3>2. IsNot(t, "writing", at)
      BY <1>1 DEF IsNot
    <3>3. Woke(u, "writing", at, k.state, at', k'.state, k'.timed, info')
      BY <1>1, <1>3, <2>2, <2>3, <2>7 DEF Woke
    <3>4. Joined("writing", at, k.state, at', k'.state, k'.timed, info')
      BY <2>3, <3>3 DEF Joined
    <3> QED
      BY <1>1, <1>3, <1>7, <1>9, <1>10, <3>1, <3>2, <3>4, LossLemma
  <2>10. WakesOK'
    BY <2>6, <2>9, <1>10, WakesLemma
  <2>11. info' \in [AppTask -> BOOLEAN]
    BY <1>3, <2>2
  <2> QED
    BY <1>1, <1>3, <1>5, <1>6, <2>4, <2>6, <2>8, <2>10, <2>11 DEF IInv, DataOK
<1> QED
  BY <1>8, <1>9

LEMMA AwaitLemma ==
  ASSUME IInv, NEW t \in AppTask, Runs(k, t), q.valid \/ at[t] \in Inside,
         at[t] # "writing", NEW w \in Patience, AwaitMessage(t, w)
  PROVE  IInv'
<1>1. /\ t \in Task /\ k.state[t] = "READY" /\ ~k.timed[t] /\ IsReady(k, t)
      /\ k.state \in [Task -> State] /\ k.timed \in [Task -> BOOLEAN]
      /\ t \notin ToSet(q.readers) \cup ToSet(q.writers)
  BY RunsLemma
<1>2. /\ q \in Queue /\ at \in [AppTask -> At] /\ info \in [AppTask -> BOOLEAN]
      /\ buf \in [AppTask -> Message] /\ wait \in [AppTask -> Patience]
      /\ Inj(q.readers) /\ Inj(q.writers)
      /\ made \in 0 .. MaxCreations
  BY DEF IInv, DataOK, WaitsOK, Waiting
<1>3. /\ q.size = 0
      /\ q' = [q EXCEPT !.readers = Append(q.readers, t)]
      /\ info' = [info EXCEPT ![t] = TRUE]
      /\ wait' = [wait EXCEPT ![t] = w]
      /\ at' = [at EXCEPT ![t] = "reading"]
      /\ buf' = buf /\ made' = made
  BY DEF AwaitMessage, Settle
<1>4. /\ Append(q.readers, t) \in Seq(AppTask) /\ Inj(Append(q.readers, t))
      /\ ToSet(Append(q.readers, t)) = ToSet(q.readers) \cup {t}
  BY <1>1, <1>2, JoinLemma DEF Queue
<1>5. /\ q' \in Queue /\ q'.readers = Append(q.readers, t)
      /\ q'.writers = q.writers /\ q'.size = q.size
  BY <1>2, <1>3, <1>4 DEF Queue
<1>6. DataOK'
  BY <1>2, <1>3, <1>5 DEF DataOK, At, Inside
<1>7. FreshOK'
  BY <1>3, UsedLemma
<1>8. PICK st \in State : st = "LWMSGQ_READ_BLOCKED" /\ st # "READY"
  BY DEF State
<1>9. /\ Sound(k')
      /\ k'.state = [k.state EXCEPT ![t] = st]
      /\ \E b \in BOOLEAN : k'.timed = [k.timed EXCEPT ![t] = b]
  <2>1. CASE w.until = "ever"
    <3>1. k' = Dispatch(StateParked(k, t, st))
      BY <2>1, <1>8 DEF AwaitMessage, StateParked, StateSet
    <3>2. Sound(k') /\ k'.state = [k.state EXCEPT ![t] = st] /\ k'.timed = k.timed
      BY <3>1, <1>1, <1>8, SoundStateParked DEF IInv
    <3>3. k.timed = [k.timed EXCEPT ![t] = FALSE]
      BY <1>1
    <3> QED
      BY <3>2, <3>3
  <2>2. CASE w.until # "ever"
    <3>1. PICK n : n = Remaining(w)
      OBVIOUS
    <3>2. n \in Int
      BY <3>1 DEF Remaining, Patience
    <3>3. k' = Dispatch(Delay(StateSet(k, t, st), t, n))
      BY <2>2, <3>1, <1>8 DEF AwaitMessage, StateSet
    <3>4. /\ Sound(k') /\ k'.state = [k.state EXCEPT ![t] = st]
          /\ k'.timed = [k.timed EXCEPT ![t] = TRUE]
      BY <3>2, <3>3, <1>1, <1>8, SoundStateDelay DEF IInv
    <3> QED
      BY <3>4
  <2> QED
    BY <2>1, <2>2
<1>10. PICK b \in BOOLEAN : k'.timed = [k.timed EXCEPT ![t] = b]
  BY <1>9
<1>11. WaitsOK'
  <2>1. Waiting(q.readers, q.writers, k.state, k.timed, at)
    BY DEF IInv, WaitsOK
  <2>2. Waiting(Append(q.readers, t), q.writers, [k.state EXCEPT ![t] = st],
                [k.timed EXCEPT ![t] = b], [at EXCEPT ![t] = "reading"])
    BY <1>1, <1>2, <1>4, <1>8, <2>1, EnterReadersLemma
  <2> QED
    BY <2>2, <1>3, <1>5, <1>9, <1>10 DEF WaitsOK
<1>12. WakesOK'
  <2>1. Wakes(q.readers, q.writers, q.size, at, k.state, k.timed, info)
    BY WakesLemma DEF IInv
  <2>2. Kept(t, at, k.state, k.timed, info, at', k'.state, k'.timed, info')
    BY <1>1, <1>2, <1>3, <1>9, <1>10, AppTaskLemma DEF Kept, Counted
  <2>3. IsNot(t, "writing", at)
    BY DEF IsNot
  <2>4. q.size \in 0 .. Capacity /\ q.size = 0
    BY <1>2, <1>3 DEF Queue
  <2>5. Wakes(Append(q.readers, t), q.writers, q.size, at', k'.state, k'.timed, info')
    BY <2>1, <2>2, <2>3, <2>4, <1>1, ReaderQueuesLemma
  <2> QED
    BY <2>5, <1>5, WakesLemma
<1>13. Sound(k)'
  BY <1>9, SoundPrime
<1> QED
  BY <1>6, <1>7, <1>11, <1>12, <1>13 DEF IInv

LEMMA AwaitStepLemma ==
  ASSUME IInv, NEW t \in AppTask,
         \/ ReadAgain(t) \/ BlockOnEmpty(t, NoWait)
         \/ \E u \in {"for", "time"}, d \in Ticks :
              BlockOnEmpty(t, [until |-> u, ticks |-> d, elapsed |-> 0])
  PROVE  IInv'
<1>1. CASE ReadAgain(t)
  <2>1. wait[t] \in Patience
    BY DEF IInv, DataOK
  <2> QED
    BY <1>1, <2>1, AwaitLemma DEF ReadAgain, Inside
<1>2. ASSUME NEW w \in Patience, BlockOnEmpty(t, w)
      PROVE  IInv'
  <2>1. Runs(k, t) /\ q.valid /\ at[t] # "writing" /\ AwaitMessage(t, w)
    BY <1>2 DEF BlockOnEmpty, Starts, Outcome
  <2> QED
    BY <2>1, AwaitLemma
<1>3. NoWait \in Patience
  BY DEF NoWait, Patience
<1>4. \A u \in {"for", "time"}, d \in Ticks :
        [until |-> u, ticks |-> d, elapsed |-> 0] \in Patience
  BY LwMsgQAssumption DEF Patience
<1> QED
  BY <1>1, <1>2, <1>3, <1>4

\* A reader that is woken by _lwmsgq_send, whether its time runs or not.
LEMMA ReaderLemma ==
  ASSUME IInv, q.readers # <<>>
  PROVE  LET u == Head(q.readers)
             d == Wake(k, u)
         IN  /\ u \in AppTask /\ u \in ToSet(q.readers) /\ at[u] = "reading"
             /\ k.state[u] # "READY"
             /\ Sound(d)
             /\ d.state = [k.state EXCEPT ![u] = "READY"]
             /\ d.timed = [k.timed EXCEPT ![u] = FALSE]
<1>1. PICK u : u = Head(q.readers)
  OBVIOUS
<1>2. u \in AppTask /\ u \in ToSet(q.readers) /\ u \in Task
  BY <1>1, HeadLemma, AppTaskLemma DEF IInv, DataOK, Queue, WaitsOK, Waiting
<1>3. at[u] = "reading" /\ k.state[u] = "LWMSGQ_READ_BLOCKED"
  BY <1>2 DEF IInv, WaitsOK, Waiting
<1>4. ~IsReady(k, u)
  BY <1>3 DEF IsReady
<1>5. PICK d : d = Wake(k, u)
  OBVIOUS
<1>6. /\ Sound(d) /\ d.state = [k.state EXCEPT ![u] = "READY"]
      /\ d.timed = [k.timed EXCEPT ![u] = FALSE]
  BY <1>2, <1>4, <1>5, SoundWake DEF IInv
<1> QED
  BY <1>1, <1>2, <1>3, <1>5, <1>6

\* What a send does before its caller goes on: e is the kernel then.
PutDone(e) ==
  /\ Sound(e)
  /\ e.state \in [Task -> State] /\ e.timed \in [Task -> BOOLEAN]
  /\ q' \in Queue /\ q'.size = q.size + 1 /\ q.size + 1 \in 0 .. Capacity
  /\ q'.writers = q.writers /\ (q'.readers # <<>> => q.readers # <<>>)
  /\ info' \in [AppTask -> BOOLEAN]
  /\ Waiting(q'.readers, q'.writers, e.state, e.timed, at)
  /\ \A v \in AppTask :
       /\ k.state[v] = "READY" => e.state[v] = "READY"
       /\ ~k.timed[v] => ~e.timed[v]
       /\ ~info[v] => ~info'[v]
  /\ q'.readers # <<>> => Joined("reading", at, k.state, at, e.state, e.timed, info')

LEMMA PutLemma ==
  ASSUME IInv, NEW m \in Message, Put(m)
  PROVE  PutDone(Woken)
<1>1. /\ q \in Queue /\ info \in [AppTask -> BOOLEAN]
      /\ Inj(q.readers) /\ Inj(q.writers)
      /\ k.state \in [Task -> State] /\ k.timed \in [Task -> BOOLEAN]
      /\ Sound(k) /\ Waiting(q.readers, q.writers, k.state, k.timed, at)
  BY DEF IInv, DataOK, WaitsOK, Waiting, Sound, Basic, Kernel
<1>2. q.size < Capacity /\ q.size + 1 \in 0 .. Capacity
  BY <1>1, LwMsgQAssumption DEF Put, Queue
<1>3. /\ Stored(m) \in Queue /\ Stored(m).size = q.size + 1
      /\ Stored(m).readers = q.readers /\ Stored(m).writers = q.writers
  BY <1>1, <1>2, RingLemma
<1>4. CASE q.readers = <<>>
  <2>1. Woken = k /\ q' = Stored(m) /\ info' = info
    BY <1>4 DEF Put, Woken, WakesReader
  <2> QED
    BY <1>1, <1>2, <1>3, <1>4, <2>1 DEF PutDone
<1>5. CASE q.readers # <<>>
  <2>1. PICK u : u = Head(q.readers)
    OBVIOUS
  <2>2. PICK e : e = Woken
    OBVIOUS
  <2>3. /\ e = Wake(k, u)
        /\ q' = [Stored(m) EXCEPT !.readers = Tail(q.readers)]
        /\ info' = [info EXCEPT ![u] = FALSE]
    BY <1>3, <1>5, <2>1, <2>2 DEF Put, Woken, WakesReader
  <2>4. /\ u \in AppTask /\ u \in ToSet(q.readers) /\ at[u] = "reading"
        /\ k.state[u] # "READY" /\ Sound(e)
        /\ e.state = [k.state EXCEPT ![u] = "READY"]
        /\ e.timed = [k.timed EXCEPT ![u] = FALSE]
    BY <1>5, <2>1, <2>3, ReaderLemma
  <2>5. /\ Tail(q.readers) \in Seq(AppTask) /\ Inj(Tail(q.readers))
        /\ ToSet(Tail(q.readers)) = ToSet(q.readers) \ {u}
    BY <1>1, <1>5, <2>1, HeadLemma DEF Queue
  <2>6. /\ q' \in Queue /\ q'.size = q.size + 1
        /\ q'.writers = q.writers /\ q'.readers = Tail(q.readers)
    BY <1>3, <2>3, <2>5 DEF Queue
  <2>7. /\ e.state \in [Task -> State] /\ e.timed \in [Task -> BOOLEAN]
        /\ e.state[u] = "READY" /\ ~e.timed[u]
        /\ \A v \in AppTask \ {u} : e.state[v] = k.state[v] /\ e.timed[v] = k.timed[v]
    BY <1>1, <2>4, AppTaskLemma DEF State
  <2>8. /\ info' \in [AppTask -> BOOLEAN] /\ ~info'[u]
        /\ \A v \in AppTask \ {u} : info'[v] = info[v]
    BY <1>1, <2>3, <2>4
  <2>9. Waiting(q'.readers, q'.writers, e.state, e.timed, at)
    <3>1. ToSet(q.writers) = ToSet(q.writers) \ {u}
      BY <2>4, <1>1 DEF Waiting
    <3>2. Waiting(Tail(q.readers), q.writers, [k.state EXCEPT ![u] = "READY"],
                  [k.timed EXCEPT ![u] = FALSE], at)
      BY <1>1, <2>4, <2>5, <3>1, WokenLemma
    <3> QED
      BY <3>2, <2>4, <2>6
  <2>10. Joined("reading", at, k.state, at, e.state, e.timed, info')
    BY <2>4, <2>7, <2>8 DEF Joined, Woke
  <2>11. \A v \in AppTask :
           /\ k.state[v] = "READY" => e.state[v] = "READY"
           /\ ~k.timed[v] => ~e.timed[v]
           /\ ~info[v] => ~info'[v]
    BY <2>7, <2>8
  <2>12. PutDone(e)
    BY <1>2, <1>5, <2>4, <2>6, <2>7, <2>8, <2>9, <2>10, <2>11 DEF PutDone
  <2> QED
    BY <2>2, <2>12
<1> QED
  BY <1>4, <1>5

\* The sender goes on, or blocks itself.
LEMMA SentLemma ==
  ASSUME IInv, NEW t \in AppTask, Runs(k, t), at[t] # "reading",
         q.valid \/ at[t] \in Inside,
         NEW e, PutDone(e), NEW st, st \in {"READY", "BLOCKED"},
         NEW place, place \in {"sent", "sending"}, Settle(t, place),
         Sound(k'), k'.state = [e.state EXCEPT ![t] = st], k'.timed = e.timed,
         buf' \in [AppTask -> Message], UNCHANGED <<wait, made>>
  PROVE  IInv'
<1>1. /\ t \in Task /\ k.state[t] = "READY" /\ ~k.timed[t]
  BY RunsLemma
<1>2. /\ q \in Queue /\ at \in [AppTask -> At] /\ info \in [AppTask -> BOOLEAN]
      /\ wait \in [AppTask -> Patience] /\ made \in 0 .. MaxCreations
      /\ q.size \in 0 .. Capacity
      /\ Wakes(q.readers, q.writers, q.size, at, k.state, k.timed, info)
  BY WakesLemma DEF IInv, DataOK, Queue
<1>3. /\ place \in At /\ place \notin {"reading", "writing"}
      /\ at' = [at EXCEPT ![t] = place] /\ at' \in [AppTask -> At]
  BY <1>2 DEF At, Outcome, Inside, Settle
<1>4. e.state[t] = "READY" /\ e.state \in [Task -> State] /\ e.timed \in [Task -> BOOLEAN]
  BY <1>1 DEF PutDone
<1>5. Sound(k)'
  BY SoundPrime
<1>6. DataOK'
  BY <1>2, <1>3 DEF PutDone, DataOK
<1>7. FreshOK'
  BY UsedLemma
<1>8. WaitsOK'
  <2>1. Waiting(q'.readers, q'.writers, e.state, e.timed, at)
    BY DEF PutDone
  <2>2. t \notin ToSet(q'.readers) \cup ToSet(q'.writers)
    BY <2>1, <1>4 DEF Waiting
  <2>3. Waiting(q'.readers, q'.writers, [e.state EXCEPT ![t] = st], e.timed,
                [at EXCEPT ![t] = place])
    BY <2>1, <2>2, <1>2, <1>3, <1>4, MoveLemma
  <2>4. Waiting(q'.readers, q'.writers, k'.state, k'.timed, at')
    BY <2>3, <1>3
  <2> QED
    BY <2>4 DEF WaitsOK
<1>9. \A v \in AppTask \ {t} : k'.state[v] = e.state[v] /\ at'[v] = at[v]
  BY <1>2, <1>3, <1>4, AppTaskLemma
<1>10. Kept(t, at, k.state, k.timed, info, at', k'.state, k'.timed, info')
  BY <1>9 DEF Kept, Counted, PutDone
<1>11. q'.readers # <<>> => Joined("reading", at, k.state, at', k'.state, k'.timed, info')
  <2> SUFFICES ASSUME q'.readers # <<>>
               PROVE  Joined("reading", at, k.state, at', k'.state, k'.timed, info')
    OBVIOUS
  <2>1. PICK u \in AppTask : Woke(u, "reading", at, k.state, at, e.state, e.timed, info')
    BY DEF PutDone, Joined
  <2>2. u # t
    BY <2>1 DEF Woke
  <2>3. Woke(u, "reading", at, k.state, at', k'.state, k'.timed, info')
    BY <2>1, <2>2, <1>9 DEF Woke
  <2> QED
    BY <2>3 DEF Joined
<1>12. WakesOK'
  <2>1. PICK m \in 0 .. Capacity : m = q.size + 1
    BY DEF PutDone
  <2>2. /\ IsNot(t, "reading", at) /\ q'.size = m
        /\ (q'.readers # <<>> => q.readers # <<>>)
        /\ (q'.writers # <<>> => q.writers # <<>>)
    BY <2>1 DEF IsNot, PutDone
  <2>3. Wakes(q'.readers, q'.writers, m, at', k'.state, k'.timed, info')
    BY <1>1, <1>2, <1>10, <1>11, <2>1, <2>2, GainLemma
  <2> QED
    BY <2>2, <2>3, WakesLemma
<1> QED
  BY <1>5, <1>6, <1>7, <1>8, <1>12 DEF IInv

LEMMA SendLemma ==
  ASSUME IInv, NEW t \in AppTask, NEW m \in Message,
         Send(t, m) \/ SendAndBlock(t, m)
  PROVE  IInv'
<1>1. /\ Runs(k, t) /\ at[t] # "reading" /\ (q.valid \/ at[t] \in Inside)
      /\ buf' = [buf EXCEPT ![t] = m]
      /\ Put(m) /\ UNCHANGED <<wait, made>>
  BY DEF Send, SendAndBlock, Sends, Starts, Outcome, Inside
<1>2. buf' \in [AppTask -> Message]
  BY <1>1 DEF IInv, DataOK
<1>3. PICK e : e = Woken
  OBVIOUS
<1>4. PutDone(e) /\ Sound(e) /\ e.state \in [Task -> State]
  BY <1>1, <1>3, PutLemma DEF PutDone
<1>5. t \in Task /\ IsReady(e, t)
  BY <1>1, <1>4, RunsLemma DEF PutDone, IsReady
<1>6. CASE Send(t, m)
  <2>1. k' = IF WakesReader THEN CheckRunScheduler(e) ELSE k
    BY <1>3, <1>6 DEF Send
  <2>2. Sound(k') /\ k'.state = e.state /\ k'.timed = e.timed
    <3>1. CASE WakesReader
      BY <2>1, <3>1, <1>4, SoundCheck
    <3>2. CASE ~WakesReader
      BY <2>1, <3>2, <1>3, <1>4 DEF Woken
    <3> QED
      BY <3>1, <3>2
  <2>3. e.state = [e.state EXCEPT ![t] = "READY"]
    BY <1>4, <1>5 DEF IsReady
  <2>4. Settle(t, "sent") /\ k'.state = [e.state EXCEPT ![t] = "READY"]
    BY <1>6, <2>2, <2>3 DEF Send
  <2> QED
    BY <1>1, <1>2, <1>4, <2>2, <2>4, SentLemma
<1>7. CASE SendAndBlock(t, m)
  <2>1. PICK f : f = [Unlink(e, t, e.my[t]) EXCEPT !.state[t] = "BLOCKED"]
    OBVIOUS
  <2>2. e.my = k.my
    <3>1. k \in Kernel
      BY DEF IInv, Sound, Basic
    <3> QED
      BY <3>1, <1>3 DEF Woken, Wake, TaskReady, TimeDequeue, Kernel
  <2>3. k' = Dispatch(f) /\ Settle(t, "sending")
    BY <2>1, <2>2, <1>3, <1>7 DEF SendAndBlock
  <2>4. "BLOCKED" \in State \ {"READY"}
    BY DEF State
  <2>5. /\ Basic(f) /\ (f.ticking => f.isr > 0)
        /\ f.state = [e.state EXCEPT ![t] = "BLOCKED"] /\ f.timed = e.timed
    BY <1>4, <1>5, <2>1, <2>4, ParkEffect
  <2>6. Sound(k') /\ k'.state = [e.state EXCEPT ![t] = "BLOCKED"] /\ k'.timed = e.timed
    BY <2>3, <2>5, SoundDispatch
  <2> QED
    BY <1>1, <1>2, <1>4, <2>3, <2>6, SentLemma
<1> QED
  BY <1>6, <1>7

LEMMA HandlerSendLemma ==
  ASSUME IInv, NEW m \in Message, HandlerSend(m)
  PROVE  IInv'
<1>1. q.valid /\ Put(m) /\ k' = Woken /\ UNCHANGED <<at, buf, wait, made>>
  BY DEF HandlerSend
<1>2. PutDone(k')
  BY <1>1, PutLemma
<1>3. /\ q \in Queue /\ at \in [AppTask -> At] /\ info \in [AppTask -> BOOLEAN]
      /\ buf \in [AppTask -> Message]
      /\ wait \in [AppTask -> Patience] /\ made \in 0 .. MaxCreations
      /\ q.size \in 0 .. Capacity
      /\ Wakes(q.readers, q.writers, q.size, at, k.state, k.timed, info)
  BY WakesLemma DEF IInv, DataOK, Queue
<1>4. Sound(k)'
  BY <1>2, SoundPrime DEF PutDone
<1>5. DataOK'
  BY <1>1, <1>2, <1>3 DEF PutDone, DataOK
<1>6. FreshOK'
  BY <1>1, UsedLemma
<1>7. WaitsOK'
  BY <1>1, <1>2 DEF PutDone, WaitsOK
<1>8. Idle \in Task /\ IsNot(Idle, "reading", at)
  BY KernelAssumption DEF IsNot, AppTask
<1>9. Kept(Idle, at, k.state, k.timed, info, at, k'.state, k'.timed, info')
  BY <1>2 DEF Kept, Counted, PutDone
<1>10. WakesOK'
  <2>1. PICK n \in 0 .. Capacity : n = q.size + 1
    BY <1>2 DEF PutDone
  <2>2. /\ q'.size = n
        /\ (q'.readers # <<>> => q.readers # <<>>)
        /\ (q'.writers # <<>> => q.writers # <<>>)
        /\ q'.readers # <<>> => Joined("reading", at, k.state, at, k'.state, k'.timed, info')
    BY <1>2, <2>1 DEF PutDone
  <2>3. Wakes(q'.readers, q'.writers, n, at, k'.state, k'.timed, info')
    BY <1>3, <1>8, <1>9, <2>1, <2>2, GainLemma
  <2> QED
    BY <1>1, <2>2, <2>3, WakesLemma
<1> QED
  BY <1>4, <1>5, <1>6, <1>7, <1>10 DEF IInv

LEMMA BlockOnFullLemma ==
  ASSUME IInv, NEW t \in AppTask, NEW m \in Message, BlockOnFull(t, m)
  PROVE  IInv'
<1>1. /\ Runs(k, t) /\ at[t] # "reading" /\ (q.valid \/ at[t] \in Inside)
      /\ buf' = [buf EXCEPT ![t] = m]
      /\ q.size = Capacity
      /\ q' = [q EXCEPT !.writers = Append(q.writers, t)]
      /\ info' = [info EXCEPT ![t] = TRUE]
      /\ at' = [at EXCEPT ![t] = "writing"]
      /\ wait' = wait /\ made' = made
  BY DEF BlockOnFull, Sends, Starts, Outcome, Inside, Settle
<1>2. /\ t \in Task /\ k.state[t] = "READY" /\ ~k.timed[t] /\ IsReady(k, t)
      /\ k.state \in [Task -> State] /\ k.timed \in [Task -> BOOLEAN]
      /\ t \notin ToSet(q.readers) \cup ToSet(q.writers)
  BY <1>1, RunsLemma
<1>3. /\ q \in Queue /\ at \in [AppTask -> At] /\ info \in [AppTask -> BOOLEAN]
      /\ buf \in [AppTask -> Message] /\ wait \in [AppTask -> Patience]
      /\ Inj(q.readers) /\ Inj(q.writers)
      /\ made \in 0 .. MaxCreations
  BY DEF IInv, DataOK, WaitsOK, Waiting
<1>4. /\ Append(q.writers, t) \in Seq(AppTask) /\ Inj(Append(q.writers, t))
      /\ ToSet(Append(q.writers, t)) = ToSet(q.writers) \cup {t}
  BY <1>2, <1>3, JoinLemma DEF Queue
<1>5. /\ q' \in Queue /\ q'.writers = Append(q.writers, t)
      /\ q'.readers = q.readers /\ q'.size = q.size
  BY <1>1, <1>3, <1>4 DEF Queue
<1>6. DataOK'
  BY <1>1, <1>3, <1>5 DEF DataOK, At, Inside
<1>7. FreshOK'
  BY <1>1, UsedLemma
<1>8. PICK st \in State \ {"READY"} : st = "LWMSGQ_WRITE_BLOCKED"
  BY DEF State
<1>9. Sound(k') /\ k'.state = [k.state EXCEPT ![t] = st] /\ k'.timed = k.timed
  <2>1. PICK f : f = [Unlink(k, t, k.my[t]) EXCEPT !.state[t] = st]
    OBVIOUS
  <2>2. k' = Dispatch(f)
    BY <2>1, <1>8 DEF BlockOnFull
  <2>3. /\ Basic(f) /\ (f.ticking => f.isr > 0)
        /\ f.state = [k.state EXCEPT ![t] = st] /\ f.timed = k.timed
    BY <1>2, <2>1, ParkEffect DEF IInv
  <2> QED
    BY <2>2, <2>3, SoundDispatch
<1>10. WaitsOK'
  <2>1. Waiting(q.readers, q.writers, k.state, k.timed, at)
    BY DEF IInv, WaitsOK
  <2>2. Waiting(q.readers, Append(q.writers, t),
                [k.state EXCEPT ![t] = "LWMSGQ_WRITE_BLOCKED"],
                k.timed, [at EXCEPT ![t] = "writing"])
    BY <1>2, <1>3, <1>4, <2>1, EnterWritersLemma
  <2> QED
    BY <2>2, <1>1, <1>5, <1>8, <1>9 DEF WaitsOK
<1>11. WakesOK'
  <2>1. Wakes(q.readers, q.writers, q.size, at, k.state, k.timed, info)
    BY WakesLemma DEF IInv
  <2>2. Kept(t, at, k.state, k.timed, info, at', k'.state, k'.timed, info')
    BY <1>1, <1>2, <1>3, <1>9, AppTaskLemma DEF Kept, Counted
  <2>3. IsNot(t, "reading", at)
    BY <1>1 DEF IsNot
  <2>4. q.size \in 0 .. Capacity
    BY <1>3 DEF Queue
  <2>5. Wakes(q.readers, Append(q.writers, t), q.size, at', k'.state, k'.timed, info')
    BY <2>1, <2>2, <2>3, <2>4, <1>1, <1>2, WriterQueuesLemma
  <2> QED
    BY <2>5, <1>5, WakesLemma
<1>12. Sound(k)'
  BY <1>9, SoundPrime
<1> QED
  BY <1>6, <1>7, <1>10, <1>11, <1>12 DEF IInv

-----------------------------------------------------------------------------
(* Steps of the kernel.                                                     *)

\* Only the kernel changes, and with it no task or one that was blocked.
LEMMA KernelLemma ==
  ASSUME IInv, UNCHANGED <<q, at, buf, info, made>>,
         wait' \in [AppTask -> Patience], Sound(k'),
         Waiting(q.readers, q.writers, k'.state, k'.timed, at),
         \A v \in AppTask : k.state[v] = "READY" => k'.state[v] = "READY",
         \A v \in AppTask : ~k.timed[v] => ~k'.timed[v]
  PROVE  IInv'
<1>1. DataOK' /\ FreshOK'
  BY DEF IInv, DataOK, FreshOK
<1>2. Sound(k)'
  BY SoundPrime
<1>3. WaitsOK'
  BY DEF WaitsOK
<1>4. WakesOK'
  <2>1. Wakes(q.readers, q.writers, q.size, at, k.state, k.timed, info)
    BY WakesLemma DEF IInv
  <2>2. q.size \in 0 .. Capacity
    BY DEF IInv, DataOK, Queue
  <2>3. Wakes(q.readers, q.writers, q.size, at, k'.state, k'.timed, info)
    BY <2>1, <2>2, KeepLemma
  <2> QED
    BY <2>3, WakesLemma
<1> QED
  BY <1>1, <1>2, <1>3, <1>4 DEF IInv

LEMMA ReadyLemma ==
  ASSUME IInv,
         \/ \E t \in AppTask, u \in Writer : ReadySender(t, u)
         \/ \E u \in Writer : HandlerReady(u)
  PROVE  IInv'
<1>1. PICK u \in AppTask :
        /\ k.state[u] = "BLOCKED"
        /\ k' = TaskReady(k, u) \/ k' = PendScheduler(TaskReady(k, u))
  BY LwMsgQAssumption DEF ReadySender, HandlerReady
<1>2. UNCHANGED <<q, at, buf, wait, info, made>>
  BY DEF ReadySender, HandlerReady
<1>3. /\ Waiting(q.readers, q.writers, k.state, k.timed, at)
      /\ at \in [AppTask -> At] /\ wait \in [AppTask -> Patience]
      /\ Sound(k) /\ k.state \in [Task -> State] /\ k.timed \in [Task -> BOOLEAN]
  BY DEF IInv, DataOK, WaitsOK, Sound, Basic, Kernel
<1>4. /\ u \in Task /\ ~k.timed[u]
      /\ u \notin ToSet(q.readers) \cup ToSet(q.writers)
      /\ at[u] \in At /\ at[u] \notin {"reading", "writing"}
  BY <1>1, <1>3, AppTaskLemma DEF Waiting
<1>5. PICK e : e = TaskReady(k, u)
  OBVIOUS
<1>6. /\ Sound(e) /\ e.state = [k.state EXCEPT ![u] = "READY"]
      /\ e.timed = [k.timed EXCEPT ![u] = FALSE]
  BY <1>1, <1>3, <1>4, <1>5, SoundReady
<1>7. [k.timed EXCEPT ![u] = FALSE] = k.timed
  BY <1>3, <1>4
<1>8. /\ Sound(k') /\ k'.state = [k.state EXCEPT ![u] = "READY"]
      /\ k'.timed = k.timed
  <2>1. k' = e \/ k' = PendScheduler(e)
    BY <1>1, <1>5
  <2>2. Sound(k') /\ k'.state = e.state /\ k'.timed = e.timed
    BY <2>1, <1>6, SoundPend
  <2> QED
    BY <2>2, <1>6, <1>7
<1>9. Waiting(q.readers, q.writers, k'.state, k'.timed, at)
  <2>1. Waiting(q.readers, q.writers, [k.state EXCEPT ![u] = "READY"], k.timed,
                [at EXCEPT ![u] = at[u]])
    BY <1>3, <1>4, MoveLemma
  <2>2. [at EXCEPT ![u] = at[u]] = at
    BY <1>3
  <2>3. Waiting(q.readers, q.writers, [k.state EXCEPT ![u] = "READY"], k.timed, at)
    BY <2>1, <2>2
  <2> QED
    BY <1>8, <2>3
<1>10. \A v \in AppTask : k.state[v] = "READY" => k'.state[v] = "READY"
  BY <1>3, <1>8, AppTaskLemma
<1> QED
  BY <1>2, <1>3, <1>8, <1>9, <1>10, KernelLemma

LEMMA IsrLemma ==
  ASSUME IInv, EnterIsr \/ ReturnFromIsr \/ Tick \/ TickReturn \/ PendSV
  PROVE  IInv'
<1>1. UNCHANGED <<q, at, buf, info, made>>
  BY DEF EnterIsr, ReturnFromIsr, Tick, TickReturn, PendSV
<1>2. wait' \in [AppTask -> Patience]
  <2>1. wait \in [AppTask -> Patience]
    BY DEF IInv, DataOK
  <2>2. \A w \in Patience : [w EXCEPT !.elapsed = @ + 1] \in Patience
    BY DEF Patience
  <2> QED
    BY <2>1, <2>2 DEF EnterIsr, ReturnFromIsr, Tick, TickReturn, PendSV
<1>3. /\ Sound(k) /\ Basic(k) /\ (k.ticking => k.isr > 0)
      /\ Waiting(q.readers, q.writers, k.state, k.timed, at)
  BY DEF IInv, WaitsOK, Sound
<1>4. Sound(k') /\ k'.state = k.state /\ k'.timed = k.timed
  <2>1. CASE EnterIsr
    BY <2>1, <1>3, SoundIsr DEF EnterIsr
  <2>2. CASE ReturnFromIsr
    BY <2>2, <1>3, SoundIsr DEF ReturnFromIsr
  <2>3. CASE Tick
    BY <2>3, <1>3, SoundIsr DEF Tick
  <2>4. CASE TickReturn
    BY <2>4, <1>3, SoundIsr DEF TickReturn
  <2>5. CASE PendSV
    BY <2>5, <1>3, SoundDispatch DEF PendSV
  <2> QED
    BY <2>1, <2>2, <2>3, <2>4, <2>5
<1> QED
  BY <1>1, <1>2, <1>3, <1>4, KernelLemma

\* The tick readies a reader and takes it off WAITING_READERS.
LEMMA WakeDueLemma ==
  ASSUME IInv, WakeDue
  PROVE  IInv'
<1>1. PICK t : t = Head(k.timeouts)
  OBVIOUS
<1>2. /\ k.ticking /\ k.timeouts # <<>> /\ k' = TickWake(k)
      /\ q' = [q EXCEPT !.readers = Without(q.readers, t)]
      /\ UNCHANGED <<at, buf, wait, info, made>>
  BY <1>1 DEF WakeDue, Due
<1>3. /\ q \in Queue /\ Sound(k)
      /\ k.state \in [Task -> State] /\ k.timed \in [Task -> BOOLEAN]
      /\ Waiting(q.readers, q.writers, k.state, k.timed, at)
      /\ Inj(q.readers) /\ Inj(q.writers) /\ q.readers \in Seq(AppTask)
  BY DEF IInv, DataOK, Queue, WaitsOK, Waiting, Sound, Basic, Kernel
<1>4. /\ Sound(k') /\ t \in AppTask /\ k.timed[t]
      /\ k'.state = [k.state EXCEPT ![t] = "READY"]
      /\ k'.timed = [k.timed EXCEPT ![t] = FALSE]
  BY <1>1, <1>2, <1>3, SoundTickWake
<1>5. t \in ToSet(q.readers)
  BY <1>3, <1>4 DEF Waiting
<1>6. /\ Without(q.readers, t) \in Seq(AppTask) /\ Inj(Without(q.readers, t))
      /\ ToSet(Without(q.readers, t)) = ToSet(q.readers) \ {t}
  BY <1>3, <1>5, LeaveAppLemma
<1>7. /\ q' \in Queue /\ q'.readers = Without(q.readers, t)
      /\ q'.writers = q.writers /\ q'.size = q.size /\ q'.valid = q.valid
      /\ q.size \in 0 .. Capacity
  BY <1>2, <1>3, <1>6 DEF Queue
<1>8. DataOK'
  BY <1>2, <1>7 DEF IInv, DataOK
<1>9. Sound(k)'
  BY <1>4, SoundPrime
<1>10. q.readers # <<>>
  BY <1>5, EmptyLemma
<1>11. FreshOK'
  BY <1>2, <1>10 DEF IInv, FreshOK
<1>12. WaitsOK'
  <2>1. ToSet(q.writers) = ToSet(q.writers) \ {t}
    BY <1>3, <1>5 DEF Waiting
  <2>2. PICK rv : rv = Without(q.readers, t)
    OBVIOUS
  <2>3. Inj(rv) /\ ToSet(rv) = ToSet(q.readers) \ {t}
    BY <2>2, <1>6
  <2>4. PICK state \in [Task -> State], timed \in [Task -> BOOLEAN] :
          state = k.state /\ timed = k.timed
    BY <1>3
  <2>5. Waiting(q.readers, q.writers, state, timed, at)
    BY <1>3, <2>4
  <2>6. t \in ToSet(q.readers) \cup ToSet(q.writers) /\ t \in AppTask /\ Inj(q.writers)
    BY <1>3, <1>4, <1>5
  <2>7. Waiting(rv, q.writers, [state EXCEPT ![t] = "READY"],
                [timed EXCEPT ![t] = FALSE], at)
    BY <2>1, <2>3, <2>5, <2>6, WokenLemma
  <2> QED
    BY <2>2, <2>4, <2>7, <1>2, <1>4, <1>7 DEF WaitsOK
<1>13. WakesOK'
  <2>1. Wakes(q.readers, q.writers, q.size, at, k.state, k.timed, info)
    BY WakesLemma DEF IInv
  <2>2. \A v \in AppTask :
           at[v] \in {"reading", "writing"} /\ k.state[v] = "READY"
             /\ ~k.timed[v] /\ ~info[v] =>
               at[v] = at[v] /\ k'.state[v] = "READY" /\ ~k'.timed[v] /\ ~info[v]
    BY <1>3, <1>4, AppTaskLemma
  <2>3. Wakes(q'.readers, q'.writers, q.size, at, k'.state, k'.timed, info)
    BY <1>7, <1>10, <2>1, <2>2, KeepLemma
  <2> QED
    BY <2>3, <1>2, <1>7, WakesLemma
<1> QED
  BY <1>8, <1>9, <1>11, <1>12, <1>13 DEF IInv

LEMMA InitLemma == Init => IInv
<1> SUFFICES ASSUME Init PROVE IInv
  OBVIOUS
<1>1. /\ HomePriority \in [Task -> Prio] /\ AutoQueues \in [Prio -> Seq(Task)]
      /\ StartsWith(HomePriority, AutoQueues, {})
  BY LwMsgQAssumption DEF StartsWith, IsInjective, Inj
<1>2. Sound(k) /\ \A t \in Task : k.state[t] = "READY" /\ ~k.timed[t]
  BY <1>1, SoundStartAll DEF Init
<1>3. PICK m \in Message :
        /\ q = [valid |-> FALSE, slots |-> [i \in Slot |-> m], read |-> 0,
                write |-> 0, size |-> 0, readers |-> <<>>, writers |-> <<>>]
        /\ buf = [t \in AppTask |-> m]
  BY DEF Init
<1>4. /\ at = [t \in AppTask |-> "none"]
      /\ wait = [t \in AppTask |-> NoWait]
      /\ info = [t \in AppTask |-> FALSE]
      /\ made = 0
  BY DEF Init
<1>5. q.readers = <<>> /\ q.writers = <<>> /\ ~q.valid
  BY <1>3
<1>6. DataOK
  <2>1. 0 \in Slot /\ 0 \in 0 .. Capacity /\ 0 \in 0 .. MaxCreations
    BY LwMsgQAssumption DEF Slot
  <2>2. q \in Queue /\ buf \in [AppTask -> Message]
    BY <1>3, <2>1, EmptyLemma DEF Queue
  <2>3. wait \in [AppTask -> Patience] /\ info \in [AppTask -> BOOLEAN]
    BY <1>4 DEF NoWait, Patience
  <2>4. at \in [AppTask -> At]
    BY <1>4 DEF At, Outcome
  <2> QED
    BY <1>4, <2>1, <2>2, <2>3, <2>4 DEF DataOK
<1>7. WaitsOK
  <2>1. \A t \in AppTask : k.state[t] = "READY" /\ ~k.timed[t] /\ at[t] = "none"
    BY <1>2, <1>4, AppTaskLemma
  <2> QED
    BY <1>5, <2>1, EmptyLemma DEF WaitsOK, Waiting
<1>8. FreshOK
  BY <1>4, <1>5 DEF FreshOK, Inside
<1>9. WakesOK
  BY <1>5 DEF WakesOK, NoLostWake
<1> QED
  BY <1>2, <1>6, <1>7, <1>8, <1>9 DEF IInv

LEMMA TaskStepLemma ==
  ASSUME CreatedOnce, IInv, NEW t \in AppTask, TaskStep(t)
  PROVE  IInv'
<1>1. CASE Create(t)
  BY <1>1, CreateLemma
<1>2. CASE \/ Refuse(t) \/ FindEmpty(t) \/ ReadTimeout(t) \/ Released(t)
           \/ \E m \in Message : FindFull(t, m)
  BY <1>2, OutcomeLemma
<1>3. CASE Take(t)
  BY <1>3, TakeLemma
<1>4. CASE \/ ReadAgain(t) \/ BlockOnEmpty(t, NoWait)
           \/ \E u \in {"for", "time"}, d \in Ticks :
                BlockOnEmpty(t, [until |-> u, ticks |-> d, elapsed |-> 0])
  BY <1>4, AwaitStepLemma
<1>5. CASE \E m \in Message : Send(t, m) \/ SendAndBlock(t, m)
  BY <1>5, SendLemma
<1>6. CASE \E m \in Message : BlockOnFull(t, m)
  BY <1>6, BlockOnFullLemma
<1>7. CASE \E u \in Writer : ReadySender(t, u)
  BY <1>7, ReadyLemma
<1> QED
  BY <1>1, <1>2, <1>3, <1>4, <1>5, <1>6, <1>7 DEF TaskStep

LEMMA NextLemma ==
  ASSUME CreatedOnce, IInv, [Next]_vars
  PROVE  IInv'
<1>1. CASE UNCHANGED vars
  BY <1>1 DEF vars, IInv, DataOK, Sound, Basic, Agree, NoneAbove, IsReady,
              WaitsOK, FreshOK, WakesOK, NoLostWake, OnTheWay
<1>2. CASE \E t \in AppTask : TaskStep(t)
  BY <1>2, TaskStepLemma
<1>3. CASE IsrStep \/ PendSV
  BY <1>3, IsrLemma, WakeDueLemma, HandlerSendLemma, ReadyLemma DEF IsrStep
<1> QED
  BY <1>1, <1>2, <1>3 DEF Next

LEMMA Inductive ==
  ASSUME CreatedOnce
  PROVE  Spec => []IInv
<1>1. Init => IInv
  BY InitLemma
<1>2. IInv /\ [Next]_vars => IInv'
  BY NextLemma
<1> QED
  BY <1>1, <1>2, PTL DEF Spec

-----------------------------------------------------------------------------

\* The waiting queues, TD.STATE and the kernel's queues agree through every
\* wake, timeout and new round of _lwmsgq_receive and _lwmsgq_send
\* (lwmsgq.c): whoever waits is on one queue, and nobody else is.
THEOREM QueuesAndTasksAgree == ASSUME CreatedOnce PROVE Spec => []WaitersAgree
<1>1. IInv => WaitersAgree
  <2> SUFFICES ASSUME IInv PROVE WaitersAgree
    OBVIOUS
  <2>1. DataOK /\ Sound(k) /\ WaitsOK
    BY DEF IInv
  <2>2. k \in Kernel /\ Agree(k, {}) /\ NoneAbove(k)
    BY <2>1 DEF Sound, Basic
  <2>3. TypeOK
    BY <2>1, <2>2 DEF DataOK, TypeOK
  <2>4. QueuesAgree(k)
    BY <2>2, AgreeLemma
  <2>5. IsInjective(q.readers) /\ IsInjective(q.writers)
    <3>1. \A s \in Seq(AppTask) : Inj(s) => IsInjective(s)
      BY DEF Inj, IsInjective
    <3>2. q.readers \in Seq(AppTask) /\ q.writers \in Seq(AppTask)
      BY <2>1 DEF DataOK, Queue
    <3> QED
      BY <2>1, <3>1, <3>2 DEF WaitsOK, Waiting
  <2> QED
    BY <2>1, <2>2, <2>3, <2>4, <2>5 DEF WaitersAgree, WaitsOK, Waiting, InState, IsReady
<1> QED
  BY <1>1, Inductive, PTL

\* A send wakes one reader and a receive one writer, whoever is faster: while
\* somebody waits there are as many woken tasks on their way as there are
\* messages, or free slots, for them.
THEOREM NoWakeLost == ASSUME CreatedOnce, Finite PROVE Spec => []NoLostWake
<1>1. IInv => NoLostWake
  BY DEF IInv, WakesOK
<1> QED
  BY <1>1, Inductive, PTL

-----------------------------------------------------------------------------
(* The ring is the channel of module Channel.                               *)

\* One step beyond the end of the ring begins it again.
Wrap(a) == IF a < Capacity THEN a ELSE a - Capacity

LEMMA WrapLemma ==
  /\ \A a \in 0 .. 2 * Capacity - 1 : a % Capacity = Wrap(a)
  /\ \A i \in Slot : After(i) = Wrap(i + 1)
<1>1. Capacity \in Nat \ {0}
  BY LwMsgQAssumption
<1>2. \A a \in 0 .. Capacity - 1 : a % Capacity = a
  BY <1>1, Z3
<1>3. \A a \in Capacity .. 2 * Capacity - 1 : a % Capacity = a - Capacity
  BY <1>1, Z3
<1>4. \A a \in 0 .. 2 * Capacity - 1 :
        a \in 0 .. Capacity - 1 \/ (a \in Capacity .. 2 * Capacity - 1 /\ ~(a < Capacity))
  BY <1>1
<1>5. \A i \in Slot : After(i) = Wrap(i + 1)
  BY <1>1 DEF Slot, After, Wrap
<1>6. \A a \in 0 .. Capacity - 1 : a < Capacity
  BY <1>1
<1> QED
  BY <1>2, <1>3, <1>4, <1>5, <1>6 DEF Wrap

\* The messages of a ring, the oldest first.
Items(slots, read, n) == [i \in 1 .. n |-> slots[Wrap(read + i - 1)]]

LEMMA ItemsLemma ==
  ASSUME NEW r \in Queue
  PROVE  [i \in 1 .. r.size |-> r.slots[(r.read + i - 1) % Capacity]]
           = Items(r.slots, r.read, r.size)
<1>1. r.size \in 0 .. Capacity /\ r.read \in Slot
  BY DEF Queue
<1>2. \A i \in 1 .. r.size : r.read + i - 1 \in 0 .. 2 * Capacity - 1
  BY <1>1, LwMsgQAssumption DEF Slot
<1>3. \A i \in 1 .. r.size : (r.read + i - 1) % Capacity = Wrap(r.read + i - 1)
  BY <1>2, WrapLemma
<1> QED
  BY <1>3 DEF Items

LEMMA ItemsTypeLemma ==
  ASSUME NEW slots \in [Slot -> Message], NEW read \in Slot,
         NEW n \in 0 .. Capacity
  PROVE  /\ Items(slots, read, n) \in Seq(Message)
         /\ Len(Items(slots, read, n)) = n
         /\ n = 0 <=> Items(slots, read, n) = <<>>
         /\ \A i \in 1 .. n : Items(slots, read, n)[i] = slots[Wrap(read + i - 1)]
<1>1. \A i \in 1 .. n : Wrap(read + i - 1) \in Slot
  BY LwMsgQAssumption DEF Slot, Wrap
<1>2. n \in Nat
  BY LwMsgQAssumption
<1>3. Items(slots, read, n) \in [1 .. n -> Message]
  BY <1>1 DEF Items
<1>4. Items(slots, read, n) \in Seq(Message) /\ Len(Items(slots, read, n)) = n
  BY <1>2, <1>3
<1>5. \A i \in 1 .. n : Items(slots, read, n)[i] = slots[Wrap(read + i - 1)]
  BY DEF Items
<1> QED
  BY <1>4, <1>5

\* A message is stored behind the last one.
LEMMA StoreLemma ==
  ASSUME NEW slots \in [Slot -> Message], NEW read \in Slot,
         NEW n \in 0 .. Capacity - 1, NEW m \in Message
  PROVE  Items([slots EXCEPT ![Wrap(read + n)] = m], read, n + 1)
           = Append(Items(slots, read, n), m)
<1> DEFINE w == Wrap(read + n)
           now == [slots EXCEPT ![w] = m]
           old == Items(slots, read, n)
           new == Items(now, read, n + 1)
<1>1. /\ n \in 0 .. Capacity /\ n + 1 \in 0 .. Capacity
      /\ w \in Slot /\ now \in [Slot -> Message]
      /\ n \in Nat /\ n + 1 \in Nat
  BY LwMsgQAssumption DEF Slot, Wrap
<1>2. /\ now[w] = m
      /\ \A j \in Slot \ {w} : now[j] = slots[j]
  BY <1>1
<1>3. \A i \in 1 .. n : Wrap(read + i - 1) \in Slot \ {w}
  BY LwMsgQAssumption DEF Slot, Wrap
<1> HIDE DEF now
<1>4. /\ old \in Seq(Message) /\ Len(old) = n
      /\ \A i \in 1 .. n : old[i] = slots[Wrap(read + i - 1)]
  BY <1>1, ItemsTypeLemma
<1>5. /\ new \in Seq(Message) /\ Len(new) = n + 1
      /\ \A i \in 1 .. n + 1 : new[i] = now[Wrap(read + i - 1)]
  BY <1>1, ItemsTypeLemma
<1>6. w = Wrap(read + (n + 1) - 1)
  BY <1>1 DEF Slot
<1> HIDE DEF w, old, new
<1>7. new[n + 1] = m
  BY <1>1, <1>2, <1>5, <1>6
<1>8. \A i \in 1 .. n : new[i] = old[i]
  BY <1>1, <1>2, <1>3, <1>4, <1>5
<1>9. /\ Append(old, m) \in Seq(Message) /\ Len(Append(old, m)) = n + 1
      /\ Append(old, m)[n + 1] = m
      /\ \A i \in 1 .. n : Append(old, m)[i] = old[i]
  BY <1>1, <1>4
<1>10. \A i \in 1 .. n + 1 : new[i] = Append(old, m)[i]
  BY <1>1, <1>7, <1>8, <1>9
<1>11. new = Append(old, m)
  BY <1>5, <1>9, <1>10, SeqEqual
<1> QED
  BY <1>11 DEF new, old, now, w

\* The oldest message goes first.
LEMMA FetchLemma ==
  ASSUME NEW slots \in [Slot -> Message], NEW read \in Slot,
         NEW n \in 1 .. Capacity
  PROVE  /\ Items(slots, After(read), n - 1) = Tail(Items(slots, read, n))
         /\ Head(Items(slots, read, n)) = slots[read]
<1> DEFINE next == After(read)
           old == Items(slots, read, n)
           new == Items(slots, next, n - 1)
<1>1. /\ n \in 0 .. Capacity /\ n - 1 \in 0 .. Capacity
      /\ n \in Nat /\ n - 1 \in Nat
      /\ next \in Slot
  BY LwMsgQAssumption DEF Slot, After
<1>2. /\ old \in Seq(Message) /\ Len(old) = n
      /\ \A i \in 1 .. n : old[i] = slots[Wrap(read + i - 1)]
  BY <1>1, ItemsTypeLemma
<1>3. /\ new \in Seq(Message) /\ Len(new) = n - 1
      /\ \A i \in 1 .. n - 1 : new[i] = slots[Wrap(next + i - 1)]
  BY <1>1, ItemsTypeLemma
<1>4. \A i \in 1 .. n - 1 : Wrap(next + i - 1) = Wrap(read + (i + 1) - 1)
  BY LwMsgQAssumption DEF Slot, After, Wrap
<1>5. read = Wrap(read + 1 - 1)
  BY LwMsgQAssumption DEF Slot, Wrap
<1> HIDE DEF next, old, new
<1>6. /\ old # <<>>
      /\ Head(old) = slots[read]
  BY <1>1, <1>2, <1>5
<1>7. /\ Tail(old) \in Seq(Message) /\ Len(Tail(old)) = n - 1
      /\ \A i \in 1 .. n - 1 : Tail(old)[i] = old[i + 1]
  BY <1>1, <1>2, <1>6
<1>8. ASSUME NEW i \in 1 .. n - 1
      PROVE  new[i] = Tail(old)[i]
  <2>1. i + 1 \in 1 .. n
    BY <1>1
  <2>2. old[i + 1] = slots[Wrap(read + (i + 1) - 1)]
    BY <1>2, <2>1
  <2> QED
    BY <1>3, <1>4, <1>7, <2>2
<1>9. new = Tail(old)
  BY <1>3, <1>7, <1>8, SeqEqual
<1> QED
  BY <1>6, <1>9 DEF next, old, new

\* MSG_WRITE_LOC is where the messages end.
RingOK == q.write = Wrap(q.read + q.size)
RInv   == IInv /\ RingOK

AbstractStep == [Abstract!Next]_(Abstract!vars)

LEMMA ContentLemma ==
  ASSUME IInv, IInv'
  PROVE  /\ Content = Items(q.slots, q.read, q.size)
         /\ Content' = Items(q'.slots, q'.read, q'.size)
         /\ Len(Content) = q.size
         /\ Content = <<>> <=> q.size = 0
<1>1. q \in Queue /\ q' \in Queue
  BY DEF IInv, DataOK
<1>2. /\ Content = Items(q.slots, q.read, q.size)
      /\ Content' = Items(q'.slots, q'.read, q'.size)
  BY <1>1, ItemsLemma DEF Content
<1>3. q.slots \in [Slot -> Message] /\ q.read \in Slot /\ q.size \in 0 .. Capacity
  BY <1>1 DEF Queue
<1> QED
  BY <1>2, <1>3, ItemsTypeLemma

\* A step that leaves the ring alone.
LEMMA RingStaysLemma ==
  ASSUME RInv, IInv', q'.slots = q.slots, q'.read = q.read,
         q'.write = q.write, q'.size = q.size
  PROVE  Content' = Content /\ RingOK'
BY ContentLemma DEF RInv, RingOK

LEMMA StoredLemma ==
  ASSUME RInv, IInv', NEW m \in Message, Put(m)
  PROVE  /\ Content' = Append(Content, m) /\ Len(Content) < Capacity
         /\ q'.valid = q.valid /\ RingOK'
<1>1. /\ q \in Queue /\ q.size < Capacity
      /\ q.slots \in [Slot -> Message] /\ q.read \in Slot
      /\ q.write \in Slot /\ q.size \in 0 .. Capacity
      /\ q.write = Wrap(q.read + q.size)
  BY DEF RInv, RingOK, IInv, DataOK, Queue, Put
<1>2. PICK n \in 0 .. Capacity - 1 : n = q.size
  BY <1>1, LwMsgQAssumption
<1>3. /\ q'.slots = [q.slots EXCEPT ![q.write] = m]
      /\ q'.read = q.read /\ q'.write = After(q.write)
      /\ q'.size = n + 1 /\ q'.valid = q.valid
  BY <1>1, <1>2 DEF Put, Stored, Queue
<1>4. Content' = Append(Content, m) /\ Len(Content) < Capacity
  <2>1. Items([q.slots EXCEPT ![Wrap(q.read + n)] = m], q.read, n + 1)
          = Append(Items(q.slots, q.read, n), m)
    BY <1>1, StoreLemma
  <2>2. q.write = Wrap(q.read + n)
    BY <1>1, <1>2
  <2>3. /\ Content = Items(q.slots, q.read, q.size)
        /\ Content' = Items(q'.slots, q'.read, q'.size)
        /\ Len(Content) = q.size
    BY ContentLemma DEF RInv
  <2> QED
    BY <1>1, <1>2, <1>3, <2>1, <2>2, <2>3
<1>5. RingOK'
  <2>1. q'.write = Wrap(q.write + 1)
    BY <1>1, <1>3, WrapLemma
  <2>2. Wrap(Wrap(q.read + n) + 1) = Wrap(q.read + (n + 1))
    BY <1>1, LwMsgQAssumption DEF Slot, Wrap
  <2> QED
    BY <1>1, <1>2, <1>3, <2>1, <2>2 DEF RingOK
<1> QED
  BY <1>3, <1>4, <1>5

LEMMA TakeRefines ==
  ASSUME RInv, IInv', NEW t \in AppTask, Take(t)
  PROVE  AbstractStep /\ RingOK'
<1>1. /\ q \in Queue /\ q.size > 0
      /\ q.slots \in [Slot -> Message] /\ q.read \in Slot
      /\ q.write \in Slot /\ q.size \in 0 .. Capacity
      /\ q.write = Wrap(q.read + q.size)
      /\ (at[t] \in Outcome /\ q.valid) \/ at[t] = "reading"
      /\ buf' = [buf EXCEPT ![t] = q.slots[q.read]]
      /\ at' = [at EXCEPT ![t] = "received"]
  BY DEF RInv, RingOK, IInv, DataOK, Queue, Take, MayTake, Starts, Settle
<1>2. PICK n \in 1 .. Capacity : n = q.size
  BY <1>1, LwMsgQAssumption
<1>3. /\ q'.slots = q.slots /\ q'.read = After(q.read) /\ q'.write = q.write
      /\ q'.size = n - 1 /\ q'.valid = q.valid
  BY <1>1, <1>2 DEF Take, Taken, Queue
<1>4. /\ Content' = Tail(Content) /\ Head(Content) = q.slots[q.read]
      /\ Content # <<>>
  BY <1>1, <1>2, <1>3, ContentLemma, FetchLemma DEF RInv
<1>5. RingOK'
  <2>1. Capacity \in Nat \ {0}
    BY LwMsgQAssumption
  <2>2. PICK r \in 0 .. Capacity - 1 : r = q.read
    BY <1>1 DEF Slot
  <2>3. Wrap(r + n) = Wrap(After(r) + (n - 1))
    BY <2>1 DEF Wrap, After
  <2> QED
    BY <1>1, <1>2, <1>3, <2>2, <2>3 DEF RingOK
<1>6. Abstract!Receive(t)
  BY <1>1, <1>3, <1>4 DEF Abstract!Receive, Abstract!Resting, Abstract!Outcome,
     Abstract!Settle, Outcome
<1> QED
  BY <1>5, <1>6 DEF AbstractStep, Abstract!Next

LEMMA SendRefines ==
  ASSUME RInv, IInv', NEW t \in AppTask, NEW m \in Message,
         Send(t, m) \/ SendAndBlock(t, m)
  PROVE  AbstractStep /\ RingOK'
<1>1. /\ (at[t] \in Outcome /\ q.valid) \/ (at[t] = "writing" /\ buf[t] = m)
      /\ buf' = [buf EXCEPT ![t] = m]
      /\ Put(m)
      /\ at' = [at EXCEPT ![t] = "sent"] \/ at' = [at EXCEPT ![t] = "sending"]
  BY DEF Send, SendAndBlock, Sends, Starts, Settle
<1>2. /\ Content' = Append(Content, m) /\ Len(Content) < Capacity
      /\ q'.valid = q.valid /\ RingOK'
  BY <1>1, StoredLemma
<1>3. Abstract!Send(t, m)
  BY <1>1, <1>2 DEF Abstract!Send, Abstract!Offers, Abstract!Resting,
     Abstract!Outcome, Abstract!Settle, Outcome
<1> QED
  BY <1>2, <1>3 DEF AbstractStep, Abstract!Next

\* Everything else a task does leaves the ring alone, but for the creation.
LEMMA CallRefines ==
  ASSUME RInv, IInv', NEW t \in AppTask,
         \/ Refuse(t) \/ FindEmpty(t) \/ ReadTimeout(t) \/ Released(t)
         \/ \E m \in Message : FindFull(t, m) \/ BlockOnFull(t, m)
         \/ ReadAgain(t) \/ \E w \in Patience : BlockOnEmpty(t, w)
         \/ \E u \in Writer : ReadySender(t, u)
  PROVE  AbstractStep /\ RingOK'
<1>1. /\ q \in Queue /\ q' \in Queue
  BY DEF RInv, IInv, DataOK
<1>2. /\ q'.slots = q.slots /\ q'.read = q.read
      /\ q'.write = q.write /\ q'.size = q.size /\ q'.valid = q.valid
  BY <1>1 DEF Queue, Refuse, FindEmpty, ReadTimeout, Released, FindFull, BlockOnFull,
     ReadAgain, BlockOnEmpty, AwaitMessage, ReadySender
<1>3. Content' = Content /\ RingOK'
  BY <1>2, RingStaysLemma
<1>4. /\ Content = <<>> <=> q.size = 0
      /\ Len(Content) = q.size
  BY ContentLemma DEF RInv
<1>5. CASE Refuse(t)
  <2>1. Abstract!Refuse(t)
    BY <1>3, <1>5 DEF Refuse, Starts, Settle, Outcome, Abstract!Refuse,
       Abstract!Resting, Abstract!Outcome, Abstract!Settle
  <2> QED
    BY <1>3, <2>1 DEF AbstractStep, Abstract!Next
<1>6. CASE FindEmpty(t) \/ ReadAgain(t) \/ \E w \in Patience : BlockOnEmpty(t, w)
  <2>1. Abstract!AwaitMessage(t)
    BY <1>2, <1>3, <1>4, <1>6 DEF FindEmpty, ReadAgain, BlockOnEmpty, AwaitMessage,
       Starts, Settle, Outcome, Abstract!AwaitMessage, Abstract!Resting,
       Abstract!Outcome, Abstract!Settle
  <2> QED
    BY <1>3, <2>1 DEF AbstractStep, Abstract!Next
<1>7. CASE ReadTimeout(t)
  <2>1. Abstract!GiveUp(t)
    BY <1>3, <1>7 DEF ReadTimeout, Settle, Abstract!GiveUp, Abstract!Settle
  <2> QED
    BY <1>3, <2>1 DEF AbstractStep, Abstract!Next
<1>8. CASE Released(t)
  <2>1. Abstract!Released(t)
    BY <1>3, <1>8 DEF Released, Settle, Abstract!Released, Abstract!Settle
  <2> QED
    BY <1>3, <2>1 DEF AbstractStep, Abstract!Next
<1>9. ASSUME NEW m \in Message, FindFull(t, m) \/ BlockOnFull(t, m)
      PROVE  AbstractStep
  <2>1. Abstract!AwaitSpace(t, m)
    BY <1>2, <1>3, <1>4, <1>9 DEF FindFull, BlockOnFull, Sends, Starts, Settle,
       Outcome, Abstract!AwaitSpace, Abstract!Offers, Abstract!Resting,
       Abstract!Outcome, Abstract!Settle
  <2> QED
    BY <2>1 DEF AbstractStep, Abstract!Next
<1>10. CASE \E u \in Writer : ReadySender(t, u)
  <2>1. UNCHANGED <<q.valid, Content, buf, at>>
    BY <1>2, <1>3, <1>10 DEF ReadySender
  <2> QED
    BY <1>3, <2>1 DEF AbstractStep, Abstract!vars
<1> QED
  BY <1>3, <1>5, <1>6, <1>7, <1>8, <1>9, <1>10

LEMMA CreateRefines ==
  ASSUME CreatedOnce, RInv, IInv', NEW t \in AppTask, Create(t)
  PROVE  AbstractStep /\ RingOK'
<1>1. made = 0 /\ ~q.valid
  BY LwMsgQAssumption DEF RInv, IInv, DataOK, FreshOK, CreatedOnce, Create
<1>2. q \in Queue /\ q' \in Queue
  BY DEF RInv, IInv, DataOK
<1>3. /\ q'.valid = TRUE /\ q'.read = 0 /\ q'.write = 0 /\ q'.size = 0
      /\ buf' = buf /\ at' = at
  BY <1>2 DEF Create, Queue
<1>4. Content' = <<>>
  <2>1. /\ q'.slots \in [Slot -> Message] /\ q'.read \in Slot
        /\ q'.size \in 0 .. Capacity /\ q'.size = 0
    BY <1>2, <1>3 DEF Queue
  <2> QED
    BY <2>1, ContentLemma, ItemsTypeLemma DEF RInv
<1>5. RingOK'
  BY <1>3, LwMsgQAssumption DEF RingOK, Wrap
<1>6. Abstract!Open
  BY <1>1, <1>3, <1>4 DEF Abstract!Open
<1> QED
  BY <1>5, <1>6 DEF AbstractStep, Abstract!Next

LEMMA IsrRefines ==
  ASSUME RInv, IInv', IsrStep \/ PendSV \/ UNCHANGED vars
  PROVE  AbstractStep /\ RingOK'
<1>1. q \in Queue /\ q' \in Queue
  BY DEF RInv, IInv, DataOK
<1>2. CASE \E m \in Message : HandlerSend(m)
  <2>1. PICK m \in Message : HandlerSend(m)
    BY <1>2
  <2>2. q.valid /\ Put(m) /\ at' = at /\ buf' = buf
    BY <2>1 DEF HandlerSend
  <2>3. /\ Content' = Append(Content, m) /\ Len(Content) < Capacity
        /\ q'.valid = q.valid /\ RingOK'
    BY <2>2, StoredLemma
  <2>4. Abstract!HandlerSend(m)
    BY <2>2, <2>3 DEF Abstract!HandlerSend
  <2> QED
    BY <2>3, <2>4 DEF AbstractStep, Abstract!Next
<1>3. CASE \/ EnterIsr \/ ReturnFromIsr \/ Tick \/ WakeDue \/ TickReturn
           \/ \E u \in Writer : HandlerReady(u)
           \/ PendSV \/ UNCHANGED vars
  <2>1. /\ q'.slots = q.slots /\ q'.read = q.read
        /\ q'.write = q.write /\ q'.size = q.size /\ q'.valid = q.valid
        /\ at' = at /\ buf' = buf
    BY <1>1, <1>3 DEF Queue, EnterIsr, ReturnFromIsr, Tick, WakeDue, TickReturn,
       HandlerReady, PendSV, vars
  <2>2. Content' = Content /\ RingOK'
    BY <2>1, RingStaysLemma
  <2> QED
    BY <2>1, <2>2 DEF AbstractStep, Abstract!vars
<1> QED
  BY <1>2, <1>3 DEF IsrStep

\* Whoever is woken in vain, times out in the moment of a send or is switched
\* out in the middle of a call: the messages a queue that is created once
\* delivers are those that were sent, in their order, and what the calls
\* return about it is true (_lwmsgq_send and _lwmsgq_receive of lwmsgq.c).
THEOREM Implements == ASSUME CreatedOnce PROVE Spec => ImplementsChannel
<1>1. Init => RInv /\ Abstract!Init
  <2> SUFFICES ASSUME Init PROVE RInv /\ Abstract!Init
    OBVIOUS
  <2>1. IInv
    BY InitLemma
  <2>2. q.read = 0 /\ q.write = 0 /\ q.size = 0 /\ ~q.valid
    BY DEF Init
  <2>3. RingOK
    BY <2>2, LwMsgQAssumption DEF RingOK, Wrap
  <2>4. q.valid = FALSE /\ buf \in [AppTask -> Message] /\ q \in Queue
    BY <2>1, <2>2 DEF IInv, DataOK, Queue
  <2>5. Content = <<>>
    BY <2>2 DEF Content
  <2>6. at = [t \in AppTask |-> "none"]
    BY DEF Init
  <2> QED
    BY <2>1, <2>3, <2>4, <2>5, <2>6 DEF RInv, Abstract!Init
<1>2. RInv /\ [Next]_vars => RInv' /\ [Abstract!Next]_(Abstract!vars)
  <2> SUFFICES ASSUME RInv, [Next]_vars
               PROVE  RInv' /\ [Abstract!Next]_(Abstract!vars)
    OBVIOUS
  <2>1. IInv'
    BY NextLemma DEF RInv
  <2>2. ASSUME NEW t \in AppTask, TaskStep(t)
        PROVE  AbstractStep /\ RingOK'
    <3>1. CASE Create(t)
      BY <3>1, <2>1, CreateRefines
    <3>2. CASE Take(t)
      BY <3>2, <2>1, TakeRefines
    <3>3. CASE \E m \in Message : Send(t, m) \/ SendAndBlock(t, m)
      BY <3>3, <2>1, SendRefines
    <3>4. NoWait \in Patience
      BY DEF NoWait, Patience
    <3>5. \A u \in {"for", "time"}, d \in Ticks :
            [until |-> u, ticks |-> d, elapsed |-> 0] \in Patience
      BY LwMsgQAssumption DEF Patience
    <3> QED
      BY <2>1, <2>2, <3>1, <3>2, <3>3, <3>4, <3>5, CallRefines DEF TaskStep
  <2>3. AbstractStep /\ RingOK'
    BY <2>1, <2>2, IsrRefines DEF Next
  <2> QED
    BY <2>1, <2>3 DEF RInv, AbstractStep
<1> QED
  BY <1>1, <1>2, PTL DEF Spec, ImplementsChannel, Abstract!Spec
=============================================================================
