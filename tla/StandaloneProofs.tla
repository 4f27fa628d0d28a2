-------------------------- MODULE StandaloneProofs --------------------------
(***************************************************************************)
(* The proofs about the components of the kernel that use none of its      *)
(* queues: lightweight timers (LwTimer) and lightweight memory pools       *)
(* (LwMem).  The two share no name, so one module can extend both.         *)
(*                                                                         *)
(* Timers.  For every set of timers, every period and whatever the task    *)
(* and the functions call, and in any order: the queue stays sorted, the   *)
(* handler calls no cancelled timer, every timer at its offset and once a  *)
(* period, and none is passed over.                                        *)
(*                                                                         *)
(* The inductive invariant says how far the handler has come: the timers   *)
(* up to TIMER_PTR have been called in this period or are new, those       *)
(* behind it have not been called and are not overdue unless they came     *)
(* late, and the link the handler goes on from leads behind TIMER_PTR.     *)
(***************************************************************************)
EXTENDS LwTimer, LwMem, TLAPS, SequenceTheorems, FiniteSetTheorems,
        WellFoundedInduction

Inj(s) == \A i, j \in 1 .. Len(s) : s[i] = s[j] => i = j

LEMMA InjLemma ==
  \A s \in Seq(Timer) : IsInjective(s) <=> Inj(s)
BY DEF IsInjective, Inj

\* What removing position i leaves.
LEMMA RemoveAtLemma ==
  ASSUME NEW s \in Seq(Timer), NEW i \in 1 .. Len(s)
  PROVE  /\ RemoveAt(s, i) \in Seq(Timer)
         /\ Len(RemoveAt(s, i)) = Len(s) - 1
         /\ \A j \in 1 .. Len(s) - 1 :
              RemoveAt(s, i)[j] = IF j < i THEN s[j] ELSE s[j + 1]
<1> DEFINE a == SubSeq(s, 1, i - 1)
           b == SubSeq(s, i + 1, Len(s))
           r == RemoveAt(s, i)
<1>1. /\ a \in Seq(Timer) /\ Len(a) = i - 1
      /\ \A j \in 1 .. i - 1 : a[j] = s[j]
  BY SubSeqProperties
<1>2. /\ b \in Seq(Timer) /\ Len(b) = Len(s) - i
      /\ \A j \in 1 .. Len(s) - i : b[j] = s[i + j]
  BY SubSeqProperties
<1>6. i \in Nat /\ Len(s) \in Nat /\ i >= 1 /\ i <= Len(s)
  OBVIOUS
<1>0. r = a \o b
  BY DEF RemoveAt
<1> HIDE DEF a, b, r
<1>3. /\ r \in Seq(Timer) /\ Len(r) = Len(s) - 1
      /\ \A j \in 1 .. Len(s) - 1 :
           r[j] = IF j <= i - 1 THEN a[j] ELSE b[j - (i - 1)]
  <2>1. /\ r \in Seq(Timer) /\ Len(r) = Len(a) + Len(b)
        /\ \A j \in 1 .. Len(a) + Len(b) :
             r[j] = IF j <= Len(a) THEN a[j] ELSE b[j - Len(a)]
    BY <1>0, <1>1, <1>2, ConcatProperties, Zenon
  <2>2. Len(a) + Len(b) = Len(s) - 1
    BY <1>6, <1>1, <1>2
  <2> QED
    BY <1>1, <2>1, <2>2
<1>4. ASSUME NEW j \in 1 .. Len(s) - 1
      PROVE  r[j] = IF j < i THEN s[j] ELSE s[j + 1]
  <2>1. CASE j < i
    BY <1>6, <1>1, <1>3, <2>1
  <2>2. CASE j >= i
    <3>1. j - (i - 1) = j - i + 1 /\ j - i + 1 \in 1 .. Len(s) - i /\ ~(j <= i - 1)
      BY <1>6, <2>2
    <3>2. r[j] = b[j - (i - 1)]
      BY <1>3, <3>1
    <3>3. b[j - i + 1] = s[i + (j - i + 1)] /\ i + (j - i + 1) = j + 1
      BY <1>2, <1>6, <3>1
    <3> QED
      BY <2>2, <3>1, <3>2, <3>3
  <2> QED
    BY <2>1, <2>2
<1> QED
  BY <1>3, <1>4 DEF r

\* Placing t before position i.
LEMMA InsertAtLemma ==
  ASSUME NEW s \in Seq(Timer), Inj(s), NEW t \in Timer, t \notin ToSet(s),
         NEW i \in 1 .. Len(s) + 1
  PROVE  /\ InsertAt(s, i, t) \in Seq(Timer)
         /\ Len(InsertAt(s, i, t)) = Len(s) + 1
         /\ \A j \in 1 .. Len(s) + 1 : InsertAt(s, i, t)[j] =
              IF j < i THEN s[j] ELSE IF j = i THEN t ELSE s[j - 1]
         /\ Inj(InsertAt(s, i, t))
         /\ ToSet(InsertAt(s, i, t)) = ToSet(s) \cup {t}
<1> DEFINE a == SubSeq(s, 1, i - 1)
           b == SubSeq(s, i, Len(s))
           r == InsertAt(s, i, t)
<1>1. /\ a \in Seq(Timer) /\ Len(a) = i - 1
      /\ \A j \in 1 .. i - 1 : a[j] = s[j]
  BY SubSeqProperties
<1>2. /\ b \in Seq(Timer) /\ Len(b) = Len(s) - i + 1
      /\ \A j \in 1 .. Len(s) - i + 1 : b[j] = s[i + j - 1]
  BY SubSeqProperties
<1>3. r = (a \o <<t>>) \o b
  BY DEF InsertAt
<1> HIDE DEF a, b, r
<1>4. /\ a \o <<t>> \in Seq(Timer) /\ Len(a \o <<t>>) = i
      /\ \A j \in 1 .. i : (a \o <<t>>)[j] = IF j < i THEN s[j] ELSE t
  BY <1>1, ConcatProperties
<1>5. /\ r \in Seq(Timer) /\ Len(r) = Len(s) + 1
      /\ \A j \in 1 .. Len(s) + 1 :
           r[j] = IF j <= i THEN (a \o <<t>>)[j] ELSE b[j - i]
  BY <1>2, <1>3, <1>4, ConcatProperties
<1>6. \A j \in 1 .. Len(s) + 1 :
        r[j] = IF j < i THEN s[j] ELSE IF j = i THEN t ELSE s[j - 1]
  <2> TAKE j \in 1 .. Len(s) + 1
  <2>1. CASE j <= i
    BY <1>4, <1>5, <2>1
  <2>2. CASE j > i
    <3>1. r[j] = b[j - i] /\ j - i \in 1 .. Len(s) - i + 1
      BY <1>5, <2>2
    <3> QED
      BY <1>2, <2>2, <3>1
  <2> QED
    BY <2>1, <2>2
<1>7. \A j \in 1 .. Len(s) : s[j] # t
  BY DEF ToSet
<1>8. Inj(r)
  <2> SUFFICES ASSUME NEW m \in 1 .. Len(s) + 1, NEW n \in 1 .. Len(s) + 1,
                      r[m] = r[n]
               PROVE  m = n
    BY <1>5 DEF Inj
  <2> DEFINE old(j) == IF j < i THEN j ELSE j - 1
  <2>1. CASE m = i \/ n = i
    BY SMTT(30), <1>6, <1>7, <2>1
  <2>2. CASE m # i /\ n # i
    <3>1. /\ old(m) \in 1 .. Len(s) /\ r[m] = s[old(m)]
          /\ old(n) \in 1 .. Len(s) /\ r[n] = s[old(n)]
      BY <1>6, <2>2
    <3>2. old(m) = old(n)
      BY <3>1 DEF Inj
    <3> QED
      BY <3>2, <2>2
  <2> QED
    BY <2>1, <2>2
<1>9. ToSet(r) = {r[j] : j \in 1 .. Len(s) + 1} /\ ToSet(s) = {s[j] : j \in 1 .. Len(s)}
  BY SMTT(30), <1>5 DEF ToSet
<1>10. ASSUME NEW u \in ToSet(r) PROVE u \in ToSet(s) \cup {t}
  BY <1>6, <1>9
<1>11. ASSUME NEW u \in ToSet(s) PROVE u \in ToSet(r)
  <2>1. PICK j \in 1 .. Len(s) : u = s[j]
    BY <1>9
  <2>2. CASE j < i
    BY <1>6, <1>9, <2>1, <2>2
  <2>3. CASE j >= i
    <3>1. j + 1 \in 1 .. Len(s) + 1 /\ r[j + 1] = u
      BY <1>6, <2>1, <2>3
    <3> QED
      BY <1>9, <3>1
  <2> QED
    BY <2>1, <2>2, <2>3
<1>12. t \in ToSet(r)
  BY <1>6, <1>9
<1> QED
  BY <1>5, <1>6, <1>8, <1>10, <1>11, <1>12 DEF r

\* A nonempty set of naturals has a least element, which Min returns.
LEMMA MinLemma ==
  ASSUME NEW S \in SUBSET Nat, S # {}
  PROVE  Min(S) \in S /\ \A x \in S : Min(S) <= x
<1>1. \A x, y \in S : ~(y < x) => x <= y
  OBVIOUS
<1>2. \E x \in S : \A y \in S : ~ (<<y, x>> \in OpToRel(<, Nat))
  BY WFMin, NatLessThanWellFounded
<1>3. \A x, y \in Nat : y < x => <<y, x>> \in OpToRel(<, Nat)
  BY Zenon DEF OpToRel
<1>4. \E x \in S : \A y \in S : x <= y
  BY <1>1, <1>2, <1>3, Zenon
<1> QED
  BY <1>4 DEF Min

-----------------------------------------------------------------------------
(* The queue.                                                               *)

\* What removing position i takes away.
LEMMA RemoveLemma ==
  ASSUME NEW s \in Seq(Timer), Inj(s), NEW i \in 1 .. Len(s)
  PROVE  /\ Inj(RemoveAt(s, i))
         /\ ToSet(RemoveAt(s, i)) = ToSet(s) \ {s[i]}
<1>1. PICK r : r = RemoveAt(s, i)
  OBVIOUS
<1>2. /\ r \in Seq(Timer) /\ Len(r) = Len(s) - 1
      /\ \A j \in 1 .. Len(s) - 1 : r[j] = IF j < i THEN s[j] ELSE s[j + 1]
  BY <1>1, RemoveAtLemma
<1>3. Inj(r)
  <2> SUFFICES ASSUME NEW m \in 1 .. Len(s) - 1, NEW n \in 1 .. Len(s) - 1,
                      r[m] = r[n]
               PROVE  m = n
    BY <1>2 DEF Inj
  <2>1. PICK c \in 1 .. Len(s) : c = IF m < i THEN m ELSE m + 1
    OBVIOUS
  <2>2. PICK d \in 1 .. Len(s) : d = IF n < i THEN n ELSE n + 1
    OBVIOUS
  <2>3. r[m] = s[c] /\ r[n] = s[d]
    BY <1>2, <2>1, <2>2
  <2>4. c = d
    BY <2>3 DEF Inj
  <2> QED
    BY <2>1, <2>2, <2>4
<1>4. ASSUME NEW u \in ToSet(r) PROVE u \in ToSet(s) \ {s[i]}
  <2>1. PICK j \in 1 .. Len(s) - 1 : u = r[j]
    BY <1>2, <1>4 DEF ToSet
  <2>2. PICK c \in 1 .. Len(s) : c = (IF j < i THEN j ELSE j + 1) /\ c # i
    OBVIOUS
  <2>3. u = s[c]
    BY <1>2, <2>1, <2>2
  <2> QED
    BY <2>2, <2>3 DEF Inj, ToSet
<1>5. ASSUME NEW u \in ToSet(s), u # s[i] PROVE u \in ToSet(r)
  <2>1. PICK j \in 1 .. Len(s) : u = s[j]
    BY <1>5 DEF ToSet
  <2>2. j # i /\ Len(s) \in Nat
    BY <1>5, <2>1
  <2>3. PICK c \in 1 .. Len(s) - 1 : c = IF j < i THEN j ELSE j - 1
    BY <2>2
  <2>4. r[c] = u
    BY <1>2, <2>1, <2>2, <2>3
  <2> QED
    BY <1>2, <2>4 DEF ToSet
<1> QED
  BY <1>1, <1>3, <1>4, <1>5

\* The offsets n rise along the queue s.
Rising(s, n) == \A i, j \in 1 .. Len(s) : i < j => n[s[i]] <= n[s[j]]

LEMMA RemoveRising ==
  ASSUME NEW s \in Seq(Timer), NEW i \in 1 .. Len(s), NEW n, Rising(s, n)
  PROVE  Rising(RemoveAt(s, i), n)
<1>1. PICK v : v = RemoveAt(s, i)
  OBVIOUS
<1>2. /\ Len(v) = Len(s) - 1
      /\ \A j \in 1 .. Len(s) - 1 : v[j] = IF j < i THEN s[j] ELSE s[j + 1]
  BY <1>1, RemoveAtLemma
<1>3. ASSUME NEW a \in 1 .. Len(v), NEW b \in 1 .. Len(v), a < b
      PROVE  n[v[a]] <= n[v[b]]
  <2>1. PICK c \in 1 .. Len(s) : c = IF a < i THEN a ELSE a + 1
    BY <1>2
  <2>2. PICK d \in 1 .. Len(s) : d = IF b < i THEN b ELSE b + 1
    BY <1>2
  <2>3. c < d /\ s[c] = v[a] /\ s[d] = v[b]
    BY <1>2, <1>3, <2>1, <2>2
  <2> QED
    BY <2>3 DEF Rising
<1> QED
  BY <1>1, <1>3 DEF Rising

\* Where _lwtimer_add_timer_to_queue stops its search.
LEMMA PositionLemma ==
  ASSUME timers \in Seq(Timer), ticks \in [Timer -> 0 .. Period - 1],
         Rising(timers, ticks), NEW n \in Nat
  PROVE  /\ Position(n) \in 1 .. Len(timers) + 1
         /\ \A i \in 1 .. Len(timers) :
              IF i < Position(n) THEN ticks[timers[i]] < n
              ELSE n <= ticks[timers[i]]
<1> DEFINE behind == {i \in 1 .. Len(timers) : ticks[timers[i]] >= n}
<1>1. PICK p : p = Position(n)
  OBVIOUS
<1>2. /\ Len(timers) \in Nat
      /\ \A i \in 1 .. Len(timers) : ticks[timers[i]] \in Nat
  BY LwTimerAssumption
<1>3. p = Min(behind \cup {Len(timers) + 1})
  BY <1>1 DEF Position
<1>4. \A i \in 1 .. Len(timers) : i \in behind <=> ticks[timers[i]] >= n
  OBVIOUS
<1>5. /\ behind \cup {Len(timers) + 1} \in SUBSET Nat
      /\ behind \cup {Len(timers) + 1} \subseteq 1 .. Len(timers) + 1
      /\ behind \cup {Len(timers) + 1} # {}
  BY <1>2
<1> HIDE DEF behind
<1>6. /\ p \in 1 .. Len(timers) + 1 /\ p \in behind \cup {Len(timers) + 1}
      /\ \A i \in behind \cup {Len(timers) + 1} : p <= i
  BY <1>3, <1>5, MinLemma
<1>7. ASSUME NEW i \in 1 .. Len(timers)
      PROVE  IF i < p THEN ticks[timers[i]] < n ELSE n <= ticks[timers[i]]
  <2>1. CASE i < p
    BY <1>2, <1>4, <1>6, <2>1
  <2>2. CASE ~(i < p)
    <3>1. p \in 1 .. Len(timers) /\ p \in behind
      BY <1>2, <1>6, <2>2
    <3>2. n <= ticks[timers[p]]
      BY <1>2, <1>4, <3>1
    <3>3. ticks[timers[p]] <= ticks[timers[i]]
      BY <1>2, <2>2, <3>1 DEF Rising
    <3> QED
      BY <1>2, <2>2, <3>1, <3>2, <3>3
  <2> QED
    BY <2>1, <2>2
<1> QED
  BY <1>1, <1>6, <1>7

\* A timer t placed behind the smaller offsets and before the others.
LEMMA InsertRising ==
  ASSUME NEW s \in Seq(Timer), Inj(s), NEW n \in [Timer -> Nat], NEW t \in Timer,
         t \notin ToSet(s), NEW p \in 1 .. Len(s) + 1, Rising(s, n),
         \A i \in 1 .. Len(s) : IF i < p THEN n[s[i]] <= n[t] ELSE n[t] <= n[s[i]]
  PROVE  Rising(InsertAt(s, p, t), n)
<1>1. PICK v : v = InsertAt(s, p, t)
  OBVIOUS
<1>2. /\ Len(v) = Len(s) + 1 /\ Len(s) \in Nat
      /\ \A j \in 1 .. Len(s) + 1 :
           v[j] = IF j < p THEN s[j] ELSE IF j = p THEN t ELSE s[j - 1]
  <2>1. /\ Len(InsertAt(s, p, t)) = Len(s) + 1
        /\ \A j \in 1 .. Len(s) + 1 : InsertAt(s, p, t)[j] =
             IF j < p THEN s[j] ELSE IF j = p THEN t ELSE s[j - 1]
    BY InsertAtLemma
  <2>2. Len(s) \in Nat
    OBVIOUS
  <2> QED
    BY <1>1, <2>1, <2>2
<1>3. \A i, j \in 1 .. Len(s) : i < j => n[s[i]] <= n[s[j]]
  BY DEF Rising
<1>4. ASSUME NEW a \in 1 .. Len(v), NEW b \in 1 .. Len(v), a < b
      PROVE  n[v[a]] <= n[v[b]]
  <2>1. CASE b < p
    <3>1. /\ a \in 1 .. Len(s) /\ v[a] = s[a]
          /\ b \in 1 .. Len(s) /\ v[b] = s[b]
      BY <1>2, <1>4, <2>1
    <3> QED
      BY <1>3, <1>4, <3>1
  <2>2. CASE b = p
    <3>1. a \in 1 .. Len(s) /\ v[a] = s[a] /\ v[b] = t
      BY <1>2, <1>4, <2>2
    <3> QED
      BY <1>4, <2>2, <3>1
  <2>3. CASE b > p
    <3>1. b - 1 \in 1 .. Len(s) /\ v[b] = s[b - 1] /\ ~(b - 1 < p)
      BY <1>2, <2>3
    <3>2. CASE a < p
      <4>1. a \in 1 .. Len(s) /\ v[a] = s[a] /\ a < b - 1
        BY <1>2, <2>3, <3>2
      <4> QED
        BY <1>3, <3>1, <4>1
    <3>3. CASE a = p
      <4>1. v[a] = t
        BY <1>2, <3>3
      <4> QED
        BY <3>1, <4>1
    <3>4. CASE a > p
      <4>1. a - 1 \in 1 .. Len(s) /\ v[a] = s[a - 1] /\ a - 1 < b - 1
        BY <1>2, <1>4, <3>4
      <4> QED
        BY <1>3, <3>1, <4>1
    <3> QED
      BY <3>2, <3>3, <3>4
  <2> QED
    BY <1>2, <2>1, <2>2, <2>3
<1> QED
  BY <1>1, <1>4 DEF Rising

-----------------------------------------------------------------------------
(* The walk of the handler.                                                 *)

\* The link behind the first m timers of s.
After(s, m) == IF m = Len(s) THEN Anchor ELSE s[m + 1]

\* The element e of s is its m-th one, Anchor the 0-th.
Marks(s, e, m) == m \in 0 .. Len(s) /\ e = IF m = 0 THEN Anchor ELSE s[m]

\* A timer has had its turn in this period, or still waits for it.
Done(t, f, y) == t \in y \/ f[t] = 1
Ahead(t, f, x, n, l) == f[t] = 0 /\ (x <= n[t] \/ t \in l)
Turns(s, m, f, y, x, n, l) ==
  \A i \in 1 .. Len(s) :
    IF i <= m THEN Done(s[i], f, y) ELSE Ahead(s[i], f, x, n, l)

Link(m) ==
  /\ at = "scan" => cur = After(timers, m)
  /\ at = "function" =>
       \/ cur = last
       \/ cur \notin ToSet(timers) /\ calls = 0 /\ stale[cur] = After(timers, m)

\* TIMER_PTR is the m-th element of the queue.
Reached(m) ==
  /\ Marks(timers, last, m)
  /\ Link(m)
  /\ Turns(timers, m, fired, young, period.expiry, ticks, late)

Once ==
  /\ \A t \in Timer : fired[t] <= 1
  /\ at = "function" =>
       /\ cur \in Timer
       /\ period.expiry = ticks[cur] \/ cur \in late \/ cur \notin ToSet(timers)

\* What the task saw before it disabled interrupts still holds.
CheckHolds == checked # Nobody => checked \in ToSet(timers) \cap TaskCancels

IInv ==
  /\ TypeOK /\ Rising(timers, ticks)
  /\ CheckHolds
  /\ Once
  /\ \E m \in 0 .. Len(timers) : Reached(m)

\* The facts about the queue that every step starts from.
LEMMA QueueLemma ==
  ASSUME TypeOK
  PROVE  /\ timers \in Seq(Timer) /\ Inj(timers) /\ Len(timers) \in Nat
         /\ \A i \in 1 .. Len(timers) : timers[i] \in Timer /\ timers[i] # Anchor
         /\ \A i \in 1 .. Len(timers) : Place(timers[i]) = i
         /\ \A t \in ToSet(timers) :
              Place(t) \in 1 .. Len(timers) /\ timers[Place(t)] = t
<1>1. timers \in Seq(Timer) /\ Inj(timers) /\ Len(timers) \in Nat
  BY InjLemma DEF TypeOK
<1>2. \A i \in 1 .. Len(timers) : timers[i] \in Timer /\ timers[i] # Anchor
  BY <1>1, LwTimerAssumption
<1>3. ASSUME NEW i \in 1 .. Len(timers)
      PROVE  Place(timers[i]) = i
  <2>1. \E j \in 1 .. Len(timers) : timers[j] = timers[i]
    OBVIOUS
  <2>2. Place(timers[i]) \in 1 .. Len(timers) /\ timers[Place(timers[i])] = timers[i]
    BY <2>1 DEF Place
  <2> QED
    BY <1>1, <2>2 DEF Inj
<1>4. ASSUME NEW t \in ToSet(timers)
      PROVE  Place(t) \in 1 .. Len(timers) /\ timers[Place(t)] = t
  <2>1. \E j \in 1 .. Len(timers) : timers[j] = t
    BY <1>4 DEF ToSet
  <2> QED
    BY <2>1 DEF Place
<1> QED
  BY <1>1, <1>2, <1>3, <1>4

\* LINK.NEXT of an element of the queue.
LEMMA SuccessorLemma ==
  ASSUME TypeOK, NEW e, NEW m, Marks(timers, e, m)
  PROVE  Successor(e) = After(timers, m)
<1>1. m \in 0 .. Len(timers) /\ e = IF m = 0 THEN Anchor ELSE timers[m]
  BY DEF Marks
<1>2. CASE m = 0
  BY <1>1, <1>2, QueueLemma DEF Successor, After
<1>3. CASE m # 0
  <2>1. m \in 1 .. Len(timers) /\ e = timers[m]
    BY <1>1, <1>3
  <2>2. e # Anchor /\ Place(e) = m /\ e \in ToSet(timers)
    BY <2>1, QueueLemma DEF ToSet
  <2> QED
    BY <1>3, <2>2 DEF Successor, After, Queued
<1> QED
  BY <1>2, <1>3

LEMMA MarksLemma ==
  ASSUME TypeOK, NEW e, NEW m, Marks(timers, e, m)
  PROVE  /\ e \in Element
         /\ After(timers, m) \in Element
         /\ After(timers, m) # Anchor => m + 1 \in 1 .. Len(timers)
         /\ m # 0 => e \in ToSet(timers) /\ e # Anchor /\ Place(e) = m
<1>1. m \in 0 .. Len(timers) /\ e = IF m = 0 THEN Anchor ELSE timers[m]
  BY DEF Marks
<1>2. m # Len(timers) => m + 1 \in 1 .. Len(timers)
  BY <1>1, QueueLemma
<1>3. m # 0 => m \in 1 .. Len(timers)
  BY <1>1, QueueLemma
<1> QED
  BY <1>1, <1>2, <1>3, QueueLemma DEF Element, After, ToSet

\* LINK.NEXT is always an element.
LEMMA SuccessorType ==
  ASSUME TypeOK, NEW e \in Element
  PROVE  Successor(e) \in Element
<1>1. CASE e # Anchor /\ e \notin ToSet(timers)
  BY <1>1 DEF Successor, Queued, TypeOK, Element
<1>2. CASE e = Anchor
  <2>1. Marks(timers, e, 0)
    BY <1>2, QueueLemma DEF Marks
  <2> QED
    BY <2>1, SuccessorLemma, MarksLemma
<1>3. CASE e # Anchor /\ e \in ToSet(timers)
  <2>1. Marks(timers, e, Place(e))
    BY <1>3, QueueLemma DEF Marks
  <2> QED
    BY <2>1, SuccessorLemma, MarksLemma
<1> QED
  BY <1>1, <1>2, <1>3

-----------------------------------------------------------------------------
(* A timer is added.                                                        *)

LEMMA AddType ==
  ASSUME TypeOK, Rising(timers, ticks), NEW t \in Timer, NEW n \in 0 .. Period - 1,
         Add(t, n)
  PROVE  LET p == Position(n) IN
         /\ p \in 1 .. Len(timers) + 1
         /\ timers' \in Seq(Timer) /\ Inj(timers') /\ t \notin ToSet(timers)
         /\ Len(timers') = Len(timers) + 1
         /\ \A j \in 1 .. Len(timers) + 1 :
              timers'[j] = IF j < p THEN timers[j] ELSE IF j = p THEN t ELSE timers[j - 1]
         /\ ToSet(timers') = ToSet(timers) \cup {t}
         /\ Rising(timers', ticks')
         /\ ticks' \in [Timer -> 0 .. Period - 1] /\ ticks'[t] = n
         /\ \A u \in Timer \ {t} : ticks'[u] = ticks[u]
<1> DEFINE p == Position(n)
<1>1. /\ t \notin ToSet(timers) /\ ticks' = [ticks EXCEPT ![t] = n]
      /\ timers' = InsertAt(timers, p, t)
  BY DEF Add, Queued
<1>2. timers \in Seq(Timer) /\ Inj(timers) /\ ticks \in [Timer -> 0 .. Period - 1]
      /\ n \in Nat /\ 0 .. Period - 1 \subseteq Nat
  BY LwTimerAssumption, QueueLemma DEF TypeOK
<1>3. /\ p \in 1 .. Len(timers) + 1
      /\ \A i \in 1 .. Len(timers) :
           IF i < p THEN ticks[timers[i]] < n ELSE n <= ticks[timers[i]]
  BY <1>2, PositionLemma
<1> HIDE DEF p
<1>4. /\ timers' \in Seq(Timer) /\ Inj(timers')
      /\ Len(timers') = Len(timers) + 1
      /\ \A j \in 1 .. Len(timers) + 1 :
           timers'[j] = IF j < p THEN timers[j] ELSE IF j = p THEN t ELSE timers[j - 1]
      /\ ToSet(timers') = ToSet(timers) \cup {t}
  <2>1. PICK s \in Seq(Timer) : s = timers
    BY <1>2
  <2>2. PICK i \in 1 .. Len(s) + 1 : i = p
    BY <1>3, <2>1
  <2>3. Inj(s) /\ t \notin ToSet(s)
    BY <1>1, <1>2, <2>1
  <2>4. /\ InsertAt(s, i, t) \in Seq(Timer)
        /\ Len(InsertAt(s, i, t)) = Len(s) + 1
        /\ \A j \in 1 .. Len(s) + 1 : InsertAt(s, i, t)[j] =
             IF j < i THEN s[j] ELSE IF j = i THEN t ELSE s[j - 1]
        /\ Inj(InsertAt(s, i, t))
        /\ ToSet(InsertAt(s, i, t)) = ToSet(s) \cup {t}
    BY <2>3, InsertAtLemma
  <2> QED
    BY <1>1, <2>1, <2>2, <2>4
<1>5. /\ ticks' \in [Timer -> 0 .. Period - 1] /\ ticks'[t] = n
      /\ \A u \in Timer \ {t} : ticks'[u] = ticks[u]
  BY <1>1, <1>2
<1>6. PICK x \in [Timer -> Nat] : x = ticks'
  BY <1>2, <1>5
<1>7. \A i \in 1 .. Len(timers) : timers[i] \in Timer \ {t}
  BY <1>1, <1>2 DEF ToSet
<1>8. Rising(timers, x)
  BY <1>5, <1>6, <1>7 DEF Rising
<1>9. \A i \in 1 .. Len(timers) : IF i < p THEN x[timers[i]] <= x[t] ELSE x[t] <= x[timers[i]]
  <2> SUFFICES ASSUME NEW i \in 1 .. Len(timers)
               PROVE  IF i < p THEN x[timers[i]] <= x[t] ELSE x[t] <= x[timers[i]]
    OBVIOUS
  <2>1. x[timers[i]] = ticks[timers[i]] /\ x[t] = n /\ ticks[timers[i]] \in Nat
    BY <1>2, <1>5, <1>6, <1>7
  <2> QED
    BY <1>2, <1>3, <2>1
<1>10. Rising(InsertAt(timers, p, t), x)
  BY <1>1, <1>2, <1>3, <1>8, <1>9, InsertRising
<1> QED
  BY <1>1, <1>3, <1>4, <1>5, <1>6, <1>10 DEF p

LEMMA AddLemma ==
  ASSUME IInv, NEW t \in Timer, NEW n \in 0 .. Period - 1, Add(t, n),
         TaskCalls \/ FunctionCalls
  PROVE  IInv'
<1> DEFINE s == timers
           p == Position(n)
<1>1. /\ TypeOK /\ Rising(timers, ticks) /\ CheckHolds /\ Once
  BY DEF IInv
<1>2. PICK m \in 0 .. Len(timers) : Reached(m)
  BY DEF IInv
<1>3. /\ p \in 1 .. Len(s) + 1
      /\ timers' \in Seq(Timer) /\ Inj(timers') /\ t \notin ToSet(s)
      /\ Len(timers') = Len(s) + 1
      /\ \A j \in 1 .. Len(s) + 1 :
           timers'[j] = IF j < p THEN s[j] ELSE IF j = p THEN t ELSE s[j - 1]
      /\ ToSet(timers') = ToSet(s) \cup {t}
      /\ Rising(timers', ticks')
      /\ ticks' \in [Timer -> 0 .. Period - 1] /\ ticks'[t] = n
      /\ \A u \in Timer \ {t} : ticks'[u] = ticks[u]
  BY <1>1, AddType
<1>4. /\ Len(s) \in Nat
      /\ \A i \in 1 .. Len(s) : s[i] \in Timer \ {t}
  BY <1>1, <1>3, QueueLemma DEF ToSet
<1>5. /\ UNCHANGED <<period, last, stale, checked, made, at, cur>>
      /\ calls' = calls \/ (calls > 0 /\ calls' = calls - 1)
      /\ at = "idle" \/ (at = "function" /\ calls > 0)
      /\ fired' = [fired EXCEPT ![t] = 0] /\ young' = young \cup {t}
      /\ late' = IF n < period.expiry THEN late \cup {t} ELSE late \ {t}
  BY DEF Add, TaskCalls, FunctionCalls, isr
<1>6. /\ fired' \in [Timer -> Nat] /\ fired'[t] = 0
      /\ \A u \in Timer \ {t} : fired'[u] = fired[u]
  BY <1>1, <1>5 DEF TypeOK
<1>7. TypeOK'
  <2>1. calls' \in 0 .. MaxCalls
    BY <1>1, <1>5, LwTimerAssumption DEF TypeOK
  <2>2. late' \in SUBSET young' /\ young' \in SUBSET Timer
    BY <1>1, <1>5 DEF TypeOK
  <2>3. IsInjective(timers')
    BY <1>3, InjLemma
  <2> QED
    BY <1>1, <1>3, <1>5, <1>6, <2>1, <2>2, <2>3 DEF TypeOK
<1>8. CheckHolds'
  BY <1>1, <1>3, <1>5 DEF CheckHolds
<1>9. at = "function" => cur = last /\ cur \in ToSet(s) /\ cur # t
  <2> SUFFICES ASSUME at = "function" PROVE cur = last /\ cur \in ToSet(s)
    BY <1>3
  <2>1. calls # 0 /\ cur \in Timer /\ cur # Anchor
    BY <1>1, <1>5, LwTimerAssumption DEF Once, TypeOK
  <2>2. cur = last
    BY <1>2, <2>1 DEF Reached, Link
  <2>3. Marks(timers, cur, m)
    BY <1>2, <2>2 DEF Reached
  <2>4. m # 0
    BY <2>1, <2>3 DEF Marks
  <2> QED
    BY <1>1, <2>2, <2>3, <2>4, MarksLemma
<1>10. Once'
  <2>1. \A u \in Timer : fired'[u] <= 1
    BY <1>1, <1>6 DEF Once
  <2>2. ASSUME at' = "function"
        PROVE  /\ cur' \in Timer
               /\ period'.expiry = ticks'[cur'] \/ cur' \in late' \/ cur' \notin ToSet(timers')
    BY <1>1, <1>3, <1>5, <1>9, <2>2 DEF Once
  <2> QED
    BY <2>1, <2>2 DEF Once
<1> DEFINE D(u)  == Done(u, fired, young)
           A(u)  == Ahead(u, fired, period.expiry, ticks, late)
           DN(u) == Done(u, fired', young')
           AN(u) == Ahead(u, fired', period.expiry, ticks', late')
<1>11. \A u \in Timer \ {t} : (D(u) => DN(u)) /\ (A(u) => AN(u))
  BY <1>3, <1>5, <1>6 DEF Done, Ahead
<1>12. DN(t) /\ AN(t)
  <2>1. period.expiry \in Int /\ n \in Int
    BY <1>1, LwTimerAssumption DEF TypeOK
  <2> QED
    BY <1>3, <1>5, <1>6, <2>1 DEF Done, Ahead
<1>13. PICK w \in 0 .. Len(timers') : w = IF p <= m THEN m + 1 ELSE m
  BY <1>3, <1>4
<1>14. Marks(timers', last', w)
  <2>1. m \in 0 .. Len(s) /\ last = IF m = 0 THEN Anchor ELSE s[m]
    BY <1>2 DEF Reached, Marks
  <2>2. CASE p <= m
    <3>1. w = m + 1 /\ w \in 1 .. Len(s) + 1 /\ ~(w < p) /\ w # p /\ w - 1 = m /\ m # 0
      BY <1>3, <1>4, <1>13, <2>1, <2>2
    <3>2. timers'[w] = s[m]
      BY <1>3, <3>1
    <3> QED
      BY <1>5, <1>13, <2>1, <3>1, <3>2 DEF Marks
  <2>3. CASE m < p
    <3>1. w = m /\ (m # 0 => m \in 1 .. Len(s) + 1 /\ timers'[m] = s[m])
      <4>1. PICK i \in Int : i = p
        BY <1>3, <1>4
      <4>2. w = m /\ m \in Nat /\ m < i
        BY <1>4, <1>13, <2>1, <2>3, <4>1
      <4>3. ASSUME m # 0
            PROVE  m \in 1 .. Len(s) + 1
        BY <1>4, <2>1, <4>3
      <4>4. ASSUME m # 0
            PROVE  timers'[m] = s[m]
        <5>1. timers'[m] = IF m < p THEN s[m] ELSE IF m = p THEN t ELSE s[m - 1]
          BY <1>3, <4>3, <4>4
        <5>2. QED
          BY <2>3, <5>1
      <4>5. QED
        BY <4>2, <4>3, <4>4
    <3> QED
      BY <1>5, <1>13, <2>1, <3>1 DEF Marks
  <2> QED
    BY <1>3, <2>1, <2>2, <2>3
<1>15. Link(w)'
  BY <1>5, <1>9 DEF Link
<1>16. Turns(timers', w, fired', young', period.expiry, ticks', late')
  <2> HIDE DEF D, A, DN, AN
  <2> SUFFICES ASSUME NEW i \in 1 .. Len(timers')
               PROVE  IF i <= w THEN DN(timers'[i]) ELSE AN(timers'[i])
    BY DEF Turns, DN, AN
  <2>1. \A j \in 1 .. Len(s) : IF j <= m THEN D(s[j]) ELSE A(s[j])
    BY <1>2 DEF Reached, Turns, D, A
  <2>2. CASE i = p
    BY <1>3, <1>12, <2>2
  <2>3. CASE i < p
    <3>1. i \in 1 .. Len(s) /\ timers'[i] = s[i] /\ (i <= w <=> i <= m)
      BY <1>3, <1>4, <1>13, <2>3
    <3> QED
      BY <1>4, <1>11, <2>1, <3>1
  <2>4. CASE i > p
    <3>1. i - 1 \in 1 .. Len(s) /\ timers'[i] = s[i - 1]
      BY <1>3, <1>4, <2>4
    <3>2. i <= w <=> i - 1 <= m
      BY <1>3, <1>4, <1>13, <2>4
    <3> QED
      BY <1>4, <1>11, <2>1, <3>1, <3>2
  <2> QED
    BY <1>3, <2>2, <2>3, <2>4
<1>17. Reached(w)'
  BY <1>5, <1>14, <1>15, <1>16 DEF Reached
<1> QED
  BY <1>3, <1>7, <1>8, <1>10, <1>13, <1>17 DEF IInv

-----------------------------------------------------------------------------
(* A timer is cancelled.                                                    *)

LEMMA RemovalType ==
  ASSUME TypeOK, Rising(timers, ticks), NEW t \in ToSet(timers), Removal(t)
  PROVE  LET p == Place(t) IN
         /\ p \in 1 .. Len(timers) /\ timers[p] = t
         /\ timers' \in Seq(Timer) /\ Inj(timers')
         /\ Len(timers') = Len(timers) - 1
         /\ \A j \in 1 .. Len(timers) - 1 :
              timers'[j] = IF j < p THEN timers[j] ELSE timers[j + 1]
         /\ ToSet(timers') = ToSet(timers) \ {t}
         /\ Rising(timers', ticks)
<1>1. PICK s \in Seq(Timer) : s = timers
  BY QueueLemma
<1>2. PICK p \in 1 .. Len(s) : p = Place(t) /\ s[p] = t
  BY <1>1, QueueLemma
<1>3. timers' = RemoveAt(s, p)
  BY <1>1, <1>2 DEF Removal
<1>4. Inj(s) /\ Rising(s, ticks)
  BY <1>1, QueueLemma
<1>5. /\ RemoveAt(s, p) \in Seq(Timer)
      /\ Len(RemoveAt(s, p)) = Len(s) - 1
      /\ \A j \in 1 .. Len(s) - 1 :
           RemoveAt(s, p)[j] = IF j < p THEN s[j] ELSE s[j + 1]
  BY RemoveAtLemma
<1>6. Inj(RemoveAt(s, p)) /\ ToSet(RemoveAt(s, p)) = ToSet(s) \ {s[p]}
  BY <1>4, RemoveLemma
<1>7. Rising(RemoveAt(s, p), ticks)
  BY <1>4, RemoveRising
<1> QED
  BY <1>1, <1>2, <1>3, <1>5, <1>6, <1>7

LEMMA RemovalLemma ==
  ASSUME IInv, NEW t \in ToSet(timers), Removal(t),
         UNCHANGED <<period, ticks, made, history, at, cur>>,
         calls' \in 0 .. MaxCalls, calls = 0 => calls' = 0,
         at # "scan", checked' = Nobody \/ (checked' = checked /\ checked # t),
         at = "function" => (t = cur /\ calls' = 0) \/ (t # cur /\ calls > 0)
  PROVE  IInv'
<1> DEFINE s == timers
           p == Place(t)
<1>1. /\ TypeOK /\ Rising(timers, ticks) /\ CheckHolds /\ Once
  BY DEF IInv
<1>2. PICK m \in 0 .. Len(timers) : Reached(m)
  BY DEF IInv
<1>3. /\ p \in 1 .. Len(s) /\ s[p] = t
      /\ timers' \in Seq(Timer) /\ Inj(timers')
      /\ Len(timers') = Len(s) - 1
      /\ \A j \in 1 .. Len(s) - 1 :
           timers'[j] = IF j < p THEN s[j] ELSE s[j + 1]
      /\ ToSet(timers') = ToSet(s) \ {t}
      /\ Rising(timers', ticks)
  BY <1>1, RemovalType
<1>4. /\ Len(s) \in Nat /\ \A i \in 1 .. Len(s) : Place(s[i]) = i /\ s[i] \in Timer
      /\ \A i \in 1 .. Len(s) : s[i] # Anchor
  BY <1>1, QueueLemma
<1>5. /\ stale' = [stale EXCEPT ![t] = Successor(t)]
      /\ last' = IF last = t THEN Predecessor(t) ELSE last
      /\ UNCHANGED <<period, ticks, made, fired, young, late, at, cur>>
  BY DEF Removal, history
<1>6. m \in 0 .. Len(s) /\ last = (IF m = 0 THEN Anchor ELSE s[m]) /\ Marks(s, last, m)
  BY <1>2 DEF Reached, Marks
<1>7. PICK w \in 0 .. Len(timers') : w = IF p <= m THEN m - 1 ELSE m
  BY <1>3, <1>4, <1>6
<1>8. Marks(timers', last', w)
  <2>1. CASE p = m
    <3>1. last = t /\ w = p - 1 /\ w < p
      BY <1>3, <1>6, <1>7, <2>1
    <3>2. last' = IF p = 1 THEN Anchor ELSE s[p - 1]
      BY <1>5, <3>1 DEF Predecessor
    <3>3. p # 1 => w \in 1 .. Len(s) - 1 /\ timers'[w] = s[p - 1]
      BY <1>3, <1>4, <3>1
    <3> QED
      BY <1>3, <1>7, <3>1, <3>2, <3>3 DEF Marks
  <2>2. CASE p # m
    <3>1. last' = last
      BY <1>3, <1>4, <1>5, <1>6, <2>2
    <3>2. CASE p < m
      <4>1. w = m - 1 /\ w \in 1 .. Len(s) - 1 /\ ~(w < p) /\ w + 1 = m
        BY <1>3, <1>4, <1>6, <1>7, <3>2
      <4>2. timers'[w] = s[m]
        BY <1>3, <4>1
      <4> QED
        BY <1>6, <1>7, <3>1, <4>1, <4>2 DEF Marks
    <3>3. CASE m < p
      <4>1. w = m /\ (m # 0 => m \in 1 .. Len(s) - 1 /\ timers'[m] = s[m])
        BY <1>3, <1>4, <1>6, <1>7, <3>3
      <4> QED
        BY <1>6, <1>7, <3>1, <4>1 DEF Marks
    <3> QED
      BY <1>3, <1>6, <2>2, <3>2, <3>3
  <2> QED
    BY <2>1, <2>2
<1>10. Link(w)'
  <2> SUFFICES ASSUME at' = "function"
               PROVE  \/ cur' = last'
                      \/ /\ cur' \notin ToSet(timers') /\ calls' = 0
                         /\ stale'[cur'] = After(timers', w)
    BY <1>5 DEF Link
  <2>1. CASE t = cur
    <3>1. calls' = 0 /\ cur' \notin ToSet(timers')
      BY <1>3, <1>5, <2>1
    <3>2. cur = last
      BY <1>2, <1>5, <2>1 DEF Reached, Link
    <3>3. m = p
      <4>1. m # 0
        BY <1>3, <1>4, <1>6, <2>1, <3>2
      <4>2. m \in 1 .. Len(s) /\ s[m] = t
        BY <1>6, <2>1, <3>2, <4>1
      <4> QED
        BY <1>4, <4>2
    <3>4. Successor(t) = After(s, m)
      BY <1>1, <1>6, <2>1, <3>2, SuccessorLemma
    <3>5. After(timers', w) = After(s, m)
      <4>1. w = m - 1 /\ m \in 1 .. Len(s)
        BY <1>3, <1>7, <3>3
      <4>2. CASE m = Len(s)
        BY <1>3, <4>1, <4>2 DEF After
      <4>3. CASE m # Len(s)
        <5>1. w + 1 = m /\ m \in 1 .. Len(s) - 1 /\ ~(m < p) /\ w # Len(timers')
          BY <1>3, <1>4, <3>3, <4>1, <4>3
        <5>2. timers'[m] = s[m + 1]
          BY <1>3, <5>1
        <5> QED
          BY <4>3, <5>1, <5>2 DEF After
      <4> QED
        BY <4>2, <4>3
    <3>6. stale'[cur'] = Successor(t)
      <4>1. stale' = [stale EXCEPT ![t] = Successor(t)] /\ cur' = t
        BY <1>5, <2>1
      <4>2. t \in Timer
        BY <1>3, <1>4
      <4>3. stale \in [Timer -> Element]
        BY <1>1 DEF TypeOK
      <4> QED
        BY <4>1, <4>2, <4>3
    <3> QED
      BY <3>1, <3>4, <3>5, <3>6
  <2>2. CASE t # cur
    <3>1. calls # 0
      BY <1>1, <1>5, <2>2, LwTimerAssumption DEF TypeOK
    <3>2. cur = last
      BY <1>2, <1>5, <3>1 DEF Reached, Link
    <3> QED
      BY <1>5, <2>2, <3>2
  <2> QED
    BY <2>1, <2>2
<1>11. Turns(timers', w, fired, young, period.expiry, ticks, late)
  <2> DEFINE D(u) == Done(u, fired, young)
             A(u) == Ahead(u, fired, period.expiry, ticks, late)
  <2> HIDE DEF D, A
  <2> SUFFICES ASSUME NEW i \in 1 .. Len(timers')
               PROVE  IF i <= w THEN D(timers'[i]) ELSE A(timers'[i])
    BY DEF Turns, D, A
  <2>1. \A j \in 1 .. Len(s) : IF j <= m THEN D(s[j]) ELSE A(s[j])
    BY <1>2 DEF Reached, Turns, D, A
  <2>2. CASE i < p
    <3>1. i \in 1 .. Len(s) /\ timers'[i] = s[i] /\ (i <= w <=> i <= m)
      BY <1>3, <1>4, <1>6, <1>7, <2>2
    <3> QED
      BY <2>1, <3>1
  <2>3. CASE i >= p
    <3>1. i + 1 \in 1 .. Len(s) /\ timers'[i] = s[i + 1] /\ (i <= w <=> i + 1 <= m)
      BY <1>3, <1>4, <1>6, <1>7, <2>3
    <3> QED
      BY <2>1, <3>1
  <2> QED
    BY <1>3, <2>2, <2>3
<1>12. Reached(w)'
  BY <1>5, <1>8, <1>10, <1>11 DEF Reached
<1>13. TypeOK'
  <2>1. Marks(s, t, p)
    BY <1>3 DEF Marks
  <2>2. Successor(t) \in Element
    BY <1>1, <2>1, SuccessorLemma, MarksLemma
  <2>3. stale' \in [Timer -> Element]
    BY <1>1, <1>5, <2>2 DEF TypeOK
  <2>4. last' \in Element
    BY <1>3, <1>7, <1>8 DEF Marks, Element
  <2>5. IsInjective(timers')
    BY <1>3, InjLemma
  <2>6. checked' \in Timer \cup {Nobody}
    BY <1>1 DEF TypeOK
  <2> QED
    BY <1>1, <1>3, <1>5, <2>3, <2>4, <2>5, <2>6 DEF TypeOK
<1>14. CheckHolds'
  BY <1>1, <1>3 DEF CheckHolds
<1>15. Once'
  BY <1>1, <1>3, <1>5 DEF Once
<1> QED
  BY <1>3, <1>5, <1>7, <1>12, <1>13, <1>14, <1>15 DEF IInv

\* A step that leaves the queue and the handler where they are, but for the
\* calls a function may still make.
LEMMA QuietLemma ==
  ASSUME IInv, UNCHANGED <<timers, last, ticks, stale, history, at, cur>>,
         period'.expiry = period.expiry,
         period' \in [valid : BOOLEAN, expiry : 0 .. Period - 1, wait : Nat],
         calls' \in 0 .. MaxCalls, calls = 0 => calls' = 0,
         made' \in 0 .. MaxQueues, checked' \in Timer \cup {Nobody}, CheckHolds'
  PROVE  IInv'
<1>1. PICK m \in 0 .. Len(timers) : Reached(m)
  BY DEF IInv
<1>2. TypeOK' /\ Rising(timers', ticks') /\ Once'
  BY DEF IInv, TypeOK, Once, history
<1>3. Reached(m)'
  BY <1>1 DEF Reached, Link, history
<1> QED
  BY <1>1, <1>2, <1>3 DEF IInv

LEMMA CancelLemma ==
  ASSUME IInv, TaskCancel \/ \E t \in Timer : FunctionCancel(t)
  PROVE  IInv'
<1>1. TypeOK /\ CheckHolds
  BY DEF IInv
<1>2. PICK t \in ToSet(timers) :
        /\ Cancel(t)
        /\ UNCHANGED <<at, cur>> /\ at # "scan"
        /\ calls' \in 0 .. MaxCalls /\ (calls = 0 => calls' = 0)
        /\ checked' = Nobody \/ (checked' = checked /\ checked # t)
        /\ at = "function" => (t = cur /\ calls' = 0) \/ (t # cur /\ calls > 0)
  <2>1. CASE TaskCancel
    BY <1>1, <2>1, LwTimerAssumption DEF TaskCancel, isr, CheckHolds, TypeOK
  <2>2. CASE \E t \in Timer : FunctionCancel(t)
    <3>1. PICK t \in Timer : FunctionCancel(t)
      BY <2>2
    <3>2. t \in ToSet(timers) \cap FunctionCancels /\ checked # t
      BY <1>1, <3>1, LwTimerAssumption DEF FunctionCancel, Queued, CheckHolds
    <3>3. calls' \in 0 .. MaxCalls
      BY <1>1, <3>1, LwTimerAssumption DEF FunctionCancel, TypeOK
    <3> QED
      BY <3>1, <3>2, <3>3 DEF FunctionCancel
  <2> QED
    BY <2>1, <2>2
<1>3. UNCHANGED <<period, ticks, made, history>>
  BY <1>2 DEF Cancel
<1>4. CASE period.valid
  <2>1. Removal(t)
    BY <1>2, <1>4 DEF Cancel
  <2> QED
    BY <1>2, <1>3, <2>1, RemovalLemma
<1>5. CASE ~period.valid
  <2>1. UNCHANGED <<timers, stale, last>>
    BY <1>2, <1>5 DEF Cancel
  <2>2. CheckHolds'
    BY <1>1, <1>2, <2>1 DEF CheckHolds
  <2>3. checked' \in Timer \cup {Nobody}
    BY <1>1, <1>2 DEF TypeOK
  <2> QED
    BY <1>1, <1>2, <1>3, <2>1, <2>2, <2>3, QuietLemma DEF TypeOK
<1> QED
  BY <1>4, <1>5

LEMMA CreateLemma ==
  ASSUME IInv, NEW w \in Waits, Create(w)
  PROVE  IInv'
<1>1. /\ TypeOK /\ at = "idle" /\ checked = Nobody /\ made < MaxQueues
      /\ UNCHANGED <<at, cur, calls, ticks, stale, checked>>
      /\ period' = [valid |-> TRUE, expiry |-> 0, wait |-> w]
      /\ timers' = <<>> /\ last' = Anchor /\ made' = made + 1
      /\ fired' = [t \in Timer |-> 0] /\ young' = {} /\ late' = {}
  BY DEF Create, TaskCalls, isr, IInv
<1>2. <<>> \in Seq(Timer) /\ Len(<<>>) = 0 /\ IsInjective(<<>>)
  BY DEF IsInjective
<1>3. TypeOK'
  BY <1>1, <1>2, LwTimerAssumption DEF TypeOK, Element
<1>4. Rising(timers', ticks') /\ CheckHolds' /\ Once'
  BY <1>1, <1>2 DEF Rising, CheckHolds, Once
<1>5. 0 \in 0 .. Len(timers') /\ Reached(0)'
  BY <1>1, <1>2 DEF Reached, Marks, Link, Turns
<1> QED
  BY <1>3, <1>4, <1>5 DEF IInv

LEMMA CallsLemma ==
  ASSUME IInv, TaskStep \/ FunctionStep
  PROVE  IInv'
<1>1. TypeOK /\ CheckHolds
  BY DEF IInv
<1>2. CASE \E w \in Waits : Create(w)
  BY <1>2, CreateLemma
<1>3. CASE TaskCancel \/ \E t \in Timer : FunctionCancel(t)
  BY <1>3, CancelLemma
<1>4. CASE (TaskCalls \/ FunctionCalls) /\ \E t \in Timer, n \in 0 .. Period - 1 : Add(t, n)
  BY <1>4, AddLemma
<1>5. CASE \E t \in Timer : TaskChecks(t)
  <2>1. PICK t \in Timer : TaskChecks(t)
    BY <1>5
  <2>2. CheckHolds' /\ checked' \in Timer \cup {Nobody}
    BY <2>1 DEF TaskChecks, CheckHolds, Queued, queue
  <2> QED
    BY <1>1, <2>1, <2>2, QuietLemma DEF TaskChecks, TaskCalls, queue, isr, TypeOK
<1>6. CASE (TaskCalls \/ FunctionCalls) /\ CancelPeriod
  <2>1. CheckHolds' /\ checked' = checked
    BY <1>1, <1>6 DEF CancelPeriod, CheckHolds
  <2>2. calls' \in 0 .. MaxCalls /\ (calls = 0 => calls' = 0)
    BY <1>1, <1>6, LwTimerAssumption DEF TaskCalls, FunctionCalls, isr, TypeOK
  <2>3. /\ period' \in [valid : BOOLEAN, expiry : 0 .. Period - 1, wait : Nat]
        /\ period'.expiry = period.expiry
    BY <1>1, <1>6 DEF CancelPeriod, TypeOK
  <2> QED
    BY <1>1, <1>6, <2>1, <2>2, <2>3, QuietLemma
       DEF CancelPeriod, TaskCalls, FunctionCalls, isr, TypeOK
<1> QED
  BY <1>2, <1>3, <1>4, <1>5, <1>6 DEF TaskStep, FunctionStep

-----------------------------------------------------------------------------
(* The handler.                                                             *)

LEMMA TickLemma ==
  ASSUME IInv, Tick
  PROVE  IInv'
<1>1. TypeOK /\ CheckHolds /\ Rising(timers, ticks) /\ Once
  BY DEF IInv
<1>2. PICK m \in 0 .. Len(timers) : Reached(m)
  BY DEF IInv
<1>3. CASE period.wait > 0 /\ period' = [period EXCEPT !.wait = @ - 1] /\ UNCHANGED isr
  <2>1. /\ period' \in [valid : BOOLEAN, expiry : 0 .. Period - 1, wait : Nat]
        /\ period'.expiry = period.expiry
    <3>1. period \in [valid : BOOLEAN, expiry : 0 .. Period - 1, wait : Nat]
      BY <1>1 DEF TypeOK
    <3>2. period.wait - 1 \in Nat
      BY <1>3, <3>1
    <3> QED
      BY <1>3, <3>1, <3>2
  <2>2. CheckHolds'
    BY <1>1 DEF Tick, CheckHolds
  <2> QED
    BY <1>1, <1>3, <2>1, <2>2, QuietLemma DEF Tick, isr, TypeOK
<1>4. CASE /\ at' = "scan" /\ cur' = Successor(last)
           /\ UNCHANGED <<period, calls>>
  <2>1. UNCHANGED <<timers, last, ticks, stale, checked, made, fired, young, late>>
    BY DEF Tick, history
  <2>2. cur' = After(timers, m) /\ cur' \in Element
    BY <1>1, <1>2, <1>4, SuccessorLemma, MarksLemma DEF Reached
  <2>3. TypeOK'
    BY <1>1, <1>4, <2>1, <2>2 DEF TypeOK
  <2>4. Rising(timers', ticks') /\ CheckHolds' /\ Once'
    BY <1>1, <1>4, <2>1 DEF CheckHolds, Once
  <2>5. Reached(m)'
    BY <1>2, <1>4, <2>1, <2>2 DEF Reached, Link
  <2> QED
    BY <2>1, <2>3, <2>4, <2>5 DEF IInv
<1> QED
  BY <1>3, <1>4 DEF Tick

\* The timer the handler is about to call has not been called in this period.
LEMMA DueLemma ==
  ASSUME TypeOK, NEW m, Reached(m), at = "scan", IsDue(cur)
  PROVE  /\ m + 1 \in 1 .. Len(timers) /\ cur = timers[m + 1]
         /\ cur \in Timer /\ cur \in ToSet(timers)
         /\ fired[cur] = 0
         /\ period.expiry = ticks[cur] \/ cur \in late
<1>1. cur # Anchor /\ ticks[cur] <= period.expiry /\ cur = After(timers, m)
  BY DEF IsDue, Reached, Link
<1>2. m + 1 \in 1 .. Len(timers) /\ cur = timers[m + 1] /\ ~(m + 1 <= m)
  BY <1>1, MarksLemma DEF Reached, Marks, After
<1>3. cur \in Timer /\ cur \in ToSet(timers)
  BY <1>2, QueueLemma DEF ToSet
<1>4. Ahead(cur, fired, period.expiry, ticks, late)
  BY <1>2 DEF Reached, Turns
<1>5. ticks[cur] \in Int /\ period.expiry \in Int
  BY <1>3, LwTimerAssumption DEF TypeOK
<1> QED
  BY <1>1, <1>2, <1>3, <1>4, <1>5 DEF Ahead

LEMMA CallFunctionLemma ==
  ASSUME IInv, CallFunction
  PROVE  IInv'
<1> DEFINE s == timers
<1>1. TypeOK /\ CheckHolds /\ Rising(timers, ticks) /\ Once
  BY DEF IInv
<1>2. PICK m \in 0 .. Len(timers) : Reached(m)
  BY DEF IInv
<1>3. /\ at = "scan" /\ IsDue(cur)
      /\ last' = cur /\ at' = "function" /\ calls' = MaxCalls
      /\ fired' = [fired EXCEPT ![cur] = @ + 1]
      /\ UNCHANGED <<period, timers, ticks, stale, cur, checked, made, young, late>>
  BY DEF CallFunction, Processed
<1>4. /\ m + 1 \in 1 .. Len(s) /\ cur = s[m + 1]
      /\ cur \in Timer /\ cur \in ToSet(s)
      /\ fired[cur] = 0
      /\ period.expiry = ticks[cur] \/ cur \in late
  BY <1>1, <1>2, <1>3, DueLemma
<1>5. /\ fired' \in [Timer -> Nat] /\ fired'[cur] = 1
      /\ \A u \in Timer \ {cur} : fired'[u] = fired[u]
  BY <1>1, <1>3, <1>4 DEF TypeOK
<1>6. TypeOK'
  BY <1>1, <1>3, <1>4, <1>5, LwTimerAssumption DEF TypeOK, Element
<1>7. Rising(timers', ticks') /\ CheckHolds'
  BY <1>1, <1>3 DEF CheckHolds
<1>8. Once'
  BY <1>1, <1>3, <1>4, <1>5 DEF Once
<1>9. Turns(s, m + 1, fired', young, period.expiry, ticks, late)
  <2> SUFFICES ASSUME NEW i \in 1 .. Len(s)
               PROVE  IF i <= m + 1 THEN Done(s[i], fired', young)
                      ELSE Ahead(s[i], fired', period.expiry, ticks, late)
    BY DEF Turns
  <2>1. CASE i = m + 1
    BY <1>4, <1>5, <2>1 DEF Done
  <2>2. CASE i # m + 1
    <3>1. s[i] \in Timer \ {cur}
      BY <1>1, <1>4, <2>2, QueueLemma DEF Inj
    <3>2. i <= m <=> i <= m + 1
      BY <2>2
    <3>3. IF i <= m THEN Done(s[i], fired, young)
          ELSE Ahead(s[i], fired, period.expiry, ticks, late)
      BY <1>2 DEF Reached, Turns
    <3> QED
      BY <1>5, <3>1, <3>2, <3>3 DEF Done, Ahead
  <2> QED
    BY <2>1, <2>2
<1>10. m + 1 \in 0 .. Len(timers') /\ Marks(timers', last', m + 1)
  BY <1>2, <1>3, <1>4 DEF Marks
<1>11. Link(m + 1)'
  BY <1>3 DEF Link
<1>12. Reached(m + 1)'
  BY <1>3, <1>9, <1>10, <1>11 DEF Reached
<1> QED
  BY <1>6, <1>7, <1>8, <1>10, <1>12 DEF IInv

LEMMA ReturnLemma ==
  ASSUME IInv, Return
  PROVE  IInv'
<1>1. TypeOK /\ CheckHolds /\ Rising(timers, ticks) /\ Once
  BY DEF IInv
<1>2. PICK m \in 0 .. Len(timers) : Reached(m)
  BY DEF IInv
<1>3. /\ at = "function" /\ at' = "scan" /\ cur' = Successor(cur) /\ calls' = 0
      /\ UNCHANGED <<period, timers, last, ticks, stale, checked, made, fired, young, late>>
  BY DEF Return, queue, history
<1>4. cur' = After(timers, m)
  <2>1. CASE cur = last
    BY <1>1, <1>2, <1>3, <2>1, SuccessorLemma DEF Reached
  <2>2. CASE cur \notin ToSet(timers) /\ stale[cur] = After(timers, m)
    <3>1. cur # Anchor
      BY <1>1, <1>3, LwTimerAssumption DEF Once
    <3> QED
      BY <1>3, <2>2, <3>1 DEF Successor, Queued
  <2> QED
    BY <1>2, <1>3, <2>1, <2>2 DEF Reached, Link
<1>5. TypeOK'
  <2>1. cur' \in Element
    BY <1>1, <1>2, <1>4, MarksLemma DEF Reached
  <2> QED
    BY <1>1, <1>3, <2>1, LwTimerAssumption DEF TypeOK
<1>6. Rising(timers', ticks') /\ CheckHolds' /\ Once'
  BY <1>1, <1>3 DEF CheckHolds, Once
<1>7. Reached(m)'
  BY <1>2, <1>3, <1>4 DEF Reached, Link
<1> QED
  BY <1>3, <1>5, <1>6, <1>7 DEF IInv

\* The handler stops at a timer that is not due, so none behind it is due.
LEMMA NotDueLemma ==
  ASSUME TypeOK, Rising(timers, ticks), NEW m \in 0 .. Len(timers), Reached(m),
         at = "scan", ~IsDue(cur), NEW i \in 1 .. Len(timers), m < i
  PROVE  period.expiry + 1 <= ticks[timers[i]]
<1>1. m + 1 \in 1 .. Len(timers) /\ m # Len(timers)
  OBVIOUS
<1>2. cur = timers[m + 1] /\ cur # Anchor
  BY <1>1, QueueLemma DEF Reached, Link, After
<1>3. /\ ticks[cur] \in Int /\ period.expiry \in Int /\ ticks[timers[i]] \in Int
      /\ ~(ticks[cur] <= period.expiry)
  <2>1. timers[i] \in Timer /\ timers[m + 1] \in Timer
    BY <1>1, QueueLemma
  <2>2. ticks \in [Timer -> Int] /\ period.expiry \in Int
    BY LwTimerAssumption DEF TypeOK
  <2> QED
    BY <1>2, <2>1, <2>2 DEF IsDue
<1>4. ticks[cur] <= ticks[timers[i]]
  <2>1. CASE i = m + 1
    BY <1>2, <1>3, <2>1
  <2>2. CASE m + 1 < i
    BY <1>1, <1>2, <2>2 DEF Rising
  <2> QED
    BY <2>1, <2>2
<1> QED
  BY <1>3, <1>4

LEMMA EndScanLemma ==
  ASSUME IInv, EndScan
  PROVE  IInv'
<1> DEFINE s == timers
<1>1. TypeOK /\ CheckHolds /\ Rising(timers, ticks) /\ Once
  BY DEF IInv
<1>2. PICK m \in 0 .. Len(timers) : Reached(m)
  BY DEF IInv
<1>3. /\ at = "scan" /\ ~IsDue(cur) /\ at' = "idle" /\ cur' = Anchor
      /\ UNCHANGED <<timers, ticks, stale, calls, checked, made>>
  BY DEF EndScan
<1>4. /\ Len(s) \in Nat /\ \A i \in 1 .. Len(s) : s[i] \in Timer
      /\ period.expiry \in 0 .. Period - 1
      /\ \A t \in Timer : ticks[t] \in 0 .. Period - 1
  BY <1>1, QueueLemma DEF TypeOK
<1>5. CASE Elapsed
  <2>1. /\ period' = [period EXCEPT !.expiry = 0] /\ last' = Anchor
        /\ fired' = [t \in Timer |-> 0] /\ young' = {} /\ late' = {}
    BY <1>5 DEF EndScan, AtStart
  <2>2. TypeOK'
    <3>1. 0 \in 0 .. Period - 1
      BY LwTimerAssumption
    <3>2. period' \in [valid : BOOLEAN, expiry : 0 .. Period - 1, wait : Nat]
      BY <1>1, <2>1, <3>1 DEF TypeOK
    <3>3. fired' \in [Timer -> Nat] /\ young' \in SUBSET Timer /\ late' \in SUBSET young'
      BY <2>1
    <3> QED
      BY <1>1, <1>3, <2>1, <3>2, <3>3 DEF TypeOK, Element
  <2>3. Rising(timers', ticks') /\ CheckHolds' /\ Once'
    BY <1>1, <1>3, <2>1 DEF CheckHolds, Once
  <2>4. period'.expiry = 0
    BY <1>1, <2>1 DEF TypeOK
  <2>5. Turns(s, 0, fired', young', 0, ticks, late')
    <3> SUFFICES ASSUME NEW i \in 1 .. Len(s)
                 PROVE  ~(i <= 0) /\ Ahead(s[i], fired', 0, ticks, late')
      BY DEF Turns
    <3> QED
      BY <1>4, <2>1 DEF Ahead
  <2>6. 0 \in 0 .. Len(timers') /\ Reached(0)'
    BY <1>3, <1>4, <2>1, <2>4, <2>5 DEF Reached, Marks, Link
  <2> QED
    BY <2>2, <2>3, <2>6 DEF IInv
<1>6. CASE ~Elapsed
  <2>1. /\ period' = [period EXCEPT !.expiry = @ + 1]
        /\ UNCHANGED <<last, fired, young, late>>
    BY <1>6 DEF EndScan, history
  <2>2. period'.expiry = period.expiry + 1 /\ period'.expiry \in 0 .. Period - 1
    BY <1>1, <1>4, <1>6, <2>1, LwTimerAssumption DEF TypeOK, Elapsed
  <2>3. TypeOK'
    BY <1>1, <1>3, <2>1, <2>2 DEF TypeOK, Element
  <2>4. Rising(timers', ticks') /\ CheckHolds' /\ Once'
    BY <1>1, <1>3, <2>1 DEF CheckHolds, Once
  <2>5. Turns(s, m, fired, young, period.expiry + 1, ticks, late)
    <3> SUFFICES ASSUME NEW i \in 1 .. Len(s)
                 PROVE  IF i <= m THEN Done(s[i], fired, young)
                        ELSE Ahead(s[i], fired, period.expiry + 1, ticks, late)
      BY DEF Turns
    <3>1. IF i <= m THEN Done(s[i], fired, young)
          ELSE Ahead(s[i], fired, period.expiry, ticks, late)
      BY <1>2 DEF Reached, Turns
    <3>2. ~(i <= m) => period.expiry + 1 <= ticks[s[i]]
      BY <1>1, <1>2, <1>3, NotDueLemma
    <3> QED
      BY <3>1, <3>2 DEF Ahead
  <2>6. Reached(m)'
    BY <1>2, <1>3, <2>1, <2>2, <2>5 DEF Reached, Link
  <2> QED
    BY <1>3, <2>3, <2>4, <2>6 DEF IInv
<1> QED
  BY <1>5, <1>6

LEMMA InitLemma == Init => IInv
<1> SUFFICES ASSUME Init PROVE IInv
  OBVIOUS
<1>1. <<>> \in Seq(Timer) /\ Len(<<>>) = 0 /\ IsInjective(<<>>)
  BY DEF IsInjective
<1>2. 0 \in 0 .. Period - 1 /\ 0 \in 0 .. MaxCalls /\ 0 \in 0 .. MaxQueues
  BY LwTimerAssumption
<1>3. TypeOK
  BY <1>1, <1>2 DEF Init, TypeOK, Element
<1>4. Rising(timers, ticks) /\ CheckHolds /\ Once
  BY <1>1 DEF Init, Rising, CheckHolds, Once
<1>5. 0 \in 0 .. Len(timers) /\ Reached(0)
  BY <1>1 DEF Init, Reached, Marks, Link, Turns
<1> QED
  BY <1>3, <1>4, <1>5 DEF IInv

LEMMA Inductive == Spec => []IInv
<1>1. Init => IInv
  BY InitLemma
<1>2. IInv /\ [Next]_vars => IInv'
  <2> SUFFICES ASSUME IInv, [Next]_vars PROVE IInv'
    OBVIOUS
  <2>1. CASE UNCHANGED vars
    BY <2>1 DEF vars, queue, isr, history, IInv, TypeOK, CheckHolds, Once, Reached, Link
  <2>2. CASE TaskStep \/ FunctionStep
    BY <2>2, CallsLemma
  <2>3. CASE Tick
    BY <2>3, TickLemma
  <2>4. CASE IsrStep
    BY <2>4, CallFunctionLemma, ReturnLemma, EndScanLemma DEF IsrStep
  <2> QED
    BY <2>1, <2>2, <2>3, <2>4 DEF Next
<1> QED
  BY <1>1, <1>2, PTL DEF Spec

-----------------------------------------------------------------------------

\* The queue is sorted by RELATIVE_TICKS whoever adds timers at whatever
\* moment (_lwtimer_add_timer_to_queue): the handler may stop at the first
\* timer that is not due.
THEOREM QueueSorted == Spec => []Sorted
<1>1. IInv => Sorted
  BY DEF IInv, Sorted, Rising
<1> QED
  BY <1>1, Inductive, PTL

\* _lwtimer_isr_internal calls a function at its timer's offset, or after
\* that when the timer came late, and once a period, although functions add
\* timers in front of TIMER_PTR and cancel the one it points to.
THEOREM CalledOnTime == Spec => []OnTime
<1>1. IInv => OnTime
  BY DEF IInv, Once, OnTime, Queued
<1> QED
  BY <1>1, Inductive, PTL

\* The link the handler goes on from never leads to a cancelled timer, even
\* when the function has removed the timer the link belongs to.
THEOREM NoGhostCalled == Spec => NoGhost
<1>1. IInv /\ [Next]_vars => (at = "scan" /\ at' = "function" => cur \in Queued)
  <2> SUFFICES ASSUME IInv, [Next]_vars, at = "scan", at' = "function"
               PROVE  cur \in Queued
    OBVIOUS
  <2>1. CallFunction
    BY DEF Next, TaskStep, FunctionStep, Create, TaskChecks, TaskCancel, TaskCalls,
       FunctionCalls, FunctionCancel, Tick, IsrStep, Return, EndScan, vars, isr
  <2>2. PICK m \in 0 .. Len(timers) : Reached(m)
    BY DEF IInv
  <2> QED
    BY <2>1, <2>2, DueLemma DEF IInv, CallFunction, Queued
<1> QED
  BY <1>1, Inductive, PTL DEF Spec, NoGhost

\* A timer that was on the queue all through a period has been called in it:
\* TIMER_PTR is behind all of them when the last scan of the period ends.
THEOREM NobodySkipped == Spec => NoneSkipped
<1>1. IInv /\ [Next]_vars =>
        (period.valid /\ period'.valid /\ at = "scan" /\ at' = "idle" /\ period'.expiry = 0 =>
           \A t \in Queued \ young : fired[t] = 1)
  <2> SUFFICES ASSUME IInv, [Next]_vars, at = "scan", at' = "idle", period'.expiry = 0,
                      NEW t \in Queued \ young
               PROVE  fired[t] = 1
    OBVIOUS
  <2>1. EndScan
    BY DEF Next, TaskStep, FunctionStep, Create, TaskChecks, TaskCancel, TaskCalls,
       FunctionCalls, FunctionCancel, Tick, IsrStep, Return, CallFunction, vars, isr
  <2>2. PICK m \in 0 .. Len(timers) : Reached(m)
    BY DEF IInv
  <2>3. TypeOK /\ Rising(timers, ticks) /\ ~IsDue(cur)
    BY <2>1 DEF IInv, EndScan
  <2>4. Elapsed
    <3>1. ~Elapsed => period'.expiry = period.expiry + 1
      BY <2>1, <2>3 DEF EndScan, TypeOK
    <3>2. period.expiry \in Nat
      BY <2>3, LwTimerAssumption DEF TypeOK
    <3> QED
      BY <3>1, <3>2
  <2>5. PICK i \in 1 .. Len(timers) : t = timers[i]
    BY DEF Queued, ToSet
  <2>6. ticks[t] \in 0 .. Period - 1 /\ period.expiry + 1 = Period /\ Period \in Nat
    BY <2>3, <2>4, <2>5, QueueLemma, LwTimerAssumption DEF TypeOK, Elapsed
  <2>7. ~(m < i)
    BY <2>2, <2>3, <2>5, <2>6, NotDueLemma
  <2>8. i <= m
    BY <2>7
  <2> QED
    BY <2>2, <2>5, <2>8 DEF Reached, Turns, Done
<1> QED
  BY <1>1, Inductive, PTL DEF Spec, NoneSkipped

-----------------------------------------------------------------------------
(***************************************************************************)
(* Lightweight memory.  For a pool and blocks of every size, every set of  *)
(* tasks of which at most two allocate, and whatever they call and hand    *)
(* over: the blocks tile the pool, the free list holds exactly the free    *)
(* blocks in the order of their addresses, _lwmem_test reports a pool      *)
(* whose list is empty and no other, and to its callers the pool is the    *)
(* heap of module Heap.                                                    *)
(*                                                                         *)
(* The inductive invariant MemInv speaks of the pool, of the four cursors  *)
(* that the pool keeps for the calls that give way in their loops, and of  *)
(* the stack of calls in progress, each interrupted by the one above it:   *)
(* what an interrupted walk still knows when it goes on.                   *)
(***************************************************************************)

BlockRecord == [size : 0 .. PoolSize, next : Ptr, owner : Owner]
Hd(b) == {a \in Word : b[a] # NoBlock}
Fr(b, g) == Hd(b) \ g

\* The blocks follow one another.
Tiles(b) ==
  /\ b \in [Word -> BlockRecord]
  /\ Start \in Hd(b)
  /\ \A a \in Hd(b) :
       /\ b[a].size >= MinBlock
       /\ a + b[a].size \in Hd(b) \cup {End}
       /\ \A x \in Hd(b) : a < x => a + b[a].size <= x

\* No two free blocks touch.
Apart(b, f) == \A a \in f : a + b[a].size \notin f

\* n is the least member of F above a, or NULL when there is none.
IsNext(F, a, n) ==
  \/ n = NULL /\ \A x \in F : x <= a
  \/ n \in F /\ a < n /\ \A x \in F : a < x => n <= x

\* The links of the free list; that of NULL is the head.
Links(b, fr) == [a \in Ptr |-> IF a = NULL THEN fr ELSE b[a].next]
Listed(F, L) == \A a \in F \cup {NULL} : IsNext(F, a, L[a])

PoolOK(b, g, fr) ==
  /\ Tiles(b) /\ g \subseteq Hd(b)
  /\ Apart(b, Fr(b, g))
  /\ fr \in Ptr /\ Listed(Fr(b, g), Links(b, fr))

CursorsOK(F, fr, cu, hd) ==
  /\ cu \in [alloc : Ptr, free : Ptr, test : Ptr, test2 : Word]
  /\ cu.alloc \in F \cup {fr} /\ cu.free \in F \cup {fr}
  /\ cu.test \in F \cup {fr} /\ cu.test2 \in hd

Allocates(c) == c.op \in {"alloc", "at"}
Allocators == {t \in Task : MayDo[t] \cap {"alloc", "at"} # {}}

StackOK(cs, g) ==
  /\ cs \in Seq(CallRecord)
  /\ \A i, j \in DOMAIN cs : i < j => Priority[cs[j].task] < Priority[cs[i].task]
  /\ \A i \in DOMAIN cs :
       /\ Allocates(cs[i]) => /\ cs[i].task \in Allocators
                              /\ cs[i].need >= MinBlock
       /\ cs[i].op = "alloc" => cs[i].target = NULL
       /\ cs[i].op = "at" => /\ cs[i].target \in Word
                             /\ cs[i].target + cs[i].need <= End
       /\ cs[i].op = "free" => cs[i].target \in g
       /\ \A j \in DOMAIN cs :
            cs[i].op = "free" /\ cs[j].op = "free" /\ cs[i].target = cs[j].target => i = j

TopFree(cs, i) ==
  /\ i \in DOMAIN cs /\ cs[i].op = "free"
  /\ \A j \in DOMAIN cs : i < j => cs[j].op # "free"
TopAlloc(cs, i) ==
  /\ i \in DOMAIN cs /\ Allocates(cs[i])
  /\ \A j \in DOMAIN cs : i < j => ~Allocates(cs[j])

FitsIn(b, a, c) ==
  IF c.op = "alloc" THEN b[a].size >= c.need
  ELSE /\ a + MinBlock <= c.target
       /\ a + b[a].size >= c.target + c.need

FreeWalk(F, fr, cu, cs) ==
  \A i \in DOMAIN cs : TopFree(cs, i) =>
    cu.free = fr \/ (cu.free \in F /\ cu.free < cs[i].target)

AllocWalk(b, F, fr, cu, cs) ==
  \A i \in DOMAIN cs : TopAlloc(cs, i) =>
    /\ \/ cu.alloc = fr
       \/ cu.alloc \in F /\ cs[i].prev \in F /\ b[cs[i].prev].next = cu.alloc
    /\ \A a \in F : a < cu.alloc => ~FitsIn(b, a, cs[i])
    /\ (\E j \in DOMAIN cs : j < i /\ Allocates(cs[j])) =>
         cu.alloc # NULL /\ \E a \in F : cu.alloc <= a /\ FitsIn(b, a, cs[i])

Walkers(b, F, fr, cu, cs) ==
  FreeWalk(F, fr, cu, cs) /\ AllocWalk(b, F, fr, cu, cs)

InvOf(b, g, fr, cu, cs) ==
  /\ PoolOK(b, g, fr)
  /\ CursorsOK(Fr(b, g), fr, cu, Hd(b))
  /\ StackOK(cs, g)
  /\ Walkers(b, Fr(b, g), fr, cu, cs)

MemInv == alarm \in BOOLEAN /\ InvOf(block, given, free, cursor, stack)

-----------------------------------------------------------------------------
(* Blocks that are cut, joined and relinked still follow one another.      *)

LEMMA PoolNumbers ==
  ASSUME LwMemParameters
  PROVE  /\ PoolSize \in Nat /\ MinBlock \in Nat /\ MinBlock >= 1
         /\ Start \in Word /\ End \in Nat /\ End \notin Word
         /\ \A a \in Word : a \in Nat /\ a >= 1 /\ a < End
         /\ \A a \in Ptr : a \in Nat
         /\ \A a \in Nat : 1 <= a /\ a < End => a \in Word
         /\ NULL \notin Word /\ NULL \in Ptr /\ Word \subseteq Ptr
BY DEF LwMemParameters, Start, End, Word, Ptr, NULL

Like(b2, b, x) ==
  b2[x].size = b[x].size /\ (b2[x] = NoBlock <=> b[x] = NoBlock)

Relinked(b2, b) ==
  b2 \in [Word -> BlockRecord] /\ \A x \in Word : Like(b2, b, x)

LEMMA TilesRelinked ==
  ASSUME NEW b, NEW b2, Tiles(b), Relinked(b2, b)
  PROVE  Tiles(b2) /\ Hd(b2) = Hd(b)
<1>1. Hd(b2) = Hd(b)
  BY DEF Hd, Relinked, Like
<1>2. \A a \in Hd(b) : b2[a].size = b[a].size
  BY DEF Hd, Relinked, Like
<1>3. b2 \in [Word -> BlockRecord]
  BY DEF Relinked
<1>4. QED
  BY <1>1, <1>2, <1>3 DEF Tiles

\* The block at a is cut after its first n words.
Cut(b2, b, a, n) ==
  /\ b2 \in [Word -> BlockRecord]
  /\ a \in Hd(b) /\ n \in Nat
  /\ n >= MinBlock /\ b[a].size - n >= MinBlock
  /\ b2[a].size = n /\ b2[a + n].size = b[a].size - n
  /\ \A x \in Word \ {a, a + n} : Like(b2, b, x)

\* The block at a takes the one that follows it, at n.
Join(b2, b, a, n) ==
  /\ b2 \in [Word -> BlockRecord]
  /\ a \in Hd(b) /\ n \in Hd(b) /\ n = a + b[a].size
  /\ b2[a].size = b[a].size + b[n].size /\ b2[n] = NoBlock
  /\ \A x \in Word \ {a, n} : Like(b2, b, x)

LEMMA TileFacts ==
  ASSUME LwMemParameters, NEW b, Tiles(b), NEW a \in Hd(b)
  PROVE  /\ a \in Word /\ a \in Nat /\ a >= 1 /\ a < End
         /\ b[a].size \in Nat /\ b[a].size >= MinBlock /\ b[a].size >= 1
         /\ a + b[a].size <= End
         /\ a + b[a].size \in Hd(b) \cup {End}
         /\ \A x \in Hd(b) : a < x => a + b[a].size <= x
         /\ \A x \in Hd(b) : x \in Word /\ x < a => x + b[x].size <= a
<1>1. a \in Word /\ a \in Nat /\ a >= 1 /\ a < End
  BY PoolNumbers DEF Hd
<1>2. b[a].size \in Nat
  BY <1>1, PoolNumbers DEF Tiles, BlockRecord
<1>3. b[a].size >= MinBlock /\ b[a].size >= 1
  BY <1>2, PoolNumbers DEF Tiles
<1>4. a + b[a].size \in Hd(b) \cup {End}
  BY DEF Tiles
<1>5. a + b[a].size <= End
  BY <1>4, PoolNumbers DEF Hd
<1>6. \A x \in Hd(b) : a < x => a + b[a].size <= x
  BY DEF Tiles
<1>7. \A x \in Hd(b) : x \in Word /\ x < a => x + b[x].size <= a
  BY DEF Tiles
<1>8. QED
  BY <1>1, <1>2, <1>3, <1>4, <1>5, <1>6, <1>7

LEMMA TilesCut ==
  ASSUME LwMemParameters, NEW b, NEW b2, NEW a, NEW n,
         Tiles(b), Cut(b2, b, a, n)
  PROVE  /\ Tiles(b2) /\ Hd(b2) = Hd(b) \cup {a + n}
         /\ a + n \notin Hd(b) /\ a + n \in Word /\ a < a + n
         /\ b2[a].size = n /\ b2[a + n].size = b[a].size - n
         /\ \A x \in Hd(b) : x # a => b2[x].size = b[x].size
<1>1. a \in Hd(b) /\ n \in Nat /\ n >= MinBlock /\ b[a].size - n >= MinBlock
  BY DEF Cut
<1>2. /\ a \in Word /\ a \in Nat /\ a >= 1 /\ a < End
      /\ b[a].size \in Nat
      /\ a + b[a].size <= End
      /\ a + b[a].size \in Hd(b) \cup {End}
      /\ \A x \in Hd(b) : a < x => a + b[a].size <= x
  BY <1>1, TileFacts
<1>3. n >= 1 /\ b[a].size - n >= 1 /\ MinBlock \in Nat /\ End \in Nat
  BY <1>1, <1>2, PoolNumbers
<1>4. a + n \in Nat /\ a < a + n /\ a + n < End
  BY <1>1, <1>2, <1>3
<1>5. a + n \in Word
  BY <1>2, <1>4, PoolNumbers
<1>6. a + n \notin Hd(b)
  BY <1>1, <1>2, <1>3, <1>4
<1>7. /\ b2 \in [Word -> BlockRecord]
      /\ b2[a].size = n /\ b2[a + n].size = b[a].size - n
      /\ \A x \in Word \ {a, a + n} : Like(b2, b, x)
  BY DEF Cut
<1>8. b2[a] # NoBlock /\ b2[a + n] # NoBlock
  BY <1>1, <1>2, <1>3, <1>7 DEF NoBlock
<1>9. Hd(b2) = Hd(b) \cup {a + n}
  <2>1. ASSUME NEW x \in Word \ {a, a + n}
        PROVE  x \in Hd(b2) <=> x \in Hd(b)
    BY <1>7 DEF Like, Hd
  <2>2. a \in Hd(b2) /\ a + n \in Hd(b2)
    BY <1>2, <1>5, <1>8 DEF Hd
  <2>3. Hd(b2) \subseteq Word /\ Hd(b) \subseteq Word
    BY DEF Hd
  <2>4. QED
    BY <1>1, <1>2, <1>5, <2>1, <2>2, <2>3
<1>10. \A x \in Hd(b) : x # a => b2[x].size = b[x].size
  BY <1>6, <1>7 DEF Like, Hd
<1>11. Start \in Hd(b2)
  BY <1>9 DEF Tiles
<1>12. ASSUME NEW y \in Hd(b2)
       PROVE  /\ b2[y].size >= MinBlock
              /\ y + b2[y].size \in Hd(b2) \cup {End}
              /\ \A x \in Hd(b2) : y < x => y + b2[y].size <= x
  <2>1. CASE y = a
    BY <1>1, <1>2, <1>3, <1>4, <1>7, <1>9, <2>1
  <2>2. CASE y = a + n
    <3>1. y + b2[y].size = a + b[a].size
      BY <1>1, <1>2, <1>7, <2>2
    <3>2. ASSUME NEW x \in Hd(b), y < x
          PROVE  a < x
      <4>1. x \in Nat
        BY PoolNumbers DEF Hd
      <4>2. QED
        BY <1>2, <1>4, <2>2, <3>2, <4>1
    <3>3. \A x \in Hd(b2) : y < x => a + b[a].size <= x
      BY <1>2, <1>4, <1>9, <2>2, <3>2
    <3>4. QED
      BY <1>1, <1>2, <1>7, <1>9, <2>2, <3>1, <3>3
  <2>3. CASE y \in Hd(b) /\ y # a
    <3>1. b2[y].size = b[y].size
      BY <1>10, <2>3
    <3>2. /\ b[y].size >= MinBlock
          /\ y + b[y].size \in Hd(b) \cup {End}
          /\ \A x \in Hd(b) : y < x => y + b[y].size <= x
          /\ y \in Nat /\ b[y].size \in Nat
      BY <2>3, TileFacts
    <3>3. y < a + n => y + b[y].size <= a + n
      <4>1. CASE y < a
        BY <1>1, <1>2, <1>4, <3>2, <4>1
      <4>2. CASE a < y
        BY <1>1, <1>2, <1>3, <1>4, <2>3, <3>2, <4>2
      <4>3. QED
        BY <1>2, <2>3, <3>2, <4>1, <4>2
    <3>4. QED
      BY <1>9, <3>1, <3>2, <3>3
  <2>4. QED
    BY <1>9, <2>1, <2>2, <2>3
<1>13. Tiles(b2)
  BY <1>7, <1>11, <1>12 DEF Tiles
<1>14. QED
  BY <1>4, <1>5, <1>6, <1>7, <1>9, <1>10, <1>13

LEMMA TilesJoin ==
  ASSUME LwMemParameters, NEW b, NEW b2, NEW a, NEW n,
         Tiles(b), Join(b2, b, a, n)
  PROVE  /\ Tiles(b2) /\ Hd(b2) = Hd(b) \ {n} /\ a < n
         /\ b2[a].size = b[a].size + b[n].size
         /\ \A x \in Hd(b) : x \notin {a, n} => b2[x].size = b[x].size
<1>1. a \in Hd(b) /\ n \in Hd(b) /\ n = a + b[a].size
  BY DEF Join
<1>2. /\ a \in Word /\ a \in Nat /\ b[a].size \in Nat /\ b[a].size >= MinBlock
      /\ b[a].size >= 1
      /\ \A x \in Hd(b) : a < x => n <= x
  BY <1>1, TileFacts
<1>3. /\ n \in Word /\ n \in Nat /\ b[n].size \in Nat
      /\ n + b[n].size \in Hd(b) \cup {End}
      /\ \A x \in Hd(b) : n < x => n + b[n].size <= x
      /\ b[n].size >= 1
  BY <1>1, TileFacts
<1>4. a < n /\ MinBlock \in Nat /\ End \in Nat /\ End \notin Word
  BY <1>1, <1>2, <1>3, PoolNumbers
<1>5. /\ b2 \in [Word -> BlockRecord]
      /\ b2[a].size = b[a].size + b[n].size /\ b2[n] = NoBlock
      /\ \A x \in Word \ {a, n} : Like(b2, b, x)
  BY DEF Join
<1>6. b2[a] # NoBlock
  BY <1>2, <1>3, <1>5 DEF NoBlock
<1>7. Hd(b2) = Hd(b) \ {n}
  <2>1. ASSUME NEW x \in Word \ {a, n}
        PROVE  x \in Hd(b2) <=> x \in Hd(b)
    BY <1>5 DEF Like, Hd
  <2>2. a \in Hd(b2) /\ n \notin Hd(b2)
    BY <1>2, <1>5, <1>6 DEF Hd
  <2>3. Hd(b2) \subseteq Word /\ Hd(b) \subseteq Word
    BY DEF Hd
  <2>4. QED
    BY <1>1, <1>2, <1>4, <2>1, <2>2, <2>3
<1>8. \A x \in Hd(b) : x \notin {a, n} => b2[x].size = b[x].size
  BY <1>5 DEF Like, Hd
<1>9. Start \in Hd(b2)
  <2>1. Start \in Hd(b) /\ Start <= a
    BY <1>2, PoolNumbers DEF Tiles, Start
  <2>2. QED
    BY <1>2, <1>4, <1>7, <2>1 DEF Start
<1>10. ASSUME NEW y \in Hd(b2)
       PROVE  /\ b2[y].size >= MinBlock
              /\ y + b2[y].size \in Hd(b2) \cup {End}
              /\ \A x \in Hd(b2) : y < x => y + b2[y].size <= x
  <2>1. CASE y = a
    <3>1. y + b2[y].size = n + b[n].size
      BY <1>1, <1>2, <1>3, <1>5, <2>1
    <3>2. n + b[n].size # n
      BY <1>3
    <3>3. n + b[n].size \in Hd(b2) \cup {End}
      BY <1>3, <1>7, <3>2
    <3>4. ASSUME NEW x \in Hd(b2), y < x
          PROVE  n + b[n].size <= x
      <4>1. x \in Hd(b) /\ x # n /\ x \in Nat
        BY <1>7, PoolNumbers DEF Hd
      <4>2. n <= x
        BY <1>2, <2>1, <3>4, <4>1
      <4>3. QED
        BY <1>3, <4>1, <4>2
    <3>5. b2[y].size >= MinBlock
      BY <1>2, <1>3, <1>4, <1>5, <2>1
    <3>6. QED
      BY <3>1, <3>3, <3>4, <3>5
  <2>2. CASE y # a
    <3>1. y \in Hd(b) /\ y # n /\ b2[y].size = b[y].size
      BY <1>7, <1>8, <2>2
    <3>2. /\ b[y].size >= MinBlock /\ b[y].size >= 1
          /\ y + b[y].size \in Hd(b) \cup {End}
          /\ \A x \in Hd(b) : y < x => y + b[y].size <= x
          /\ y \in Nat /\ b[y].size \in Nat
      BY <3>1, TileFacts
    <3>3. y + b[y].size # n
      BY <1>1, <1>2, <1>4, <2>2, <3>1, <3>2
    <3>4. QED
      BY <1>7, <3>1, <3>2, <3>3
  <2>3. QED
    BY <2>1, <2>2
<1>11. Tiles(b2)
  BY <1>5, <1>9, <1>10 DEF Tiles
<1>12. QED
  BY <1>4, <1>5, <1>7, <1>8, <1>11

-----------------------------------------------------------------------------
(* A list in the order of the addresses, with one more or one less.        *)

LEMMA NextUnique ==
  ASSUME LwMemParameters, NEW F, F \subseteq Word, NEW a, a \in Nat,
         NEW m, NEW n, IsNext(F, a, m), IsNext(F, a, n)
  PROVE  m = n
<1>1. \A x \in F : x \in Nat /\ x >= 1
  BY PoolNumbers
<1>2. QED
  BY <1>1 DEF IsNext, NULL

\* L2 is the list L with x after p.
Inserts(F, L, L2, p, x) ==
  /\ F \subseteq Word /\ p \in F \cup {NULL} /\ x \in Word /\ x \notin F
  /\ p < x /\ (L[p] = NULL \/ x < L[p])
  /\ L2[p] = x /\ L2[x] = L[p]
  /\ \A g \in F \cup {NULL} : g # p => L2[g] = L[g]

\* L2 is the list L without the member x after p.
Removes(F, L, L2, p, x) ==
  /\ F \subseteq Word /\ p \in F \cup {NULL} /\ x \in F /\ L[p] = x
  /\ L2[p] = L[x]
  /\ \A g \in F \cup {NULL} : g \notin {p, x} => L2[g] = L[g]

LEMMA InsertElsewhere ==
  ASSUME NEW F, NEW p \in Nat, NEW g \in Nat, NEW x \in Nat, NEW m, NEW n,
         \A y \in F : y \in Nat /\ y >= 1,
         IsNext(F, p, m), IsNext(F, g, n), p \in F \cup {NULL},
         g \in F \cup {NULL}, g # p, p < x, m = NULL \/ x < m
  PROVE  IsNext(F \cup {x}, g, n)
<1>1. CASE g < p
  <2>1. p \in F
    BY <1>1 DEF NULL
  <2>2. n \in F /\ g < n /\ n <= p /\ \A y \in F : g < y => n <= y
    BY <1>1, <2>1 DEF IsNext
  <2>3. n <= x
    BY <2>2
  <2>4. QED
    BY <2>2, <2>3 DEF IsNext
<1>2. CASE p < g
  <2>1. g \in F
    BY <1>2 DEF NULL
  <2>2. m \in F /\ m <= g
    BY <1>2, <2>1 DEF IsNext
  <2>3. x < g
    BY <2>2 DEF NULL
  <2>4. QED
    BY <2>1, <2>3 DEF IsNext
<1>3. QED
  BY <1>1, <1>2

LEMMA InsertHere ==
  ASSUME NEW F, NEW p \in Nat, NEW x \in Nat, NEW m,
         \A y \in F : y \in Nat /\ y >= 1, x >= 1,
         IsNext(F, p, m), p < x, m = NULL \/ x < m
  PROVE  IsNext(F \cup {x}, p, x) /\ IsNext(F \cup {x}, x, m)
<1>1. CASE m = NULL
  <2>1. \A y \in F : y <= p
    BY <1>1 DEF IsNext, NULL
  <2>2. \A y \in F : y <= x
    BY <2>1
  <2>3. QED
    BY <1>1, <2>1, <2>2 DEF IsNext
<1>2. CASE m # NULL
  <2>1. m \in F /\ x < m /\ \A y \in F : p < y => m <= y
    BY <1>2 DEF IsNext
  <2>2. \A y \in F : p < y => x <= y
    BY <2>1
  <2>3. \A y \in F : x < y => m <= y
    BY <2>1
  <2>4. QED
    BY <2>1, <2>2, <2>3 DEF IsNext
<1>3. QED
  BY <1>1, <1>2

LEMMA ListedInsert ==
  ASSUME LwMemParameters, NEW F, NEW L, NEW L2, NEW p, NEW x,
         Listed(F, L), Inserts(F, L, L2, p, x)
  PROVE  Listed(F \cup {x}, L2)
<1>1. /\ F \subseteq Word /\ p \in F \cup {NULL} /\ x \in Word /\ x \notin F
      /\ p < x /\ (L[p] = NULL \/ x < L[p])
      /\ L2[p] = x /\ L2[x] = L[p]
      /\ \A g \in F \cup {NULL} : g # p => L2[g] = L[g]
  BY DEF Inserts
<1>2. \A g \in F \cup {NULL} : g \in Nat
  BY <1>1, PoolNumbers DEF NULL
<1>3. x \in Nat /\ x >= 1 /\ \A g \in F : g \in Nat /\ g >= 1
  BY <1>1, PoolNumbers
<1>4. \A g \in F \cup {NULL} : IsNext(F, g, L[g])
  BY DEF Listed
<1>5. IsNext(F, p, L[p]) /\ p \in Nat
  BY <1>1, <1>2, <1>4
<1>6. ASSUME NEW g \in (F \cup {x}) \cup {NULL}
      PROVE  IsNext(F \cup {x}, g, L2[g])
  <2>1. CASE g = p
    BY <1>1, <1>3, <1>5, <2>1, InsertHere
  <2>2. CASE g = x
    BY <1>1, <1>3, <1>5, <2>2, InsertHere
  <2>3. CASE g # p /\ g # x
    <3>1. g \in F \cup {NULL} /\ L2[g] = L[g] /\ IsNext(F, g, L[g]) /\ g \in Nat
      BY <1>1, <1>2, <1>4, <2>3
    <3>2. IsNext(F \cup {x}, g, L[g])
      BY <1>1, <1>3, <1>5, <2>3, <3>1, InsertElsewhere
    <3>3. QED
      BY <3>1, <3>2
  <2>4. QED
    BY <2>1, <2>2, <2>3
<1>7. QED
  BY <1>6 DEF Listed

LEMMA ListedRemove ==
  ASSUME LwMemParameters, NEW F, NEW L, NEW L2, NEW p, NEW x,
         Listed(F, L), Removes(F, L, L2, p, x)
  PROVE  Listed(F \ {x}, L2) /\ p < x
<1>1. /\ F \subseteq Word /\ p \in F \cup {NULL} /\ x \in F /\ L[p] = x
      /\ L2[p] = L[x]
      /\ \A g \in F \cup {NULL} : g \notin {p, x} => L2[g] = L[g]
  BY DEF Removes
<1>2. \A g \in F \cup {NULL} : g \in Nat
  BY <1>1, PoolNumbers DEF NULL
<1>3. \A g \in F : g \in Nat /\ g >= 1
  BY <1>1, PoolNumbers
<1>4. \A g \in F \cup {NULL} : IsNext(F, g, L[g])
  BY DEF Listed
<1>5. x \in Nat /\ x # NULL /\ p \in Nat
  BY <1>1, <1>2, <1>3 DEF NULL
<1>6. IsNext(F, p, x) /\ IsNext(F, x, L[x])
  BY <1>1, <1>4
<1>7. p < x /\ \A y \in F : p < y => x <= y
  BY <1>5, <1>6 DEF IsNext
<1>8. ASSUME NEW g \in (F \ {x}) \cup {NULL}
      PROVE  IsNext(F \ {x}, g, L2[g])
  <2>1. g \in Nat /\ g # x
    BY <1>2, <1>5, <1>8
  <2>2. CASE g = p
    <3>1. \A y \in F \ {x} : p < y => x < y
      BY <1>3, <1>5, <1>7
    <3>2. IsNext(F \ {x}, p, L[x])
      BY <1>3, <1>5, <1>6, <1>7, <3>1 DEF IsNext
    <3>3. QED
      BY <1>1, <2>2, <3>2
  <2>3. CASE g # p
    <3>1. L2[g] = L[g] /\ IsNext(F, g, L[g])
      BY <1>1, <1>4, <1>8, <2>1, <2>3
    <3>2. L[g] # x
      <4>1. SUFFICES ASSUME L[g] = x
                     PROVE  FALSE
        OBVIOUS
      <4>2. g < x /\ \A y \in F : g < y => x <= y
        BY <1>5, <3>1, <4>1 DEF IsNext
      <4>3. CASE g < p
        <5>1. p \in F
          BY <1>1, <2>1, <4>3 DEF NULL
        <5>2. QED
          BY <1>5, <1>7, <4>2, <4>3, <5>1
      <4>4. CASE p < g
        <5>1. g \in F
          BY <1>5, <1>8, <2>1, <4>4 DEF NULL
        <5>2. QED
          BY <1>5, <1>7, <2>1, <4>2, <4>4, <5>1
      <4>5. QED
        BY <1>5, <2>1, <2>3, <4>3, <4>4
    <3>3. QED
      BY <3>1, <3>2 DEF IsNext
  <2>4. QED
    BY <2>2, <2>3
<1>9. QED
  BY <1>7, <1>8 DEF Listed

-----------------------------------------------------------------------------
(* What allocating does to the pool.                                       *)

LEMMA PoolFacts ==
  ASSUME LwMemParameters, NEW b, NEW g, NEW fr, PoolOK(b, g, fr)
  PROVE  /\ Tiles(b) /\ g \subseteq Hd(b) /\ Hd(b) \subseteq Word
         /\ b \in [Word -> BlockRecord]
         /\ Fr(b, g) \subseteq Hd(b) /\ Fr(b, g) \subseteq Word
         /\ Fr(b, g) \cap g = {}
         /\ \A a \in Fr(b, g) : a + b[a].size \notin Fr(b, g)
         /\ fr \in Ptr /\ Listed(Fr(b, g), Links(b, fr))
         /\ Links(b, fr)[NULL] = fr
         /\ \A a \in Word : Links(b, fr)[a] = b[a].next
         /\ \A a \in Fr(b, g) \cup {NULL} : IsNext(Fr(b, g), a, Links(b, fr)[a])
BY PoolNumbers DEF PoolOK, Hd, Fr, Apart, Links, Tiles, Listed

\* The member of the list that leads to a
Pred(a, fr, prev) == IF a = fr THEN NULL ELSE prev
Leads(b, F, a, fr, prev) == a = fr \/ (prev \in F /\ b[prev].next = a)

\* The links of everything but a (and r, which is new) stay as they are,
\* that of a's predecessor becomes n.
Replaces(b, b2, F, fr, fr2, a, prev, n) ==
  /\ IF a = fr THEN fr2 = n ELSE fr2 = fr /\ b2[prev].next = n
  /\ \A x \in F \ {a} : a = fr \/ x # prev => b2[x].next = b[x].next

LEMMA TakeWhole ==
  ASSUME LwMemParameters, NEW b, NEW b2, NEW g, NEW fr, NEW fr2,
         PoolOK(b, g, fr), NEW a \in Fr(b, g), NEW prev,
         Leads(b, Fr(b, g), a, fr, prev), Relinked(b2, b),
         Replaces(b, b2, Fr(b, g), fr, fr2, a, prev, b[a].next)
  PROVE  PoolOK(b2, g \cup {a}, fr2) /\ Fr(b2, g \cup {a}) = Fr(b, g) \ {a}
<1> DEFINE F == Fr(b, g)
           L == Links(b, fr)
           L2 == Links(b2, fr2)
           p == Pred(a, fr, prev)
<1>1. /\ Tiles(b) /\ g \subseteq Hd(b) /\ F \subseteq Hd(b) /\ F \subseteq Word
      /\ \A x \in F : x + b[x].size \notin F
      /\ Listed(F, L) /\ L[NULL] = fr
      /\ \A x \in Word : L[x] = b[x].next
      /\ a \in F /\ a \in Word /\ fr \in Ptr /\ Hd(b) \subseteq Word
  BY PoolFacts
<1>2. Tiles(b2) /\ Hd(b2) = Hd(b)
  BY <1>1, TilesRelinked
<1>3. b2 \in [Word -> BlockRecord] /\ \A x \in Word : b2[x].size = b[x].size
  BY DEF Relinked, Like
<1>4. b[a].next \in Ptr
  BY <1>1 DEF Tiles, BlockRecord
<1>5. fr2 \in Ptr
  BY <1>1, <1>4 DEF Replaces
<1>6. L2[NULL] = fr2 /\ \A x \in Word : L2[x] = b2[x].next
  BY PoolNumbers DEF Links
<1>7. Fr(b2, g \cup {a}) = F \ {a}
  BY <1>2 DEF Fr
<1>8. Removes(F, L, L2, p, a)
  <2>1. NULL \notin F
    BY <1>1, PoolNumbers
  <2>2. CASE a = fr
    BY <1>1, <1>6, <2>1, <2>2 DEF Removes, Pred, Replaces
  <2>3. CASE a # fr
    <3>1. p = prev /\ p \in F /\ b[p].next = a
      BY <2>3 DEF Pred, Leads
    <3>2. p # a
      <4>1. IsNext(F, p, a)
        BY <1>1, <3>1 DEF Listed
      <4>2. a \in Nat /\ a >= 1
        BY <1>1, PoolNumbers
      <4>3. QED
        BY <4>1, <4>2 DEF IsNext, NULL
    <3>3. L[p] = a /\ L2[p] = L[a]
      BY <1>1, <1>6, <2>3, <3>1 DEF Replaces
    <3>4. \A x \in F \cup {NULL} : x \notin {p, a} => L2[x] = L[x]
      BY <1>1, <1>6, <2>3, <3>1 DEF Replaces
    <3>5. QED
      BY <1>1, <3>1, <3>3, <3>4 DEF Removes
  <2>4. QED
    BY <2>2, <2>3
<1>9. Listed(F \ {a}, L2)
  BY <1>1, <1>8, ListedRemove
<1>10. Apart(b2, F \ {a})
  BY <1>1, <1>3 DEF Apart
<1>11. QED
  BY <1>1, <1>2, <1>5, <1>7, <1>9, <1>10 DEF PoolOK

\* The links of the split: the rest is put after a, then a is left out.
LEMMA SplitLinks ==
  ASSUME LwMemParameters, NEW b, NEW b2, NEW g, NEW fr, NEW fr2,
         PoolOK(b, g, fr), NEW a \in Fr(b, g), NEW prev,
         Leads(b, Fr(b, g), a, fr, prev), NEW r \in Word, r \notin Hd(b),
         a < r, r < a + b[a].size,
         b2[r].next = b[a].next,
         Replaces(b, b2, Fr(b, g), fr, fr2, a, prev, r)
  PROVE  Listed((Fr(b, g) \cup {r}) \ {a}, Links(b2, fr2))
<1> DEFINE F == Fr(b, g)
           L == Links(b, fr)
           L2 == Links(b2, fr2)
           L1 == [x \in Ptr |-> IF x = a THEN r ELSE IF x = r THEN L[a] ELSE L[x]]
           p == Pred(a, fr, prev)
<1>1. /\ Tiles(b) /\ F \subseteq Hd(b) /\ F \subseteq Word
      /\ Listed(F, L) /\ L[NULL] = fr
      /\ \A x \in Word : L[x] = b[x].next
      /\ a \in F /\ a \in Word /\ a \in Hd(b) /\ fr \in Ptr
  BY PoolFacts
<1>2. r \notin F /\ r \in Ptr /\ a \in Ptr /\ Word \subseteq Ptr /\ NULL \in Ptr
  BY <1>1, PoolNumbers
<1>3. NULL \notin F /\ a # NULL /\ r # NULL /\ a # r
  BY <1>1, <1>2, PoolNumbers
<1>4. IsNext(F, a, L[a])
  BY <1>1 DEF Listed
<1>5. L[a] = NULL \/ r < L[a]
  <2>1. CASE L[a] # NULL
    <3>1. L[a] \in F /\ a < L[a]
      BY <1>4, <2>1 DEF IsNext
    <3>2. a + b[a].size <= L[a] /\ L[a] \in Nat
      BY <1>1, <3>1, TileFacts, PoolNumbers
    <3>3. a + b[a].size \in Nat /\ r \in Nat
      BY <1>1, TileFacts, PoolNumbers
    <3>4. QED
      BY <3>2, <3>3
  <2>2. QED
    BY <2>1
<1>6. L1[a] = r /\ L1[r] = L[a] /\ \A x \in F \cup {NULL} : x # a => L1[x] = L[x]
  BY <1>1, <1>2, <1>3
<1>7. Inserts(F, L, L1, a, r)
  BY <1>1, <1>2, <1>5, <1>6 DEF Inserts
<1>8. Listed(F \cup {r}, L1)
  BY <1>1, <1>7, ListedInsert
<1>9. L2[NULL] = fr2 /\ \A x \in Word : L2[x] = b2[x].next
  BY PoolNumbers DEF Links
<1>10. Removes(F \cup {r}, L1, L2, p, a)
  <2>1. L2[r] = L1[r]
    BY <1>1, <1>6, <1>9
  <2>2. CASE a = fr
    <3>1. p = NULL
      BY <2>2 DEF Pred
    <3>2. L1[p] = a /\ L2[p] = L1[a]
      BY <1>1, <1>3, <1>6, <1>9, <2>2, <3>1 DEF Replaces
    <3>3. \A x \in F : x # a => L2[x] = L1[x]
      BY <1>1, <1>6, <1>9, <2>2 DEF Replaces
    <3>4. QED
      BY <1>1, <2>1, <3>1, <3>2, <3>3 DEF Removes
  <2>3. CASE a # fr
    <3>1. p = prev /\ p \in F /\ b[p].next = a
      BY <2>3 DEF Pred, Leads
    <3>2. p # a
      <4>1. IsNext(F, p, a)
        BY <1>1, <3>1 DEF Listed
      <4>2. a \in Nat
        BY <1>1, PoolNumbers
      <4>3. QED
        BY <1>3, <4>1, <4>2 DEF IsNext
    <3>3. L1[p] = a /\ L2[p] = L1[a]
      BY <1>1, <1>6, <1>9, <2>3, <3>1, <3>2 DEF Replaces
    <3>4. \A x \in F \cup {NULL} : x \notin {p, a} => L2[x] = L1[x]
      BY <1>1, <1>6, <1>9, <2>3, <3>1 DEF Replaces
    <3>5. QED
      BY <1>1, <2>1, <3>1, <3>3, <3>4 DEF Removes
  <2>4. QED
    BY <2>2, <2>3
<1>11. QED
  BY <1>8, <1>10, ListedRemove

LEMMA TakePart ==
  ASSUME LwMemParameters, NEW b, NEW b2, NEW g, NEW fr, NEW fr2,
         PoolOK(b, g, fr), NEW a \in Fr(b, g), NEW prev, NEW n,
         Leads(b, Fr(b, g), a, fr, prev), Cut(b2, b, a, n),
         b2[a + n].next = b[a].next,
         Replaces(b, b2, Fr(b, g), fr, fr2, a, prev, a + n)
  PROVE  /\ PoolOK(b2, g \cup {a}, fr2)
         /\ Fr(b2, g \cup {a}) = (Fr(b, g) \cup {a + n}) \ {a}
<1> DEFINE F == Fr(b, g)
           r == a + n
<1>1. /\ Tiles(b) /\ g \subseteq Hd(b) /\ F \subseteq Hd(b) /\ F \subseteq Word
      /\ \A x \in F : x + b[x].size \notin F
      /\ F \cap g = {} /\ a \in Hd(b)
      /\ a \in F /\ a \in Word /\ fr \in Ptr /\ Hd(b) \subseteq Word
  BY PoolFacts
<1>2. /\ Tiles(b2) /\ Hd(b2) = Hd(b) \cup {r}
      /\ r \notin Hd(b) /\ r \in Word /\ a < r
      /\ b2[a].size = n /\ b2[r].size = b[a].size - n
      /\ \A x \in Hd(b) : x # a => b2[x].size = b[x].size
  BY <1>1, TilesCut
<1>3. /\ a + b[a].size \in Hd(b) \cup {End} /\ End \notin Word
      /\ a \in Nat /\ b[a].size \in Nat /\ b[a].size - n >= 1
      /\ n \in Nat
  BY <1>1, PoolNumbers, TileFacts DEF Cut
<1>4. r < a + b[a].size
  BY <1>3
<1>5. Listed((F \cup {r}) \ {a}, Links(b2, fr2))
  BY <1>2, <1>4, SplitLinks
<1>6. Fr(b2, g \cup {a}) = (F \cup {r}) \ {a}
  BY <1>1, <1>2 DEF Fr
<1>7. fr2 \in Ptr
  BY <1>1, <1>2, PoolNumbers DEF Replaces
<1>8. Apart(b2, (F \cup {r}) \ {a})
  <2>1. ASSUME NEW x \in (F \cup {r}) \ {a}
        PROVE  x + b2[x].size \notin (F \cup {r}) \ {a}
    <3>1. CASE x = r
      <4>1. x + b2[x].size = a + b[a].size
        BY <1>2, <1>3, <3>1
      <4>2. QED
        BY <1>1, <1>4, <1>3, <1>2, <4>1
    <3>2. CASE x \in F /\ x # a
      <4>1. x + b2[x].size = x + b[x].size
        BY <1>1, <1>2, <3>2
      <4>2. x + b[x].size \in Hd(b) \cup {End}
        BY <1>1, <3>2, TileFacts
      <4>3. QED
        BY <1>1, <1>2, <1>3, <3>2, <4>1, <4>2
    <3>3. QED
      BY <3>1, <3>2
  <2>2. QED
    BY <2>1 DEF Apart
<1>9. g \cup {a} \subseteq Hd(b2)
  BY <1>1, <1>2
<1>10. QED
  BY <1>2, <1>5, <1>6, <1>7, <1>8, <1>9 DEF PoolOK

\* The block asked for begins n words into a and goes to its end.
LEMMA TakeEnd ==
  ASSUME LwMemParameters, NEW b, NEW b2, NEW g, NEW fr,
         PoolOK(b, g, fr), NEW a \in Fr(b, g), NEW n, Cut(b2, b, a, n),
         \A x \in Fr(b, g) : b2[x].next = b[x].next
  PROVE  /\ PoolOK(b2, g \cup {a + n}, fr)
         /\ Fr(b2, g \cup {a + n}) = Fr(b, g)
<1> DEFINE F == Fr(b, g)
           q == a + n
<1>1. /\ Tiles(b) /\ g \subseteq Hd(b) /\ F \subseteq Hd(b) /\ F \subseteq Word
      /\ \A x \in F : x + b[x].size \notin F
      /\ a \in F /\ a \in Word /\ fr \in Ptr /\ Hd(b) \subseteq Word
      /\ Listed(F, Links(b, fr))
  BY PoolFacts
<1>2. /\ Tiles(b2) /\ Hd(b2) = Hd(b) \cup {q}
      /\ q \notin Hd(b) /\ q \in Word
      /\ b2[a].size = n
      /\ \A x \in Hd(b) : x # a => b2[x].size = b[x].size
  BY <1>1, TilesCut
<1>3. Fr(b2, g \cup {q}) = F
  BY <1>1, <1>2 DEF Fr
<1>4. Apart(b2, F)
  <2>1. ASSUME NEW x \in F PROVE x + b2[x].size \notin F
    <3>1. CASE x = a
      BY <1>1, <1>2, <3>1
    <3>2. CASE x # a
      BY <1>1, <1>2, <3>2
    <3>3. QED
      BY <3>1, <3>2
  <2>2. QED
    BY <2>1 DEF Apart
<1>5. \A x \in F \cup {NULL} : Links(b2, fr)[x] = Links(b, fr)[x]
  BY <1>1, PoolNumbers DEF Links
<1>6. Listed(F, Links(b2, fr))
  BY <1>1, <1>5 DEF Listed
<1>7. QED
  BY <1>1, <1>2, <1>3, <1>4, <1>6 DEF PoolOK

\* The block asked for, of m words, begins n words into a, and the rest is a
\* free block of its own.  b1 is the pool with the first cut alone.
\* Of the block at a, the m words behind the first n are taken: b becomes b2,
\* and the block of what is left at r takes the place behind a in the list.
TakesMiddle(b, b1, b2, g, fr, a, n, m, r) ==
  /\ PoolOK(b, g, fr) /\ a \in Fr(b, g)
  /\ Cut(b1, b, a, n) /\ Cut(b2, b1, a + n, m) /\ r = (a + n) + m
  /\ b2[a].next = r /\ b2[r].next = b[a].next
  /\ \A x \in Fr(b, g) \ {a} : b2[x].next = b[x].next

LEMMA TakeMiddle ==
  ASSUME LwMemParameters, NEW b, NEW b1, NEW b2, NEW g, NEW fr,
         NEW a, NEW n, NEW m, NEW r, TakesMiddle(b, b1, b2, g, fr, a, n, m, r)
  PROVE  /\ PoolOK(b2, g \cup {a + n}, fr)
         /\ Fr(b2, g \cup {a + n}) = Fr(b, g) \cup {r}
<1>0. /\ PoolOK(b, g, fr) /\ a \in Fr(b, g)
      /\ Cut(b1, b, a, n) /\ Cut(b2, b1, a + n, m) /\ r = (a + n) + m
      /\ b2[a].next = r /\ b2[r].next = b[a].next
      /\ \A x \in Fr(b, g) \ {a} : b2[x].next = b[x].next
  BY DEF TakesMiddle
<1> USE <1>0
<1> DEFINE F == Fr(b, g)
           L == Links(b, fr)
           L2 == Links(b2, fr)
           q == a + n
<1>1. /\ Tiles(b) /\ g \subseteq Hd(b) /\ F \subseteq Hd(b) /\ F \subseteq Word
      /\ \A x \in F : x + b[x].size \notin F
      /\ a \in F /\ a \in Word /\ a \in Hd(b) /\ fr \in Ptr /\ Hd(b) \subseteq Word
      /\ Listed(F, L) /\ F \cap g = {}
      /\ \A x \in Word : L[x] = b[x].next
      /\ L[NULL] = fr
  BY PoolFacts
<1>2. /\ Tiles(b1) /\ Hd(b1) = Hd(b) \cup {q}
      /\ q \notin Hd(b) /\ q \in Word /\ a < q
      /\ b1[a].size = n /\ b1[q].size = b[a].size - n
      /\ \A x \in Hd(b) : x # a => b1[x].size = b[x].size
  BY <1>1, TilesCut
<1>3. /\ Tiles(b2) /\ Hd(b2) = Hd(b1) \cup {r}
      /\ r \notin Hd(b1) /\ r \in Word /\ q < r
      /\ b2[q].size = m /\ b2[r].size = b1[q].size - m
      /\ \A x \in Hd(b1) : x # q => b2[x].size = b1[x].size
  BY <1>2, TilesCut
<1>4. /\ a \in Nat /\ b[a].size \in Nat /\ n \in Nat /\ m \in Nat
      /\ b1[q].size - m >= 1 /\ q \in Nat /\ r \in Nat /\ n >= 1
      /\ a + b[a].size \in Hd(b) \cup {End} /\ End \notin Word
      /\ \A x \in Hd(b) : a < x => a + b[a].size <= x
  BY <1>1, <1>2, <1>3, PoolNumbers, TileFacts DEF Cut
<1>5. r + b2[r].size = a + b[a].size /\ a < r /\ r < a + b[a].size
  BY <1>2, <1>3, <1>4
<1>6. Fr(b2, g \cup {q}) = F \cup {r}
  BY <1>1, <1>2, <1>3, <1>4 DEF Fr
<1>7. L2[NULL] = fr /\ \A x \in Word : L2[x] = b2[x].next
  BY PoolNumbers DEF Links
<1>8. L[a] = NULL \/ r < L[a]
  <2>1. IsNext(F, a, L[a])
    BY <1>1 DEF Listed
  <2>2. CASE L[a] # NULL
    <3>1. L[a] \in F /\ a < L[a]
      BY <2>1, <2>2 DEF IsNext
    <3>2. a + b[a].size <= L[a] /\ L[a] \in Nat
      BY <1>1, <1>4, <3>1, PoolNumbers
    <3>3. QED
      BY <1>4, <1>5, <3>2
  <2>3. QED
    BY <2>2
<1>9. Inserts(F, L, L2, a, r)
  <2>1. L2[a] = r /\ L2[r] = L[a]
    BY <1>1, <1>3, <1>7
  <2>2. \A x \in F \cup {NULL} : x # a => L2[x] = L[x]
    BY <1>1, <1>7
  <2>3. r \notin F
    BY <1>1, <1>2, <1>3
  <2>4. QED
    BY <1>1, <1>3, <1>5, <1>8, <2>1, <2>2, <2>3 DEF Inserts
<1>10. Listed(F \cup {r}, L2)
  BY <1>1, <1>9, ListedInsert
<1>11. Apart(b2, F \cup {r})
  <2>1. ASSUME NEW x \in F \cup {r}
        PROVE  x + b2[x].size \notin F \cup {r}
    <3>1. CASE x = r
      <4>1. a + b[a].size \notin F
        BY <1>1
      <4>2. a + b[a].size # r
        BY <1>4, <1>5
      <4>3. QED
        BY <1>5, <3>1, <4>1, <4>2
    <3>2. CASE x = a
      <4>1. x + b2[x].size = q
        BY <1>1, <1>2, <1>3, <3>2
      <4>2. QED
        BY <1>1, <1>2, <1>3, <1>4, <4>1
    <3>3. CASE x \in F /\ x # a
      <4>1. x + b2[x].size = x + b[x].size
        BY <1>1, <1>2, <1>3, <3>3
      <4>2. x + b[x].size \in Hd(b) \cup {End}
        BY <1>1, <3>3, TileFacts
      <4>3. QED
        BY <1>1, <1>2, <1>3, <1>4, <3>3, <4>1, <4>2
    <3>4. QED
      BY <3>1, <3>2, <3>3
  <2>2. QED
    BY <2>1 DEF Apart
<1>12. QED
  BY <1>1, <1>2, <1>3, <1>6, <1>10, <1>11 DEF PoolOK

-----------------------------------------------------------------------------
(* What freeing does to the pool.                                          *)

\* Every free block lies in one that is free afterwards.
Covers(b, F, b2, F2) ==
  \A y \in F : \E z \in F2 :
    z <= y /\ z + b2[z].size >= y + b[y].size /\ b2[z].size >= b[y].size

\* The place of t in the free list is after p.
Between(b, g, fr, p, t) ==
  /\ t \in g /\ p \in Fr(b, g) \cup {NULL} /\ p < t
  /\ LET n == Links(b, fr)[p] IN n = NULL \/ t < n

WithLink(L, p, t) == [x \in Ptr |-> IF x = p THEN t ELSE L[x]]

\* The pool when t, which goes after p, has been joined with what follows.
HalfFreed(b, g, h, fr, p, t, J) ==
  LET F1 == Fr(J, h) IN
  /\ h = g \ {t}
  /\ Tiles(J) /\ g \subseteq Hd(J) /\ t \in F1
  /\ p \in F1 \cup {NULL} /\ p # t /\ p < t
  /\ \A x \in F1 : x # t => J[x].size = b[x].size /\ x \in Fr(b, g)
  /\ \A x \in F1 : x + J[x].size \in F1 => x + J[x].size = t
  /\ Listed(F1, WithLink(Links(J, fr), p, t))
  /\ Covers(b, Fr(b, g), J, F1)

LEMMA JoinNextKeeps ==
  ASSUME LwMemParameters, NEW b, NEW g, NEW h, NEW fr, NEW p, NEW t,
         PoolOK(b, g, fr), Between(b, g, fr, p, t), h = g \ {t}
  PROVE  HalfFreed(b, g, h, fr, p, t, JoinNext(b, t, Links(b, fr)[p]))
<1> DEFINE F == Fr(b, g)
           L == Links(b, fr)
           n == L[p]
           J == JoinNext(b, t, n)
           F1 == Fr(J, h)
           M == WithLink(Links(J, fr), p, t)
           L1 == [x \in Ptr |-> IF x = p THEN t ELSE IF x = t THEN n ELSE L[x]]
<1>1. /\ Tiles(b) /\ g \subseteq Hd(b) /\ F \subseteq Hd(b) /\ F \subseteq Word
      /\ \A x \in F : x + b[x].size \notin F
      /\ F \cap g = {} /\ b \in [Word -> BlockRecord]
      /\ fr \in Ptr /\ Hd(b) \subseteq Word
      /\ Listed(F, L)
      /\ \A x \in Word : L[x] = b[x].next
      /\ L[NULL] = fr
  BY PoolFacts
<1>2. t \in g /\ p \in F \cup {NULL} /\ p < t /\ (n = NULL \/ t < n)
  BY DEF Between
<1>3. t \in Hd(b) /\ t \in Word /\ t \notin F /\ t \in Nat /\ t >= 1
  BY <1>1, <1>2, PoolNumbers
<1>4. /\ b[t].size \in Nat /\ b[t].size >= 1 /\ t + b[t].size <= End
      /\ t + b[t].size \in Hd(b) \cup {End} /\ b[t].size \in 0 .. PoolSize
      /\ \A x \in Hd(b) : x < t => x + b[x].size <= t
      /\ \A x \in Hd(b) : t < x => t + b[t].size <= x
  BY <1>1, <1>3, TileFacts DEF Tiles, BlockRecord
<1>5. IsNext(F, p, n)
  BY <1>1, <1>2 DEF Listed
<1>6. n = NULL \/ n \in F
  BY <1>5 DEF IsNext
<1>7. /\ p \in Ptr /\ p # t /\ n # t /\ n \in Ptr /\ p \in Nat
      /\ n # NULL => n \in Word /\ n \in Hd(b) /\ n \in Nat /\ p # n
      /\ Word \subseteq Ptr /\ NULL \in Ptr /\ NULL \notin Word /\ End \notin Word
  <2>1. Word \subseteq Ptr /\ NULL \in Ptr /\ NULL \notin Word /\ End \notin Word
    BY PoolNumbers
  <2>2. p \in Ptr /\ p \in Nat
    BY <1>1, <1>2, <2>1, PoolNumbers
  <2>3. p # t
    BY <1>2, <1>3, <2>1
  <2>4. n # NULL => n \in Word /\ n \in Hd(b) /\ n \in Nat /\ p < n
    BY <1>1, <1>5, <1>6, PoolNumbers DEF IsNext
  <2>5. n # t /\ n \in Ptr
    BY <1>3, <1>6, <2>1, <2>4
  <2>6. QED
    BY <2>1, <2>2, <2>3, <2>4, <2>5
<1>8. L1[p] = t /\ L1[t] = n /\ \A x \in F \cup {NULL} : x # p => L1[x] = L[x]
  BY <1>1, <1>2, <1>3, <1>7
<1>9. Inserts(F, L, L1, p, t)
  BY <1>1, <1>2, <1>3, <1>8 DEF Inserts
<1>10. Listed(F \cup {t}, L1)
  BY <1>1, <1>9, ListedInsert
<1>11. System \in Owner
  BY DEF Owner
<1>12. CASE n # NULL /\ t + b[t].size = n
  <2>1. n \in F /\ n \in Word /\ n \in Hd(b) /\ n \in Nat /\ p # n
    BY <1>6, <1>7, <1>12
  <2>2. b[n].size \in Nat /\ b[n].size >= 1 /\ n + b[n].size <= End
        /\ n + b[n].size \in Hd(b) \cup {End}
    BY <1>1, <2>1, TileFacts
  <2>3. J = [b EXCEPT ![t] = Free(b[t].size + b[n].size, b[n].next), ![n] = NoBlock]
    BY <1>12 DEF JoinNext
  <2>4. /\ J[t] = Free(b[t].size + b[n].size, b[n].next) /\ J[n] = NoBlock
        /\ \A x \in Word : x # t /\ x # n => J[x] = b[x]
    BY <1>1, <1>3, <1>7, <2>1, <2>3
  <2>5. b[t].size + b[n].size \in 0 .. PoolSize
    BY <1>3, <1>4, <1>12, <2>2, PoolNumbers DEF End
  <2>6. b[n].next \in Ptr
    BY <1>1, <2>1 DEF BlockRecord
  <2>7. /\ Free(b[t].size + b[n].size, b[n].next) \in BlockRecord
        /\ NoBlock \in BlockRecord
    BY <1>7, <1>11, <2>5, <2>6, PoolNumbers DEF Free, NoBlock, BlockRecord
  <2>8. J \in [Word -> BlockRecord]
    BY <1>1, <2>3, <2>7
  <2>9. J[t].size = b[t].size + b[n].size /\ J[t].next = b[n].next
    BY <2>4 DEF Free
  <2>10. Join(J, b, t, n)
    BY <1>3, <1>12, <2>1, <2>4, <2>8, <2>9 DEF Join, Like
  <2>11. /\ Tiles(J) /\ Hd(J) = Hd(b) \ {n} /\ t < n
         /\ \A x \in Hd(b) : x \notin {t, n} => J[x].size = b[x].size
    BY <1>1, <2>10, TilesJoin
  <2>12. F1 = (F \cup {t}) \ {n}
    BY <1>1, <1>2, <1>3, <2>1, <2>11 DEF Fr
  <2>13. g \subseteq Hd(J)
    BY <1>1, <2>1, <2>11
  <2>14. Removes(F \cup {t}, L1, M, t, n)
    <3>1. M[t] = L1[n]
      BY <1>1, <1>3, <1>7, <2>1, <2>9 DEF WithLink, Links
    <3>2. \A x \in (F \cup {t}) \cup {NULL} : x \notin {t, n} => M[x] = L1[x]
      <4>1. ASSUME NEW x \in F, x # t, x # n PROVE M[x] = L1[x]
        BY <1>1, <1>3, <1>7, <2>4, <4>1 DEF WithLink, Links
      <4>2. M[NULL] = L1[NULL]
        BY <1>1, <1>3, <1>7 DEF WithLink, Links
      <4>3. QED
        BY <4>1, <4>2
    <3>3. QED
      BY <1>1, <1>3, <1>8, <2>1, <3>1, <3>2 DEF Removes
  <2>15. Listed(F1, M)
    BY <1>10, <2>12, <2>14, ListedRemove
  <2>16. ASSUME NEW x \in F1, x + J[x].size \in F1
         PROVE  x + J[x].size = t
    <3>1. CASE x = t
      <4>1. x + J[x].size = n + b[n].size
        BY <1>3, <1>4, <1>12, <2>2, <2>9, <3>1
      <4>2. n + b[n].size \notin F
        BY <1>1, <2>1
      <4>3. QED
        BY <2>12, <2>16, <4>1, <4>2
    <3>2. CASE x # t
      <4>1. x \in F /\ J[x].size = b[x].size
        BY <1>1, <2>11, <2>12, <3>2
      <4>2. QED
        BY <1>1, <2>12, <2>16, <4>1
    <3>3. QED
      BY <3>1, <3>2
  <2>17. Covers(b, F, J, F1)
    <3>1. ASSUME NEW y \in F
          PROVE  \E z \in F1 : z <= y /\ z + J[z].size >= y + b[y].size
                               /\ J[z].size >= b[y].size
      <4>1. CASE y = n
        <5>1. t \in F1
          BY <1>7, <2>12
        <5>2. J[t].size = b[t].size + b[y].size /\ y = t + b[t].size
          BY <1>12, <2>9, <4>1
        <5>3. b[y].size \in Nat
          BY <2>2, <4>1
        <5>4. t <= y /\ t + J[t].size >= y + b[y].size
              /\ J[t].size >= b[y].size
          BY <1>3, <1>4, <5>2, <5>3
        <5>5. QED
          BY <5>1, <5>4
      <4>2. CASE y # n
        <5>1. y \in F1 /\ J[y].size = b[y].size /\ y \in Nat /\ b[y].size \in Nat
          BY <1>1, <1>3, <2>11, <2>12, <4>2, TileFacts
        <5>2. y <= y /\ y + J[y].size >= y + b[y].size /\ J[y].size >= b[y].size
          BY <5>1
        <5>3. QED
          BY <5>1, <5>2
      <4>3. QED
        BY <4>1, <4>2
    <3>2. QED
      BY <3>1 DEF Covers
  <2>18. \A x \in F1 : x # t => J[x].size = b[x].size /\ x \in F
    BY <1>1, <2>11, <2>12
  <2>19. t \in F1 /\ p \in F1 \cup {NULL}
    BY <1>2, <1>7, <2>1, <2>11, <2>12
  <2>20. QED
    BY <1>2, <1>7, <2>11, <2>13, <2>15, <2>16, <2>17, <2>18, <2>19 DEF HalfFreed
<1>13. CASE ~(n # NULL /\ t + b[t].size = n)
  <2>1. J = [b EXCEPT ![t] = Free(b[t].size, n)]
    BY <1>13 DEF JoinNext
  <2>2. /\ J[t] = Free(b[t].size, n)
        /\ \A x \in Word : x # t => J[x] = b[x]
    BY <1>1, <1>3, <2>1
  <2>3. Free(b[t].size, n) \in BlockRecord
    BY <1>4, <1>7, <1>11 DEF Free, BlockRecord
  <2>4. J \in [Word -> BlockRecord]
    BY <1>1, <2>1, <2>3
  <2>5. J[t].size = b[t].size /\ J[t].next = n /\ J[t] # NoBlock /\ b[t] # NoBlock
    BY <1>3, <1>4, <2>2 DEF Free, NoBlock, Hd
  <2>6. Relinked(J, b)
    BY <2>2, <2>4, <2>5 DEF Relinked, Like
  <2>7. Tiles(J) /\ Hd(J) = Hd(b) /\ \A x \in Word : J[x].size = b[x].size
    BY <1>1, <2>6, TilesRelinked DEF Relinked, Like
  <2>8. F1 = F \cup {t}
    BY <1>1, <1>2, <1>3, <2>7 DEF Fr
  <2>9. \A x \in (F \cup {t}) \cup {NULL} : M[x] = L1[x]
    <3>1. ASSUME NEW x \in F, x # t PROVE M[x] = L1[x]
      BY <1>1, <1>3, <1>7, <2>2, <3>1 DEF WithLink, Links
    <3>2. M[NULL] = L1[NULL]
      BY <1>1, <1>3, <1>7 DEF WithLink, Links
    <3>3. M[t] = L1[t]
      BY <1>1, <1>3, <1>7, <2>5 DEF WithLink, Links
    <3>4. QED
      BY <3>1, <3>2, <3>3
  <2>10. Listed(F1, M)
    <3>1. PICK A, K, O : A = F \cup {t} /\ K = M /\ O = L1
      OBVIOUS
    <3>2. Listed(A, O) /\ \A x \in A \cup {NULL} : K[x] = O[x]
      BY <1>10, <2>9, <3>1
    <3>3. Listed(A, K)
      BY <3>2 DEF Listed
    <3>4. QED
      BY <2>8, <3>1, <3>3
  <2>11. ASSUME NEW x \in F1, x + J[x].size \in F1
         PROVE  x + J[x].size = t
    <3>1. CASE x = t
      <4>1. x + J[x].size = t + b[t].size
        BY <2>5, <3>1
      <4>2. t + b[t].size \in F => n # NULL /\ n <= t + b[t].size
        <5>1. SUFFICES ASSUME t + b[t].size \in F
                       PROVE  n # NULL /\ n <= t + b[t].size
          OBVIOUS
        <5>2. p < t + b[t].size /\ t + b[t].size \in Nat
          BY <1>2, <1>3, <1>4, <1>7
        <5>3. \E z \in F : p < z
          BY <5>1, <5>2
        <5>4. n # NULL
          <6>1. PICK z \in F : p < z
            BY <5>3
          <6>2. z \in Nat
            BY <1>1, PoolNumbers
          <6>3. QED
            BY <1>5, <1>7, <6>1, <6>2 DEF IsNext, NULL
        <5>5. n <= t + b[t].size
          BY <1>5, <5>1, <5>2, <5>4 DEF IsNext
        <5>6. QED
          BY <5>4, <5>5
      <4>3. n # NULL => t + b[t].size <= n
        BY <1>2, <1>4, <1>7
      <4>4. t + b[t].size \notin F
        BY <1>3, <1>4, <1>7, <1>13, <4>2, <4>3
      <4>5. QED
        BY <2>8, <2>11, <4>1, <4>4
    <3>2. CASE x # t
      <4>1. x \in F /\ J[x].size = b[x].size
        BY <1>1, <2>7, <2>8, <3>2
      <4>2. QED
        BY <1>1, <2>8, <2>11, <4>1
    <3>3. QED
      BY <3>1, <3>2
  <2>12. Covers(b, F, J, F1)
    <3>1. ASSUME NEW y \in F
          PROVE  \E z \in F1 : z <= y /\ z + J[z].size >= y + b[y].size
                               /\ J[z].size >= b[y].size
      <4>1. y \in F1 /\ J[y].size = b[y].size /\ y \in Nat /\ b[y].size \in Nat
        BY <1>1, <2>7, <2>8, TileFacts
      <4>2. y <= y /\ y + J[y].size >= y + b[y].size /\ J[y].size >= b[y].size
        BY <4>1
      <4>3. QED
        BY <4>1, <4>2
    <3>2. QED
      BY <3>1 DEF Covers
  <2>13. \A x \in F1 : x # t => J[x].size = b[x].size /\ x \in F
    BY <1>1, <2>7, <2>8
  <2>14. t \in F1 /\ p \in F1 \cup {NULL} /\ g \subseteq Hd(J)
    BY <1>1, <1>2, <2>7, <2>8
  <2>15. QED
    BY <1>2, <1>7, <2>7, <2>10, <2>11, <2>12, <2>13, <2>14 DEF HalfFreed
<1>14. QED
  BY <1>12, <1>13

FreeingTo(b, g, h, fr, p, t, J, F1) ==
  /\ Tiles(J) /\ h \subseteq Hd(J) /\ t \in F1 /\ t \in Hd(J)
  /\ F1 \subseteq Hd(J) /\ F1 \subseteq Word /\ Hd(J) \subseteq Word
  /\ t \in Word /\ t \in Nat /\ t >= 1 /\ J \in [Word -> BlockRecord]
  /\ p \in F1 \cup {NULL} /\ p # t /\ p < t /\ p \in Nat
  /\ \A x \in F1 : x # t => J[x].size = b[x].size /\ x \in Fr(b, g)
  /\ \A x \in F1 : x + J[x].size \in F1 => x + J[x].size = t
  /\ Listed(F1, WithLink(Links(J, fr), p, t))
  /\ Covers(b, Fr(b, g), J, F1)
  /\ \A x \in F1 : x \in Nat /\ x >= 1 /\ J[x].size \in Nat /\ J[x].size >= 1

LEMMA HalfFreedFacts ==
  ASSUME LwMemParameters, NEW b, NEW g, NEW h, NEW fr, NEW p, NEW t, NEW J,
         PoolOK(b, g, fr), HalfFreed(b, g, h, fr, p, t, J)
  PROVE  FreeingTo(b, g, h, fr, p, t, J, Fr(J, h))
<1> DEFINE F1 == Fr(J, h)
<1>1. /\ Tiles(J) /\ g \subseteq Hd(J) /\ t \in F1
      /\ p \in F1 \cup {NULL} /\ p # t /\ p < t
      /\ \A x \in F1 : x # t => J[x].size = b[x].size /\ x \in Fr(b, g)
      /\ \A x \in F1 : x + J[x].size \in F1 => x + J[x].size = t
      /\ Listed(F1, WithLink(Links(J, fr), p, t))
      /\ Covers(b, Fr(b, g), J, F1)
  BY DEF HalfFreed
<1>2. F1 \subseteq Hd(J) /\ Hd(J) \subseteq Word
  BY DEF Fr, Hd
<1>3. t \in Word /\ t \in Hd(J) /\ F1 \subseteq Word
  BY <1>1, <1>2
<1>4. t \in Nat /\ t >= 1 /\ p \in Nat
  BY <1>1, <1>3, PoolNumbers DEF NULL
<1>5. J \in [Word -> BlockRecord]
  BY <1>1 DEF Tiles
<1>6. h \subseteq Hd(J)
  BY <1>1 DEF HalfFreed
<1>7. \A x \in F1 : x \in Nat /\ x >= 1 /\ J[x].size \in Nat /\ J[x].size >= 1
  BY <1>1, <1>2, TileFacts
<1>8. QED
  BY <1>1, <1>2, <1>3, <1>4, <1>5, <1>6, <1>7 DEF FreeingTo

\* The block that is freed comes before every free one.
LEMMA FreeHead ==
  ASSUME LwMemParameters, NEW b, NEW g, NEW h, NEW fr, NEW t, NEW J,
         PoolOK(b, g, fr), HalfFreed(b, g, h, fr, NULL, t, J)
  PROVE  PoolOK(J, h, t)
<1> DEFINE F1 == Fr(J, h)
           M == WithLink(Links(J, fr), NULL, t)
<1>1. /\ Tiles(J) /\ h \subseteq Hd(J) /\ t \in F1 /\ t \in Hd(J)
      /\ F1 \subseteq Hd(J) /\ F1 \subseteq Word
      /\ t \in Word /\ t \in Nat /\ t >= 1
      /\ \A x \in F1 : x + J[x].size \in F1 => x + J[x].size = t
      /\ Listed(F1, M)
  BY HalfFreedFacts, PoolNumbers DEF FreeingTo
<1>2. \A x \in F1 \cup {NULL} : M[x] = Links(J, t)[x]
  BY <1>1, PoolNumbers DEF WithLink, Links
<1>3. Listed(F1, Links(J, t))
  BY <1>1, <1>2 DEF Listed
<1>4. \A x \in F1 : x \in Nat /\ J[x].size \in Nat /\ J[x].size >= 1
  BY HalfFreedFacts DEF FreeingTo
<1>5. IsNext(F1, NULL, t)
  BY <1>1, <1>3, PoolNumbers DEF Listed, Links
<1>6. \A x \in F1 : t <= x
  <2>1. ASSUME NEW x \in F1 PROVE t <= x
    <3>1. x \in Nat /\ 0 < x
      BY HalfFreedFacts DEF FreeingTo
    <3>2. QED
      BY <1>1, <1>5, <3>1 DEF IsNext, NULL
  <2>2. QED
    BY <2>1
<1>7. Apart(J, F1)
  <2>1. ASSUME NEW x \in F1 PROVE x + J[x].size \notin F1
    <3>1. t <= x /\ x \in Nat /\ J[x].size \in Nat /\ J[x].size >= 1
      BY <1>4, <1>6
    <3>2. x + J[x].size # t
      BY <1>1, <3>1
    <3>3. QED
      BY <1>1, <3>2
  <2>2. QED
    BY <2>1 DEF Apart
<1>8. t \in Ptr /\ h \subseteq Hd(J)
  BY <1>1, PoolNumbers
<1>9. QED
  BY <1>1, <1>3, <1>7, <1>8 DEF PoolOK

LEMMA CoversTransitive ==
  ASSUME LwMemParameters, NEW b, NEW F, NEW b1, NEW F1, NEW b2, NEW F2,
         \A x \in F : x \in Nat /\ b[x].size \in Nat,
         \A x \in F1 : x \in Nat /\ b1[x].size \in Nat,
         \A x \in F2 : x \in Nat /\ b2[x].size \in Nat,
         Covers(b, F, b1, F1), Covers(b1, F1, b2, F2)
  PROVE  Covers(b, F, b2, F2)
<1>1. ASSUME NEW y \in F
      PROVE  \E z \in F2 : z <= y /\ z + b2[z].size >= y + b[y].size
                           /\ b2[z].size >= b[y].size
  <2>1. PICK x \in F1 : x <= y /\ x + b1[x].size >= y + b[y].size
                        /\ b1[x].size >= b[y].size
    BY DEF Covers
  <2>2. PICK z \in F2 : z <= x /\ z + b2[z].size >= x + b1[x].size
                        /\ b2[z].size >= b1[x].size
    BY DEF Covers
  <2>3. /\ x \in Nat /\ b1[x].size \in Nat /\ y \in Nat /\ b[y].size \in Nat
        /\ z \in Nat /\ b2[z].size \in Nat
    OBVIOUS
  <2>4. z <= y /\ z + b2[z].size >= y + b[y].size /\ b2[z].size >= b[y].size
    BY <2>1, <2>2, <2>3
  <2>5. QED
    BY <2>4
<1>2. QED
  BY <1>1 DEF Covers

\* The block that is freed goes after the free one at f.
LEMMA FreeAfter ==
  ASSUME LwMemParameters, NEW b, NEW g, NEW h, NEW fr, NEW f, NEW t, NEW J,
         PoolOK(b, g, fr), HalfFreed(b, g, h, fr, f, t, J), f # NULL
  PROVE  /\ PoolOK(JoinPrevious(J, f, t), h, fr)
         /\ LET b2 == JoinPrevious(J, f, t)
            IN Covers(b, Fr(b, g), b2, Fr(b2, h))
<1> DEFINE F1 == Fr(J, h)
           M == WithLink(Links(J, fr), f, t)
           b2 == JoinPrevious(J, f, t)
           F2 == Fr(b2, h)
           L2 == Links(b2, fr)
<1>1. /\ Tiles(J) /\ h \subseteq Hd(J) /\ t \in F1 /\ t \in Hd(J)
      /\ F1 \subseteq Hd(J) /\ F1 \subseteq Word /\ Hd(J) \subseteq Word
      /\ t \in Word /\ t \in Nat /\ t >= 1 /\ J \in [Word -> BlockRecord]
      /\ f \in F1 /\ f # t /\ f < t /\ f \in Nat /\ f \in Hd(J) /\ f \in Word
      /\ \A x \in F1 : x + J[x].size \in F1 => x + J[x].size = t
      /\ Listed(F1, M)
      /\ Covers(b, Fr(b, g), J, F1)
  BY HalfFreedFacts, PoolNumbers DEF FreeingTo
<1>2. /\ J[f].size \in Nat /\ f + J[f].size <= End
      /\ f + J[f].size <= t /\ J[f].size >= 1 /\ f >= 1
  BY <1>1, TileFacts
<1>3. /\ J[t].size \in Nat /\ J[t].size >= 1 /\ t + J[t].size <= End
      /\ t + J[t].size \in Hd(J) \cup {End}
  BY <1>1, TileFacts
<1>4. fr \in Ptr /\ System \in Owner
  BY PoolFacts DEF Owner
<1>5. J[f] \in BlockRecord /\ J[t] \in BlockRecord
  BY <1>1
<1>6. J[f].size \in 0 .. PoolSize /\ J[f].next \in Ptr /\ J[f].owner \in Owner
      /\ J[t].next \in Ptr
  BY <1>5 DEF BlockRecord
<1>7. NULL \notin Word /\ NULL \in Ptr /\ Word \subseteq Ptr /\ End \notin Word
  BY PoolNumbers
<1>8. \A x \in F1 : x \in Nat /\ J[x].size \in Nat
  BY HalfFreedFacts DEF FreeingTo
<1>9. \A x \in Fr(b, g) : x \in Nat /\ b[x].size \in Nat
  BY PoolFacts, TileFacts
<1>10. h = g \ {t} /\ h \subseteq Hd(J) \ {t}
  BY <1>1 DEF HalfFreed
<1>11. CASE f + J[f].size = t
  <2>1. b2 = [J EXCEPT ![f] = Free(J[f].size + J[t].size, J[t].next), ![t] = NoBlock]
    BY <1>11 DEF JoinPrevious
  <2>2. /\ b2[f] = Free(J[f].size + J[t].size, J[t].next) /\ b2[t] = NoBlock
        /\ \A x \in Word : x # t /\ x # f => b2[x] = J[x]
    BY <1>1, <2>1
  <2>3. J[f].size + J[t].size \in 0 .. PoolSize
    BY <1>1, <1>2, <1>3, <1>11, PoolNumbers DEF End
  <2>4. /\ Free(J[f].size + J[t].size, J[t].next) \in BlockRecord
        /\ NoBlock \in BlockRecord
    BY <1>4, <1>6, <1>7, <2>3, PoolNumbers DEF Free, NoBlock, BlockRecord
  <2>5. b2 \in [Word -> BlockRecord]
    BY <1>1, <2>1, <2>4
  <2>6. b2[f].size = J[f].size + J[t].size /\ b2[f].next = J[t].next
    BY <2>2 DEF Free
  <2>7. Join(b2, J, f, t)
    BY <1>1, <1>11, <2>2, <2>5, <2>6 DEF Join, Like
  <2>8. /\ Tiles(b2) /\ Hd(b2) = Hd(J) \ {t}
        /\ \A x \in Hd(J) : x \notin {f, t} => b2[x].size = J[x].size
    BY <1>1, <2>7, TilesJoin
  <2>9. F2 = F1 \ {t}
    BY <1>1, <2>8 DEF Fr
  <2>10. Removes(F1, M, L2, f, t)
    <3>1. M[f] = t /\ L2[f] = M[t]
      BY <1>1, <1>7, <2>6 DEF WithLink, Links
    <3>2. \A x \in F1 \cup {NULL} : x \notin {f, t} => L2[x] = M[x]
      <4>1. ASSUME NEW x \in F1, x \notin {f, t} PROVE L2[x] = M[x]
        BY <1>1, <1>7, <2>2, <4>1 DEF WithLink, Links
      <4>2. L2[NULL] = M[NULL]
        BY <1>1, <1>7 DEF WithLink, Links
      <4>3. QED
        BY <4>1, <4>2
    <3>3. QED
      BY <1>1, <3>1, <3>2 DEF Removes
  <2>11. Listed(F2, L2)
    BY <1>1, <2>9, <2>10, ListedRemove
  <2>12. Apart(b2, F2)
    <3>1. ASSUME NEW x \in F1 \ {t} PROVE x + b2[x].size \notin F1 \ {t}
      <4>1. CASE x = f
        <5>1. x + b2[x].size = t + J[t].size
          BY <1>1, <1>2, <1>3, <1>11, <2>6, <4>1
        <5>2. QED
          BY <1>1, <1>3, <5>1
      <4>2. CASE x # f
        <5>1. b2[x].size = J[x].size
          BY <1>1, <2>8, <4>2
        <5>2. QED
          BY <1>1, <5>1
      <4>3. QED
        BY <4>1, <4>2
    <3>2. QED
      BY <2>9, <3>1 DEF Apart
  <2>13. Covers(J, F1, b2, F2)
    <3>1. ASSUME NEW y \in F1
          PROVE  \E z \in F2 : z <= y /\ z + b2[z].size >= y + J[y].size
                               /\ b2[z].size >= J[y].size
      <4>1. CASE y \in {t, f}
        <5>1. f \in F2
          BY <1>1, <2>9
        <5>2. y <= t /\ f <= y /\ y + J[y].size <= t + J[t].size
              /\ J[y].size <= J[f].size + J[t].size
          BY <1>1, <1>2, <1>3, <4>1
        <5>3. f + b2[f].size = t + J[t].size
          BY <1>1, <1>2, <1>3, <1>11, <2>6
        <5>4. f <= y /\ f + b2[f].size >= y + J[y].size
              /\ b2[f].size >= J[y].size
          BY <1>8, <2>6, <1>2, <1>3, <5>2, <5>3
        <5>5. QED
          BY <5>1, <5>4
      <4>2. CASE y \notin {t, f}
        <5>1. y \in F2 /\ b2[y].size = J[y].size /\ y \in Nat /\ J[y].size \in Nat
          BY <1>1, <1>8, <2>8, <2>9, <4>2
        <5>2. y <= y /\ y + b2[y].size >= y + J[y].size /\ b2[y].size >= J[y].size
          BY <5>1
        <5>3. QED
          BY <5>1, <5>2
      <4>3. QED
        BY <4>1, <4>2
    <3>2. QED
      BY <3>1 DEF Covers
  <2>14. \A x \in F2 : x \in Nat /\ b2[x].size \in Nat
    BY <1>1, <2>8, <2>9, TileFacts
  <2>15. Covers(b, Fr(b, g), b2, F2)
    BY <1>1, <1>8, <1>9, <2>13, <2>14, CoversTransitive
  <2>16. h \subseteq Hd(b2)
    BY <1>10, <2>8
  <2>17. QED
    BY <1>4, <2>8, <2>11, <2>12, <2>15, <2>16 DEF PoolOK
<1>12. CASE f + J[f].size # t
  <2>1. b2 = [J EXCEPT ![f].next = t]
    BY <1>12 DEF JoinPrevious
  <2>2. /\ b2[f] = [J[f] EXCEPT !.next = t]
        /\ \A x \in Word : x # f => b2[x] = J[x]
    BY <1>1, <2>1
  <2>3. b2[f] \in BlockRecord /\ b2[f].size = J[f].size /\ b2[f].next = t
    BY <1>1, <1>5, <1>7, <2>2 DEF BlockRecord
  <2>4. b2 \in [Word -> BlockRecord]
    BY <1>1, <2>1, <2>2, <2>3
  <2>5. b2[f] # NoBlock /\ J[f] # NoBlock
    BY <1>2, <2>3 DEF NoBlock
  <2>6. Relinked(b2, J)
    BY <2>2, <2>3, <2>4, <2>5 DEF Relinked, Like
  <2>7. Tiles(b2) /\ Hd(b2) = Hd(J) /\ \A x \in Word : b2[x].size = J[x].size
    BY <1>1, <2>6, TilesRelinked DEF Relinked, Like
  <2>8. F2 = F1
    BY <2>7 DEF Fr
  <2>9. \A x \in F1 \cup {NULL} : L2[x] = M[x]
    <3>1. ASSUME NEW x \in F1 PROVE L2[x] = M[x]
      BY <1>1, <1>7, <2>2, <2>3 DEF WithLink, Links
    <3>2. L2[NULL] = M[NULL]
      BY <1>1, <1>7 DEF WithLink, Links
    <3>3. QED
      BY <3>1, <3>2
  <2>10. Listed(F2, L2)
    BY <1>1, <2>8, <2>9 DEF Listed
  <2>11. IsNext(F1, f, t)
    <3>1. M[f] = t
      BY <1>1, <1>7 DEF WithLink
    <3>2. QED
      BY <1>1, <3>1 DEF Listed
  <2>12. Apart(b2, F2)
    <3>1. ASSUME NEW x \in F1 PROVE x + J[x].size \notin F1
      <4>1. SUFFICES ASSUME x + J[x].size \in F1
                     PROVE  FALSE
        OBVIOUS
      <4>2. x + J[x].size = t
        BY <1>1, <4>1
      <4>3. x # f /\ x \in Nat /\ x < t
        BY <1>1, <1>8, <1>12, <4>2, TileFacts
      <4>4. x < f
        BY <1>1, <1>7, <2>11, <4>3 DEF IsNext
      <4>5. x + J[x].size <= f
        BY <1>1, <4>4, TileFacts
      <4>6. QED
        BY <1>1, <4>2, <4>5
    <3>2. QED
      BY <1>1, <2>7, <2>8, <3>1 DEF Apart
  <2>13. Covers(b, Fr(b, g), b2, F2)
    <3>1. \A x \in F1 : b2[x].size = J[x].size
      BY <1>1, <2>7
    <3>2. QED
      BY <1>1, <2>8, <3>1 DEF Covers
  <2>14. QED
    BY <1>4, <1>10, <2>7, <2>10, <2>12, <2>13 DEF PoolOK
<1>13. QED
  BY <1>11, <1>12

-----------------------------------------------------------------------------
(* The calls in progress.                                                  *)

LEMMA FrontFacts ==
  ASSUME NEW S, NEW s \in Seq(S), s # <<>>
  PROVE  /\ Len(s) \in Nat /\ Len(s) >= 1
         /\ Front(s) \in Seq(S) /\ Len(Front(s)) = Len(s) - 1
         /\ DOMAIN Front(s) = 1 .. Len(s) - 1
         /\ \A i \in DOMAIN Front(s) : Front(s)[i] = s[i]
         /\ DOMAIN s = 1 .. Len(s)
         /\ Last(s) = s[Len(s)] /\ Last(s) \in S
<1>1. Len(s) \in Nat /\ Len(s) >= 1 /\ DOMAIN s = 1 .. Len(s)
  OBVIOUS
<1>2. Len(s) - 1 \in Nat /\ Len(s) - 1 <= Len(s)
  BY <1>1
<1>3. /\ Front(s) \in Seq(S) /\ Len(Front(s)) = Len(s) - 1
      /\ \A i \in 1 .. Len(s) - 1 : Front(s)[i] = s[i]
  BY <1>1, <1>2 DEF Front
<1>4. DOMAIN Front(s) = 1 .. Len(s) - 1
  BY <1>3
<1>5. Last(s) = s[Len(s)] /\ Last(s) \in S
  BY <1>1 DEF Last
<1>6. QED
  BY <1>1, <1>3, <1>4, <1>5

LEMMA AppendFacts ==
  ASSUME NEW S, NEW s \in Seq(S), NEW c \in S
  PROVE  /\ Len(s) \in Nat /\ DOMAIN s = 1 .. Len(s)
         /\ Append(s, c) \in Seq(S)
         /\ DOMAIN Append(s, c) = 1 .. Len(s) + 1
         /\ \A i \in DOMAIN s : Append(s, c)[i] = s[i]
         /\ Append(s, c)[Len(s) + 1] = c
BY DEF Append

\* A call by itself
CallOK(c, g) ==
  /\ c \in CallRecord
  /\ Allocates(c) => c.task \in Allocators /\ c.need >= MinBlock
  /\ c.op = "alloc" => c.target = NULL
  /\ c.op = "at" => c.target \in Word /\ c.target + c.need <= End
  /\ c.op = "free" => c.target \in g

Ordered(cs) ==
  \A i, j \in DOMAIN cs : i < j => Priority[cs[j].task] < Priority[cs[i].task]
FreesApart(cs) ==
  \A i, j \in DOMAIN cs :
    cs[i].op = "free" /\ cs[j].op = "free" /\ cs[i].target = cs[j].target => i = j

LEMMA StackParts ==
  ASSUME NEW cs, NEW g
  PROVE  StackOK(cs, g) <=>
           /\ cs \in Seq(CallRecord) /\ Ordered(cs) /\ FreesApart(cs)
           /\ \A i \in DOMAIN cs : CallOK(cs[i], g)
<1>1. cs \in Seq(CallRecord) => \A i \in DOMAIN cs : cs[i] \in CallRecord
  OBVIOUS
<1>2. QED
  BY <1>1 DEF StackOK, CallOK, Ordered, FreesApart

LEMMA StackPop ==
  ASSUME NEW cs, NEW g, NEW g2, StackOK(cs, g), cs # <<>>,
         \A i \in DOMAIN Front(cs) : cs[i].op = "free" => cs[i].target \in g2
  PROVE  StackOK(Front(cs), g2)
<1>1. /\ cs \in Seq(CallRecord) /\ Ordered(cs) /\ FreesApart(cs)
      /\ \A i \in DOMAIN cs : CallOK(cs[i], g)
  BY StackParts
<1>2. /\ Len(cs) \in Nat /\ Front(cs) \in Seq(CallRecord)
      /\ DOMAIN Front(cs) = 1 .. Len(cs) - 1 /\ DOMAIN cs = 1 .. Len(cs)
      /\ \A i \in DOMAIN Front(cs) : Front(cs)[i] = cs[i]
  BY <1>1, FrontFacts
<1>3. \A i \in DOMAIN Front(cs) : i \in DOMAIN cs
  BY <1>2
<1>4. Ordered(Front(cs))
  BY <1>1, <1>2, <1>3 DEF Ordered
<1>5. FreesApart(Front(cs))
  BY <1>1, <1>2, <1>3 DEF FreesApart
<1>6. \A i \in DOMAIN Front(cs) : CallOK(Front(cs)[i], g2)
  BY <1>1, <1>2, <1>3 DEF CallOK
<1>7. QED
  BY <1>2, <1>4, <1>5, <1>6, StackParts

LEMMA StackKeep ==
  ASSUME NEW cs, NEW g, NEW g2, StackOK(cs, g),
         \A i \in DOMAIN cs : cs[i].op = "free" => cs[i].target \in g2
  PROVE  StackOK(cs, g2)
BY DEF StackOK

LEMMA StackPush ==
  ASSUME LwMemParameters, NEW cs, NEW g, NEW c, StackOK(cs, g), CallOK(c, g),
         cs # <<>> => Priority[c.task] < Priority[Last(cs).task],
         c.op = "free" => \A i \in DOMAIN cs :
           cs[i].op = "free" => cs[i].target # c.target
  PROVE  StackOK(Append(cs, c), g)
<1> DEFINE n == Len(cs)
           ds == Append(cs, c)
<1>1. /\ cs \in Seq(CallRecord) /\ Ordered(cs) /\ FreesApart(cs)
      /\ \A i \in DOMAIN cs : CallOK(cs[i], g)
  BY StackParts
<1>2. c \in CallRecord
  BY DEF CallOK
<1>3. /\ n \in Nat /\ DOMAIN cs = 1 .. n /\ ds \in Seq(CallRecord)
      /\ DOMAIN ds = 1 .. n + 1 /\ ds[n + 1] = c
      /\ \A i \in DOMAIN cs : ds[i] = cs[i]
  BY <1>1, <1>2, AppendFacts
<1>4. \A i \in DOMAIN ds : i = n + 1 \/ (i \in DOMAIN cs /\ ds[i] = cs[i])
  BY <1>3
<1>5. ASSUME NEW i \in DOMAIN cs
      PROVE  Priority[c.task] < Priority[cs[i].task]
  <2>1. cs # <<>> /\ n >= 1 /\ i \in 1 .. n /\ n \in DOMAIN cs
    BY <1>3
  <2>2. Priority[c.task] < Priority[cs[n].task]
    BY <2>1, <1>1, FrontFacts
  <2>3. \A k \in DOMAIN cs : Priority[cs[k].task] \in Nat
      <3>1. \A k \in DOMAIN cs : cs[k] \in CallRecord
        BY <1>1 DEF CallOK
      <3>2. QED
        BY <3>1 DEF CallRecord, LwMemParameters
  <2>4. Priority[c.task] \in Nat
    BY <1>2 DEF CallRecord, LwMemParameters
  <2>5. i = n \/ Priority[cs[n].task] < Priority[cs[i].task]
    BY <1>1, <1>3, <2>1 DEF Ordered
  <2>6. QED
    BY <2>1, <2>2, <2>3, <2>4, <2>5
<1>6. Ordered(ds)
  <2>1. ASSUME NEW i \in DOMAIN ds, NEW j \in DOMAIN ds, i < j
        PROVE  Priority[ds[j].task] < Priority[ds[i].task]
    <3>1. i \in DOMAIN cs /\ ds[i] = cs[i]
      BY <1>3, <2>1
    <3>2. CASE j = n + 1
      BY <1>3, <1>5, <3>1, <3>2
    <3>3. CASE j \in DOMAIN cs
      BY <1>1, <1>3, <2>1, <3>1, <3>3 DEF Ordered
    <3>4. QED
      BY <1>4, <3>2, <3>3
  <2>2. QED
    BY <2>1 DEF Ordered
<1>7. FreesApart(ds)
  <2>1. ASSUME NEW i \in DOMAIN ds, NEW j \in DOMAIN ds,
               ds[i].op = "free", ds[j].op = "free", ds[i].target = ds[j].target
        PROVE  i = j
    <3>1. CASE i \in DOMAIN cs /\ j \in DOMAIN cs
      BY <1>1, <1>3, <2>1, <3>1 DEF FreesApart
    <3>2. CASE i = n + 1 /\ j \in DOMAIN cs
      BY <1>3, <2>1, <3>2
    <3>3. CASE i \in DOMAIN cs /\ j = n + 1
      BY <1>3, <2>1, <3>3
    <3>4. QED
      BY <1>4, <3>1, <3>2, <3>3
  <2>2. QED
    BY <2>1 DEF FreesApart
<1>8. \A i \in DOMAIN ds : CallOK(ds[i], g)
  BY <1>1, <1>3, <1>4
<1>9. QED
  BY <1>3, <1>6, <1>7, <1>8, StackParts

\* At most two tasks allocate.
TwoAllocate ==
  \A s, t, u \in Allocators : s = t \/ t = u \/ s = u

LEMMA AtMostTwo ==
  ASSUME LwMemParameters, TwoAllocate, NEW cs, NEW g, StackOK(cs, g),
         NEW i \in DOMAIN cs, NEW j \in DOMAIN cs, NEW k \in DOMAIN cs,
         i < j, j < k, Allocates(cs[i]), Allocates(cs[j]), Allocates(cs[k])
  PROVE  FALSE
<1>1. /\ cs[i].task \in Allocators /\ cs[j].task \in Allocators
      /\ cs[k].task \in Allocators
      /\ Priority[cs[j].task] < Priority[cs[i].task]
      /\ Priority[cs[k].task] < Priority[cs[j].task]
  BY DEF StackOK
<1>2. \A t \in Allocators : Priority[t] \in Nat
  BY DEF Allocators, LwMemParameters
<1>3. Priority[cs[k].task] < Priority[cs[i].task]
  BY <1>1, <1>2
<1>4. cs[i].task # cs[j].task /\ cs[j].task # cs[k].task /\ cs[i].task # cs[k].task
  BY <1>1, <1>2, <1>3
<1>5. QED
  BY <1>1, <1>4 DEF TwoAllocate

OneAlloc(cs) ==
  \A i, j \in DOMAIN cs : Allocates(cs[i]) /\ Allocates(cs[j]) => i = j

LEMMA OneAllocBelow ==
  ASSUME LwMemParameters, TwoAllocate, NEW cs, NEW g, StackOK(cs, g),
         cs # <<>>, Allocates(Last(cs))
  PROVE  OneAlloc(Front(cs))
<1>1. cs \in Seq(CallRecord)
  BY StackParts
<1>2. /\ Len(cs) \in Nat /\ DOMAIN Front(cs) = 1 .. Len(cs) - 1
      /\ \A i \in DOMAIN Front(cs) : Front(cs)[i] = cs[i]
      /\ DOMAIN cs = 1 .. Len(cs) /\ Last(cs) = cs[Len(cs)] /\ Len(cs) >= 1
  BY <1>1, FrontFacts
<1>3. ASSUME NEW i \in DOMAIN Front(cs), NEW j \in DOMAIN Front(cs),
             Allocates(cs[i]), Allocates(cs[j]), i < j
      PROVE  FALSE
  <2>1. i \in DOMAIN cs /\ j \in DOMAIN cs /\ Len(cs) \in DOMAIN cs /\ j < Len(cs)
    BY <1>2
  <2>2. QED
    BY <1>2, <1>3, <2>1, AtMostTwo
<1>4. \A i, j \in DOMAIN Front(cs) : Allocates(cs[i]) /\ Allocates(cs[j]) => i = j
  <2>1. \A i \in DOMAIN Front(cs) : i \in Nat
    BY <1>2
  <2>2. QED
    BY <1>3, <2>1
<1>5. QED
  BY <1>2, <1>4 DEF OneAlloc

LEMMA FreeWalkPop ==
  ASSUME NEW F, NEW fr, NEW cu, NEW cs, NEW S, cs \in Seq(S), cs # <<>>,
         Last(cs).op # "free", FreeWalk(F, fr, cu, cs)
  PROVE  FreeWalk(F, fr, cu, Front(cs))
<1>1. /\ Len(cs) \in Nat /\ DOMAIN Front(cs) = 1 .. Len(cs) - 1
      /\ \A i \in DOMAIN Front(cs) : Front(cs)[i] = cs[i]
      /\ DOMAIN cs = 1 .. Len(cs) /\ Last(cs) = cs[Len(cs)] /\ Len(cs) >= 1
  BY FrontFacts
<1>2. ASSUME NEW i \in DOMAIN Front(cs), TopFree(Front(cs), i)
      PROVE  i \in DOMAIN cs /\ TopFree(cs, i) /\ Front(cs)[i] = cs[i]
  <2>1. i \in DOMAIN cs /\ Front(cs)[i] = cs[i] /\ cs[i].op = "free"
    BY <1>1, <1>2 DEF TopFree
  <2>2. ASSUME NEW j \in DOMAIN cs, i < j
        PROVE  cs[j].op # "free"
    <3>1. CASE j = Len(cs)
      BY <1>1, <3>1
    <3>2. CASE j # Len(cs)
      BY <1>1, <1>2, <2>2, <3>2 DEF TopFree
    <3>3. QED
      BY <3>1, <3>2
  <2>3. QED
    BY <2>1, <2>2 DEF TopFree
<1>3. QED
  BY <1>2 DEF FreeWalk

LEMMA FreeWalkPush ==
  ASSUME NEW F, NEW fr, NEW cu, NEW cur2, NEW cs, NEW S, cs \in Seq(S),
         NEW c \in S, c.op # "free", cur2.free = cu.free,
         FreeWalk(F, fr, cu, cs)
  PROVE  FreeWalk(F, fr, cur2, Append(cs, c))
<1> DEFINE ds == Append(cs, c)
<1>1. /\ Len(cs) \in Nat /\ DOMAIN cs = 1 .. Len(cs)
      /\ DOMAIN ds = 1 .. Len(cs) + 1 /\ ds[Len(cs) + 1] = c
      /\ \A i \in DOMAIN cs : ds[i] = cs[i]
  BY AppendFacts
<1>2. ASSUME NEW i \in DOMAIN ds, TopFree(ds, i)
      PROVE  i \in DOMAIN cs /\ TopFree(cs, i) /\ ds[i] = cs[i]
  BY <1>1, <1>2 DEF TopFree
<1>3. QED
  BY <1>2 DEF FreeWalk

LEMMA AllocWalkPop ==
  ASSUME NEW b, NEW F, NEW fr, NEW cu, NEW cs, NEW S, cs \in Seq(S), cs # <<>>,
         ~Allocates(Last(cs)), AllocWalk(b, F, fr, cu, cs)
  PROVE  AllocWalk(b, F, fr, cu, Front(cs))
<1>1. /\ Len(cs) \in Nat /\ DOMAIN Front(cs) = 1 .. Len(cs) - 1
      /\ \A i \in DOMAIN Front(cs) : Front(cs)[i] = cs[i]
      /\ DOMAIN cs = 1 .. Len(cs) /\ Last(cs) = cs[Len(cs)] /\ Len(cs) >= 1
  BY FrontFacts
<1>2. ASSUME NEW i \in DOMAIN Front(cs), TopAlloc(Front(cs), i)
      PROVE  i \in DOMAIN cs /\ TopAlloc(cs, i) /\ Front(cs)[i] = cs[i]
  <2>1. i \in DOMAIN cs /\ Front(cs)[i] = cs[i] /\ Allocates(cs[i])
    BY <1>1, <1>2 DEF TopAlloc
  <2>2. ASSUME NEW j \in DOMAIN cs, i < j
        PROVE  ~Allocates(cs[j])
    <3>1. CASE j = Len(cs)
      BY <1>1, <3>1
    <3>2. CASE j # Len(cs)
      <4>1. j \in DOMAIN Front(cs)
        BY <1>1, <3>2
      <4>2. QED
        BY <1>1, <1>2, <2>2, <4>1 DEF TopAlloc
    <3>3. QED
      BY <3>1, <3>2
  <2>3. QED
    BY <2>1, <2>2 DEF TopAlloc
<1>3. \A i, j \in DOMAIN Front(cs) : j < i /\ Allocates(Front(cs)[j]) =>
        j \in DOMAIN cs /\ Allocates(cs[j])
  BY <1>1
<1>4. QED
  BY <1>1, <1>2, <1>3 DEF AllocWalk

LEMMA AllocWalkPush ==
  ASSUME NEW b, NEW F, NEW fr, NEW cu, NEW cur2, NEW cs, NEW S, cs \in Seq(S),
         NEW c \in S, ~Allocates(c), cur2.alloc = cu.alloc,
         AllocWalk(b, F, fr, cu, cs)
  PROVE  AllocWalk(b, F, fr, cur2, Append(cs, c))
<1> DEFINE ds == Append(cs, c)
<1>1. /\ Len(cs) \in Nat /\ DOMAIN cs = 1 .. Len(cs)
      /\ DOMAIN ds = 1 .. Len(cs) + 1 /\ ds[Len(cs) + 1] = c
      /\ \A i \in DOMAIN cs : ds[i] = cs[i]
  BY AppendFacts
<1>2. ASSUME NEW i \in DOMAIN ds, TopAlloc(ds, i)
      PROVE  /\ i \in DOMAIN cs /\ TopAlloc(cs, i) /\ ds[i] = cs[i]
             /\ \A j \in DOMAIN ds : j < i => j \in DOMAIN cs /\ ds[j] = cs[j]
  <2>1. i # Len(cs) + 1
    BY <1>1, <1>2 DEF TopAlloc
  <2>2. i \in DOMAIN cs /\ ds[i] = cs[i]
    BY <1>1, <2>1
  <2>3. TopAlloc(cs, i)
    BY <1>1, <1>2, <2>2 DEF TopAlloc
  <2>4. QED
    BY <1>1, <2>2, <2>3
<1>3. QED
  BY <1>2 DEF AllocWalk

\* Every change of the pool takes all cursors back.
Back(fr) == [alloc |-> fr, free |-> fr, test |-> fr, test2 |-> Start]

LEMMA BackOK ==
  ASSUME LwMemParameters, NEW b, NEW g, NEW fr, PoolOK(b, g, fr)
  PROVE  CursorsOK(Fr(b, g), fr, Back(fr), Hd(b))
BY PoolFacts, PoolNumbers DEF CursorsOK, Back, Tiles

\* Every member of the list is at its head or after it.
LEMMA HeadFirst ==
  ASSUME LwMemParameters, NEW b, NEW g, NEW fr, PoolOK(b, g, fr),
         NEW a \in Fr(b, g)
  PROVE  fr # NULL /\ fr \in Fr(b, g) /\ fr <= a
<1>1. IsNext(Fr(b, g), NULL, fr)
  BY PoolFacts
<1>2. a \in Nat /\ a >= 1
  BY PoolFacts, PoolNumbers
<1>3. QED
  BY <1>1, <1>2 DEF IsNext, NULL

LEMMA WalkersBack ==
  ASSUME LwMemParameters, NEW b, NEW g, NEW fr, PoolOK(b, g, fr), NEW cs,
         \A i \in DOMAIN cs :
           TopAlloc(cs, i) /\ (\E j \in DOMAIN cs : j < i /\ Allocates(cs[j])) =>
             \E a \in Fr(b, g) : FitsIn(b, a, cs[i])
  PROVE  Walkers(b, Fr(b, g), fr, Back(fr), cs)
<1>1. \A a \in Fr(b, g) : fr <= a /\ fr # NULL /\ ~(a < fr)
  <2>1. ASSUME NEW a \in Fr(b, g) PROVE fr <= a /\ fr # NULL /\ ~(a < fr)
    <3>1. a \in Nat /\ fr \in Nat
      BY PoolFacts, PoolNumbers
    <3>2. QED
      BY <3>1, HeadFirst
  <2>2. QED
    BY <2>1
<1>2. FreeWalk(Fr(b, g), fr, Back(fr), cs)
  BY DEF FreeWalk, Back
<1>3. AllocWalk(b, Fr(b, g), fr, Back(fr), cs)
  BY <1>1 DEF AllocWalk, Back
<1>4. QED
  BY <1>2, <1>3 DEF Walkers

LEMMA InvBack ==
  ASSUME LwMemParameters, NEW b, NEW g, NEW fr, PoolOK(b, g, fr), NEW cs,
         StackOK(cs, g),
         \A i \in DOMAIN cs :
           TopAlloc(cs, i) /\ (\E j \in DOMAIN cs : j < i /\ Allocates(cs[j])) =>
             \E a \in Fr(b, g) : FitsIn(b, a, cs[i])
  PROVE  InvOf(b, g, fr, Back(fr), cs)
BY BackOK, WalkersBack DEF InvOf

-----------------------------------------------------------------------------
(* The actions keep the invariant.                                         *)

LEMMA NeededFacts ==
  ASSUME LwMemParameters, NEW size \in Nat
  PROVE  Needed(size) \in Nat /\ Needed(size) >= MinBlock /\ Needed(size) >= 1
<1> DEFINE S == {size + Header, MinBlock}
           m == IF size + Header >= MinBlock THEN size + Header ELSE MinBlock
<1>1. size + Header \in Nat /\ MinBlock \in Nat /\ MinBlock >= 1
  BY DEF LwMemParameters
<1>2. m \in S /\ \A y \in S : m >= y
  BY <1>1
<1>3. Max(S) \in S /\ \A y \in S : Max(S) >= y
  BY <1>2 DEF Max
<1>4. Needed(size) \in {size + Header, MinBlock} /\ Needed(size) >= MinBlock
  BY <1>3 DEF Needed
<1>5. QED
  BY <1>1, <1>4

LEMMA InvInit ==
  ASSUME LwMemParameters, PoolInit
  PROVE  MemInv
<1>1. /\ PoolSize \in Nat /\ PoolSize >= MinBlock /\ MinBlock >= 1 /\ MinBlock \in Nat
      /\ System \in Owner /\ Start \in Word /\ Start \in Ptr /\ NULL \in Ptr
      /\ End = Start + PoolSize /\ Start = 1 /\ NULL = 0 /\ NULL \notin Word
  BY PoolNumbers DEF LwMemParameters, Owner, Start, End, NULL
<1>2. /\ block = [a \in Word |-> IF a = Start THEN Free(PoolSize, NULL) ELSE NoBlock]
      /\ free = Start /\ given = {} /\ stack = <<>> /\ alarm = FALSE
      /\ cursor = Back(Start)
  BY DEF PoolInit, Back
<1>3. Free(PoolSize, NULL) \in BlockRecord /\ NoBlock \in BlockRecord
      /\ Free(PoolSize, NULL) # NoBlock
  BY <1>1 DEF Free, NoBlock, BlockRecord
<1>4. block[Start].size = PoolSize /\ block[Start].next = NULL
  BY <1>1, <1>2 DEF Free
<1>5. Hd(block) = {Start} /\ Fr(block, given) = {Start}
  BY <1>1, <1>2, <1>3 DEF Hd, Fr
<1>6. Tiles(block)
  BY <1>1, <1>2, <1>3, <1>4, <1>5 DEF Tiles
<1>7. Apart(block, {Start})
  BY <1>1, <1>4 DEF Apart
<1>8. Listed({Start}, Links(block, Start))
  BY <1>1, <1>4 DEF Listed, Links, IsNext
<1>9. PoolOK(block, given, free)
  BY <1>1, <1>2, <1>5, <1>6, <1>7, <1>8 DEF PoolOK
<1>10. stack \in Seq(CallRecord) /\ DOMAIN stack = {}
  BY <1>2
<1>11. StackOK(stack, given)
  BY <1>10 DEF StackOK
<1>12. QED
  BY <1>2, <1>9, <1>10, <1>11, InvBack DEF MemInv

LEMMA StateFacts ==
  ASSUME MemInv
  PROVE  /\ Heads = Hd(block) /\ FreeHeads = Fr(block, given)
         /\ Heads \ given = Fr(block, given)
         /\ PoolOK(block, given, free) /\ StackOK(stack, given)
         /\ CursorsOK(Fr(block, given), free, cursor, Hd(block))
         /\ FreeWalk(Fr(block, given), free, cursor, stack)
         /\ AllocWalk(block, Fr(block, given), free, cursor, stack)
         /\ stack \in Seq(CallRecord)
         /\ \A a, c : Fits(a, c) <=> FitsIn(block, a, c)
BY DEF MemInv, InvOf, Walkers, Heads, Hd, FreeHeads, Fr, StackOK, Fits, FitsIn

\* An allocation is put on the stack.
LEMMA InvStartAny ==
  ASSUME LwMemParameters, Hopeless = {}, MemInv, NEW c, CallOK(c, given),
         Runs(c.task), MayStart(c), Allocates(c),
         stack' = Append(stack, c), cursor' = [cursor EXCEPT !.alloc = free],
         UNCHANGED <<block, free, given, alarm>>
  PROVE  MemInv'
<1> DEFINE F == Fr(block, given)
           n == Len(stack)
<1>1. /\ PoolOK(block, given, free) /\ StackOK(stack, given)
      /\ CursorsOK(F, free, cursor, Hd(block))
      /\ FreeWalk(F, free, cursor, stack)
      /\ AllocWalk(block, F, free, cursor, stack)
      /\ stack \in Seq(CallRecord)
      /\ Heads \ given = F /\ \A a : Fits(a, c) <=> FitsIn(block, a, c)
  BY StateFacts
<1>2. c \in CallRecord /\ c.op # "free"
  BY DEF CallOK, Allocates
<1>3. StackOK(stack', given)
  BY <1>1, <1>2, StackPush DEF Runs
<1>4. /\ n \in Nat /\ DOMAIN stack = 1 .. n
      /\ DOMAIN stack' = 1 .. n + 1 /\ stack'[n + 1] = c
      /\ \A i \in DOMAIN stack : stack'[i] = stack[i]
  BY <1>1, <1>2, AppendFacts
<1>5. cursor'.alloc = free /\ cursor'.free = cursor.free
      /\ cursor'.test = cursor.test /\ cursor'.test2 = cursor.test2
      /\ cursor' \in [alloc : Ptr, free : Ptr, test : Ptr, test2 : Word]
  BY <1>1, PoolFacts DEF CursorsOK
<1>6. FreeWalk(F, free, cursor', stack')
  BY <1>1, <1>2, <1>5, FreeWalkPush
<1>7. CursorsOK(F, free, cursor', Hd(block))
  BY <1>1, <1>5 DEF CursorsOK
<1>8. \A a \in F : free <= a /\ free # NULL /\ ~(a < free)
  <2>1. ASSUME NEW a \in F PROVE free <= a /\ free # NULL /\ ~(a < free)
    <3>1. a \in Nat /\ free \in Nat
      BY <1>1, PoolFacts, PoolNumbers
    <3>2. QED
      BY <1>1, <3>1, HeadFirst
  <2>2. QED
    BY <2>1
<1>9. ASSUME NEW i \in DOMAIN stack', TopAlloc(stack', i)
      PROVE  i = n + 1 /\ stack'[i] = c
  BY <1>4, <1>9 DEF TopAlloc
<1>10. (\E j \in DOMAIN stack' : j < n + 1 /\ Allocates(stack'[j])) =>
         \E a \in F : FitsIn(block, a, c)
  <2>1. SUFFICES ASSUME NEW j \in DOMAIN stack', j < n + 1, Allocates(stack'[j])
                 PROVE  \E a \in F : FitsIn(block, a, c)
    OBVIOUS
  <2>2. j \in DOMAIN stack /\ Allocates(stack[j])
    BY <1>4, <2>1
  <2>3. Allocating
    BY <2>2 DEF Allocating, Allocates
  <2>4. QED
    BY <1>1, <2>3 DEF MayStart
<1>11. AllocWalk(block, F, free, cursor', stack')
  <2>1. ASSUME NEW i \in DOMAIN stack', TopAlloc(stack', i)
        PROVE  /\ \/ cursor'.alloc = free
                  \/ cursor'.alloc \in F /\ stack'[i].prev \in F
                     /\ block[stack'[i].prev].next = cursor'.alloc
               /\ \A a \in F : a < cursor'.alloc => ~FitsIn(block, a, stack'[i])
               /\ (\E j \in DOMAIN stack' : j < i /\ Allocates(stack'[j])) =>
                    cursor'.alloc # NULL
                    /\ \E a \in F : cursor'.alloc <= a /\ FitsIn(block, a, stack'[i])
    BY <1>5, <1>8, <1>9, <1>10, <2>1
  <2>2. QED
    BY <2>1 DEF AllocWalk
<1>12. InvOf(block, given, free, cursor', stack')
  BY <1>1, <1>3, <1>6, <1>7, <1>11 DEF InvOf, Walkers
<1>13. QED
  BY <1>12 DEF MemInv

LEMMA InvStartAlloc ==
  ASSUME LwMemParameters, Hopeless = {}, MemInv, NEW t \in Task,
         NEW size \in Sizes, NEW owner \in {t, System}, StartAlloc(t, size, owner)
  PROVE  MemInv'
<1> DEFINE c == [op |-> "alloc", task |-> t, need |-> Needed(size),
                 owner |-> owner, prev |-> NULL, target |-> NULL]
<1>1. size \in Nat
  BY DEF LwMemParameters
<1>2. Needed(size) \in Nat /\ Needed(size) >= MinBlock
  BY <1>1, NeededFacts
<1>3. NULL \in Ptr /\ owner \in Owner
  BY PoolNumbers DEF Owner
<1>4. c \in CallRecord
  BY <1>2, <1>3 DEF CallRecord
<1>5. "alloc" \in MayDo[t] /\ Runs(t) /\ MayStart(c)
      /\ stack' = Append(stack, c) /\ cursor' = [cursor EXCEPT !.alloc = free]
      /\ UNCHANGED <<block, free, given, alarm>>
  BY DEF StartAlloc, Starts
<1>6. CallOK(c, given)
  BY <1>2, <1>4, <1>5 DEF CallOK, Allocates, Allocators
<1>7. QED
  BY <1>5, <1>6, InvStartAny DEF Allocates

LEMMA InvStartAllocAt ==
  ASSUME LwMemParameters, Hopeless = {}, MemInv, NEW t \in Task,
         NEW size \in Sizes, NEW owner \in {t, System}, NEW place \in Places,
         StartAllocAt(t, size, place, owner)
  PROVE  MemInv'
<1> DEFINE c == [op |-> "at", task |-> t, need |-> Needed(size),
                 owner |-> owner, prev |-> NULL, target |-> place]
<1>1. size \in Nat /\ place \in Word
  BY DEF LwMemParameters, Word, Start
<1>2. Needed(size) \in Nat /\ Needed(size) >= MinBlock
  BY <1>1, NeededFacts
<1>3. NULL \in Ptr /\ owner \in Owner /\ place \in Ptr
  BY <1>1, PoolNumbers DEF Owner
<1>4. c \in CallRecord
  BY <1>2, <1>3 DEF CallRecord
<1>5. "at" \in MayDo[t] /\ Runs(t) /\ MayStart(c) /\ place + Needed(size) <= End
      /\ stack' = Append(stack, c) /\ cursor' = [cursor EXCEPT !.alloc = free]
      /\ UNCHANGED <<block, free, given, alarm>>
  BY DEF StartAllocAt, Starts
<1>6. CallOK(c, given)
  BY <1>1, <1>2, <1>4, <1>5 DEF CallOK, Allocates, Allocators
<1>7. QED
  BY <1>5, <1>6, InvStartAny DEF Allocates

\* Where the allocation on top of the stack stands
LEMMA AtCursor ==
  ASSUME LwMemParameters, MemInv, Walks({"alloc", "at"}),
         NEW F, F = Fr(block, given), NEW a, a = cursor.alloc, NEW n, n = Len(stack)
  PROVE  /\ n \in DOMAIN stack /\ Top = stack[n] /\ Allocates(Top) /\ stack # <<>>
         /\ TopAlloc(stack, n) /\ CallOK(Top, given)
         /\ F \subseteq Word /\ F \subseteq Hd(block)
         /\ a # NULL => a \in F
         /\ a = NULL => F = {}
         /\ a # free => Top.prev \in F /\ block[Top.prev].next = a
         /\ \A x \in F : x < a => ~FitsIn(block, x, Top)
         /\ (\E j \in DOMAIN stack : j < n /\ Allocates(stack[j])) =>
              a # NULL /\ \E x \in F : a <= x /\ FitsIn(block, x, Top)
<1>1. /\ PoolOK(block, given, free) /\ StackOK(stack, given)
      /\ CursorsOK(F, free, cursor, Hd(block))
      /\ AllocWalk(block, F, free, cursor, stack)
      /\ stack \in Seq(CallRecord)
  BY StateFacts
<1>2. stack # <<>> /\ Allocates(Top) /\ Top = Last(stack)
  BY DEF Walks, Top, Allocates
<1>3. n \in Nat /\ n >= 1 /\ DOMAIN stack = 1 .. n /\ Top = stack[n] /\ n \in DOMAIN stack
  <2>1. /\ Len(stack) \in Nat /\ Len(stack) >= 1
        /\ DOMAIN stack = 1 .. Len(stack) /\ Last(stack) = stack[Len(stack)]
    BY <1>1, <1>2, FrontFacts
  <2>2. QED
    BY <1>2, <2>1
<1>4. TopAlloc(stack, n) /\ CallOK(Top, given)
  BY <1>1, <1>2, <1>3, StackParts DEF TopAlloc
<1>5. F \subseteq Word /\ F \subseteq Hd(block) /\ IsNext(F, NULL, free)
  BY <1>1, PoolFacts
<1>6. a = free \/ (a \in F /\ Top.prev \in F /\ block[Top.prev].next = a)
  BY <1>1, <1>3, <1>4 DEF AllocWalk
<1>7. free # NULL => free \in F
  BY <1>5 DEF IsNext
<1>8. NULL \notin Word
  BY PoolNumbers
<1>9. free = NULL => F = {}
  <2>1. ASSUME NEW x \in F PROVE x > 0 /\ x \in Nat
    BY <1>5, PoolNumbers
  <2>2. QED
    BY <1>5, <2>1 DEF IsNext, NULL
<1>10. a = NULL => F = {}
  BY <1>5, <1>6, <1>8, <1>9
<1>11. QED
  BY <1>1, <1>2, <1>3, <1>4, <1>5, <1>6, <1>7, <1>10 DEF AllocWalk

\* An allocation ends, and no other is below it or the other finds the
\* cursors at the head of the list.
LEMMA StackAfterAlloc ==
  ASSUME LwMemParameters, TwoAllocate, MemInv, Walks({"alloc", "at"}), EndCall,
         NEW g2, given \subseteq g2
  PROVE  StackOK(stack', g2) /\ OneAlloc(stack')
<1>1. StackOK(stack, given) /\ stack # <<>> /\ Allocates(Last(stack))
      /\ stack' = Front(stack) /\ stack \in Seq(CallRecord)
  BY StateFacts DEF Walks, Allocates, EndCall
<1>2. \A i \in DOMAIN Front(stack) : i \in DOMAIN stack
  BY <1>1, FrontFacts
<1>3. \A i \in DOMAIN stack : stack[i].op = "free" => stack[i].target \in g2
  BY <1>1 DEF StackOK
<1>4. QED
  BY <1>1, <1>2, <1>3, StackPop, OneAllocBelow

LEMMA InvTaken ==
  ASSUME LwMemParameters, TwoAllocate, MemInv, Walks({"alloc", "at"}), EndCall,
         given \subseteq given', PoolOK(block', given', free'), ResetCursors,
         UNCHANGED alarm
  PROVE  MemInv'
<1>1. StackOK(stack', given') /\ OneAlloc(stack')
  BY StackAfterAlloc
<1>2. cursor' = Back(free')
  BY DEF ResetCursors, Back
<1>3. ASSUME NEW i \in DOMAIN stack', TopAlloc(stack', i),
             NEW j \in DOMAIN stack', j < i, Allocates(stack'[j])
      PROVE  FALSE
  <2>1. i = j
    BY <1>1, <1>3 DEF OneAlloc, TopAlloc
  <2>2. stack' \in Seq(CallRecord)
    BY <1>1 DEF StackOK
  <2>3. i \in Nat /\ j \in Nat
    BY <2>2
  <2>4. QED
    BY <1>3, <2>1, <2>3
<1>4. InvOf(block', given', free', Back(free'), stack')
  BY <1>1, <1>3, InvBack
<1>5. QED
  BY <1>2, <1>4 DEF MemInv

LEMMA InvTake ==
  ASSUME LwMemParameters, TwoAllocate, MemInv, Walks({"alloc", "at"}), EndCall,
         NEW a, a = cursor.alloc, a # NULL, NEW c,
         c = [Top EXCEPT !.prev = IF a = free THEN a ELSE @],
         c.op = "alloc", Fits(a, c), Take(a, c), UNCHANGED alarm
  PROVE  MemInv'
<1> DEFINE F == Fr(block, given)
           need == c.need
           rest == block[a].size - need
           r == a + need
<1>1. /\ PoolOK(block, given, free) /\ Heads = Hd(block)
      /\ FitsIn(block, a, c)
  BY StateFacts
<1>2. /\ Tiles(block) /\ F \subseteq Hd(block) /\ F \subseteq Word
      /\ block \in [Word -> BlockRecord] /\ free \in Ptr
  BY <1>1, PoolFacts
<1>3. /\ Allocates(Top) /\ CallOK(Top, given) /\ a \in F
      /\ a # free => Top.prev \in F /\ block[Top.prev].next = a
  BY AtCursor
<1>4. /\ Top \in CallRecord /\ Top.need >= MinBlock
  BY <1>3 DEF CallOK
<1>5. /\ c.need = Top.need /\ c.owner = Top.owner
      /\ c.prev = IF a = free THEN a ELSE Top.prev
      /\ need \in Nat /\ need >= MinBlock /\ c.owner \in Owner
  BY <1>4 DEF CallRecord
<1>6. /\ a \in Nat /\ a >= 1 /\ a \in Word /\ a \in Hd(block)
      /\ block[a].size \in Nat /\ a + block[a].size <= End
      /\ \A x \in Hd(block) : a < x => a + block[a].size <= x
      /\ MinBlock \in Nat /\ MinBlock >= 1 /\ block[a].size >= 1
  BY <1>2, <1>3, TileFacts, PoolNumbers
<1>7. block[a].size >= need /\ rest \in Nat
  BY <1>1, <1>5, <1>6 DEF FitsIn
<1>8. /\ block[a] \in BlockRecord /\ block[a].next \in Ptr
      /\ block[a].size \in 0 .. PoolSize
  BY <1>2, <1>6 DEF BlockRecord
<1>9. Leads(block, F, a, free, c.prev) /\ (a # free => c.prev \in F /\ c.prev \in Heads)
  BY <1>1, <1>2, <1>3, <1>5 DEF Leads
<1>10. given' = given \cup {a} /\ ResetCursors
  BY DEF Take
<1>11. ASSUME rest >= MinBlock
       PROVE  PoolOK(block', given', free')
  <2>a. PICK l1 : l1 = [block EXCEPT ![a].size = need,
                                     ![r] = Free(rest, block[a].next)]
    OBVIOUS
  <2>b. PICK l3 : l3 = [l1 EXCEPT ![c.prev].next = r]
    OBVIOUS
  <2> DEFINE l2 == IF a = free THEN l1 ELSE l3
  <2>1. /\ free' = IF a = free THEN r ELSE free
        /\ block' = [l2 EXCEPT ![a] = InUse(l1[a].size, c.owner)]
    <3>1. PICK s : s = Split(a, c.need)
      OBVIOUS
    <3>2. s.list = l1 /\ s.next = r
      BY <1>11, <2>a, <3>1 DEF Split
    <3>3. /\ IF a = free THEN free' = s.next ELSE free' = free
          /\ block' = [IF a = free THEN s.list ELSE Linked(s.list, c.prev, s.next)
                         EXCEPT ![a] = InUse(s.list[a].size, c.owner)]
      BY <3>1 DEF Take
    <3>4. a # free => Linked(l1, c.prev, r) = [l1 EXCEPT ![c.prev].next = r]
      BY <1>9 DEF Linked
    <3>5. (IF a = free THEN s.list ELSE Linked(s.list, c.prev, s.next)) = l2
      BY <2>b, <3>2, <3>4
    <3>6. QED
      BY <3>2, <3>3, <3>5
  <2>2. r \in Nat /\ a < r /\ r < a + block[a].size /\ r \in Word
    BY <1>5, <1>6, <1>7, <1>11, PoolNumbers
  <2>3. r \notin Hd(block) /\ r # a
    BY <1>6, <2>2
  <2>4. rest \in 0 .. PoolSize /\ need \in 0 .. PoolSize /\ System \in Owner
        /\ r \in Ptr /\ NULL \in Ptr
    BY <1>5, <1>7, <1>8, <2>2, PoolNumbers DEF Owner
  <2>5. /\ l1[a] = [block[a] EXCEPT !.size = need]
        /\ l1[r] = Free(rest, block[a].next)
        /\ \A x \in Word : x # a /\ x # r => l1[x] = block[x]
    BY <1>2, <1>6, <2>2, <2>3, <2>a
  <2>6. l1[a] \in BlockRecord /\ l1[a].size = need /\ l1[r] \in BlockRecord
    BY <1>8, <2>4, <2>5 DEF BlockRecord, Free
  <2>7. l1 \in [Word -> BlockRecord]
    BY <1>2, <2>a, <2>5, <2>6
  <2>8. a # free => /\ c.prev \in Word /\ c.prev # r /\ c.prev # a
                    /\ l1[c.prev] = block[c.prev]
    <3>1. a # free => c.prev \in F /\ IsNext(F, c.prev, a)
      BY <1>1, <1>3, <1>5, <1>2, PoolFacts
    <3>2. a # free => c.prev # a
      BY <1>6, <3>1 DEF IsNext, NULL
    <3>3. QED
      BY <1>2, <2>3, <2>5, <3>1, <3>2
  <2>9. InUse(need, c.owner) \in BlockRecord
    BY <1>5, <2>4 DEF InUse, BlockRecord
  <2>10. CASE a = free
    <3>1. block' = [l1 EXCEPT ![a] = InUse(need, c.owner)] /\ free' = r
      BY <2>1, <2>6, <2>10, <2>b
    <3>2. /\ block'[a] = InUse(need, c.owner)
          /\ \A x \in Word : x # a => block'[x] = l1[x]
          /\ block' \in [Word -> BlockRecord]
      BY <1>6, <2>7, <2>9, <3>1
    <3>3. block'[a].size = need /\ block'[r].size = rest /\ block'[r].next = block[a].next
      BY <2>2, <2>3, <2>5, <3>2 DEF InUse, Free
    <3>4. Cut(block', block, a, need)
      BY <1>5, <1>6, <1>11, <2>5, <3>2, <3>3 DEF Cut, Like
    <3>5. Replaces(block, block', F, free, free', a, c.prev, r)
      BY <1>2, <2>3, <2>5, <2>10, <3>1, <3>2 DEF Replaces
    <3>6. QED
      BY <1>1, <1>3, <1>9, <1>10, <3>3, <3>4, <3>5, TakePart
  <2>11. CASE a # free
    <3>1. l2 = [l1 EXCEPT ![c.prev].next = r]
      BY <2>11, <2>b
    <3>2. /\ l2[c.prev] = [block[c.prev] EXCEPT !.next = r]
          /\ \A x \in Word : x # c.prev => l2[x] = l1[x]
      BY <2>7, <2>8, <2>11, <3>1
    <3>3. block[c.prev] \in BlockRecord /\ block[c.prev] # NoBlock
          /\ block[c.prev].size \in Nat /\ block[c.prev].size >= 1
      BY <1>2, <1>9, <2>8, <2>11, TileFacts DEF Hd
    <3>4. /\ l2[c.prev] \in BlockRecord
          /\ l2[c.prev].size = block[c.prev].size /\ l2[c.prev].next = r
          /\ l2[c.prev] # NoBlock
      BY <2>4, <3>2, <3>3 DEF BlockRecord, NoBlock
    <3>5. l2 \in [Word -> BlockRecord]
      BY <2>7, <2>8, <2>11, <3>1, <3>2, <3>4
    <3>6. block' = [l2 EXCEPT ![a] = InUse(need, c.owner)] /\ free' = free
      BY <2>1, <2>6, <2>11
    <3>7. /\ block'[a] = InUse(need, c.owner)
          /\ \A x \in Word : x # a => block'[x] = l2[x]
          /\ block' \in [Word -> BlockRecord]
      BY <1>6, <2>9, <3>5, <3>6
    <3>8. block'[a].size = need /\ block'[r].size = rest /\ block'[r].next = block[a].next
      BY <2>2, <2>3, <2>5, <2>8, <2>11, <3>2, <3>7 DEF InUse, Free
    <3>9. /\ block'[c.prev].next = r
          /\ Like(block', block, c.prev)
      BY <2>8, <2>11, <3>3, <3>4, <3>7 DEF Like
    <3>10. \A x \in Word : x \notin {a, r, c.prev} => block'[x] = block[x]
      BY <2>5, <3>2, <3>7
    <3>11. Cut(block', block, a, need)
      BY <1>5, <1>6, <1>11, <3>7, <3>8, <3>9, <3>10 DEF Cut, Like
    <3>12. Replaces(block, block', F, free, free', a, c.prev, r)
      BY <1>2, <2>3, <2>11, <3>6, <3>9, <3>10 DEF Replaces
    <3>13. QED
      BY <1>1, <1>3, <1>9, <1>10, <3>8, <3>11, <3>12, TakePart
  <2>12. QED
    BY <2>10, <2>11
<1>12. ASSUME ~(rest >= MinBlock)
       PROVE  PoolOK(block', given', free')
  <2> DEFINE n == block[a].next
  <2>b. PICK l3 : l3 = [block EXCEPT ![c.prev].next = n]
    OBVIOUS
  <2> DEFINE l2 == IF a = free THEN block ELSE l3
  <2>1. /\ free' = IF a = free THEN n ELSE free
        /\ block' = [l2 EXCEPT ![a] = InUse(block[a].size, c.owner)]
    <3>1. PICK s : s = Split(a, c.need)
      OBVIOUS
    <3>2. s.list = block /\ s.next = n
      BY <1>12, <3>1 DEF Split
    <3>3. /\ IF a = free THEN free' = s.next ELSE free' = free
          /\ block' = [IF a = free THEN s.list ELSE Linked(s.list, c.prev, s.next)
                         EXCEPT ![a] = InUse(s.list[a].size, c.owner)]
      BY <3>1 DEF Take
    <3>4. a # free => Linked(block, c.prev, n) = [block EXCEPT ![c.prev].next = n]
      BY <1>9 DEF Linked
    <3>5. (IF a = free THEN s.list ELSE Linked(s.list, c.prev, s.next)) = l2
      BY <2>b, <3>2, <3>4
    <3>6. QED
      BY <3>2, <3>3, <3>5
  <2>2. /\ InUse(block[a].size, c.owner) \in BlockRecord
        /\ InUse(block[a].size, c.owner) # NoBlock
        /\ InUse(block[a].size, c.owner).size = block[a].size
        /\ block[a] # NoBlock
    BY <1>5, <1>6, <1>8, PoolNumbers DEF InUse, BlockRecord, NoBlock
  <2>3. a # free => c.prev \in Word /\ c.prev # a
    <3>1. a # free => c.prev \in F /\ IsNext(F, c.prev, a)
      BY <1>1, <1>3, <1>5, <1>2, PoolFacts
    <3>2. QED
      BY <1>2, <1>6, <3>1 DEF IsNext, NULL
  <2>4. CASE a = free
    <3>1. block' = [block EXCEPT ![a] = InUse(block[a].size, c.owner)] /\ free' = n
      BY <2>1, <2>4, <2>b
    <3>2. /\ block'[a] = InUse(block[a].size, c.owner)
          /\ \A x \in Word : x # a => block'[x] = block[x]
          /\ block' \in [Word -> BlockRecord]
      BY <1>2, <1>6, <2>2, <3>1
    <3>3. Relinked(block', block)
      BY <2>2, <3>2 DEF Relinked, Like
    <3>4. Replaces(block, block', F, free, free', a, c.prev, n)
      BY <1>2, <2>4, <3>1, <3>2 DEF Replaces
    <3>5. QED
      BY <1>1, <1>3, <1>9, <1>10, <3>3, <3>4, TakeWhole
  <2>5. CASE a # free
    <3>1. l2 = [block EXCEPT ![c.prev].next = n]
      BY <2>5, <2>b
    <3>2. /\ l2[c.prev] = [block[c.prev] EXCEPT !.next = n]
          /\ \A x \in Word : x # c.prev => l2[x] = block[x]
      BY <1>2, <2>3, <2>5, <3>1
    <3>3. block[c.prev] \in BlockRecord /\ block[c.prev] # NoBlock
          /\ block[c.prev].size \in Nat /\ block[c.prev].size >= 1
      BY <1>2, <1>9, <2>3, <2>5, TileFacts DEF Hd
    <3>4. /\ l2[c.prev] \in BlockRecord
          /\ l2[c.prev].size = block[c.prev].size /\ l2[c.prev].next = n
          /\ l2[c.prev] # NoBlock
      BY <1>8, <3>2, <3>3 DEF BlockRecord, NoBlock
    <3>5. l2 \in [Word -> BlockRecord]
      BY <1>2, <2>3, <2>5, <3>1, <3>2, <3>4
    <3>6. block' = [l2 EXCEPT ![a] = InUse(block[a].size, c.owner)] /\ free' = free
      BY <2>1, <2>5
    <3>7. /\ block'[a] = InUse(block[a].size, c.owner)
          /\ \A x \in Word : x # a => block'[x] = l2[x]
          /\ block' \in [Word -> BlockRecord]
      BY <1>6, <2>2, <3>5, <3>6
    <3>8. /\ block'[c.prev].next = n /\ Like(block', block, c.prev)
          /\ Like(block', block, a)
      BY <2>2, <2>3, <2>5, <3>3, <3>4, <3>7 DEF Like
    <3>9. \A x \in Word : x \notin {a, c.prev} => block'[x] = block[x]
      BY <3>2, <3>7
    <3>10. Relinked(block', block)
      BY <3>7, <3>8, <3>9 DEF Relinked, Like
    <3>11. Replaces(block, block', F, free, free', a, c.prev, n)
      BY <1>2, <2>5, <3>6, <3>8, <3>9 DEF Replaces
    <3>12. QED
      BY <1>1, <1>3, <1>9, <1>10, <3>10, <3>11, TakeWhole
  <2>6. QED
    BY <2>4, <2>5
<1>13. PoolOK(block', given', free')
  BY <1>11, <1>12
<1>14. QED
  BY <1>10, <1>13, InvTaken

LEMMA InvTakeAt ==
  ASSUME LwMemParameters, TwoAllocate, MemInv, Walks({"alloc", "at"}), EndCall,
         NEW a, a = cursor.alloc, a # NULL, NEW c,
         c = [Top EXCEPT !.prev = IF a = free THEN a ELSE @],
         c.op # "alloc", Fits(a, c), TakeAt(a, c), UNCHANGED alarm
  PROVE  MemInv'
<1> DEFINE F == Fr(block, given)
           need == c.need
           q == c.target
           before == q - a
           rest == block[a].size - need - before
           r == q + need
<1>1. /\ PoolOK(block, given, free) /\ FitsIn(block, a, c)
  BY StateFacts
<1>2. /\ Tiles(block) /\ F \subseteq Hd(block) /\ F \subseteq Word
      /\ block \in [Word -> BlockRecord] /\ free \in Ptr
  BY <1>1, PoolFacts
<1>3. Allocates(Top) /\ CallOK(Top, given) /\ a \in F
  BY AtCursor
<1>4. Top \in CallRecord /\ Top.need >= MinBlock
  BY <1>3 DEF CallOK
<1>5. /\ c.op = Top.op /\ c.need = Top.need /\ c.owner = Top.owner
      /\ c.target = Top.target
      /\ need \in Nat /\ need >= MinBlock /\ c.owner \in Owner
  BY <1>4 DEF CallRecord
<1>6. c.op = "at" /\ q \in Word /\ q + need <= End
  BY <1>3, <1>5 DEF Allocates, CallOK
<1>7. /\ a \in Nat /\ a >= 1 /\ a \in Word /\ a \in Hd(block)
      /\ block[a].size \in Nat /\ a + block[a].size <= End
      /\ MinBlock \in Nat /\ MinBlock >= 1 /\ q \in Nat /\ End \in Nat
  BY <1>2, <1>3, <1>6, TileFacts, PoolNumbers
<1>8. a + MinBlock <= q /\ a + block[a].size >= q + need
  BY <1>1 DEF FitsIn
<1>9. /\ before \in Nat /\ before >= MinBlock /\ a + before = q /\ a # q
      /\ rest \in Nat /\ block[a].size - before = need + rest
      /\ r \in Nat /\ r # a /\ r # q
  BY <1>5, <1>7, <1>8
<1>10. /\ block[a] \in BlockRecord /\ block[a].next \in Ptr
       /\ block[a].size \in 0 .. PoolSize /\ System \in Owner /\ NULL \in Ptr
       /\ block[a] # NoBlock /\ PoolSize \in Nat
  BY <1>2, <1>7, PoolNumbers DEF BlockRecord, Owner, Hd
<1>11. /\ given' = given \cup {q} /\ ResetCursors /\ free' = free
  BY DEF TakeAt
<1>12. q \notin F
  <2>1. \A x \in Hd(block) : a < x => a + block[a].size <= x
    BY <1>7, <1>2, TileFacts
  <2>2. QED
    BY <1>2, <1>5, <1>7, <1>8, <1>9, <2>1
<1>13. before \in 0 .. PoolSize /\ need + rest \in 0 .. PoolSize
       /\ need \in 0 .. PoolSize /\ rest \in 0 .. PoolSize
  BY <1>5, <1>9, <1>7, <1>10
<1>14. ASSUME rest >= MinBlock
       PROVE  PoolOK(block', given', free')
  <2>1. r \in Word /\ r \in Ptr
    BY <1>5, <1>7, <1>8, <1>9, <1>14, PoolNumbers
  <2>2. /\ block'[a] = Free(before, r)
        /\ block'[q] = InUse(need, c.owner)
        /\ block'[r] = Free(rest, block[a].next)
        /\ \A x \in Word : x \notin {a, q, r} => block'[x] = block[x]
    BY <1>6, <1>7, <1>9, <1>14, <2>1 DEF TakeAt
  <2>3. /\ Free(before, r) \in BlockRecord /\ InUse(need, c.owner) \in BlockRecord
        /\ Free(rest, block[a].next) \in BlockRecord
    BY <1>5, <1>10, <1>13, <2>1 DEF Free, InUse, BlockRecord
  <2>4. block' \in [Word -> BlockRecord]
    <3>1. \A x \in Word : block'[x] \in BlockRecord
      BY <1>2, <2>2, <2>3
    <3>2. \E B : block' = [x \in Word |-> B[x]]
      <4>1. block' = [x \in Word |-> block'[x]]
        BY DEF TakeAt
      <4>2. QED
        BY <4>1
    <3>3. QED
      BY <3>1, <3>2
  <2>5. PICK b1 : b1 = [block EXCEPT ![a] = Free(before, block[a].next),
                                     ![q] = InUse(need + rest, c.owner)]
    OBVIOUS
  <2>6. /\ b1[a] = Free(before, block[a].next) /\ b1[q] = InUse(need + rest, c.owner)
        /\ \A x \in Word : x \notin {a, q} => b1[x] = block[x]
    BY <1>2, <1>6, <1>7, <1>9, <2>5
  <2>7. Free(before, block[a].next) \in BlockRecord
        /\ InUse(need + rest, c.owner) \in BlockRecord
    BY <1>5, <1>10, <1>13 DEF Free, InUse, BlockRecord
  <2>8. b1 \in [Word -> BlockRecord]
    BY <1>2, <2>5, <2>7
  <2>9. b1[a].size = before /\ b1[q].size = need + rest
    BY <2>6 DEF Free, InUse
  <2>10. Cut(b1, block, a, before)
    BY <1>5, <1>7, <1>9, <2>6, <2>8, <2>9 DEF Cut, Like
  <2>11. Hd(b1) = Hd(block) \cup {q}
    BY <1>2, <1>9, <2>10, TilesCut
  <2>12. /\ block'[a].size = before /\ block'[a].next = r
         /\ block'[q].size = need /\ block'[r].size = rest
         /\ block'[r].next = block[a].next
    BY <2>2 DEF Free, InUse
  <2>13. Like(block', b1, a)
    BY <1>7, <1>9, <2>2, <2>6, <2>9, <2>12 DEF Like, NoBlock
  <2>14. Cut(block', b1, q, need)
    <3>1. \A x \in Word \ {q, q + need} : Like(block', b1, x)
      BY <2>2, <2>6, <2>13 DEF Like
    <3>2. b1[q].size - need = rest
      BY <1>5, <1>9, <2>9
    <3>3. q \in Hd(b1)
      BY <2>11
    <3>4. QED
      BY <1>5, <1>14, <2>4, <2>12, <3>1, <3>2, <3>3 DEF Cut
  <2>15. \A x \in F \ {a} : block'[x].next = block[x].next
    <3>1. r \notin Hd(block)
      BY <1>2, <1>9, <2>10, <2>11, <2>14, TilesCut
    <3>2. QED
      BY <1>2, <1>12, <2>2, <3>1
  <2>16. PoolOK(block', given \cup {a + before}, free)
    <3>1. PICK n, m : n = before /\ m = need
      OBVIOUS
    <3>2. PICK r1 : r1 = r
      OBVIOUS
    <3>3. a + n = q /\ r1 = (a + n) + m
      BY <1>9, <3>1, <3>2
    <3>4. Cut(b1, block, a, n) /\ Cut(block', b1, a + n, m)
      BY <2>10, <2>14, <3>1, <3>3
    <3>5. block'[a].next = r1 /\ block'[r1].next = block[a].next
      BY <2>12, <3>2
    <3>6. PoolOK(block', given \cup {a + n}, free)
      <4>1. TakesMiddle(block, b1, block', given, free, a, n, m, r1)
        BY <1>1, <1>3, <2>15, <3>3, <3>4, <3>5 DEF TakesMiddle
      <4>2. QED
        BY <4>1, TakeMiddle
    <3>7. QED
      BY <3>1, <3>6
  <2>17. QED
    BY <1>9, <1>11, <2>16
<1>15. ASSUME ~(rest >= MinBlock)
       PROVE  PoolOK(block', given', free')
  <2>1. /\ block'[a] = Free(before, block[a].next)
        /\ block'[q] = InUse(need + rest, c.owner)
        /\ \A x \in Word : x \notin {a, q} => block'[x] = block[x]
    BY <1>6, <1>7, <1>9, <1>15 DEF TakeAt
  <2>2. Free(before, block[a].next) \in BlockRecord
        /\ InUse(need + rest, c.owner) \in BlockRecord
    BY <1>5, <1>10, <1>13 DEF Free, InUse, BlockRecord
  <2>3. block' \in [Word -> BlockRecord]
    <3>1. \A x \in Word : block'[x] \in BlockRecord
      BY <1>2, <2>1, <2>2
    <3>2. block' = [x \in Word |-> block'[x]]
      BY DEF TakeAt
    <3>3. QED
      BY <3>1, <3>2
  <2>4. /\ block'[a].size = before /\ block'[a].next = block[a].next
        /\ block'[q].size = need + rest
    BY <2>1 DEF Free, InUse
  <2>5. Cut(block', block, a, before)
    BY <1>5, <1>7, <1>9, <2>1, <2>3, <2>4 DEF Cut, Like
  <2>6. \A x \in F : block'[x].next = block[x].next
    BY <1>2, <1>12, <2>1, <2>4
  <2>7. PoolOK(block', given \cup {a + before}, free)
    BY <1>1, <1>3, <2>5, <2>6, TakeEnd
  <2>8. QED
    BY <1>9, <1>11, <2>7
<1>16. PoolOK(block', given', free')
  BY <1>14, <1>15
<1>17. given \subseteq given'
  BY <1>11
<1>18. QED
  BY <1>11, <1>16, <1>17, InvTaken

LEMMA InvAllocEnds ==
  ASSUME LwMemParameters, TwoAllocate, MemInv, Walks({"alloc", "at"}), EndCall,
         NEW F, F = Fr(block, given),
         \A x \in F : ~FitsIn(block, x, Top),
         UNCHANGED <<block, free, cursor, given, alarm>>
  PROVE  MemInv'
<1>1. /\ PoolOK(block, given, free) /\ StackOK(stack, given)
      /\ CursorsOK(F, free, cursor, Hd(block))
      /\ FreeWalk(F, free, cursor, stack)
      /\ stack \in Seq(CallRecord)
  BY StateFacts
<1>2. StackOK(stack', given)
  BY StackAfterAlloc
<1>3. /\ Len(stack) \in DOMAIN stack /\ stack # <<>> /\ Allocates(Top)
      /\ ~ \E j \in DOMAIN stack : j < Len(stack) /\ Allocates(stack[j])
  BY AtCursor
<1>4. /\ stack' = Front(stack) /\ Top = Last(stack) /\ Last(stack).op # "free"
  BY <1>3 DEF EndCall, Top, Allocates
<1>5. FreeWalk(F, free, cursor, stack')
  BY <1>1, <1>3, <1>4, FreeWalkPop
<1>6. \A i \in DOMAIN stack' : ~Allocates(stack'[i])
  <2>1. /\ Len(stack) \in Nat /\ DOMAIN stack' = 1 .. Len(stack) - 1
        /\ \A i \in DOMAIN stack' : stack'[i] = stack[i]
        /\ DOMAIN stack = 1 .. Len(stack)
    BY <1>1, <1>3, <1>4, FrontFacts
  <2>2. \A i \in DOMAIN stack' : i \in DOMAIN stack /\ i < Len(stack)
    BY <2>1
  <2>3. QED
    BY <1>3, <2>1, <2>2
<1>7. AllocWalk(block, F, free, cursor, stack')
  BY <1>6 DEF AllocWalk, TopAlloc
<1>8. InvOf(block, given, free, cursor, stack')
  BY <1>1, <1>2, <1>5, <1>7 DEF InvOf, Walkers
<1>9. QED
  BY <1>8 DEF MemInv

LEMMA InvAllocOn ==
  ASSUME LwMemParameters, MemInv, Walks({"alloc", "at"}),
         NEW a, a = cursor.alloc, a # NULL, NEW c,
         c = [Top EXCEPT !.prev = IF a = free THEN a ELSE @],
         ~Fits(a, c), block[a].next # NULL,
         Window([c EXCEPT !.prev = a]),
         cursor' = [cursor EXCEPT !.alloc = block[a].next],
         UNCHANGED <<block, free, given, alarm>>
  PROVE  MemInv'
<1> DEFINE F == Fr(block, given)
           N == Len(stack)
           n == block[a].next
           fs == Front(stack)
<1>1. /\ PoolOK(block, given, free) /\ StackOK(stack, given)
      /\ CursorsOK(F, free, cursor, Hd(block))
      /\ FreeWalk(F, free, cursor, stack)
      /\ stack \in Seq(CallRecord)
      /\ ~FitsIn(block, a, c)
  BY StateFacts
<1>2. /\ N \in DOMAIN stack /\ Top = stack[N] /\ Allocates(Top) /\ stack # <<>>
      /\ CallOK(Top, given) /\ a \in F
      /\ \A x \in F : x < a => ~FitsIn(block, x, Top)
      /\ (\E j \in DOMAIN stack : j < N /\ Allocates(stack[j])) =>
           \E x \in F : a <= x /\ FitsIn(block, x, Top)
  BY AtCursor
<1>3. PICK d : d = [c EXCEPT !.prev = a]
  OBVIOUS
<1>4. Top \in CallRecord /\ Top = Last(stack)
  BY <1>2 DEF CallOK, Top
<1>5. /\ F \subseteq Word /\ a \in Ptr /\ a \in Nat /\ a \in Word
      /\ IsNext(F, a, n) /\ block \in [Word -> BlockRecord]
      /\ \A x \in F : x \in Nat
  <2>1. /\ F \subseteq Word /\ \A x \in F \cup {NULL} : IsNext(F, x, Links(block, free)[x])
        /\ \A x \in Word : Links(block, free)[x] = block[x].next
        /\ block \in [Word -> BlockRecord]
    BY <1>1, PoolFacts
  <2>2. QED
    BY <1>2, <2>1, PoolNumbers
<1>6. n \in F /\ a < n /\ (\A x \in F : a < x => n <= x) /\ n \in Ptr
      /\ n \in Nat
  BY <1>5, PoolNumbers DEF IsNext
<1>7. /\ d \in CallRecord /\ d.op = Top.op /\ d.task = Top.task
      /\ d.need = Top.need /\ d.target = Top.target /\ d.prev = a
  <2>1. c \in CallRecord /\ c.op = Top.op /\ c.task = Top.task
        /\ c.need = Top.need /\ c.target = Top.target
    BY <1>4, <1>5 DEF CallRecord
  <2>2. QED
    BY <1>3, <1>5, <2>1 DEF CallRecord
<1>8. \A x : (FitsIn(block, x, d) <=> FitsIn(block, x, Top))
             /\ (FitsIn(block, x, c) <=> FitsIn(block, x, Top))
  <2>1. c.op = Top.op /\ c.need = Top.need /\ c.target = Top.target
    BY <1>4 DEF CallRecord
  <2>2. QED
    BY <1>7, <2>1 DEF FitsIn
<1>9. stack' = Append(fs, d)
  BY <1>3 DEF Window
<1>10. /\ N \in Nat /\ N >= 1 /\ fs \in Seq(CallRecord) /\ Len(fs) = N - 1
       /\ DOMAIN fs = 1 .. N - 1 /\ DOMAIN stack = 1 .. N
       /\ \A i \in DOMAIN fs : fs[i] = stack[i]
  BY <1>1, <1>2, FrontFacts
<1>11. /\ DOMAIN stack' = 1 .. N /\ stack'[N] = d
       /\ \A i \in 1 .. N - 1 : stack'[i] = stack[i]
  <2>1. /\ DOMAIN stack' = 1 .. Len(fs) + 1 /\ stack'[Len(fs) + 1] = d
        /\ \A i \in DOMAIN fs : stack'[i] = fs[i]
    BY <1>7, <1>9, <1>10, AppendFacts
  <2>2. QED
    BY <1>10, <2>1
<1>12. StackOK(fs, given)
  <2>1. \A i \in DOMAIN fs : stack[i].op = "free" => stack[i].target \in given
    BY <1>1, <1>10 DEF StackOK
  <2>2. QED
    BY <1>1, <1>2, <2>1, StackPop
<1>13. fs # <<>> => Priority[d.task] < Priority[Last(fs).task]
  <2>1. SUFFICES ASSUME fs # <<>> PROVE Priority[d.task] < Priority[Last(fs).task]
    OBVIOUS
  <2>2. Last(fs) = fs[N - 1] /\ N - 1 >= 1
    BY <1>10, <2>1, FrontFacts
  <2>3. N - 1 \in DOMAIN stack /\ N - 1 \in DOMAIN fs /\ N - 1 < N
    BY <1>10, <2>2
  <2>4. Priority[stack[N].task] < Priority[stack[N - 1].task]
    BY <1>1, <1>2, <2>3 DEF StackOK
  <2>5. QED
    BY <1>2, <1>7, <1>10, <2>2, <2>3, <2>4
<1>14. CallOK(d, given) /\ d.op # "free"
  BY <1>2, <1>7 DEF CallOK, Allocates
<1>15. StackOK(stack', given)
  BY <1>9, <1>12, <1>13, <1>14, StackPush
<1>16. cursor'.alloc = n /\ cursor'.free = cursor.free
       /\ cursor'.test = cursor.test /\ cursor'.test2 = cursor.test2
       /\ cursor' \in [alloc : Ptr, free : Ptr, test : Ptr, test2 : Word]
  BY <1>1, <1>6 DEF CursorsOK
<1>17. CursorsOK(F, free, cursor', Hd(block))
  BY <1>1, <1>6, <1>16 DEF CursorsOK
<1>18. FreeWalk(F, free, cursor', stack')
  <2>1. FreeWalk(F, free, cursor, fs)
    BY <1>1, <1>2, <1>4, FreeWalkPop DEF Allocates
  <2>2. QED
    BY <1>7, <1>9, <1>10, <1>14, <1>16, <2>1, FreeWalkPush
<1>19. ASSUME NEW i \in DOMAIN stack', TopAlloc(stack', i)
       PROVE  i = N /\ stack'[i] = d
  <2>1. Allocates(stack'[N]) /\ N \in DOMAIN stack'
    BY <1>2, <1>7, <1>10, <1>11 DEF Allocates
  <2>2. QED
    BY <1>10, <1>11, <1>19, <2>1 DEF TopAlloc
<1>20. \A x \in F : x < n => ~FitsIn(block, x, d)
  <2>1. ASSUME NEW x \in F, x < n PROVE ~FitsIn(block, x, d)
    <3>1. x \in Nat /\ x <= a
      BY <1>5, <1>6, <2>1
    <3>2. x < a \/ x = a
      BY <1>5, <3>1
    <3>3. QED
      BY <1>1, <1>2, <1>8, <3>2
  <2>2. QED
    BY <2>1
<1>21. (\E j \in DOMAIN stack' : j < N /\ Allocates(stack'[j])) =>
         \E x \in F : n <= x /\ FitsIn(block, x, d)
  <2>1. SUFFICES ASSUME NEW j \in DOMAIN stack', j < N, Allocates(stack'[j])
                 PROVE  \E x \in F : n <= x /\ FitsIn(block, x, d)
    OBVIOUS
  <2>2. j \in DOMAIN stack /\ Allocates(stack[j])
    BY <1>10, <1>11, <2>1
  <2>3. PICK x \in F : a <= x /\ FitsIn(block, x, Top)
    BY <1>2, <2>1, <2>2
  <2>4. x # a
    BY <1>1, <1>8, <2>3
  <2>5. n <= x
    BY <1>5, <1>6, <2>3, <2>4
  <2>6. QED
    BY <1>8, <2>3, <2>5
<1>22. n # NULL
  OBVIOUS
<1>23. AllocWalk(block, F, free, cursor', stack')
  <2>1. ASSUME NEW i \in DOMAIN stack', TopAlloc(stack', i)
        PROVE  /\ \/ cursor'.alloc = free
                  \/ cursor'.alloc \in F /\ stack'[i].prev \in F
                     /\ block[stack'[i].prev].next = cursor'.alloc
               /\ \A x \in F : x < cursor'.alloc => ~FitsIn(block, x, stack'[i])
               /\ (\E j \in DOMAIN stack' : j < i /\ Allocates(stack'[j])) =>
                    cursor'.alloc # NULL
                    /\ \E x \in F : cursor'.alloc <= x /\ FitsIn(block, x, stack'[i])
    <3>1. i = N /\ stack'[i] = d
      BY <1>19, <2>1
    <3>2. stack'[i].prev = a
      BY <1>7, <3>1
    <3>3. QED
      BY <1>2, <1>6, <1>16, <1>20, <1>21, <1>22, <3>1, <3>2
  <2>2. QED
    BY <2>1 DEF AllocWalk
<1>24. InvOf(block, given, free, cursor', stack')
  BY <1>1, <1>15, <1>17, <1>18, <1>23 DEF InvOf, Walkers
<1>25. QED
  BY <1>24 DEF MemInv

LEMMA InvAllocRound ==
  ASSUME LwMemParameters, TwoAllocate, MemInv, AllocRound
  PROVE  MemInv'
<1> DEFINE F == Fr(block, given)
           a == cursor.alloc
           c == [Top EXCEPT !.prev = IF a = free THEN a ELSE @]
<1>1. Walks({"alloc", "at"}) /\ UNCHANGED alarm
  BY DEF AllocRound
<1>2. CASE a = NULL /\ EndCall /\ UNCHANGED <<block, free, cursor, given>>
  <2>1. F = {}
    BY <1>1, <1>2, AtCursor
  <2>2. QED
    BY <1>1, <1>2, <2>1, InvAllocEnds
<1>3. CASE a # NULL /\ Fits(a, c) /\ EndCall
           /\ (IF c.op = "alloc" THEN Take(a, c) ELSE TakeAt(a, c))
  <2>1. CASE c.op = "alloc"
    BY <1>1, <1>3, <2>1, InvTake
  <2>2. CASE c.op # "alloc"
    BY <1>1, <1>3, <2>2, InvTakeAt
  <2>3. QED
    BY <2>1, <2>2
<1>4. CASE a # NULL /\ ~Fits(a, c) /\ block[a].next = NULL /\ EndCall
           /\ UNCHANGED <<block, free, cursor, given>>
  <2>1. /\ a \in F /\ Allocates(Top) /\ CallOK(Top, given)
        /\ \A x \in F : x < a => ~FitsIn(block, x, Top)
    BY <1>1, <1>4, AtCursor
  <2>2. /\ PoolOK(block, given, free) /\ ~FitsIn(block, a, c)
    BY <1>4, StateFacts
  <2>3. /\ IsNext(F, a, block[a].next) /\ \A x \in F : x \in Nat
    <3>1. /\ F \subseteq Word /\ \A x \in F \cup {NULL} : IsNext(F, x, Links(block, free)[x])
          /\ \A x \in Word : Links(block, free)[x] = block[x].next
      BY <2>2, PoolFacts
    <3>2. QED
      BY <2>1, <3>1, PoolNumbers
  <2>4. \A x \in F : x <= a
    BY <1>4, <2>3, PoolNumbers, StateFacts, PoolFacts DEF IsNext
  <2>5. ~FitsIn(block, a, Top)
    <3>1. Top \in CallRecord
      BY <2>1 DEF CallOK
    <3>2. c.op = Top.op /\ c.need = Top.need /\ c.target = Top.target
      BY <3>1 DEF CallRecord
    <3>3. QED
      BY <2>2, <3>2 DEF FitsIn
  <2>6. \A x \in F : ~FitsIn(block, x, Top)
    <3>1. ASSUME NEW x \in F PROVE x < a \/ x = a
      BY <2>1, <2>3, <2>4
    <3>2. QED
      BY <2>1, <2>5, <3>1
  <2>7. QED
    BY <1>1, <1>4, <2>6, InvAllocEnds
<1>5. CASE a # NULL /\ ~Fits(a, c) /\ block[a].next # NULL
           /\ Window([c EXCEPT !.prev = a])
           /\ cursor' = [cursor EXCEPT !.alloc = block[a].next]
           /\ UNCHANGED <<block, free, given>>
  BY <1>1, <1>5, InvAllocOn
<1>6. QED
  BY <1>2, <1>3, <1>4, <1>5 DEF AllocRound

LEMMA CoversFits ==
  ASSUME LwMemParameters, NEW b, NEW F, NEW b2, NEW F2, Covers(b, F, b2, F2),
         NEW c \in CallRecord, NEW a \in F, FitsIn(b, a, c),
         a \in Nat, b[a].size \in Nat,
         \A z \in F2 : z \in Nat /\ b2[z].size \in Nat
  PROVE  \E z \in F2 : FitsIn(b2, z, c)
<1>1. PICK z \in F2 : z <= a /\ z + b2[z].size >= a + b[a].size
                      /\ b2[z].size >= b[a].size
  BY DEF Covers
<1>2. c.need \in Nat /\ c.target \in Nat /\ MinBlock \in Nat
  BY PoolNumbers DEF CallRecord
<1>3. FitsIn(b2, z, c)
  BY <1>1, <1>2 DEF FitsIn
<1>4. QED
  BY <1>3

\* Block t has been freed and the call returns to the calls below.
LEMMA InvFreed ==
  ASSUME LwMemParameters, MemInv, NEW below, NEW t,
         StackOK(below, given), stack' = below,
         \A i \in DOMAIN below : below[i].op = "free" => below[i].target # t,
         AllocWalk(block, Fr(block, given), free, cursor, below),
         given' = given \ {t}, PoolOK(block', given', free'),
         Covers(block, Fr(block, given), block', Fr(block', given')),
         ResetCursors, UNCHANGED alarm
  PROVE  MemInv'
<1> DEFINE F == Fr(block, given)
           F2 == Fr(block', given')
<1>1. PoolOK(block, given, free)
  BY StateFacts
<1>2. \A a \in F : a \in Nat /\ block[a].size \in Nat
  BY <1>1, PoolFacts, TileFacts
<1>3. \A a \in F2 : a \in Nat /\ block'[a].size \in Nat
  BY PoolFacts, TileFacts
<1>4. \A i \in DOMAIN below : below[i].op = "free" => below[i].target \in given'
  BY DEF StackOK
<1>5. StackOK(stack', given')
  BY <1>4, StackKeep
<1>6. ASSUME NEW i \in DOMAIN stack', TopAlloc(stack', i),
             \E j \in DOMAIN stack' : j < i /\ Allocates(stack'[j])
      PROVE  \E z \in F2 : FitsIn(block', z, stack'[i])
  <2>1. PICK a \in F : FitsIn(block, a, stack'[i])
    BY <1>6 DEF AllocWalk
  <2>2. stack'[i] \in CallRecord
    BY <1>5, StackParts
  <2>3. PICK b, b2, G, G2, c : b = block /\ b2 = block' /\ G = F /\ G2 = F2 /\ c = stack'[i]
    OBVIOUS
  <2>4. /\ Covers(b, G, b2, G2) /\ c \in CallRecord /\ a \in G /\ FitsIn(b, a, c)
        /\ a \in Nat /\ b[a].size \in Nat
        /\ \A z \in G2 : z \in Nat /\ b2[z].size \in Nat
    BY <1>2, <1>3, <2>1, <2>2, <2>3
  <2>5. \E z \in G2 : FitsIn(b2, z, c)
    BY <2>4, CoversFits
  <2>6. QED
    BY <2>3, <2>5
<1>7. InvOf(block', given', free', Back(free'), stack')
  <2>1. PICK b, g, fr, cs : b = block' /\ g = given' /\ fr = free' /\ cs = stack'
    OBVIOUS
  <2>2. PoolOK(b, g, fr) /\ StackOK(cs, g)
    BY <1>5, <2>1
  <2>3. \A i \in DOMAIN cs :
          TopAlloc(cs, i) /\ (\E j \in DOMAIN cs : j < i /\ Allocates(cs[j])) =>
            \E a \in Fr(b, g) : FitsIn(b, a, cs[i])
    BY <1>6, <2>1, Zenon
  <2>4. InvOf(b, g, fr, Back(fr), cs)
    BY <2>2, <2>3, InvBack
  <2>5. QED
    BY <2>1, <2>4
<1>8. cursor' = Back(free')
  BY DEF ResetCursors, Back
<1>9. QED
  BY <1>7, <1>8 DEF MemInv

LEMMA InvFreeRound ==
  ASSUME LwMemParameters, MemInv, NEW below, NEW c, NEW f,
         FreeRound(f, c, below), UNCHANGED alarm,
         c.op = "free", CallOK(c, given), StackOK(below, given),
         below # <<>> => Priority[c.task] < Priority[Last(below).task],
         \A i \in DOMAIN below : below[i].op = "free" => below[i].target # c.target,
         AllocWalk(block, Fr(block, given), free, cursor, below),
         f = free \/ (f \in Fr(block, given) /\ f < c.target)
  PROVE  MemInv'
<1> DEFINE F == Fr(block, given)
           L == Links(block, free)
           t == c.target
           n == block[f].next
<1>1. PoolOK(block, given, free) /\ CursorsOK(F, free, cursor, Hd(block))
  BY StateFacts
<1>2. /\ F \subseteq Word /\ L[NULL] = free /\ given \subseteq Hd(block)
      /\ \A x \in Word : L[x] = block[x].next
      /\ \A x \in F \cup {NULL} : IsNext(F, x, L[x])
      /\ block \in [Word -> BlockRecord] /\ free \in Ptr /\ Hd(block) \subseteq Word
  BY <1>1, PoolFacts
<1>3. t \in given /\ c \in CallRecord
  BY DEF CallOK
<1>4. t \in Word /\ t \in Nat /\ t >= 1 /\ free \in Nat
  BY <1>2, <1>3, PoolNumbers
<1>5. CASE /\ free = NULL \/ t < free
           /\ block' = JoinNext(block, t, free)
           /\ free' = t
           /\ given' = given \ {t}
           /\ ResetCursors
           /\ stack' = below
  <2>1. Between(block, given, free, NULL, t)
    BY <1>2, <1>3, <1>4, <1>5 DEF Between, NULL
  <2>2. PICK h : h = given \ {t}
    OBVIOUS
  <2>3. HalfFreed(block, given, h, free, NULL, t, block')
    BY <1>1, <1>2, <1>5, <2>1, <2>2, JoinNextKeeps
  <2>4. PoolOK(block', h, t)
    BY <1>1, <2>3, FreeHead
  <2>5. Covers(block, F, block', Fr(block', h))
    BY <1>1, <2>3, HalfFreedFacts DEF FreeingTo
  <2>6. h = given' /\ free' = t
    BY <1>5, <2>2
  <2>7. PoolOK(block', given', free') /\ Covers(block, F, block', Fr(block', given'))
    BY <2>4, <2>5, <2>6
  <2>8. QED
    BY <1>5, <2>7, InvFreed
<1>6. ASSUME free # NULL, t > free
      PROVE  f \in F /\ f < t /\ f # NULL /\ f \in Word /\ L[f] = n /\ IsNext(F, f, n)
  <2>1. free \in F
    BY <1>2, <1>6 DEF IsNext
  <2>2. f \in F /\ f < t
    BY <1>4, <1>6, <2>1
  <2>3. QED
    BY <1>2, <2>2, PoolNumbers
<1>7. CASE /\ free # NULL /\ t > free
           /\ t < n \/ n = NULL
           /\ block' = JoinPrevious(JoinNext(block, t, n), f, t)
           /\ given' = given \ {t}
           /\ UNCHANGED free
           /\ ResetCursors
           /\ stack' = below
  <2>1. f \in F /\ f < t /\ f # NULL /\ L[f] = n
    BY <1>6, <1>7
  <2>2. Between(block, given, free, f, t)
    BY <1>3, <1>7, <2>1 DEF Between
  <2>3. PICK h : h = given \ {t}
    OBVIOUS
  <2>4. PICK J : J = JoinNext(block, t, n)
    OBVIOUS
  <2>5. HalfFreed(block, given, h, free, f, t, J)
    BY <1>1, <2>1, <2>2, <2>3, <2>4, JoinNextKeeps
  <2>6. block' = JoinPrevious(J, f, t)
    BY <1>7, <2>4
  <2>7. PoolOK(block', h, free) /\ Covers(block, F, block', Fr(block', h))
    BY <1>1, <2>1, <2>5, <2>6, FreeAfter
  <2>8. h = given' /\ free' = free
    BY <1>7, <2>3
  <2>9. PoolOK(block', given', free') /\ Covers(block, F, block', Fr(block', given'))
    BY <2>7, <2>8
  <2>10. QED
    BY <1>7, <2>9, InvFreed
<1>8. CASE /\ free # NULL /\ t > free
           /\ t > n /\ n # NULL
           /\ cursor' = [cursor EXCEPT !.free = n]
           /\ stack' = Append(below, c)
           /\ UNCHANGED <<block, free, given>>
  <2>1. n \in F /\ n \in Ptr
    BY <1>2, <1>6, <1>8, PoolNumbers DEF IsNext
  <2>2. /\ cursor'.free = n /\ cursor'.alloc = cursor.alloc
        /\ cursor'.test = cursor.test /\ cursor'.test2 = cursor.test2
        /\ cursor' \in [alloc : Ptr, free : Ptr, test : Ptr, test2 : Word]
    BY <1>1, <1>8, <2>1 DEF CursorsOK
  <2>3. CursorsOK(F, free, cursor', Hd(block))
    BY <1>1, <2>1, <2>2 DEF CursorsOK
  <2>4. StackOK(stack', given)
    BY <1>8, StackPush
  <2>5. below \in Seq(CallRecord)
    BY DEF StackOK
  <2>6. AllocWalk(block, F, free, cursor', stack')
    BY <1>3, <1>8, <2>2, <2>5, AllocWalkPush DEF Allocates
  <2>7. /\ Len(below) \in Nat /\ DOMAIN stack' = 1 .. Len(below) + 1
        /\ stack'[Len(below) + 1] = c
    BY <1>3, <1>8, <2>5, AppendFacts
  <2>8. ASSUME NEW i \in DOMAIN stack', TopFree(stack', i)
        PROVE  stack'[i] = c
    BY <2>7, <2>8 DEF TopFree
  <2>9. n < t
    BY <1>2, <1>4, <1>8, <2>1, PoolNumbers
  <2>10. FreeWalk(F, free, cursor', stack')
    BY <2>1, <2>2, <2>8, <2>9 DEF FreeWalk
  <2>11. InvOf(block, given, free, cursor', stack')
    BY <1>1, <2>3, <2>4, <2>6, <2>10 DEF InvOf, Walkers
  <2>12. QED
    BY <1>8, <2>11 DEF MemInv
<1>9. QED
  BY <1>5, <1>7, <1>8 DEF FreeRound

LEMMA InvStartFree ==
  ASSUME LwMemParameters, MemInv, NEW s \in Task, NEW t, StartFree(s, t)
  PROVE  MemInv'
<1> DEFINE c == [op |-> "free", task |-> s, need |-> 0, owner |-> System,
                 prev |-> NULL, target |-> t]
<1>1. /\ PoolOK(block, given, free) /\ StackOK(stack, given)
      /\ AllocWalk(block, Fr(block, given), free, cursor, stack)
  BY StateFacts
<1>2. /\ Runs(s) /\ t \in Held /\ FreeRound(free, c, stack) /\ UNCHANGED alarm
  BY DEF StartFree, Starts
<1>3. t \in given /\ \A i \in DOMAIN stack : stack[i].op = "free" => stack[i].target # t
  BY <1>2 DEF Held
<1>4. t \in Word /\ t \in Ptr /\ NULL \in Ptr /\ System \in Owner
  BY <1>1, <1>3, PoolFacts, PoolNumbers DEF Owner
<1>5. CallOK(c, given)
  BY <1>3, <1>4 DEF CallOK, CallRecord, Allocates
<1>6. stack # <<>> => Priority[c.task] < Priority[Last(stack).task]
  BY <1>2 DEF Runs
<1>7. QED
  BY <1>1, <1>2, <1>3, <1>5, <1>6, InvFreeRound

LEMMA InvFreeAgain ==
  ASSUME LwMemParameters, MemInv, FreeAgain
  PROVE  MemInv'
<1> DEFINE N == Len(stack)
           fs == Front(stack)
<1>1. /\ PoolOK(block, given, free) /\ StackOK(stack, given)
      /\ AllocWalk(block, Fr(block, given), free, cursor, stack)
      /\ FreeWalk(Fr(block, given), free, cursor, stack)
      /\ stack \in Seq(CallRecord)
  BY StateFacts
<1>2. /\ stack # <<>> /\ Top.op = "free" /\ Top = Last(stack)
      /\ FreeRound(cursor.free, Top, fs) /\ UNCHANGED alarm
  BY DEF FreeAgain, Walks, Top
<1>3. /\ N \in Nat /\ N >= 1 /\ fs \in Seq(CallRecord) /\ Len(fs) = N - 1
      /\ DOMAIN fs = 1 .. N - 1 /\ DOMAIN stack = 1 .. N /\ Last(stack) = stack[N]
      /\ \A i \in DOMAIN fs : fs[i] = stack[i]
  BY <1>1, <1>2, FrontFacts
<1>4. N \in DOMAIN stack /\ Top = stack[N]
  BY <1>2, <1>3
<1>5. CallOK(Top, given)
  BY <1>1, <1>4, StackParts
<1>6. StackOK(fs, given)
  <2>1. \A i \in DOMAIN fs : stack[i].op = "free" => stack[i].target \in given
    BY <1>1, <1>3 DEF StackOK
  <2>2. QED
    BY <1>1, <1>2, <2>1, StackPop
<1>7. fs # <<>> => Priority[Top.task] < Priority[Last(fs).task]
  <2>1. SUFFICES ASSUME fs # <<>> PROVE Priority[Top.task] < Priority[Last(fs).task]
    OBVIOUS
  <2>2. Last(fs) = fs[N - 1] /\ N - 1 >= 1
    BY <1>3, <2>1, FrontFacts
  <2>3. N - 1 \in DOMAIN stack /\ N - 1 \in DOMAIN fs /\ N - 1 < N
    BY <1>3, <2>2
  <2>4. Priority[stack[N].task] < Priority[stack[N - 1].task]
    BY <1>1, <1>4, <2>3 DEF StackOK
  <2>5. QED
    BY <1>3, <1>4, <2>2, <2>3, <2>4
<1>8. \A i \in DOMAIN fs : fs[i].op = "free" => fs[i].target # Top.target
  <2>1. ASSUME NEW i \in DOMAIN fs, fs[i].op = "free", fs[i].target = Top.target
        PROVE  FALSE
    <3>1. i \in DOMAIN stack /\ i < N /\ i \in Nat /\ stack[i] = fs[i]
      BY <1>3
    <3>2. i = N
      BY <1>1, <1>2, <1>4, <2>1, <3>1 DEF StackOK
    <3>3. QED
      BY <3>1, <3>2
  <2>2. QED
    BY <2>1
<1>9. AllocWalk(block, Fr(block, given), free, cursor, fs)
  BY <1>1, <1>2, AllocWalkPop DEF Allocates
<1>10. TopFree(stack, N)
  BY <1>2, <1>3, <1>4 DEF TopFree
<1>11. cursor.free = free \/ (cursor.free \in Fr(block, given) /\ cursor.free < Top.target)
  BY <1>1, <1>4, <1>10 DEF FreeWalk
<1>12. QED
  BY <1>2, <1>5, <1>6, <1>7, <1>8, <1>9, <1>11, InvFreeRound

LEMMA InvTransfer ==
  ASSUME LwMemParameters, MemInv, NEW s \in Task, NEW t, NEW to \in Task,
         Transfer(s, t, to)
  PROVE  MemInv'
<1> DEFINE F == Fr(block, given)
<1>1. /\ PoolOK(block, given, free) /\ StackOK(stack, given)
      /\ CursorsOK(F, free, cursor, Hd(block))
      /\ FreeWalk(F, free, cursor, stack)
      /\ AllocWalk(block, F, free, cursor, stack)
  BY StateFacts
<1>2. /\ Tiles(block) /\ given \subseteq Hd(block) /\ F \subseteq Word
      /\ block \in [Word -> BlockRecord] /\ Hd(block) \subseteq Word
      /\ \A a \in F : a + block[a].size \notin F
      /\ free \in Ptr /\ Listed(F, Links(block, free))
  BY <1>1, PoolFacts
<1>3. /\ t \in given /\ block' = [block EXCEPT ![t].owner = to]
      /\ UNCHANGED <<free, cursor, stack, given, alarm>>
  BY DEF Transfer, Held
<1>4. t \in Word /\ t \in Hd(block) /\ block[t] \in BlockRecord
      /\ block[t].size \in Nat /\ block[t].size >= 1
  BY <1>2, <1>3, TileFacts
<1>5. /\ block'[t] = [block[t] EXCEPT !.owner = to]
      /\ \A x \in Word : x # t => block'[x] = block[x]
  BY <1>2, <1>3, <1>4
<1>6. /\ block'[t] \in BlockRecord /\ block'[t].size = block[t].size
      /\ block'[t].next = block[t].next
  BY <1>4, <1>5 DEF BlockRecord, Owner
<1>7. block' \in [Word -> BlockRecord]
  BY <1>2, <1>3, <1>4, <1>5, <1>6
<1>8. /\ \A x \in Word : block'[x].size = block[x].size
      /\ \A x \in Word : block'[x].next = block[x].next
  BY <1>5, <1>6
<1>9. Like(block', block, t)
  BY <1>4, <1>6 DEF Like, NoBlock
<1>10. Relinked(block', block)
  BY <1>5, <1>7, <1>9 DEF Relinked, Like
<1>11. Tiles(block') /\ Hd(block') = Hd(block)
  BY <1>2, <1>10, TilesRelinked
<1>12. Fr(block', given) = F
  BY <1>11 DEF Fr
<1>13. Links(block', free) = Links(block, free)
  BY <1>8, PoolNumbers DEF Links, Ptr
<1>14. Apart(block', F)
  BY <1>2, <1>8 DEF Apart
<1>15. PoolOK(block', given, free)
  BY <1>2, <1>11, <1>12, <1>13, <1>14 DEF PoolOK
<1>16. ASSUME NEW a \in F, NEW c
       PROVE  FitsIn(block', a, c) <=> FitsIn(block, a, c)
  BY <1>2, <1>8 DEF FitsIn
<1>17. AllocWalk(block', F, free, cursor, stack)
  <2>1. ASSUME NEW i \in DOMAIN stack, TopAlloc(stack, i)
        PROVE  /\ \/ cursor.alloc = free
                  \/ cursor.alloc \in F /\ stack[i].prev \in F
                     /\ block'[stack[i].prev].next = cursor.alloc
               /\ \A a \in F : a < cursor.alloc => ~FitsIn(block', a, stack[i])
               /\ (\E j \in DOMAIN stack : j < i /\ Allocates(stack[j])) =>
                    cursor.alloc # NULL
                    /\ \E a \in F : cursor.alloc <= a /\ FitsIn(block', a, stack[i])
    <3>1. /\ \/ cursor.alloc = free
             \/ cursor.alloc \in F /\ stack[i].prev \in F
                /\ block[stack[i].prev].next = cursor.alloc
          /\ \A a \in F : a < cursor.alloc => ~FitsIn(block, a, stack[i])
          /\ (\E j \in DOMAIN stack : j < i /\ Allocates(stack[j])) =>
               cursor.alloc # NULL
               /\ \E a \in F : cursor.alloc <= a /\ FitsIn(block, a, stack[i])
      BY <1>1, <2>1 DEF AllocWalk
    <3>2. stack[i].prev \in F =>
            block'[stack[i].prev].next = block[stack[i].prev].next
      BY <1>2, <1>8
    <3>3. QED
      BY <1>16, <3>1, <3>2
  <2>2. QED
    BY <2>1 DEF AllocWalk
<1>18. InvOf(block', given, free, cursor, stack)
  BY <1>1, <1>11, <1>12, <1>15, <1>17 DEF InvOf, Walkers
<1>19. QED
  BY <1>3, <1>18 DEF MemInv

\* A step that leaves the pool and the walks of the other calls alone, and
\* puts a call of _lwmem_test on the stack, on the place of another or not.
LEMMA InvTestStep ==
  ASSUME LwMemParameters, MemInv, UNCHANGED <<block, free, given>>,
         alarm' \in BOOLEAN,
         CursorsOK(Fr(block, given), free, cursor', Hd(block)),
         cursor'.alloc = cursor.alloc, cursor'.free = cursor.free,
         NEW below, StackOK(below, given),
         FreeWalk(Fr(block, given), free, cursor, below),
         AllocWalk(block, Fr(block, given), free, cursor, below),
         \/ stack' = below
         \/ \E c : /\ stack' = Append(below, c) /\ CallOK(c, given)
                   /\ c.op \in {"blocks", "list"}
                   /\ below # <<>> => Priority[c.task] < Priority[Last(below).task]
  PROVE  MemInv'
<1> DEFINE F == Fr(block, given)
<1>1. PoolOK(block, given, free)
  BY StateFacts
<1>2. ASSUME NEW cs, StackOK(cs, given), FreeWalk(F, free, cursor, cs),
             AllocWalk(block, F, free, cursor, cs)
      PROVE  FreeWalk(F, free, cursor', cs) /\ AllocWalk(block, F, free, cursor', cs)
  BY <1>2 DEF FreeWalk, AllocWalk
<1>3. CASE stack' = below
  <2>1. InvOf(block, given, free, cursor', stack')
    BY <1>1, <1>2, <1>3 DEF InvOf, Walkers
  <2>2. QED
    BY <2>1 DEF MemInv
<1>4. ASSUME NEW c, stack' = Append(below, c), CallOK(c, given),
             c.op \in {"blocks", "list"},
             below # <<>> => Priority[c.task] < Priority[Last(below).task]
      PROVE  MemInv'
  <2>1. below \in Seq(CallRecord) /\ c \in CallRecord
        /\ ~Allocates(c) /\ c.op # "free"
    BY <1>4 DEF StackOK, CallOK, Allocates
  <2>2. StackOK(stack', given)
    BY <1>4, <2>1, StackPush
  <2>3. FreeWalk(F, free, cursor', stack')
    BY <1>4, <2>1, FreeWalkPush
  <2>4. AllocWalk(block, F, free, cursor', stack')
    BY <1>4, <2>1, AllocWalkPush
  <2>5. InvOf(block, given, free, cursor', stack')
    BY <1>1, <2>2, <2>3, <2>4 DEF InvOf, Walkers
  <2>6. QED
    BY <2>5 DEF MemInv
<1>5. QED
  BY <1>3, <1>4

LEMMA InvStartTest ==
  ASSUME LwMemParameters, MemInv, NEW t \in Task, StartTest(t)
  PROVE  MemInv'
<1> DEFINE F == Fr(block, given)
           c == [op |-> "blocks", task |-> t, need |-> 0,
                 owner |-> System, prev |-> NULL, target |-> NULL]
<1>1. /\ PoolOK(block, given, free) /\ StackOK(stack, given)
      /\ CursorsOK(F, free, cursor, Hd(block))
      /\ FreeWalk(F, free, cursor, stack)
      /\ AllocWalk(block, F, free, cursor, stack)
  BY StateFacts
<1>2. /\ Runs(t) /\ stack' = Append(stack, c)
      /\ cursor' = [cursor EXCEPT !.test2 = Start]
      /\ UNCHANGED <<block, free, given, alarm>>
  BY DEF StartTest, Starts
<1>3. NULL \in Ptr /\ System \in Owner /\ Start \in Word
  BY PoolNumbers DEF Owner
<1>4. c \in CallRecord
  BY <1>3 DEF CallRecord
<1>5. CallOK(c, given)
  BY <1>4 DEF CallOK, Allocates
<1>6. Start \in Hd(block)
  BY <1>1, PoolFacts DEF Tiles
<1>7. /\ cursor'.alloc = cursor.alloc /\ cursor'.free = cursor.free
      /\ CursorsOK(F, free, cursor', Hd(block))
  BY <1>1, <1>2, <1>3, <1>6 DEF CursorsOK
<1>8. alarm' \in BOOLEAN
  BY <1>2 DEF MemInv
<1>9. stack # <<>> => Priority[c.task] < Priority[Last(stack).task]
  BY <1>2 DEF Runs
<1>10. QED
  BY <1>1, <1>2, <1>5, <1>7, <1>8, <1>9, InvTestStep

\* What is below the call of _lwmem_test on top of the stack
LEMMA BelowTest ==
  ASSUME LwMemParameters, MemInv, Walks({"blocks", "list"})
  PROVE  /\ StackOK(Front(stack), given)
         /\ FreeWalk(Fr(block, given), free, cursor, Front(stack))
         /\ AllocWalk(block, Fr(block, given), free, cursor, Front(stack))
         /\ CallOK(Top, given) /\ Top.op \in {"blocks", "list"}
         /\ Front(stack) # <<>> =>
              Priority[Top.task] < Priority[Last(Front(stack)).task]
         /\ stack = Append(Front(stack), Top)
<1> DEFINE N == Len(stack)
           fs == Front(stack)
<1>1. /\ StackOK(stack, given)
      /\ FreeWalk(Fr(block, given), free, cursor, stack)
      /\ AllocWalk(block, Fr(block, given), free, cursor, stack)
      /\ stack \in Seq(CallRecord)
  BY StateFacts
<1>2. /\ stack # <<>> /\ Last(stack).op \in {"blocks", "list"} /\ Top = Last(stack)
      /\ Last(stack).op # "free" /\ ~Allocates(Last(stack))
  BY DEF Walks, Top, Allocates
<1>3. /\ N \in Nat /\ N >= 1 /\ fs \in Seq(CallRecord) /\ Len(fs) = N - 1
      /\ DOMAIN fs = 1 .. N - 1 /\ DOMAIN stack = 1 .. N /\ Last(stack) = stack[N]
      /\ \A i \in DOMAIN fs : fs[i] = stack[i]
  BY <1>1, <1>2, FrontFacts
<1>4. N \in DOMAIN stack /\ Top = stack[N]
  BY <1>2, <1>3
<1>5. CallOK(Top, given)
  BY <1>1, <1>4, StackParts
<1>6. StackOK(fs, given)
  <2>1. \A i \in DOMAIN fs : stack[i].op = "free" => stack[i].target \in given
    BY <1>1, <1>3 DEF StackOK
  <2>2. QED
    BY <1>1, <1>2, <2>1, StackPop
<1>7. fs # <<>> => Priority[Top.task] < Priority[Last(fs).task]
  <2>1. SUFFICES ASSUME fs # <<>> PROVE Priority[Top.task] < Priority[Last(fs).task]
    OBVIOUS
  <2>2. Last(fs) = fs[N - 1] /\ N - 1 >= 1
    BY <1>3, <2>1, FrontFacts
  <2>3. N - 1 \in DOMAIN stack /\ N - 1 \in DOMAIN fs /\ N - 1 < N
    BY <1>3, <2>2
  <2>4. Priority[stack[N].task] < Priority[stack[N - 1].task]
    BY <1>1, <1>4, <2>3 DEF StackOK
  <2>5. QED
    BY <1>3, <1>4, <2>2, <2>3, <2>4
<1>8. stack = Append(fs, Top)
  <2>1. Top \in CallRecord
    BY <1>5 DEF CallOK
  <2>2. PICK d : d = Append(fs, Top)
    OBVIOUS
  <2>3. d \in Seq(CallRecord) /\ Len(d) = N /\ \A i \in 1 .. N : d[i] = stack[i]
    <3>1. /\ d \in Seq(CallRecord) /\ DOMAIN d = 1 .. (N - 1) + 1
          /\ \A i \in DOMAIN fs : d[i] = fs[i]
          /\ d[(N - 1) + 1] = Top
      BY <1>3, <2>1, <2>2, AppendFacts
    <3>2. Len(d) = N
      BY <1>3, <2>1, <2>2
    <3>3. \A i \in 1 .. N : i = N \/ i \in DOMAIN fs
      BY <1>3
    <3>4. d[N] = Top
      BY <1>3, <3>1
    <3>5. QED
      BY <1>3, <1>4, <3>1, <3>2, <3>3, <3>4
  <2>4. stack = d
    BY <1>1, <1>3, <2>3
  <2>5. QED
    BY <2>2, <2>4
<1>9. QED
  BY <1>1, <1>2, <1>5, <1>6, <1>7, <1>8, FreeWalkPop, AllocWalkPop

LEMMA InvTestBlock ==
  ASSUME LwMemParameters, MemInv, TestBlock
  PROVE  MemInv' /\ alarm' = alarm
<1> DEFINE F == Fr(block, given)
           a == cursor.test2
           next == a + block[a].size
           fs == Front(stack)
           c == [Top EXCEPT !.op = "list"]
<1>1. /\ PoolOK(block, given, free) /\ StackOK(stack, given)
      /\ CursorsOK(F, free, cursor, Hd(block)) /\ Heads = Hd(block)
      /\ FreeWalk(F, free, cursor, stack)
      /\ AllocWalk(block, F, free, cursor, stack)
  BY StateFacts
<1>2. Walks({"blocks"}) /\ UNCHANGED <<block, free, given>>
  BY DEF TestBlock
<1>3. Walks({"blocks", "list"})
  BY <1>2 DEF Walks
<1>4. /\ StackOK(fs, given)
      /\ FreeWalk(F, free, cursor, fs) /\ AllocWalk(block, F, free, cursor, fs)
      /\ CallOK(Top, given) /\ Top.op \in {"blocks", "list"}
      /\ fs # <<>> => Priority[Top.task] < Priority[Last(fs).task]
  BY <1>3, BelowTest
<1>5. a \in Hd(block) /\ a \in Heads
      /\ cursor \in [alloc : Ptr, free : Ptr, test : Ptr, test2 : Word]
  BY <1>1 DEF CursorsOK
<1>6. next \in Hd(block) \cup {End} /\ End \in Nat
  BY <1>1, <1>5, PoolFacts, TileFacts, PoolNumbers
<1>7. alarm \in BOOLEAN
  BY DEF MemInv
<1>8. CASE InPool(next) /\ cursor' = [cursor EXCEPT !.test2 = next] /\ UNCHANGED <<stack, alarm>>
  <2>1. next \in Hd(block) /\ next \in Word
    BY <1>6, <1>8 DEF InPool, Hd
  <2>2. /\ cursor'.alloc = cursor.alloc /\ cursor'.free = cursor.free
        /\ CursorsOK(F, free, cursor', Hd(block))
    BY <1>1, <1>5, <1>8, <2>1 DEF CursorsOK
  <2>3. QED
    BY <1>1, <1>2, <1>7, <1>8, <2>2, InvTestStep
<1>9. CASE EndCall /\ UNCHANGED <<cursor, alarm>>
  BY <1>1, <1>2, <1>4, <1>7, <1>9, InvTestStep DEF EndCall
<1>10. CASE Window(c) /\ cursor' = [cursor EXCEPT !.test = free] /\ UNCHANGED alarm
  <2>1. free \in Ptr
    BY <1>1, PoolFacts
  <2>2. /\ cursor'.alloc = cursor.alloc /\ cursor'.free = cursor.free
        /\ CursorsOK(F, free, cursor', Hd(block))
    BY <1>1, <1>5, <1>10, <2>1 DEF CursorsOK
  <2>3. /\ c \in CallRecord /\ c.op = "list" /\ c.task = Top.task
    BY <1>4 DEF CallOK, CallRecord
  <2>4. CallOK(c, given)
    BY <2>3 DEF CallOK, Allocates
  <2>5. stack' = Append(fs, c)
    BY <1>10 DEF Window
  <2>6. QED
    BY <1>2, <1>4, <1>7, <1>10, <2>2, <2>3, <2>4, <2>5, InvTestStep
<1>11. \/ InPool(next) /\ cursor' = [cursor EXCEPT !.test2 = next] /\ UNCHANGED <<stack, alarm>>
       \/ EndCall /\ UNCHANGED <<cursor, alarm>>
       \/ Window(c) /\ cursor' = [cursor EXCEPT !.test = free] /\ UNCHANGED alarm
  BY <1>5 DEF TestBlock
<1>12. QED
  BY <1>8, <1>9, <1>10, <1>11

LEMMA NotSuspect ==
  ASSUME LwMemParameters, MemInv, Suspect(cursor.test)
  PROVE  free = NULL /\ cursor.test = NULL
<1> DEFINE F == Fr(block, given)
           a == cursor.test
<1>1. /\ PoolOK(block, given, free)
      /\ CursorsOK(F, free, cursor, Hd(block)) /\ Heads = Hd(block)
  BY StateFacts
<1>2. a \in F \cup {free}
  BY <1>1 DEF CursorsOK
<1>3. ASSUME a \in F
      PROVE  FALSE
  <2>1. a \in Hd(block) /\ a \in Word
    BY <1>1, <1>3, PoolFacts
  <2>2. /\ a \in Nat /\ block[a].size \in Nat
        /\ \A x \in Hd(block) : a < x => a + block[a].size <= x
    BY <1>1, <2>1, PoolFacts, TileFacts
  <2>3. PICK n : n = block[a].next
    OBVIOUS
  <2>4. IsNext(F, a, n)
    BY <1>1, <1>3, <2>1, <2>3, PoolFacts
  <2>5. n # NULL /\ n <= a + block[a].size
    BY <1>1, <2>1, <2>3 DEF Suspect
  <2>6. n \in F /\ a < n
    BY <2>4, <2>5 DEF IsNext
  <2>7. n \in Hd(block) /\ n \in Nat
    BY <1>1, <2>6, PoolFacts, PoolNumbers
  <2>8. n = a + block[a].size
    BY <2>2, <2>5, <2>6, <2>7
  <2>9. QED
    BY <1>1, <1>3, <2>6, <2>8, PoolFacts
<1>4. a = free /\ a \notin F
  BY <1>2, <1>3
<1>5. IsNext(F, NULL, free)
  BY <1>1, PoolFacts
<1>6. QED
  BY <1>4, <1>5 DEF IsNext

LEMMA InvTestFree ==
  ASSUME LwMemParameters, MemInv, TestFree
  PROVE  MemInv' /\ (alarm' # alarm => free = NULL)
<1> DEFINE F == Fr(block, given)
           a == cursor.test
           fs == Front(stack)
<1>1. /\ PoolOK(block, given, free) /\ StackOK(stack, given)
      /\ CursorsOK(F, free, cursor, Hd(block)) /\ Heads = Hd(block)
      /\ FreeWalk(F, free, cursor, stack)
      /\ AllocWalk(block, F, free, cursor, stack)
  BY StateFacts
<1>2. Walks({"list"}) /\ UNCHANGED <<block, free, given>>
  BY DEF TestFree
<1>3. Walks({"blocks", "list"})
  BY <1>2 DEF Walks
<1>4. /\ StackOK(fs, given)
      /\ FreeWalk(F, free, cursor, fs) /\ AllocWalk(block, F, free, cursor, fs)
  BY <1>3, BelowTest
<1>5. alarm \in BOOLEAN /\ cursor \in [alloc : Ptr, free : Ptr, test : Ptr, test2 : Word]
  BY <1>1 DEF MemInv, CursorsOK
<1>6. CASE EndCall /\ UNCHANGED cursor /\ (alarm' = alarm \/ (Suspect(a) /\ alarm' = TRUE))
  <2>1. alarm' \in BOOLEAN
    BY <1>5, <1>6
  <2>2. MemInv'
    BY <1>1, <1>2, <1>4, <1>6, <2>1, InvTestStep DEF EndCall
  <2>3. QED
    BY <1>6, <2>2, NotSuspect
<1>7. CASE /\ ~Suspect(a) /\ block[a].next # NULL /\ UNCHANGED <<stack, alarm>>
           /\ cursor' = [cursor EXCEPT !.test = block[a].next]
  <2>1. a \in Hd(block) /\ a \in F \cup {free}
    BY <1>1, <1>7 DEF Suspect, CursorsOK
  <2>2. PICK n : n = block[a].next
    OBVIOUS
  <2>3. a \in F
    <3>1. IsNext(F, NULL, free) /\ NULL \notin Hd(block)
      BY <1>1, PoolFacts, PoolNumbers
    <3>2. QED
      BY <2>1, <3>1 DEF IsNext
  <2>4. IsNext(F, a, n) /\ F \subseteq Word
    BY <1>1, <2>2, <2>3, PoolFacts
  <2>5. n \in F /\ n \in Ptr
    BY <1>7, <2>2, <2>4, PoolNumbers DEF IsNext
  <2>6. /\ cursor'.alloc = cursor.alloc /\ cursor'.free = cursor.free
        /\ CursorsOK(F, free, cursor', Hd(block))
    BY <1>1, <1>5, <1>7, <2>2, <2>5 DEF CursorsOK
  <2>7. QED
    BY <1>1, <1>2, <1>5, <1>7, <2>6, InvTestStep
<1>8. \/ EndCall /\ UNCHANGED cursor /\ (alarm' = alarm \/ (Suspect(a) /\ alarm' = TRUE))
      \/ /\ ~Suspect(a) /\ block[a].next # NULL /\ UNCHANGED <<stack, alarm>>
         /\ cursor' = [cursor EXCEPT !.test = block[a].next]
  BY DEF TestFree
<1>9. QED
  BY <1>6, <1>7, <1>8

LEMMA InvNext ==
  ASSUME LwMemParameters, TwoAllocate, Hopeless = {}, MemInv, [PoolNext]_poolVars
  PROVE  MemInv' /\ (alarm' # alarm => free = NULL)
<1>1. CASE UNCHANGED poolVars
  <2>1. UNCHANGED <<block, free, cursor, stack, given, alarm>>
    BY <1>1 DEF poolVars
  <2>2. QED
    BY <2>1 DEF MemInv
<1>2. ASSUME NEW t \in Task, NEW size \in Sizes, NEW owner \in {t, System},
             StartAlloc(t, size, owner)
      PROVE  MemInv' /\ alarm' = alarm
  BY <1>2, InvStartAlloc DEF StartAlloc
<1>3. ASSUME NEW t \in Task, NEW size \in Sizes, NEW owner \in {t, System},
             NEW place \in Places, StartAllocAt(t, size, place, owner)
      PROVE  MemInv' /\ alarm' = alarm
  BY <1>3, InvStartAllocAt DEF StartAllocAt
<1>4. ASSUME NEW t \in Task, NEW b \in given, StartFree(t, b)
      PROVE  MemInv' /\ alarm' = alarm
  BY <1>4, InvStartFree DEF StartFree
<1>5. ASSUME NEW t \in Task, NEW b \in given, NEW to \in Task, Transfer(t, b, to)
      PROVE  MemInv' /\ alarm' = alarm
  BY <1>5, InvTransfer DEF Transfer
<1>6. ASSUME NEW t \in Task, StartTest(t)
      PROVE  MemInv' /\ alarm' = alarm
  BY <1>6, InvStartTest DEF StartTest
<1>7. CASE AllocRound
  BY <1>7, InvAllocRound DEF AllocRound
<1>8. CASE FreeAgain
  BY <1>8, InvFreeAgain DEF FreeAgain
<1>9. CASE TestBlock
  BY <1>9, InvTestBlock
<1>10. CASE TestFree
  BY <1>10, InvTestFree
<1>11. QED
  BY <1>1, <1>2, <1>3, <1>4, <1>5, <1>6, <1>7, <1>8, <1>9, <1>10 DEF PoolNext

-----------------------------------------------------------------------------
(* What the invariant says of the pool.                                    *)

LEMMA TypesOfInv ==
  ASSUME LwMemParameters, MemInv
  PROVE  PoolTypeOK
<1>1. /\ PoolOK(block, given, free) /\ stack \in Seq(CallRecord)
      /\ CursorsOK(Fr(block, given), free, cursor, Hd(block))
  BY StateFacts
<1>2. /\ block \in [Word -> BlockRecord] /\ free \in Ptr
      /\ given \subseteq Word
  BY <1>1, PoolFacts
<1>3. cursor \in [alloc : Ptr, free : Ptr, test : Ptr, test2 : Word]
  BY <1>1 DEF CursorsOK
<1>4. QED
  BY <1>1, <1>2, <1>3 DEF PoolTypeOK, BlockRecord, MemInv

LEMMA TileOfInv ==
  ASSUME LwMemParameters, MemInv
  PROVE  BlocksTile
<1>1. /\ PoolOK(block, given, free)
      /\ Heads = Hd(block) /\ FreeHeads = Fr(block, given)
  BY StateFacts
<1>2. Tiles(block) /\ Start \in Heads /\ given \subseteq Heads
  BY <1>1, PoolFacts DEF Tiles
<1>3. ASSUME NEW a \in Heads
      PROVE  /\ a + block[a].size \in Heads \cup {End}
             /\ Heads \cap (a + 1 .. (a + block[a].size) - 1) = {}
             /\ a \in FreeHeads => a + block[a].size \notin FreeHeads
  <2>1. /\ a \in Nat /\ block[a].size \in Nat
        /\ a + block[a].size \in Heads \cup {End}
        /\ \A x \in Heads : a < x => a + block[a].size <= x
    BY <1>1, <1>2, TileFacts
  <2>2. \A x \in Heads : x \in Nat
    BY <1>1, PoolFacts, PoolNumbers
  <2>3. ASSUME NEW x \in Heads, x \in a + 1 .. (a + block[a].size) - 1
        PROVE  FALSE
    BY <2>1, <2>2, <2>3
  <2>4. a \in FreeHeads => a + block[a].size \notin FreeHeads
    BY <1>1, PoolFacts
  <2>5. QED
    BY <2>1, <2>3, <2>4
<1>4. QED
  BY <1>2, <1>3, TypesOfInv DEF BlocksTile

LEMMA RefOfNext ==
  ASSUME LwMemParameters, NEW a \in Nat, a < End, NEW n, FreeHeads \subseteq Word,
         IsNext(FreeHeads, a, n)
  PROVE  n = Ref(NextFree(a))
<1> DEFINE S == {f \in FreeHeads : f > a} \cup {End}
<1>1. /\ End \in Nat /\ \A f \in FreeHeads : f \in Nat /\ f < End
      /\ End \notin Word
  BY PoolNumbers
<1>2. CASE n = NULL /\ \A x \in FreeHeads : x <= a
  <2>1. S = {End}
    BY <1>1, <1>2
  <2>2. Min(S) = End
    BY <1>1, <2>1 DEF Min
  <2>3. QED
    BY <1>2, <2>2 DEF Ref, NextFree
<1>3. CASE n \in FreeHeads /\ a < n /\ \A x \in FreeHeads : a < x => n <= x
  <2>1. n \in S /\ \A y \in S : n <= y /\ y \in Nat
    BY <1>1, <1>3
  <2>2. Min(S) \in S /\ \A y \in S : Min(S) <= y
    BY <2>1 DEF Min
  <2>3. Min(S) = n
    BY <2>1, <2>2
  <2>4. n # End
    BY <1>1, <1>3
  <2>5. QED
    BY <2>3, <2>4 DEF Ref, NextFree
<1>4. QED
  BY <1>2, <1>3 DEF IsNext

LEMMA ListOfInv ==
  ASSUME LwMemParameters, MemInv
  PROVE  FreeListExact
<1>1. PoolOK(block, given, free) /\ FreeHeads = Fr(block, given)
  BY StateFacts
<1>2. FreeHeads \subseteq Word
  BY <1>1, PoolFacts
<1>3. IsNext(FreeHeads, NULL, free) /\ NULL = 0 /\ 0 < End
  BY <1>1, PoolFacts, PoolNumbers DEF NULL, End
<1>4. free = Ref(NextFree(0))
  BY <1>2, <1>3, RefOfNext
<1>5. ASSUME NEW a \in FreeHeads
      PROVE  block[a].next = Ref(NextFree(a))
  <2>1. a \in Nat /\ a < End /\ a \in Word
    BY <1>2, PoolNumbers
  <2>2. PICK n : n = block[a].next
    OBVIOUS
  <2>3. IsNext(FreeHeads, a, n)
    BY <1>1, <2>1, <2>2, PoolFacts
  <2>4. QED
    BY <1>2, <2>1, <2>2, <2>3, RefOfNext
<1>6. QED
  BY <1>4, <1>5 DEF FreeListExact

\* At most two tasks of the pool allocate, and of one of them inside the
\* window of the other only what can be served.
Undisturbed == TwoAllocate /\ Hopeless = {}

\* The invariant that the theorems rest on is one of the specification.
THEOREM PoolIsSound ==
  ASSUME Undisturbed
  PROVE  PoolSpec => []MemInv
<1>1. PoolInit => MemInv
  BY InvInit, LwMemAssumption DEF Undisturbed
<1>2. MemInv /\ [PoolNext]_poolVars => MemInv'
  BY InvNext, LwMemAssumption DEF Undisturbed
<1>3. QED
  BY <1>1, <1>2, PTL DEF PoolSpec

\* Whatever splits and joins the calls make, and wherever one interrupts
\* another, the blocks follow one another from the start of the pool to its
\* end, and each is at least as large as a free one must be.
THEOREM BlocksTileAlways ==
  ASSUME Undisturbed
  PROVE  PoolSpec => []BlocksTile
<1>1. MemInv => BlocksTile
  BY TileOfInv, LwMemAssumption DEF Undisturbed
<1>2. QED
  BY <1>1, PoolIsSound, PTL

\* The free list holds the free blocks, each once, in the order of their
\* addresses, and no two of them touch: what an interrupted walk along the
\* list links or unlinks when it goes on is still in its place.
THEOREM FreeListIsExact ==
  ASSUME Undisturbed
  PROVE  PoolSpec => []FreeListExact
<1>1. MemInv => FreeListExact
  BY ListOfInv, LwMemAssumption DEF Undisturbed
<1>2. QED
  BY <1>1, PoolIsSound, PTL

\* The error that _lwmem_test reports is never that of a broken pool: it has
\* taken for a block the NULL in its cursor, and no block is free.
THEOREM FalseAlarmsAreExplained ==
  ASSUME Undisturbed
  PROVE  PoolSpec => FalseAlarmOnlyWhenFull
<1>1. MemInv /\ [PoolNext]_poolVars => (alarm' # alarm => free = NULL)
  BY InvNext, LwMemAssumption DEF Undisturbed
<1>2. MemInv /\ [PoolNext]_poolVars => [alarm' # alarm => free = NULL]_poolVars
  BY <1>1
<1>3. QED
  BY <1>2, PoolIsSound, PTL DEF FalseAlarmOnlyWhenFull, PoolSpec

-----------------------------------------------------------------------------
(* The heap that the callers see: its gaps are the free blocks.             *)

\* Word x lies in a block of g.
InBlock(b, a, x) == a <= x /\ x < a + b[a].size
IsUsed(b, g, x) == \E a \in g : InBlock(b, a, x)

\* No word lies between two blocks.
LEMMA Covered ==
  ASSUME LwMemParameters, NEW b, Tiles(b), NEW x \in Word
  PROVE  \E a \in Hd(b) : InBlock(b, a, x)
<1> DEFINE D == {x - a : a \in {h \in Hd(b) : h <= x}}
<1>1. x \in Nat /\ 1 <= x /\ x < End /\ End \in Nat
  BY PoolNumbers
<1>2. Start \in Hd(b) /\ Start <= x
  BY <1>1 DEF Tiles, Start
<1>3. \A h \in Hd(b) : h \in Nat
  BY TileFacts
<1>4. D \in SUBSET Nat /\ D # {}
  BY <1>1, <1>2, <1>3
<1>5. PICK d \in D : \A e \in D : d <= e
  BY <1>4, MinLemma
<1>6. PICK a \in Hd(b) : a <= x /\ d = x - a
  BY <1>5
<1>7. ASSUME NEW h \in Hd(b), h <= x
      PROVE  h <= a
  <2>1. x - h \in D
    BY <1>7
  <2>2. d <= x - h
    BY <1>5, <2>1
  <2>3. QED
    BY <1>1, <1>3, <1>6, <2>2
<1>8. /\ a \in Nat /\ b[a].size \in Nat /\ b[a].size >= 1
      /\ a + b[a].size \in Hd(b) \cup {End}
  BY TileFacts
<1>9. x < a + b[a].size
  <2>1. SUFFICES ASSUME a + b[a].size <= x
                 PROVE  FALSE
    BY <1>1, <1>8
  <2>2. a + b[a].size \in Hd(b)
    BY <1>1, <1>8, <2>1
  <2>3. QED
    BY <1>7, <1>8, <2>1, <2>2
<1>10. QED
  BY <1>6, <1>9 DEF InBlock

\* Two blocks have no word in common.
LEMMA Disjoint ==
  ASSUME LwMemParameters, NEW b, Tiles(b), NEW a \in Hd(b), NEW h \in Hd(b),
         NEW x \in Int, InBlock(b, a, x), InBlock(b, h, x)
  PROVE  a = h
<1>1. /\ a \in Nat /\ b[a].size \in Nat /\ h \in Nat /\ b[h].size \in Nat
      /\ a < h => a + b[a].size <= h
      /\ h < a => h + b[h].size <= a
  BY TileFacts
<1>2. QED
  BY <1>1 DEF InBlock

\* What lies before and behind a free block is used, or not in the pool.
LEMMA FreeIsGap ==
  ASSUME LwMemParameters, NEW b, NEW g, NEW fr, PoolOK(b, g, fr),
         NEW a \in Fr(b, g), NEW e, e = a + b[a].size
  PROVE  /\ a \in Word /\ b[a].size \in Nat /\ e \in Nat
         /\ e - 1 \in Word /\ a <= e - 1
         /\ \A x \in Int : a <= x /\ x < e => ~IsUsed(b, g, x)
         /\ a - 1 \in Word => IsUsed(b, g, a - 1)
         /\ e \in Word => IsUsed(b, g, e)
<1>1. /\ Tiles(b) /\ g \subseteq Hd(b) /\ a \in Hd(b) /\ a \notin g
      /\ \A x \in Fr(b, g) : x + b[x].size \notin Fr(b, g)
      /\ \A x \in Hd(b) : x \in g \/ x \in Fr(b, g)
  BY PoolFacts DEF Fr
<1>2. /\ a \in Word /\ a \in Nat /\ b[a].size \in Nat /\ b[a].size >= 1
      /\ a >= 1 /\ e <= End /\ e \in Hd(b) \cup {End}
  BY <1>1, TileFacts
<1>3. e \in Nat /\ a <= e - 1 /\ e - 1 \in Word
  BY <1>2, PoolNumbers
<1>4. ASSUME NEW x \in Int, a <= x, x < e, IsUsed(b, g, x)
      PROVE  FALSE
  <2>1. PICK h \in g : InBlock(b, h, x)
    BY <1>4 DEF IsUsed
  <2>2. InBlock(b, a, x)
    BY <1>4 DEF InBlock
  <2>3. QED
    BY <1>1, <2>1, <2>2, Disjoint
<1>5. ASSUME a - 1 \in Word
      PROVE  IsUsed(b, g, a - 1)
  <2>1. PICK h \in Hd(b) : InBlock(b, h, a - 1)
    BY <1>1, <1>5, Covered
  <2>2. h \in Nat /\ b[h].size \in Nat /\ (h < a => h + b[h].size <= a)
    BY <1>1, TileFacts
  <2>3. h + b[h].size = a
    BY <1>2, <2>1, <2>2 DEF InBlock
  <2>4. h \in g
    BY <1>1, <2>3
  <2>5. QED
    BY <2>1, <2>4 DEF IsUsed
<1>6. ASSUME e \in Word
      PROVE  IsUsed(b, g, e)
  <2>1. e \in Hd(b) /\ e \in g
    BY <1>1, <1>2, <1>6, PoolNumbers
  <2>2. b[e].size \in Nat /\ b[e].size >= 1
    BY <1>1, <2>1, TileFacts
  <2>3. InBlock(b, e, e)
    BY <1>3, <2>2 DEF InBlock
  <2>4. QED
    BY <2>1, <2>3 DEF IsUsed
<1>7. QED
  BY <1>2, <1>3, <1>4, <1>5, <1>6

\* Words without a used one, between used ones, are a free block.
LEMMA GapIsFree ==
  ASSUME LwMemParameters, NEW b, NEW g, NEW fr, PoolOK(b, g, fr),
         NEW l \in Word, NEW h \in Word, l <= h,
         \A x \in Int : l <= x /\ x <= h => ~IsUsed(b, g, x),
         l - 1 \in Word => IsUsed(b, g, l - 1),
         h + 1 \in Word => IsUsed(b, g, h + 1)
  PROVE  l \in Fr(b, g) /\ h = l + b[l].size - 1
<1>1. Tiles(b) /\ g \subseteq Hd(b) /\ \A x \in Hd(b) : x \in g \/ x \in Fr(b, g)
  BY PoolFacts DEF Fr
<1>2. /\ l \in Nat /\ l >= 1 /\ h \in Nat /\ h < End /\ End \in Nat
      /\ \A x \in Nat : 1 <= x /\ x < End => x \in Word
  BY PoolNumbers
<1>3. PICK y \in Hd(b) : InBlock(b, y, l)
  BY <1>1, Covered
<1>4. y \in Fr(b, g)
  BY <1>1, <1>2, <1>3 DEF IsUsed
<1>5. y \in Nat /\ y >= 1 /\ b[y].size \in Nat
  BY <1>1, TileFacts
<1>6. y = l
  <2>1. SUFFICES ASSUME y < l PROVE FALSE
    BY <1>2, <1>3, <1>5 DEF InBlock
  <2>2. l - 1 \in Word /\ l - 1 \in Int
    BY <1>2, <1>5, <2>1
  <2>3. ~IsUsed(b, g, l - 1)
    <3>1. y <= l - 1 /\ l - 1 < y + b[y].size
      BY <1>2, <1>3, <1>5, <2>1 DEF InBlock
    <3>2. QED
      BY <1>4, <2>2, <3>1, FreeIsGap
  <2>4. QED
    BY <2>2, <2>3
<1>7. PICK e : e = l + b[l].size
  OBVIOUS
<1>8. /\ e \in Nat /\ l < e
      /\ \A x \in Int : l <= x /\ x < e => ~IsUsed(b, g, x)
      /\ e \in Word => IsUsed(b, g, e)
  BY <1>2, <1>4, <1>6, <1>7, FreeIsGap
<1>9. ~(h + 1 < e)
  <2>1. e - 1 \in Word
    BY <1>4, <1>6, <1>7, FreeIsGap
  <2>2. h + 1 < e => h + 1 \in Word
    BY <1>2, <1>8, <2>1, PoolNumbers
  <2>3. QED
    BY <1>2, <1>8, <2>2
<1>10. ~(e <= h)
  <2>1. e <= h => e \in Word
    BY <1>2, <1>8
  <2>2. QED
    BY <1>2, <1>8, <2>1
<1>11. QED
  BY <1>2, <1>4, <1>5, <1>6, <1>7, <1>8, <1>9, <1>10

\* The state of module Heap, from the values of the variables
BlocksOf(b, g) ==
  {[addr |-> a, size |-> b[a].size, owner |-> b[a].owner] : a \in g}
AllocsOf(cs, t) == {i \in DOMAIN cs : cs[i].task = t /\ Allocates(cs[i])}
RequestOf(c) == [size |-> c.need, owner |-> c.owner, place |-> c.target]
AskOf(cs, t) ==
  IF AllocsOf(cs, t) = {} THEN [size |-> 0]
  ELSE RequestOf(cs[Max(AllocsOf(cs, t))])

LEMMA HeapState ==
  /\ AbstractBlocks = BlocksOf(block, given)
  /\ AbstractAsks = [t \in Task |-> AskOf(stack, t)]
  /\ AbstractBlocks' = BlocksOf(block', given')
  /\ AbstractAsks' = [t \in Task |-> AskOf(stack', t)]
<1>1. \A t \in Task : AllocOf(t) = AllocsOf(stack, t)
  BY DEF AllocOf, AllocsOf, Allocates
<1>2. \A t \in Task : AllocOf(t)' = AllocsOf(stack', t)
  BY DEF AllocOf, AllocsOf, Allocates
<1>3. AbstractAsks = [t \in Task |-> AskOf(stack, t)]
  BY <1>1 DEF AbstractAsks, AskOf, RequestOf
<1>4. AbstractAsks' = [t \in Task |-> AskOf(stack', t)]
  BY <1>2 DEF AbstractAsks, AskOf, RequestOf
<1>5. AbstractBlocks = BlocksOf(block, given)
  BY DEF AbstractBlocks, BlocksOf
<1>6. AbstractBlocks' = BlocksOf(block', given')
  BY DEF AbstractBlocks, BlocksOf
<1>7. QED
  BY <1>3, <1>4, <1>5, <1>6

LEMMA UsedWords ==
  ASSUME LwMemParameters, MemInv
  PROVE  /\ Abstract!Word = Word
         /\ \A x \in Int : x \in Abstract!Used <=> IsUsed(block, given, x)
<1>1. /\ given \subseteq Word
      /\ \A a \in given : a \in Nat /\ block[a].size \in Nat
  <2>1. PoolOK(block, given, free)
    BY StateFacts
  <2>2. Tiles(block) /\ given \subseteq Hd(block) /\ given \subseteq Word
    BY <2>1, PoolFacts
  <2>3. QED
    BY <2>2, TileFacts
<1>2. ASSUME NEW x \in Int, x \in Abstract!Used
      PROVE  IsUsed(block, given, x)
  <2>1. PICK u \in AbstractBlocks : x \in Abstract!Words(u)
    BY <1>2 DEF Abstract!Used
  <2>2. PICK a \in given :
          u = [addr |-> a, size |-> block[a].size, owner |-> block[a].owner]
    BY <2>1, HeapState DEF BlocksOf
  <2>3. x \in a .. a + block[a].size - 1
    BY <2>1, <2>2 DEF Abstract!Words
  <2>4. InBlock(block, a, x)
    BY <1>1, <1>2, <2>3 DEF InBlock
  <2>5. QED
    BY <2>4 DEF IsUsed
<1>3. ASSUME NEW x \in Int, IsUsed(block, given, x)
      PROVE  x \in Abstract!Used
  <2>1. PICK a \in given : InBlock(block, a, x)
    BY <1>3 DEF IsUsed
  <2>2. PICK u : u = [addr |-> a, size |-> block[a].size, owner |-> block[a].owner]
    OBVIOUS
  <2>3. u \in AbstractBlocks
    BY <2>2, HeapState DEF BlocksOf
  <2>4. x \in a .. a + block[a].size - 1
    BY <1>1, <1>3, <2>1 DEF InBlock
  <2>5. x \in Abstract!Words(u)
    BY <2>2, <2>4 DEF Abstract!Words
  <2>6. QED
    BY <2>3, <2>5 DEF Abstract!Used
<1>4. Abstract!Word = Word
  BY DEF Abstract!Word, Word, Start
<1>5. QED
  BY <1>2, <1>3, <1>4

\* The gaps of the heap are the free blocks of the pool.
LEMMA GapsAreFree ==
  ASSUME LwMemParameters, MemInv
  PROVE  /\ \A a \in Fr(block, given) : <<a, a + block[a].size - 1>> \in Abstract!Gaps
         /\ \A u \in Abstract!Gaps : /\ u[1] \in Fr(block, given)
                                     /\ u[2] = u[1] + block[u[1]].size - 1
<1>1. PoolOK(block, given, free)
  BY StateFacts
<1>2. /\ Abstract!Word = Word
      /\ \A x \in Int : x \in Abstract!Used <=> IsUsed(block, given, x)
      /\ \A x \in Word : x \in Nat
  BY UsedWords, PoolNumbers
<1>3. ASSUME NEW a \in Fr(block, given)
      PROVE  <<a, a + block[a].size - 1>> \in Abstract!Gaps
  <2>1. PICK e : e = a + block[a].size
    OBVIOUS
  <2>a. PICK z : z = a + block[a].size - 1
    OBVIOUS
  <2>2. /\ a \in Word /\ block[a].size \in Nat /\ e \in Nat
        /\ e - 1 \in Word /\ a <= e - 1
        /\ \A x \in Int : a <= x /\ x < e => ~IsUsed(block, given, x)
        /\ a - 1 \in Word => IsUsed(block, given, a - 1)
        /\ e \in Word => IsUsed(block, given, e)
    BY <1>1, <2>1, FreeIsGap
  <2>3. (a .. e - 1) \cap Abstract!Used = {}
    BY <1>2, <2>2
  <2>4. a - 1 \notin Word \ Abstract!Used
    BY <1>2, <2>2
  <2>5. (e - 1) + 1 \notin Word \ Abstract!Used
    <3>1. (e - 1) + 1 = e
      BY <2>2
    <3>2. QED
      BY <1>2, <2>2, <3>1
  <2>6. PICK u : u = <<a, e - 1>>
    OBVIOUS
  <2>7. u \in Word \X Word /\ u[1] = a /\ u[2] = e - 1
    BY <2>2, <2>6
  <2>8. u \in Abstract!Gaps
    BY <1>2, <2>2, <2>3, <2>4, <2>5, <2>7 DEF Abstract!Gaps
  <2>9. e - 1 = z
    BY <1>2, <2>1, <2>a, <2>2
  <2>10. <<a, z>> \in Abstract!Gaps
    BY <2>6, <2>8, <2>9, Zenon
  <2>11. QED
    BY <2>a, <2>10, Zenon
<1>4. ASSUME NEW u \in Abstract!Gaps
      PROVE  u[1] \in Fr(block, given) /\ u[2] = u[1] + block[u[1]].size - 1
  <2>1. /\ u \in Word \X Word /\ u[1] <= u[2]
        /\ (u[1] .. u[2]) \cap Abstract!Used = {}
        /\ u[1] - 1 \notin Word \ Abstract!Used
        /\ u[2] + 1 \notin Word \ Abstract!Used
    BY <1>2, <1>4 DEF Abstract!Gaps
  <2>2. PICK l, h : l = u[1] /\ h = u[2]
    OBVIOUS
  <2>3. l \in Word /\ h \in Word /\ l <= h /\ l \in Nat /\ h \in Nat
    BY <1>2, <2>1, <2>2
  <2>4. \A x \in Int : l <= x /\ x <= h => ~IsUsed(block, given, x)
    <3>1. ASSUME NEW x \in Int, l <= x, x <= h PROVE ~IsUsed(block, given, x)
      <4>1. x \in l .. h
        BY <2>3, <3>1
      <4>2. QED
        BY <1>2, <2>1, <2>2, <4>1
    <3>2. QED
      BY <3>1
  <2>5. l - 1 \in Word => IsUsed(block, given, l - 1)
    BY <1>2, <2>1, <2>2, <2>3
  <2>6. h + 1 \in Word => IsUsed(block, given, h + 1)
    BY <1>2, <2>1, <2>2, <2>3
  <2>7. QED
    BY <1>1, <2>2, <2>3, <2>4, <2>5, <2>6, GapIsFree
<1>5. QED
  BY <1>3, <1>4

\* A request has room exactly where the allocation fits.
LEMMA RoomsToTake ==
  ASSUME LwMemParameters, MemInv, NEW c \in CallRecord, c.op = "alloc",
         c.target = NULL, NEW r, r = RequestOf(c), NEW a
  PROVE  a \in Abstract!RoomsFor(r) <=>
           a \in Fr(block, given) /\ FitsIn(block, a, c)
<1>1. r.place = 0 /\ r.size = c.need /\ c.need \in Nat
  BY DEF RequestOf, NULL, CallRecord
<1>2. \A x \in Fr(block, given) : x \in Nat /\ block[x].size \in Nat
  BY StateFacts, PoolFacts, TileFacts
<1>3. ASSUME a \in Abstract!RoomsFor(r)
      PROVE  a \in Fr(block, given) /\ FitsIn(block, a, c)
  <2>1. PICK g \in Abstract!Gaps : a = g[1] /\ g[1] + r.size - 1 <= g[2]
    BY <1>1, <1>3 DEF Abstract!RoomsFor
  <2>2. g[1] \in Fr(block, given) /\ g[2] = g[1] + block[g[1]].size - 1
    BY GapsAreFree
  <2>3. QED
    BY <1>1, <1>2, <2>1, <2>2 DEF FitsIn
<1>4. ASSUME a \in Fr(block, given), FitsIn(block, a, c)
      PROVE  a \in Abstract!RoomsFor(r)
  <2>1. PICK g : g = <<a, a + block[a].size - 1>>
    OBVIOUS
  <2>2. g \in Abstract!Gaps
    BY <1>4, <2>1, GapsAreFree
  <2>3. g[1] = a /\ g[1] + r.size - 1 <= g[2]
    BY <1>1, <1>2, <1>4, <2>1 DEF FitsIn
  <2>4. QED
    BY <1>1, <2>2, <2>3 DEF Abstract!RoomsFor
<1>5. QED
  BY <1>3, <1>4

LEMMA RoomsToTakeAt ==
  ASSUME LwMemParameters, MemInv, NEW c \in CallRecord, c.op = "at",
         c.target # NULL, NEW r, r = RequestOf(c), NEW x
  PROVE  x \in Abstract!RoomsFor(r) <=>
           x = c.target /\ \E a \in Fr(block, given) : FitsIn(block, a, c)
<1>1. /\ r.place = c.target /\ r.place # 0 /\ r.size = c.need
      /\ c.need \in Nat /\ c.target \in Nat /\ MinBlock \in Nat
  BY PoolNumbers DEF RequestOf, NULL, CallRecord
<1>2. \A y \in Fr(block, given) : y \in Nat /\ block[y].size \in Nat
  BY StateFacts, PoolFacts, TileFacts
<1>3. ASSUME x \in Abstract!RoomsFor(r)
      PROVE  x = c.target /\ \E a \in Fr(block, given) : FitsIn(block, a, c)
  <2>1. x = c.target
    BY <1>1, <1>3 DEF Abstract!RoomsFor
  <2>2. PICK g \in Abstract!Gaps : g[1] + MinBlock <= x /\ x + r.size - 1 <= g[2]
    BY <1>1, <1>3 DEF Abstract!RoomsFor
  <2>3. g[1] \in Fr(block, given) /\ g[2] = g[1] + block[g[1]].size - 1
    BY GapsAreFree
  <2>4. FitsIn(block, g[1], c)
    BY <1>1, <1>2, <2>1, <2>2, <2>3 DEF FitsIn
  <2>5. QED
    BY <2>1, <2>3, <2>4
<1>4. ASSUME x = c.target, NEW a \in Fr(block, given), FitsIn(block, a, c)
      PROVE  x \in Abstract!RoomsFor(r)
  <2>1. PICK g : g = <<a, a + block[a].size - 1>>
    OBVIOUS
  <2>2. g \in Abstract!Gaps
    BY <1>4, <2>1, GapsAreFree
  <2>3. g[1] + MinBlock <= x /\ x + r.size - 1 <= g[2]
    BY <1>1, <1>2, <1>4, <2>1 DEF FitsIn
  <2>4. QED
    BY <1>1, <1>4, <2>2, <2>3 DEF Abstract!RoomsFor
<1>5. QED
  BY <1>3, <1>4

\* A task has at most one allocation in progress, which is its request.
LEMMA AskIs ==
  ASSUME LwMemParameters, NEW cs, NEW g, StackOK(cs, g),
         NEW i \in DOMAIN cs, Allocates(cs[i])
  PROVE  AskOf(cs, cs[i].task) = RequestOf(cs[i])
<1>1. cs \in Seq(CallRecord) /\ Ordered(cs)
  BY StackParts
<1>2. \A j \in DOMAIN cs : j \in Nat /\ Priority[cs[j].task] \in Nat
  <2>1. \A j \in DOMAIN cs : j \in Nat /\ cs[j] \in CallRecord
    BY <1>1
  <2>2. QED
    BY <2>1 DEF CallRecord, LwMemParameters
<1>3. \A j \in DOMAIN cs : cs[j].task = cs[i].task => j = i
  BY <1>1, <1>2 DEF Ordered
<1>4. AllocsOf(cs, cs[i].task) = {i}
  BY <1>3 DEF AllocsOf
<1>5. Max({i}) = i
  BY <1>2 DEF Max
<1>6. QED
  BY <1>4, <1>5 DEF AskOf

LEMMA AskNone ==
  ASSUME NEW cs, NEW t,
         \A i \in DOMAIN cs : Allocates(cs[i]) => cs[i].task # t
  PROVE  AskOf(cs, t) = [size |-> 0]
BY DEF AskOf, AllocsOf

\* The requests are determined by the allocations on the stack.
LEMMA AsksSame ==
  ASSUME LwMemParameters, NEW cs, NEW g, NEW ds, NEW h,
         StackOK(cs, g), StackOK(ds, h), NEW t,
         \A i \in DOMAIN cs : Allocates(cs[i]) /\ cs[i].task = t =>
           \E j \in DOMAIN ds : /\ Allocates(ds[j]) /\ ds[j].task = t
                                /\ RequestOf(ds[j]) = RequestOf(cs[i]),
         \A j \in DOMAIN ds : Allocates(ds[j]) /\ ds[j].task = t =>
           \E i \in DOMAIN cs : Allocates(cs[i]) /\ cs[i].task = t
  PROVE  AskOf(ds, t) = AskOf(cs, t)
<1>1. CASE \E i \in DOMAIN cs : Allocates(cs[i]) /\ cs[i].task = t
  <2>1. PICK i \in DOMAIN cs : Allocates(cs[i]) /\ cs[i].task = t
    BY <1>1
  <2>2. PICK j \in DOMAIN ds : /\ Allocates(ds[j]) /\ ds[j].task = t
                               /\ RequestOf(ds[j]) = RequestOf(cs[i])
    BY <2>1
  <2>3. AskOf(cs, t) = RequestOf(cs[i])
    BY <2>1, AskIs
  <2>4. AskOf(ds, t) = RequestOf(ds[j])
    BY <2>2, AskIs
  <2>5. QED
    BY <2>2, <2>3, <2>4
<1>2. CASE ~ \E i \in DOMAIN cs : Allocates(cs[i]) /\ cs[i].task = t
  <2>1. AskOf(cs, t) = [size |-> 0]
    BY <1>2, AskNone
  <2>2. AskOf(ds, t) = [size |-> 0]
    BY <1>2, AskNone
  <2>3. QED
    BY <2>1, <2>2
<1>3. QED
  BY <1>1, <1>2

\* The last call returns: a request is over if that was an allocation.
LEMMA AsksAfterPop ==
  ASSUME LwMemParameters, NEW cs, NEW g, NEW h, StackOK(cs, g), cs # <<>>,
         StackOK(Front(cs), h)
  PROVE  /\ \A t : ~Allocates(Last(cs)) \/ t # Last(cs).task =>
              AskOf(Front(cs), t) = AskOf(cs, t)
         /\ Allocates(Last(cs)) =>
              /\ AskOf(cs, Last(cs).task) = RequestOf(Last(cs))
              /\ AskOf(Front(cs), Last(cs).task) = [size |-> 0]
<1> DEFINE n == Len(cs)
           ds == Front(cs)
<1>1. cs \in Seq(CallRecord) /\ Ordered(cs)
  BY StackParts
<1>2. /\ n \in Nat /\ n >= 1 /\ DOMAIN ds = 1 .. n - 1 /\ DOMAIN cs = 1 .. n
      /\ \A i \in DOMAIN ds : ds[i] = cs[i]
      /\ Last(cs) = cs[n]
  BY <1>1, FrontFacts
<1>3. \A i \in DOMAIN cs : i = n \/ (i \in DOMAIN ds /\ ds[i] = cs[i])
  BY <1>2
<1>4. \A i \in DOMAIN ds : i \in DOMAIN cs /\ ds[i] = cs[i]
  BY <1>2
<1>5. ASSUME NEW t, ~Allocates(Last(cs)) \/ t # Last(cs).task
      PROVE  AskOf(ds, t) = AskOf(cs, t)
  <2>1. \A i \in DOMAIN cs : Allocates(cs[i]) /\ cs[i].task = t =>
          \E j \in DOMAIN ds : /\ Allocates(ds[j]) /\ ds[j].task = t
                               /\ RequestOf(ds[j]) = RequestOf(cs[i])
    BY <1>2, <1>3, <1>5
  <2>2. \A j \in DOMAIN ds : Allocates(ds[j]) /\ ds[j].task = t =>
          \E i \in DOMAIN cs : Allocates(cs[i]) /\ cs[i].task = t
    BY <1>4
  <2>3. QED
    BY <2>1, <2>2, AsksSame
<1>6. ASSUME Allocates(Last(cs))
      PROVE  /\ AskOf(cs, Last(cs).task) = RequestOf(Last(cs))
             /\ AskOf(ds, Last(cs).task) = [size |-> 0]
  <2>1. n \in DOMAIN cs
    BY <1>2
  <2>2. AskOf(cs, Last(cs).task) = RequestOf(Last(cs))
    BY <1>2, <1>6, <2>1, AskIs
  <2>3. ASSUME NEW i \in DOMAIN ds
        PROVE  ds[i].task # Last(cs).task
    <3>1. i \in DOMAIN cs /\ ds[i] = cs[i] /\ i < n
      BY <1>2
    <3>2. Priority[cs[n].task] < Priority[cs[i].task]
      BY <1>1, <2>1, <3>1 DEF Ordered
    <3>3. Priority[cs[i].task] \in Nat
      <4>1. cs[i] \in CallRecord
        BY <1>1, <3>1
      <4>2. QED
        BY <4>1 DEF CallRecord, LwMemParameters
    <3>4. QED
      BY <1>2, <3>1, <3>2, <3>3
  <2>4. QED
    BY <2>2, <2>3, AskNone
<1>7. QED
  BY <1>5, <1>6

\* A call begins: it is a request if it allocates.
LEMMA AsksAfterPush ==
  ASSUME LwMemParameters, NEW cs, NEW g, NEW c, NEW h, StackOK(cs, g),
         c \in CallRecord, StackOK(Append(cs, c), h)
  PROVE  /\ \A t : ~Allocates(c) \/ t # c.task =>
              AskOf(Append(cs, c), t) = AskOf(cs, t)
         /\ Allocates(c) => /\ AskOf(cs, c.task) = [size |-> 0]
                            /\ AskOf(Append(cs, c), c.task) = RequestOf(c)
<1>1. PICK ds : ds = Append(cs, c)
  OBVIOUS
<1>2. cs \in Seq(CallRecord)
  BY StackParts
<1>3. ds \in Seq(CallRecord) /\ Len(ds) = Len(cs) + 1 /\ Len(cs) \in Nat
  BY <1>1, <1>2, AppendFacts
<1>4. ds # <<>> /\ StackOK(ds, h)
  BY <1>1, <1>3
<1>5. /\ DOMAIN ds = 1 .. Len(cs) + 1 /\ ds[Len(cs) + 1] = c
      /\ \A i \in 1 .. Len(cs) : ds[i] = cs[i]
  BY <1>1, <1>2, AppendFacts
<1>6. Last(ds) = c
  BY <1>3, <1>5, <1>4, FrontFacts
<1>7. Front(ds) = cs
  <2>1. Front(ds) \in Seq(CallRecord) /\ Len(Front(ds)) = Len(cs)
        /\ \A i \in 1 .. Len(cs) : Front(ds)[i] = cs[i]
    <3>1. /\ Front(ds) \in Seq(CallRecord) /\ Len(Front(ds)) = Len(ds) - 1
          /\ DOMAIN Front(ds) = 1 .. Len(ds) - 1
          /\ \A i \in DOMAIN Front(ds) : Front(ds)[i] = ds[i]
      BY <1>3, <1>4, FrontFacts
    <3>2. QED
      BY <1>3, <1>5, <3>1
  <2>2. QED
    BY <1>2, <2>1
<1>8. QED
  BY <1>1, <1>4, <1>6, <1>7, AsksAfterPop

\* A call goes on to its next round.
LEMMA AsksAfterRound ==
  ASSUME LwMemParameters, NEW cs, NEW g, NEW c, NEW h, StackOK(cs, g), cs # <<>>,
         c \in CallRecord, c.task = Last(cs).task, RequestOf(c) = RequestOf(Last(cs)),
         Allocates(c) <=> Allocates(Last(cs)),
         StackOK(Append(Front(cs), c), h), NEW t
  PROVE  AskOf(Append(Front(cs), c), t) = AskOf(cs, t)
<1>1. StackOK(Front(cs), g)
  <2>1. \A i \in DOMAIN Front(cs) : cs[i].op = "free" => cs[i].target \in g
    <3>1. cs \in Seq(CallRecord)
      BY StackParts
    <3>2. \A i \in DOMAIN Front(cs) : i \in DOMAIN cs
      BY <3>1, FrontFacts
    <3>3. QED
      BY <3>2 DEF StackOK
  <2>2. QED
    BY <2>1, StackPop
<1>2. /\ \A s : ~Allocates(Last(cs)) \/ s # Last(cs).task =>
           AskOf(Front(cs), s) = AskOf(cs, s)
      /\ Allocates(Last(cs)) => AskOf(cs, Last(cs).task) = RequestOf(Last(cs))
  BY <1>1, AsksAfterPop
<1>3. /\ \A s : ~Allocates(c) \/ s # c.task =>
           AskOf(Append(Front(cs), c), s) = AskOf(Front(cs), s)
      /\ Allocates(c) => AskOf(Append(Front(cs), c), c.task) = RequestOf(c)
  BY <1>1, AsksAfterPush
<1>4. QED
  BY <1>2, <1>3

LEMMA StateNext ==
  ASSUME MemInv'
  PROVE  PoolOK(block', given', free') /\ StackOK(stack', given')
BY DEF MemInv, InvOf

LEMMA HeapStarts ==
  ASSUME LwMemParameters, PoolInit
  PROVE  Abstract!Init
<1>1. given = {} /\ stack = <<>>
  BY DEF PoolInit
<1>2. AbstractBlocks = {}
  BY <1>1, HeapState DEF BlocksOf
<1>3. \A t \in Task : AskOf(stack, t) = [size |-> 0]
  BY <1>1, AskNone
<1>4. AbstractAsks = [t \in Task |-> [size |-> 0]]
  BY <1>3, HeapState
<1>5. QED
  BY <1>2, <1>4 DEF Abstract!Init, Abstract!Nothing

\* The call that asks for a block is the step in which the heap is asked.
LEMMA HeapAsks ==
  ASSUME LwMemParameters, MemInv, MemInv', NEW c, CallOK(c, given), Allocates(c),
         c.owner \in {c.task, System}, stack' = Append(stack, c),
         UNCHANGED <<block, given>>
  PROVE  Abstract!Ask(c.task)
<1> DEFINE r == RequestOf(c)
<1>1. StackOK(stack, given) /\ StackOK(stack', given')
  BY StateFacts, StateNext
<1>2. /\ c \in CallRecord /\ c.task \in Task /\ c.need >= MinBlock
      /\ c.need \in Nat /\ c.owner \in Owner /\ c.target \in Ptr
  BY DEF CallOK, CallRecord
<1>3. c.need \in Nat \ {0} /\ c.target \in 0 .. PoolSize
  <2>1. MinBlock >= 1 /\ MinBlock \in Nat /\ PoolSize \in Nat
    BY PoolNumbers
  <2>2. QED
    BY <1>2, <2>1 DEF Ptr, Word, Start, NULL
<1>4. r \in Abstract!Request /\ r.owner = c.owner
  BY <1>2, <1>3 DEF RequestOf, Abstract!Request, Owner
<1>5. /\ \A t : t # c.task => AskOf(stack', t) = AskOf(stack, t)
      /\ AskOf(stack, c.task) = [size |-> 0] /\ AskOf(stack', c.task) = r
  BY <1>1, <1>2, AsksAfterPush
<1>6. /\ AbstractAsks = [t \in Task |-> AskOf(stack, t)]
      /\ AbstractAsks' = [t \in Task |-> AskOf(stack', t)]
      /\ AbstractBlocks' = AbstractBlocks
  BY HeapState
<1>7. AbstractAsks[c.task] = Abstract!Nothing /\ AbstractAsks'[c.task] = r
  BY <1>2, <1>5, <1>6 DEF Abstract!Nothing
<1>8. AbstractAsks' = [AbstractAsks EXCEPT ![c.task] = AbstractAsks'[c.task]]
  <2>1. PICK A, B : A = AbstractAsks /\ B = AbstractAsks'
    OBVIOUS
  <2>2. B = [A EXCEPT ![c.task] = B[c.task]]
    <3>1. A = [t \in Task |-> AskOf(stack, t)] /\ B = [t \in Task |-> AskOf(stack', t)]
      BY <1>6, <2>1
    <3>2. \A t \in Task : t # c.task => B[t] = A[t]
      BY <1>5, <3>1
    <3>3. QED
      BY <3>1, <3>2
  <2>3. QED
    BY <2>1, <2>2
<1>9. QED
  BY <1>4, <1>6, <1>7, <1>8 DEF Abstract!Ask

\* Its return is the step in which the heap answers.
LEMMA AskEnds ==
  ASSUME LwMemParameters, MemInv, MemInv', Walks({"alloc", "at"}), EndCall
  PROVE  /\ Top.task \in Task
         /\ AbstractAsks[Top.task] = RequestOf(Top)
         /\ AbstractAsks[Top.task] # Abstract!Nothing
         /\ AbstractAsks' = [AbstractAsks EXCEPT ![Top.task] = Abstract!Nothing]
<1>1. StackOK(stack, given) /\ StackOK(stack', given')
  BY StateFacts, StateNext
<1>2. /\ stack # <<>> /\ Allocates(Top) /\ Top = Last(stack) /\ CallOK(Top, given)
      /\ stack' = Front(stack)
  <2>1. CallOK(Top, given) /\ Allocates(Top) /\ stack # <<>>
    BY AtCursor
  <2>2. QED
    BY <2>1 DEF Top, EndCall
<1>3. Top.task \in Task /\ Top.need >= MinBlock /\ Top.need \in Nat
  BY <1>2 DEF CallOK, CallRecord
<1>4. /\ \A t : t # Top.task => AskOf(stack', t) = AskOf(stack, t)
      /\ AskOf(stack, Top.task) = RequestOf(Top) /\ AskOf(stack', Top.task) = [size |-> 0]
  BY <1>1, <1>2, AsksAfterPop
<1>5. PICK u : u = Top.task
  OBVIOUS
<1>6. /\ AbstractAsks = [t \in Task |-> AskOf(stack, t)]
      /\ AbstractAsks' = [t \in Task |-> AskOf(stack', t)]
  BY HeapState
<1>7. AbstractAsks[u] = RequestOf(Top)
  BY <1>3, <1>4, <1>5, <1>6
<1>8. RequestOf(Top) # [size |-> 0]
  <2>1. RequestOf(Top).size # 0
    BY <1>3, PoolNumbers DEF RequestOf
  <2>2. QED
    BY <2>1
<1>9. AbstractAsks' = [AbstractAsks EXCEPT ![u] = [size |-> 0]]
  BY <1>3, <1>4, <1>5, <1>6
<1>10. QED
  BY <1>3, <1>5, <1>7, <1>8, <1>9 DEF Abstract!Nothing

LEMMA HeapRefuses ==
  ASSUME LwMemParameters, MemInv, MemInv', Walks({"alloc", "at"}), EndCall,
         \A x \in Fr(block, given) : ~FitsIn(block, x, Top),
         UNCHANGED <<block, given>>
  PROVE  Abstract!Refuse(Top.task)
<1>1. /\ AbstractAsks[Top.task] = RequestOf(Top)
      /\ AbstractAsks[Top.task] # Abstract!Nothing
      /\ AbstractAsks' = [AbstractAsks EXCEPT ![Top.task] = Abstract!Nothing]
  BY AskEnds
<1>2. CallOK(Top, given) /\ Allocates(Top)
  BY AtCursor
<1>3. Top \in CallRecord /\ (Top.op = "alloc" => Top.target = NULL)
      /\ (Top.op # "alloc" => Top.op = "at" /\ Top.target # NULL)
  BY <1>2, PoolNumbers DEF CallOK, Allocates
<1>4. PICK r : r = RequestOf(Top)
  OBVIOUS
<1>5. \A a : a \notin Abstract!RoomsFor(r)
  <2>1. CASE Top.op = "alloc"
    BY <1>3, <1>4, <2>1, RoomsToTake
  <2>2. CASE Top.op # "alloc"
    BY <1>3, <1>4, <2>2, RoomsToTakeAt
  <2>3. QED
    BY <2>1, <2>2
<1>6. Abstract!RoomsFor(AbstractAsks[Top.task]) = {}
  BY <1>1, <1>4, <1>5
<1>7. AbstractBlocks' = AbstractBlocks
  BY HeapState
<1>8. QED
  BY <1>1, <1>6, <1>7 DEF Abstract!Refuse

\* What an allocation must do to the pool: a block at q, in the free block
\* at a, is given to the caller.
Gives(a, q, extra) ==
  /\ a \in Fr(block, given) /\ FitsIn(block, a, Top)
  /\ q = IF Top.op = "alloc" THEN a ELSE Top.target
  /\ extra \in 0 .. MinBlock - 1
  /\ q + Top.need + extra <= a + block[a].size
  /\ given' = given \cup {q}
  /\ block'[q].size = Top.need + extra /\ block'[q].owner = Top.owner
  /\ \A x \in given : block'[x] = block[x]

LEMMA HeapAllocates ==
  ASSUME LwMemParameters, MemInv, MemInv', Walks({"alloc", "at"}), EndCall,
         NEW a, NEW q, NEW extra, Gives(a, q, extra)
  PROVE  Abstract!Allocate(Top.task)
<1>1. /\ AbstractAsks[Top.task] = RequestOf(Top)
      /\ AbstractAsks[Top.task] # Abstract!Nothing
      /\ AbstractAsks' = [AbstractAsks EXCEPT ![Top.task] = Abstract!Nothing]
  BY AskEnds
<1>2. CallOK(Top, given) /\ Allocates(Top) /\ PoolOK(block, given, free)
  BY AtCursor, StateFacts
<1>3. /\ Top \in CallRecord /\ (Top.op = "alloc" => Top.target = NULL)
      /\ (Top.op # "alloc" => Top.op = "at" /\ Top.target # NULL)
      /\ Top.need \in Nat /\ Top.target \in Nat /\ MinBlock \in Nat
  BY <1>2, PoolNumbers DEF CallOK, Allocates, CallRecord
<1>4. PICK r : r = RequestOf(Top)
  OBVIOUS
<1>5. r.size = Top.need /\ r.owner = Top.owner
  BY <1>4 DEF RequestOf
<1>6. a \in Fr(block, given) /\ FitsIn(block, a, Top)
  BY DEF Gives
<1>7. PICK e : e = a + block[a].size
  OBVIOUS
<1>8. /\ a \in Word /\ a \in Nat /\ block[a].size \in Nat /\ e \in Nat /\ e - 1 \in Word
      /\ \A x \in Int : a <= x /\ x < e => ~IsUsed(block, given, x)
  BY <1>2, <1>6, <1>7, FreeIsGap, PoolNumbers
<1>9. q \in Nat /\ a <= q /\ extra \in Nat /\ q + Top.need + extra <= e
  BY <1>3, <1>6, <1>7, <1>8 DEF Gives, FitsIn
<1>10. q \in Abstract!RoomsFor(r)
  <2>1. CASE Top.op = "alloc"
    BY <1>3, <1>4, <1>6, <2>1, RoomsToTake DEF Gives
  <2>2. CASE Top.op # "alloc"
    BY <1>3, <1>4, <1>6, <2>2, RoomsToTakeAt DEF Gives
  <2>3. QED
    BY <2>1, <2>2
<1>11. PICK u : u = [addr |-> q, size |-> r.size + extra, owner |-> r.owner]
  OBVIOUS
<1>12. Abstract!Words(u) \subseteq Abstract!Word \ Abstract!Used
  <2>1. Abstract!Words(u) = q .. q + (Top.need + extra) - 1
    BY <1>5, <1>11 DEF Abstract!Words
  <2>2. ASSUME NEW x \in q .. q + (Top.need + extra) - 1
        PROVE  x \in Word /\ x \notin Abstract!Used
    <3>1. x \in Nat /\ a <= x /\ x < e /\ x <= e - 1
      BY <1>3, <1>8, <1>9, <2>2
    <3>2. ~IsUsed(block, given, x)
      BY <1>8, <3>1
    <3>3. x \notin Abstract!Used
      BY <3>1, <3>2, UsedWords
    <3>4. x >= 1 /\ x < End
      BY <1>8, <3>1, PoolNumbers
    <3>5. QED
      BY <3>1, <3>3, <3>4, PoolNumbers
  <2>3. Abstract!Word = Word
    BY UsedWords
  <2>4. QED
    BY <2>1, <2>2, <2>3
<1>13. AbstractBlocks' = AbstractBlocks \cup {u}
  <2>1. /\ AbstractBlocks = {[addr |-> x, size |-> block[x].size,
                              owner |-> block[x].owner] : x \in given}
        /\ AbstractBlocks' = {[addr |-> x, size |-> block'[x].size,
                               owner |-> block'[x].owner] : x \in given'}
    BY HeapState DEF BlocksOf
  <2>2. u = [addr |-> q, size |-> block'[q].size, owner |-> block'[q].owner]
    BY <1>5, <1>11 DEF Gives
  <2>3. \A x \in given : block'[x].size = block[x].size
                         /\ block'[x].owner = block[x].owner
    BY DEF Gives
  <2>4. given' = given \cup {q}
    BY DEF Gives
  <2>5. QED
    BY <2>1, <2>2, <2>3, <2>4
<1>14. extra \in 0 .. MinBlock - 1
  BY DEF Gives
<1>15. /\ AbstractAsks[Top.task] = r /\ AbstractAsks[Top.task] # Abstract!Nothing
       /\ AbstractAsks' = [AbstractAsks EXCEPT ![Top.task] = Abstract!Nothing]
  BY <1>1, <1>4
<1>16. QED
  BY <1>10, <1>11, <1>12, <1>13, <1>14, <1>15 DEF Abstract!Allocate

LEMMA TakeGives ==
  ASSUME LwMemParameters, MemInv, Walks({"alloc", "at"}),
         NEW a, a = cursor.alloc, a # NULL, NEW c,
         c = [Top EXCEPT !.prev = IF a = free THEN a ELSE @],
         c.op = "alloc", Fits(a, c), Take(a, c)
  PROVE  \E extra : Gives(a, a, extra)
<1> DEFINE F == Fr(block, given)
           need == c.need
           rest == block[a].size - need
           r == a + need
           extra == IF rest >= MinBlock THEN 0 ELSE rest
<1>1. PoolOK(block, given, free) /\ Heads = Hd(block) /\ FitsIn(block, a, c)
  BY StateFacts
<1>2. /\ Tiles(block) /\ F \subseteq Hd(block) /\ F \cap given = {}
      /\ given \subseteq Hd(block) /\ Hd(block) \subseteq Word
      /\ block \in [Word -> BlockRecord]
  BY <1>1, PoolFacts
<1>3. /\ Allocates(Top) /\ CallOK(Top, given) /\ a \in F
      /\ a # free => Top.prev \in F
  BY AtCursor
<1>4. Top \in CallRecord /\ Top.need >= MinBlock
  BY <1>3 DEF CallOK
<1>5. /\ c.op = Top.op /\ c.need = Top.need /\ c.owner = Top.owner
      /\ c.target = Top.target
      /\ c.prev = IF a = free THEN a ELSE Top.prev
      /\ need \in Nat /\ need >= MinBlock
  BY <1>4 DEF CallRecord
<1>6. /\ a \in Nat /\ a \in Word /\ block[a].size \in Nat
      /\ a + block[a].size <= End /\ End \in Nat
      /\ \A x \in Hd(block) : a < x => a + block[a].size <= x
      /\ MinBlock \in Nat /\ MinBlock >= 1
  BY <1>2, <1>3, TileFacts, PoolNumbers
<1>7. block[a].size >= need /\ rest \in Nat
  BY <1>1, <1>5, <1>6 DEF FitsIn
<1>8. /\ c.prev \in F /\ a \notin given /\ c.prev \notin given
  BY <1>2, <1>3, <1>5
<1>9. PICK s : s = Split(a, c.need)
  OBVIOUS
<1>10. /\ s.list[a].size = need + extra
       /\ \A x \in given : s.list[x] = block[x]
       /\ DOMAIN s.list = Word
  <2>1. CASE rest >= MinBlock
    <3>1. s.list = [block EXCEPT ![a].size = need,
                                 ![r] = Free(rest, block[a].next)]
      BY <1>9, <2>1 DEF Split
    <3>2. /\ r # a /\ r \in Word /\ r \notin Hd(block)
      <4>1. r \in Nat /\ a < r /\ r < a + block[a].size
        BY <1>5, <1>6, <1>7, <2>1
      <4>2. QED
        BY <1>6, <4>1, PoolNumbers
    <3>3. block[a] \in BlockRecord
      BY <1>2, <1>6
    <3>4. s.list[a] = [block[a] EXCEPT !.size = need]
      BY <1>2, <1>6, <3>1, <3>2
    <3>5. s.list[a].size = need
      BY <3>3, <3>4 DEF BlockRecord
    <3>6. \A x \in Word : x # a /\ x # r => s.list[x] = block[x]
      BY <1>2, <3>1
    <3>7. \A x \in given : s.list[x] = block[x]
      BY <1>2, <1>8, <3>2, <3>6
    <3>8. need = need + extra
      BY <1>5, <2>1
    <3>9. DOMAIN s.list = Word
      BY <1>2, <3>1
    <3>10. QED
      BY <3>1, <3>5, <3>7, <3>8, <3>9
  <2>2. CASE ~(rest >= MinBlock)
    <3>1. s.list = block
      BY <1>9, <2>2 DEF Split
    <3>2. need + extra = block[a].size
      BY <1>5, <1>6, <1>7, <2>2
    <3>3. QED
      BY <1>2, <3>1, <3>2
  <2>3. QED
    BY <2>1, <2>2
<1>11. PICK l : l = IF a = free THEN s.list ELSE Linked(s.list, c.prev, s.next)
  OBVIOUS
<1>12. DOMAIN l = Word /\ \A x \in given : l[x] = s.list[x]
  <2>1. CASE a = free
    BY <1>10, <1>11, <2>1
  <2>2. CASE a # free
    <3>1. l = [s.list EXCEPT ![c.prev].next = s.next]
      BY <1>1, <1>2, <1>8, <1>11, <2>2 DEF Linked
    <3>2. \A x \in Word : x # c.prev => l[x] = s.list[x]
      BY <1>10, <3>1
    <3>3. QED
      BY <1>2, <1>8, <1>10, <3>1, <3>2
  <2>3. QED
    BY <2>1, <2>2
<1>13. /\ block' = [l EXCEPT ![a] = InUse(s.list[a].size, c.owner)]
       /\ given' = given \cup {a}
  BY <1>9, <1>11 DEF Take
<1>14. /\ block'[a] = InUse(need + extra, c.owner)
       /\ \A x \in given : block'[x] = block[x]
  BY <1>2, <1>6, <1>8, <1>10, <1>12, <1>13
<1>15. block'[a].size = Top.need + extra /\ block'[a].owner = Top.owner
  BY <1>5, <1>14 DEF InUse
<1>16. FitsIn(block, a, Top)
  BY <1>1, <1>5 DEF FitsIn
<1>17. extra \in 0 .. MinBlock - 1 /\ a + Top.need + extra <= a + block[a].size
  BY <1>5, <1>6, <1>7
<1>18. Gives(a, a, extra)
  BY <1>3, <1>5, <1>13, <1>14, <1>15, <1>16, <1>17 DEF Gives
<1>19. QED
  BY <1>18

LEMMA TakeAtGives ==
  ASSUME LwMemParameters, MemInv, Walks({"alloc", "at"}),
         NEW a, a = cursor.alloc, a # NULL, NEW c,
         c = [Top EXCEPT !.prev = IF a = free THEN a ELSE @],
         c.op # "alloc", Fits(a, c), TakeAt(a, c)
  PROVE  \E extra : Gives(a, Top.target, extra)
<1> DEFINE F == Fr(block, given)
           need == c.need
           q == c.target
           before == q - a
           rest == block[a].size - need - before
           r == q + need
           extra == IF rest >= MinBlock THEN 0 ELSE rest
<1>1. PoolOK(block, given, free) /\ FitsIn(block, a, c)
  BY StateFacts
<1>2. /\ Tiles(block) /\ F \subseteq Hd(block) /\ F \cap given = {}
      /\ given \subseteq Hd(block) /\ Hd(block) \subseteq Word
  BY <1>1, PoolFacts
<1>3. Allocates(Top) /\ CallOK(Top, given) /\ a \in F
  BY AtCursor
<1>4. Top \in CallRecord /\ Top.need >= MinBlock
  BY <1>3 DEF CallOK
<1>5. /\ c.op = Top.op /\ c.need = Top.need /\ c.owner = Top.owner
      /\ c.target = Top.target /\ need \in Nat /\ need >= MinBlock
  BY <1>4 DEF CallRecord
<1>6. c.op = "at" /\ q \in Word
  BY <1>3, <1>5 DEF Allocates, CallOK
<1>7. /\ a \in Nat /\ a \in Word /\ block[a].size \in Nat
      /\ \A x \in Hd(block) : a < x => a + block[a].size <= x
      /\ MinBlock \in Nat /\ MinBlock >= 1 /\ q \in Nat
  BY <1>2, <1>3, <1>6, TileFacts, PoolNumbers
<1>8. a + MinBlock <= q /\ a + block[a].size >= q + need
  BY <1>1, <1>6 DEF FitsIn
<1>9. /\ rest \in Nat /\ a < q /\ q < a + block[a].size
      /\ r \in Nat /\ a < r /\ q # r
      /\ rest >= MinBlock => r < a + block[a].size
  BY <1>5, <1>7, <1>8
<1>10. \A x \in given : x \in Word /\ x # a /\ x # q
                        /\ (rest >= MinBlock => x # r)
  BY <1>2, <1>3, <1>7, <1>9
<1>11. given' = given \cup {q}
  BY DEF TakeAt
<1>12. \A x \in given : block'[x] = block[x]
  BY <1>10 DEF TakeAt
<1>13. block'[q] = InUse(need + extra, c.owner)
  <2>1. CASE rest >= MinBlock
    <3>1. block'[q] = InUse(need, c.owner) /\ need + extra = need
      BY <1>5, <1>6, <1>9, <2>1 DEF TakeAt
    <3>2. QED
      BY <3>1
  <2>2. CASE ~(rest >= MinBlock)
    <3>1. block'[q] = InUse(need + rest, c.owner) /\ extra = rest
      BY <1>6, <1>9, <2>2 DEF TakeAt
    <3>2. QED
      BY <3>1
  <2>3. QED
    BY <2>1, <2>2
<1>14. block'[q].size = Top.need + extra /\ block'[q].owner = Top.owner
  BY <1>5, <1>13 DEF InUse
<1>15. FitsIn(block, a, Top) /\ q = IF Top.op = "alloc" THEN a ELSE Top.target
  BY <1>1, <1>5, <1>6 DEF FitsIn
<1>16. extra \in 0 .. MinBlock - 1 /\ q + Top.need + extra <= a + block[a].size
  BY <1>5, <1>7, <1>8, <1>9
<1>17. Gives(a, q, extra)
  BY <1>3, <1>11, <1>12, <1>14, <1>15, <1>16 DEF Gives
<1>18. QED
  BY <1>5, <1>17

\* A round of an allocation answers the request, or the heap does not notice.
LEMMA HeapAllocRound ==
  ASSUME LwMemParameters, MemInv, MemInv', AllocRound
  PROVE  \/ \E t \in Task : Abstract!Allocate(t) \/ Abstract!Refuse(t)
         \/ UNCHANGED Abstract!vars
<1> DEFINE F == Fr(block, given)
           a == cursor.alloc
           c == [Top EXCEPT !.prev = IF a = free THEN a ELSE @]
<1>1. Walks({"alloc", "at"})
  BY DEF AllocRound
<1>2. /\ Allocates(Top) /\ CallOK(Top, given) /\ stack # <<>> /\ Top = Last(stack)
      /\ StackOK(stack, given) /\ StackOK(stack', given')
  BY <1>1, AtCursor, StateFacts, StateNext DEF Top
<1>3. Top \in CallRecord /\ Top.task \in Task
  BY <1>2 DEF CallOK, CallRecord
<1>4. /\ c.op = Top.op /\ c.need = Top.need /\ c.target = Top.target
      /\ c.task = Top.task /\ c.owner = Top.owner
  BY <1>3 DEF CallRecord
<1>5. CASE a = NULL /\ EndCall /\ UNCHANGED <<block, free, cursor, given>>
  <2>1. F = {}
    BY <1>1, <1>5, AtCursor
  <2>2. QED
    BY <1>1, <1>3, <1>5, <2>1, HeapRefuses
<1>6. CASE a # NULL /\ Fits(a, c) /\ EndCall
           /\ (IF c.op = "alloc" THEN Take(a, c) ELSE TakeAt(a, c))
  <2>1. \E q, extra : Gives(a, q, extra)
    <3>1. CASE c.op = "alloc"
      BY <1>1, <1>6, <3>1, TakeGives
    <3>2. CASE c.op # "alloc"
      BY <1>1, <1>6, <3>2, TakeAtGives
    <3>3. QED
      BY <3>1, <3>2
  <2>2. Abstract!Allocate(Top.task)
    BY <1>1, <1>6, <2>1, HeapAllocates
  <2>3. QED
    BY <1>3, <2>2
<1>7. CASE a # NULL /\ ~Fits(a, c) /\ block[a].next = NULL /\ EndCall
           /\ UNCHANGED <<block, free, cursor, given>>
  <2>1. a \in F /\ F \subseteq Word /\ \A x \in F : x < a => ~FitsIn(block, x, Top)
    BY <1>1, <1>7, AtCursor
  <2>2. PoolOK(block, given, free) /\ ~FitsIn(block, a, c)
    BY <1>7, StateFacts
  <2>3. IsNext(F, a, block[a].next)
    BY <2>1, <2>2, PoolFacts
  <2>4. \A x \in F : x <= a /\ x \in Nat /\ a \in Nat
    BY <1>7, <2>1, <2>3, PoolNumbers DEF IsNext
  <2>5. ~FitsIn(block, a, Top)
    BY <1>4, <2>2 DEF FitsIn
  <2>6. \A x \in F : ~FitsIn(block, x, Top)
    <3>1. ASSUME NEW x \in F PROVE x < a \/ x = a
      BY <2>4
    <3>2. QED
      BY <2>1, <2>5, <3>1
  <2>7. QED
    BY <1>1, <1>3, <1>7, <2>6, HeapRefuses
<1>8. CASE a # NULL /\ ~Fits(a, c) /\ block[a].next # NULL
           /\ Window([c EXCEPT !.prev = a])
           /\ UNCHANGED <<block, free, given>>
  <2>1. PICK d : d = [c EXCEPT !.prev = a]
    OBVIOUS
  <2>2. stack' = Append(Front(stack), d)
    BY <1>8, <2>1 DEF Window
  <2>3. a \in Ptr
    BY <1>1, <1>8, AtCursor, PoolNumbers
  <2>4. /\ d \in CallRecord /\ d.task = Top.task /\ d.op = Top.op
        /\ d.need = Top.need /\ d.owner = Top.owner /\ d.target = Top.target
    BY <1>3, <2>1, <2>3 DEF CallRecord
  <2>5. RequestOf(d) = RequestOf(Top) /\ (Allocates(d) <=> Allocates(Top))
    BY <2>4 DEF RequestOf, Allocates
  <2>6. \A t \in Task : AskOf(stack', t) = AskOf(stack, t)
    BY <1>2, <2>2, <2>4, <2>5, AsksAfterRound
  <2>7. AbstractAsks' = AbstractAsks /\ AbstractBlocks' = AbstractBlocks
    BY <1>8, <2>6, HeapState
  <2>8. QED
    BY <2>7 DEF Abstract!vars
<1>9. QED
  BY <1>5, <1>6, <1>7, <1>8 DEF AllocRound

LEMMA JoinsKeepOthers ==
  ASSUME NEW list, NEW b, NEW n, NEW f, NEW x \in DOMAIN list,
         x # b, x # n, x # f
  PROVE  /\ JoinNext(list, b, n)[x] = list[x]
         /\ JoinPrevious(JoinNext(list, b, n), f, b)[x] = list[x]
<1>1. PICK J : J = JoinNext(list, b, n)
  OBVIOUS
<1>2. J[x] = list[x] /\ DOMAIN J = DOMAIN list
  BY <1>1 DEF JoinNext
<1>3. JoinPrevious(J, f, b)[x] = J[x]
  BY <1>2 DEF JoinPrevious
<1>4. QED
  BY <1>1, <1>2, <1>3

\* The last round of _lwmem_free is the step in which the heap frees.
LEMMA HeapFrees ==
  ASSUME LwMemParameters, MemInv, MemInv', NEW below, NEW c, NEW f,
         FreeRound(f, c, below), CallOK(c, given), c.op = "free",
         f = free \/ f \in Fr(block, given),
         \A t \in Task : AskOf(below, t) = AskOf(stack, t),
         \A t \in Task : AskOf(Append(below, c), t) = AskOf(stack, t)
  PROVE  \/ \E t \in Task : \E u \in AbstractBlocks : Abstract!Free(t, u)
         \/ UNCHANGED Abstract!vars
<1> DEFINE F == Fr(block, given)
           b == c.target
           n == block[f].next
<1>1. PoolOK(block, given, free)
  BY StateFacts
<1>2. /\ F \cap given = {} /\ given \subseteq Word /\ F \subseteq Word
      /\ block \in [Word -> BlockRecord]
      /\ IsNext(F, NULL, free) /\ \A x \in F : IsNext(F, x, block[x].next)
  BY <1>1, PoolFacts
<1>3. b \in given /\ c.task \in Task
  BY DEF CallOK, CallRecord
<1>4. free = NULL \/ free \in F
  BY <1>2 DEF IsNext
<1>5. NULL \notin Word
  BY PoolNumbers
<1>6. ASSUME given' = given \ {b}, stack' = below,
             \A x \in given \ {b} : block'[x] = block[x]
      PROVE  \E t \in Task : \E u \in AbstractBlocks : Abstract!Free(t, u)
  <2>1. PICK u : u = [addr |-> b, size |-> block[b].size, owner |-> block[b].owner]
    OBVIOUS
  <2>2. /\ AbstractBlocks = {[addr |-> x, size |-> block[x].size,
                              owner |-> block[x].owner] : x \in given}
        /\ AbstractBlocks' = {[addr |-> x, size |-> block'[x].size,
                               owner |-> block'[x].owner] : x \in given'}
    BY HeapState DEF BlocksOf
  <2>3. u \in AbstractBlocks
    BY <1>3, <2>1, <2>2
  <2>4. AbstractBlocks' = AbstractBlocks \ {u}
    <3>1. AbstractBlocks' = {[addr |-> x, size |-> block[x].size,
                              owner |-> block[x].owner] : x \in given \ {b}}
      BY <1>6, <2>2
    <3>2. \A x \in given : x # b =>
            [addr |-> x, size |-> block[x].size, owner |-> block[x].owner] # u
      BY <2>1
    <3>3. QED
      BY <2>1, <2>2, <3>1, <3>2
  <2>5. AbstractAsks' = AbstractAsks
    BY <1>6, HeapState
  <2>6. u.owner \in Task \cup {System}
    BY <1>2, <1>3, <2>1 DEF BlockRecord, Owner
  <2>7. PICK t \in Task : u.owner \in {t, System}
    BY <1>3, <2>6
  <2>8. Abstract!Free(t, u)
    BY <2>4, <2>5, <2>7 DEF Abstract!Free
  <2>9. QED
    BY <2>3, <2>8
<1>7. CASE /\ free = NULL \/ b < free
           /\ block' = JoinNext(block, b, free)
           /\ given' = given \ {b}
           /\ stack' = below
  <2>1. \A x \in given \ {b} : block'[x] = block[x]
    <3>1. ASSUME NEW x \in given \ {b} PROVE block'[x] = block[x]
      <4>1. x \in DOMAIN block /\ x # b /\ x # free
        BY <1>2, <1>4, <1>5
      <4>2. QED
        BY <1>7, <4>1, JoinsKeepOthers
    <3>2. QED
      BY <3>1
  <2>2. QED
    BY <1>6, <1>7, <2>1
<1>8. CASE /\ free # NULL
           /\ block' = JoinPrevious(JoinNext(block, b, n), f, b)
           /\ given' = given \ {b}
           /\ stack' = below
  <2>1. f \in F
    BY <1>4, <1>8
  <2>2. n = NULL \/ n \in F
    BY <1>2, <2>1 DEF IsNext
  <2>3. \A x \in given \ {b} : block'[x] = block[x]
    <3>1. ASSUME NEW x \in given \ {b} PROVE block'[x] = block[x]
      <4>1. x \in DOMAIN block /\ x # b /\ x # n /\ x # f
        BY <1>2, <1>5, <2>1, <2>2
      <4>2. QED
        BY <1>8, <4>1, JoinsKeepOthers
    <3>2. QED
      BY <3>1
  <2>4. QED
    BY <1>6, <1>8, <2>3
<1>9. CASE stack' = Append(below, c) /\ UNCHANGED <<block, free, given>>
  <2>1. AbstractAsks' = AbstractAsks /\ AbstractBlocks' = AbstractBlocks
    BY <1>9, HeapState
  <2>2. QED
    BY <2>1 DEF Abstract!vars
<1>10. QED
  BY <1>7, <1>8, <1>9 DEF FreeRound

LEMMA HeapStartFree ==
  ASSUME LwMemParameters, MemInv, MemInv', NEW s \in Task, NEW b, StartFree(s, b)
  PROVE  \/ \E t \in Task : \E u \in AbstractBlocks : Abstract!Free(t, u)
         \/ UNCHANGED Abstract!vars
<1>1. PICK c : c = [op |-> "free", task |-> s, need |-> 0, owner |-> System,
                    prev |-> NULL, target |-> b]
  OBVIOUS
<1>2. /\ b \in given /\ FreeRound(free, c, stack) /\ Runs(s)
      /\ \A i \in DOMAIN stack : stack[i].op = "free" => stack[i].target # b
  BY <1>1 DEF StartFree, Held, Starts
<1>3. PoolOK(block, given, free) /\ StackOK(stack, given)
  BY StateFacts
<1>4. b \in Word /\ b \in Ptr /\ NULL \in Ptr /\ System \in Owner
  BY <1>2, <1>3, PoolFacts, PoolNumbers DEF Owner
<1>5. CallOK(c, given) /\ c.op = "free" /\ c \in CallRecord /\ ~Allocates(c)
  BY <1>1, <1>2, <1>4 DEF CallOK, CallRecord, Allocates
<1>6. StackOK(Append(stack, c), given)
  BY <1>1, <1>2, <1>3, <1>5, StackPush DEF Runs
<1>7. \A t \in Task : AskOf(Append(stack, c), t) = AskOf(stack, t)
  BY <1>3, <1>5, <1>6, AsksAfterPush
<1>8. QED
  BY <1>2, <1>5, <1>7, HeapFrees

LEMMA HeapFreeAgain ==
  ASSUME LwMemParameters, MemInv, MemInv', FreeAgain
  PROVE  \/ \E t \in Task : \E u \in AbstractBlocks : Abstract!Free(t, u)
         \/ UNCHANGED Abstract!vars
<1>1. /\ stack # <<>> /\ Top.op = "free" /\ Top = Last(stack)
      /\ FreeRound(cursor.free, Top, Front(stack))
  BY DEF FreeAgain, Walks, Top
<1>2. /\ StackOK(stack, given) /\ stack \in Seq(CallRecord)
      /\ CursorsOK(Fr(block, given), free, cursor, Hd(block))
  BY StateFacts
<1>3. cursor.free = free \/ cursor.free \in Fr(block, given)
  BY <1>2 DEF CursorsOK
<1>4. /\ Len(stack) \in DOMAIN stack /\ Top = stack[Len(stack)]
      /\ \A i \in DOMAIN Front(stack) : i \in DOMAIN stack
      /\ Len(stack) \in Nat /\ Len(stack) >= 1
  BY <1>1, <1>2, FrontFacts
<1>5. CallOK(Top, given) /\ ~Allocates(Top) /\ Top \in CallRecord
  BY <1>1, <1>2, <1>4, StackParts DEF CallOK, Allocates
<1>6. StackOK(Front(stack), given)
  <2>1. \A i \in DOMAIN Front(stack) : stack[i].op = "free" => stack[i].target \in given
    BY <1>2, <1>4 DEF StackOK
  <2>2. QED
    BY <1>1, <1>2, <2>1, StackPop
<1>7. \A t \in Task : AskOf(Front(stack), t) = AskOf(stack, t)
  BY <1>1, <1>2, <1>5, <1>6, AsksAfterPop
<1>8. Append(Front(stack), Top) = stack
  <2>1. /\ Front(stack) \in Seq(CallRecord) /\ Len(Front(stack)) = Len(stack) - 1
        /\ DOMAIN Front(stack) = 1 .. Len(stack) - 1
        /\ \A i \in DOMAIN Front(stack) : Front(stack)[i] = stack[i]
    BY <1>1, <1>2, FrontFacts
  <2>2. PICK s : s = Append(Front(stack), Top)
    OBVIOUS
  <2>3. s \in Seq(CallRecord) /\ Len(s) = Len(stack)
    BY <1>4, <1>5, <2>1, <2>2
  <2>4. \A i \in 1 .. Len(stack) : s[i] = stack[i]
    BY <1>4, <1>5, <2>1, <2>2
  <2>5. s = stack
    BY <1>2, <2>3, <2>4
  <2>6. QED
    BY <2>2, <2>5
<1>9. QED
  BY <1>1, <1>3, <1>5, <1>7, <1>8, HeapFrees

LEMMA HeapTransfers ==
  ASSUME LwMemParameters, MemInv, NEW s \in Task, NEW b, NEW to \in Task,
         Transfer(s, b, to)
  PROVE  \E u \in AbstractBlocks : Abstract!Transfer(s, u, to)
<1>1. PoolOK(block, given, free)
  BY StateFacts
<1>2. given \subseteq Word /\ block \in [Word -> BlockRecord]
  BY <1>1, PoolFacts
<1>3. /\ b \in given /\ block[b].owner = s
      /\ block' = [block EXCEPT ![b].owner = to]
      /\ UNCHANGED <<stack, given>>
  BY DEF Transfer, Held
<1>4. /\ block[b] \in BlockRecord /\ block'[b] = [block[b] EXCEPT !.owner = to]
      /\ \A x \in given : x # b => block'[x] = block[x]
  BY <1>2, <1>3
<1>5. block'[b].size = block[b].size /\ block'[b].owner = to
  BY <1>4 DEF BlockRecord
<1>6. PICK u : u = [addr |-> b, size |-> block[b].size, owner |-> block[b].owner]
  OBVIOUS
<1>7. PICK v : v = [addr |-> b, size |-> block[b].size, owner |-> to]
  OBVIOUS
<1>8. v = [u EXCEPT !.owner = to] /\ u.owner = s
  BY <1>3, <1>6, <1>7
<1>9. /\ AbstractBlocks = {[addr |-> x, size |-> block[x].size,
                            owner |-> block[x].owner] : x \in given}
      /\ AbstractBlocks' = {[addr |-> x, size |-> block'[x].size,
                             owner |-> block'[x].owner] : x \in given}
      /\ AbstractAsks' = AbstractAsks
  BY <1>3, HeapState DEF BlocksOf
<1>10. u \in AbstractBlocks
  BY <1>3, <1>6, <1>9
<1>11. AbstractBlocks' = (AbstractBlocks \ {u}) \cup {v}
  <2>1. ASSUME NEW w \in AbstractBlocks'
        PROVE  w \in (AbstractBlocks \ {u}) \cup {v}
    <3>1. PICK x \in given : w = [addr |-> x, size |-> block'[x].size,
                                  owner |-> block'[x].owner]
      BY <1>9, <2>1
    <3>2. CASE x = b
      BY <1>5, <1>7, <3>1, <3>2
    <3>3. CASE x # b
      <4>1. w = [addr |-> x, size |-> block[x].size, owner |-> block[x].owner]
        BY <1>4, <3>1, <3>3
      <4>2. w \in AbstractBlocks
        BY <1>9, <4>1
      <4>3. w # u
        BY <1>6, <3>3, <4>1
      <4>4. QED
        BY <4>2, <4>3
    <3>4. QED
      BY <3>2, <3>3
  <2>2. v \in AbstractBlocks'
    <3>1. v = [addr |-> b, size |-> block'[b].size, owner |-> block'[b].owner]
      BY <1>5, <1>7
    <3>2. QED
      BY <1>3, <1>9, <3>1
  <2>3. ASSUME NEW w \in AbstractBlocks, w # u
        PROVE  w \in AbstractBlocks'
    <3>1. PICK x \in given : w = [addr |-> x, size |-> block[x].size,
                                  owner |-> block[x].owner]
      BY <1>9, <2>3
    <3>2. x # b
      BY <1>6, <2>3, <3>1
    <3>3. w = [addr |-> x, size |-> block'[x].size, owner |-> block'[x].owner]
      BY <1>4, <3>1, <3>2
    <3>4. QED
      BY <1>9, <3>3
  <2>4. QED
    BY <2>1, <2>2, <2>3
<1>12. QED
  BY <1>8, <1>9, <1>10, <1>11 DEF Abstract!Transfer

\* The heap does not notice a test.
LEMMA HeapIgnoresTest ==
  ASSUME LwMemParameters, MemInv, MemInv', UNCHANGED <<block, given>>,
         \/ UNCHANGED stack
         \/ \E c : ~Allocates(c) /\ stack' = Append(stack, c)
         \/ stack # <<>> /\ ~Allocates(Top) /\ EndCall
         \/ stack # <<>> /\ ~Allocates(Top) /\ Window([Top EXCEPT !.op = "list"])
  PROVE  UNCHANGED Abstract!vars
<1>1. /\ StackOK(stack, given) /\ StackOK(stack', given') /\ Top = Last(stack)
      /\ stack \in Seq(CallRecord) /\ stack' \in Seq(CallRecord)
  BY StateFacts, StateNext DEF Top, StackOK
<1>2. ASSUME NEW t \in Task
      PROVE  AskOf(stack', t) = AskOf(stack, t)
  <2>1. CASE UNCHANGED stack
    BY <2>1
  <2>2. ASSUME NEW c, ~Allocates(c), stack' = Append(stack, c)
        PROVE  AskOf(stack', t) = AskOf(stack, t)
    <3>1. c \in CallRecord
      <4>1. Len(stack) + 1 \in DOMAIN stack' /\ stack'[Len(stack) + 1] = c
        BY <1>1, <2>2
      <4>2. QED
        BY <1>1, <4>1
    <3>2. QED
      BY <1>1, <2>2, <3>1, AsksAfterPush
  <2>3. CASE stack # <<>> /\ ~Allocates(Top) /\ EndCall
    BY <1>1, <2>3, AsksAfterPop DEF EndCall
  <2>4. CASE stack # <<>> /\ ~Allocates(Top) /\ Window([Top EXCEPT !.op = "list"])
    <3>1. PICK d : d = [Top EXCEPT !.op = "list"]
      OBVIOUS
    <3>2. stack' = Append(Front(stack), d)
      BY <2>4, <3>1 DEF Window
    <3>3. Top \in CallRecord
      BY <1>1, <2>4, FrontFacts
    <3>4. /\ d \in CallRecord /\ d.task = Top.task /\ d.op = "list"
          /\ d.need = Top.need /\ d.owner = Top.owner /\ d.target = Top.target
      BY <3>1, <3>3 DEF CallRecord
    <3>5. RequestOf(d) = RequestOf(Top) /\ (Allocates(d) <=> Allocates(Top))
      BY <2>4, <3>4 DEF RequestOf, Allocates
    <3>6. QED
      BY <1>1, <2>4, <3>2, <3>4, <3>5, AsksAfterRound
  <2>5. QED
    BY <2>1, <2>2, <2>3, <2>4
<1>3. AbstractAsks' = AbstractAsks /\ AbstractBlocks' = AbstractBlocks
  BY <1>2, HeapState
<1>4. QED
  BY <1>3 DEF Abstract!vars

LEMMA HeapStartAlloc ==
  ASSUME LwMemParameters, MemInv, MemInv', NEW t \in Task, NEW size \in Sizes,
         NEW owner \in {t, System}, StartAlloc(t, size, owner)
  PROVE  Abstract!Ask(t)
<1>1. PICK c : c = [op |-> "alloc", task |-> t, need |-> Needed(size),
                    owner |-> owner, prev |-> NULL, target |-> NULL]
  OBVIOUS
<1>2. size \in Nat
  BY DEF LwMemParameters
<1>3. Needed(size) \in Nat /\ Needed(size) >= MinBlock
  BY <1>2, NeededFacts
<1>4. NULL \in Ptr /\ owner \in Owner
  BY PoolNumbers DEF Owner
<1>5. c \in CallRecord /\ c.op = "alloc" /\ c.task = t /\ c.owner = owner
  BY <1>1, <1>3, <1>4 DEF CallRecord
<1>6. /\ "alloc" \in MayDo[t] /\ stack' = Append(stack, c)
      /\ UNCHANGED <<block, given>>
  BY <1>1 DEF StartAlloc, Starts
<1>7. CallOK(c, given) /\ Allocates(c)
  BY <1>1, <1>3, <1>5, <1>6 DEF CallOK, Allocates, Allocators
<1>8. Abstract!Ask(c.task)
  BY <1>5, <1>6, <1>7, HeapAsks
<1>9. QED
  BY <1>5, <1>8

LEMMA HeapStartAllocAt ==
  ASSUME LwMemParameters, MemInv, MemInv', NEW t \in Task, NEW size \in Sizes,
         NEW owner \in {t, System}, NEW place \in Places,
         StartAllocAt(t, size, place, owner)
  PROVE  Abstract!Ask(t)
<1>1. PICK c : c = [op |-> "at", task |-> t, need |-> Needed(size),
                    owner |-> owner, prev |-> NULL, target |-> place]
  OBVIOUS
<1>2. size \in Nat /\ place \in Word
  BY DEF LwMemParameters, Word, Start
<1>3. Needed(size) \in Nat /\ Needed(size) >= MinBlock
  BY <1>2, NeededFacts
<1>4. NULL \in Ptr /\ owner \in Owner /\ place \in Ptr
  BY <1>2, PoolNumbers DEF Owner
<1>5. c \in CallRecord /\ c.op = "at" /\ c.task = t /\ c.owner = owner
  BY <1>1, <1>3, <1>4 DEF CallRecord
<1>6. /\ "at" \in MayDo[t] /\ stack' = Append(stack, c)
      /\ place + Needed(size) <= End /\ UNCHANGED <<block, given>>
  BY <1>1 DEF StartAllocAt, Starts
<1>7. CallOK(c, given) /\ Allocates(c)
  BY <1>1, <1>2, <1>3, <1>5, <1>6 DEF CallOK, Allocates, Allocators
<1>8. Abstract!Ask(c.task)
  BY <1>5, <1>6, <1>7, HeapAsks
<1>9. QED
  BY <1>5, <1>8

LEMMA HeapStep ==
  ASSUME LwMemParameters, MemInv, MemInv', [PoolNext]_poolVars
  PROVE  [Abstract!Next]_(Abstract!vars)
<1>1. CASE UNCHANGED poolVars
  <2>1. UNCHANGED <<block, stack, given>>
    BY <1>1 DEF poolVars
  <2>2. AbstractAsks' = AbstractAsks /\ AbstractBlocks' = AbstractBlocks
    BY <2>1, HeapState
  <2>3. QED
    BY <2>2 DEF Abstract!vars
<1>2. ASSUME NEW t \in Task, NEW size \in Sizes, NEW owner \in {t, System},
             \/ StartAlloc(t, size, owner)
             \/ \E place \in Places : StartAllocAt(t, size, place, owner)
      PROVE  Abstract!Next
  <2>1. Abstract!Ask(t)
    BY <1>2, HeapStartAlloc, HeapStartAllocAt
  <2>2. QED
    BY <2>1 DEF Abstract!Next
<1>3. ASSUME \E t \in Task : \E u \in AbstractBlocks : Abstract!Free(t, u)
      PROVE  Abstract!Next
  BY <1>3 DEF Abstract!Next
<1>4. ASSUME NEW t \in Task, NEW b \in given, StartFree(t, b)
      PROVE  [Abstract!Next]_(Abstract!vars)
  BY <1>3, <1>4, HeapStartFree
<1>5. ASSUME NEW t \in Task, NEW b \in given, NEW to \in Task, Transfer(t, b, to)
      PROVE  Abstract!Next
  <2>1. \E u \in AbstractBlocks : Abstract!Transfer(t, u, to)
    BY <1>5, HeapTransfers
  <2>2. QED
    BY <2>1 DEF Abstract!Next
<1>6. ASSUME NEW t \in Task, StartTest(t)
      PROVE  UNCHANGED Abstract!vars
  <2>1. PICK c : c = [op |-> "blocks", task |-> t, need |-> 0,
                      owner |-> System, prev |-> NULL, target |-> NULL]
    OBVIOUS
  <2>2. /\ stack' = Append(stack, c) /\ ~Allocates(c) /\ UNCHANGED <<block, given>>
    BY <1>6, <2>1 DEF StartTest, Allocates
  <2>3. QED
    BY <2>2, HeapIgnoresTest
<1>7. CASE AllocRound
  <2>1. \/ \E t \in Task : Abstract!Allocate(t) \/ Abstract!Refuse(t)
        \/ UNCHANGED Abstract!vars
    BY <1>7, HeapAllocRound
  <2>2. QED
    BY <2>1 DEF Abstract!Next
<1>8. CASE FreeAgain
  BY <1>3, <1>8, HeapFreeAgain
<1>9. CASE TestBlock
  <2>1. stack # <<>> /\ ~Allocates(Top) /\ UNCHANGED <<block, given>>
    BY <1>9 DEF TestBlock, Walks, Allocates, Top
  <2>2. UNCHANGED stack \/ EndCall \/ Window([Top EXCEPT !.op = "list"])
    BY <1>9 DEF TestBlock
  <2>3. QED
    BY <2>1, <2>2, HeapIgnoresTest
<1>10. CASE TestFree
  <2>1. stack # <<>> /\ ~Allocates(Top) /\ UNCHANGED <<block, given>>
    BY <1>10 DEF TestFree, Walks, Allocates, Top
  <2>2. UNCHANGED stack \/ EndCall
    BY <1>10 DEF TestFree
  <2>3. QED
    BY <2>1, <2>2, HeapIgnoresTest
<1>11. QED
  BY <1>1, <1>2, <1>4, <1>5, <1>6, <1>7, <1>8, <1>9, <1>10 DEF PoolNext

\* Seen by its callers, the pool is the heap of module Heap: an allocation
\* takes a place that the heap allows at the moment it takes it, it fails
\* only when there is none, and a block stays with its owner, unchanged,
\* until it is freed or transferred, whatever walks go on at the same time.
THEOREM PoolImplementsHeap ==
  ASSUME Undisturbed
  PROVE  PoolSpec => ImplementsHeap
<1>1. PoolInit => Abstract!Init
  BY HeapStarts, LwMemAssumption
<1>2. MemInv /\ MemInv' /\ [PoolNext]_poolVars => [Abstract!Next]_(Abstract!vars)
  BY HeapStep, LwMemAssumption
<1>3. PoolSpec => []MemInv
  BY PoolIsSound
<1>4. QED
  BY <1>1, <1>2, <1>3, PTL DEF PoolSpec, ImplementsHeap, Abstract!Spec
=============================================================================
