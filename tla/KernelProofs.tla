---------------------------- MODULE KernelProofs ----------------------------
(***************************************************************************)
(* Lemmas about the queues and routines of module Kernel, for the proofs   *)
(* of the components that run on it.                                       *)
(***************************************************************************)
EXTENDS Kernel, TLAPS, SequenceTheorems, WellFoundedInduction

Inj(s) == \A i, j \in 1 .. Len(s) : s[i] = s[j] => i = j

\* What removing position i leaves.
LEMMA RemoveAtLemma ==
  ASSUME NEW s \in Seq(Task), NEW i \in 1 .. Len(s)
  PROVE  /\ RemoveAt(s, i) \in Seq(Task)
         /\ Len(RemoveAt(s, i)) = Len(s) - 1
         /\ \A j \in 1 .. Len(s) - 1 :
              RemoveAt(s, i)[j] = IF j < i THEN s[j] ELSE s[j + 1]
<1> DEFINE a == SubSeq(s, 1, i - 1)
           b == SubSeq(s, i + 1, Len(s))
           r == RemoveAt(s, i)
<1>1. /\ a \in Seq(Task) /\ Len(a) = i - 1
      /\ \A j \in 1 .. i - 1 : a[j] = s[j]
  BY SubSeqProperties
<1>2. /\ b \in Seq(Task) /\ Len(b) = Len(s) - i
      /\ \A j \in 1 .. Len(s) - i : b[j] = s[i + j]
  BY SubSeqProperties
<1>6. i \in Nat /\ Len(s) \in Nat /\ i >= 1 /\ i <= Len(s)
  OBVIOUS
<1>0. r = a \o b
  BY DEF RemoveAt
<1> HIDE DEF a, b, r
<1>3. /\ r \in Seq(Task) /\ Len(r) = Len(s) - 1
      /\ \A j \in 1 .. Len(s) - 1 :
           r[j] = IF j <= i - 1 THEN a[j] ELSE b[j - (i - 1)]
  <2>1. /\ r \in Seq(Task) /\ Len(r) = Len(a) + Len(b)
        /\ \A j \in 1 .. Len(a) + Len(b) :
             r[j] = IF j <= Len(a) THEN a[j] ELSE b[j - Len(a)]
    BY <1>0, <1>1, <1>2, ConcatProperties, Zenon
  <2>2. Len(a) + Len(b) = Len(s) - 1
    BY <1>6, <1>1, <1>2
  <2> QED
    BY <1>1, <2>1, <2>2
<1>4. ASSUME NEW j \in 1 .. Len(s) - 1
      PROVE  r[j] = IF j < i THEN s[j] ELSE s[j + 1]
  <2>1. CASE j < i
    BY <1>6, <1>1, <1>3, <2>1
  <2>2. CASE j >= i
    <3>1. j - (i - 1) = j - i + 1 /\ j - i + 1 \in 1 .. Len(s) - i /\ ~(j <= i - 1)
      BY <1>6, <2>2
    <3>2. r[j] = b[j - (i - 1)]
      BY <1>3, <3>1
    <3>3. b[j - i + 1] = s[i + (j - i + 1)] /\ i + (j - i + 1) = j + 1
      BY <1>2, <1>6, <3>1
    <3> QED
      BY <2>2, <3>1, <3>2, <3>3
  <2> QED
    BY <2>1, <2>2
<1> QED
  BY <1>3, <1>4 DEF r

LEMMA WithoutLemma ==
  ASSUME NEW s \in Seq(Task), Inj(s), NEW t \in ToSet(s)
  PROVE  /\ Without(s, t) \in Seq(Task)
         /\ Inj(Without(s, t))
         /\ ToSet(Without(s, t)) = ToSet(s) \ {t}
<1> DEFINE i == CHOOSE i \in 1 .. Len(s) : s[i] = t
           r == RemoveAt(s, i)
<1>1. i \in 1 .. Len(s) /\ s[i] = t
  BY DEF ToSet
<1> HIDE DEF i
<1>2. /\ r \in Seq(Task) /\ Len(r) = Len(s) - 1
      /\ \A j \in 1 .. Len(s) - 1 : r[j] = IF j < i THEN s[j] ELSE s[j + 1]
  BY <1>1, RemoveAtLemma
<1> HIDE DEF r
<1>3. Inj(r)
  <2> SUFFICES ASSUME NEW m \in 1 .. Len(s) - 1, NEW n \in 1 .. Len(s) - 1,
                      r[m] = r[n]
               PROVE  m = n
    BY <1>2 DEF Inj
  <2> DEFINE old(j) == IF j < i THEN j ELSE j + 1
  <2>1. /\ old(m) \in 1 .. Len(s) /\ r[m] = s[old(m)]
        /\ old(n) \in 1 .. Len(s) /\ r[n] = s[old(n)]
    BY <1>1, <1>2
  <2>2. old(m) = old(n)
    BY <2>1 DEF Inj
  <2> QED
    BY <2>2, <1>1
<1>4. ASSUME NEW u \in ToSet(r) PROVE u \in ToSet(s) \ {t}
  <2>1. PICK j \in 1 .. Len(s) - 1 : u = r[j]
    BY <1>2 DEF ToSet
  <2> QED
    BY <1>1, <1>2, <2>1 DEF Inj, ToSet
<1>5. ASSUME NEW u \in ToSet(s), u # t PROVE u \in ToSet(r)
  <2>1. PICK j \in 1 .. Len(s) : u = s[j]
    BY DEF ToSet
  <2>2. CASE j < i
    BY <1>1, <1>2, <2>1, <2>2 DEF ToSet
  <2>3. CASE j > i
    <3>1. j - 1 \in 1 .. Len(s) - 1 /\ r[j - 1] = u
      BY <1>1, <1>2, <2>1, <2>3
    <3> QED
      BY <1>2, <3>1 DEF ToSet
  <2> QED
    BY <1>1, <1>5, <2>1, <2>2, <2>3
<1> QED
  BY <1>2, <1>3, <1>4, <1>5 DEF Without, r, i

LEMMA AppendLemma ==
  ASSUME NEW s \in Seq(Task), Inj(s), NEW t \in Task, t \notin ToSet(s)
  PROVE  /\ Append(s, t) \in Seq(Task)
         /\ Inj(Append(s, t))
         /\ ToSet(Append(s, t)) = ToSet(s) \cup {t}
<1> DEFINE r == Append(s, t)
<1>1. /\ r \in Seq(Task) /\ Len(r) = Len(s) + 1
      /\ \A j \in 1 .. Len(s) : r[j] = s[j]
      /\ r[Len(s) + 1] = t
  BY AppendProperties
<1> HIDE DEF r
<1>2. \A j \in 1 .. Len(s) : s[j] # t
  BY DEF ToSet
<1>3. Inj(r)
  BY <1>1, <1>2 DEF Inj
<1>4. \A u : u \in ToSet(r) <=> u \in ToSet(s) \/ u = t
  <2>1. ToSet(r) = {r[j] : j \in 1 .. Len(s) + 1}
    BY <1>1 DEF ToSet
  <2>2. ToSet(s) = {s[j] : j \in 1 .. Len(s)}
    BY DEF ToSet
  <2> QED
    BY <1>1, <2>1, <2>2
<1> QED
  BY <1>1, <1>3, <1>4 DEF r

LEMMA TailLemma ==
  ASSUME NEW s \in Seq(Task), Inj(s), s # <<>>
  PROVE  /\ Tail(s) \in Seq(Task)
         /\ Inj(Tail(s))
         /\ ToSet(Tail(s)) = ToSet(s) \ {Head(s)}
         /\ Head(s) \in ToSet(s)
<1> DEFINE r == Tail(s)
<1>1. /\ r \in Seq(Task) /\ Len(r) = Len(s) - 1 /\ Len(s) >= 1
      /\ \A j \in 1 .. Len(s) - 1 : r[j] = s[j + 1]
      /\ Head(s) = s[1]
  BY HeadTailProperties
<1> HIDE DEF r
<1>2. Inj(r)
  BY <1>1 DEF Inj
<1>3. ToSet(r) = {s[j + 1] : j \in 1 .. Len(s) - 1}
  BY <1>1 DEF ToSet
<1>4. ToSet(s) = {s[j] : j \in 1 .. Len(s)}
  BY DEF ToSet
<1>5. ASSUME NEW u \in ToSet(r) PROVE u \in ToSet(s) \ {Head(s)}
  BY <1>1, <1>3, <1>4, <1>5 DEF Inj
<1>6. ASSUME NEW u \in ToSet(s), u # Head(s) PROVE u \in ToSet(r)
  <2>1. PICK j \in 1 .. Len(s) : u = s[j]
    BY <1>4
  <2>2. j - 1 \in 1 .. Len(s) - 1 /\ s[(j - 1) + 1] = u
    BY <1>1, <1>6, <2>1
  <2> QED
    BY <1>3, <2>2
<1> QED
  BY <1>1, <1>2, <1>4, <1>5, <1>6 DEF r

\* Placing t before position i.
LEMMA InsertAtLemma ==
  ASSUME NEW s \in Seq(Task), Inj(s), NEW t \in Task, t \notin ToSet(s),
         NEW i \in 1 .. Len(s) + 1
  PROVE  /\ InsertAt(s, i, t) \in Seq(Task)
         /\ Len(InsertAt(s, i, t)) = Len(s) + 1
         /\ \A j \in 1 .. Len(s) + 1 : InsertAt(s, i, t)[j] =
              IF j < i THEN s[j] ELSE IF j = i THEN t ELSE s[j - 1]
         /\ Inj(InsertAt(s, i, t))
         /\ ToSet(InsertAt(s, i, t)) = ToSet(s) \cup {t}
<1> DEFINE a == SubSeq(s, 1, i - 1)
           b == SubSeq(s, i, Len(s))
           r == InsertAt(s, i, t)
<1>1. /\ a \in Seq(Task) /\ Len(a) = i - 1
      /\ \A j \in 1 .. i - 1 : a[j] = s[j]
  BY SubSeqProperties
<1>2. /\ b \in Seq(Task) /\ Len(b) = Len(s) - i + 1
      /\ \A j \in 1 .. Len(s) - i + 1 : b[j] = s[i + j - 1]
  BY SubSeqProperties
<1>3. r = (a \o <<t>>) \o b
  BY DEF InsertAt
<1> HIDE DEF a, b, r
<1>4. /\ a \o <<t>> \in Seq(Task) /\ Len(a \o <<t>>) = i
      /\ \A j \in 1 .. i : (a \o <<t>>)[j] = IF j < i THEN s[j] ELSE t
  BY <1>1, ConcatProperties
<1>5. /\ r \in Seq(Task) /\ Len(r) = Len(s) + 1
      /\ \A j \in 1 .. Len(s) + 1 :
           r[j] = IF j <= i THEN (a \o <<t>>)[j] ELSE b[j - i]
  BY <1>2, <1>3, <1>4, ConcatProperties
<1>6. \A j \in 1 .. Len(s) + 1 :
        r[j] = IF j < i THEN s[j] ELSE IF j = i THEN t ELSE s[j - 1]
  <2> TAKE j \in 1 .. Len(s) + 1
  <2>1. CASE j <= i
    BY <1>4, <1>5, <2>1
  <2>2. CASE j > i
    <3>1. r[j] = b[j - i] /\ j - i \in 1 .. Len(s) - i + 1
      BY <1>5, <2>2
    <3> QED
      BY <1>2, <2>2, <3>1
  <2> QED
    BY <2>1, <2>2
<1>7. \A j \in 1 .. Len(s) : s[j] # t
  BY DEF ToSet
<1>8. Inj(r)
  <2> SUFFICES ASSUME NEW m \in 1 .. Len(s) + 1, NEW n \in 1 .. Len(s) + 1,
                      r[m] = r[n]
               PROVE  m = n
    BY <1>5 DEF Inj
  <2> DEFINE old(j) == IF j < i THEN j ELSE j - 1
  <2>1. CASE m = i \/ n = i
    BY SMTT(30), <1>6, <1>7, <2>1
  <2>2. CASE m # i /\ n # i
    <3>1. /\ old(m) \in 1 .. Len(s) /\ r[m] = s[old(m)]
          /\ old(n) \in 1 .. Len(s) /\ r[n] = s[old(n)]
      BY <1>6, <2>2
    <3>2. old(m) = old(n)
      BY <3>1 DEF Inj
    <3> QED
      BY <3>2, <2>2
  <2> QED
    BY <2>1, <2>2
<1>9. ToSet(r) = {r[j] : j \in 1 .. Len(s) + 1} /\ ToSet(s) = {s[j] : j \in 1 .. Len(s)}
  BY SMTT(30), <1>5 DEF ToSet
<1>10. ASSUME NEW u \in ToSet(r) PROVE u \in ToSet(s) \cup {t}
  BY <1>6, <1>9
<1>11. ASSUME NEW u \in ToSet(s) PROVE u \in ToSet(r)
  <2>1. PICK j \in 1 .. Len(s) : u = s[j]
    BY <1>9
  <2>2. CASE j < i
    BY <1>6, <1>9, <2>1, <2>2
  <2>3. CASE j >= i
    <3>1. j + 1 \in 1 .. Len(s) + 1 /\ r[j + 1] = u
      BY <1>6, <2>1, <2>3
    <3> QED
      BY <1>9, <3>1
  <2> QED
    BY <2>1, <2>2, <2>3
<1>12. t \in ToSet(r)
  BY <1>6, <1>9
<1> QED
  BY <1>5, <1>6, <1>8, <1>10, <1>11, <1>12 DEF r

\* A nonempty set of naturals has a least element, which Min returns.
LEMMA MinLemma ==
  ASSUME NEW S \in SUBSET Nat, S # {}
  PROVE  Min(S) \in S /\ \A x \in S : Min(S) <= x
<1>1. \A x, y \in S : ~(y < x) => x <= y
  OBVIOUS
<1>2. \E x \in S : \A y \in S : ~ (<<y, x>> \in OpToRel(<, Nat))
  BY WFMin, NatLessThanWellFounded
<1>3. \A x, y \in Nat : y < x => <<y, x>> \in OpToRel(<, Nat)
  BY Zenon DEF OpToRel
<1>4. \E x \in S : \A y \in S : x <= y
  BY <1>1, <1>2, <1>3, Zenon
<1> QED
  BY <1>4 DEF Min

-----------------------------------------------------------------------------
(* Queues that are sorted.                                                  *)

\* The keys l of the tasks along the queue s, deadlines or priorities, rise,
\* and none is below low.
Timely(s, l, low) ==
  /\ \A i, j \in 1 .. Len(s) : i < j => l[s[i]] <= l[s[j]]
  /\ \A i \in 1 .. Len(s) : low <= l[s[i]]

\* Only the keys of the tasks on s count.
LEMMA SameTimely ==
  ASSUME NEW s, NEW l, NEW m, NEW low, Timely(s, l, low),
         \A i \in 1 .. Len(s) : m[s[i]] = l[s[i]]
  PROVE  Timely(s, m, low)
BY DEF Timely

LEMMA RemoveTimely ==
  ASSUME NEW s \in Seq(Task), NEW i \in 1 .. Len(s), NEW l, NEW low,
         Timely(s, l, low)
  PROVE  Timely(RemoveAt(s, i), l, low)
<1>1. PICK v : v = RemoveAt(s, i)
  OBVIOUS
<1>2. /\ Len(v) = Len(s) - 1
      /\ \A j \in 1 .. Len(s) - 1 : v[j] = IF j < i THEN s[j] ELSE s[j + 1]
  BY <1>1, RemoveAtLemma
<1>3. ASSUME NEW a \in 1 .. Len(v), NEW b \in 1 .. Len(v), a < b
      PROVE  l[v[a]] <= l[v[b]]
  <2>1. PICK c \in 1 .. Len(s) : c = IF a < i THEN a ELSE a + 1
    BY <1>2
  <2>2. PICK d \in 1 .. Len(s) : d = IF b < i THEN b ELSE b + 1
    BY <1>2
  <2>3. c < d /\ s[c] = v[a] /\ s[d] = v[b]
    BY <1>2, <1>3, <2>1, <2>2
  <2> QED
    BY <2>3 DEF Timely
<1>4. ASSUME NEW a \in 1 .. Len(v)
      PROVE  low <= l[v[a]]
  <2>1. PICK c \in 1 .. Len(s) : c = IF a < i THEN a ELSE a + 1
    BY <1>2
  <2>2. s[c] = v[a]
    BY <1>2, <2>1
  <2> QED
    BY <2>2 DEF Timely
<1> QED
  BY <1>1, <1>3, <1>4 DEF Timely

\* Place p of s suits the key of t.
Suits(s, l, p, t) ==
  \A i \in 1 .. Len(s) : IF i < p THEN l[s[i]] <= l[t] ELSE l[s[i]] >= l[t]

LEMMA InsertTimely ==
  ASSUME NEW s \in Seq(Task), Inj(s), NEW l \in [Task -> Int], NEW t \in Task,
         t \notin ToSet(s), NEW p \in 1 .. Len(s) + 1, NEW low \in Int,
         Timely(s, l, low), low <= l[t], Suits(s, l, p, t)
  PROVE  Timely(InsertAt(s, p, t), l, low)
<1>1. PICK v : v = InsertAt(s, p, t)
  OBVIOUS
<1>2. /\ Len(v) = Len(s) + 1 /\ Len(s) \in Nat
      /\ \A j \in 1 .. Len(s) + 1 :
           v[j] = IF j < p THEN s[j] ELSE IF j = p THEN t ELSE s[j - 1]
  <2>1. /\ Len(InsertAt(s, p, t)) = Len(s) + 1
        /\ \A j \in 1 .. Len(s) + 1 : InsertAt(s, p, t)[j] =
             IF j < p THEN s[j] ELSE IF j = p THEN t ELSE s[j - 1]
    BY InsertAtLemma
  <2>2. Len(s) \in Nat
    OBVIOUS
  <2> QED
    BY <1>1, <2>1, <2>2
<1>3. /\ l[t] \in Int
      /\ \A i \in 1 .. Len(s) : l[s[i]] \in Int /\ low <= l[s[i]]
      /\ \A i, j \in 1 .. Len(s) : i < j => l[s[i]] <= l[s[j]]
      /\ \A i \in 1 .. Len(s) :
           IF i < p THEN l[s[i]] <= l[t] ELSE l[s[i]] >= l[t]
  BY DEF Timely, Suits
<1>4. ASSUME NEW a \in 1 .. Len(v), NEW b \in 1 .. Len(v), a < b
      PROVE  l[v[a]] <= l[v[b]]
  <2>1. CASE b < p
    <3>1. /\ a \in 1 .. Len(s) /\ v[a] = s[a]
          /\ b \in 1 .. Len(s) /\ v[b] = s[b]
      BY <1>2, <1>4, <2>1
    <3> QED
      BY <1>3, <1>4, <3>1
  <2>2. CASE b = p
    <3>1. a \in 1 .. Len(s) /\ v[a] = s[a] /\ v[b] = t
      BY <1>2, <1>4, <2>2
    <3> QED
      BY <1>3, <1>4, <2>2, <3>1
  <2>3. CASE b > p
    <3>1. b - 1 \in 1 .. Len(s) /\ v[b] = s[b - 1] /\ ~(b - 1 < p)
      BY <1>2, <2>3
    <3>2. CASE a < p
      <4>1. a \in 1 .. Len(s) /\ v[a] = s[a] /\ a < b - 1
        BY <1>2, <2>3, <3>2
      <4> QED
        BY <1>3, <3>1, <4>1
    <3>3. CASE a = p
      <4>1. v[a] = t
        BY <1>2, <3>3
      <4> QED
        BY <1>3, <3>1, <4>1
    <3>4. CASE a > p
      <4>1. a - 1 \in 1 .. Len(s) /\ v[a] = s[a - 1] /\ a - 1 < b - 1
        BY <1>2, <1>4, <3>4
      <4> QED
        BY <1>3, <3>1, <4>1
    <3> QED
      BY <3>2, <3>3, <3>4
  <2> QED
    BY <1>2, <2>1, <2>2, <2>3
<1>5. ASSUME NEW a \in 1 .. Len(v)
      PROVE  low <= l[v[a]]
  <2>1. CASE a < p
    BY <1>2, <1>3, <2>1
  <2>2. CASE a = p
    BY <1>2, <2>2
  <2>3. CASE a > p
    <3>1. a - 1 \in 1 .. Len(s) /\ v[a] = s[a - 1]
      BY <1>2, <2>3
    <3> QED
      BY <1>3, <3>1
  <2> QED
    BY <1>2, <2>1, <2>2, <2>3
<1> QED
  BY <1>1, <1>4, <1>5 DEF Timely

LEMMA TailTimely ==
  ASSUME NEW s \in Seq(Task), s # <<>>, NEW l \in [Task -> Int],
         NEW low \in Int, Timely(s, l, low)
  PROVE  Timely(Tail(s), l, low)
<1>1. PICK v : v = Tail(s)
  OBVIOUS
<1>2. v \in Seq(Task) /\ Len(v) = Len(s) - 1
      /\ \A j \in 1 .. Len(v) : v[j] = s[j + 1] /\ j + 1 \in 1 .. Len(s)
  BY <1>1, HeadTailProperties
<1>3. ASSUME NEW i \in 1 .. Len(v), NEW j \in 1 .. Len(v), i < j
      PROVE  l[v[i]] <= l[v[j]]
  <2>1. i + 1 < j + 1 /\ i + 1 \in 1 .. Len(s) /\ j + 1 \in 1 .. Len(s)
    BY <1>2, <1>3
  <2>2. l[s[i + 1]] <= l[s[j + 1]]
    BY <2>1 DEF Timely
  <2> QED
    BY <1>2, <2>2
<1>4. ASSUME NEW i \in 1 .. Len(v)
      PROVE  low <= l[v[i]]
  BY <1>2 DEF Timely
<1> QED
  BY <1>1, <1>3, <1>4 DEF Timely

\* A task joins a priority queue behind those that are as urgent as it is.
LEMMA JoinTimely ==
  ASSUME NEW s \in Seq(Task), Inj(s), NEW k, k.my \in [Task -> Prio],
         NEW t \in Task, t \notin ToSet(s), Timely(s, k.my, 0)
  PROVE  Timely(InsertPriority(k, s, t), k.my, 0)
<1> DEFINE behind == {i \in 1 .. Len(s) : k.my[s[i]] > k.my[t]}
           p == Min(behind \cup {Len(s) + 1})
<1>1. PICK l \in [Task -> Int] : l = k.my /\ l[t] \in Nat
  BY KernelAssumption DEF Prio
<1>2. /\ behind = {i \in 1 .. Len(s) : l[s[i]] > l[t]}
      /\ Len(s) \in Nat
      /\ \A i \in 1 .. Len(s) : l[s[i]] \in Int
  BY <1>1
<1> HIDE DEF behind
<1>3. /\ behind \cup {Len(s) + 1} \in SUBSET Nat
      /\ behind \cup {Len(s) + 1} \subseteq 1 .. Len(s) + 1
      /\ behind \cup {Len(s) + 1} # {}
  BY <1>2
<1>4. /\ p \in 1 .. Len(s) + 1 /\ p \in behind \cup {Len(s) + 1}
      /\ \A i \in behind \cup {Len(s) + 1} : p <= i
  BY <1>3, MinLemma
<1> HIDE DEF p
<1>5. Timely(s, l, 0)
  BY <1>1
<1>6. Suits(s, l, p, t)
  <2> SUFFICES ASSUME NEW i \in 1 .. Len(s)
               PROVE  IF i < p THEN l[s[i]] <= l[t] ELSE l[s[i]] >= l[t]
    BY DEF Suits
  <2>1. CASE i < p
    BY <1>1, <1>2, <1>4, <2>1
  <2>2. CASE ~(i < p)
    <3>1. p \in 1 .. Len(s) /\ l[s[p]] > l[t]
      BY <1>2, <1>4, <2>2
    <3>2. l[s[p]] <= l[s[i]]
      BY <1>2, <1>4, <1>5, <2>2, <3>1 DEF Timely
    <3> QED
      BY <1>1, <1>2, <2>2, <3>1, <3>2
  <2> QED
    BY <2>1, <2>2
<1>7. Timely(InsertAt(s, p, t), l, 0)
  <2>1. 0 \in Int /\ 0 <= l[t]
    BY <1>1
  <2> QED
    BY <1>4, <1>5, <1>6, <2>1, InsertTimely
<1> QED
  BY <1>1, <1>7 DEF InsertPriority, p, behind

-----------------------------------------------------------------------------
(* The routines of the kernel.  Agree weakens QueuesAgree for the time in   *)
(* which the descriptors of X are on no queue, whatever their STATE says.   *)

Agree(k, X) ==
  /\ \A p \in Prio :
       /\ Inj(k.ready[p])
       /\ ToSet(k.ready[p]) = {t \in Task \ X : IsReady(k, t) /\ k.my[t] = p}
  /\ Inj(k.timeouts)
  /\ ToSet(k.timeouts) = {t \in Task \ X : k.timed[t]}

LEMMA AgreeLemma ==
  ASSUME NEW k \in Kernel
  PROVE  Agree(k, {}) <=> QueuesAgree(k)
<1>1. \A p \in Prio : k.ready[p] \in Seq(Task)
  BY DEF Kernel
<1>2. k.timeouts \in Seq(Task)
  BY DEF Kernel
<1>3. \A s \in Seq(Task) : Inj(s) <=> IsInjective(s)
  BY DEF Inj, IsInjective
<1> QED
  BY <1>1, <1>2, <1>3 DEF Agree, QueuesAgree

LEMMA UnlinkLemma ==
  ASSUME NEW k \in Kernel, Agree(k, {}), NEW t \in Task, IsReady(k, t),
         NoneAbove(k)
  PROVE  /\ Unlink(k, t, k.my[t]) \in Kernel
         /\ Agree(Unlink(k, t, k.my[t]), {t})
         /\ NoneAbove(Unlink(k, t, k.my[t]))
<1> DEFINE q == k.my[t]
           s == k.ready[q]
           u == Unlink(k, t, q)
<1>1. q \in Prio /\ s \in Seq(Task) /\ Inj(s) /\ t \in ToSet(s)
  BY DEF Kernel, Agree
<1>2. /\ Without(s, t) \in Seq(Task) /\ Inj(Without(s, t))
      /\ ToSet(Without(s, t)) = ToSet(s) \ {t}
  BY <1>1, WithoutLemma
<1>3. u \in Kernel
  BY <1>1, <1>2 DEF Unlink, Kernel
<1>4. \A p \in Prio : u.ready[p] = IF p = q THEN Without(s, t) ELSE k.ready[p]
  BY <1>1 DEF Unlink, Kernel
<1>5. /\ u.state = k.state /\ u.timed = k.timed /\ u.my = k.my
      /\ u.timeouts = k.timeouts /\ u.current = k.current
  BY DEF Unlink, Kernel
<1>6. Agree(u, {t})
  BY <1>1, <1>2, <1>4, <1>5 DEF Agree, IsReady
<1>7. NoneAbove(u)
  <2> SUFFICES ASSUME NEW p \in Prio, u.ready[p] # <<>> PROVE k.current <= p
    BY <1>5 DEF NoneAbove
  <2>1. CASE p = q
    BY <1>1, <2>1 DEF NoneAbove, ToSet
  <2>2. CASE p # q
    BY <1>4, <2>2 DEF NoneAbove
  <2> QED
    BY <2>1, <2>2
<1> QED
  BY <1>3, <1>6, <1>7

LEMMA TaskReadyLemma ==
  ASSUME NEW k \in Kernel, NEW t \in Task, Agree(k, {t}), ~k.timed[t],
         NoneAbove(k)
  PROVE  /\ TaskReady(k, t) \in Kernel
         /\ Agree(TaskReady(k, t), {})
         /\ NoneAbove(TaskReady(k, t))
         /\ IsReady(TaskReady(k, t), t)
<1> DEFINE q == k.my[t]
           s == k.ready[q]
           u == TaskReady(k, t)
<1>1. q \in Prio /\ s \in Seq(Task) /\ Inj(s) /\ t \notin ToSet(s)
  BY DEF Kernel, Agree
<1>2. /\ Append(s, t) \in Seq(Task) /\ Inj(Append(s, t))
      /\ ToSet(Append(s, t)) = ToSet(s) \cup {t}
  BY <1>1, AppendLemma
<1>3. u \in Kernel
  BY <1>1, <1>2 DEF TaskReady, Kernel, State
<1>4. \A p \in Prio : u.ready[p] = IF p = q THEN Append(s, t) ELSE k.ready[p]
  BY <1>1 DEF TaskReady, Kernel
<1>5. /\ u.timed = k.timed /\ u.my = k.my /\ u.timeouts = k.timeouts
      /\ u.state = [k.state EXCEPT ![t] = "READY"]
      /\ u.current = IF q < k.current THEN q ELSE k.current
  BY DEF TaskReady, Kernel
<1>6. k.state \in [Task -> State]
  BY DEF Kernel
<1>7. \A v \in Task : IsReady(u, v) <=> v = t \/ IsReady(k, v)
  BY <1>5, <1>6 DEF IsReady
<1>8. Agree(u, {})
  BY <1>1, <1>2, <1>4, <1>5, <1>7 DEF Agree
<1>9. k.current \in Prio /\ Prio \subseteq Int
  BY KernelAssumption DEF Kernel, Prio
<1>10. NoneAbove(u)
  BY <1>1, <1>4, <1>5, <1>9 DEF NoneAbove
<1> QED
  BY <1>3, <1>7, <1>8, <1>10

\* What holds of the kernel whenever interrupts are enabled.
Basic(k) == k \in Kernel /\ Agree(k, {}) /\ NoneAbove(k) /\ IsReady(k, Idle)

\* The task that executes is ready, and its queue is CURRENT_READY_Q unless
\* a handler is active or the task has stopped preemption.
Settled(k) ==
  /\ ~k.pend => IsReady(k, k.active)
  /\ ~k.pend /\ k.isr = 0 /\ ~k.nopreempt[k.active]
       => k.current = k.my[k.active]

LEMMA DispatchLemma ==
  ASSUME NEW k \in Kernel, Basic(k)
  PROVE  Basic(Dispatch(k)) /\ Settled(Dispatch(k))
<1> DEFINE N == Nonempty(k)
           p == NextQueue(k)
           d == Dispatch(k)
<1>1. k.my[Idle] \in N /\ N \subseteq Prio /\ Prio \subseteq Nat
  <2>1. Idle \in ToSet(k.ready[k.my[Idle]]) /\ k.my[Idle] \in Prio
    BY KernelAssumption DEF Basic, Agree, Kernel
  <2> QED
    BY <2>1, KernelAssumption DEF Nonempty, ToSet, Prio
<1>2. {q \in N : k.current <= q} = N
  BY DEF Basic, NoneAbove, Nonempty
<1>3. p = Min(N)
  BY <1>1, <1>2 DEF NextQueue
<1>4. p \in N /\ \A q \in N : p <= q
  BY <1>1, <1>3, MinLemma
<1>5. d = [k EXCEPT !.current = p, !.active = Head(k.ready[p]), !.pend = FALSE]
  BY <1>1 DEF Dispatch
<1>6. /\ p \in Prio /\ k.ready[p] \in Seq(Task) /\ k.ready[p] # <<>>
      /\ Head(k.ready[p]) \in Task
      /\ Head(k.ready[p]) \in ToSet(k.ready[p])
  <2>1. p \in Prio /\ k.ready[p] \in Seq(Task) /\ k.ready[p] # <<>>
    BY <1>1, <1>4 DEF Nonempty, Kernel
  <2>2. Inj(k.ready[p])
    BY <2>1 DEF Basic, Agree
  <2> QED
    BY <2>1, <2>2, TailLemma, HeadTailProperties
<1> HIDE DEF p, d
<1>7. /\ d \in Kernel
      /\ d.ready = k.ready /\ d.state = k.state /\ d.timed = k.timed
      /\ d.my = k.my /\ d.timeouts = k.timeouts /\ d.isr = k.isr
      /\ d.current = p /\ d.active = Head(k.ready[p]) /\ d.pend = FALSE
  BY <1>5, <1>6 DEF Kernel
<1>8. Agree(d, {}) /\ IsReady(d, Idle)
  BY <1>7 DEF Basic, Agree, IsReady
<1>9. NoneAbove(d)
  BY <1>4, <1>7 DEF NoneAbove, Nonempty
<1>10. IsReady(d, d.active) /\ d.my[d.active] = p
  BY <1>6, <1>7, <1>8 DEF Agree
<1> QED
  BY <1>7, <1>8, <1>9, <1>10 DEF Basic, Settled, d

LEMMA CheckRunSchedulerLemma ==
  ASSUME NEW k \in Kernel, Basic(k), ~k.pend => IsReady(k, k.active), k.isr = 0
  PROVE  Basic(CheckRunScheduler(k)) /\ Settled(CheckRunScheduler(k))
<1>1. CASE NeedsSwitch(k)
  BY <1>1, DispatchLemma DEF CheckRunScheduler
<1>2. CASE ~NeedsSwitch(k)
  BY <1>2 DEF CheckRunScheduler, NeedsSwitch, Settled
<1> QED
  BY <1>1, <1>2

LEMMA PendSchedulerLemma ==
  ASSUME NEW k \in Kernel, Basic(k), ~k.pend => IsReady(k, k.active), k.isr = 0
  PROVE  Basic(PendScheduler(k)) /\ Settled(PendScheduler(k))
<1> DEFINE d == PendScheduler(k)
<1>1. CASE NeedsSwitch(k)
  <2>1. d = [k EXCEPT !.pend = TRUE]
    BY <1>1 DEF PendScheduler
  <2>2. /\ d \in Kernel /\ d.pend = TRUE
        /\ d.ready = k.ready /\ d.state = k.state /\ d.timed = k.timed
        /\ d.my = k.my /\ d.timeouts = k.timeouts /\ d.current = k.current
    BY <2>1 DEF Kernel
  <2> QED
    BY <2>2 DEF Basic, Settled, Agree, IsReady, NoneAbove
<1>2. CASE ~NeedsSwitch(k)
  BY <1>2 DEF PendScheduler, NeedsSwitch, Settled
<1> QED
  BY <1>1, <1>2

LEMMA IsrReturnLemma ==
  ASSUME NEW k \in Kernel, Basic(k), Settled(k), k.isr > 0
  PROVE  Basic(IsrReturn(k)) /\ Settled(IsrReturn(k))
<1> DEFINE d == IsrReturn(k)
           q == k.ready[k.current]
<1>1. q \in Seq(Task) /\ k.active \in Task
  BY DEF Kernel
<1>2. /\ d \in Kernel
      /\ d.ready = k.ready /\ d.state = k.state /\ d.timed = k.timed
      /\ d.my = k.my /\ d.timeouts = k.timeouts /\ d.current = k.current
      /\ d.active = k.active /\ d.nopreempt = k.nopreempt /\ d.isr = k.isr - 1
      /\ ~d.pend => ~k.pend /\ (k.nopreempt[k.active] \/ k.isr # 1
                                  \/ (q # <<>> /\ Head(q) = k.active))
  <2> DEFINE pe == \/ k.pend
                   \/ /\ ~k.nopreempt[k.active]
                      /\ k.isr = 1
                      /\ (q = <<>> \/ Head(q) # k.active)
  <2>1. d = [k EXCEPT !.isr = k.isr - 1, !.pend = pe]
    BY DEF IsrReturn
  <2>2. /\ pe \in BOOLEAN
        /\ ~pe => ~k.pend /\ (k.nopreempt[k.active] \/ k.isr # 1
                                \/ (q # <<>> /\ Head(q) = k.active))
    OBVIOUS
  <2> HIDE DEF pe
  <2>3. k.isr - 1 \in Nat
    BY DEF Kernel
  <2>4. d.pend = pe
    BY <2>1 DEF Kernel
  <2> QED
    BY <2>1, <2>2, <2>3, <2>4 DEF Kernel
<1>3. ASSUME q # <<>>, Head(q) = k.active PROVE k.my[k.active] = k.current
  <2>1. Inj(q) /\ k.current \in Prio
    BY DEF Basic, Agree, Kernel
  <2>2. k.active \in ToSet(q)
    BY <1>1, <1>3, <2>1, TailLemma
  <2> QED
    BY <2>1, <2>2 DEF Basic, Agree
<1> HIDE DEF d
<1>4. Basic(d)
  BY <1>2 DEF Basic, Agree, IsReady, NoneAbove
<1>5. Settled(d)
  BY <1>2, <1>3 DEF Settled, IsReady, Kernel
<1> QED
  BY <1>4, <1>5 DEF d

\* A task that is on no queue counts as unlinked.
LEMMA UnlinkedLemma ==
  ASSUME NEW k, Agree(k, {}), NEW t \in Task, ~IsReady(k, t), ~k.timed[t]
  PROVE  Agree(k, {t})
BY DEF Agree

LEMMA SetPriorityLemma ==
  ASSUME NEW k \in Kernel, Basic(k), IsReady(k, k.active),
         NEW t \in Task, NEW p \in Prio
  PROVE  LET d == SetPriorityInternal(k, t, p)
         IN  d \in Kernel /\ Basic(d) /\ IsReady(d, d.active) /\ d.isr = k.isr
<1> DEFINE m == [k EXCEPT !.my[t] = p]
           u == Unlink(m, t, k.my[t])
           r == TaskReady(u, t)
<1>1. /\ m \in Kernel /\ m.ready = k.ready /\ m.state = k.state
      /\ m.timed = k.timed /\ m.timeouts = k.timeouts /\ m.current = k.current
      /\ m.active = k.active /\ m.isr = k.isr
      /\ m.my = [k.my EXCEPT ![t] = p]
  BY DEF Kernel
<1>2. CASE ~IsReady(k, t)
  <2>1. Agree(m, {}) /\ NoneAbove(m) /\ IsReady(m, Idle) /\ IsReady(m, m.active)
    <3>1. k.my \in [Task -> Prio]
      BY DEF Kernel
    <3> QED
      BY <1>1, <1>2, <3>1 DEF Basic, Agree, IsReady, NoneAbove
  <2> QED
    BY <1>1, <1>2, <2>1 DEF SetPriorityInternal, Basic
<1>3. CASE IsReady(k, t)
  <2> DEFINE ku == Unlink(k, t, k.my[t])
  <2>1. ku \in Kernel /\ Agree(ku, {t}) /\ NoneAbove(ku)
    BY <1>3, UnlinkLemma DEF Basic
  <2>2. u = [ku EXCEPT !.my[t] = p]
    BY <1>1 DEF Unlink, Kernel
  <2>3. /\ ku.state = k.state /\ ku.timed = k.timed
        /\ ku.active = k.active /\ ku.isr = k.isr
    BY DEF Unlink, Kernel
  <2> HIDE DEF ku, u
  <2>4. /\ u \in Kernel /\ u.ready = ku.ready /\ u.state = ku.state
        /\ u.timed = ku.timed /\ u.timeouts = ku.timeouts
        /\ u.current = ku.current /\ u.active = ku.active /\ u.isr = ku.isr
        /\ u.my = [ku.my EXCEPT ![t] = p]
    BY <2>1, <2>2 DEF Kernel
  <2>5. ku.my \in [Task -> Prio]
    BY <2>1 DEF Kernel
  <2>6. Agree(u, {t}) /\ NoneAbove(u) /\ ~u.timed[t]
    BY <1>3, <2>1, <2>3, <2>4, <2>5 DEF Agree, IsReady, NoneAbove
  <2>7. /\ r \in Kernel /\ Agree(r, {}) /\ NoneAbove(r)
    BY <2>4, <2>6, TaskReadyLemma
  <2>8. /\ r.active = u.active /\ r.isr = u.isr /\ r.timed = u.timed
        /\ r.state = [u.state EXCEPT ![t] = "READY"]
    BY <2>4 DEF TaskReady, Kernel
  <2>9. IsReady(r, Idle) /\ IsReady(r, r.active)
    <3>1. r.timed = k.timed /\ r.state = [k.state EXCEPT ![t] = "READY"]
      BY <2>3, <2>4, <2>8
    <3>2. k.state \in [Task -> State] /\ k.active \in Task
      BY DEF Kernel
    <3>3. \A v \in Task : IsReady(k, v) => IsReady(r, v)
      BY <3>1, <3>2 DEF IsReady
    <3> QED
      BY <2>3, <2>4, <2>8, <3>2, <3>3, KernelAssumption DEF Basic
  <2> HIDE DEF r
  <2>10. Basic(r)
    BY <2>7, <2>9 DEF Basic
  <2>11. CASE t = k.active /\ p > k.my[t]
    <3>1. Dispatch(r).pend = FALSE \/ Nonempty(r) = {}
      BY <2>7 DEF Dispatch, Kernel
    <3>2. Nonempty(r) # {}
      <4>1. Idle \in ToSet(r.ready[r.my[Idle]]) /\ r.my[Idle] \in Prio
        BY <2>7, <2>9, KernelAssumption DEF Agree, Kernel
      <4> QED
        BY <4>1 DEF Nonempty, ToSet
    <3>3. Basic(Dispatch(r)) /\ Settled(Dispatch(r))
      BY <2>7, <2>10, DispatchLemma
    <3>4. Dispatch(r).isr = r.isr
      BY <2>7, <3>2 DEF Dispatch, Kernel
    <3>5. SetPriorityInternal(k, t, p) = Dispatch(r)
      BY <1>3, <2>11 DEF SetPriorityInternal, r, u
    <3> QED
      BY <2>3, <2>4, <2>8, <3>1, <3>2, <3>3, <3>4, <3>5 DEF Basic, Settled
  <2>12. CASE ~(t = k.active /\ p > k.my[t])
    <3>1. SetPriorityInternal(k, t, p) = r
      BY <1>3, <2>12 DEF SetPriorityInternal, r, u
    <3> QED
      BY <2>3, <2>4, <2>7, <2>8, <2>9, <2>10, <3>1
  <2> QED
    BY <2>11, <2>12
<1> QED
  BY <1>2, <1>3

LEMMA TaskSetPriorityLemma ==
  ASSUME NEW k \in Kernel, Basic(k), IsReady(k, k.active), k.isr = 0,
         NEW t \in Task, NEW p \in Prio
  PROVE  Basic(TaskSetPriority(k, t, p)) /\ Settled(TaskSetPriority(k, t, p))
<1> DEFINE h == [k EXCEPT !.home[t] = p]
           d == SetPriorityInternal(h, t, p)
<1>1. /\ h \in Kernel /\ h.ready = k.ready /\ h.state = k.state
      /\ h.timed = k.timed /\ h.timeouts = k.timeouts /\ h.current = k.current
      /\ h.active = k.active /\ h.isr = k.isr /\ h.my = k.my
  BY DEF Kernel
<1>2. Basic(h) /\ IsReady(h, h.active)
  BY <1>1 DEF Basic, Agree, IsReady, NoneAbove
<1> HIDE DEF h
<1>3. d \in Kernel /\ Basic(d) /\ IsReady(d, d.active) /\ d.isr = 0
  BY <1>1, <1>2, SetPriorityLemma
<1> HIDE DEF d
<1>4. Basic(CheckRunScheduler(d)) /\ Settled(CheckRunScheduler(d))
  BY <1>3, CheckRunSchedulerLemma
<1>5. Basic(CheckRunScheduler(h)) /\ Settled(CheckRunScheduler(h))
  BY <1>1, <1>2, CheckRunSchedulerLemma
<1> QED
  BY <1>4, <1>5 DEF TaskSetPriority, h, d

LEMMA InsertPosLemma ==
  ASSUME NEW k \in Kernel, NEW d \in Int
  PROVE  InsertPos(k, d) \in 1 .. Len(k.timeouts) + 1
<1>1. Len(k.timeouts) \in Nat
  BY DEF Kernel
<1>2. CASE Later(k, d) = {}
  BY <1>1, <1>2 DEF InsertPos
<1>3. CASE Later(k, d) # {}
  <2>1. Later(k, d) \in SUBSET Nat /\ Later(k, d) \subseteq 1 .. Len(k.timeouts)
    BY <1>1 DEF Later
  <2>2. Min(Later(k, d)) \in Later(k, d)
    BY <1>3, <2>1, MinLemma
  <2> QED
    BY <1>1, <1>3, <2>1, <2>2 DEF InsertPos
<1> QED
  BY <1>2, <1>3

LEMMA DelayLemma ==
  ASSUME NEW k \in Kernel, Basic(k), NEW t \in AppTask, IsReady(k, t),
         NEW n \in Int
  PROVE  /\ Delay(k, t, n) \in Kernel
         /\ Basic(Delay(k, t, n))
<1> DEFINE u == Unlink(k, t, k.my[t])
           q == InsertAt(k.timeouts, InsertPos(k, n), t)
           d == Delay(k, t, n)
<1>1. t \in Task /\ t # Idle
  BY DEF AppTask
<1>2. u \in Kernel /\ Agree(u, {t}) /\ NoneAbove(u)
  BY <1>1, UnlinkLemma DEF Basic
<1>3. /\ u.state = k.state /\ u.timed = k.timed /\ u.timeouts = k.timeouts
      /\ u.current = k.current /\ u.my = k.my
  BY DEF Unlink, Kernel
<1>4. k.timeouts \in Seq(Task) /\ Inj(k.timeouts) /\ t \notin ToSet(k.timeouts)
  BY DEF Kernel, Basic, Agree, IsReady
<1>5. q \in Seq(Task) /\ Inj(q) /\ ToSet(q) = ToSet(k.timeouts) \cup {t}
  BY <1>1, <1>4, InsertPosLemma, InsertAtLemma
<1>6. d = [u EXCEPT !.timeouts = q, !.timed[t] = TRUE, !.left[t] = n]
  BY <1>3 DEF Delay
<1> HIDE DEF q, u, d
<1>7. /\ d \in Kernel /\ d.ready = u.ready /\ d.state = u.state
      /\ d.my = u.my /\ d.current = u.current /\ d.timeouts = q
      /\ d.timed = [u.timed EXCEPT ![t] = TRUE]
  BY <1>1, <1>2, <1>5, <1>6 DEF Kernel
<1>8. u.timed \in [Task -> BOOLEAN]
  BY <1>2 DEF Kernel
<1>9. \A v \in Task : IsReady(d, v) <=> v # t /\ IsReady(u, v)
  BY <1>7, <1>8 DEF IsReady
<1>10. Agree(d, {})
  <2>1. \A p \in Prio :
          ToSet(d.ready[p]) = {v \in Task : IsReady(d, v) /\ d.my[v] = p}
    BY <1>2, <1>7, <1>9 DEF Agree
  <2>2. ToSet(d.timeouts) = {v \in Task : d.timed[v]}
    BY <1>1, <1>2, <1>3, <1>5, <1>7, <1>8 DEF Agree
  <2> QED
    BY <1>2, <1>5, <1>7, <2>1, <2>2 DEF Agree
<1>11. NoneAbove(d)
  BY <1>2, <1>7 DEF NoneAbove
<1>12. IsReady(d, Idle)
  BY <1>1, <1>3, <1>9, KernelAssumption DEF Basic, IsReady
<1> QED
  BY <1>7, <1>10, <1>11, <1>12 DEF Basic, d

\* A task leaves TIMEOUT_QUEUE; a delayed one has only IS_BLOCKED left.
LEMMA TimeDequeueEffect ==
  ASSUME NEW k \in Kernel, Basic(k), NEW t \in Task, k.timed[t]
  PROVE  LET d == TimeDequeue(k, t)
             b == IF k.state[t] = "READY" THEN "BLOCKED" ELSE k.state[t]
         IN  /\ Basic(d) /\ b \in State \ {"READY"}
             /\ d.state = [k.state EXCEPT ![t] = b]
             /\ d.timed = [k.timed EXCEPT ![t] = FALSE]
             /\ d.my = k.my /\ d.current = k.current
             /\ d.active = k.active /\ d.pend = k.pend
             /\ d.nopreempt = k.nopreempt
             /\ d.isr = k.isr /\ d.ticking = k.ticking
             /\ \A v \in Task : IsReady(d, v) <=> IsReady(k, v)
<1> DEFINE q == Without(k.timeouts, t)
           b == IF k.state[t] = "READY" THEN "BLOCKED" ELSE k.state[t]
           d == TimeDequeue(k, t)
<1>1. /\ k.timeouts \in Seq(Task) /\ Inj(k.timeouts) /\ t \in ToSet(k.timeouts)
      /\ k.state \in [Task -> State] /\ k.timed \in [Task -> BOOLEAN]
  BY DEF Kernel, Basic, Agree
<1>2. q \in Seq(Task) /\ Inj(q) /\ ToSet(q) = ToSet(k.timeouts) \ {t}
  BY <1>1, WithoutLemma
<1>3. b \in State /\ b # "READY"
  BY <1>1 DEF State
<1>4. d = [k EXCEPT !.timeouts = q, !.timed[t] = FALSE, !.left[t] = 0,
                    !.state[t] = b]
  BY DEF TimeDequeue
<1> HIDE DEF q, b, d
<1>5. /\ d \in Kernel /\ d.ready = k.ready /\ d.current = k.current
      /\ d.my = k.my /\ d.timeouts = q /\ d.active = k.active
      /\ d.isr = k.isr /\ d.pend = k.pend /\ d.nopreempt = k.nopreempt
      /\ d.ticking = k.ticking
      /\ d.timed = [k.timed EXCEPT ![t] = FALSE]
      /\ d.state = [k.state EXCEPT ![t] = b]
  <2>1. /\ [k.timed EXCEPT ![t] = FALSE] \in [Task -> BOOLEAN]
        /\ [k.left EXCEPT ![t] = 0] \in [Task -> Int]
        /\ [k.state EXCEPT ![t] = b] \in [Task -> State]
    BY <1>1, <1>3 DEF Kernel
  <2>2. d = [k EXCEPT !.timeouts = q, !.timed = [@ EXCEPT ![t] = FALSE],
                      !.left = [@ EXCEPT ![t] = 0],
                      !.state = [@ EXCEPT ![t] = b]]
    BY <1>4 DEF Kernel
  <2> QED
    BY <1>2, <2>1, <2>2 DEF Kernel
<1>6. \A v \in Task : /\ IsReady(d, v) <=> IsReady(k, v)
                      /\ d.timed[v] <=> k.timed[v] /\ v # t
  BY <1>1, <1>3, <1>5 DEF IsReady
<1>7. Agree(d, {}) /\ NoneAbove(d)
  BY <1>2, <1>5, <1>6 DEF Basic, Agree, NoneAbove
<1>8. Basic(d)
  BY <1>5, <1>6, <1>7, KernelAssumption DEF Basic
<1> QED
  BY <1>3, <1>5, <1>6, <1>8 DEF d, b

LEMMA TimeDequeueLemma ==
  ASSUME NEW k \in Kernel, Basic(k), Settled(k), NEW t \in Task, k.timed[t]
  PROVE  Basic(TimeDequeue(k, t)) /\ Settled(TimeDequeue(k, t))
<1>1. k.active \in Task
  BY DEF Kernel
<1> QED
  BY <1>1, TimeDequeueEffect DEF Settled

LEMMA TickStartLemma ==
  ASSUME NEW k \in Kernel, Basic(k), Settled(k)
  PROVE  Basic(TickStart(k)) /\ Settled(TickStart(k))
<1> DEFINE l == [t \in Task |-> IF k.timed[t] THEN k.left[t] - 1 ELSE k.left[t]]
           d == TickStart(k)
<1>1. d = [k EXCEPT !.left = l, !.ticking = TRUE]
  BY DEF TickStart
<1>2. l \in [Task -> Int]
  BY DEF Kernel
<1> HIDE DEF l, d
<1>3. /\ d \in Kernel /\ d.ready = k.ready /\ d.current = k.current
      /\ d.my = k.my /\ d.timeouts = k.timeouts /\ d.active = k.active
      /\ d.isr = k.isr /\ d.pend = k.pend /\ d.nopreempt = k.nopreempt
      /\ d.timed = k.timed /\ d.state = k.state
  BY <1>1, <1>2 DEF Kernel
<1> QED
  BY <1>3 DEF Basic, Settled, Agree, IsReady, NoneAbove, d

\* Readying a task in a handler leaves the interrupted task as it was.
LEMMA IsrReadyLemma ==
  ASSUME NEW k \in Kernel, NEW t \in Task, Agree(k, {t}), ~k.timed[t],
         NoneAbove(k), IsReady(k, Idle), ~k.pend => IsReady(k, k.active),
         k.isr > 0
  PROVE  Basic(TaskReady(k, t)) /\ Settled(TaskReady(k, t))
<1> DEFINE d == TaskReady(k, t)
<1>1. d \in Kernel /\ Agree(d, {}) /\ NoneAbove(d)
  BY TaskReadyLemma
<1>2. /\ d.timed = k.timed /\ d.state = [k.state EXCEPT ![t] = "READY"]
      /\ d.active = k.active /\ d.pend = k.pend /\ d.isr = k.isr
      /\ k.state \in [Task -> State] /\ k.active \in Task /\ k.isr \in Nat
  BY DEF TaskReady, Kernel
<1> HIDE DEF d
<1>3. \A v \in Task : IsReady(k, v) => IsReady(d, v)
  BY <1>2 DEF IsReady
<1> QED
  BY <1>1, <1>2, <1>3, KernelAssumption DEF Basic, Settled, d

LEMMA TickWakeLemma ==
  ASSUME NEW k \in Kernel, Basic(k), Settled(k), k.isr > 0, k.timeouts # <<>>
  PROVE  Basic(TickWake(k)) /\ Settled(TickWake(k))
<1> DEFINE t == Head(k.timeouts)
           m == [k EXCEPT !.timeouts = Tail(@), !.timed[t] = FALSE,
                          !.left[t] = 0]
<1>1. /\ Tail(k.timeouts) \in Seq(Task) /\ Inj(Tail(k.timeouts))
      /\ ToSet(Tail(k.timeouts)) = ToSet(k.timeouts) \ {t}
      /\ t \in ToSet(k.timeouts)
  BY TailLemma DEF Kernel, Basic, Agree
<1>2. t \in Task /\ k.timed[t] /\ k.timed \in [Task -> BOOLEAN]
  BY <1>1 DEF Basic, Agree, Kernel
<1> HIDE DEF t
<1>3. /\ m \in Kernel /\ m.ready = k.ready /\ m.current = k.current
      /\ m.my = k.my /\ m.timeouts = Tail(k.timeouts) /\ m.active = k.active
      /\ m.isr = k.isr /\ m.pend = k.pend /\ m.state = k.state
      /\ m.timed = [k.timed EXCEPT ![t] = FALSE]
  <2>1. /\ [k.timed EXCEPT ![t] = FALSE] \in [Task -> BOOLEAN]
        /\ [k.left EXCEPT ![t] = 0] \in [Task -> Int]
    BY SMTT(30), <1>2 DEF Kernel
  <2>2. m = [k EXCEPT !.timeouts = Tail(k.timeouts),
                      !.timed = [@ EXCEPT ![t] = FALSE],
                      !.left = [@ EXCEPT ![t] = 0]]
    BY DEF Kernel
  <2> QED
    BY <1>1, <2>1, <2>2 DEF Kernel
<1> HIDE DEF m
<1>4. \A v \in Task \ {t} : /\ IsReady(m, v) <=> IsReady(k, v)
                            /\ m.timed[v] <=> k.timed[v]
  BY <1>2, <1>3 DEF IsReady
<1>5. ~IsReady(k, t) /\ ~m.timed[t]
  BY <1>2, <1>3 DEF IsReady
<1>6. Agree(m, {t}) /\ NoneAbove(m)
  BY <1>1, <1>2, <1>3, <1>4, <1>5 DEF Basic, Agree, NoneAbove
<1>7. IsReady(m, Idle) /\ (~m.pend => IsReady(m, m.active))
  <2>1. IsReady(k, Idle) /\ (~k.pend => IsReady(k, k.active))
    BY DEF Basic, Settled
  <2>2. k.active \in Task /\ m.active = k.active /\ (m.pend <=> k.pend)
    BY <1>3 DEF Kernel
  <2>3. \A v \in Task : IsReady(k, v) => IsReady(m, v)
    BY <1>4, <1>5
  <2> QED
    BY <2>1, <2>2, <2>3, KernelAssumption
<1>8. Basic(TaskReady(m, t)) /\ Settled(TaskReady(m, t))
  BY <1>2, <1>3, <1>5, <1>6, <1>7, IsrReadyLemma
<1> QED
  BY <1>8 DEF TickWake, m, t

-----------------------------------------------------------------------------
(* What waiting and waking do to the states of the tasks.                   *)

\* The dispatcher changes neither the tasks nor the interrupt nesting.
LEMMA DispatchEffect ==
  ASSUME NEW k \in Kernel
  PROVE  /\ Dispatch(k).state = k.state /\ Dispatch(k).timed = k.timed
         /\ Dispatch(k).isr = k.isr /\ Dispatch(k).ticking = k.ticking
         /\ CheckRunScheduler(k).state = k.state
         /\ CheckRunScheduler(k).timed = k.timed
         /\ CheckRunScheduler(k).isr = k.isr
         /\ CheckRunScheduler(k).ticking = k.ticking
BY DEF Dispatch, CheckRunScheduler, Kernel

\* A ready task leaves its ready queue and gets a state other than READY.
LEMMA BlockLemma ==
  ASSUME NEW k \in Kernel, Basic(k), NEW t \in AppTask, IsReady(k, t),
         NEW st \in State \ {"READY"}
  PROVE  LET d == [Unlink(k, t, k.my[t]) EXCEPT !.state[t] = st]
         IN  /\ Basic(d)
             /\ d.state = [k.state EXCEPT ![t] = st] /\ d.timed = k.timed
             /\ d.isr = k.isr /\ d.ticking = k.ticking
<1> DEFINE u == Unlink(k, t, k.my[t])
           d == [u EXCEPT !.state[t] = st]
<1>1. t \in Task /\ t # Idle
  BY DEF AppTask
<1>2. u \in Kernel /\ Agree(u, {t}) /\ NoneAbove(u)
  BY <1>1, UnlinkLemma DEF Basic
<1>3. /\ u.timed = k.timed /\ u.state = k.state /\ u.isr = k.isr
      /\ u.ticking = k.ticking
  BY DEF Unlink, Kernel
<1> HIDE DEF u
<1>4. /\ d \in Kernel /\ d.ready = u.ready /\ d.timed = u.timed
      /\ d.timeouts = u.timeouts /\ d.my = u.my /\ d.current = u.current
      /\ d.isr = u.isr /\ d.ticking = u.ticking
      /\ d.state = [u.state EXCEPT ![t] = st]
  BY <1>1, <1>2 DEF Kernel
<1> HIDE DEF d
<1>5. u.state \in [Task -> State]
  BY <1>2 DEF Kernel
<1>6. \A v \in Task : IsReady(d, v) <=> v # t /\ IsReady(u, v)
  BY <1>1, <1>4, <1>5 DEF IsReady
<1>7. ~d.timed[t]
  BY <1>3, <1>4 DEF IsReady
<1>8. Agree(d, {}) /\ NoneAbove(d)
  BY <1>2, <1>4, <1>6, <1>7 DEF Agree, NoneAbove
<1>9. IsReady(d, Idle)
  BY <1>1, <1>3, <1>6, KernelAssumption DEF Basic, IsReady
<1> QED
  BY <1>3, <1>4, <1>8, <1>9 DEF Basic, d, u

LEMMA DelayEffect ==
  ASSUME NEW k \in Kernel, NEW t \in Task, NEW n \in Int
  PROVE  /\ Delay(k, t, n).state = k.state
         /\ Delay(k, t, n).timed = [k.timed EXCEPT ![t] = TRUE]
         /\ Delay(k, t, n).isr = k.isr /\ Delay(k, t, n).ticking = k.ticking
BY DEF Delay, Unlink, Kernel

\* The same with a timeout: the state is set first, while the task is still
\* on its ready queue.
LEMMA DelayBlockedLemma ==
  ASSUME NEW k \in Kernel, Basic(k), NEW t \in AppTask, IsReady(k, t),
         NEW st \in State \ {"READY"}, NEW n \in Int
  PROVE  LET d == Delay([k EXCEPT !.state[t] = st], t, n)
         IN  /\ Basic(d)
             /\ d.state = [k.state EXCEPT ![t] = st]
             /\ d.timed = [k.timed EXCEPT ![t] = TRUE]
             /\ d.isr = k.isr /\ d.ticking = k.ticking
<1> DEFINE e == Delay(k, t, n)
           b == [k EXCEPT !.state[t] = st]
           d == Delay(b, t, n)
<1>1. t \in Task /\ t # Idle
  BY DEF AppTask
<1>2. e \in Kernel /\ Basic(e)
  BY DelayLemma
<1>3. /\ e.state = k.state /\ e.timed = [k.timed EXCEPT ![t] = TRUE]
      /\ e.isr = k.isr /\ e.ticking = k.ticking
  BY <1>1, DelayEffect
<1>4. d = [e EXCEPT !.state[t] = st]
  <2>1. /\ b.ready = k.ready /\ b.timeouts = k.timeouts /\ b.left = k.left
        /\ b.my = k.my /\ b.timed = k.timed
    BY DEF Kernel
  <2>2. InsertPos(b, n) = InsertPos(k, n)
    BY <2>1 DEF InsertPos, Later
  <2> DEFINE i == InsertPos(k, n)
  <2>3. e = [Unlink(k, t, k.my[t]) EXCEPT
               !.timeouts = InsertAt(@, i, t), !.timed[t] = TRUE, !.left[t] = n]
    BY DEF Delay
  <2>4. d = [Unlink(b, t, k.my[t]) EXCEPT
               !.timeouts = InsertAt(@, i, t), !.timed[t] = TRUE, !.left[t] = n]
    BY <2>1, <2>2 DEF Delay
  <2> HIDE DEF i, e, d
  <2>5. d = [e EXCEPT !.state = [@ EXCEPT ![t] = st]]
    BY <2>3, <2>4 DEF Unlink, Kernel
  <2> QED
    BY <2>5
<1> HIDE DEF e, d
<1>5. /\ d \in Kernel /\ d.ready = e.ready /\ d.timed = e.timed
      /\ d.timeouts = e.timeouts /\ d.my = e.my /\ d.current = e.current
      /\ d.isr = e.isr /\ d.ticking = e.ticking
      /\ d.state = [e.state EXCEPT ![t] = st]
  BY <1>1, <1>2, <1>4 DEF Kernel
<1>6. e.timed[t] /\ e.state \in [Task -> State]
  BY <1>1, <1>2, <1>3 DEF Kernel
<1>7. \A v \in Task : IsReady(d, v) <=> IsReady(e, v)
  BY <1>5, <1>6 DEF IsReady
<1>8. Basic(d)
  BY <1>2, <1>5, <1>7, KernelAssumption DEF Basic, Agree, NoneAbove
<1> QED
  BY <1>3, <1>5, <1>8 DEF d, e

\* A task that is not ready is taken off TIMEOUT_QUEUE, if it is there, and
\* readied; nothing else about the tasks changes.
LEMMA WakeLemma ==
  ASSUME NEW k \in Kernel, Basic(k), NEW t \in Task, k.state[t] # "READY",
         ~k.pend => IsReady(k, k.active)
  PROVE  LET d == Wake(k, t)
         IN  /\ Basic(d) /\ (~d.pend => IsReady(d, d.active))
             /\ d.state = [k.state EXCEPT ![t] = "READY"]
             /\ d.timed = [k.timed EXCEPT ![t] = FALSE]
             /\ d.active = k.active /\ d.pend = k.pend
             /\ d.isr = k.isr /\ d.ticking = k.ticking
<1> DEFINE q == IF k.timed[t] THEN Without(k.timeouts, t) ELSE k.timeouts
           e == TimeDequeue(k, t)
           d == TaskReady(e, t)
<1>1. /\ k.timeouts \in Seq(Task) /\ Inj(k.timeouts)
      /\ ToSet(k.timeouts) = {v \in Task : k.timed[v]}
      /\ k.state \in [Task -> State] /\ k.timed \in [Task -> BOOLEAN]
  BY DEF Kernel, Basic, Agree
<1>2. q \in Seq(Task) /\ Inj(q) /\ ToSet(q) = ToSet(k.timeouts) \ {t}
  <2>1. CASE k.timed[t]
    BY <1>1, <2>1, WithoutLemma
  <2>2. CASE ~k.timed[t]
    BY <1>1, <2>2
  <2> QED
    BY <2>1, <2>2
<1>3. /\ e \in Kernel /\ e.ready = k.ready /\ e.current = k.current
      /\ e.my = k.my /\ e.timeouts = q /\ e.active = k.active
      /\ e.isr = k.isr /\ e.pend = k.pend /\ e.ticking = k.ticking
      /\ e.timed = [k.timed EXCEPT ![t] = FALSE] /\ e.state = k.state
  <2>1. CASE k.timed[t]
    <3>1. e = [k EXCEPT !.timeouts = q, !.timed[t] = FALSE, !.left[t] = 0,
                        !.state[t] = k.state[t]]
      BY <2>1 DEF TimeDequeue
    <3>2. /\ [k.timed EXCEPT ![t] = FALSE] \in [Task -> BOOLEAN]
          /\ [k.left EXCEPT ![t] = 0] \in [Task -> Int]
          /\ [k.state EXCEPT ![t] = k.state[t]] = k.state
      BY <1>1 DEF Kernel
    <3>3. e = [k EXCEPT !.timeouts = q, !.timed = [@ EXCEPT ![t] = FALSE],
                        !.left = [@ EXCEPT ![t] = 0],
                        !.state = [@ EXCEPT ![t] = k.state[t]]]
      BY <3>1 DEF Kernel
    <3> HIDE DEF q, e
    <3> QED
      BY <1>2, <3>2, <3>3 DEF Kernel
  <2>2. CASE ~k.timed[t]
    <3>1. e = k /\ q = k.timeouts
      BY <2>2 DEF TimeDequeue
    <3>2. [k.timed EXCEPT ![t] = FALSE] = k.timed
      BY <1>1, <2>2
    <3> QED
      BY <3>1, <3>2
  <2> QED
    BY <2>1, <2>2
<1> HIDE DEF q, e
<1>4. \A v \in Task : /\ IsReady(e, v) <=> IsReady(k, v)
                      /\ v # t => (e.timed[v] <=> k.timed[v])
  BY <1>1, <1>3 DEF IsReady
<1>5. ~IsReady(e, t) /\ ~e.timed[t]
  BY <1>1, <1>3 DEF IsReady
<1>6. Agree(e, {t}) /\ NoneAbove(e)
  BY <1>1, <1>2, <1>3, <1>4, <1>5 DEF Basic, Agree, NoneAbove
<1>7. d \in Kernel /\ Agree(d, {}) /\ NoneAbove(d)
  BY <1>3, <1>5, <1>6, TaskReadyLemma
<1>8. /\ d.state = [e.state EXCEPT ![t] = "READY"] /\ d.timed = e.timed
      /\ d.active = e.active /\ d.pend = e.pend /\ d.isr = e.isr
      /\ d.ticking = e.ticking
  BY <1>3 DEF TaskReady, Kernel
<1> HIDE DEF d
<1>9. \A v \in Task : IsReady(k, v) => IsReady(d, v)
  BY <1>1, <1>3, <1>4, <1>8 DEF IsReady
<1>10. k.active \in Task
  BY DEF Kernel
<1> QED
  BY <1>3, <1>7, <1>8, <1>9, <1>10, KernelAssumption DEF Basic, Wake, d, e

LEMMA IsrEntryLemma ==
  ASSUME NEW k \in Kernel, Basic(k), Settled(k)
  PROVE  LET d == IsrEntry(k)
         IN  /\ Basic(d) /\ Settled(d) /\ d.isr = k.isr + 1
             /\ d.state = k.state /\ d.timed = k.timed /\ d.ticking = k.ticking
<1> DEFINE n == k.isr + 1
           d == IsrEntry(k)
<1>1. n \in Nat /\ n > 0
  BY DEF Kernel
<1>2. d = [k EXCEPT !.isr = n]
  BY DEF IsrEntry
<1> HIDE DEF n, d
<1>3. /\ d \in Kernel /\ d.ready = k.ready /\ d.state = k.state
      /\ d.timed = k.timed /\ d.my = k.my /\ d.timeouts = k.timeouts
      /\ d.current = k.current /\ d.active = k.active /\ d.pend = k.pend
      /\ d.isr = n /\ d.ticking = k.ticking
  BY <1>1, <1>2 DEF Kernel
<1>4. Basic(d) /\ Settled(d)
  BY <1>1, <1>3 DEF Basic, Settled, Agree, IsReady, NoneAbove
<1> QED
  BY <1>3, <1>4 DEF d, n

LEMMA TickEndLemma ==
  ASSUME NEW k \in Kernel, Basic(k), Settled(k)
  PROVE  LET d == TickEnd(k)
         IN  /\ Basic(d) /\ Settled(d) /\ d.isr = k.isr
             /\ d.state = k.state /\ d.timed = k.timed /\ ~d.ticking
<1> DEFINE d == TickEnd(k)
<1>1. /\ d \in Kernel /\ d.ready = k.ready /\ d.state = k.state
      /\ d.timed = k.timed /\ d.my = k.my /\ d.timeouts = k.timeouts
      /\ d.current = k.current /\ d.active = k.active /\ d.pend = k.pend
      /\ d.isr = k.isr /\ ~d.ticking /\ d.nopreempt = k.nopreempt
  BY DEF TickEnd, Kernel
<1> HIDE DEF d
<1>2. Basic(d) /\ Settled(d)
  BY <1>1 DEF Basic, Settled, Agree, IsReady, NoneAbove
<1> QED
  BY <1>1, <1>2 DEF d

\* What the handlers' routines do to the states of the tasks.
LEMMA IsrEffect ==
  ASSUME NEW k \in Kernel
  PROVE  /\ IsrReturn(k).state = k.state /\ IsrReturn(k).timed = k.timed
         /\ IsrReturn(k).ticking = k.ticking
         /\ TickStart(k).state = k.state /\ TickStart(k).timed = k.timed
         /\ TickStart(k).isr = k.isr
         /\ PendScheduler(k).state = k.state
         /\ PendScheduler(k).timed = k.timed
         /\ PendScheduler(k).ticking = k.ticking
         /\ PendScheduler(k).isr = k.isr
BY DEF IsrReturn, TickStart, PendScheduler, Kernel

\* The first descriptor of TIMEOUT_QUEUE is a delayed task, and ready after
\* the tick has woken it.
LEMMA TickWakeEffect ==
  ASSUME NEW k \in Kernel, Basic(k), k.timeouts # <<>>
  PROVE  LET t == Head(k.timeouts)
             d == TickWake(k)
         IN  /\ t \in AppTask /\ k.timed[t]
             /\ d.state = [k.state EXCEPT ![t] = "READY"]
             /\ d.timed = [k.timed EXCEPT ![t] = FALSE]
             /\ d.isr = k.isr /\ d.ticking = k.ticking
<1> DEFINE t == Head(k.timeouts)
<1>1. t \in Task /\ k.timed[t]
  <2>1. k.timeouts \in Seq(Task) /\ Inj(k.timeouts)
    BY DEF Kernel, Basic, Agree
  <2>2. t \in ToSet(k.timeouts)
    BY <2>1, TailLemma
  <2> QED
    BY <2>2 DEF Basic, Agree
<1>2. t # Idle
  BY <1>1 DEF Basic, IsReady
<1> HIDE DEF t
<1> QED
  BY <1>1, <1>2 DEF TickWake, TaskReady, Kernel, AppTask, t

-----------------------------------------------------------------------------
(* Sound is what the components need of the kernel when it does not matter  *)
(* which task executes: the interrupted or executing task is ready.         *)

Sound(k) ==
  /\ Basic(k)
  /\ ~k.pend => IsReady(k, k.active)
  /\ k.ticking => k.isr > 0

LEMMA SoundDispatch ==
  ASSUME NEW k, Basic(k), k.ticking => k.isr > 0
  PROVE  LET d == Dispatch(k)
         IN  Sound(d) /\ d.state = k.state /\ d.timed = k.timed
<1>1. k \in Kernel
  BY DEF Basic
<1> QED
  BY <1>1, DispatchLemma, DispatchEffect DEF Sound, Settled

LEMMA SoundCheck ==
  ASSUME NEW k, Sound(k)
  PROVE  LET d == CheckRunScheduler(k)
         IN  Sound(d) /\ d.state = k.state /\ d.timed = k.timed
<1>1. CASE NeedsSwitch(k)
  BY <1>1, SoundDispatch DEF CheckRunScheduler, Sound
<1>2. CASE ~NeedsSwitch(k)
  BY <1>2 DEF CheckRunScheduler
<1> QED
  BY <1>1, <1>2

\* PendSV becomes pending and nothing else changes.
LEMMA SoundPending ==
  ASSUME NEW k, Basic(k), k.ticking => k.isr > 0
  PROVE  LET d == [k EXCEPT !.pend = TRUE]
         IN  Sound(d) /\ d.state = k.state /\ d.timed = k.timed
<1> DEFINE d == [k EXCEPT !.pend = TRUE]
<1>1. k \in Kernel
  BY DEF Basic
<1>2. /\ d \in Kernel /\ d.ready = k.ready /\ d.timeouts = k.timeouts
      /\ d.state = k.state /\ d.timed = k.timed /\ d.my = k.my
      /\ d.current = k.current /\ d.isr = k.isr /\ d.ticking = k.ticking
      /\ d.pend = TRUE
  BY <1>1 DEF Kernel
<1> HIDE DEF d
<1>3. Basic(d)
  BY <1>2 DEF Basic, Agree, NoneAbove, IsReady
<1> QED
  BY <1>2, <1>3 DEF Sound, d

LEMMA SoundPend ==
  ASSUME NEW k, Sound(k)
  PROVE  LET d == PendScheduler(k)
         IN  Sound(d) /\ d.state = k.state /\ d.timed = k.timed
<1>1. CASE NeedsSwitch(k)
  BY <1>1, SoundPending DEF PendScheduler, Sound
<1>2. CASE ~NeedsSwitch(k)
  BY <1>2 DEF PendScheduler
<1> QED
  BY <1>1, <1>2

\* Any task that is not ready is woken, a delayed one included.
LEMMA SoundWake ==
  ASSUME NEW k, Sound(k), NEW t \in Task, ~IsReady(k, t)
  PROVE  LET d == Wake(k, t)
         IN  /\ Sound(d)
             /\ d.state = [k.state EXCEPT ![t] = "READY"]
             /\ d.timed = [k.timed EXCEPT ![t] = FALSE]
<1>1. k \in Kernel /\ k.state \in [Task -> State] /\ k.timed \in [Task -> BOOLEAN]
  BY DEF Sound, Basic, Kernel
<1>2. CASE k.state[t] # "READY"
  BY <1>1, <1>2, WakeLemma DEF Sound
<1>3. CASE k.state[t] = "READY"
  <2> DEFINE e == TimeDequeue(k, t)
  <2>1. k.timed[t]
    BY <1>3 DEF IsReady
  <2>2. /\ Basic(e)
        /\ e.state = [k.state EXCEPT ![t] = "BLOCKED"]
        /\ e.timed = [k.timed EXCEPT ![t] = FALSE]
        /\ e.active = k.active /\ e.pend = k.pend
        /\ e.isr = k.isr /\ e.ticking = k.ticking
        /\ \A v \in Task : IsReady(e, v) <=> IsReady(k, v)
    BY <1>1, <1>3, <2>1, TimeDequeueEffect DEF Sound
  <2> HIDE DEF e
  <2>4. e \in Kernel /\ e.state[t] # "READY" /\ ~e.timed[t]
    BY <1>1, <2>2 DEF Basic
  <2>5. ~e.pend => IsReady(e, e.active)
    BY <1>1, <2>2 DEF Sound, Kernel
  <2>6. Wake(k, t) = Wake(e, t)
    BY <2>4 DEF Wake, TimeDequeue, e
  <2>7. /\ Basic(Wake(e, t))
        /\ (~Wake(e, t).pend => IsReady(Wake(e, t), Wake(e, t).active))
        /\ Wake(e, t).state = [e.state EXCEPT ![t] = "READY"]
        /\ Wake(e, t).timed = [e.timed EXCEPT ![t] = FALSE]
        /\ Wake(e, t).isr = e.isr /\ Wake(e, t).ticking = e.ticking
    BY <2>2, <2>4, <2>5, WakeLemma
  <2>8. /\ [e.state EXCEPT ![t] = "READY"] = [k.state EXCEPT ![t] = "READY"]
        /\ [e.timed EXCEPT ![t] = FALSE] = [k.timed EXCEPT ![t] = FALSE]
    BY <1>1, <2>2
  <2> QED
    BY <2>2, <2>6, <2>7, <2>8 DEF Sound
<1> QED
  BY <1>2, <1>3

\* The same for a task that is not on TIMEOUT_QUEUE.
LEMMA SoundReady ==
  ASSUME NEW k, Sound(k), NEW t \in Task, k.state[t] # "READY", ~k.timed[t]
  PROVE  LET d == TaskReady(k, t)
         IN  /\ Sound(d)
             /\ d.state = [k.state EXCEPT ![t] = "READY"]
             /\ d.timed = [k.timed EXCEPT ![t] = FALSE]
<1>1. TaskReady(k, t) = Wake(k, t) /\ ~IsReady(k, t)
  BY DEF Wake, TimeDequeue, IsReady
<1> QED
  BY <1>1, SoundWake

\* A ready task leaves its ready queue; the caller decides what runs next.
LEMMA ParkEffect ==
  ASSUME NEW k, Sound(k), NEW t \in AppTask, IsReady(k, t),
         NEW st \in State \ {"READY"}
  PROVE  LET d == [Unlink(k, t, k.my[t]) EXCEPT !.state[t] = st]
         IN  /\ Basic(d) /\ (d.ticking => d.isr > 0)
             /\ (k.active # t => Sound(d))
             /\ d.state = [k.state EXCEPT ![t] = st] /\ d.timed = k.timed
             /\ d.pend = k.pend /\ d.active = k.active
<1> DEFINE d == [Unlink(k, t, k.my[t]) EXCEPT !.state[t] = st]
<1>1. /\ k \in Kernel /\ Basic(k) /\ t \in Task /\ k.active \in Task
      /\ k.state \in [Task -> State]
  BY DEF Sound, Basic, AppTask, Kernel
<1>2. /\ Basic(d) /\ d.state = [k.state EXCEPT ![t] = st] /\ d.timed = k.timed
      /\ d.isr = k.isr /\ d.ticking = k.ticking
  BY <1>1, BlockLemma
<1>3. d.pend = k.pend /\ d.active = k.active
  BY <1>1 DEF Unlink, Kernel
<1> HIDE DEF d
<1>4. k.active # t /\ ~d.pend => IsReady(d, d.active)
  BY <1>1, <1>2, <1>3 DEF Sound, IsReady
<1> QED
  BY <1>2, <1>3, <1>4 DEF Sound, d

LEMMA SoundIsr ==
  ASSUME NEW k, Sound(k)
  PROVE  /\ LET d == IsrEntry(k)
            IN  Sound(d) /\ d.state = k.state /\ d.timed = k.timed
         /\ k.isr > 0 /\ ~k.ticking =>
            LET d == IsrReturn(k)
            IN  Sound(d) /\ d.state = k.state /\ d.timed = k.timed
         /\ k.isr > 0 =>
            LET d == TickStart(k)
            IN  Sound(d) /\ d.state = k.state /\ d.timed = k.timed
         /\ k.ticking =>
            LET d == TickEnd(k)
            IN  Sound(d) /\ d.state = k.state /\ d.timed = k.timed
<1>1. k \in Kernel /\ Basic(k) /\ k.isr \in Nat
  BY DEF Sound, Basic, Kernel
<1>2. k.isr > 0 => Settled(k)
  BY <1>1 DEF Sound, Settled
<1>3. LET d == IsrEntry(k)
      IN  Sound(d) /\ d.state = k.state /\ d.timed = k.timed
  <2> DEFINE n == k.isr + 1
             d == IsrEntry(k)
  <2>1. n \in Nat /\ n > 0 /\ d = [k EXCEPT !.isr = n]
    BY <1>1 DEF IsrEntry
  <2> HIDE DEF n, d
  <2>2. /\ d \in Kernel /\ d.ready = k.ready /\ d.state = k.state
        /\ d.timed = k.timed /\ d.my = k.my /\ d.timeouts = k.timeouts
        /\ d.current = k.current /\ d.active = k.active /\ d.pend = k.pend
        /\ d.isr = n
    BY <1>1, <2>1 DEF Kernel
  <2>3. Sound(d)
    BY <2>1, <2>2 DEF Sound, Basic, Agree, IsReady, NoneAbove
  <2> QED
    BY <2>2, <2>3 DEF d
<1>4. k.isr > 0 /\ ~k.ticking =>
      LET d == IsrReturn(k)
      IN  Sound(d) /\ d.state = k.state /\ d.timed = k.timed
  BY <1>1, <1>2, IsrReturnLemma, IsrEffect DEF Sound, Settled
<1>5. k.isr > 0 =>
      LET d == TickStart(k)
      IN  Sound(d) /\ d.state = k.state /\ d.timed = k.timed
  BY <1>1, <1>2, TickStartLemma, IsrEffect DEF Sound, Settled
<1>6. k.ticking =>
      LET d == TickEnd(k)
      IN  Sound(d) /\ d.state = k.state /\ d.timed = k.timed
  BY <1>1, <1>2, TickEndLemma DEF Sound, Settled
<1> QED
  BY <1>3, <1>4, <1>5, <1>6

LEMMA SoundTickWake ==
  ASSUME NEW k, Sound(k), k.ticking, k.timeouts # <<>>
  PROVE  LET t == Head(k.timeouts)
             d == TickWake(k)
         IN  /\ Sound(d)
             /\ t \in AppTask /\ k.timed[t]
             /\ d.state = [k.state EXCEPT ![t] = "READY"]
             /\ d.timed = [k.timed EXCEPT ![t] = FALSE]
<1>1. k \in Kernel /\ Basic(k) /\ k.isr > 0 /\ Settled(k)
  BY SMTT(30) DEF Sound, Basic, Kernel, Settled
<1> QED
  BY <1>1, TickWakeLemma, TickWakeEffect DEF Sound, Settled

\* _task_block: the task is off its ready queue, the switch pending.
LEMMA SoundBlock ==
  ASSUME NEW k, Sound(k), NEW t \in AppTask, IsReady(k, t)
  PROVE  LET d == TaskBlock(k, t)
         IN  /\ Sound(d)
             /\ d.state = [k.state EXCEPT ![t] = "BLOCKED"] /\ d.timed = k.timed
<1> DEFINE u == Unlink(k, t, k.my[t])
           e == [u EXCEPT !.state[t] = "BLOCKED"]
<1>1. "BLOCKED" \in State \ {"READY"}
  BY DEF State
<1>2. /\ Basic(e) /\ (e.ticking => e.isr > 0)
      /\ e.state = [k.state EXCEPT ![t] = "BLOCKED"] /\ e.timed = k.timed
  BY <1>1, ParkEffect
<1>3. TaskBlock(k, t) = [e EXCEPT !.pend = TRUE]
  BY DEF TaskBlock
<1> HIDE DEF e
<1> QED
  BY <1>2, <1>3, SoundPending

\* Delays, with and without the state of a queue.
LEMMA SoundDelay ==
  ASSUME NEW k, Sound(k), NEW t \in AppTask, IsReady(k, t), NEW n \in Int
  PROVE  /\ LET d == Dispatch(Delay(k, t, n))
            IN  /\ Sound(d) /\ d.state = k.state
                /\ d.timed = [k.timed EXCEPT ![t] = TRUE]
         /\ \A st \in State \ {"READY"} :
              LET d == Dispatch(Delay([k EXCEPT !.state[t] = st], t, n))
              IN  /\ Sound(d) /\ d.state = [k.state EXCEPT ![t] = st]
                  /\ d.timed = [k.timed EXCEPT ![t] = TRUE]
<1>1. k \in Kernel /\ Basic(k) /\ t \in Task /\ (k.ticking => k.isr > 0)
  BY DEF Sound, Basic, AppTask
<1>2. LET d == Dispatch(Delay(k, t, n))
      IN  /\ Sound(d) /\ d.state = k.state
          /\ d.timed = [k.timed EXCEPT ![t] = TRUE]
  BY <1>1, DelayLemma, DelayEffect, SoundDispatch
<1>3. ASSUME NEW st \in State \ {"READY"}
      PROVE  LET d == Dispatch(Delay([k EXCEPT !.state[t] = st], t, n))
             IN  /\ Sound(d) /\ d.state = [k.state EXCEPT ![t] = st]
                 /\ d.timed = [k.timed EXCEPT ![t] = TRUE]
  BY <1>1, DelayBlockedLemma, SoundDispatch
<1> QED
  BY <1>2, <1>3

\* TD.STATE is set, in the queues nothing moves yet.
StateSet(k, t, st) == [k EXCEPT !.state[t] = st]
StateParked(k, t, st) == Unlink(StateSet(k, t, st), t, k.my[t])

LEMMA SoundStateParked ==
  ASSUME NEW k, Sound(k), NEW t \in AppTask, IsReady(k, t),
         NEW st \in State \ {"READY"}
  PROVE  LET d == Dispatch(StateParked(k, t, st))
         IN  /\ Sound(d) /\ d.state = [k.state EXCEPT ![t] = st]
             /\ d.timed = k.timed
<1> DEFINE e == [Unlink(k, t, k.my[t]) EXCEPT !.state[t] = st]
<1>1. /\ Basic(e) /\ (e.ticking => e.isr > 0)
      /\ e.state = [k.state EXCEPT ![t] = st] /\ e.timed = k.timed
  BY ParkEffect
<1>2. StateParked(k, t, st) = e
  <2>1. k \in Kernel
    BY DEF Sound, Basic
  <2> QED
    BY <2>1 DEF Unlink, Kernel, StateSet, StateParked
<1> HIDE DEF e
<1>3. LET d == Dispatch(e)
      IN  /\ Sound(d) /\ d.state = [k.state EXCEPT ![t] = st]
          /\ d.timed = k.timed
  BY <1>1, SoundDispatch
<1> QED
  BY <1>2, <1>3

LEMMA SoundStateDelay ==
  ASSUME NEW k, Sound(k), NEW t \in AppTask, IsReady(k, t),
         NEW st \in State \ {"READY"}, NEW n \in Int
  PROVE  LET d == Dispatch(Delay(StateSet(k, t, st), t, n))
         IN  /\ Sound(d) /\ d.state = [k.state EXCEPT ![t] = st]
             /\ d.timed = [k.timed EXCEPT ![t] = TRUE]
BY SoundDelay DEF StateSet

\* A task that is not ready gets another state and leaves TIMEOUT_QUEUE.
LEMMA SoundBury ==
  ASSUME NEW k, Sound(k), NEW t \in Task, ~IsReady(k, t),
         NEW st \in State \ {"READY"}
  PROVE  LET d == [TimeDequeue(k, t) EXCEPT !.state[t] = st]
         IN  /\ Sound(d)
             /\ d.state = [k.state EXCEPT ![t] = st]
             /\ d.timed = [k.timed EXCEPT ![t] = FALSE]
<1> DEFINE e == TimeDequeue(k, t)
           d == [e EXCEPT !.state[t] = st]
<1>1. k \in Kernel /\ k.state \in [Task -> State] /\ k.timed \in [Task -> BOOLEAN]
  BY DEF Sound, Basic, Kernel
<1>2. /\ Basic(e) /\ e.state[t] # "READY" /\ e.state \in [Task -> State]
      /\ \A v \in Task \ {t} : e.state[v] = k.state[v]
      /\ e.timed = [k.timed EXCEPT ![t] = FALSE]
      /\ e.active = k.active /\ e.pend = k.pend
      /\ e.isr = k.isr /\ e.ticking = k.ticking
      /\ \A v \in Task : IsReady(e, v) <=> IsReady(k, v)
  <2>1. CASE k.timed[t]
    <3>1. LET b == IF k.state[t] = "READY" THEN "BLOCKED" ELSE k.state[t]
          IN  /\ Basic(e) /\ b \in State \ {"READY"}
              /\ e.state = [k.state EXCEPT ![t] = b]
              /\ e.timed = [k.timed EXCEPT ![t] = FALSE]
              /\ e.active = k.active /\ e.pend = k.pend
              /\ e.isr = k.isr /\ e.ticking = k.ticking
              /\ \A v \in Task : IsReady(e, v) <=> IsReady(k, v)
      BY <1>1, <2>1, TimeDequeueEffect DEF Sound
    <3> HIDE DEF e
    <3> QED
      BY <1>1, <3>1
  <2>2. CASE ~k.timed[t]
    <3>1. e = k
      BY <2>2 DEF TimeDequeue
    <3> QED
      BY <1>1, <2>2, <3>1 DEF Sound, IsReady
  <2> QED
    BY <2>1, <2>2
<1> HIDE DEF e
<1>3. e \in Kernel /\ ~IsReady(e, t)
  BY <1>2 DEF Basic, IsReady
<1>4. /\ d \in Kernel /\ d.ready = e.ready /\ d.timeouts = e.timeouts
      /\ d.timed = e.timed /\ d.my = e.my /\ d.current = e.current
      /\ d.isr = e.isr /\ d.ticking = e.ticking /\ d.active = e.active
      /\ d.pend = e.pend /\ d.state = [e.state EXCEPT ![t] = st]
  BY <1>3 DEF Kernel
<1> HIDE DEF d
<1>5. \A v \in Task : IsReady(d, v) <=> IsReady(e, v)
  BY <1>2, <1>3, <1>4 DEF IsReady
<1>6. Basic(d)
  BY <1>2, <1>4, <1>5, KernelAssumption DEF Basic, Agree, NoneAbove
<1>7. Sound(d)
  BY <1>1, <1>2, <1>4, <1>5, <1>6 DEF Sound, Kernel
<1>8. d.state = [k.state EXCEPT ![t] = st]
  BY <1>1, <1>2, <1>4
<1> QED
  BY <1>2, <1>4, <1>7, <1>8 DEF d, e

\* How a kernel starts: all tasks are ready but some that do not exist yet.
StartedBut(prio, queues, C) ==
  [StartKernel(prio, queues) EXCEPT
     !.state = [t \in Task |-> IF t \in C THEN "BLOCKED" ELSE @[t]]]

StartsWith(prio, queues, C) ==
  \A p \in Prio :
    /\ IsInjective(queues[p])
    /\ ToSet(queues[p]) = {t \in Task \ C : prio[t] = p}

LEMMA SoundStart ==
  ASSUME NEW prio \in [Task -> Prio], NEW queues \in [Prio -> Seq(Task)],
         NEW C \in SUBSET AppTask, StartsWith(prio, queues, C)
  PROVE  LET d == StartedBut(prio, queues, C)
         IN  /\ Sound(d) /\ Settled(d)
             /\ \A t \in Task :
                  /\ d.state[t] = IF t \in C THEN "BLOCKED" ELSE "READY"
                  /\ ~d.timed[t]
<1> DEFINE i == InitKernel(prio)
           a == [i EXCEPT !.ready = queues, !.state = [t \in Task |-> "READY"],
                          !.current = 0]
           s == [t \in Task |-> IF t \in C THEN "BLOCKED" ELSE "READY"]
           b == [a EXCEPT !.state = s]
           d == [Dispatch(a) EXCEPT
                   !.state = [t \in Task |-> IF t \in C THEN "BLOCKED" ELSE @[t]]]
<1>1. /\ Idle \in Task /\ Idle \notin C /\ 0 \in Prio /\ LowestTaskPriority \in Nat
      /\ AppTask \subseteq Task
  BY KernelAssumption DEF Prio, AppTask
<1>2. /\ i \in Kernel /\ i.my = prio /\ i.timeouts = <<>>
      /\ i.timed = [t \in Task |-> FALSE] /\ i.ticking = FALSE
  <2>1. i \in Kernel
    BY <1>1 DEF InitKernel, Kernel, State
  <2> QED
    BY <2>1 DEF InitKernel
<1> HIDE DEF i
<1>3. s \in [Task -> State] /\ \A t \in Task : s[t] = "READY" <=> t \notin C
  BY DEF State
<1>4. /\ a \in Kernel /\ a.state = [t \in Task |-> "READY"] /\ a.ready = queues
      /\ a.timed = i.timed /\ a.timeouts = <<>> /\ a.my = prio /\ a.current = 0
      /\ a.ticking = FALSE
  BY <1>1, <1>2 DEF Kernel, State
<1> HIDE DEF a, s
<1>5. /\ b \in Kernel /\ b.state = s /\ b.ready = queues
      /\ b.timed = [t \in Task |-> FALSE] /\ b.timeouts = <<>> /\ b.my = prio
      /\ b.current = 0 /\ b.ticking = FALSE
  BY <1>2, <1>3, <1>4 DEF Kernel
<1>6. [t \in Task |-> IF t \in C THEN "BLOCKED" ELSE a.state[t]] = s
  BY <1>4 DEF s
<1>7. Dispatch(a).state = a.state
  BY <1>4, DispatchEffect
<1> HIDE DEF b
<1>8. d = Dispatch(b)
  <2>1. d = [Dispatch(a) EXCEPT !.state = s]
    BY <1>6, <1>7 DEF d
  <2>2. b = [a EXCEPT !.state = s]
    BY DEF b
  <2>3. Nonempty(b) = Nonempty(a)
    BY <1>4, <1>5 DEF Nonempty
  <2>4. NextQueue(b) = NextQueue(a)
    BY <1>4, <1>5, <2>3 DEF NextQueue
  <2> DEFINE p == NextQueue(a)
             h == Head(a.ready[p])
  <2>5. h = Head(b.ready[p])
    BY <1>4, <1>5
  <2>6. CASE Nonempty(a) = {}
    <3>1. Dispatch(a) = [a EXCEPT !.pend = TRUE]
      BY <2>6 DEF Dispatch
    <3>2. Dispatch(b) = [b EXCEPT !.pend = TRUE]
      BY <2>6, <2>3 DEF Dispatch
    <3> QED
      BY <1>4, <2>1, <2>2, <3>1, <3>2 DEF Kernel
  <2>7. CASE Nonempty(a) # {}
    <3>1. Dispatch(a) = [a EXCEPT !.current = p, !.active = h, !.pend = FALSE]
      BY <2>7 DEF Dispatch
    <3>2. Dispatch(b) = [b EXCEPT !.current = p, !.active = h, !.pend = FALSE]
      BY <2>7, <2>3, <2>4, <2>5 DEF Dispatch
    <3> HIDE DEF p, h
    <3> QED
      BY <1>4, <2>1, <2>2, <3>1, <3>2 DEF Kernel
  <2> QED
    BY <2>6, <2>7
<1> HIDE DEF d
<1>9. \A t \in Task : IsReady(b, t) <=> t \notin C
  BY <1>3, <1>5 DEF IsReady
<1>10. Basic(b)
  <2>1. ToSet(<<>>) = {} /\ Inj(<<>>)
    BY DEF ToSet, Inj
  <2>2. \A p \in Prio : Inj(queues[p])
    BY DEF IsInjective, Inj, StartsWith
  <2>3. \A p \in Prio :
          ToSet(b.ready[p]) = {t \in Task \ {} : IsReady(b, t) /\ b.my[t] = p}
    BY <1>5, <1>9 DEF StartsWith
  <2>4. ToSet(b.timeouts) = {t \in Task \ {} : b.timed[t]}
    BY <1>5, <2>1
  <2>5. Agree(b, {})
    BY <1>5, <2>1, <2>2, <2>3, <2>4 DEF Agree
  <2>6. NoneAbove(b)
    BY <1>5, <1>1 DEF NoneAbove, Prio
  <2> QED
    BY <1>1, <1>5, <1>9, <2>5, <2>6 DEF Basic
<1>11. /\ Sound(d) /\ Settled(d)
       /\ d.state = s /\ d.timed = [t \in Task |-> FALSE]
  BY <1>5, <1>8, <1>10, SoundDispatch, DispatchLemma
<1>12. d = StartedBut(prio, queues, C)
  BY DEF StartKernel, StartedBut, d, a, i
<1> QED
  BY <1>11, <1>12 DEF s

-----------------------------------------------------------------------------
(* Queues on which only application tasks are.                              *)

LEMMA AppTaskLemma ==
  /\ AppTask \subseteq Task
  /\ Seq(AppTask) \subseteq Seq(Task)
<1>1. AppTask \subseteq Task
  BY DEF AppTask
<1> QED
  BY <1>1

LEMMA AppSeqLemma ==
  ASSUME NEW s \in Seq(Task), ToSet(s) \subseteq AppTask
  PROVE  s \in Seq(AppTask)
<1>1. \A i \in 1 .. Len(s) : s[i] \in AppTask
  BY DEF ToSet
<1> QED
  BY <1>1

LEMMA HeadLemma ==
  ASSUME NEW s \in Seq(AppTask), Inj(s), s # <<>>
  PROVE  /\ Head(s) \in AppTask /\ Head(s) \in ToSet(s)
         /\ Tail(s) \in Seq(AppTask) /\ Inj(Tail(s))
         /\ ToSet(Tail(s)) = ToSet(s) \ {Head(s)}
<1>1. s \in Seq(Task)
  BY AppTaskLemma
<1>2. Head(s) \in AppTask /\ Tail(s) \in Seq(AppTask)
  OBVIOUS
<1> QED
  BY <1>1, <1>2, TailLemma

LEMMA JoinLemma ==
  ASSUME NEW s \in Seq(AppTask), Inj(s), NEW t \in AppTask, t \notin ToSet(s)
  PROVE  /\ Append(s, t) \in Seq(AppTask)
         /\ Inj(Append(s, t))
         /\ ToSet(Append(s, t)) = ToSet(s) \cup {t}
<1>1. s \in Seq(Task) /\ t \in Task
  BY AppTaskLemma
<1>2. Append(s, t) \in Seq(AppTask)
  OBVIOUS
<1> QED
  BY <1>1, <1>2, AppendLemma

LEMMA EmptyLemma ==
  /\ <<>> \in Seq(AppTask) /\ Inj(<<>>) /\ ToSet(<<>>) = {}
  /\ \A s \in Seq(AppTask) : ToSet(s) = {} => s = <<>>
<1>1. \A s \in Seq(AppTask) : s # <<>> => Head(s) = s[1] /\ 1 \in DOMAIN s
  OBVIOUS
<1> QED
  BY <1>1 DEF Inj, ToSet

LEMMA LeaveAppLemma ==
  ASSUME NEW s \in Seq(AppTask), Inj(s), NEW t \in ToSet(s)
  PROVE  /\ Without(s, t) \in Seq(AppTask)
         /\ Inj(Without(s, t))
         /\ ToSet(Without(s, t)) = ToSet(s) \ {t}
<1>1. s \in Seq(Task) /\ ToSet(s) \subseteq AppTask
  BY AppTaskLemma DEF ToSet
<1> QED
  BY <1>1, WithoutLemma, AppSeqLemma

\* How a kernel starts when all tasks exist.
LEMMA SoundStartAll ==
  ASSUME NEW prio \in [Task -> Prio], NEW queues \in [Prio -> Seq(Task)],
         StartsWith(prio, queues, {})
  PROVE  LET d == StartKernel(prio, queues)
         IN  /\ Sound(d) /\ Settled(d)
             /\ \A t \in Task : d.state[t] = "READY" /\ ~d.timed[t]
<1> DEFINE i == InitKernel(prio)
           a == [i EXCEPT !.ready = queues, !.state = [t \in Task |-> "READY"],
                          !.current = 0]
           d == Dispatch(a)
           p == NextQueue(a)
           h == Head(a.ready[p])
<1>1. /\ Idle \in Task /\ 0 \in Prio
  BY KernelAssumption DEF Prio
<1>2. i \in Kernel
  BY <1>1 DEF InitKernel, Kernel, State
<1> HIDE DEF i
<1>3. a \in Kernel /\ a.state = [t \in Task |-> "READY"]
  BY <1>1, <1>2 DEF Kernel, State
<1>4. d = [a EXCEPT !.pend = TRUE]
        \/ d = [a EXCEPT !.current = p, !.active = h, !.pend = FALSE]
  BY DEF Dispatch
<1> HIDE DEF a, d, p, h
<1>5. [t \in Task |-> IF t \in {} THEN "BLOCKED" ELSE d.state[t]] = a.state
  BY <1>3, DispatchEffect DEF d
<1>6. [d EXCEPT !.state = a.state] = d
  BY ZenonT(60), <1>3, <1>4 DEF Kernel
<1>7. d = StartKernel(prio, queues)
  BY DEF StartKernel, d, a, i
<1>8. d = StartedBut(prio, queues, {})
  BY <1>5, <1>6, <1>7 DEF StartedBut
<1>9. PICK C \in SUBSET AppTask : C = {}
  OBVIOUS
<1>10. StartsWith(prio, queues, C)
  BY <1>9
<1>11. LET e == StartedBut(prio, queues, C)
       IN  /\ Sound(e) /\ Settled(e)
           /\ \A t \in Task : /\ e.state[t] = IF t \in C THEN "BLOCKED" ELSE "READY"
                              /\ ~e.timed[t]
  BY <1>10, SoundStart
<1>12. StartKernel(prio, queues) = StartedBut(prio, queues, C)
  BY <1>7, <1>8, <1>9
<1> QED
  BY <1>9, <1>11, <1>12
=============================================================================
