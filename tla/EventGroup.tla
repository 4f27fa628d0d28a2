----------------------------- MODULE EventGroup -----------------------------
(***************************************************************************)
(* What a lightweight event promises its callers.  A client waits for all  *)
(* or for any of some bits.  When bits are set, clients are served by what *)
(* the bits allow: a bit that clears itself goes to one client at most, in *)
(* the order of arrival; the others go to everyone; and no client is left  *)
(* waiting for bits that stay set.  Nothing here says in which order the   *)
(* code looks at the clients, nor what it does to tasks and their queues.  *)
(***************************************************************************)
EXTENDS Naturals, Sequences, SequencesExt

CONSTANTS Client,      \* tasks
          Bit          \* the bits of the group

VARIABLES exists,      \* the event has been created
          value,       \* the bits that are set
          auto,        \* the bits that clear themselves
          queue,       \* clients that wait, in order of arrival
          wish,        \* what the last wait of each client asked for
          signalled,   \* the bits that ended it; {} when none did
          call         \* how far the last call of each client got

\* What a client may wait for.
Wish == [mask : SUBSET Bit, all : BOOLEAN]

\* Between calls, call[c] is how the client's last wait ended.
Outcome == {"none", "ok", "timeout", "invalid"}

Satisfied(w, set) ==
  IF w.all THEN w.mask \subseteq set ELSE w.mask \cap set # {}

Init ==
  /\ exists = FALSE /\ value = {} /\ auto = {} /\ queue = <<>>
  /\ wish \in [Client -> Wish]
  /\ signalled = [c \in Client |-> {}]
  /\ call = [c \in Client |-> "none"]

Resting(c) == call[c] \in Outcome

Create(a) ==
  /\ ~exists /\ queue = <<>>
  /\ exists' = TRUE /\ value' = {} /\ auto' = a
  /\ UNCHANGED <<queue, wish, signalled, call>>

Destroy ==
  /\ exists
  /\ exists' = FALSE
  /\ queue' = <<>>
  /\ call' = [c \in Client |-> IF c \in ToSet(queue) THEN "left" ELSE call[c]]
  /\ UNCHANGED <<value, auto, wish, signalled>>

Clear(mask) ==
  /\ exists
  /\ value' = value \ mask
  /\ UNCHANGED <<exists, auto, queue, wish, signalled, call>>

SetAutoClear(mask) ==
  /\ exists
  /\ auto' = mask
  /\ UNCHANGED <<exists, value, queue, wish, signalled, call>>

\* q is the queue s without the clients in gone, the others in their order.
Leaves(q, s, gone) ==
  /\ q \in Seq(Client)
  /\ IsInjective(q)
  /\ ToSet(q) = ToSet(s) \ gone
  /\ \A i, j \in 1 .. Len(q) : i < j =>
       \E a, b \in 1 .. Len(s) : a < b /\ s[a] = q[i] /\ s[b] = q[j]

\* The clients in served are given the bits in given: what they asked for,
\* as far as it is set, and of the bits that clear themselves no bit twice.
Fair(set, served, given) ==
  /\ \A c \in served :
       /\ given[c] \subseteq wish[c].mask \cap set
       /\ Satisfied(wish[c], given[c])
  /\ \A c, d \in served : c # d => given[c] \cap given[d] \cap auto = {}

\* A client that is left waiting finds its wish unfulfilled by the bits that
\* stay, and lost a bit to a client that came earlier if set would have done.
Justified(set, rest, served, given) ==
  \A i \in 1 .. Len(queue) : queue[i] \notin served =>
    /\ ~Satisfied(wish[queue[i]], rest)
    /\ Satisfied(wish[queue[i]], set) =>
         \E j \in 1 .. i - 1 :
           /\ queue[j] \in served
           /\ given[queue[j]] \cap wish[queue[i]].mask \cap auto # {}

Set(mask) ==
  LET set == value \cup mask IN
  /\ exists
  /\ \E served \in SUBSET ToSet(queue) :
       /\ Leaves(queue', queue, served)
       /\ call' = [c \in Client |-> IF c \in served THEN "granted" ELSE call[c]]
       /\ \E given \in [served -> SUBSET Bit] :
            /\ Fair(set, served, given)
            /\ value' = set \ (auto \cap UNION {given[c] : c \in served})
            /\ Justified(set, value', served, given)
            /\ signalled' = [c \in Client |->
                               IF c \in served THEN given[c] ELSE signalled[c]]
  /\ UNCHANGED <<exists, auto, wish>>

Settle(c, out) == call' = [call EXCEPT ![c] = out]

\* The bits are there: those that clear themselves are used up.
Catch(c, w) ==
  /\ Resting(c) /\ exists
  /\ Satisfied(w, value)
  /\ wish' = [wish EXCEPT ![c] = w]
  /\ signalled' = [signalled EXCEPT ![c] = w.mask \cap value]
  /\ value' = value \ (auto \cap w.mask)
  /\ Settle(c, "ok")
  /\ UNCHANGED <<exists, auto, queue>>

Join(c, w) ==
  /\ Resting(c) /\ exists
  /\ ~Satisfied(w, value)
  /\ wish' = [wish EXCEPT ![c] = w]
  /\ signalled' = [signalled EXCEPT ![c] = {}]
  /\ queue' = Append(queue, c)
  /\ Settle(c, "waiting")
  /\ UNCHANGED <<exists, value, auto>>

Expire(c) ==
  /\ call[c] = "waiting"
  /\ Leaves(queue', queue, {c})
  /\ Settle(c, "left")
  /\ UNCHANGED <<exists, value, auto, wish, signalled>>

\* A wait that went through the queue returns; only one that was granted its
\* bits can return them.
Return(c) ==
  /\ \/ call[c] = "granted" /\ exists /\ Settle(c, "ok") /\ UNCHANGED signalled
     \/ /\ call[c] = "left" /\ exists
        /\ Settle(c, "timeout") /\ UNCHANGED signalled
     \/ /\ call[c] \in {"granted", "left"} /\ ~exists
        /\ Settle(c, "invalid")
        /\ signalled' = [signalled EXCEPT ![c] = {}]
  /\ UNCHANGED <<exists, value, auto, queue, wish>>

Refuse(c) ==
  /\ Resting(c) /\ ~exists
  /\ Settle(c, "invalid")
  /\ signalled' = [signalled EXCEPT ![c] = {}]
  /\ UNCHANGED <<exists, value, auto, queue, wish>>

Next ==
  \/ Destroy
  \/ \E m \in SUBSET Bit : Create(m) \/ Clear(m) \/ SetAutoClear(m) \/ Set(m)
  \/ \E c \in Client : \/ Expire(c) \/ Return(c) \/ Refuse(c)
                       \/ \E w \in Wish : Catch(c, w) \/ Join(c, w)

vars == <<exists, value, auto, queue, wish, signalled, call>>
Spec == Init /\ [][Next]_vars
=============================================================================
