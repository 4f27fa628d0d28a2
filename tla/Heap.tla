-------------------------------- MODULE Heap --------------------------------
(***************************************************************************)
(* What a memory pool promises its users, without free lists, cursors and  *)
(* windows: blocks that do not overlap, a refusal only when no gap is      *)
(* large enough for the request, and a block that stays with its owner     *)
(* until that owner frees or transfers it.                                 *)
(***************************************************************************)
EXTENDS Integers

CONSTANTS Client,      \* the tasks that use the pool
          System,      \* the owner of blocks that any task may free
          PoolSize,    \* words in the pool, addresses 1 .. PoolSize
          MinBlock     \* no block is shorter, and no gap shorter is kept

VARIABLES
  blocks,     \* [addr, size, owner] of every block in use
  asks        \* [Client -> the request each client waits for, or Nothing]

vars == <<blocks, asks>>

Word    == 1 .. PoolSize
Nothing == [size |-> 0]
Request ==
  [size : Nat \ {0}, owner : Client \cup {System}, place : 0 .. PoolSize]

Words(b) == b.addr .. b.addr + b.size - 1
Used     == UNION {Words(b) : b \in blocks}

\* A gap: consecutive words not in use, with nothing free on either side.
Gaps ==
  {g \in Word \X Word :
     /\ g[1] <= g[2]
     /\ (g[1] .. g[2]) \cap Used = {}
     /\ g[1] - 1 \notin Word \ Used
     /\ g[2] + 1 \notin Word \ Used}

\* The addresses a request can be given: the start of a gap or, when it asks
\* for a place, that place inside a gap of which enough remains before it.
RoomsFor(r) ==
  IF r.place = 0
  THEN {g[1] : g \in {h \in Gaps : h[1] + r.size - 1 <= h[2]}}
  ELSE {a \in {r.place} : \E g \in Gaps : /\ g[1] + MinBlock <= a
                                          /\ a + r.size - 1 <= g[2]}

Init == blocks = {} /\ asks = [c \in Client |-> Nothing]

Ask(c) ==
  /\ UNCHANGED blocks
  /\ asks[c] = Nothing
  /\ asks'[c] \in Request /\ asks'[c].owner \in {c, System}
  /\ asks' = [asks EXCEPT ![c] = asks'[c]]

\* A block is at most MinBlock - 1 words longer than what was asked for.
Allocate(c) ==
  /\ asks[c] # Nothing
  /\ asks' = [asks EXCEPT ![c] = Nothing]
  /\ \E a \in RoomsFor(asks[c]), extra \in 0 .. MinBlock - 1 :
       LET b == [addr |-> a, size |-> asks[c].size + extra,
                 owner |-> asks[c].owner]
       IN /\ Words(b) \subseteq Word \ Used
          /\ blocks' = blocks \cup {b}

Refuse(c) ==
  /\ asks[c] # Nothing
  /\ asks' = [asks EXCEPT ![c] = Nothing]
  /\ UNCHANGED blocks
  /\ RoomsFor(asks[c]) = {}

Free(c, b) ==
  /\ UNCHANGED asks
  /\ b.owner \in {c, System}
  /\ blocks' = blocks \ {b}

Transfer(c, b, to) ==
  /\ UNCHANGED asks
  /\ b.owner = c
  /\ blocks' = (blocks \ {b}) \cup {[b EXCEPT !.owner = to]}

Next ==
  \E c \in Client :
    \/ Ask(c)
    \/ Allocate(c)
    \/ Refuse(c)
    \/ \E b \in blocks : Free(c, b) \/ \E to \in Client : Transfer(c, b, to)

Spec == Init /\ [][Next]_vars
=============================================================================
