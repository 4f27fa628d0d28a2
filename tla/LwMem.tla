-------------------------------- MODULE LwMem -------------------------------
(***************************************************************************)
(* A lightweight memory pool (lwmem.c).  _lwmem_alloc, _lwmem_alloc_at,    *)
(* _lwmem_free and _lwmem_test walk lists of blocks with interrupts        *)
(* disabled and open a window in each round, in which a more urgent task   *)
(* may run calls of its own from beginning to end; their cursors are in    *)
(* the pool, where those calls move them.                                  *)
(*                                                                         *)
(* The calls in progress form a stack: the processor is with the last one, *)
(* those below it stand in their windows.  One step is what a call does    *)
(* from one window to the next, or to its end.                             *)
(***************************************************************************)
EXTENDS Integers, Sequences, FiniteSets, SequencesExt, FiniteSetsExt

CONSTANTS Task,        \* the tasks that use the pool
          Priority,    \* [Task -> Nat], 0 the most urgent
          System,      \* SYSTEM_TASK_NUMBER: any task may free the block
          PoolSize,    \* words in the pool
          Header,      \* words of LWMEM_BLOCK_STRUCT
          MinBlock,    \* LWMEM_MIN_MEMORY_STORAGE_SIZE in words
          Sizes,       \* words that are asked for
          Places,      \* addresses that _lwmem_alloc_at is called with
          MayDo,       \* [Task -> the calls the task makes]
          Hopeless     \* tasks whose allocations may fail inside the
                       \* window of another allocation

PoolCall == {"alloc", "at", "free", "transfer", "test"}

LwMemParameters ==
  /\ Priority \in [Task -> Nat]
  /\ System \notin Task
  /\ PoolSize \in Nat /\ MinBlock \in 1 .. PoolSize /\ Header \in 1 .. MinBlock
  /\ Sizes \subseteq Nat
  /\ Places \subseteq 1 .. PoolSize
  /\ MayDo \in [Task -> SUBSET PoolCall]
  /\ Hopeless \subseteq Task
ASSUME LwMemAssumption == LwMemParameters

NULL  == 0
Start == 1                          \* POOL_ALLOC_START_PTR
End   == PoolSize + 1               \* POOL_ALLOC_END_PTR
Word  == Start .. PoolSize
Ptr   == Word \cup {NULL}
Owner == Task \cup {System}

VARIABLES
  block,     \* [Word -> LWMEM_BLOCK_STRUCT, or NoBlock where none begins]
  free,      \* POOL_FREE_LIST_PTR
  cursor,    \* POOL_ALLOC_PTR, POOL_FREE_PTR, POOL_TEST_PTR, POOL_TEST2_PTR
  stack,     \* the calls in progress
  given,     \* addresses of the blocks that the application has
  alarm      \* _lwmem_test has returned an error

poolVars == <<block, free, cursor, stack, given, alarm>>

\* BLOCKSIZE, and the union of NEXTBLOCK and TASK_NUMBER
NoBlock == [size |-> 0, next |-> NULL, owner |-> System]
Free(size, next)   == [size |-> size, next |-> next, owner |-> System]
InUse(size, owner) == [size |-> size, next |-> NULL, owner |-> owner]
Heads == {a \in Word : block[a] # NoBlock}

\* The fields of calls that are not alike in all of them: need is the size
\* of the block to allocate, prev is prev_block_ptr, target the block that
\* is freed or the place that was asked for.
CallRecord ==
  [op : {"alloc", "at", "free", "blocks", "list"}, task : Task,
   need : Nat, owner : Owner, prev : Ptr, target : Ptr]

\* "Adjust message size to allow for block management overhead"
Needed(size) == Max({size + Header, MinBlock})

PoolInit ==                                           \* _lwmem_create_pool
  /\ block = [a \in Word |-> IF a = Start THEN Free(PoolSize, NULL) ELSE NoBlock]
  /\ free = Start
  /\ cursor = [alloc |-> Start, free |-> Start, test |-> Start, test2 |-> Start]
  /\ stack = <<>>
  /\ given = {}
  /\ alarm = FALSE

\* The task runs outside its calls, or has preempted the last one.
Runs(t) == stack # <<>> => Priority[t] < Priority[Last(stack).task]

Walks(ops) == stack # <<>> /\ Last(stack).op \in ops
Top       == Last(stack)
EndCall   == stack' = Front(stack)
Window(c) == stack' = Append(Front(stack), c)

\* mutant: the cursor of the walk over all blocks is left alone
ResetCursors_KeepsTest ==
  cursor' = [cursor EXCEPT !.alloc = free', !.free = free', !.test = free']

\* The end of every allocation and every _lwmem_free
ResetCursors ==
  cursor' = [alloc |-> free', free |-> free', test |-> free', test2 |-> Start]

-----------------------------------------------------------------------------
(* Allocating.                                                              *)

\* The head that a pointer leads to is changed; other words are user data.
Linked(b, a, next) == IF a \in Heads THEN [b EXCEPT ![a].next = next] ELSE b

\* mutant: the rest of the block is left out of the free list
Split_Forgets(a, need) ==
  LET rest == block[a].size - need IN
  IF rest >= MinBlock
  THEN [next |-> block[a].next,
        list |-> [block EXCEPT ![a].size = need,
                               ![a + need] = Free(rest, NULL)]]
  ELSE [next |-> block[a].next, list |-> block]

\* "the part to be allocated is one block, and the rest remains as a free
\* block on the free list", or "Take the entire block"; next is
\* next_block_ptr, to which the list goes on
Split(a, need) ==
  LET rest == block[a].size - need IN
  IF rest >= MinBlock
  THEN [next |-> a + need,
        list |-> [block EXCEPT ![a].size = need,
                               ![a + need] = Free(rest, block[a].next)]]
  ELSE [next |-> block[a].next, list |-> block]

\* The block at a, which is large enough, is given to the caller.
Take(a, c) ==
  LET s == Split(a, c.need) IN
  /\ IF a = free THEN free' = s.next ELSE free' = free
  /\ block' = [IF a = free THEN s.list ELSE Linked(s.list, c.prev, s.next)
                EXCEPT ![a] = InUse(s.list[a].size, c.owner)]
  /\ given' = given \cup {a}
  /\ ResetCursors

\* The requested block in the middle of the free block at a, which keeps
\* its place in the list
TakeAt(a, c) ==
  LET before == c.target - a
      rest   == block[a].size - c.need - before
      split  == rest >= MinBlock
      size   == IF split THEN c.need ELSE c.need + rest
  IN /\ block' = [x \in Word |->
            CASE x = a -> Free(before, IF split THEN c.target + c.need
                                       ELSE block[a].next)
              [] x = c.target -> InUse(size, c.owner)
              [] split /\ x = c.target + c.need -> Free(rest, block[a].next)
              [] OTHER -> block[x]]
     /\ given' = given \cup {c.target}
     /\ UNCHANGED free
     /\ ResetCursors

\* mutant: a block one word too short will do
Fits_Shorter(a, c) ==
  IF c.op = "alloc" THEN block[a].size + 1 >= c.need
  ELSE /\ a + MinBlock <= c.target
       /\ a + block[a].size >= c.target + c.need

Fits(a, c) ==
  IF c.op = "alloc" THEN block[a].size >= c.need
  ELSE /\ a + MinBlock <= c.target
       /\ a + block[a].size >= c.target + c.need

\* No allocation that runs inside the window of another one fails, unless
\* its task is Hopeless.
Allocating == \E i \in DOMAIN stack : stack[i].op \in {"alloc", "at"}
MayStart(c) ==
  /\ free # NULL
  /\ Allocating /\ c.task \notin Hopeless =>
       \E a \in Heads \ given : Fits(a, c)

Starts(t, op) == op \in MayDo[t] /\ Runs(t)

\* To the first window; with an empty free list the call fails at once.
StartAlloc(t, size, owner) ==
  /\ Starts(t, "alloc")
  /\ LET c == [op |-> "alloc", task |-> t, need |-> Needed(size),
                owner |-> owner, prev |-> NULL, target |-> NULL]
     IN MayStart(c) /\ stack' = Append(stack, c)
  /\ cursor' = [cursor EXCEPT !.alloc = free]
  /\ UNCHANGED <<block, free, given, alarm>>

StartAllocAt(t, size, place, owner) ==
  /\ Starts(t, "at")
  /\ place + Needed(size) <= End
  /\ LET c == [op |-> "at", task |-> t, need |-> Needed(size),
                owner |-> owner, prev |-> NULL, target |-> place]
     IN MayStart(c) /\ stack' = Append(stack, c)
  /\ cursor' = [cursor EXCEPT !.alloc = free]
  /\ UNCHANGED <<block, free, given, alarm>>

\* One round after the window.  "The pool became full during preemption"
\* when the cursor is NULL.
AllocRound ==
  /\ Walks({"alloc", "at"})
  /\ LET a == cursor.alloc
         c == [Top EXCEPT !.prev = IF a = free THEN a ELSE @]
     IN \/ /\ a = NULL
           /\ EndCall
           /\ UNCHANGED <<block, free, cursor, given>>
        \/ /\ a # NULL /\ Fits(a, c)
           /\ IF c.op = "alloc" THEN Take(a, c) ELSE TakeAt(a, c)
           /\ EndCall
        \/ /\ a # NULL /\ ~Fits(a, c)
           /\ IF block[a].next = NULL
              THEN EndCall /\ UNCHANGED cursor
              ELSE /\ Window([c EXCEPT !.prev = a])
                   /\ cursor' = [cursor EXCEPT !.alloc = block[a].next]
           /\ UNCHANGED <<block, free, given>>
  /\ UNCHANGED alarm

-----------------------------------------------------------------------------
(* Freeing.                                                                 *)

\* "Join with the next block on the list": its header is cleared.
JoinNext(list, b, n) ==
  IF n # NULL /\ b + list[b].size = n
  THEN [list EXCEPT ![b] = Free(list[b].size + list[n].size, list[n].next),
                    ![n] = NoBlock]
  ELSE [list EXCEPT ![b] = Free(list[b].size, n)]

\* mutant: the header of the merged block is not cleared
JoinPrevious_KeepsHeader(list, p, b) ==
  IF p + list[p].size = b
  THEN [list EXCEPT ![p] = Free(list[p].size + list[b].size, list[b].next)]
  ELSE [list EXCEPT ![p].next = b]

JoinPrevious(list, p, b) ==
  IF p + list[p].size = b
  THEN [list EXCEPT ![p] = Free(list[p].size + list[b].size, list[b].next),
                    ![b] = NoBlock]
  ELSE [list EXCEPT ![p].next = b]

\* One round of the loop, from free_list_ptr = f, of the
\* call c; below is the stack under it.
FreeRound(f, c, below) ==
  LET b == c.target IN
  \/ /\ free = NULL \/ b < free
     /\ block' = JoinNext(block, b, free)
     /\ free' = b
     /\ given' = given \ {b}
     /\ ResetCursors
     /\ stack' = below
  \/ /\ free # NULL /\ b > free
     /\ b < block[f].next \/ block[f].next = NULL
     /\ block' = JoinPrevious(JoinNext(block, b, block[f].next), f, b)
     /\ given' = given \ {b}
     /\ UNCHANGED free
     /\ ResetCursors
     /\ stack' = below
  \/ /\ free # NULL /\ b > free
     /\ b > block[f].next /\ block[f].next # NULL
     /\ cursor' = [cursor EXCEPT !.free = block[f].next]
     /\ stack' = Append(below, c)
     /\ UNCHANGED <<block, free, given>>

\* The application frees and transfers only what it has, each block once.
Held == given \ {stack[i].target : i \in {j \in DOMAIN stack : stack[j].op = "free"}}

StartFree(t, b) ==
  /\ Starts(t, "free")
  /\ b \in Held
  /\ block[b].owner \in {t, System}
  /\ FreeRound(free, [op |-> "free", task |-> t, need |-> 0, owner |-> System,
                      prev |-> NULL, target |-> b], stack)
  /\ UNCHANGED alarm

FreeAgain ==
  /\ Walks({"free"})
  /\ FreeRound(cursor.free, Top, Front(stack))
  /\ UNCHANGED alarm

Transfer(t, b, to) ==                             \* _lwmem_transfer
  /\ Starts(t, "transfer")
  /\ b \in Held
  /\ block[b].owner = t
  /\ block' = [block EXCEPT ![b].owner = to]
  /\ UNCHANGED <<free, cursor, stack, given, alarm>>

-----------------------------------------------------------------------------
(* _lwmem_test on this pool: one task at a time.                            *)

StartTest(t) ==
  /\ Starts(t, "test")
  /\ \A i \in DOMAIN stack : stack[i].op \notin {"blocks", "list"}
  /\ stack' = Append(stack, [op |-> "blocks", task |-> t, need |-> 0,
                             owner |-> System, prev |-> NULL, target |-> NULL])
  /\ cursor' = [cursor EXCEPT !.test2 = Start]
  /\ UNCHANGED <<block, free, given, alarm>>

InPool(a) == a < End

\* "Make sure pool is ok": every block has a header of the pool.
TestBlock ==
  /\ Walks({"blocks"})
  /\ LET a    == cursor.test2
         next == a + block[a].size
     IN \/ /\ a \notin Heads
           /\ alarm' = TRUE
           /\ EndCall
           /\ UNCHANGED cursor
        \/ /\ a \in Heads /\ InPool(next)
           /\ cursor' = [cursor EXCEPT !.test2 = next]
           /\ UNCHANGED <<stack, alarm>>
        \/ /\ a \in Heads /\ ~InPool(next)
           /\ IF free = NULL THEN EndCall /\ UNCHANGED cursor
              ELSE /\ Window([Top EXCEPT !.op = "list"])
                   /\ cursor' = [cursor EXCEPT !.test = free]
           /\ UNCHANGED alarm
  /\ UNCHANGED <<block, free, given>>

\* "Make sure Freelist is ok": a free block lies in the pool, has a header,
\* and does not reach the next one.
Suspect(a) ==
  a \in Heads => /\ block[a].next # NULL
                 /\ block[a].next <= a + block[a].size

TestFree ==
  /\ Walks({"list"})
  /\ LET a == cursor.test IN
       \/ /\ Suspect(a)
          /\ alarm' = TRUE
          /\ EndCall
          /\ UNCHANGED cursor
       \/ /\ ~Suspect(a)
          /\ IF block[a].next = NULL THEN EndCall /\ UNCHANGED cursor
             ELSE /\ cursor' = [cursor EXCEPT !.test = block[a].next]
                  /\ UNCHANGED stack
          /\ UNCHANGED alarm
  /\ UNCHANGED <<block, free, given>>

PoolNext ==
  \/ \E t \in Task :
       \/ \E size \in Sizes, owner \in {t, System} :
            \/ StartAlloc(t, size, owner)
            \/ \E place \in Places : StartAllocAt(t, size, place, owner)
       \/ \E b \in given :
            \/ StartFree(t, b)
            \/ \E to \in Task : Transfer(t, b, to)
       \/ StartTest(t)
  \/ AllocRound \/ FreeAgain \/ TestBlock \/ TestFree

PoolSpec == PoolInit /\ [][PoolNext]_poolVars

-----------------------------------------------------------------------------
(* Properties.                                                              *)

PoolTypeOK ==
  /\ block \in [Word -> [size : 0 .. PoolSize, next : Ptr, owner : Owner]]
  /\ free \in Ptr
  /\ cursor \in [alloc : Ptr, free : Ptr, test : Ptr, test2 : Word]
  /\ stack \in Seq(CallRecord)
  /\ given \in SUBSET Word
  /\ alarm \in BOOLEAN

FreeHeads == Heads \ given

\* Blocks follow one another from the first to the last word of the pool, so
\* none overlaps another; what the application has is among them; and no two
\* that nobody has touch: "the function also coalesces any free block found
\* physically on either side of the block being freed" (_lwmem_free).
BlocksTile ==
  /\ PoolTypeOK
  /\ Start \in Heads /\ given \subseteq Heads
  /\ \A a \in Heads : LET after == a + block[a].size IN
       /\ after \in Heads \cup {End}
       /\ Heads \cap (a + 1 .. after - 1) = {}
       /\ a \in FreeHeads => after \notin FreeHeads

\* The free list holds every block that nobody has, in the order of the
\* addresses: a block missing from it is lost for ever, one too many on it
\* is given away twice.
NextFree(a) == Min({f \in FreeHeads : f > a} \cup {End})
Ref(a) == IF a = End THEN NULL ELSE a
FreeListExact ==
  /\ free = Ref(NextFree(0))
  /\ \A a \in FreeHeads : block[a].next = Ref(NextFree(a))

\* The allocator's users see the blocks of module Heap.
AbstractBlocks ==
  {[addr |-> a, size |-> block[a].size, owner |-> block[a].owner] : a \in given}
AllocOf(t) ==
  {i \in DOMAIN stack : stack[i].task = t /\ stack[i].op \in {"alloc", "at"}}
AbstractAsks == [t \in Task |->
  IF AllocOf(t) = {} THEN [size |-> 0]
  ELSE LET c == stack[Max(AllocOf(t))]
       IN [size |-> c.need, owner |-> c.owner, place |-> c.target]]
Abstract == INSTANCE Heap WITH
  Client <- Task,
  blocks <- AbstractBlocks,
  asks   <- AbstractAsks
ImplementsHeap == Abstract!Spec

\* A test that runs while other tasks allocate and free finds fault with the
\* pool only if the pool had become full in its window, when it takes the
\* NULL in its cursor for a block.
FalseAlarmOnlyWhenFull == [][alarm' # alarm => free = NULL]_poolVars
=============================================================================
