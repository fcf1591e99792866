----------------------------- MODULE SmallHeap -----------------------------
(***************************************************************************)
(* SmallHeap (include/util/small_heap.cpp): a first-fit allocator over a   *)
(* pool [Base, Base + Length).  Every block, free or used, is a node of    *)
(* the std::map memory, keyed by its address; free nodes are also linked   *)
(* into a doubly linked free list, kept in address order, between two     *)
(* guard nodes: one at address 0 (memory.begin()) and one at the top of    *)
(* the address space.  A used node is marked by next = memory.begin().     *)
(*                                                                         *)
(* The only user is StreamProcessor, which calls alloc and free under      *)
(* scratch_lock_ (CreateQueue, ReleaseQueue), so each call is one atomic   *)
(* step here, made by one of the Clients.  A client holds at most one      *)
(* block at a time.                                                        *)
(***************************************************************************)
EXTENDS Naturals, FiniteSetsExt, TLC

CONSTANTS
  Base,      \* scratch_base_: address of the pool, > 0
  Length,    \* scratch_size_: bytes in the pool
  Sizes,     \* byte counts the clients request
  Clients,   \* callers, serialised by scratch_lock_
  None       \* a client that holds no block

ASSUME Base \in Nat \ {0} /\ Length \in Nat \ {0} /\ Sizes \subseteq Nat

(* memory.begin() is the node at address 0, which is also nullptr; the    *)
(* top guard lies above the pool (and not adjacent to it); memory.end()   *)
(* is no address.                                                          *)
Begin == 0
Null == 0
Top == Base + Length + 1
EndIt == -1

Node == [len : 0..Length, next : 0..Top \cup {EndIt}, prior : 0..Top \cup {EndIt}]
Block == [ptr : 0..Top, len : Sizes, high : BOOLEAN]

VARIABLES
  memory,      \* the std::map from address to Node
  total_free,  \* bytes in free nodes
  high,        \* addresses handed out by alloc_high
  held         \* held[c]: the block client c got, or None

vars == <<memory, total_free, high, held>>

(* The node predicates of small_heap.h. *)
IsFree(n) == n.next # Begin
IsLastFree(n) == n.next = EndIt
IsFirstFree(n) == n.prior = EndIt

(* The address of the key before a in the map: iterator--. *)
KeyBefore(mem, a) == Max({k \in DOMAIN mem : k < a})

-----------------------------------------------------------------------------
(* insertafter: link node into the free list after place. *)
insertafter(mem, place, node) ==
  LET nx == mem[place].next
  IN  [mem EXCEPT ![node].next = nx, ![node].prior = place,
                  ![place].next = node, ![nx].prior = node]

(* remove: unlink node from the free list and mark it used. *)
remove(mem, node) ==
  [mem EXCEPT ![mem[node].prior].next = mem[node].next,
              ![mem[node].next].prior = mem[node].prior,
              ![node].next = Begin]

\* merge that does not point the node after hi back at lo.
mergeNoPrior(mem, lo, hi) ==
  IF lo + mem[lo].len # hi
  THEN <<mem, hi>>
  ELSE LET m1 == [mem EXCEPT ![lo].len = @ + mem[hi].len, ![lo].next = mem[hi].next]
       IN  <<[a \in DOMAIN m1 \ {hi} |-> m1[a]], lo>>

(* merge: absorb hi into lo when lo ends where hi starts; the pair of the *)
(* new map and the node that survives.                                    *)
merge(mem, lo, hi) ==
  IF lo + mem[lo].len # hi
  THEN <<mem, hi>>
  ELSE LET m1 == [mem EXCEPT ![lo].len = @ + mem[hi].len,
                             ![lo].next = mem[hi].next,
                             ![mem[hi].next].prior = lo]
       IN  <<[a \in DOMAIN m1 \ {hi} |-> m1[a]], lo>>

\* The first-fit walk with a strict comparison: exact fits are skipped.
RECURSIVE FirstFitStrict(_, _, _)
FirstFitStrict(mem, cur, bytes) ==
  IF IsLastFree(mem[cur]) \/ bytes < mem[cur].len THEN cur
  ELSE FirstFitStrict(mem, mem[cur].next, bytes)

(* The walk of alloc from firstfree() along next, stopping at the first  *)
(* node that fits or at the top guard.                                   *)
RECURSIVE FirstFit(_, _, _)
FirstFit(mem, cur, bytes) ==
  IF IsLastFree(mem[cur]) \/ bytes <= mem[cur].len THEN cur
  ELSE FirstFit(mem, mem[cur].next, bytes)

(* The walk of alloc_high from lastfree() along prior, stopping at the   *)
(* last node that fits or at the bottom guard.                           *)
RECURSIVE LastFit(_, _, _)
LastFit(mem, cur, bytes) ==
  IF IsFirstFree(mem[cur]) \/ bytes <= mem[cur].len THEN cur
  ELSE LastFit(mem, mem[cur].prior, bytes)

(* The walk of free down the map to the nearest free node below a. *)
RECURSIVE FreeBefore(_, _)
FreeBefore(mem, a) ==
  LET b == KeyBefore(mem, a)
  IN  IF IsFree(mem[b]) THEN b ELSE FreeBefore(mem, b)

-----------------------------------------------------------------------------
(* The constructor SmallHeap(base, length): both guards and one free node *)
(* spanning the pool; no client holds a block.                            *)
Init ==
  /\ memory = (Begin :> [len |-> 0, next |-> Base, prior |-> EndIt])
              @@ (Base :> [len |-> Length, next |-> Top, prior |-> Begin])
              @@ (Top :> [len |-> 0, next |-> EndIt, prior |-> Base])
  /\ total_free = Length
  /\ high = {}
  /\ held = [c \in Clients |-> None]

(* A failed request: alloc or alloc_high returns nullptr, which the       *)
(* client keeps (CreateQueue's assert is compiled out).                   *)
Fail(c, b, isHigh) ==
  /\ held' = [held EXCEPT ![c] = [ptr |-> Null, len |-> b, high |-> isHigh]]
  /\ UNCHANGED <<memory, total_free, high>>

\* alloc that takes the whole length of the node it splits off total_free.
AllocTotalLen(c, b) ==
  /\ held[c] = None
  /\ IF b > total_free \/ b = 0
     THEN Fail(c, b, FALSE)
     ELSE LET cur == FirstFit(memory, memory[Begin].next, b)
              len == memory[cur].len
              split == IF b # len
                       THEN insertafter(
                              [memory EXCEPT ![cur].len = b]
                                @@ ((cur + b) :> [len |-> len - b, next |-> EndIt, prior |-> EndIt]),
                              cur, cur + b)
                       ELSE memory
          IN  IF IsLastFree(memory[cur])
              THEN Fail(c, b, FALSE)
              ELSE /\ total_free' = total_free - len
                   /\ memory' = remove(split, cur)
                   /\ held' = [held EXCEPT ![c] = [ptr |-> cur, len |-> b, high |-> FALSE]]
                   /\ UNCHANGED high

(* alloc(bytes): refuse 0 and more than total_free; otherwise walk the   *)
(* free list, split the first node that fits (the tail stays free right *)
(* after it) and unlink it.  Fragmentation ends the walk at the guard.  *)
Alloc(c, b) ==
  /\ held[c] = None
  /\ IF b > total_free \/ b = 0
     THEN Fail(c, b, FALSE)
     ELSE LET cur == FirstFit(memory, memory[Begin].next, b)
              len == memory[cur].len
              split == IF b # len
                       THEN insertafter(
                              [memory EXCEPT ![cur].len = b]
                                @@ ((cur + b) :> [len |-> len - b, next |-> EndIt, prior |-> EndIt]),
                              cur, cur + b)
                       ELSE memory
          IN  IF IsLastFree(memory[cur])
              THEN Fail(c, b, FALSE)
              ELSE /\ total_free' = total_free - b
                   /\ memory' = remove(split, cur)
                   /\ held' = [held EXCEPT ![c] = [ptr |-> cur, len |-> b, high |-> FALSE]]
                   /\ UNCHANGED high

\* alloc_high that hands out the front of a split node instead of its tail.
AllocHighFront(c, b) ==
  /\ held[c] = None
  /\ IF b > total_free \/ b = 0
     THEN Fail(c, b, TRUE)
     ELSE LET cur == LastFit(memory, memory[Top].prior, b)
              len == memory[cur].len
              ptr == IF b # len THEN cur + len - b ELSE cur
          IN  IF IsFirstFree(memory[cur])
              THEN Fail(c, b, TRUE)
              ELSE /\ total_free' = total_free - b
                   /\ memory' = IF b # len
                                THEN [memory EXCEPT ![cur].len = @ - b]
                                       @@ (ptr :> [len |-> b, next |-> Begin, prior |-> EndIt])
                                ELSE remove(memory, cur)
                   /\ high' = high \cup {cur}
                   /\ held' = [held EXCEPT ![c] = [ptr |-> cur, len |-> b, high |-> TRUE]]

(* alloc_high(bytes): walk the free list from the top, take the last     *)
(* node that fits; a larger node keeps its front free and gives its      *)
(* tail, a new used node (its prior is never read); an exact fit is      *)
(* unlinked.  The address is recorded in high.                           *)
AllocHigh(c, b) ==
  /\ held[c] = None
  /\ IF b > total_free \/ b = 0
     THEN Fail(c, b, TRUE)
     ELSE LET cur == LastFit(memory, memory[Top].prior, b)
              len == memory[cur].len
              ptr == IF b # len THEN cur + len - b ELSE cur
          IN  IF IsFirstFree(memory[cur])
              THEN Fail(c, b, TRUE)
              ELSE /\ total_free' = total_free - b
                   /\ memory' = IF b # len
                                THEN [memory EXCEPT ![cur].len = @ - b]
                                       @@ (ptr :> [len |-> b, next |-> Begin, prior |-> EndIt])
                                ELSE remove(memory, cur)
                   /\ high' = high \cup {ptr}
                   /\ held' = [held EXCEPT ![c] = [ptr |-> ptr, len |-> b, high |-> TRUE]]

\* free without the final high.erase(ptr).
FreeNoHighErase(c) ==
  /\ held[c] # None
  /\ held' = [held EXCEPT ![c] = None]
  /\ LET p == held[c].ptr
     IN  IF p = Null \/ p \notin DOMAIN memory
         THEN UNCHANGED <<memory, total_free, high>>
         ELSE LET before == FreeBefore(memory, p)
                  r1 == merge(insertafter(memory, before, p), before, p)
                  r2 == merge(r1[1], r1[2], r1[1][r1[2]].next)
              IN  /\ total_free' = total_free + memory[p].len
                  /\ memory' = r2[1]
                  /\ UNCHANGED high

(* free(ptr): nullptr and an address that is not a node return at once; *)
(* otherwise count the bytes free again, link the node after the nearest *)
(* free node below it, merge it with that node, then merge the result    *)
(* with the next free node, and drop the address from high.              *)
Free(c) ==
  /\ held[c] # None
  /\ held' = [held EXCEPT ![c] = None]
  /\ LET p == held[c].ptr
     IN  IF p = Null \/ p \notin DOMAIN memory
         THEN UNCHANGED <<memory, total_free, high>>
         ELSE LET before == FreeBefore(memory, p)
                  r1 == merge(insertafter(memory, before, p), before, p)
                  r2 == merge(r1[1], r1[2], r1[1][r1[2]].next)
              IN  /\ total_free' = total_free + memory[p].len
                  /\ memory' = r2[1]
                  /\ high' = high \ {p}

Next ==
  \E c \in Clients :
     \/ \E b \in Sizes : Alloc(c, b) \/ AllocHigh(c, b)
     \/ Free(c)

Spec == Init /\ [][Next]_vars


-----------------------------------------------------------------------------
(* The pool's blocks and the free ones among them. *)
Blocks == DOMAIN memory \ {Begin, Top}
FreeBlocks == {a \in Blocks : IsFree(memory[a])}

TypeOK ==
  /\ {Begin, Top} \subseteq DOMAIN memory
  /\ DOMAIN memory \subseteq 0..Top
  /\ \A a \in DOMAIN memory : memory[a] \in Node
  /\ total_free \in 0..Length
  /\ high \subseteq Blocks
  /\ held \in [Clients -> Block \cup {None}]

(* The map stays a heap after any sequence of alloc, alloc_high and free: *)
(* its blocks tile the pool with no gap or overlap, the free list runs    *)
(* from the bottom guard through exactly the free blocks in address order *)
(* to the top guard with every prior link the inverse of a next link, and *)
(* free has merged every pair of neighbouring free blocks.                *)
HeapWellFormed ==
  /\ Min(Blocks) = Base
  /\ \A a \in Blocks :
       a + memory[a].len = IF Max(Blocks) = a THEN Base + Length
                           ELSE Min({k \in Blocks : k > a})
  /\ \A a \in {Begin} \cup FreeBlocks :
       /\ memory[a].next = Min({k \in FreeBlocks \cup {Top} : k > a})
       /\ memory[memory[a].next].prior = a
  /\ memory[Begin].prior = EndIt /\ memory[Top].next = EndIt
  /\ \A a \in FreeBlocks : a + memory[a].len \notin FreeBlocks

(* total_free, which alloc and alloc_high test before walking, is the sum *)
(* of the lengths of the free blocks.                                     *)
TotalFreeExact ==
  total_free = MapThenSumSet(LAMBDA a : memory[a].len, FreeBlocks)

(* Every block the clients hold is a used node of exactly the size asked  *)
(* for, every used node is held by a client, and high names exactly the   *)
(* blocks that alloc_high handed out and free has not taken back.         *)
BlocksOwned ==
  LET Live == {c \in Clients : held[c] # None /\ held[c].ptr # Null}
  IN  /\ \A c \in Live : /\ held[c].ptr \in Blocks \ FreeBlocks
                         /\ memory[held[c].ptr].len = held[c].len
      /\ \A a \in Blocks \ FreeBlocks : \E c \in Live : held[c].ptr = a
      /\ high = {held[c].ptr : c \in {d \in Live : held[d].high}}

(* The heap implements the abstract first-fit allocator: what each client *)
(* holds is what the allocator gives it.  Every alloc returns the lowest   *)
(* address at which the bytes are all unowned, every alloc_high the        *)
(* highest, and nullptr only when no such address exists: the free-list   *)
(* walks, the splits, the merges and the total_free shortcut together act  *)
(* as a search of the whole pool.                                          *)
A == INSTANCE Allocator WITH owned <- held

AllocatorSpec == A!Spec

=============================================================================
