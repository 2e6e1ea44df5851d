------------------------------ MODULE CverHeap ------------------------------
(***************************************************************************)
(* The heap of the program under test (cver_allocator.cc on top of the     *)
(* primary allocator of sanitizer_allocator.h), which keeps the type table *)
(* of a heap object in the metadata of its block.                          *)
(*                                                                         *)
(* A thread with a CverThread has a cache of free blocks of its own; all   *)
(* others share the fallback cache under fallback_mutex.  Caches exchange  *)
(* batches of blocks with the free list of the size class, which grows by  *)
(* carving its region.                                                     *)
(*                                                                         *)
(* A cache is a set of blocks and a free list a set of batches: the order  *)
(* they are handed out in is left open.  Not modelled: objects beyond the  *)
(* largest size class (mmapped one by one, without a type table), and the  *)
(* classes whose transfer batches are blocks of their own.                 *)
(***************************************************************************)
EXTENDS Naturals, Sequences, FiniteSets

CONSTANTS
  Threads,
  WithCverThread, \* threads that have a CverThread at first
  Classes,        \* size classes
  Blocks,
  Region,         \* of each class: the batches its region is carved into
  Capacity,       \* of each class: the size of its blocks
  MaxCached,      \* of each class: the blocks in a batch
  BatchesPerMap,  \* batches that one mapping of memory yields
  Sizes,          \* sizes that are asked for
  TypeTables,
  Counts,         \* numElements of a new-expression: 0 for a single object
  Fallback, None, NoTable

BatchesOf(c) == {Region[c][i] : i \in DOMAIN Region[c]}
BlocksOf(c) == UNION BatchesOf(c)
Fits(n, c) == n <= Capacity[c]

\* Every block lies in one batch of one class, of MaxCached blocks or fewer; one
\* class is the smallest that fits a size.
ASSUME HeapAssumption ==
  /\ WithCverThread \subseteq Threads
  /\ Region \in [Classes -> Seq(SUBSET Blocks)]
  /\ \A c, d \in Classes : \A i \in DOMAIN Region[c], j \in DOMAIN Region[d] :
       Region[c][i] \cap Region[d][j] # {} => c = d /\ i = j
  /\ Capacity \in [Classes -> Nat] /\ MaxCached \in [Classes -> Nat \ {0}]
  /\ \A c \in Classes : \A B \in BatchesOf(c) :
       IsFiniteSet(B) /\ Cardinality(B) \in 1 .. MaxCached[c]
  /\ BatchesPerMap \in Nat \ {0}
  /\ Sizes \subseteq Nat /\ Counts \subseteq Nat
  /\ \A n \in Sizes : \E c \in Classes :
       Fits(n, c) /\ \A d \in Classes : Fits(n, d) => Capacity[c] <= Capacity[d]
  /\ Fallback \notin Threads /\ None \notin Threads \cup Blocks
  /\ NoTable \notin TypeTables

VARIABLES
  traced,     \* threads whose CverThread still exists
  cache,      \* the free blocks in each cache
  freeList,   \* the batches free in any region
  carved,     \* of each class: how many batches were carved (allocated_user)
  regionLock, \* of each class: the thread that holds the region's mutex
  mutex,      \* the thread that holds fallback_mutex
  metadata,
  pc, request, block, kept,  \* per thread: its place and its locals
  held,       \* blocks the program was given
  alive       \* the process did not run out of memory

heap == << cache, freeList, carved, regionLock >>
locals == << request, block, kept >>
vars == << traced, heap, mutex, metadata, pc, locals, held, alive >>

Caches == Threads \cup {Fallback}
Blank == [size |-> 0, table |-> NoTable, count |-> 0]

ClassFor(n) ==
  CHOOSE c \in Classes :
    Fits(n, c) /\ \A d \in Classes : Fits(n, d) => Capacity[c] <= Capacity[d]

CacheOf(t) == IF t \in traced THEN t ELSE Fallback
Cached(t, c) == cache[CacheOf(t)] \cap BlocksOf(c)
FreeBatches(c) == {B \in freeList : B \subseteq BlocksOf(c)}

-----------------------------------------------------------------------------
Init ==
  /\ traced = WithCverThread
  /\ cache = [k \in Caches |-> {}]
  /\ freeList = {}
  /\ carved = [c \in Classes |-> 0]
  /\ regionLock = [c \in Classes |-> None]
  /\ mutex = None
  /\ metadata = [b \in Blocks |-> Blank]
  /\ pc = [t \in Threads |-> "idle"]
  /\ request = [t \in Threads |-> 0]
  /\ block = [t \in Threads |-> None]
  /\ kept = [t \in Threads |-> None]
  /\ held = {}
  /\ alive = TRUE

Goto(t, label) == pc' = [pc EXCEPT ![t] = label]
At(t, label) == alive /\ pc[t] = label

\* The fallback cache is locked first, a thread's own is not.
ToCache(t, label, lock) == Goto(t, IF t \in traced THEN label ELSE lock)

\* Mutant: the lock is taken whoever holds it.
MayLock_Always == TRUE

MayLock == mutex = None
Unlocked(t) == IF mutex = t THEN None ELSE mutex

-----------------------------------------------------------------------------
(* What the program asks for *)

Malloc(t, n) ==
  /\ At(t, "idle")
  /\ request' = [request EXCEPT ![t] = n]
  /\ ToCache(t, "look", "lockAllocate")
  /\ UNCHANGED << traced, heap, mutex, metadata, block, kept, held, alive >>

Free(t, b) ==
  /\ At(t, "idle") /\ b \in held
  /\ held' = held \ {b}
  /\ block' = [block EXCEPT ![t] = b]
  /\ Goto(t, "clear")
  /\ UNCHANGED << traced, heap, mutex, metadata, request, kept, alive >>

\* The block is large enough for the new size, and keeps its type.
ReallocInPlace(t, b, n) ==
  /\ At(t, "idle") /\ b \in held
  /\ \E c \in Classes : b \in BlocksOf(c) /\ Fits(n, c)
  /\ metadata' = [metadata EXCEPT ![b].size = n]
  /\ UNCHANGED << traced, heap, mutex, pc, locals, held, alive >>

\* A new block is allocated, then the old one is freed.
ReallocMove(t, b, n) ==
  /\ At(t, "idle") /\ b \in held
  /\ \E c \in Classes : b \in BlocksOf(c) /\ ~Fits(n, c)
  /\ held' = held \ {b}
  /\ kept' = [kept EXCEPT ![t] = b]
  /\ request' = [request EXCEPT ![t] = n]
  /\ ToCache(t, "look", "lockAllocate")
  /\ UNCHANGED << traced, heap, mutex, metadata, block, alive >>

\* __cver_handle_new, on an object or array that a new-expression made anywhere
\* in the block: sizes are not compared.
HandleNew(t, b, v, n) ==
  /\ At(t, "idle") /\ b \in held
  /\ metadata' = [metadata EXCEPT ![b].table = v, ![b].count = n]
  /\ UNCHANGED << traced, heap, mutex, pc, locals, held, alive >>

\* The destructor of the thread's TSD runs: CommitBack.
Exit(t) ==
  /\ At(t, "idle") /\ t \in traced
  /\ Goto(t, "drain")
  /\ UNCHANGED << traced, heap, mutex, metadata, locals, held, alive >>

-----------------------------------------------------------------------------
(* CverAllocate *)

Lock(t) ==
  /\ \/ At(t, "lockAllocate") /\ Goto(t, "look")
     \/ At(t, "lockDeallocate") /\ Goto(t, "put")
  /\ MayLock
  /\ mutex' = t
  /\ UNCHANGED << traced, heap, metadata, locals, held, alive >>

Look(t) ==
  /\ At(t, "look")
  /\ \E b \in Cached(t, ClassFor(request[t])) :
       block' = [block EXCEPT ![t] = b]
  /\ Goto(t, "take")
  /\ UNCHANGED << traced, heap, mutex, metadata, request, kept, held, alive >>

\* Refill: AllocateBatch tries the free list without a lock first.
LookInVain(t) ==
  /\ At(t, "look") /\ Cached(t, ClassFor(request[t])) = {}
  /\ Goto(t, "pop")
  /\ UNCHANGED << traced, heap, mutex, metadata, locals, held, alive >>

\* Mutant: the batch is read, and stays on the list.
Popped_Not(B) == freeList

Popped(B) == freeList \ {B}

PopBatch(t) ==
  LET c == ClassFor(request[t])
  IN  /\ \/ At(t, "pop")
         \/ At(t, "populate") /\ regionLock[c] = None
      /\ \E B \in FreeBatches(c) :
           /\ freeList' = Popped(B)
           /\ cache' = [cache EXCEPT ![CacheOf(t)] = @ \cup B]
      /\ Goto(t, "look")
      /\ UNCHANGED << traced, carved, regionLock, mutex, metadata, locals, held,
                      alive >>

PopInVain(t) ==
  /\ At(t, "pop") /\ FreeBatches(ClassFor(request[t])) = {}
  /\ Goto(t, "populate")
  /\ UNCHANGED << traced, heap, mutex, metadata, locals, held, alive >>

\* PopulateFreeList, under the mutex of the region: "Out of memory. Dying."
Populate(t) ==
  LET c == ClassFor(request[t])
  IN  /\ At(t, "populate") /\ regionLock[c] = None /\ FreeBatches(c) = {}
      /\ IF carved[c] = Len(Region[c])
           THEN alive' = FALSE /\ UNCHANGED << pc, regionLock >>
           ELSE /\ regionLock' = [regionLock EXCEPT ![c] = t]
                /\ Goto(t, "carve")
                /\ UNCHANGED alive
      /\ UNCHANGED << traced, cache, freeList, carved, mutex, metadata, locals,
                      held >>

MoreMapped(c) ==
  /\ carved[c] % BatchesPerMap # BatchesPerMap - 1
  /\ carved[c] + 1 < Len(Region[c])

\* The batches of the new mapping are pushed, all but the last.
Carve(t) ==
  LET c == ClassFor(request[t])
      B == Region[c][carved[c] + 1]
  IN  /\ At(t, "carve")
      /\ carved' = [carved EXCEPT ![c] = @ + 1]
      /\ IF MoreMapped(c)
           THEN /\ freeList' = freeList \cup {B}
                /\ UNCHANGED << cache, regionLock, pc >>
           ELSE /\ cache' = [cache EXCEPT ![CacheOf(t)] = @ \cup B]
                /\ regionLock' = [regionLock EXCEPT ![c] = None]
                /\ Goto(t, "look")
                /\ UNCHANGED freeList
      /\ UNCHANGED << traced, mutex, metadata, locals, held, alive >>

Take(t) ==
  /\ At(t, "take")
  /\ cache' = [cache EXCEPT ![CacheOf(t)] = @ \ {block[t]}]
  /\ mutex' = Unlocked(t)
  /\ Goto(t, "fill")
  /\ UNCHANGED << traced, freeList, carved, regionLock, metadata, locals, held,
                  alive >>

\* Mutant: realloc frees the new block.
ToFree_New(t) == block[t]

Fresh(b, n) == [size |-> n, table |-> NoTable, count |-> 0]
ToFree(t) == kept[t]

\* Malloc returns; realloc goes on to free the old block.
Fill(t) ==
  LET b == block[t]
  IN  /\ At(t, "fill")
      /\ metadata' = [metadata EXCEPT ![b] = Fresh(b, request[t])]
      /\ request' = [request EXCEPT ![t] = 0]
      /\ IF kept[t] = None
           THEN /\ held' = held \cup {b}
                /\ block' = [block EXCEPT ![t] = None]
                /\ Goto(t, "idle")
                /\ UNCHANGED kept
           ELSE /\ block' = [block EXCEPT ![t] = ToFree(t)]
                /\ kept' = [kept EXCEPT ![t] = b]
                /\ Goto(t, "clear")
                /\ UNCHANGED held
      /\ UNCHANGED << traced, heap, mutex, alive >>

-----------------------------------------------------------------------------
(* CverDeallocate *)

\* Mutant: only the size is reset.
Cleared_Size(b) == [metadata[b] EXCEPT !.size = 0]

Cleared(b) == Blank

Clear(t) ==
  /\ At(t, "clear")
  /\ metadata' = [metadata EXCEPT ![block[t]] = Cleared(block[t])]
  /\ ToCache(t, "put", "lockDeallocate")
  /\ UNCHANGED << traced, heap, mutex, locals, held, alive >>

\* Mutant: the cache is drained one block too late.
IsFull_Late(t, c) == Cardinality(Cached(t, c)) > 2 * MaxCached[c]

IsFull(t, c) == Cardinality(Cached(t, c)) = 2 * MaxCached[c]

Halves(S, n) == {H \in SUBSET S : Cardinality(H) = n}

\* Half of a full cache goes to the free list first.
Put(t) ==
  LET b == block[t]
      k == CacheOf(t)
  IN  /\ At(t, "put")
      /\ \E c \in Classes :
           /\ b \in BlocksOf(c)
           /\ \/ /\ ~IsFull(t, c)
                 /\ cache' = [cache EXCEPT ![k] = @ \cup {b}]
                 /\ UNCHANGED freeList
              \/ /\ IsFull(t, c)
                 /\ \E H \in Halves(Cached(t, c), MaxCached[c]) :
                      /\ freeList' = freeList \cup {H}
                      /\ cache' = [cache EXCEPT ![k] = (@ \ H) \cup {b}]
      /\ mutex' = Unlocked(t)
      /\ held' = held \cup ({kept[t]} \ {None})
      /\ block' = [block EXCEPT ![t] = None]
      /\ kept' = [kept EXCEPT ![t] = None]
      /\ Goto(t, "idle")
      /\ UNCHANGED << traced, carved, regionLock, metadata, request, alive >>

-----------------------------------------------------------------------------
(* CverThread::Destroy *)

Smaller(m, n) == IF m < n THEN m ELSE n

\* Mutant: the room for two batches is taken for that of one.
DrainCount_Half(t, c) == Smaller(MaxCached[c] \div 2, Cardinality(Cached(t, c)))

DrainCount(t, c) == Smaller(MaxCached[c], Cardinality(Cached(t, c)))

Drain(t) ==
  /\ At(t, "drain")
  /\ \E c \in Classes :
       /\ Cached(t, c) # {}
       /\ \E H \in Halves(Cached(t, c), DrainCount(t, c)) :
            /\ freeList' = freeList \cup {H}
            /\ cache' = [cache EXCEPT ![t] = @ \ H]
  /\ UNCHANGED << traced, carved, regionLock, mutex, metadata, pc, locals, held,
                  alive >>

\* The thread goes on without its CverThread (other TSD destructors follow).
Drained(t) ==
  /\ At(t, "drain") /\ cache[t] = {}
  /\ traced' = traced \ {t}
  /\ Goto(t, "idle")
  /\ UNCHANGED << heap, mutex, metadata, locals, held, alive >>

-----------------------------------------------------------------------------
Step(t) ==
  \/ Lock(t) \/ Look(t) \/ LookInVain(t) \/ PopBatch(t) \/ PopInVain(t)
  \/ Populate(t) \/ Carve(t) \/ Take(t) \/ Fill(t)
  \/ Clear(t) \/ Put(t) \/ Drain(t) \/ Drained(t)

Ask(t) ==
  \/ Exit(t)
  \/ \E n \in Sizes : Malloc(t, n)
  \/ \E b \in held :
       \/ Free(t, b)
       \/ \E n \in Sizes : ReallocInPlace(t, b, n) \/ ReallocMove(t, b, n)
       \/ \E v \in TypeTables, n \in Counts : HandleNew(t, b, v, n)

Dead == ~alive /\ UNCHANGED vars

Next == Dead \/ \E t \in Threads : Ask(t) \/ Step(t)

\* A thread inside the allocator is scheduled eventually.
Spec == Init /\ [][Next]_vars /\ \A t \in Threads : WF_vars(Step(t))

-----------------------------------------------------------------------------
(* Properties *)

Labels ==
  {"idle", "lockAllocate", "look", "pop", "populate", "carve", "take", "fill",
   "clear", "lockDeallocate", "put", "drain"}

\* The places at which a thread uses its cache.
UsesCache(t) == pc[t] \in {"look", "pop", "populate", "carve", "take", "put"}

Records ==
  [size : Sizes \cup {0}, table : TypeTables \cup {NoTable},
   count : Counts \cup {0}]

\* In particular, fallback_mutex is held by exactly the thread that is using
\* the fallback cache.
TypeOK ==
  /\ traced \subseteq WithCverThread
  /\ cache \in [Caches -> SUBSET Blocks]
  /\ freeList \subseteq SUBSET Blocks
  /\ carved \in [Classes -> Nat]
  /\ regionLock \in [Classes -> Threads \cup {None}]
  /\ metadata \in [Blocks -> Records]
  /\ pc \in [Threads -> Labels]
  /\ request \in [Threads -> Sizes \cup {0}]
  /\ block \in [Threads -> Blocks \cup {None}]
  /\ kept \in [Threads -> Blocks \cup {None}]
  /\ held \subseteq Blocks
  /\ alive \in BOOLEAN
  /\ mutex \in Threads \cup {None}
  /\ \A t \in Threads : mutex = t <=> UsesCache(t) /\ t \notin traced

\* The blocks a call under way has in its hands.
InHand(t) ==
  ({kept[t]} \cup (IF pc[t] = "take" THEN {} ELSE {block[t]})) \ {None}

CarvedBlocks ==
  UNION {UNION {Region[c][i] : i \in 1 .. carved[c]} : c \in Classes}

\* Where a block can be: with the program, in the hands of a thread, in a
\* cache, or in a batch on a free list.
Homes(b) ==
  {<< "program" >> : x \in {b} \cap held}
  \cup {<< "thread", t >> : t \in {u \in Threads : b \in InHand(u)}}
  \cup {<< "cache", k >> : k \in {u \in Caches : b \in cache[u]}}
  \cup {<< "batch", B >> : B \in {u \in freeList : b \in u}}

\* However allocations, frees, refills and exits of threads interleave, no
\* block is given out twice and none is lost.
EachBlockInOnePlace ==
  \A b \in Blocks :
    Cardinality(Homes(b)) = IF b \in CarvedBlocks THEN 1 ELSE 0

Heap == INSTANCE ObjectHeap WITH
  owned <- held, record <- [b \in held |-> metadata[b]]

\* The metadata of an object is what its owner made the runtime record, from
\* malloc to free: no other thread's allocation, free or realloc writes it, and
\* realloc answers like malloc and free.
ImplementsHeap == Heap!Spec

\* A block nobody owns has no type table, so a cast of a dangling pointer
\* into it is not checked against the type of an object that is gone.
FreeBlocksUntyped ==
  \A b \in Blocks :
    (\E k \in Caches : b \in cache[k]) \/ (\E B \in freeList : b \in B)
      => metadata[b].table = NoTable

\* A cache never holds more than its array has room for (2 * kMaxNumCached).
CachesFit ==
  \A k \in Caches, c \in Classes :
    Cardinality(cache[k] \cap BlocksOf(c)) <= 2 * MaxCached[c]

\* A thread with a cache of its own never waits forever, whatever the others
\* do, unless memory runs out.
OwnCacheCallsReturn ==
  \A t \in WithCverThread :
    t \in traced /\ pc[t] # "idle" ~> pc[t] = "idle" \/ ~alive
=============================================================================
