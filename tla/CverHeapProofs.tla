--------------------------- MODULE CverHeapProofs ---------------------------
(***************************************************************************)
(* Proofs about CverHeap for every number of threads, size classes and     *)
(* blocks: fallback_mutex protects the fallback cache, a block is in one   *)
(* place, caches fit, free blocks have no type, and the heap the program   *)
(* sees is ObjectHeap.                                                     *)
(***************************************************************************)
EXTENDS CverHeap, FiniteSetTheorems, TLAPS

-----------------------------------------------------------------------------
(* The inductive invariant *)

Allocating ==
  {"lockAllocate", "look", "pop", "populate", "carve", "take", "fill"}
Freeing == {"clear", "lockDeallocate", "put"}

\* The class a thread allocates from.
Asked(t) == ClassFor(request[t])

\* What the locals of a thread are at each point of a call.
LocalsInv ==
  \A t \in Threads :
    /\ pc[t] \in Allocating => request[t] \in Sizes
    /\ pc[t] \in {"take", "fill"} \cup Freeing <=> block[t] # None
    /\ pc[t] \in {"idle", "drain"} => kept[t] = None
    /\ pc[t] = "drain" => t \in traced
    /\ pc[t] \in {"lockAllocate", "lockDeallocate"} => t \notin traced

\* Who carves a region has its mutex, and there is something left to carve.
CarveInv ==
  \A t \in Threads :
    pc[t] = "carve" =>
      regionLock[Asked(t)] = t /\ carved[Asked(t)] < Len(Region[Asked(t)])

CarvedInRegion == \A c \in Classes : carved[c] \in 0 .. Len(Region[c])

-----------------------------------------------------------------------------
(* Size classes *)

LEMMA ClassOfSize ==
  ASSUME NEW n \in Sizes
  PROVE  ClassFor(n) \in Classes /\ Fits(n, ClassFor(n))
<1>1. \E c \in Classes :
        Fits(n, c) /\ \A d \in Classes : Fits(n, d) => Capacity[c] <= Capacity[d]
  BY HeapAssumption
<1> QED
  BY <1>1 DEF ClassFor

LEMMA AskedIsClass ==
  ASSUME LocalsInv, NEW t \in Threads, pc[t] \in Allocating
  PROVE  Asked(t) \in Classes /\ request[t] \in Sizes
BY ClassOfSize DEF LocalsInv, Asked

LEMMA BatchesAreBlocks ==
  ASSUME NEW c \in Classes, NEW i \in 1 .. Len(Region[c])
  PROVE  /\ Region[c][i] \in SUBSET Blocks
         /\ Region[c][i] \in BatchesOf(c)
         /\ Region[c][i] \subseteq BlocksOf(c)
<1>1. Region[c] \in Seq(SUBSET Blocks)
  BY HeapAssumption
<1>2. i \in DOMAIN Region[c]
  BY <1>1
<1> QED
  BY <1>1, <1>2 DEF BatchesOf, BlocksOf

-----------------------------------------------------------------------------
(* Type correctness *)

LEMMA TypeInit == Init => TypeOK /\ LocalsInv /\ CarveInv /\ CarvedInRegion
<1> SUFFICES ASSUME Init PROVE TypeOK /\ LocalsInv /\ CarveInv /\ CarvedInRegion
  OBVIOUS
<1>1. Blank \in Records
  BY DEF Blank, Records
<1>2. TypeOK
  BY <1>1, HeapAssumption DEF Init, TypeOK, Labels, Caches, UsesCache
<1>3. LocalsInv /\ CarveInv
  BY DEF Init, LocalsInv, CarveInv, Allocating, Freeing
<1>4. \A c \in Classes : Len(Region[c]) \in Nat
  BY HeapAssumption
<1>5. CarvedInRegion
  BY <1>4 DEF Init, CarvedInRegion
<1> QED
  BY <1>2, <1>3, <1>5

\* The things a step of a thread relies on.
CallInv == TypeOK /\ LocalsInv /\ CarveInv /\ CarvedInRegion

LEMMA TypeStep == CallInv /\ [Next]_vars => TypeOK' /\ LocalsInv'
<1> SUFFICES ASSUME CallInv, [Next]_vars
             PROVE  TypeOK' /\ LocalsInv'
  OBVIOUS
<1>0. TypeOK /\ LocalsInv /\ None \notin Threads \cup Blocks
      /\ Fallback \notin Threads /\ WithCverThread \subseteq Threads
  BY HeapAssumption DEF CallInv
<1> USE <1>0
<1>1. ASSUME NEW t \in Threads, NEW n \in Sizes, Malloc(t, n)
      PROVE  TypeOK' /\ LocalsInv'
  BY <1>1 DEF Malloc, ToCache, TypeOK, LocalsInv, At, Goto, Labels,
    UsesCache, Allocating, Freeing, Caches, CacheOf, heap, locals
<1>2. ASSUME NEW t \in Threads, NEW b \in held, Free(t, b)
      PROVE  TypeOK' /\ LocalsInv'
  BY <1>2 DEF Free, TypeOK, LocalsInv, At, Goto, Labels,
    UsesCache, Allocating, Freeing, Caches, CacheOf, heap, locals
<1>3. ASSUME NEW t \in Threads, NEW b \in held, NEW n \in Sizes, ReallocInPlace(t, b, n)
      PROVE  TypeOK' /\ LocalsInv'
  BY <1>3 DEF ReallocInPlace, Records, TypeOK, LocalsInv, At, Goto, Labels,
    UsesCache, Allocating, Freeing, Caches, CacheOf, heap, locals
<1>4. ASSUME NEW t \in Threads, NEW b \in held, NEW n \in Sizes, ReallocMove(t, b, n)
      PROVE  TypeOK' /\ LocalsInv'
  BY <1>4 DEF ReallocMove, ToCache, TypeOK, LocalsInv, At, Goto, Labels,
    UsesCache, Allocating, Freeing, Caches, CacheOf, heap, locals
<1>5. ASSUME NEW t \in Threads, NEW b \in held, NEW v \in TypeTables, NEW n \in Counts, HandleNew(t, b, v, n)
      PROVE  TypeOK' /\ LocalsInv'
  BY <1>5 DEF HandleNew, Records, TypeOK, LocalsInv, At, Goto, Labels,
    UsesCache, Allocating, Freeing, Caches, CacheOf, heap, locals
<1>6. ASSUME NEW t \in Threads, Exit(t)
      PROVE  TypeOK' /\ LocalsInv'
  BY <1>6 DEF Exit, TypeOK, LocalsInv, At, Goto, Labels,
    UsesCache, Allocating, Freeing, Caches, CacheOf, heap, locals
<1>7. ASSUME NEW t \in Threads, Lock(t)
      PROVE  TypeOK' /\ LocalsInv'
  <2>1. /\ mutex = None /\ mutex' = t
        /\ \/ pc[t] = "lockAllocate" /\ pc' = [pc EXCEPT ![t] = "look"]
           \/ pc[t] = "lockDeallocate" /\ pc' = [pc EXCEPT ![t] = "put"]
        /\ UNCHANGED << traced, heap, metadata, locals, held, alive >>
    BY <1>7 DEF Lock, MayLock, At, Goto
  <2>2. t \notin traced
    BY <2>1 DEF LocalsInv
  <2> QED
    BY <2>1, <2>2 DEF TypeOK, LocalsInv, Labels, UsesCache, Allocating, Freeing,
      heap, locals
<1>8. ASSUME NEW t \in Threads, Look(t)
      PROVE  TypeOK' /\ LocalsInv'
  BY <1>8 DEF Look, Cached, TypeOK, LocalsInv, At, Goto, Labels,
    UsesCache, Allocating, Freeing, Caches, CacheOf, heap, locals
<1>9. ASSUME NEW t \in Threads, LookInVain(t)
      PROVE  TypeOK' /\ LocalsInv'
  BY <1>9 DEF LookInVain, TypeOK, LocalsInv, At, Goto, Labels,
    UsesCache, Allocating, Freeing, Caches, CacheOf, heap, locals
<1>10. ASSUME NEW t \in Threads, PopBatch(t)
      PROVE  TypeOK' /\ LocalsInv'
  BY <1>10 DEF PopBatch, FreeBatches, Popped, TypeOK, LocalsInv, At, Goto, Labels,
    UsesCache, Allocating, Freeing, Caches, CacheOf, heap, locals
<1>11. ASSUME NEW t \in Threads, PopInVain(t)
      PROVE  TypeOK' /\ LocalsInv'
  BY <1>11 DEF PopInVain, TypeOK, LocalsInv, At, Goto, Labels,
    UsesCache, Allocating, Freeing, Caches, CacheOf, heap, locals
<1>12. ASSUME NEW t \in Threads, Populate(t)
      PROVE  TypeOK' /\ LocalsInv'
  <2>1. Asked(t) \in Classes
    BY <1>12, AskedIsClass DEF Populate, At, Allocating
  <2>2. CASE alive' = FALSE /\ UNCHANGED << pc, regionLock >>
    BY <1>12, <2>2 DEF Populate, TypeOK, LocalsInv, UsesCache, locals
  <2>3. CASE /\ regionLock' = [regionLock EXCEPT ![Asked(t)] = t]
             /\ Goto(t, "carve") /\ UNCHANGED alive
    BY <1>12, <2>1, <2>3 DEF Populate, TypeOK, LocalsInv, At, Goto, Labels,
      UsesCache, Allocating, Freeing, locals
  <2> QED
    BY <1>12, <2>2, <2>3 DEF Populate, Asked
<1>13. ASSUME NEW t \in Threads, Carve(t)
      PROVE  TypeOK' /\ LocalsInv'
  <2> DEFINE c == Asked(t)
             B == Region[c][carved[c] + 1]
  <2>1. c \in Classes /\ carved[c] + 1 \in 1 .. Len(Region[c])
        /\ carved[c] + 1 \in Nat /\ pc[t] = "carve" /\ B \subseteq Blocks
    <3>1. pc[t] = "carve"
      BY <1>13 DEF Carve, At
    <3>2. c \in Classes /\ carved[c] < Len(Region[c])
      BY <3>1, AskedIsClass DEF Allocating, CallInv, CarveInv
    <3>3. carved[c] \in 0 .. Len(Region[c]) /\ Len(Region[c]) \in Nat
      BY <3>2, HeapAssumption DEF CallInv, CarvedInRegion
    <3>4. carved[c] + 1 \in 1 .. Len(Region[c])
      BY <3>2, <3>3
    <3> QED
      BY <3>1, <3>2, <3>3, <3>4, BatchesAreBlocks
  <2>2. /\ carved' = [carved EXCEPT ![c] = @ + 1]
        /\ \/ /\ freeList' = freeList \cup {B}
              /\ UNCHANGED << cache, regionLock, pc >>
           \/ /\ cache' = [cache EXCEPT ![CacheOf(t)] = @ \cup B]
              /\ regionLock' = [regionLock EXCEPT ![c] = None]
              /\ pc' = [pc EXCEPT ![t] = "look"]
              /\ UNCHANGED freeList
        /\ UNCHANGED << traced, mutex, metadata, locals, held, alive >>
    BY <1>13 DEF Carve, Goto, Asked
  <2> HIDE DEF c, B
  <2>3. CASE UNCHANGED << cache, regionLock, pc >>
             /\ freeList' = freeList \cup {B}
    BY <2>1, <2>2, <2>3 DEF TypeOK, LocalsInv, UsesCache, locals
  <2>4. CASE /\ cache' = [cache EXCEPT ![CacheOf(t)] = @ \cup B]
             /\ regionLock' = [regionLock EXCEPT ![c] = None]
             /\ pc' = [pc EXCEPT ![t] = "look"]
             /\ UNCHANGED freeList
    <3>1. cache' \in [Caches -> SUBSET Blocks]
      BY <2>1, <2>4 DEF TypeOK
    <3>2. carved' \in [Classes -> Nat]
      BY <2>1, <2>2 DEF TypeOK
    <3>3. /\ pc' \in [Threads -> Labels]
          /\ \A u \in Threads : (UsesCache(u))' <=> UsesCache(u)
      BY <2>1, <2>4 DEF TypeOK, Labels, UsesCache
    <3>4. TypeOK'
      BY <2>1, <2>2, <2>4, <3>1, <3>2, <3>3 DEF TypeOK, locals
    <3>5. LocalsInv'
      BY <2>1, <2>2, <2>4 DEF TypeOK, LocalsInv, Allocating, Freeing, locals
    <3> QED
      BY <3>4, <3>5
  <2> QED
    BY <2>2, <2>3, <2>4
<1>14. ASSUME NEW t \in Threads, Take(t)
      PROVE  TypeOK' /\ LocalsInv'
  BY <1>14 DEF Take, Unlocked, TypeOK, LocalsInv, At, Goto, Labels,
    UsesCache, Allocating, Freeing, Caches, CacheOf, heap, locals
<1>15. ASSUME NEW t \in Threads, Fill(t)
      PROVE  TypeOK' /\ LocalsInv'
  <2> DEFINE b == block[t]
  <2>1. /\ pc[t] = "fill" /\ b \in Blocks /\ request[t] \in Sizes
        /\ metadata' = [metadata EXCEPT ![b] = Fresh(b, request[t])]
        /\ request' = [request EXCEPT ![t] = 0]
        /\ UNCHANGED << traced, heap, mutex, alive >>
    BY <1>15 DEF Fill, At, LocalsInv, TypeOK, Allocating
  <2>2. Fresh(b, request[t]) \in Records
    BY <2>1 DEF Fresh, Records
  <2>3. CASE kept[t] = None
    <3>1. /\ held' = held \cup {b} /\ block' = [block EXCEPT ![t] = None]
          /\ pc' = [pc EXCEPT ![t] = "idle"] /\ kept' = kept
      BY <1>15, <2>3 DEF Fill, Goto
    <3> QED
      BY <2>1, <2>2, <2>3, <3>1 DEF TypeOK, LocalsInv, UsesCache, Labels,
        Allocating, Freeing, heap
  <2>4. CASE kept[t] # None
    <3>1. /\ held' = held /\ block' = [block EXCEPT ![t] = kept[t]]
          /\ pc' = [pc EXCEPT ![t] = "clear"]
          /\ kept' = [kept EXCEPT ![t] = b]
      BY <1>15, <2>4 DEF Fill, Goto, ToFree
    <3> QED
      BY <2>1, <2>2, <2>4, <3>1 DEF TypeOK, LocalsInv, UsesCache, Labels,
        Allocating, Freeing, heap
  <2> QED
    BY <2>3, <2>4
<1>16. ASSUME NEW t \in Threads, Clear(t)
      PROVE  TypeOK' /\ LocalsInv'
  BY <1>16 DEF Clear, Cleared, Blank, Records, ToCache, TypeOK, LocalsInv, At, Goto, Labels,
    UsesCache, Allocating, Freeing, Caches, CacheOf, heap, locals
<1>17. ASSUME NEW t \in Threads, Put(t)
      PROVE  TypeOK' /\ LocalsInv'
  BY <1>17 DEF Put, Halves, Cached, Unlocked, TypeOK, LocalsInv, At, Goto, Labels,
    UsesCache, Allocating, Freeing, Caches, CacheOf, heap, locals
<1>18. ASSUME NEW t \in Threads, Drain(t)
      PROVE  TypeOK' /\ LocalsInv'
  BY <1>18 DEF Drain, Halves, Cached, TypeOK, LocalsInv, At, Goto, Labels,
    UsesCache, Allocating, Freeing, Caches, CacheOf, heap, locals
<1>19. ASSUME NEW t \in Threads, Drained(t)
      PROVE  TypeOK' /\ LocalsInv'
  BY <1>19 DEF Drained, TypeOK, LocalsInv, At, Goto, Labels,
    UsesCache, Allocating, Freeing, Caches, CacheOf, heap, locals
<1>20. CASE UNCHANGED vars
  BY <1>20 DEF TypeOK, LocalsInv, UsesCache, vars, heap, locals
<1> QED
  BY <1>1, <1>2, <1>3, <1>4, <1>5, <1>6, <1>7, <1>8, <1>9, <1>10, <1>11, <1>12, <1>13, <1>14, <1>15, <1>16, <1>17, <1>18, <1>19, <1>20
  DEF Next, Dead, Ask, Step

LEMMA CarveStep == CallInv /\ [Next]_vars => CarveInv' /\ CarvedInRegion'
<1> SUFFICES ASSUME CallInv, [Next]_vars
             PROVE  CarveInv' /\ CarvedInRegion'
  OBVIOUS
<1>0. TypeOK /\ LocalsInv /\ CarveInv /\ CarvedInRegion
      /\ None \notin Threads
  BY HeapAssumption DEF CallInv
<1>1. ASSUME NEW t \in Threads, Populate(t)
      PROVE  CarveInv' /\ CarvedInRegion'
  <2>1. pc[t] = "populate" /\ Asked(t) \in Classes
        /\ UNCHANGED << carved, request >>
    BY <1>0, <1>1, AskedIsClass DEF Populate, At, Allocating, locals
  <2>2. CarvedInRegion'
    BY <1>0, <2>1 DEF CarvedInRegion
  <2>3. CASE UNCHANGED << pc, regionLock >>
    BY <1>0, <2>1, <2>2, <2>3 DEF CarveInv, Asked
  <2>4. CASE /\ regionLock[Asked(t)] = None
             /\ carved[Asked(t)] # Len(Region[Asked(t)])
             /\ regionLock' = [regionLock EXCEPT ![Asked(t)] = t]
             /\ pc' = [pc EXCEPT ![t] = "carve"]
    <3>1. carved[Asked(t)] < Len(Region[Asked(t)])
      <4>1. carved[Asked(t)] \in 0 .. Len(Region[Asked(t)])
            /\ Len(Region[Asked(t)]) \in Nat
        BY <1>0, <2>1, HeapAssumption DEF CarvedInRegion
      <4> QED
        BY <2>4, <4>1
    <3>2. ASSUME NEW u \in Threads, pc'[u] = "carve"
          PROVE  /\ regionLock'[Asked(u)] = u
                 /\ carved[Asked(u)] < Len(Region[Asked(u)])
      <4>1. CASE u = t
        BY <1>0, <2>1, <2>4, <3>1, <4>1 DEF TypeOK
      <4>2. CASE u # t
        <5>1. pc[u] = "carve"
          BY <1>0, <2>4, <3>2, <4>2 DEF TypeOK
        <5>2. regionLock[Asked(u)] = u /\ carved[Asked(u)] < Len(Region[Asked(u)])
          BY <1>0, <5>1 DEF CarveInv
        <5>3. Asked(u) # Asked(t)
          BY <1>0, <2>4, <5>2
        <5> QED
          BY <1>0, <2>1, <2>4, <5>2, <5>3 DEF TypeOK
      <4> QED
        BY <4>1, <4>2
    <3> QED
      BY <2>1, <2>2, <3>2 DEF CarveInv, Asked
  <2> QED
    BY <1>1, <2>3, <2>4 DEF Populate, Asked, Goto
<1>2. ASSUME NEW t \in Threads, Carve(t)
      PROVE  CarveInv' /\ CarvedInRegion'
  <2> DEFINE c == Asked(t)
  <2>1. pc[t] = "carve" /\ request' = request
        /\ carved' = [carved EXCEPT ![c] = @ + 1]
    BY <1>2 DEF Carve, At, Asked, locals
  <2>2. c \in Classes /\ regionLock[c] = t
    BY <1>0, <2>1, AskedIsClass DEF Allocating, CarveInv
  <2>3. carved[c] \in Nat /\ Len(Region[c]) \in Nat /\ carved[c] < Len(Region[c])
    BY <1>0, <2>1, <2>2, HeapAssumption DEF CarveInv, TypeOK
  <2>4. carved'[c] = carved[c] + 1
        /\ \A d \in Classes \ {c} : carved'[d] = carved[d]
    BY <1>0, <2>1, <2>2 DEF TypeOK
  <2> HIDE DEF c
  <2>5. CarvedInRegion'
    BY <1>0, <2>3, <2>4 DEF CarvedInRegion
  <2>6. ASSUME NEW u \in Threads, u # t, pc'[u] = "carve"
        PROVE  /\ regionLock'[Asked(u)] = u
               /\ carved'[Asked(u)] < Len(Region[Asked(u)])
    <3>1. pc[u] = "carve"
      BY <1>0, <1>2, <2>6 DEF Carve, Goto, TypeOK
    <3>2. regionLock[Asked(u)] = u /\ carved[Asked(u)] < Len(Region[Asked(u)])
          /\ Asked(u) \in Classes
      BY <1>0, <3>1, AskedIsClass DEF Allocating, CarveInv
    <3>3. Asked(u) # c
      BY <2>2, <2>6, <3>2
    <3>4. regionLock' = regionLock
          \/ regionLock' = [regionLock EXCEPT ![c] = None]
      BY <1>2 DEF Carve, Asked, c
    <3> QED
      BY <1>0, <2>2, <2>4, <3>2, <3>3, <3>4 DEF TypeOK
  <2>7. ASSUME pc'[t] = "carve"
        PROVE  regionLock'[c] = t /\ carved'[c] < Len(Region[c])
    <3>1. carved[c] + 1 < Len(Region[c]) /\ regionLock' = regionLock
      BY <1>0, <1>2, <2>7 DEF Carve, MoreMapped, Goto, TypeOK, Asked, c
    <3> QED
      BY <2>2, <2>4, <3>1
  <2>8. \A u \in Threads : (Asked(u))' = Asked(u)
    BY <2>1 DEF Asked
  <2> QED
    BY <2>5, <2>6, <2>7, <2>8 DEF CarveInv, c
<1>3. ASSUME NEW t \in Threads,
             UNCHANGED << regionLock, carved >>,
             pc'[t] # "carve" \/ pc' = pc,
             \A u \in Threads \ {t} : pc'[u] = pc[u] /\ request'[u] = request[u],
             pc[t] = "carve" => request' = request
      PROVE  CarveInv' /\ CarvedInRegion'
  BY <1>0, <1>3 DEF CarveInv, CarvedInRegion, Asked
<1>4. ASSUME NEW t \in Threads, Step(t)
      PROVE  CarveInv' /\ CarvedInRegion'
  <2>1. CASE Populate(t) \/ Carve(t)
    BY <1>1, <1>2, <2>1
  <2>2. CASE Lock(t) \/ Look(t) \/ LookInVain(t) \/ PopBatch(t) \/ PopInVain(t)
    BY <1>0, <1>3, <2>2 DEF Lock, Look, LookInVain, PopBatch, PopInVain, At,
      Goto, TypeOK, heap, locals
  <2>3. CASE Take(t) \/ Fill(t) \/ Clear(t) \/ Put(t)
    BY <1>0, <1>3, <2>3 DEF Take, Fill, Clear, Put, ToCache, At, Goto, TypeOK,
      heap, locals
  <2>4. CASE Drain(t) \/ Drained(t)
    BY <1>0, <1>3, <2>4 DEF Drain, Drained, At, Goto, TypeOK, heap, locals
  <2> QED
    BY <1>4, <2>1, <2>2, <2>3, <2>4 DEF Step
<1>5. ASSUME NEW t \in Threads, Ask(t)
      PROVE  CarveInv' /\ CarvedInRegion'
  BY <1>0, <1>3, <1>5 DEF Ask, Exit, Malloc, Free, ReallocInPlace, ReallocMove,
    HandleNew, ToCache, At, Goto, TypeOK, heap, locals
<1>6. CASE UNCHANGED vars
  BY <1>0, <1>6 DEF CarveInv, CarvedInRegion, Asked, vars, heap, locals
<1> QED
  BY <1>4, <1>5, <1>6 DEF Next, Dead

LEMMA CallStep == CallInv /\ [Next]_vars => CallInv'
BY TypeStep, CarveStep DEF CallInv

LEMMA CallsAreSound == Spec => []CallInv
<1>1. Init => CallInv
  BY TypeInit DEF CallInv
<1> QED
  BY <1>1, CallStep, PTL DEF Spec

\* Every word, set and local keeps its type, and fallback_mutex is held by
\* exactly the thread that uses the fallback cache, for any number of threads,
\* with and without a CverThread.
THEOREM TypeCorrect == Spec => []TypeOK
<1>1. CallInv => TypeOK
  BY DEF CallInv
<1> QED
  BY <1>1, CallsAreSound, PTL

-----------------------------------------------------------------------------
(* Where blocks are *)

\* The two blocks of a call differ, and the one it is about to take is still in
\* its cache.
HandsInv ==
  \A t \in Threads :
    /\ kept[t] # None => kept[t] # block[t]
    /\ pc[t] = "take" => block[t] \in Cached(t, Asked(t))

\* kind and whom tell of each block where it is.
Placed(kind, whom) ==
  \A b \in Blocks :
    /\ kind[b] \in {"program", "thread", "cache", "batch", "region"}
    /\ kind[b] = "thread" => whom[b] \in Threads
    /\ kind[b] = "cache" => whom[b] \in Caches
    /\ kind[b] = "batch" => whom[b] \in freeList
    /\ b \in held <=> kind[b] = "program"
    /\ \A t \in Threads : b \in InHand(t) <=> kind[b] = "thread" /\ whom[b] = t
    /\ \A k \in Caches : b \in cache[k] <=> kind[b] = "cache" /\ whom[b] = k
    /\ \A B \in freeList : b \in B <=> kind[b] = "batch" /\ whom[b] = B
    /\ b \in CarvedBlocks <=> kind[b] # "region"

PlaceInv == \E kind, whom : Placed(kind, whom)

BlockInv == CallInv /\ HandsInv /\ PlaceInv

\* The step takes each block x of M to the place K[x], W[x] and leaves the
\* others where they are.
Moves(M, K, W) ==
  /\ \A x \in M :
       /\ K[x] \in {"program", "thread", "cache", "batch"}
       /\ K[x] = "thread" => W[x] \in Threads
       /\ K[x] = "cache" => W[x] \in Caches
       /\ K[x] = "batch" => W[x] \in freeList'
       /\ x \in CarvedBlocks'
       /\ x \in held' <=> K[x] = "program"
       /\ \A t \in Threads : x \in InHand(t)' <=> K[x] = "thread" /\ W[x] = t
       /\ \A k \in Caches : x \in cache'[k] <=> K[x] = "cache" /\ W[x] = k
       /\ \A B \in freeList' : x \in B <=> K[x] = "batch" /\ W[x] = B
  /\ \A x \in Blocks \ M :
       /\ x \in CarvedBlocks' <=> x \in CarvedBlocks
       /\ x \in held' <=> x \in held
       /\ \A t \in Threads : x \in InHand(t)' <=> x \in InHand(t)
       /\ \A k \in Caches : x \in cache'[k] <=> x \in cache[k]
  /\ \A B \in freeList' : B \in freeList \/ B \subseteq M
  /\ \A B \in freeList : B \in freeList' \/ B \subseteq M

LEMMA MovedBlocks ==
  ASSUME PlaceInv, NEW M \in SUBSET Blocks, NEW K, NEW W, Moves(M, K, W)
  PROVE  PlaceInv'
<1>1. PICK kind, whom : Placed(kind, whom)
  BY DEF PlaceInv
<1> DEFINE kind2 == [x \in Blocks |-> IF x \in M THEN K[x] ELSE kind[x]]
           whom2 == [x \in Blocks |-> IF x \in M THEN W[x] ELSE whom[x]]
<1>2. \A x \in M : kind2[x] = K[x] /\ whom2[x] = W[x]
  OBVIOUS
<1>3. \A x \in Blocks \ M : kind2[x] = kind[x] /\ whom2[x] = whom[x]
  OBVIOUS
<1> HIDE DEF kind2, whom2
<1>4. ASSUME NEW b \in M
      PROVE  /\ kind2[b] \in {"program", "thread", "cache", "batch", "region"}
             /\ kind2[b] = "thread" => whom2[b] \in Threads
             /\ kind2[b] = "cache" => whom2[b] \in Caches
             /\ kind2[b] = "batch" => whom2[b] \in freeList'
             /\ b \in held' <=> kind2[b] = "program"
             /\ \A t \in Threads :
                  b \in InHand(t)' <=> kind2[b] = "thread" /\ whom2[b] = t
             /\ \A k \in Caches :
                  b \in cache'[k] <=> kind2[b] = "cache" /\ whom2[b] = k
             /\ \A B \in freeList' :
                  b \in B <=> kind2[b] = "batch" /\ whom2[b] = B
             /\ b \in CarvedBlocks' <=> kind2[b] # "region"
  BY <1>2, <1>4 DEF Moves
<1>5. ASSUME NEW b \in Blocks \ M
      PROVE  /\ kind2[b] \in {"program", "thread", "cache", "batch", "region"}
             /\ kind2[b] = "thread" => whom2[b] \in Threads
             /\ kind2[b] = "cache" => whom2[b] \in Caches
             /\ kind2[b] = "batch" => whom2[b] \in freeList'
             /\ b \in held' <=> kind2[b] = "program"
             /\ \A t \in Threads :
                  b \in InHand(t)' <=> kind2[b] = "thread" /\ whom2[b] = t
             /\ \A k \in Caches :
                  b \in cache'[k] <=> kind2[b] = "cache" /\ whom2[b] = k
             /\ \A B \in freeList' :
                  b \in B <=> kind2[b] = "batch" /\ whom2[b] = B
             /\ b \in CarvedBlocks' <=> kind2[b] # "region"
  <2>1. kind2[b] = kind[b] /\ whom2[b] = whom[b]
    BY <1>3
  <2>2. kind[b] = "batch" => whom[b] \in freeList'
    BY <1>1 DEF Placed, Moves
  <2>3. ASSUME NEW B \in freeList'
        PROVE  b \in B <=> kind[b] = "batch" /\ whom[b] = B
    <3>1. CASE B \in freeList
      BY <1>1, <3>1 DEF Placed
    <3>2. CASE B \notin freeList
      BY <1>1, <1>5, <2>3, <3>2 DEF Placed, Moves
    <3> QED
      BY <3>1, <3>2
  <2>4. /\ kind[b] \in {"program", "thread", "cache", "batch", "region"}
        /\ kind[b] = "thread" => whom[b] \in Threads
        /\ kind[b] = "cache" => whom[b] \in Caches
        /\ b \in held' <=> kind[b] = "program"
        /\ b \in CarvedBlocks' <=> kind[b] # "region"
    BY <1>1, <1>5 DEF Placed, Moves
  <2>5. \A t \in Threads :
          b \in InHand(t)' <=> kind[b] = "thread" /\ whom[b] = t
    BY <1>1, <1>5 DEF Placed, Moves
  <2>6. \A k \in Caches : b \in cache'[k] <=> kind[b] = "cache" /\ whom[b] = k
    BY <1>1, <1>5 DEF Placed, Moves
  <2> QED
    BY <2>1, <2>2, <2>3, <2>4, <2>5, <2>6
<1>6. PICK f, g : f = kind2 /\ g = whom2
  OBVIOUS
<1>7. Placed(f, g)'
  BY <1>4, <1>5, <1>6 DEF Placed
<1> QED
  BY <1>7 DEF PlaceInv

\* A step that moves no block.
LEMMA UnmovedBlocks ==
  ASSUME PlaceInv, UNCHANGED << held, cache, freeList, carved >>,
         \A t \in Threads : InHand(t)' = InHand(t)
  PROVE  PlaceInv'
<1>1. PICK kind, whom : Placed(kind, whom)
  BY DEF PlaceInv
<1>2. CarvedBlocks' = CarvedBlocks
  BY DEF CarvedBlocks
<1>3. Placed(kind, whom)'
  BY <1>1, <1>2 DEF Placed
<1> QED
  BY <1>3 DEF PlaceInv

\* What other threads have in their hands.
LEMMA OthersHands ==
  ASSUME NEW u \in Threads, kept'[u] = kept[u], block'[u] = block[u],
         pc'[u] = "take" <=> pc[u] = "take"
  PROVE  InHand(u)' = InHand(u)
BY DEF InHand

\* While a thread uses its cache, no other thread does.
LEMMA CacheIsPrivate ==
  ASSUME TypeOK, LocalsInv, NEW t \in Threads, NEW u \in Threads, t # u,
         UsesCache(t), UsesCache(u) \/ pc[u] = "drain"
  PROVE  CacheOf(t) # CacheOf(u)
BY HeapAssumption DEF TypeOK, LocalsInv, CacheOf

\* What is in one place is in no other.
LEMMA Apart ==
  ASSUME PlaceInv, NEW b \in Blocks
  PROVE  /\ b \in held =>
              /\ \A t \in Threads : b \notin InHand(t)
              /\ \A k \in Caches : b \notin cache[k]
              /\ \A B \in freeList : b \notin B
         /\ \A t \in Threads : b \in InHand(t) =>
              /\ \A u \in Threads : b \in InHand(u) => u = t
              /\ \A k \in Caches : b \notin cache[k]
              /\ \A B \in freeList : b \notin B
         /\ \A k \in Caches : b \in cache[k] =>
              /\ \A l \in Caches : b \in cache[l] => l = k
              /\ \A B \in freeList : b \notin B
         /\ \A B \in freeList : b \in B =>
              \A C \in freeList : b \in C => C = B
         /\ b \in CarvedBlocks <=>
              \/ b \in held
              \/ \E t \in Threads : b \in InHand(t)
              \/ \E k \in Caches : b \in cache[k]
              \/ \E B \in freeList : b \in B
<1>1. PICK kind, whom : Placed(kind, whom)
  BY DEF PlaceInv
<1>2. /\ kind[b] \in {"program", "thread", "cache", "batch", "region"}
      /\ kind[b] = "thread" => whom[b] \in Threads
      /\ kind[b] = "cache" => whom[b] \in Caches
      /\ kind[b] = "batch" => whom[b] \in freeList
      /\ b \in held <=> kind[b] = "program"
      /\ \A t \in Threads : b \in InHand(t) <=> kind[b] = "thread" /\ whom[b] = t
      /\ \A k \in Caches : b \in cache[k] <=> kind[b] = "cache" /\ whom[b] = k
      /\ \A B \in freeList : b \in B <=> kind[b] = "batch" /\ whom[b] = B
      /\ b \in CarvedBlocks <=> kind[b] # "region"
  BY <1>1 DEF Placed
<1>3. CASE kind[b] = "program"
  BY <1>2, <1>3
<1>4. CASE kind[b] = "thread"
  BY <1>2, <1>4
<1>5. CASE kind[b] = "cache"
  BY <1>2, <1>5
<1>6. CASE kind[b] = "batch"
  BY <1>2, <1>6
<1>7. CASE kind[b] = "region"
  BY <1>2, <1>7
<1> QED
  BY <1>2, <1>3, <1>4, <1>5, <1>6, <1>7

\* A step of a thread leaves the locals of the others alone.
LEMMA OthersLocals ==
  ASSUME TypeOK, NEW t \in Threads, Ask(t) \/ Step(t),
         NEW u \in Threads, u # t
  PROVE  /\ pc'[u] = pc[u] /\ block'[u] = block[u]
         /\ kept'[u] = kept[u] /\ request'[u] = request[u]
         /\ InHand(u)' = InHand(u)
<1>1. /\ pc'[u] = pc[u] /\ block'[u] = block[u]
      /\ kept'[u] = kept[u] /\ request'[u] = request[u]
  <2>1. CASE Ask(t)
    BY <2>1 DEF Ask, Exit, Malloc, Free, ReallocInPlace, ReallocMove, HandleNew,
      ToCache, Goto, TypeOK, locals
  <2>2. CASE Step(t)
    BY <2>2 DEF Step, Lock, Look, LookInVain, PopBatch, PopInVain, Populate,
      Carve, Take, Fill, Clear, Put, Drain, Drained, ToCache, Goto, TypeOK, locals
  <2> QED
    BY <2>1, <2>2
<1> QED
  BY <1>1, OthersHands

\* A step of a thread leaves the cache another one is using alone.
LEMMA CacheKept ==
  ASSUME TypeOK, LocalsInv, NEW t \in Threads, Ask(t) \/ Step(t),
         NEW u \in Threads, u # t, UsesCache(u)
  PROVE  CacheOf(u)' = CacheOf(u) /\ cache'[CacheOf(u)] = cache[CacheOf(u)]
<1>1. CacheOf(u)' = CacheOf(u)
  <2>1. u \in traced' <=> u \in traced
    BY DEF Ask, Step, Exit, Malloc, Free, ReallocInPlace, ReallocMove, HandleNew,
      Lock, Look, LookInVain, PopBatch, PopInVain, Populate, Carve, Take, Fill,
      Clear, Put, Drain, Drained
  <2> QED
    BY <2>1 DEF CacheOf
<1> SUFFICES cache'[CacheOf(u)] = cache[CacheOf(u)]
  BY <1>1
<1>2. CacheOf(u) \in Caches /\ CacheOf(t) \in Caches
  BY DEF CacheOf, Caches
<1>3. UsesCache(t) \/ pc[t] = "drain" => CacheOf(u) # CacheOf(t)
  BY CacheIsPrivate
<1>4. pc[t] = "drain" => CacheOf(t) = t
  BY DEF LocalsInv, CacheOf
<1>5. CASE Take(t) \/ Put(t)
  BY <1>2, <1>3, <1>5 DEF Take, Put, UsesCache, At, TypeOK
<1>6. CASE PopBatch(t) \/ Carve(t)
  BY <1>2, <1>3, <1>6 DEF PopBatch, Carve, UsesCache, At, TypeOK
<1>7. CASE Drain(t)
  BY <1>2, <1>3, <1>4, <1>7 DEF Drain, At, TypeOK
<1>8. CASE cache' = cache
  BY <1>8
<1> QED
  BY <1>5, <1>6, <1>7, <1>8 DEF Ask, Step, Exit, Malloc, Free,
    ReallocInPlace, ReallocMove, HandleNew, Lock, Look, LookInVain, PopInVain,
    Populate, Fill, Clear, Drained, heap

LEMMA HandsStep ==
  ASSUME BlockInv, [Next]_vars
  PROVE  HandsInv'
<1>0. /\ TypeOK /\ LocalsInv /\ HandsInv /\ PlaceInv
      /\ None \notin Threads \cup Blocks
  BY HeapAssumption DEF BlockInv, CallInv
<1>1. CASE UNCHANGED vars
  BY <1>0, <1>1 DEF HandsInv, Cached, CacheOf, Asked, vars, heap, locals
<1>2. ASSUME NEW t \in Threads, Ask(t) \/ Step(t)
      PROVE  HandsInv'
  <2>1. ASSUME kept'[t] # None PROVE kept'[t] # block'[t]
    <3>1. CASE Look(t)
      <4>1. PICK b \in Cached(t, Asked(t)) : block' = [block EXCEPT ![t] = b]
        BY <3>1 DEF Look, Asked
      <4>2. CacheOf(t) \in Caches /\ b \in cache[CacheOf(t)] /\ b \in Blocks
        BY <1>0, <4>1 DEF CacheOf, Caches, Cached, TypeOK
      <4>3. b \notin InHand(t)
        BY <1>0, <4>2, Apart
      <4>4. kept' = kept /\ block'[t] = b
        BY <1>0, <3>1, <4>1 DEF Look, TypeOK
      <4> QED
        BY <2>1, <4>3, <4>4 DEF InHand
    <3>2. CASE Fill(t)
      BY <1>0, <2>1, <3>2 DEF Fill, ToFree, HandsInv, TypeOK
    <3>3. CASE Put(t)
      BY <1>0, <2>1, <3>3 DEF Put, TypeOK
    <3>4. CASE Ask(t)
      BY <1>0, <2>1, <3>4 DEF Ask, Exit, Malloc, Free, ReallocInPlace,
        ReallocMove, HandleNew, At, HandsInv, LocalsInv, TypeOK, Freeing, locals
    <3>5. CASE UNCHANGED << kept, block >>
      BY <1>0, <2>1, <3>5 DEF HandsInv
    <3> QED
      BY <1>2, <3>1, <3>2, <3>3, <3>4, <3>5 DEF Step, Lock, LookInVain,
        PopBatch, PopInVain, Populate, Carve, Take, Clear, Drain, Drained, locals
  <2>2. ASSUME pc'[t] = "take" PROVE block'[t] \in Cached(t, Asked(t))'
    <3>1. Look(t)
      <4>1. ~Ask(t)
        <5>1. ASSUME Ask(t)
              PROVE  pc[t] = "idle" /\ (pc' = pc \/ \E l \in Labels \ {"take"} :
                       pc' = [pc EXCEPT ![t] = l])
          BY <5>1 DEF Ask, Exit, Malloc, Free, ReallocInPlace, ReallocMove,
            HandleNew, ToCache, At, Goto, Labels, locals
        <5> QED
          BY <1>0, <2>2, <5>1 DEF TypeOK
      <4>2. ~(Lock(t) \/ LookInVain(t) \/ PopBatch(t) \/ PopInVain(t) \/ Take(t))
        BY <1>0, <2>2 DEF Lock, LookInVain, PopBatch, PopInVain, Take, Goto,
          TypeOK
      <4>3. ~(Populate(t) \/ Carve(t) \/ Fill(t))
        BY <1>0, <2>2 DEF Populate, Carve, Fill, At, Goto, TypeOK
      <4>4. ~(Clear(t) \/ Put(t) \/ Drain(t) \/ Drained(t))
        BY <1>0, <2>2 DEF Clear, Put, Drain, Drained, ToCache, At, Goto, TypeOK
      <4> QED
        BY <1>2, <4>1, <4>2, <4>3, <4>4 DEF Step
    <3>2. PICK b \in Cached(t, Asked(t)) : block' = [block EXCEPT ![t] = b]
      BY <3>1 DEF Look, Asked
    <3>3. UNCHANGED << cache, traced, request >>
      BY <3>1 DEF Look, heap
    <3>4. Cached(t, Asked(t))' = Cached(t, Asked(t))
      BY <3>3 DEF Cached, CacheOf, Asked
    <3> QED
      BY <1>0, <3>2, <3>4 DEF TypeOK
  <2>3. ASSUME NEW u \in Threads, u # t, pc[u] = "take"
        PROVE  block[u] \in Cached(u, Asked(u))'
    <3>1. block[u] \in cache[CacheOf(u)] /\ block[u] \in BlocksOf(Asked(u))
      BY <1>0, <2>3 DEF HandsInv, Cached
    <3>2. Asked(u)' = Asked(u)
      BY <1>2, <2>3, <1>0, OthersLocals DEF Asked
    <3>3. CacheOf(u)' = CacheOf(u) /\ cache'[CacheOf(u)] = cache[CacheOf(u)]
      BY <1>0, <1>2, <2>3, CacheKept DEF UsesCache
    <3> QED
      BY <3>1, <3>2, <3>3 DEF Cached
  <2> QED
    BY <1>0, <1>2, <2>1, <2>2, <2>3, OthersLocals DEF HandsInv
<1> QED
  BY <1>1, <1>2 DEF Next, Dead

\* Carving adds a batch of new blocks.
LEMMA CarvedNext ==
  ASSUME TypeOK, CarvedInRegion,
         NEW c \in Classes, carved[c] + 1 \in 1 .. Len(Region[c]),
         carved' = [carved EXCEPT ![c] = @ + 1]
  PROVE  /\ CarvedBlocks' = CarvedBlocks \cup Region[c][carved[c] + 1]
         /\ CarvedBlocks \cap Region[c][carved[c] + 1] = {}
<1> DEFINE n == carved[c] + 1
           B == Region[c][n]
<1>1. carved[c] \in Nat /\ carved'[c] = n
      /\ \A d \in Classes \ {c} : carved'[d] = carved[d]
  BY DEF TypeOK
<1>2. 1 .. n = (1 .. carved[c]) \cup {n}
  BY <1>1
<1>3. CarvedBlocks' =
        UNION {UNION {Region[d][i] : i \in 1 .. carved'[d]} : d \in Classes}
  BY DEF CarvedBlocks
<1>4. \A x : x \in CarvedBlocks <=>
        \E d \in Classes : \E i \in 1 .. carved[d] : x \in Region[d][i]
  BY DEF CarvedBlocks
<1>5. \A x : x \in CarvedBlocks' <=>
        \E d \in Classes : \E i \in 1 .. carved'[d] : x \in Region[d][i]
  BY <1>3
<1>6. CarvedBlocks' = CarvedBlocks \cup B
  <2>1. ASSUME NEW x \in CarvedBlocks' PROVE x \in CarvedBlocks \cup B
    <3>1. PICK d \in Classes : \E i \in 1 .. carved'[d] : x \in Region[d][i]
      BY <1>5, <2>1
    <3>4. PICK i \in 1 .. carved'[d] : x \in Region[d][i]
      BY <3>1
    <3>2. CASE d = c /\ i = n
      BY <3>4, <3>2
    <3>3. CASE d # c \/ i # n
      <4>1. i \in 1 .. carved[d]
        BY <1>1, <1>2, <3>3
      <4> QED
        BY <1>4, <3>4, <4>1
    <3> QED
      BY <3>2, <3>3
  <2>2. ASSUME NEW x \in CarvedBlocks PROVE x \in CarvedBlocks'
    <3>1. PICK d \in Classes : \E i \in 1 .. carved[d] : x \in Region[d][i]
      BY <1>4, <2>2
    <3>2. PICK i \in 1 .. carved[d] : x \in Region[d][i]
      BY <3>1
    <3>3. i \in 1 .. carved'[d]
      BY <1>1, <1>2
    <3> QED
      BY <1>5, <3>2, <3>3
  <2>3. ASSUME NEW x \in B PROVE x \in CarvedBlocks'
    <3>1. n \in 1 .. carved'[c]
      BY <1>1
    <3> QED
      BY <1>5, <2>3, <3>1
  <2> QED
    BY <2>1, <2>2, <2>3
<1>7. CarvedBlocks \cap B = {}
  <2> SUFFICES ASSUME NEW x \in CarvedBlocks, x \in B PROVE FALSE
    OBVIOUS
  <2>1. PICK d \in Classes : \E i \in 1 .. carved[d] : x \in Region[d][i]
    BY <1>4
  <2>2. PICK i \in 1 .. carved[d] : x \in Region[d][i]
    BY <2>1
  <2>3. /\ DOMAIN Region[d] = 1 .. Len(Region[d]) /\ Len(Region[d]) \in Nat
        /\ DOMAIN Region[c] = 1 .. Len(Region[c])
    BY HeapAssumption
  <2>4. i \in DOMAIN Region[d] /\ n \in DOMAIN Region[c]
    BY <2>3 DEF CarvedInRegion
  <2>5. Region[d][i] \cap Region[c][n] # {}
    BY <2>2
  <2>6. d = c /\ i = n
    BY <2>4, <2>5, HeapAssumption
  <2> QED
    BY <1>1, <2>6
<1> QED
  BY <1>6, <1>7

LEMMA PlaceStep ==
  ASSUME BlockInv, [Next]_vars
  PROVE  PlaceInv'
<1>0. /\ TypeOK /\ LocalsInv /\ HandsInv /\ PlaceInv /\ CarveInv
      /\ CarvedInRegion /\ None \notin Threads \cup Blocks
  BY HeapAssumption DEF BlockInv, CallInv
<1> USE <1>0
<1>1. CASE UNCHANGED vars
  <2>1. \A t \in Threads : InHand(t)' = InHand(t)
    BY <1>1 DEF InHand, vars, locals
  <2> QED
    BY <1>1, <2>1, UnmovedBlocks DEF vars, heap
<1>2. SUFFICES ASSUME NEW t \in Threads, Ask(t) \/ Step(t)
               PROVE  PlaceInv'
  BY <1>1 DEF Next, Dead
<1>3. \A u \in Threads \ {t} : InHand(u)' = InHand(u)
  BY <1>2, OthersLocals
<1>4. CacheOf(t) \in Caches
  BY DEF CacheOf, Caches
\* No block moves.
<1>a. ASSUME UNCHANGED << held, cache, freeList, carved >>,
             InHand(t)' = InHand(t)
      PROVE  PlaceInv'
  BY <1>3, <1>a, UnmovedBlocks
<1>b. ASSUME UNCHANGED << held, heap, locals >>,
             pc[t] # "take", pc'[t] # "take"
      PROVE  PlaceInv'
  <2>1. InHand(t)' = InHand(t)
    BY <1>b DEF InHand, locals
  <2> QED
    BY <1>a, <1>b, <2>1 DEF heap
\* The program gives a block back.
<1>c. ASSUME NEW b \in held, held' = held \ {b}, heap' = heap,
             InHand(t)' = InHand(t) \cup {b}
      PROVE  PlaceInv'
  <2> DEFINE K == [x \in {b} |-> "thread"]
             W == [x \in {b} |-> t]
  <2>1. b \in Blocks /\ CarvedBlocks' = CarvedBlocks
    BY <1>c DEF TypeOK, heap, CarvedBlocks
  <2>2. /\ b \in CarvedBlocks /\ b \notin InHand(t)
        /\ \A u \in Threads : b \notin InHand(u)
        /\ \A k \in Caches : b \notin cache[k]
        /\ \A B \in freeList : b \notin B
    BY <1>c, <2>1, Apart
  <2>3. Moves({b}, K, W)
    BY <1>3, <1>c, <2>1, <2>2 DEF Moves, heap
  <2> QED
    BY <2>1, <2>3, MovedBlocks
<1>5. ASSUME NEW n \in Sizes, Malloc(t, n) PROVE PlaceInv'
  <2>1. UNCHANGED << block, kept >> /\ pc[t] # "take" /\ pc'[t] # "take"
    BY <1>5 DEF Malloc, ToCache, At, Goto, TypeOK
  <2>2. InHand(t)' = InHand(t)
    BY <2>1 DEF InHand
  <2> QED
    BY <1>5, <1>a, <2>2 DEF Malloc, heap
<1>6. ASSUME NEW b \in held, Free(t, b) PROVE PlaceInv'
  <2>1. pc[t] = "idle" /\ block[t] = None /\ kept[t] = None
    BY <1>6 DEF Free, At, LocalsInv, Freeing
  <2>2. pc'[t] = "clear" /\ block'[t] = b /\ kept'[t] = None
    BY <1>6, <2>1 DEF Free, Goto, TypeOK
  <2>3. InHand(t)' = InHand(t) \cup {b}
    BY <1>6, <2>1, <2>2 DEF InHand, TypeOK
  <2> QED
    BY <1>6, <1>c, <2>3 DEF Free
<1>7. ASSUME NEW b \in held, NEW n \in Sizes, ReallocMove(t, b, n)
      PROVE  PlaceInv'
  <2>1. pc[t] = "idle" /\ block[t] = None /\ kept[t] = None
    BY <1>7 DEF ReallocMove, At, LocalsInv, Freeing
  <2>2. block'[t] = None /\ kept'[t] = b
    BY <1>7, <2>1 DEF ReallocMove, TypeOK
  <2>3. InHand(t)' = InHand(t) \cup {b}
    BY <1>7, <2>1, <2>2 DEF InHand, TypeOK
  <2> QED
    BY <1>7, <1>c, <2>3 DEF ReallocMove
<1>8. ASSUME Look(t) PROVE PlaceInv'
  <2>1. pc[t] = "look" /\ block[t] = None /\ pc'[t] = "take" /\ kept' = kept
    BY <1>8 DEF Look, At, Goto, LocalsInv, TypeOK, Freeing
  <2>2. InHand(t)' = InHand(t)
    BY <2>1 DEF InHand
  <2> QED
    BY <1>8, <1>a, <2>2 DEF Look, heap
<1>9. ASSUME Exit(t) \/ Lock(t) \/ LookInVain(t) \/ PopInVain(t) \/ Clear(t)
             \/ Drained(t) \/ Populate(t)
      PROVE  PlaceInv'
  <2>1. UNCHANGED << block, kept >> /\ pc[t] # "take" /\ pc'[t] # "take"
    BY <1>9 DEF Exit, Lock, LookInVain, PopInVain, Clear, Drained, Populate,
      ToCache, At, Goto, TypeOK, locals
  <2>2. InHand(t)' = InHand(t)
    BY <2>1 DEF InHand
  <2>3. UNCHANGED << held, cache, freeList, carved >>
    BY <1>9 DEF Exit, Lock, LookInVain, PopInVain, Clear, Drained, Populate, heap
  <2> QED
    BY <1>a, <2>2, <2>3
<1>10. ASSUME NEW b \in held,
              \/ \E n \in Sizes : ReallocInPlace(t, b, n)
              \/ \E v \in TypeTables, n \in Counts : HandleNew(t, b, v, n)
       PROVE  PlaceInv'
  <2>1. UNCHANGED << held, heap, locals, pc >> /\ pc[t] # "take"
    BY <1>10 DEF ReallocInPlace, HandleNew, At
  <2> QED
    BY <1>b, <2>1
<1>11. ASSUME PopBatch(t) PROVE PlaceInv'
  <2> DEFINE k == CacheOf(t)
  <2>1. PICK B \in FreeBatches(ClassFor(request[t])) :
          /\ freeList' = freeList \ {B}
          /\ cache' = [cache EXCEPT ![k] = @ \cup B]
    BY <1>11 DEF PopBatch, Popped
  <2>2. PICK W : W = [x \in B |-> k]
    OBVIOUS
  <2> DEFINE K == [x \in B |-> "cache"]
  <2>3. /\ B \in freeList /\ B \subseteq Blocks
        /\ held' = held /\ CarvedBlocks' = CarvedBlocks
        /\ pc[t] # "take" /\ pc'[t] # "take" /\ UNCHANGED << block, kept >>
    BY <1>11 DEF PopBatch, FreeBatches, TypeOK, CarvedBlocks, At, Goto, locals
  <2>4. InHand(t)' = InHand(t)
    BY <2>3 DEF InHand
  <2>5. \A x \in B :
          /\ x \in CarvedBlocks /\ x \notin held
          /\ \A u \in Threads : x \notin InHand(u)
          /\ \A l \in Caches : x \notin cache[l]
          /\ \A C \in freeList : x \in C => C = B
    BY <2>3, Apart
  <2>6. /\ cache'[k] = cache[k] \cup B
        /\ \A l \in Caches \ {k} : cache'[l] = cache[l]
    BY <1>4, <2>1 DEF TypeOK
  <2> HIDE DEF k
  <2>7. Moves(B, K, W)
    BY <1>3, <1>4, <2>1, <2>2, <2>3, <2>4, <2>5, <2>6 DEF Moves, k
  <2> QED
    BY <2>3, <2>7, MovedBlocks
<1>12. ASSUME Take(t) PROVE PlaceInv'
  <2> DEFINE k == CacheOf(t)
  <2>1. PICK b : b = block[t]
    OBVIOUS
  <2>2. pc[t] = "take" /\ b \in cache[k] /\ b \in Blocks /\ b # None
    BY <1>4, <1>12, <2>1 DEF Take, At, HandsInv, Cached, TypeOK
  <2>3. /\ cache' = [cache EXCEPT ![k] = @ \ {b}]
        /\ UNCHANGED << held, freeList, block, kept >>
        /\ CarvedBlocks' = CarvedBlocks /\ pc'[t] = "fill"
    BY <1>12, <2>1 DEF Take, Goto, TypeOK, locals, CarvedBlocks
  <2>4. InHand(t)' = InHand(t) \cup {b}
    BY <2>1, <2>2, <2>3 DEF InHand
  <2> DEFINE K == [x \in {b} |-> "thread"]
             W == [x \in {b} |-> t]
  <2>5. /\ b \in CarvedBlocks /\ b \notin held
        /\ \A u \in Threads : b \notin InHand(u)
        /\ \A l \in Caches : b \in cache[l] => l = k
        /\ \A C \in freeList : b \notin C
    BY <1>4, <2>2, Apart
  <2>6. /\ cache'[k] = cache[k] \ {b}
        /\ \A l \in Caches \ {k} : cache'[l] = cache[l]
    BY <1>4, <2>3 DEF TypeOK
  <2> HIDE DEF k
  <2>7. Moves({b}, K, W)
    BY <1>3, <1>4, <2>2, <2>3, <2>4, <2>5, <2>6 DEF Moves
  <2> QED
    BY <2>2, <2>7, MovedBlocks
<1>13. ASSUME Fill(t) PROVE PlaceInv'
  <2>1. PICK b : b = block[t]
    OBVIOUS
  <2>2. pc[t] = "fill" /\ b \in Blocks /\ b # None /\ heap' = heap
    BY <1>13, <2>1 DEF Fill, At, LocalsInv, TypeOK
  <2>3. CarvedBlocks' = CarvedBlocks
    BY <2>2 DEF heap, CarvedBlocks
  <2>4. CASE kept[t] = None
    <3>1. /\ held' = held \cup {b} /\ block'[t] = None /\ kept'[t] = None
      BY <1>13, <2>1, <2>4 DEF Fill, TypeOK
    <3>2. InHand(t) = {b} /\ InHand(t)' = {}
      BY <2>1, <2>2, <2>4, <3>1 DEF InHand
    <3> DEFINE K == [x \in {b} |-> "program"]
               W == [x \in {b} |-> t]
    <3>3. /\ b \in CarvedBlocks
          /\ \A u \in Threads : b \in InHand(u) => u = t
          /\ \A k \in Caches : b \notin cache[k]
          /\ \A B \in freeList : b \notin B
      BY <2>2, <3>2, Apart
    <3>4. Moves({b}, K, W)
      BY <1>3, <2>2, <2>3, <3>1, <3>2, <3>3 DEF Moves, heap
    <3> QED
      BY <2>2, <3>4, MovedBlocks
  <2>5. CASE kept[t] # None
    <3>1. /\ held' = held /\ block'[t] = kept[t] /\ kept'[t] = b
          /\ pc'[t] = "clear"
      BY <1>13, <2>1, <2>5 DEF Fill, ToFree, Goto, TypeOK
    <3>2. InHand(t)' = InHand(t)
      BY <2>1, <2>2, <3>1 DEF InHand
    <3> QED
      BY <1>a, <2>2, <3>1, <3>2 DEF heap
  <2> QED
    BY <2>4, <2>5
<1>14. ASSUME Carve(t) PROVE PlaceInv'
  <2>1. PICK c : c = Asked(t)
    OBVIOUS
  <2>2. pc[t] = "carve" /\ c \in Classes /\ carved[c] < Len(Region[c])
    BY <1>14, <2>1, AskedIsClass DEF Carve, At, Allocating, CarveInv
  <2>3. carved[c] + 1 \in 1 .. Len(Region[c])
    BY <2>2, HeapAssumption DEF TypeOK, CarvedInRegion
  <2>4. PICK B : B = Region[c][carved[c] + 1]
    OBVIOUS
  <2>5. PICK k : k = CacheOf(t)
    OBVIOUS
  <2>6. B \in SUBSET Blocks /\ k \in Caches
    BY <1>4, <2>2, <2>3, <2>4, <2>5, BatchesAreBlocks
  <2>7. /\ carved' = [carved EXCEPT ![c] = @ + 1]
        /\ \/ /\ freeList' = freeList \cup {B}
              /\ UNCHANGED << cache, pc >>
           \/ /\ cache' = [cache EXCEPT ![k] = @ \cup B]
              /\ pc' = [pc EXCEPT ![t] = "look"]
              /\ UNCHANGED freeList
        /\ UNCHANGED << locals, held >>
    BY <1>14, <2>1, <2>4, <2>5 DEF Carve, Goto, Asked
  <2>8. CarvedBlocks' = CarvedBlocks \cup B /\ CarvedBlocks \cap B = {}
    BY <2>2, <2>3, <2>4, <2>7, CarvedNext
  <2>9. pc'[t] # "take"
    BY <2>2, <2>7 DEF TypeOK
  <2>10. InHand(t)' = InHand(t)
    BY <2>2, <2>7, <2>9 DEF InHand, locals
  <2>11. \A x \in B :
           /\ x \notin held
           /\ \A u \in Threads : x \notin InHand(u)
           /\ \A l \in Caches : x \notin cache[l]
           /\ \A C \in freeList : x \notin C
    BY <2>6, <2>8, Apart
  <2>12. CASE freeList' = freeList \cup {B} /\ cache' = cache
    <3> DEFINE K == [x \in B |-> "batch"]
               W == [x \in B |-> B]
    <3>1. Moves(B, K, W)
      BY <1>3, <2>6, <2>7, <2>8, <2>10, <2>11, <2>12 DEF Moves
    <3> QED
      BY <2>6, <3>1, MovedBlocks
  <2>13. CASE cache' = [cache EXCEPT ![k] = @ \cup B] /\ freeList' = freeList
    <3> DEFINE K == [x \in B |-> "cache"]
               W == [x \in B |-> k]
    <3>1. /\ cache'[k] = cache[k] \cup B
          /\ \A l \in Caches \ {k} : cache'[l] = cache[l]
      BY <2>6, <2>13 DEF TypeOK
    <3>2. Moves(B, K, W)
      BY <1>3, <2>6, <2>7, <2>8, <2>10, <2>11, <2>13, <3>1 DEF Moves
    <3> QED
      BY <2>6, <3>2, MovedBlocks
  <2> QED
    BY <2>7, <2>12, <2>13
<1>15. ASSUME Put(t) PROVE PlaceInv'
  <2>1. PICK b : b = block[t]
    OBVIOUS
  <2>2. PICK k : k = CacheOf(t)
    OBVIOUS
  <2>3. PICK Kept : Kept = {kept[t]} \ {None}
    OBVIOUS
  <2>4. /\ pc[t] = "put" /\ b \in Blocks /\ b # None /\ k \in Caches
        /\ Kept \in SUBSET Blocks /\ b \notin Kept
    BY <1>4, <1>15, <2>1, <2>2, <2>3 DEF Put, At, LocalsInv, HandsInv, TypeOK,
      Freeing
  <2>5. /\ held' = held \cup Kept /\ block'[t] = None /\ kept'[t] = None
        /\ CarvedBlocks' = CarvedBlocks
    BY <1>15, <2>3 DEF Put, TypeOK, CarvedBlocks
  <2>6. InHand(t) = Kept \cup {b} /\ InHand(t)' = {}
    BY <2>1, <2>3, <2>4, <2>5 DEF InHand
  <2>7. \A x \in Kept \cup {b} :
          /\ x \in CarvedBlocks /\ x \notin held
          /\ \A u \in Threads : x \in InHand(u) => u = t
          /\ \A l \in Caches : x \notin cache[l]
          /\ \A C \in freeList : x \notin C
    BY <2>4, <2>6, Apart
  <2>8. PICK H \in SUBSET cache[k] :
          /\ cache' = [cache EXCEPT ![k] = (@ \ H) \cup {b}]
          /\ \/ freeList' = freeList \cup {H}
             \/ H = {} /\ freeList' = freeList
    <3>1. PICK c \in Classes :
           \/ /\ cache' = [cache EXCEPT ![k] = @ \cup {b}]
              /\ freeList' = freeList
           \/ \E H \in Halves(Cached(t, c), MaxCached[c]) :
                /\ freeList' = freeList \cup {H}
                /\ cache' = [cache EXCEPT ![k] = (@ \ H) \cup {b}]
      BY <1>15, <2>1, <2>2 DEF Put
    <3>2. CASE /\ cache' = [cache EXCEPT ![k] = @ \cup {b}]
               /\ freeList' = freeList
      <4>1. cache' = [cache EXCEPT ![k] = (@ \ {}) \cup {b}]
        BY <3>2
      <4> QED
        BY <3>2, <4>1
    <3>3. CASE \E H \in Halves(Cached(t, c), MaxCached[c]) :
                /\ freeList' = freeList \cup {H}
                /\ cache' = [cache EXCEPT ![k] = (@ \ H) \cup {b}]
      BY <2>2, <3>3 DEF Halves, Cached
    <3> QED
      BY <3>1, <3>2, <3>3
  <2>9. /\ cache'[k] = (cache[k] \ H) \cup {b}
        /\ \A l \in Caches \ {k} : cache'[l] = cache[l]
        /\ H \in SUBSET Blocks /\ b \notin H
    BY <2>4, <2>7, <2>8 DEF TypeOK
  <2>10. \A x \in H :
          /\ x \in CarvedBlocks /\ x \notin held
          /\ \A u \in Threads : x \notin InHand(u)
          /\ \A l \in Caches : x \in cache[l] => l = k
          /\ \A C \in freeList : x \notin C
    BY <2>4, <2>8, <2>9, Apart
  <2>11. H \cap Kept = {}
    BY <2>7, <2>8, <2>4
  <2> DEFINE M == H \cup Kept \cup {b}
             K == [x \in M |-> IF x = b THEN "cache"
                               ELSE IF x \in H THEN "batch" ELSE "program"]
             W == [x \in M |-> IF x = b THEN k ELSE H]
  <2>12. /\ \A x \in M : x \in H \/ x \in Kept \/ x = b
         /\ K[b] = "cache" /\ W[b] = k
         /\ \A x \in H : K[x] = "batch" /\ W[x] = H
         /\ \A x \in Kept : K[x] = "program"
    BY <2>4, <2>9, <2>11
  <2>13. M \in SUBSET Blocks /\ H \subseteq M /\ Kept \subseteq M /\ b \in M
    BY <2>4, <2>9
  <2>14. \A x \in M :
           /\ x \in CarvedBlocks'
           /\ \A u \in Threads : x \notin InHand(u)'
    BY <1>3, <2>5, <2>6, <2>7, <2>10
  <2> HIDE DEF K, W
  <2>15. ASSUME NEW x \in H
         PROVE  /\ H \in freeList' /\ x \notin held'
                /\ \A l \in Caches : x \notin cache'[l]
                /\ \A B \in freeList' : x \in B <=> B = H
    BY <2>4, <2>5, <2>8, <2>9, <2>10, <2>11
  <2>16. ASSUME NEW x \in Kept
         PROVE  /\ x \in held'
                /\ \A l \in Caches : x \notin cache'[l]
                /\ \A B \in freeList' : x \notin B
    BY <2>4, <2>5, <2>7, <2>8, <2>9, <2>11
  <2>17. /\ b \notin held'
         /\ \A l \in Caches : b \in cache'[l] <=> l = k
         /\ \A B \in freeList' : b \notin B
    BY <2>4, <2>5, <2>7, <2>8, <2>9
  <2>18. ASSUME NEW x \in Blocks \ M
         PROVE  /\ x \in held' <=> x \in held
                /\ \A u \in Threads : x \in InHand(u)' <=> x \in InHand(u)
                /\ \A l \in Caches : x \in cache'[l] <=> x \in cache[l]
    BY <1>3, <2>4, <2>5, <2>6, <2>9
  <2>19. /\ \A B \in freeList' : B \in freeList \/ B \subseteq M
         /\ \A B \in freeList : B \in freeList'
    BY <2>8
  <2> HIDE DEF M
  <2>20. Moves(M, K, W)
    BY <2>4, <2>5, <2>12, <2>13, <2>14, <2>15, <2>16, <2>17, <2>18, <2>19
    DEF Moves
  <2> QED
    BY <2>13, <2>20, MovedBlocks
<1>16. ASSUME Drain(t) PROVE PlaceInv'
  <2>1. PICK c \in Classes : \E H \in Halves(Cached(t, c), DrainCount(t, c)) :
          /\ freeList' = freeList \cup {H}
          /\ cache' = [cache EXCEPT ![t] = @ \ H]
    BY <1>16 DEF Drain
  <2>2. PICK H \in Halves(Cached(t, c), DrainCount(t, c)) :
          /\ freeList' = freeList \cup {H}
          /\ cache' = [cache EXCEPT ![t] = @ \ H]
    BY <2>1
  <2>3. pc[t] = "drain" /\ t \in traced /\ t \in Caches /\ CacheOf(t) = t
    BY <1>16 DEF Drain, At, LocalsInv, Caches, CacheOf
  <2>4. H \subseteq cache[t] /\ H \subseteq Blocks
    BY <2>2, <2>3 DEF Halves, Cached, TypeOK
  <2>5. /\ cache'[t] = cache[t] \ H
        /\ \A l \in Caches \ {t} : cache'[l] = cache[l]
    BY <2>2, <2>3 DEF TypeOK
  <2>6. UNCHANGED << held, pc, locals >> /\ CarvedBlocks' = CarvedBlocks
    BY <1>16 DEF Drain, CarvedBlocks
  <2>7. InHand(t)' = InHand(t)
    BY <2>6 DEF InHand, locals
  <2>8. \A x \in H :
          /\ x \in CarvedBlocks /\ x \notin held
          /\ \A u \in Threads : x \notin InHand(u)
          /\ \A l \in Caches : x \in cache[l] => l = t
          /\ \A C \in freeList : x \notin C
    BY <2>3, <2>4, Apart
  <2> DEFINE K == [x \in H |-> "batch"]
             W == [x \in H |-> H]
  <2>9. Moves(H, K, W)
    BY <1>3, <2>2, <2>3, <2>4, <2>5, <2>6, <2>7, <2>8 DEF Moves
  <2> QED
    BY <2>4, <2>9, MovedBlocks
<1>17. CASE Ask(t)
  <2>1. CASE Exit(t) \/ \E n \in Sizes : Malloc(t, n)
    BY <1>5, <1>9, <2>1
  <2>2. ASSUME NEW b \in held,
               \/ Free(t, b)
               \/ \E n \in Sizes : ReallocInPlace(t, b, n) \/ ReallocMove(t, b, n)
               \/ \E v \in TypeTables, n \in Counts : HandleNew(t, b, v, n)
        PROVE  PlaceInv'
    BY <1>6, <1>7, <1>10, <2>2
  <2> QED
    BY <1>17, <2>1, <2>2 DEF Ask
<1>18. CASE Step(t)
  BY <1>8, <1>9, <1>11, <1>12, <1>13, <1>14, <1>15, <1>16, <1>18 DEF Step
<1> QED
  BY <1>2, <1>17, <1>18

LEMMA BlockStep == BlockInv /\ [Next]_vars => BlockInv'
BY CallStep, HandsStep, PlaceStep DEF BlockInv

LEMMA BlockInit == Init => BlockInv
<1> SUFFICES ASSUME Init PROVE BlockInv
  OBVIOUS
<1>1. HandsInv
  BY DEF Init, HandsInv
<1>2. CarvedBlocks = {}
  <2>1. \A c \in Classes : 1 .. carved[c] = {}
    BY DEF Init
  <2> QED
    BY <2>1 DEF CarvedBlocks
<1>3. \A t \in Threads : InHand(t) = {}
  BY DEF Init, InHand
<1> DEFINE kind == [b \in Blocks |-> "region"]
           whom == [b \in Blocks |-> None]
<1>4. Placed(kind, whom)
  BY <1>2, <1>3 DEF Placed, Init
<1>5. PlaceInv
  BY <1>4 DEF PlaceInv
<1> QED
  BY <1>1, <1>5, TypeInit DEF BlockInv, CallInv

LEMMA HomesAreOne ==
  ASSUME BlockInv, NEW b \in Blocks
  PROVE  Cardinality(Homes(b)) = IF b \in CarvedBlocks THEN 1 ELSE 0
<1>1. PlaceInv
  BY DEF BlockInv
<1> DEFINE P == {<< "program" >> : x \in {b} \cap held}
           T == {<< "thread", t >> : t \in {u \in Threads : b \in InHand(u)}}
           C == {<< "cache", k >> : k \in {u \in Caches : b \in cache[u]}}
           F == {<< "batch", B >> : B \in {u \in freeList : b \in u}}
<1>2. Homes(b) = P \cup T \cup C \cup F
  BY DEF Homes
<1>3. b \in CarvedBlocks => \E h : Homes(b) = {h}
  <2> SUFFICES ASSUME b \in CarvedBlocks PROVE \E h : Homes(b) = {h}
    OBVIOUS
  <2>1. CASE b \in held
    <3>1. P = {<< "program" >>} /\ T = {} /\ C = {} /\ F = {}
      BY <1>1, <2>1, Apart
    <3> QED
      BY <1>2, <3>1
  <2>2. ASSUME NEW t \in Threads, b \in InHand(t)
        PROVE  \E h : Homes(b) = {h}
    <3>1. P = {} /\ T = {<< "thread", t >>} /\ C = {} /\ F = {}
      BY <1>1, <2>2, Apart
    <3> QED
      BY <1>2, <3>1
  <2>3. ASSUME NEW k \in Caches, b \in cache[k]
        PROVE  \E h : Homes(b) = {h}
    <3>1. P = {} /\ T = {} /\ C = {<< "cache", k >>} /\ F = {}
      BY <1>1, <2>3, Apart
    <3> QED
      BY <1>2, <3>1
  <2>4. ASSUME NEW B \in freeList, b \in B
        PROVE  \E h : Homes(b) = {h}
    <3>1. P = {} /\ T = {} /\ C = {} /\ F = {<< "batch", B >>}
      BY <1>1, <2>4, Apart
    <3> QED
      BY <1>2, <3>1
  <2> QED
    BY <1>1, <2>1, <2>2, <2>3, <2>4, Apart
<1>4. b \notin CarvedBlocks => Homes(b) = {}
  <2> SUFFICES ASSUME b \notin CarvedBlocks PROVE Homes(b) = {}
    OBVIOUS
  <2>1. P = {} /\ T = {} /\ C = {} /\ F = {}
    BY <1>1, Apart
  <2> QED
    BY <1>2, <2>1
<1> QED
  BY <1>3, <1>4, FS_Singleton, FS_EmptySet

\* However allocations, frees, refills, carving and exits of threads interleave,
\* each block is in one place: it is never given out twice and never lost.
THEOREM BlocksAreInOnePlace == Spec => []EachBlockInOnePlace
<1>1. BlockInv => EachBlockInOnePlace
  BY HomesAreOne DEF EachBlockInOnePlace
<1> QED
  BY <1>1, BlockInit, BlockStep, PTL DEF Spec

-----------------------------------------------------------------------------
(* What the metadata says *)

\* A block with a type is the program's or in the hands of a call; a block on its
\* way to a cache has none any more, and realloc's new block none yet.
RecordInv ==
  /\ \A x \in Blocks : metadata[x].table # NoTable =>
       x \in held \/ \E t \in Threads : x \in InHand(t)
  /\ \A t \in Threads :
       pc[t] \in {"lockDeallocate", "put"} => metadata[block[t]].table = NoTable
  /\ \A t \in Threads : pc[t] \in Freeing /\ kept[t] # None =>
       \E n \in Sizes : metadata[kept[t]] = Fresh(kept[t], n)

HeapInv == BlockInv /\ RecordInv

\* A call writes the metadata of a block of its own, the program that of one of
\* its blocks.
LEMMA WrittenRecords ==
  ASSUME BlockInv, NEW t \in Threads, Ask(t) \/ Step(t)
  PROVE  \A x \in Blocks : metadata'[x] = metadata[x]
           \/ (Ask(t) /\ x \in held /\ held' = held /\ UNCHANGED << pc, locals >>)
           \/ (Fill(t) /\ x = block[t]
               /\ metadata'[x] = Fresh(x, request[t]))
           \/ (Clear(t) /\ x = block[t] /\ metadata'[x] = Blank)
<1>0. TypeOK
  BY DEF BlockInv, CallInv
<1>1. CASE Ask(t)
  BY <1>0, <1>1 DEF Ask, Exit, Malloc, Free, ReallocInPlace, ReallocMove,
    HandleNew, TypeOK
<1>2. CASE Fill(t)
  BY <1>0, <1>2 DEF Fill, TypeOK
<1>3. CASE Clear(t)
  BY <1>0, <1>3 DEF Clear, Cleared, TypeOK
<1>4. CASE metadata' = metadata
  BY <1>4
<1> QED
  BY <1>1, <1>2, <1>3, <1>4 DEF Step, Lock, Look, LookInVain, PopBatch,
    PopInVain, Populate, Carve, Take, Put, Drain, Drained

\* Outside of the calls of t, a record changes only if the program writes it.
LEMMA OthersRecords ==
  ASSUME BlockInv, NEW t \in Threads, Ask(t) \/ Step(t),
         NEW u \in Threads, u # t, NEW x \in Blocks, x \in InHand(u)
  PROVE  metadata'[x] = metadata[x]
<1>0. TypeOK /\ LocalsInv /\ PlaceInv /\ None \notin Blocks
  BY HeapAssumption DEF BlockInv, CallInv
<1>1. x \notin held /\ x \notin InHand(t)
  BY <1>0, Apart
<1>2. x = block[t] => ~Fill(t) /\ ~Clear(t)
  BY <1>0, <1>1 DEF InHand, Fill, Clear, At
<1> QED
  BY <1>1, <1>2, WrittenRecords

\* Only deallocation takes a block away from the program and the calls.
LEMMA StillInUse ==
  ASSUME BlockInv, NEW t \in Threads, Ask(t) \/ Step(t),
         NEW x \in Blocks, x \in held \/ \E u \in Threads : x \in InHand(u),
         ~(Put(t) /\ x = block[t])
  PROVE  x \in held' \/ \E u \in Threads : x \in InHand(u)'
<1>0. TypeOK /\ LocalsInv /\ HandsInv /\ None \notin Threads \cup Blocks
  BY HeapAssumption DEF BlockInv, CallInv
<1>1. ASSUME NEW u \in Threads, u # t, x \in InHand(u)
      PROVE  x \in InHand(u)'
  BY <1>0, <1>1, OthersLocals
<1>2. CASE x \in held
  <2>1. CASE Ask(t)
    <3>1. CASE x \in held'
      BY <3>1
    <3>2. CASE x \notin held'
      <4>1. Free(t, x) \/ \E n \in Sizes : ReallocMove(t, x, n)
        <5>1. ~(Exit(t) \/ \E n \in Sizes : Malloc(t, n))
          BY <1>2, <3>2 DEF Exit, Malloc
        <5>2. \A b \in held : Free(t, b) => b = x
          BY <1>2, <3>2 DEF Free
        <5>3. \A b \in held, n \in Sizes : ReallocMove(t, b, n) => b = x
          BY <1>2, <3>2 DEF ReallocMove
        <5>4. \A b \in held, n \in Sizes : ~ReallocInPlace(t, b, n)
          BY <1>2, <3>2 DEF ReallocInPlace
        <5>5. \A b \in held, v \in TypeTables, n \in Counts :
                ~HandleNew(t, b, v, n)
          BY <1>2, <3>2 DEF HandleNew
        <5> QED
          BY <2>1, <5>1, <5>2, <5>3, <5>4, <5>5 DEF Ask
      <4>2. CASE Free(t, x)
        <5>1. block'[t] = x /\ pc'[t] = "clear" /\ x # None
          BY <1>0, <4>2 DEF Free, Goto, TypeOK
        <5> QED
          BY <5>1 DEF InHand
      <4>3. CASE \E n \in Sizes : ReallocMove(t, x, n)
        <5>1. kept'[t] = x /\ x # None
          BY <1>0, <4>3 DEF ReallocMove, TypeOK
        <5> QED
          BY <5>1 DEF InHand
      <4> QED
        BY <4>1, <4>2, <4>3
    <3> QED
      BY <3>1, <3>2
  <2>2. CASE Step(t)
    BY <1>2, <2>2 DEF Step, Lock, Look, LookInVain, PopBatch, PopInVain,
      Populate, Carve, Take, Fill, Clear, Put, Drain, Drained
  <2> QED
    BY <2>1, <2>2
<1>3. CASE x \in InHand(t)
  <2>1. x # None /\ (x = kept[t] \/ (x = block[t] /\ pc[t] # "take"))
    BY <1>3 DEF InHand
  <2>2. CASE Fill(t)
    <3>1. CASE kept[t] = None
      BY <2>1, <2>2, <3>1 DEF Fill
    <3>2. CASE kept[t] # None
      <4>1. block'[t] = kept[t] /\ kept'[t] = block[t] /\ pc'[t] = "clear"
        BY <1>0, <2>2, <3>2 DEF Fill, ToFree, Goto, TypeOK
      <4> QED
        BY <2>1, <4>1 DEF InHand
    <3> QED
      BY <3>1, <3>2
  <2>3. CASE Put(t)
    BY <2>1, <2>3 DEF Put
  <2>4. CASE Look(t)
    <3>1. kept' = kept /\ block[t] = None
      BY <1>0, <2>4 DEF Look, At, LocalsInv, Freeing
    <3> QED
      BY <2>1, <3>1 DEF InHand
  <2>5. CASE Ask(t)
    <3>1. kept[t] = None /\ block[t] = None
      BY <1>0, <2>5 DEF Ask, Exit, Malloc, Free, ReallocInPlace, ReallocMove,
        HandleNew, At, LocalsInv, Freeing
    <3> QED
      BY <2>1, <3>1
  <2>6. CASE UNCHANGED << block, kept >> /\ (pc'[t] = "take" => pc[t] = "take")
    BY <2>1, <2>6 DEF InHand
  <2>7. ASSUME Step(t), ~Fill(t), ~Put(t), ~Look(t)
        PROVE  UNCHANGED << block, kept >> /\ (pc'[t] = "take" => pc[t] = "take")
    <3>1. UNCHANGED << block, kept >>
      BY <2>7 DEF Step, Lock, LookInVain, PopBatch, PopInVain, Populate, Carve,
        Take, Clear, Drain, Drained, locals
    <3>2. pc'[t] = pc[t] \/ pc'[t] # "take"
      BY <1>0, <2>7 DEF Step, Lock, LookInVain, PopBatch, PopInVain, Populate,
        Carve, Take, Clear, Drain, Drained, Goto, ToCache, TypeOK
    <3> QED
      BY <3>1, <3>2
  <2> QED
    BY <2>2, <2>3, <2>4, <2>5, <2>6, <2>7
<1> QED
  BY <1>1, <1>2, <1>3

\* How a thread comes to deallocate.
LEMMA PutOff ==
  ASSUME TypeOK, NEW t \in Threads, Ask(t) \/ Step(t),
         pc'[t] \in {"lockDeallocate", "put"}
  PROVE  Lock(t) \/ Clear(t)
<1>1. ~Ask(t)
  <2>1. ASSUME Ask(t)
        PROVE  pc[t] = "idle" /\ (pc' = pc \/ \E l \in Labels \ {"lockDeallocate", "put"} :
                 pc' = [pc EXCEPT ![t] = l])
    BY <2>1 DEF Ask, Exit, Malloc, Free, ReallocInPlace, ReallocMove,
      HandleNew, ToCache, At, Goto, Labels, locals
  <2> QED
    BY <2>1 DEF TypeOK
<1>2. ~(Look(t) \/ LookInVain(t) \/ PopBatch(t) \/ PopInVain(t) \/ Take(t))
  BY DEF Look, LookInVain, PopBatch, PopInVain, Take, Goto, TypeOK
<1>3. ~(Populate(t) \/ Carve(t) \/ Fill(t))
  BY DEF Populate, Carve, Fill, At, Goto, TypeOK
<1>4. ~(Put(t) \/ Drain(t) \/ Drained(t))
  BY DEF Put, Drain, Drained, At, Goto, TypeOK
<1> QED
  BY <1>1, <1>2, <1>3, <1>4 DEF Step

LEMMA FreeingOn ==
  ASSUME BlockInv, NEW t \in Threads, Ask(t) \/ Step(t), ~Fill(t),
         pc'[t] \in Freeing, kept'[t] # None
  PROVE  /\ pc[t] \in Freeing /\ UNCHANGED << kept, block >>
         /\ Lock(t) \/ Clear(t)
<1>0. TypeOK /\ LocalsInv /\ HandsInv
  BY DEF BlockInv, CallInv
<1>1. ~Ask(t)
  <2>1. ASSUME Ask(t)
        PROVE  kept[t] = None
               /\ (kept' = kept \/ (pc'[t] \in {"look", "lockAllocate"}))
    BY <1>0, <2>1 DEF Ask, Exit, Malloc, Free, ReallocInPlace, ReallocMove,
      HandleNew, ToCache, At, Goto, LocalsInv, TypeOK, locals
  <2> QED
    BY <2>1 DEF Freeing
<1>2. ~(Look(t) \/ LookInVain(t) \/ PopBatch(t) \/ PopInVain(t) \/ Take(t))
  BY <1>0 DEF Look, LookInVain, PopBatch, PopInVain, Take, Goto, TypeOK, Freeing
<1>3. ~(Populate(t) \/ Carve(t))
  BY <1>0 DEF Populate, Carve, At, Goto, TypeOK, Freeing
<1>4. ~(Put(t) \/ Drain(t) \/ Drained(t))
  BY <1>0 DEF Put, Drain, Drained, At, Goto, TypeOK, Freeing
<1>5. Lock(t) \/ Clear(t)
  BY <1>1, <1>2, <1>3, <1>4 DEF Step
<1>6. CASE Lock(t)
  BY <1>0, <1>6 DEF Lock, At, Goto, TypeOK, Freeing, locals
<1>7. CASE Clear(t)
  BY <1>0, <1>7 DEF Clear, At, Freeing, locals
<1> QED
  BY <1>5, <1>6, <1>7

LEMMA RecordStep ==
  ASSUME HeapInv, [Next]_vars
  PROVE  RecordInv'
<1>0. /\ BlockInv /\ TypeOK /\ LocalsInv /\ HandsInv /\ PlaceInv /\ RecordInv
      /\ None \notin Threads \cup Blocks
  BY HeapAssumption DEF HeapInv, BlockInv, CallInv
<1>1. CASE UNCHANGED vars
  BY <1>0, <1>1 DEF RecordInv, InHand, vars, locals
<1>2. SUFFICES ASSUME NEW t \in Threads, Ask(t) \/ Step(t)
               PROVE  RecordInv'
  BY <1>1 DEF Next, Dead
<1>3. \A u \in Threads \ {t} :
        /\ pc'[u] = pc[u] /\ block'[u] = block[u] /\ kept'[u] = kept[u]
        /\ InHand(u)' = InHand(u)
  BY <1>0, <1>2, OthersLocals
<1>4. ASSUME NEW x \in Blocks, metadata'[x].table # NoTable
      PROVE  x \in held' \/ \E u \in Threads : x \in InHand(u)'
  <2>1. CASE metadata'[x] = metadata[x]
    <3>1. x \in held \/ \E u \in Threads : x \in InHand(u)
      BY <1>0, <1>4, <2>1 DEF RecordInv
    <3>2. ~(Put(t) /\ x = block[t])
      BY <1>0, <1>4, <2>1 DEF RecordInv, Put, At
    <3> QED
      BY <1>0, <1>2, <3>1, <3>2, StillInUse
  <2>2. CASE x \in held /\ held' = held
    BY <2>2
  <2>3. \/ metadata'[x] = metadata[x]
        \/ x \in held /\ held' = held
        \/ metadata'[x] = Fresh(x, request[t])
        \/ metadata'[x] = Blank
    BY <1>0, <1>2, WrittenRecords
  <2>4. Fresh(x, request[t]).table = NoTable /\ Blank.table = NoTable
    BY DEF Fresh, Blank
  <2>5. metadata'[x] # Fresh(x, request[t]) /\ metadata'[x] # Blank
    BY <1>4, <2>4
  <2> QED
    BY <2>1, <2>2, <2>3, <2>5
<1>5. ASSUME NEW u \in Threads, pc'[u] \in {"lockDeallocate", "put"}
      PROVE  metadata'[block'[u]].table = NoTable
  <2>1. CASE u # t
    <3>1. pc[u] \in {"lockDeallocate", "put"} /\ block'[u] = block[u]
      BY <1>3, <1>5, <2>1
    <3>2. block[u] \in InHand(u) /\ block[u] \in Blocks
      BY <1>0, <3>1 DEF InHand, LocalsInv, TypeOK, Freeing
    <3>3. metadata'[block[u]] = metadata[block[u]]
      BY <1>0, <1>2, <2>1, <3>2, OthersRecords
    <3> QED
      BY <1>0, <3>1, <3>3 DEF RecordInv
  <2>2. CASE u = t
    <3>1. Lock(t) \/ Clear(t)
      BY <1>0, <1>2, <1>5, <2>2, PutOff
    <3>2. CASE Lock(t)
      <4>1. pc[t] = "lockDeallocate" /\ UNCHANGED << metadata, block >>
        BY <1>0, <1>5, <2>2, <3>2 DEF Lock, At, Goto, TypeOK, locals
      <4> QED
        BY <1>0, <2>2, <4>1 DEF RecordInv
    <3>3. CASE Clear(t)
      <4>1. block'[t] = block[t] /\ block[t] \in Blocks
            /\ metadata' = [metadata EXCEPT ![block[t]] = Blank]
        BY <1>0, <3>3 DEF Clear, Cleared, At, LocalsInv, Freeing, TypeOK, locals
      <4> QED
        BY <1>0, <2>2, <4>1 DEF TypeOK, Blank
    <3> QED
      BY <3>1, <3>2, <3>3
  <2> QED
    BY <2>1, <2>2
<1>6. ASSUME NEW u \in Threads, pc'[u] \in Freeing, kept'[u] # None
      PROVE  \E n \in Sizes : metadata'[kept'[u]] = Fresh(kept'[u], n)
  <2>1. CASE u # t
    <3>1. pc[u] \in Freeing /\ kept[u] # None /\ kept'[u] = kept[u]
      BY <1>3, <1>6, <2>1
    <3>2. kept[u] \in InHand(u) /\ kept[u] \in Blocks
      BY <1>0, <3>1 DEF InHand, TypeOK
    <3>3. metadata'[kept[u]] = metadata[kept[u]]
      BY <1>0, <1>2, <2>1, <3>2, OthersRecords
    <3> QED
      BY <1>0, <3>1, <3>3 DEF RecordInv
  <2>2. CASE u = t /\ Fill(t)
    <3>1. kept[t] # None
      BY <1>0, <1>6, <2>2 DEF Fill, TypeOK
    <3>2. /\ request[t] \in Sizes /\ block[t] \in Blocks
          /\ kept'[t] = block[t]
          /\ metadata'[block[t]] = Fresh(block[t], request[t])
      BY <1>0, <2>2, <3>1 DEF Fill, At, LocalsInv, Allocating, TypeOK
    <3> QED
      BY <2>2, <3>2
  <2>3. CASE u = t /\ ~Fill(t)
    <3>1. pc[t] \in Freeing /\ UNCHANGED << kept, block >>
          /\ (Lock(t) \/ Clear(t))
      BY <1>0, <1>2, <1>6, <2>3, FreeingOn
    <3>2. kept[t] # None /\ kept[t] \in Blocks /\ kept[t] # block[t]
      BY <1>0, <1>6, <2>3, <3>1 DEF HandsInv, TypeOK
    <3>3. metadata'[kept[t]] = metadata[kept[t]]
      BY <1>0, <3>1, <3>2 DEF Lock, Clear, TypeOK
    <3> QED
      BY <1>0, <2>3, <3>1, <3>2, <3>3 DEF RecordInv
  <2> QED
    BY <2>1, <2>2, <2>3
<1> QED
  BY <1>4, <1>5, <1>6 DEF RecordInv, Fresh

LEMMA RecordInit == Init => RecordInv
<1> SUFFICES ASSUME Init PROVE RecordInv
  OBVIOUS
<1>1. \A x \in Blocks : metadata[x].table = NoTable
  BY DEF Init, Blank
<1> QED
  BY <1>1 DEF Init, RecordInv, Freeing

LEMMA HeapIsSound == Spec => []HeapInv
<1>1. Init => HeapInv
  BY BlockInit, RecordInit DEF HeapInv
<1>2. HeapInv /\ [Next]_vars => HeapInv'
  BY BlockStep, RecordStep DEF HeapInv
<1> QED
  BY <1>1, <1>2, PTL DEF Spec

\* A free block has no type table, however calls interleave: a dangling pointer
\* into it is not checked against the type of an object that is gone.
THEOREM FreeIsUntyped == Spec => []FreeBlocksUntyped
<1>1. ASSUME HeapInv PROVE FreeBlocksUntyped
  <2> SUFFICES ASSUME NEW b \in Blocks, metadata[b].table # NoTable
               PROVE  /\ \A k \in Caches : b \notin cache[k]
                      /\ \A B \in freeList : b \notin B
    BY DEF FreeBlocksUntyped
  <2>1. b \in held \/ \E t \in Threads : b \in InHand(t)
    BY <1>1 DEF HeapInv, RecordInv
  <2> QED
    BY <1>1, <2>1, Apart DEF HeapInv, BlockInv
<1> QED
  BY <1>1, HeapIsSound, PTL

-----------------------------------------------------------------------------
(* Refinement: the heap the program sees *)

\* A step that leaves the program's blocks and their records alone.
LEMMA RecordsKept ==
  ASSUME held' = held, \A x \in held : metadata'[x] = metadata[x]
  PROVE  UNCHANGED Heap!vars
BY DEF Heap!vars

\* A block with a record of malloc's becomes the program's.
LEMMA GivenOut ==
  ASSUME NEW b \in Blocks, b \notin held, NEW n \in Sizes,
         held' = held \cup {b}, metadata'[b] = Fresh(b, n),
         \A x \in held : metadata'[x] = metadata[x]
  PROVE  Heap!Next
<1>1. Heap!Allocate(b, n)
  BY DEF Heap!Allocate, Heap!With, Fresh
<1> QED
  BY <1>1 DEF Heap!Next

\* The program gives a block back.
LEMMA GivenBack ==
  ASSUME NEW b \in Blocks, b \in held, held' = held \ {b}, metadata' = metadata
  PROVE  Heap!Next
<1>1. Heap!Release(b)
  BY DEF Heap!Release, Heap!Without
<1> QED
  BY <1>1 DEF Heap!Next

LEMMA AskRefines ==
  ASSUME HeapInv, NEW t \in Threads, Ask(t)
  PROVE  [Heap!Next]_(Heap!vars)
<1>0. TypeOK
  BY DEF HeapInv, BlockInv, CallInv
<1>1. CASE Exit(t) \/ \E n \in Sizes : Malloc(t, n)
  <2>1. UNCHANGED << held, metadata >>
    BY <1>1 DEF Exit, Malloc
  <2> QED
    BY <2>1, RecordsKept
<1>2. ASSUME NEW b \in held, Free(t, b) \/ \E n \in Sizes : ReallocMove(t, b, n)
      PROVE  [Heap!Next]_(Heap!vars)
  <2>1. b \in Blocks /\ held' = held \ {b} /\ metadata' = metadata
    BY <1>0, <1>2 DEF Free, ReallocMove, TypeOK
  <2> QED
    BY <2>1, GivenBack
<1>3. ASSUME NEW b \in held, NEW n \in Sizes, ReallocInPlace(t, b, n)
      PROVE  [Heap!Next]_(Heap!vars)
  <2>1. /\ b \in Blocks /\ held' = held
        /\ metadata'[b] = [metadata[b] EXCEPT !.size = n]
        /\ \A x \in held \ {b} : metadata'[x] = metadata[x]
    BY <1>0, <1>3 DEF ReallocInPlace, TypeOK
  <2>2. Heap!Resize(b, n)
    BY <2>1 DEF Heap!Resize, Heap!With
  <2> QED
    BY <2>1, <2>2 DEF Heap!Next
<1>4. ASSUME NEW b \in held, NEW v \in TypeTables, NEW n \in Counts,
             HandleNew(t, b, v, n)
      PROVE  [Heap!Next]_(Heap!vars)
  <2>1. /\ b \in Blocks /\ held' = held
        /\ metadata'[b] = [metadata[b] EXCEPT !.table = v, !.count = n]
        /\ \A x \in held \ {b} : metadata'[x] = metadata[x]
    BY <1>0, <1>4 DEF HandleNew, TypeOK
  <2>2. Heap!Describe(b, v, n)
    BY <2>1 DEF Heap!Describe, Heap!With
  <2> QED
    BY <2>1, <2>2 DEF Heap!Next
<1> QED
  BY <1>1, <1>2, <1>3, <1>4 DEF Ask

LEMMA StepRefines ==
  ASSUME HeapInv, NEW t \in Threads, Step(t)
  PROVE  [Heap!Next]_(Heap!vars)
<1>0. /\ BlockInv /\ TypeOK /\ LocalsInv /\ HandsInv /\ PlaceInv /\ RecordInv
      /\ None \notin Threads \cup Blocks
  BY HeapAssumption DEF HeapInv, BlockInv, CallInv
<1>1. \A x \in held : x \in Blocks /\ x \notin InHand(t)
  BY <1>0, Apart DEF TypeOK
<1>2. CASE Fill(t)
  <2>1. PICK b : b = block[t]
    OBVIOUS
  <2>2. b \in InHand(t) /\ b \in Blocks /\ request[t] \in Sizes
    BY <1>0, <1>2, <2>1 DEF Fill, At, InHand, LocalsInv, Allocating, TypeOK
  <2>3. /\ metadata'[b] = Fresh(b, request[t]) /\ b \notin held
        /\ \A x \in held : metadata'[x] = metadata[x]
    BY <1>0, <1>1, <1>2, <2>1, <2>2 DEF Fill, TypeOK
  <2>4. CASE kept[t] = None
    <3>1. held' = held \cup {b}
      BY <1>2, <2>1, <2>4 DEF Fill
    <3> QED
      BY <2>2, <2>3, <3>1, GivenOut
  <2>5. CASE kept[t] # None
    <3>1. held' = held
      BY <1>2, <2>5 DEF Fill
    <3> QED
      BY <2>3, <3>1, RecordsKept
  <2> QED
    BY <2>4, <2>5
<1>3. CASE Clear(t)
  <2>1. block[t] \in InHand(t) /\ block[t] \in Blocks
    BY <1>0, <1>3 DEF Clear, At, InHand, LocalsInv, Freeing, TypeOK
  <2>2. held' = held /\ \A x \in held : metadata'[x] = metadata[x]
    BY <1>0, <1>1, <1>3, <2>1 DEF Clear, TypeOK
  <2> QED
    BY <2>2, RecordsKept
<1>4. CASE Put(t)
  <2>1. PICK b : b = kept[t]
    OBVIOUS
  <2>2. metadata' = metadata /\ held' = held \cup ({b} \ {None})
    BY <1>4, <2>1 DEF Put
  <2>3. CASE b = None
    BY <2>2, <2>3, RecordsKept
  <2>4. CASE b # None
    <3>1. b \in Blocks /\ b \in InHand(t) /\ pc[t] \in Freeing
      BY <1>0, <1>4, <2>1, <2>4 DEF Put, At, InHand, Freeing, TypeOK
    <3>2. PICK n \in Sizes : metadata[b] = Fresh(b, n)
      BY <1>0, <2>1, <2>4, <3>1 DEF RecordInv
    <3> QED
      BY <1>1, <2>2, <2>4, <3>1, <3>2, GivenOut
  <2> QED
    BY <2>3, <2>4
<1>5. CASE UNCHANGED << held, metadata >>
  BY <1>5, RecordsKept
<1> QED
  BY <1>2, <1>3, <1>4, <1>5 DEF Step, Lock, Look, LookInVain, PopBatch,
    PopInVain, Populate, Carve, Take, Drain, Drained

\* To the program the heap is ObjectHeap: each of its blocks carries what its
\* owner made the runtime record, and realloc answers like malloc and free.
THEOREM HeapImplementsRecords == Spec => ImplementsHeap
<1>1. Init => Heap!Init
  BY DEF Init, Heap!Init
<1>2. ASSUME HeapInv, [Next]_vars PROVE [Heap!Next]_(Heap!vars)
  <2>1. CASE UNCHANGED vars
    BY <2>1, RecordsKept DEF vars
  <2>2. ASSUME NEW t \in Threads, Ask(t) \/ Step(t)
        PROVE  [Heap!Next]_(Heap!vars)
    BY <1>2, <2>2, AskRefines, StepRefines
  <2> QED
    BY <1>2, <2>1, <2>2 DEF Next, Dead
<1> QED
  BY <1>1, <1>2, HeapIsSound, PTL DEF Spec, ImplementsHeap, Heap!Spec

-----------------------------------------------------------------------------
(* Caches have room *)

\* A batch is at most half of what a cache holds, and a thread refills an empty
\* cache only.
FitInv ==
  /\ \A k \in Caches, c \in Classes :
       /\ IsFiniteSet(cache[k] \cap BlocksOf(c))
       /\ Cardinality(cache[k] \cap BlocksOf(c)) <= 2 * MaxCached[c]
  /\ \A B \in freeList : \E c \in Classes :
       B \subseteq BlocksOf(c) /\ IsFiniteSet(B) /\ Cardinality(B) <= MaxCached[c]
  /\ \A t \in Threads :
       pc[t] \in {"pop", "populate", "carve"} => Cached(t, Asked(t)) = {}

LEMMA ClassesApart ==
  ASSUME NEW c \in Classes, NEW d \in Classes, c # d
  PROVE  BlocksOf(c) \cap BlocksOf(d) = {}
<1> SUFFICES ASSUME NEW x \in BlocksOf(c), x \in BlocksOf(d) PROVE FALSE
  OBVIOUS
<1>1. PICK i \in DOMAIN Region[c] : x \in Region[c][i]
  BY DEF BlocksOf, BatchesOf
<1>2. PICK j \in DOMAIN Region[d] : x \in Region[d][j]
  BY DEF BlocksOf, BatchesOf
<1> QED
  BY <1>1, <1>2, HeapAssumption

\* A cache that loses blocks, or gets a batch for a class it has none of, fits.
LEMMA RoomForBatch ==
  ASSUME NEW S, NEW B, NEW c \in Classes, B \subseteq BlocksOf(c),
         IsFiniteSet(B), Cardinality(B) <= MaxCached[c], S \cap BlocksOf(c) = {},
         \A d \in Classes : /\ IsFiniteSet(S \cap BlocksOf(d))
                           /\ Cardinality(S \cap BlocksOf(d)) <= 2 * MaxCached[d]
  PROVE  \A d \in Classes :
           /\ IsFiniteSet((S \cup B) \cap BlocksOf(d))
           /\ Cardinality((S \cup B) \cap BlocksOf(d)) <= 2 * MaxCached[d]
<1> TAKE d \in Classes
<1>1. CASE d = c
  <2>1. (S \cup B) \cap BlocksOf(d) = B
    BY <1>1
  <2>2. Cardinality(B) \in Nat /\ MaxCached[c] \in Nat
    BY HeapAssumption, FS_CardinalityType
  <2> QED
    BY <1>1, <2>1, <2>2
<1>2. CASE d # c
  <2>1. (S \cup B) \cap BlocksOf(d) = S \cap BlocksOf(d)
    BY <1>2, ClassesApart
  <2> QED
    BY <2>1
<1> QED
  BY <1>1, <1>2

LEMMA RoomInSubset ==
  ASSUME NEW S, NEW R, R \subseteq S,
         \A d \in Classes : /\ IsFiniteSet(S \cap BlocksOf(d))
                           /\ Cardinality(S \cap BlocksOf(d)) <= 2 * MaxCached[d]
  PROVE  \A d \in Classes :
           /\ IsFiniteSet(R \cap BlocksOf(d))
           /\ Cardinality(R \cap BlocksOf(d)) <= 2 * MaxCached[d]
<1> TAKE d \in Classes
<1>1. R \cap BlocksOf(d) \subseteq S \cap BlocksOf(d)
  OBVIOUS
<1>2. /\ IsFiniteSet(R \cap BlocksOf(d))
      /\ Cardinality(R \cap BlocksOf(d)) <= Cardinality(S \cap BlocksOf(d))
  BY <1>1, FS_Subset
<1>3. /\ Cardinality(R \cap BlocksOf(d)) \in Nat
      /\ Cardinality(S \cap BlocksOf(d)) \in Nat /\ MaxCached[d] \in Nat
  BY <1>2, FS_CardinalityType, HeapAssumption
<1> QED
  BY <1>2, <1>3

\* Deallocation adds one block to a cache that is not full, or that it has taken
\* a batch out of.
LEMMA RoomForBlock ==
  ASSUME NEW S, NEW H \in SUBSET S, NEW c \in Classes, NEW b \in BlocksOf(c),
         H \subseteq BlocksOf(c),
         \/ H = {} /\ Cardinality(S \cap BlocksOf(c)) # 2 * MaxCached[c]
         \/ Cardinality(H) = MaxCached[c],
         \A d \in Classes : /\ IsFiniteSet(S \cap BlocksOf(d))
                           /\ Cardinality(S \cap BlocksOf(d)) <= 2 * MaxCached[d]
  PROVE  \A d \in Classes :
           /\ IsFiniteSet(((S \ H) \cup {b}) \cap BlocksOf(d))
           /\ Cardinality(((S \ H) \cup {b}) \cap BlocksOf(d)) <= 2 * MaxCached[d]
<1> TAKE d \in Classes
<1>1. CASE d = c
  <2>1. PICK A : A = S \cap BlocksOf(c)
    OBVIOUS
  <2>2. ((S \ H) \cup {b}) \cap BlocksOf(d) = (A \ H) \cup {b}
    BY <1>1, <2>1
  <2>3. IsFiniteSet(A) /\ H \subseteq A
    BY <2>1
  <2>4. /\ IsFiniteSet(A \ H) /\ IsFiniteSet(H)
        /\ Cardinality(A \ H) = Cardinality(A) - Cardinality(H)
    <3>1. IsFiniteSet(H) /\ A \cap H = H
      BY <2>3, FS_Subset
    <3>2. /\ IsFiniteSet(A \ H)
          /\ Cardinality(A \ H) = Cardinality(A) - Cardinality(A \cap H)
      BY <2>3, FS_Difference
    <3> QED
      BY <3>1, <3>2
  <2>5. /\ IsFiniteSet((A \ H) \cup {b})
        /\ Cardinality((A \ H) \cup {b}) <= Cardinality(A \ H) + 1
    <3>1. PICK D : D = A \ H
      OBVIOUS
    <3>2. IsFiniteSet(D) /\ Cardinality(D) \in Nat
      BY <2>4, <3>1, FS_CardinalityType
    <3>3. /\ IsFiniteSet(D \cup {b})
          /\ \/ Cardinality(D \cup {b}) = Cardinality(D)
             \/ Cardinality(D \cup {b}) = Cardinality(D) + 1
      BY <3>2, FS_AddElement
    <3> QED
      BY <3>1, <3>2, <3>3
  <2>6. /\ Cardinality(A) \in Nat /\ Cardinality(H) \in Nat
        /\ Cardinality((A \ H) \cup {b}) \in Nat
        /\ MaxCached[c] \in Nat \ {0}
    BY <2>3, <2>4, <2>5, FS_CardinalityType, HeapAssumption
  <2>7. Cardinality(A) <= 2 * MaxCached[c]
    BY <2>1
  <2>8. \/ Cardinality(H) = 0 /\ Cardinality(A) # 2 * MaxCached[c]
        \/ Cardinality(H) = MaxCached[c]
    BY <2>1, FS_EmptySet
  <2>9. Cardinality((A \ H) \cup {b}) <= 2 * MaxCached[c]
    BY <2>4, <2>5, <2>6, <2>7, <2>8
  <2> QED
    BY <1>1, <2>2, <2>5, <2>9
<1>2. CASE d # c
  <2>1. ((S \ H) \cup {b}) \cap BlocksOf(d) = S \cap BlocksOf(d)
    BY <1>2, ClassesApart
  <2> QED
    BY <2>1
<1> QED
  BY <1>1, <1>2

\* A thread that goes on refilling has left its cache alone.
LEMMA RefillOn ==
  ASSUME TypeOK, NEW t \in Threads, Ask(t) \/ Step(t),
         pc'[t] \in {"pop", "populate", "carve"}
  PROVE  /\ \/ LookInVain(t)
            \/ pc[t] \in {"pop", "populate", "carve"}
         /\ UNCHANGED << cache, traced, request >>
<1>1. ~Ask(t)
  <2>1. ASSUME Ask(t)
        PROVE  pc[t] = "idle" /\ (pc' = pc \/ \E l \in Labels \ {"pop", "populate", "carve"} :
                 pc' = [pc EXCEPT ![t] = l])
    BY <2>1 DEF Ask, Exit, Malloc, Free, ReallocInPlace, ReallocMove,
      HandleNew, ToCache, At, Goto, Labels, locals
  <2> QED
    BY <2>1 DEF TypeOK
<1>2. ~(Look(t) \/ PopBatch(t) \/ Take(t) \/ Lock(t))
  BY DEF Look, PopBatch, Take, Lock, Goto, TypeOK
<1>3. ~(Fill(t) \/ Clear(t) \/ Put(t))
  BY DEF Fill, Clear, Put, ToCache, At, Goto, TypeOK
<1>4. ~(Drain(t) \/ Drained(t))
  BY DEF Drain, Drained, At, Goto, TypeOK
<1>5. CASE LookInVain(t) \/ PopInVain(t) \/ Populate(t)
  BY <1>5 DEF LookInVain, PopInVain, Populate, At, heap, locals
<1>6. CASE Carve(t)
  <2>1. CASE pc' = [pc EXCEPT ![t] = "look"]
    BY <2>1 DEF TypeOK
  <2> QED
    BY <1>6, <2>1 DEF Carve, At, Goto, locals
<1> QED
  BY <1>1, <1>2, <1>3, <1>4, <1>5, <1>6 DEF Step

LEMMA FitStep ==
  ASSUME CallInv, FitInv, [Next]_vars
  PROVE  FitInv'
<1>0. /\ TypeOK /\ LocalsInv /\ CarveInv /\ CarvedInRegion
      /\ None \notin Threads \cup Blocks
  BY HeapAssumption DEF CallInv
<1>1. CASE UNCHANGED vars
  BY <1>1 DEF FitInv, Cached, CacheOf, Asked, vars, heap, locals
<1>2. SUFFICES ASSUME NEW t \in Threads, Ask(t) \/ Step(t)
               PROVE  FitInv'
  BY <1>1 DEF Next, Dead
<1>3. PICK k : k = CacheOf(t)
  OBVIOUS
<1>4. k \in Caches
  BY <1>3 DEF CacheOf, Caches
<1>5. ASSUME NEW u \in Threads, pc'[u] \in {"pop", "populate", "carve"}
      PROVE  Cached(u, Asked(u))' = {}
  <2>1. CASE u # t
    <3>1. pc[u] \in {"pop", "populate", "carve"} /\ Asked(u)' = Asked(u)
      BY <1>0, <1>2, <1>5, <2>1, OthersLocals DEF Asked
    <3>2. UsesCache(u) /\ Cached(u, Asked(u)) = {}
      BY <3>1 DEF UsesCache, FitInv
    <3>3. CacheOf(u)' = CacheOf(u) /\ cache'[CacheOf(u)] = cache[CacheOf(u)]
      BY <1>0, <1>2, <2>1, <3>2, CacheKept
    <3> QED
      BY <3>1, <3>2, <3>3 DEF Cached
  <2>2. CASE u = t
    <3>1. /\ \/ LookInVain(t)
             \/ pc[t] \in {"pop", "populate", "carve"}
          /\ UNCHANGED << cache, traced, request >>
      BY <1>0, <1>2, <1>5, <2>2, RefillOn
    <3>2. Cached(t, Asked(t)) = {}
      BY <3>1 DEF LookInVain, Asked, FitInv
    <3> QED
      BY <2>2, <3>1, <3>2 DEF Cached, CacheOf, Asked
  <2> QED
    BY <2>1, <2>2
<1>6. ASSUME NEW S, cache' = [cache EXCEPT ![k] = S],
             \A d \in Classes :
               /\ IsFiniteSet(S \cap BlocksOf(d))
               /\ Cardinality(S \cap BlocksOf(d)) <= 2 * MaxCached[d],
             \A B \in freeList' : B \in freeList \/ \E c \in Classes :
               B \subseteq BlocksOf(c) /\ IsFiniteSet(B)
               /\ Cardinality(B) <= MaxCached[c]
      PROVE  FitInv'
  <2>1. \A l \in Caches : cache'[l] = IF l = k THEN S ELSE cache[l]
    BY <1>0, <1>6 DEF TypeOK
  <2>2. \A l \in Caches, c \in Classes :
          /\ IsFiniteSet(cache'[l] \cap BlocksOf(c))
          /\ Cardinality(cache'[l] \cap BlocksOf(c)) <= 2 * MaxCached[c]
    BY <1>6, <2>1 DEF FitInv
  <2> QED
    BY <1>5, <1>6, <2>2 DEF FitInv
<1>7. \A d \in Classes :
        /\ IsFiniteSet(cache[k] \cap BlocksOf(d))
        /\ Cardinality(cache[k] \cap BlocksOf(d)) <= 2 * MaxCached[d]
  BY <1>4 DEF FitInv
<1>8. ASSUME PopBatch(t) PROVE FitInv'
  <2>1. PICK c : c = Asked(t)
    OBVIOUS
  <2>2. PICK B \in FreeBatches(c) :
          /\ freeList' = freeList \ {B}
          /\ cache' = [cache EXCEPT ![k] = cache[k] \cup B]
    BY <1>3, <1>8, <2>1 DEF PopBatch, Popped, Asked
  <2>3. c \in Classes /\ cache[k] \cap BlocksOf(c) = {}
    BY <1>0, <1>3, <1>8, <2>1, AskedIsClass DEF PopBatch, At, Allocating,
      FitInv, Cached
  <2>4. B \in freeList /\ B \subseteq BlocksOf(c)
    BY <2>2 DEF FreeBatches
  <2>5. IsFiniteSet(B) /\ Cardinality(B) <= MaxCached[c]
    <3>1. PICK d \in Classes : B \subseteq BlocksOf(d) /\ IsFiniteSet(B)
                              /\ Cardinality(B) <= MaxCached[d]
      BY <2>4 DEF FitInv
    <3>2. d = c \/ B = {}
      BY <2>3, <2>4, <3>1, ClassesApart
    <3>3. B = {} => Cardinality(B) = 0
      BY FS_EmptySet
    <3> QED
      BY <2>3, <3>1, <3>2, <3>3, HeapAssumption
  <2>6. \A d \in Classes :
          /\ IsFiniteSet((cache[k] \cup B) \cap BlocksOf(d))
          /\ Cardinality((cache[k] \cup B) \cap BlocksOf(d)) <= 2 * MaxCached[d]
    BY <1>7, <2>3, <2>4, <2>5, RoomForBatch
  <2> QED
    BY <1>6, <2>2, <2>6
<1>9. ASSUME Carve(t) PROVE FitInv'
  <2>1. PICK c : c = Asked(t)
    OBVIOUS
  <2>2. PICK B : B = Region[c][carved[c] + 1]
    OBVIOUS
  <2>3. pc[t] = "carve" /\ c \in Classes /\ carved[c] < Len(Region[c])
    BY <1>0, <1>9, <2>1, AskedIsClass DEF Carve, At, Allocating, CarveInv
  <2>4. carved[c] + 1 \in 1 .. Len(Region[c])
    BY <1>0, <2>3, HeapAssumption DEF TypeOK, CarvedInRegion
  <2>5. B \in BatchesOf(c) /\ B \subseteq BlocksOf(c)
    BY <2>2, <2>3, <2>4, BatchesAreBlocks
  <2>6. IsFiniteSet(B) /\ Cardinality(B) <= MaxCached[c]
    BY <2>3, <2>5, HeapAssumption
  <2>7. CASE freeList' = freeList \cup {B} /\ cache' = cache
    <3>1. cache' = [cache EXCEPT ![k] = cache[k]]
      BY <1>0, <1>4, <2>7 DEF TypeOK
    <3> QED
      BY <1>6, <1>7, <2>3, <2>5, <2>6, <2>7, <3>1
  <2>8. CASE freeList' = freeList /\ cache' = [cache EXCEPT ![k] = cache[k] \cup B]
    <3>1. cache[k] \cap BlocksOf(c) = {}
      BY <1>3, <2>1, <2>3 DEF FitInv, Cached
    <3>2. \A d \in Classes :
          /\ IsFiniteSet((cache[k] \cup B) \cap BlocksOf(d))
          /\ Cardinality((cache[k] \cup B) \cap BlocksOf(d)) <= 2 * MaxCached[d]
      BY <1>7, <2>3, <2>5, <2>6, <3>1, RoomForBatch
    <3> QED
      BY <1>6, <2>8, <3>2
  <2> QED
    BY <1>3, <1>9, <2>1, <2>2, <2>7, <2>8 DEF Carve, Asked
<1>10. ASSUME Take(t) PROVE FitInv'
  <2>1. /\ cache' = [cache EXCEPT ![k] = cache[k] \ {block[t]}]
        /\ freeList' = freeList
    BY <1>3, <1>10 DEF Take
  <2>2. \A d \in Classes :
          /\ IsFiniteSet((cache[k] \ {block[t]}) \cap BlocksOf(d))
          /\ Cardinality((cache[k] \ {block[t]}) \cap BlocksOf(d))
               <= 2 * MaxCached[d]
    BY <1>7, RoomInSubset
  <2> QED
    BY <1>6, <2>1, <2>2
<1>11. ASSUME Put(t) PROVE FitInv'
  <2>1. PICK b : b = block[t]
    OBVIOUS
  <2>2. PICK c \in Classes :
          /\ b \in BlocksOf(c)
          /\ \/ /\ ~IsFull(t, c)
                /\ cache' = [cache EXCEPT ![k] = cache[k] \cup {b}]
                /\ UNCHANGED freeList
             \/ /\ IsFull(t, c)
                /\ \E H \in Halves(Cached(t, c), MaxCached[c]) :
                     /\ freeList' = freeList \cup {H}
                     /\ cache' = [cache EXCEPT ![k] = (cache[k] \ H) \cup {b}]
    BY <1>3, <1>11, <2>1 DEF Put
  <2>3. CASE ~IsFull(t, c) /\ cache' = [cache EXCEPT ![k] = cache[k] \cup {b}]
             /\ UNCHANGED freeList
    <3>1. Cardinality(cache[k] \cap BlocksOf(c)) # 2 * MaxCached[c]
      BY <1>3, <2>3 DEF IsFull, Cached
    <3>2. PICK H : H = {}
      OBVIOUS
    <3>3. cache[k] \cup {b} = (cache[k] \ H) \cup {b}
      BY <3>2
    <3>4. \A d \in Classes :
            /\ IsFiniteSet(((cache[k] \ H) \cup {b}) \cap BlocksOf(d))
            /\ Cardinality(((cache[k] \ H) \cup {b}) \cap BlocksOf(d))
                 <= 2 * MaxCached[d]
      BY <1>7, <2>2, <3>1, <3>2, RoomForBlock
    <3> QED
      BY <1>6, <2>3, <3>3, <3>4
  <2>4. ASSUME NEW H \in Halves(Cached(t, c), MaxCached[c]),
               freeList' = freeList \cup {H},
               cache' = [cache EXCEPT ![k] = (cache[k] \ H) \cup {b}]
        PROVE  FitInv'
    <3>1. H \subseteq cache[k] /\ H \subseteq BlocksOf(c)
          /\ Cardinality(H) = MaxCached[c]
      BY <1>3, <2>4 DEF Halves, Cached
    <3>2. IsFiniteSet(H) /\ Cardinality(H) <= MaxCached[c]
      <4>1. IsFiniteSet(cache[k] \cap BlocksOf(c))
        BY <1>7
      <4>2. H \subseteq cache[k] \cap BlocksOf(c)
        BY <3>1
      <4> QED
        BY <3>1, <4>1, <4>2, FS_Subset, HeapAssumption
    <3>3. \A d \in Classes :
            /\ IsFiniteSet(((cache[k] \ H) \cup {b}) \cap BlocksOf(d))
            /\ Cardinality(((cache[k] \ H) \cup {b}) \cap BlocksOf(d))
                 <= 2 * MaxCached[d]
      BY <1>7, <2>2, <3>1, RoomForBlock
    <3> QED
      BY <1>6, <2>4, <3>1, <3>2, <3>3
  <2> QED
    BY <2>2, <2>3, <2>4
<1>12. ASSUME Drain(t) PROVE FitInv'
  <2>1. PICK c \in Classes : \E H \in Halves(Cached(t, c), DrainCount(t, c)) :
          /\ freeList' = freeList \cup {H}
          /\ cache' = [cache EXCEPT ![t] = @ \ H]
    BY <1>12 DEF Drain
  <2>2. k = t
    BY <1>0, <1>3, <1>12 DEF Drain, At, LocalsInv, CacheOf
  <2>3. PICK H \in Halves(Cached(t, c), DrainCount(t, c)) :
          /\ freeList' = freeList \cup {H}
          /\ cache' = [cache EXCEPT ![k] = cache[k] \ H]
    BY <2>1, <2>2
  <2>4. H \subseteq cache[k] \cap BlocksOf(c) /\ Cardinality(H) = DrainCount(t, c)
    BY <1>3, <2>3 DEF Halves, Cached
  <2>5. IsFiniteSet(H) /\ IsFiniteSet(cache[k] \cap BlocksOf(c))
    BY <1>7, <2>4, FS_Subset
  <2>6. Cardinality(H) <= MaxCached[c]
    <3>1. /\ MaxCached[c] \in Nat
          /\ Cardinality(Cached(t, c)) \in Nat
      BY <1>3, <2>5, FS_CardinalityType, HeapAssumption DEF Cached
    <3> QED
      BY <2>4, <3>1 DEF DrainCount, Smaller
  <2>7. \A d \in Classes :
          /\ IsFiniteSet((cache[k] \ H) \cap BlocksOf(d))
          /\ Cardinality((cache[k] \ H) \cap BlocksOf(d)) <= 2 * MaxCached[d]
    BY <1>7, RoomInSubset
  <2> QED
    BY <1>6, <2>3, <2>4, <2>5, <2>6, <2>7
<1>13. CASE UNCHANGED << cache, freeList >>
  BY <1>5, <1>13 DEF FitInv
<1> QED
  BY <1>2, <1>8, <1>9, <1>10, <1>11, <1>12, <1>13 DEF Ask, Step, Exit, Malloc,
    Free, ReallocInPlace, ReallocMove, HandleNew, Lock, Look, LookInVain,
    PopInVain, Populate, Fill, Clear, Drained, heap

LEMMA FitInit == Init => FitInv
<1> SUFFICES ASSUME Init PROVE FitInv
  OBVIOUS
<1>1. \A k \in Caches, c \in Classes : cache[k] \cap BlocksOf(c) = {}
  BY DEF Init
<1>2. \A c \in Classes : 0 <= 2 * MaxCached[c]
  BY HeapAssumption
<1> QED
  BY <1>1, <1>2, FS_EmptySet DEF Init, FitInv

\* The array of a cache has room for what is cached in it (2 * kMaxNumCached),
\* whoever shares it and however the blocks come in.
THEOREM CachesAlwaysFit == Spec => []CachesFit
<1>1. CallInv /\ FitInv /\ [Next]_vars => FitInv'
  BY FitStep
<1>2. FitInv => CachesFit
  BY DEF FitInv, CachesFit
<1> QED
  BY <1>1, <1>2, FitInit, CallsAreSound, PTL DEF Spec
=============================================================================
