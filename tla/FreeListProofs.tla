--------------------------- MODULE FreeListProofs ---------------------------
(***************************************************************************)
(* Proofs about FreeList for every number of threads and batches, every    *)
(* width of the counter and every way to carve the region: the words keep  *)
(* their types, one thread at a time carves, and no wakeup of the region's *)
(* mutex is lost.  When no thread is lapped by the counter while it holds  *)
(* the words it read, the list is the pool of batches it stands for.       *)
(***************************************************************************)
EXTENDS FreeList, TLAPS

-----------------------------------------------------------------------------
(* The inductive invariant *)

\* What the locals of a thread are at each point of a call.
LocalsInv ==
  \A t \in Threads :
    /\ pc[t] \in {"read", "swap"} => cmp[t].ptr # Null
    /\ batch[t] # Null <=> pc[t] \in {"push", "publish", "unlock"}

\* The mutex is locked exactly while one thread is inside.
MutexInv ==
  /\ \A t \in Threads :
       /\ pc[t] \in {"idle", "lock", "contend", "wait", "asleep", "wake"} =>
            t \notin inside
       /\ pc[t] \in {"carve", "unlock"} => t \in inside
  /\ word # "Unlocked" <=> inside # {}
  /\ \A t, u \in inside : t = u

-----------------------------------------------------------------------------
(* Type correctness *)

LEMMA CounterStaysInRange ==
  ASSUME NEW c \in 0 .. CounterSize - 1
  PROVE  Incremented(c) \in 0 .. CounterSize - 1
<1>1. \A a \in Nat, b \in Nat \ {0} : a % b \in 0 .. b - 1
  OBVIOUS
<1> QED
  BY <1>1, FreeListAssumption DEF Incremented

LEMMA TypeInit == Init => TypeOK /\ LocalsInv /\ MutexInv
<1>1. NoHead \in Heads
  BY FreeListAssumption DEF NoHead, Heads, Pointers
<1> QED
  BY <1>1, FreeListAssumption
  DEF Init, TypeOK, LocalsInv, MutexInv, Pointers, Labels

\* Each action keeps the types of what it writes.
LEMMA TypeStep ==
  TypeOK /\ LocalsInv /\ [Next]_vars => TypeOK' /\ LocalsInv'
<1> SUFFICES ASSUME TypeOK, LocalsInv, [Next]_vars
             PROVE  TypeOK' /\ LocalsInv'
  OBVIOUS
<1>0. /\ Region \in Seq(Batches) /\ Null \notin Batches /\ NoHead \in Heads
      /\ Pointers = Batches \cup {Null} /\ MaxCalls \in Nat
  BY FreeListAssumption DEF NoHead, Heads, Pointers
<1>1. ASSUME NEW t \in Threads, AllocateBatch(t)
      PROVE  TypeOK' /\ LocalsInv'
  BY <1>0, <1>1 DEF AllocateBatch, TypeOK, LocalsInv, At, Goto, Labels, shared,
    registers
<1>2. ASSUME NEW t \in Threads, NEW b \in held, DeallocateBatch(t, b)
      PROVE  TypeOK' /\ LocalsInv'
  BY <1>0, <1>2 DEF DeallocateBatch, TypeOK, LocalsInv, At, Goto, Labels
<1>3. ASSUME NEW t \in Threads, PopLoad(t)
      PROVE  TypeOK' /\ LocalsInv'
  BY <1>0, <1>3 DEF PopLoad, TypeOK, LocalsInv, At, Goto, See, AfterLoad,
    Labels, shared
<1>4. ASSUME NEW t \in Threads, PopRead(t)
      PROVE  TypeOK' /\ LocalsInv'
  <2>1. cmp[t].ptr \in Batches
    BY <1>0, <1>4 DEF PopRead, At, TypeOK, LocalsInv, Heads
  <2>2. Links(cmp[t].ptr) \subseteq Pointers
    BY <2>1 DEF Links, TypeOK
  <2> QED
    BY <1>0, <1>4, <2>2 DEF PopRead, TypeOK, LocalsInv, At, Goto, Labels, shared
<1>5. ASSUME NEW t \in Threads, PopSwap(t)
      PROVE  TypeOK' /\ LocalsInv'
  <2>1. cmp[t].ptr \in Batches /\ cmp[t].count \in 0 .. CounterSize - 1
    BY <1>0, <1>5 DEF PopSwap, At, TypeOK, LocalsInv, Heads
  <2>2. [ptr |-> nxt[t], count |-> cmp[t].count] \in Heads
    BY <2>1 DEF Heads, TypeOK
  <2>3. CASE head = cmp[t] /\ t \in inside
    <3>1. /\ head' \in Heads /\ held' = held
          /\ cmp' = [cmp EXCEPT ![t] = NoHead]
          /\ batch' = [batch EXCEPT ![t] = cmp[t].ptr]
          /\ pc' = [pc EXCEPT ![t] = "unlock"]
          /\ nxt' = [nxt EXCEPT ![t] = Null]
          /\ UNCHANGED << next, word, made, inside, left, alive >>
      BY <1>5, <2>2, <2>3 DEF PopSwap, See, Goto
    <3> QED
      BY <1>0, <2>1, <3>1 DEF TypeOK, LocalsInv, Labels
  <2>4. CASE head = cmp[t] /\ t \notin inside
    <3>1. /\ head' \in Heads /\ held' = held \cup {cmp[t].ptr}
          /\ cmp' = [cmp EXCEPT ![t] = NoHead]
          /\ pc' = [pc EXCEPT ![t] = "idle"]
          /\ nxt' = [nxt EXCEPT ![t] = Null]
          /\ pc[t] = "swap"
          /\ UNCHANGED << next, word, made, batch, inside, left, alive >>
      BY <1>5, <2>2, <2>4 DEF PopSwap, See, Goto, At
    <3> QED
      BY <1>0, <2>1, <3>1 DEF TypeOK, LocalsInv, Labels
  <2>5. CASE head # cmp[t]
    <3>1. /\ cmp' = [cmp EXCEPT ![t] = head]
          /\ pc' = [pc EXCEPT ![t] = AfterLoad(t, head)]
          /\ nxt' = [nxt EXCEPT ![t] = Null]
          /\ pc[t] = "swap"
          /\ UNCHANGED << head, next, word, made, held, batch, inside, left, alive >>
      BY <1>5, <2>5 DEF PopSwap, See, Goto, At, Retry
    <3> QED
      BY <1>0, <3>1 DEF TypeOK, LocalsInv, Labels, AfterLoad
  <2> QED
    BY <2>3, <2>4, <2>5
<1>6. ASSUME NEW t \in Threads, PushLoad(t)
      PROVE  TypeOK' /\ LocalsInv'
  <2>1. head.ptr \in Pointers
    BY DEF TypeOK, Heads
  <2> QED
    BY <1>0, <1>6, <2>1 DEF PushLoad, TypeOK, LocalsInv, At, Goto, See, Link,
      Labels
<1>7. ASSUME NEW t \in Threads, PushSwap(t)
      PROVE  TypeOK' /\ LocalsInv'
  <2>1. head.ptr \in Pointers /\ Incremented(head.count) \in 0 .. CounterSize - 1
    BY CounterStaysInRange DEF TypeOK, Heads
  <2>2. [ptr |-> batch[t], count |-> Incremented(head.count)] \in Heads
    BY <2>1 DEF Heads, TypeOK
  <2>3. CASE head = cmp[t]
    <3>1. /\ head' \in Heads /\ pc[t] = "publish"
          /\ cmp' = [cmp EXCEPT ![t] = NoHead]
          /\ batch' = [batch EXCEPT ![t] = Null]
          /\ pc' = [pc EXCEPT ![t] = IF t \in inside THEN "carve" ELSE "idle"]
          /\ UNCHANGED << next, word, made, held, nxt, inside, left, alive >>
      BY <1>7, <2>2, <2>3 DEF PushSwap, See, Goto, At
    <3> QED
      BY <1>0, <3>1 DEF TypeOK, LocalsInv, Labels
  <2>4. CASE head # cmp[t]
    <3>1. /\ pc[t] = "publish" /\ cmp' = [cmp EXCEPT ![t] = head]
          /\ next' = [next EXCEPT ![batch[t]] = head.ptr]
          /\ UNCHANGED << head, batch, pc, word, made, held, nxt, inside, left, alive >>
      BY <1>7, <2>4 DEF PushSwap, See, Link, At
    <3> QED
      BY <1>0, <2>1, <3>1 DEF TypeOK, LocalsInv
  <2> QED
    BY <2>3, <2>4
<1>8. ASSUME NEW t \in Threads, Lock(t) \/ Contend(t) \/ Wait(t) \/ Interrupted(t)
      PROVE  TypeOK' /\ LocalsInv'
  BY <1>0, <1>8 DEF Lock, Contend, Wait, Interrupted, Enter, MayEnter, Retried,
    TypeOK, LocalsInv, At, Goto, Labels, shared, registers
<1>9. ASSUME NEW t \in Threads, Unlock(t)
      PROVE  TypeOK' /\ LocalsInv'
  <2>1. batch[t] \in Batches
    BY <1>0, <1>9 DEF Unlock, At, TypeOK, LocalsInv
  <2> QED
    BY <1>0, <1>9, <2>1 DEF Unlock, TypeOK, LocalsInv, At, Goto, Labels
<1>10. ASSUME NEW t \in Threads, Wake(t)
       PROVE  TypeOK' /\ LocalsInv'
  BY <1>0, <1>10 DEF Wake, Retried, TypeOK, LocalsInv, At, Goto, Labels, shared,
    registers
<1>11. ASSUME NEW t \in Threads, Carve(t)
       PROVE  TypeOK' /\ LocalsInv'
  <2>1. made + 1 \in 1 .. Len(Region)
    BY <1>0, <1>11 DEF Carve, TypeOK
  <2>2. Region[made + 1] \in Batches
    BY <1>0, <2>1
  <2> QED
    BY <1>0, <1>11, <2>1, <2>2 DEF Carve, TypeOK, LocalsInv, At, Goto, Labels
<1>12. ASSUME NEW t \in Threads, Die(t)
       PROVE  TypeOK' /\ LocalsInv'
  BY <1>12 DEF Die, TypeOK, LocalsInv, shared, registers
<1>13. CASE UNCHANGED vars
  BY <1>13 DEF TypeOK, LocalsInv, vars, shared, registers
<1> QED
  BY <1>1, <1>2, <1>3, <1>4, <1>5, <1>6, <1>7, <1>8, <1>9, <1>10, <1>11, <1>12,
    <1>13
  DEF Next, Ask, Step, Over

\* Every word and local of the list and the mutex keeps its type: the counter
\* never spills into the pointer it shares a word with, and what is handed to a
\* cache is a batch, never a null pointer.
THEOREM TypeCorrect == Spec => []TypeOK
BY TypeInit, TypeStep, PTL DEF Spec

-----------------------------------------------------------------------------
(* The mutex *)

LEMMA MutexStep ==
  TypeOK /\ MutexInv /\ [Next]_vars => MutexInv'
<1> SUFFICES ASSUME TypeOK, MutexInv, [Next]_vars
             PROVE  MutexInv'
  OBVIOUS
<1>1. ASSUME NEW t \in Threads, Lock(t) \/ Contend(t)
      PROVE  MutexInv'
  BY <1>1 DEF Lock, Contend, Enter, MayEnter, At, Goto, TypeOK, MutexInv
<1>2. ASSUME NEW t \in Threads, Unlock(t)
      PROVE  MutexInv'
  <2>1. t \in inside /\ inside' = {}
    BY <1>2 DEF Unlock, At, MutexInv
  <2> QED
    BY <1>2, <2>1 DEF Unlock, At, Goto, TypeOK, MutexInv
<1>3. ASSUME NEW t \in Threads,
             Wait(t) \/ Interrupted(t) \/ Wake(t) \/ Carve(t) \/ Die(t)
      PROVE  MutexInv'
  BY <1>3 DEF Wait, Interrupted, Wake, Carve, Die, Retried, At, Goto, TypeOK,
    MutexInv, shared, registers
<1>4. ASSUME NEW t \in Threads,
             PopLoad(t) \/ PopRead(t) \/ PopSwap(t)
      PROVE  MutexInv'
  BY <1>4 DEF PopLoad, PopRead, PopSwap, AfterLoad, At, Goto, TypeOK, MutexInv,
    shared
<1>5. ASSUME NEW t \in Threads,
             PushLoad(t) \/ PushSwap(t) \/ Ask(t)
      PROVE  MutexInv'
  BY <1>5 DEF PushLoad, PushSwap, Ask, AllocateBatch, DeallocateBatch, At, Goto,
    TypeOK, MutexInv, shared, registers
<1>6. CASE UNCHANGED vars
  BY <1>6 DEF MutexInv, vars, shared
<1> QED
  BY <1>1, <1>2, <1>3, <1>4, <1>5, <1>6 DEF Next, Step, Over

\* At most one thread carves the region, and its Unlock finds the mutex locked
\* (CHECK_NE), for any number of threads and any signals.
THEOREM OneThreadCarves == Spec => []OneCarver
<1>1. TypeOK /\ MutexInv => OneCarver
  BY DEF MutexInv, OneCarver
<1> QED
  BY <1>1, TypeInit, TypeStep, MutexStep, PTL DEF Spec

LEMMA SleeperStep ==
  TypeOK /\ SleeperIsWoken /\ [Next]_vars => SleeperIsWoken'
<1> SUFFICES ASSUME TypeOK, SleeperIsWoken, [Next]_vars
             PROVE  SleeperIsWoken'
  OBVIOUS
<1>1. ASSUME NEW t \in Threads,
             Lock(t) \/ Contend(t) \/ Wait(t) \/ Interrupted(t) \/ Unlock(t)
      PROVE  SleeperIsWoken'
  BY <1>1 DEF Lock, Contend, Wait, Interrupted, Unlock, Enter, Retried, At,
    Goto, TypeOK, SleeperIsWoken, shared
<1>2. ASSUME NEW t \in Threads, Wake(t)
      PROVE  SleeperIsWoken'
  BY <1>2 DEF Wake, Retried, At, Goto, TypeOK, SleeperIsWoken, shared
<1>3. ASSUME NEW t \in Threads,
             PopLoad(t) \/ PopRead(t) \/ PopSwap(t) \/ PushLoad(t)
             \/ PushSwap(t) \/ Carve(t) \/ Die(t) \/ Ask(t)
      PROVE  SleeperIsWoken'
  <2>1. word' = word
    BY <1>3 DEF PopLoad, PopRead, PopSwap, PushLoad, PushSwap, Carve, Die, Ask,
      AllocateBatch, DeallocateBatch, shared
  <2>2. /\ pc[t] \notin {"asleep", "contend", "wake"} \/ pc' = pc
        /\ \A u \in Threads \ {t} : pc'[u] = pc[u]
        /\ pc'[t] # "asleep" \/ pc' = pc
    BY <1>3 DEF PopLoad, PopRead, PopSwap, PushLoad, PushSwap, Carve, Die, Ask,
      AllocateBatch, DeallocateBatch, AfterLoad, At, Goto, TypeOK
  <2> QED
    BY <2>1, <2>2 DEF SleeperIsWoken
<1>4. CASE UNCHANGED vars
  BY <1>4 DEF SleeperIsWoken, vars, shared
<1> QED
  BY <1>1, <1>2, <1>3, <1>4 DEF Next, Step, Over

\* No wakeup is lost, although Lock's first exchange forgets that others sleep.
THEOREM SleepersAreWoken == Spec => []SleeperIsWoken
<1>1. Init => SleeperIsWoken
  BY DEF Init, SleeperIsWoken
<1> QED
  BY <1>1, TypeInit, TypeStep, SleeperStep, PTL DEF Spec

-----------------------------------------------------------------------------
(* Walks along the links *)

\* The batches one can walk to from p along the links n.
Reached(p, n) ==
  {b \in Batches : \A S \in SUBSET Batches :
     p \in S \cup {Null} /\ (\A c \in S : n[c] \in S \cup {Null}) => b \in S}

LEMMA OnListIsReached == OnList = Reached(head.ptr, next)
BY DEF OnList, Closed, Reached

LEMMA ReachedIsClosed ==
  ASSUME NEW p \in Pointers, NEW n \in [Batches -> Pointers]
  PROVE  /\ Reached(p, n) \subseteq Batches
         /\ p \in Reached(p, n) \cup {Null}
         /\ \A c \in Reached(p, n) : n[c] \in Reached(p, n) \cup {Null}
BY DEF Reached, Pointers

LEMMA ReachedIsLeast ==
  ASSUME NEW p, NEW n, NEW S \in SUBSET Batches,
         p \in S \cup {Null}, \A c \in S : n[c] \in S \cup {Null}
  PROVE  Reached(p, n) \subseteq S
BY DEF Reached

\* Ranks go down along the links of the batches in S.
Descends(r, S, n) == \A c \in S : n[c] # Null => r[n[c]] < r[c]

\* Without the first batch, the others are what its link leads to.
LEMMA ReachedFromNext ==
  ASSUME NEW p \in Batches, NEW n \in [Batches -> Pointers],
         NEW r \in [Batches -> Nat], Descends(r, Reached(p, n), n)
  PROVE  Reached(n[p], n) = Reached(p, n) \ {p}
<1> DEFINE R == Reached(p, n)
           Q == Reached(n[p], n)
<1>1. p \in Pointers /\ n[p] \in Pointers /\ Null \notin Batches
  BY FreeListAssumption DEF Pointers
<1>2. /\ R \subseteq Batches /\ p \in R
      /\ \A c \in R : n[c] \in R \cup {Null}
  BY <1>1, ReachedIsClosed
<1>3. /\ Q \subseteq Batches /\ n[p] \in Q \cup {Null}
      /\ \A c \in Q : n[c] \in Q \cup {Null}
  BY <1>1, ReachedIsClosed
<1>4. \A c \in R : n[c] # Null => r[n[c]] < r[c]
  BY DEF Descends
<1> HIDE DEF R, Q
<1>5. \A c \in R : c = p \/ r[c] < r[p]
  <2> DEFINE S == {c \in R : c = p \/ r[c] < r[p]}
  <2>1. S \in SUBSET Batches /\ p \in S
    BY <1>2
  <2>2. ASSUME NEW c \in S PROVE n[c] \in S \cup {Null}
    <3>1. n[c] \in R \cup {Null} /\ (n[c] # Null => r[n[c]] < r[c])
      BY <1>2, <1>4
    <3>2. CASE n[c] \in R /\ n[c] # Null
      <4>1. r[n[c]] \in Nat /\ r[c] \in Nat /\ r[p] \in Nat
        BY <1>2, <3>2
      <4> QED
        BY <3>1, <3>2, <4>1
    <3> QED
      BY <3>1, <3>2
  <2> QED
    BY <2>1, <2>2, ReachedIsLeast DEF R
<1>6. \A c \in R : n[c] # p
  <2> SUFFICES ASSUME NEW c \in R, n[c] = p PROVE FALSE
    OBVIOUS
  <2>1. r[p] < r[c] /\ r[p] \in Nat /\ r[c] \in Nat
    BY <1>1, <1>2, <1>4
  <2> QED
    BY <2>1, <1>5
<1>7. Q \subseteq R \ {p}
  <2>1. R \ {p} \in SUBSET Batches /\ n[p] \in (R \ {p}) \cup {Null}
        /\ \A c \in R \ {p} : n[c] \in (R \ {p}) \cup {Null}
    BY <1>2, <1>6
  <2> QED
    BY <2>1, ReachedIsLeast DEF Q
<1>8. R \subseteq Q \cup {p}
  <2>1. Q \cup {p} \in SUBSET Batches /\ p \in (Q \cup {p}) \cup {Null}
        /\ \A c \in Q \cup {p} : n[c] \in (Q \cup {p}) \cup {Null}
    BY <1>3
  <2> QED
    BY <2>1, ReachedIsLeast DEF R
<1>9. p \notin Q
  BY <1>7
<1> QED
  BY <1>7, <1>8, <1>9 DEF R, Q

\* A new batch whose link is p comes before those p leads to.
LEMMA ReachedFromNew ==
  ASSUME NEW p \in Pointers, NEW n \in [Batches -> Pointers],
         NEW b \in Batches, n[b] = p
  PROVE  Reached(b, n) = Reached(p, n) \cup {b}
<1> DEFINE R == Reached(p, n)
           Q == Reached(b, n)
<1>1. b \in Pointers /\ Null \notin Batches
  BY FreeListAssumption DEF Pointers
<1>2. /\ R \subseteq Batches /\ p \in R \cup {Null}
      /\ \A c \in R : n[c] \in R \cup {Null}
  BY ReachedIsClosed
<1>3. /\ Q \subseteq Batches /\ b \in Q
      /\ \A c \in Q : n[c] \in Q \cup {Null}
  BY <1>1, ReachedIsClosed
<1> HIDE DEF R, Q
<1>4. Q \subseteq R \cup {b}
  <2>1. R \cup {b} \in SUBSET Batches /\ b \in (R \cup {b}) \cup {Null}
        /\ \A c \in R \cup {b} : n[c] \in (R \cup {b}) \cup {Null}
    BY <1>2
  <2> QED
    BY <2>1, ReachedIsLeast DEF Q
<1>5. R \subseteq Q
  <2>1. p \in Q \cup {Null}
    BY <1>3
  <2> QED
    BY <1>3, <2>1, ReachedIsLeast DEF R
<1> QED
  BY <1>3, <1>4, <1>5 DEF R, Q

\* Links that the walk does not meet do not matter.
LEMMA ReachedElsewhere ==
  ASSUME NEW p \in Pointers, NEW n \in [Batches -> Pointers],
         NEW m \in [Batches -> Pointers],
         \A c \in Reached(p, n) : m[c] = n[c]
  PROVE  Reached(p, m) = Reached(p, n)
<1> DEFINE R == Reached(p, n)
           Q == Reached(p, m)
<1>1. /\ R \subseteq Batches /\ p \in R \cup {Null}
      /\ \A c \in R : n[c] \in R \cup {Null}
  BY ReachedIsClosed
<1>2. /\ Q \subseteq Batches /\ p \in Q \cup {Null}
      /\ \A c \in Q : m[c] \in Q \cup {Null}
  BY ReachedIsClosed
<1>3. \A c \in R : m[c] = n[c]
  OBVIOUS
<1> HIDE DEF R, Q
<1>4. Q \subseteq R
  <2>1. \A c \in R : m[c] \in R \cup {Null}
    BY <1>1, <1>3
  <2> QED
    BY <1>1, <2>1, ReachedIsLeast DEF Q
<1>5. R \subseteq Q
  <2>1. \A c \in Q : n[c] \in Q \cup {Null}
    BY <1>2, <1>3, <1>4
  <2> QED
    BY <1>2, <2>1, ReachedIsLeast DEF R
<1> QED
  BY <1>4, <1>5 DEF R, Q

-----------------------------------------------------------------------------
(* The invariant of the list *)

\* Along the list, ranks go down: it has an end.
Acyclic == \E r \in [Batches -> Nat] : Descends(r, OnList, next)

Uncarved == {Region[i] : i \in made + 1 .. Len(Region)}

\* A batch is on the list, with the caches, in the hands of one thread, or not
\* carved yet.
OwnerInv ==
  /\ held \cap OnList = {}
  /\ \A t \in Threads : batch[t] \notin OnList \cup held
  /\ \A t, u \in Threads : batch[t] = batch[u] /\ batch[t] # Null => t = u
  /\ Uncarved \cap (OnList \cup held \cup InHand) = {}

\* Why the exchange of Pop is safe: while the counter is what the thread saw
\* and its batch is still listed, the link it read is still the right one.
SwapInv ==
  \A t \in Threads :
    /\ pc[t] = "swap" /\ cmp[t].count = head.count /\ cmp[t].ptr \in OnList =>
         nxt[t] = next[cmp[t].ptr]
    /\ pc[t] = "publish" => next[batch[t]] = cmp[t].ptr

ListInv == Acyclic /\ OwnerInv /\ SwapInv

LEMMA ListInit == Init => ListInv
<1> SUFFICES ASSUME Init PROVE ListInv
  OBVIOUS
<1>1. OnList = {}
  <2>1. head.ptr \in {} \cup {Null}
    BY DEF Init, NoHead
  <2> QED
    BY <2>1, ReachedIsLeast, OnListIsReached
<1>2. Acyclic
  <2>1. [b \in Batches |-> 0] \in [Batches -> Nat]
    OBVIOUS
  <2> QED
    BY <1>1, <2>1 DEF Acyclic, Descends
<1>3. InHand = {} /\ held = {}
  BY DEF Init, InHand
<1>4. \A t \in Threads : batch[t] = Null
  BY DEF Init
<1> QED
  BY <1>1, <1>2, <1>3, <1>4 DEF Init, ListInv, OwnerInv, SwapInv

\* What a thread has pushed, taken or carved changes only that.
LEMMA InHandAfter ==
  ASSUME TypeOK, NEW t \in Threads, NEW b \in Pointers,
         batch' = [batch EXCEPT ![t] = b]
  PROVE  /\ \A u \in Threads : batch'[u] = IF u = t THEN b ELSE batch[u]
         /\ batch[t] = Null => InHand' = InHand \cup ({b} \ {Null})
         /\ b = Null /\ (\A u \in Threads : batch[u] = batch[t] => u = t) =>
              InHand' = InHand \ {batch[t]}
<1>1. \A u \in Threads : batch'[u] = IF u = t THEN b ELSE batch[u]
  BY DEF TypeOK
<1>2. InHand' = {batch'[u] : u \in Threads} \ {Null}
  BY DEF InHand
<1> QED
  BY <1>1, <1>2 DEF InHand

\* A successful exchange of Pop takes the first batch off the list, though its
\* link was read before.
LEMMA PopEffect ==
  ASSUME TypeOK, LocalsInv, ListInv, NEW t \in Threads, PopSwap(t),
         head = cmp[t]
  PROVE  /\ cmp[t].ptr \in OnList
         /\ OnList' = OnList \ {cmp[t].ptr}
<1> DEFINE p == cmp[t].ptr
<1>1. pc[t] = "swap" /\ p \in Batches /\ p = head.ptr
  BY FreeListAssumption DEF PopSwap, At, LocalsInv, TypeOK, Heads, Pointers
<1>2. next \in [Batches -> Pointers] /\ p \in Pointers /\ p # Null
  BY <1>1, FreeListAssumption DEF TypeOK, Pointers
<1>3. OnList = Reached(p, next)
  BY <1>1, OnListIsReached
<1>4. p \in OnList
  BY <1>2, <1>3, ReachedIsClosed
<1>5. nxt[t] = next[p]
  BY <1>1, <1>4 DEF ListInv, SwapInv
<1>6. head'.ptr = next[p] /\ next' = next
  BY <1>5 DEF PopSwap
<1>7. OnList' = Reached(next[p], next)
  BY <1>6 DEF OnList, Closed, Reached
<1>8. PICK r \in [Batches -> Nat] : Descends(r, Reached(p, next), next)
  BY <1>3 DEF ListInv, Acyclic
<1>9. Reached(next[p], next) = Reached(p, next) \ {p}
  BY <1>1, <1>2, <1>8, ReachedFromNext
<1> QED
  BY <1>3, <1>4, <1>7, <1>9

\* A successful exchange of Push puts the batch on the list.
LEMMA PushEffect ==
  ASSUME TypeOK, LocalsInv, ListInv, NEW t \in Threads, PushSwap(t),
         head = cmp[t]
  PROVE  /\ batch[t] \in Batches \ (OnList \cup held)
         /\ next[batch[t]] = head.ptr
         /\ OnList' = OnList \cup {batch[t]}
<1>1. pc[t] = "publish"
  BY DEF PushSwap, At
<1>2. batch[t] \in Batches
  BY <1>1 DEF LocalsInv, TypeOK, Pointers
<1>3. batch[t] \notin OnList \cup held
  BY DEF ListInv, OwnerInv
<1>4. next[batch[t]] = head.ptr
  BY <1>1 DEF ListInv, SwapInv
<1>5. head'.ptr = batch[t] /\ next' = next
  BY DEF PushSwap
<1>6. OnList' = Reached(batch[t], next)
  BY <1>5 DEF OnList, Closed, Reached
<1>7. head.ptr \in Pointers /\ next \in [Batches -> Pointers]
  BY DEF TypeOK, Heads
<1> QED
  BY <1>2, <1>3, <1>4, <1>6, <1>7, ReachedFromNew, OnListIsReached

\* While it is linked, the batch of a thread is not on the list.
LEMMA LinkEffect ==
  ASSUME TypeOK, LocalsInv, ListInv, NEW t \in Threads,
         pc[t] \in {"push", "publish"}, head' = head, Link(t, head)
  PROVE  /\ OnList' = OnList
         /\ \A c \in Batches \ {batch[t]} : next'[c] = next[c]
         /\ next'[batch[t]] = head.ptr
<1>1. batch[t] \in Batches /\ batch[t] \notin OnList
  BY DEF LocalsInv, TypeOK, Pointers, ListInv, OwnerInv
<1>2. head.ptr \in Pointers /\ next \in [Batches -> Pointers]
  BY DEF TypeOK, Heads
<1>3. PICK m \in [Batches -> Pointers] :
        m = next' /\ m = [next EXCEPT ![batch[t]] = head.ptr]
  BY <1>1, <1>2 DEF Link
<1>4. \A c \in Reached(head.ptr, next) : m[c] = next[c]
  BY <1>1, <1>2, <1>3, OnListIsReached, ReachedIsClosed
<1>5. Reached(head.ptr, m) = Reached(head.ptr, next)
  BY <1>2, <1>4, ReachedElsewhere
<1>6. OnList' = Reached(head.ptr, m)
  BY <1>3 DEF OnList, Closed, Reached
<1> QED
  BY <1>1, <1>2, <1>3, <1>5, <1>6, OnListIsReached

LEMMA ListStays ==
  ASSUME head' = head, next' = next
  PROVE  OnList' = OnList
BY DEF OnList, Closed

\* The other actions leave the head and the links alone.
Elsewhere(t) ==
  \/ Ask(t) \/ Interrupted(t)
  \/ PopLoad(t) \/ PopRead(t) \/ (PopSwap(t) /\ head # cmp[t])
  \/ Lock(t) \/ Contend(t) \/ Wait(t) \/ Unlock(t) \/ Wake(t)
  \/ Carve(t) \/ Die(t)

\* A thread links the batch it is about to publish.
Relinks(t) == PushLoad(t) \/ (PushSwap(t) /\ head # cmp[t])

LEMMA NextCases ==
  ASSUME Next
  PROVE  \/ UNCHANGED vars
         \/ \E t \in Threads :
              \/ Elsewhere(t) \/ Relinks(t)
              \/ (PopSwap(t) /\ head = cmp[t])
              \/ (PushSwap(t) /\ head = cmp[t])
BY DEF Next, Over, Step, Elsewhere, Relinks

LEMMA ElsewhereEffect ==
  ASSUME NEW t \in Threads, Elsewhere(t)
  PROVE  head' = head /\ next' = next /\ OnList' = OnList
<1>1. head' = head /\ next' = next
  BY DEF Elsewhere, Ask, AllocateBatch, DeallocateBatch, Interrupted, PopLoad,
    PopRead, PopSwap, Lock, Contend, Wait, Unlock, Wake, Carve, Die, shared
<1> QED
  BY <1>1, ListStays

LEMMA LinksEffect ==
  ASSUME TypeOK, LocalsInv, ListInv, NEW t \in Threads, Relinks(t)
  PROVE  /\ OnList' = OnList /\ head' = head
         /\ \A c \in Batches \ {batch[t]} : next'[c] = next[c]
         /\ next'[batch[t]] = head.ptr
         /\ batch[t] \in Batches \ OnList
         /\ cmp' = [cmp EXCEPT ![t] = head]
         /\ pc' = [pc EXCEPT ![t] = "publish"]
         /\ UNCHANGED << made, held, nxt, batch >>
<1>1. /\ pc[t] \in {"push", "publish"} /\ Link(t, head)
      /\ cmp' = [cmp EXCEPT ![t] = head]
      /\ UNCHANGED << head, made, held, nxt, batch >>
  BY DEF Relinks, PushLoad, PushSwap, At, See
<1>2. pc' = [pc EXCEPT ![t] = "publish"]
  BY DEF Relinks, PushLoad, PushSwap, At, Goto, TypeOK
<1>3. batch[t] \in Batches \ OnList
  BY <1>1 DEF LocalsInv, TypeOK, Pointers, ListInv, OwnerInv
<1> QED
  BY <1>1, <1>2, <1>3, LinkEffect

LEMMA AcyclicStep ==
  ASSUME TypeOK, LocalsInv, ListInv, [Next]_vars
  PROVE  Acyclic'
<1>1. PICK r \in [Batches -> Nat] : Descends(r, OnList, next)
  BY DEF ListInv, Acyclic
<1>2. \A c \in OnList : next[c] # Null => r[next[c]] < r[c]
  BY <1>1 DEF Descends
<1>3. SUFFICES \E q \in [Batches -> Nat] :
        \A c \in OnList' : next'[c] # Null => q[next'[c]] < q[c]
  BY DEF Acyclic, Descends
<1>4. CASE UNCHANGED vars
  BY <1>2, <1>4, ListStays DEF vars, shared
<1>5. ASSUME NEW t \in Threads, Elsewhere(t) PROVE <1>3!1
  BY <1>2, <1>5, ElsewhereEffect
<1>6. ASSUME NEW t \in Threads, Relinks(t) PROVE <1>3!1
  <2>1. OnList \subseteq Batches
    BY DEF OnList
  <2> QED
    BY <1>2, <1>6, <2>1, LinksEffect
<1>7. ASSUME NEW t \in Threads, PopSwap(t), head = cmp[t] PROVE <1>3!1
  <2>1. OnList' \subseteq OnList /\ next' = next
    BY <1>7, PopEffect DEF PopSwap
  <2> QED
    BY <1>2, <2>1
<1>8. ASSUME NEW t \in Threads, PushSwap(t), head = cmp[t] PROVE <1>3!1
  <2> DEFINE b == batch[t]
             p == head.ptr
             q == [r EXCEPT ![b] = IF p = Null THEN 0 ELSE r[p] + 1]
  <2>1. /\ b \in Batches \ OnList /\ next[b] = p /\ next' = next
        /\ OnList' = OnList \cup {b}
    BY <1>8, PushEffect DEF PushSwap
  <2>2. /\ p \in Pointers /\ p \in OnList \cup {Null}
        /\ OnList \subseteq Batches
        /\ \A c \in OnList : next[c] \in OnList \cup {Null}
    BY OnListIsReached, ReachedIsClosed DEF TypeOK, Heads
  <2>3. q \in [Batches -> Nat]
    <3>1. CASE p = Null
      BY <3>1
    <3>2. CASE p # Null
      <4>1. r[p] + 1 \in Nat
        BY <2>2, <3>2
      <4> QED
        BY <3>2, <4>1
    <3> QED
      BY <3>1, <3>2
  <2>4. ASSUME NEW c \in OnList', next'[c] # Null
        PROVE  q[next'[c]] < q[c]
    <3>1. CASE c = b
      <4>1. p \in OnList /\ p # b /\ r[p] \in Nat
        BY <2>1, <2>2, <2>4, <3>1
      <4>2. q[p] = r[p] /\ q[b] = r[p] + 1
        BY <2>1, <2>2, <2>4, <3>1, <4>1
      <4> QED
        BY <2>1, <3>1, <4>1, <4>2
    <3>2. CASE c # b
      <4>1. c \in OnList /\ next[c] \in OnList
        BY <2>1, <2>2, <2>4, <3>2
      <4>2. q[c] = r[c] /\ q[next[c]] = r[next[c]]
        BY <2>1, <2>2, <4>1
      <4> QED
        BY <1>2, <2>1, <2>4, <4>1, <4>2
    <3> QED
      BY <3>1, <3>2
  <2> QED
    BY <2>3, <2>4
<1> QED
  BY <1>4, <1>5, <1>6, <1>7, <1>8, NextCases

\* A step that leaves every batch where it is.
LEMMA QuietStep ==
  ASSUME OwnerInv, OnList' = OnList, UNCHANGED << held, batch, made >>
  PROVE  OwnerInv' /\ [Pool!Next]_(Pool!vars)
<1>1. InHand' = InHand /\ Uncarved' = Uncarved
  BY DEF InHand, Uncarved
<1>2. OwnerInv'
  BY <1>1 DEF OwnerInv
<1>3. UNCHANGED << OnList, held \cup InHand >>
  BY <1>1
<1> QED
  BY <1>2, <1>3 DEF Pool!vars

\* A thread with nothing in its hands takes b.
LEMMA TakenInHand ==
  ASSUME TypeOK, OwnerInv, NEW t \in Threads, batch[t] = Null,
         NEW b \in Batches, batch' = [batch EXCEPT ![t] = b],
         b \notin InHand, b \notin OnList', b \notin held', b \notin Uncarved',
         OnList' \subseteq OnList, held' \subseteq held,
         Uncarved' \subseteq Uncarved
  PROVE  OwnerInv' /\ InHand' = InHand \cup {b}
<1>1. /\ \A u \in Threads : batch'[u] = IF u = t THEN b ELSE batch[u]
      /\ InHand' = InHand \cup {b}
  <2>1. b \in Pointers /\ b # Null
    BY FreeListAssumption DEF Pointers
  <2>2. /\ \A u \in Threads : batch'[u] = IF u = t THEN b ELSE batch[u]
        /\ InHand' = InHand \cup ({b} \ {Null})
    BY <2>1, InHandAfter
  <2> QED
    BY <2>1, <2>2
<1>2. \A u \in Threads : batch[u] # b
  BY FreeListAssumption DEF InHand
<1>3. (held \cap OnList = {})'
  BY DEF OwnerInv
<1>4. ASSUME NEW u \in Threads
      PROVE  batch'[u] \notin OnList' \cup held'
  BY <1>1, <1>4 DEF OwnerInv
<1>5. ASSUME NEW u \in Threads, NEW v \in Threads,
             batch'[u] = batch'[v], batch'[u] # Null
      PROVE  u = v
  BY <1>1, <1>2, <1>5 DEF OwnerInv
<1>6. Uncarved' \cap (OnList' \cup held' \cup InHand') = {}
  BY <1>1 DEF OwnerInv
<1> QED
  BY <1>1, <1>3, <1>4, <1>5, <1>6 DEF OwnerInv

\* A thread lets go of what it has: it goes on the list or to a cache.
LEMMA HandedOn ==
  ASSUME TypeOK, OwnerInv, NEW t \in Threads, batch[t] # Null,
         batch' = [batch EXCEPT ![t] = Null], made' = made,
         OnList' \cap held' = {},
         OnList' \cup held' = OnList \cup held \cup {batch[t]}
  PROVE  OwnerInv' /\ InHand' = InHand \ {batch[t]} /\ batch[t] \in InHand
<1>1. /\ \A u \in Threads : batch'[u] = IF u = t THEN Null ELSE batch[u]
      /\ InHand' = InHand \ {batch[t]}
  BY InHandAfter DEF Pointers, OwnerInv
<1>2. Uncarved' = Uncarved /\ batch[t] \in InHand
  BY DEF Uncarved, InHand
<1>3. ASSUME NEW u \in Threads
      PROVE  batch'[u] \notin OnList' \cup held'
  <2>1. Null \notin OnList \cup held
    BY FreeListAssumption DEF OnList, TypeOK
  <2> QED
    BY <1>1, <2>1 DEF OwnerInv
<1>4. ASSUME NEW u \in Threads, NEW v \in Threads,
             batch'[u] = batch'[v], batch'[u] # Null
      PROVE  u = v
  BY <1>1, <1>4 DEF OwnerInv
<1>5. Uncarved' \cap (OnList' \cup held' \cup InHand') = {}
  BY <1>1, <1>2 DEF OwnerInv
<1> QED
  BY <1>1, <1>2, <1>3, <1>4, <1>5 DEF OwnerInv

\* Every step is one of the pool's, or changes nothing there.
LEMMA OwnerStep ==
  ASSUME TypeOK, LocalsInv, ListInv, [Next]_vars
  PROVE  OwnerInv' /\ [Pool!Next]_(Pool!vars)
<1>1. OwnerInv /\ Null \notin Batches /\ OnList \subseteq Batches
      /\ held \subseteq Batches
  BY FreeListAssumption DEF ListInv, OnList, TypeOK
<1>2. SUFFICES ASSUME Next PROVE OwnerInv' /\ [Pool!Next]_(Pool!vars)
  <2>1. CASE UNCHANGED vars
    BY <1>1, <2>1, ListStays, QuietStep DEF vars, shared, registers
  <2> QED
    BY <2>1
<1>3. ASSUME NEW t \in Threads, UNCHANGED << head, next, held, batch, made >>
      PROVE  OwnerInv' /\ [Pool!Next]_(Pool!vars)
  BY <1>1, <1>3, ListStays, QuietStep
<1>4. ASSUME NEW t \in Threads, NEW b \in held, DeallocateBatch(t, b)
      PROVE  OwnerInv' /\ [Pool!Next]_(Pool!vars)
  <2>1. batch[t] = Null /\ batch' = [batch EXCEPT ![t] = b]
        /\ OnList' = OnList /\ held' = held \ {b} /\ made' = made
    BY <1>4, ListStays DEF DeallocateBatch, At, LocalsInv
  <2>2. Uncarved' = Uncarved /\ b \notin Uncarved /\ b \notin InHand
        /\ b \notin OnList
    BY <1>1, <2>1 DEF Uncarved, InHand, OwnerInv
  <2>3. OwnerInv' /\ InHand' = InHand \cup {b}
    BY <1>1, <2>1, <2>2, TakenInHand
  <2>4. (held \cup InHand)' = held \cup InHand
    BY <2>1, <2>3
  <2> QED
    BY <2>1, <2>3, <2>4 DEF Pool!vars
<1>5. ASSUME NEW t \in Threads, Unlock(t)
      PROVE  OwnerInv' /\ [Pool!Next]_(Pool!vars)
  <2>1. batch[t] # Null /\ batch' = [batch EXCEPT ![t] = Null]
        /\ OnList' = OnList /\ held' = held \cup {batch[t]} /\ made' = made
    BY <1>5, ListStays DEF Unlock, At, LocalsInv
  <2>2. OnList' \cap held' = {}
    BY <1>1, <2>1 DEF OwnerInv
  <2>3. OwnerInv' /\ InHand' = InHand \ {batch[t]} /\ batch[t] \in InHand
    BY <1>1, <2>1, <2>2, HandedOn
  <2>4. (held \cup InHand)' = held \cup InHand
    BY <2>1, <2>3
  <2> QED
    BY <2>1, <2>3, <2>4 DEF Pool!vars
<1>6. ASSUME NEW t \in Threads, Carve(t)
      PROVE  OwnerInv' /\ [Pool!Next]_(Pool!vars)
  <2> DEFINE b == Region[made + 1]
  <2>1. batch[t] = Null /\ batch' = [batch EXCEPT ![t] = b]
        /\ OnList' = OnList /\ held' = held /\ made' = made + 1
    BY <1>6, ListStays DEF Carve, At, LocalsInv
  <2>2. made + 1 \in 1 .. Len(Region) /\ made \in Nat /\ Len(Region) \in Nat
        /\ DOMAIN Region = 1 .. Len(Region)
    BY <1>6, FreeListAssumption DEF Carve, TypeOK
  <2>3. b \in Batches
    BY <2>2, FreeListAssumption
  <2>4. b \in Uncarved
    BY <2>2 DEF Uncarved
  <2>5. Uncarved' \subseteq Uncarved /\ b \notin Uncarved'
    BY <2>1, <2>2, FreeListAssumption DEF Uncarved
  <2>6. b \notin OnList \cup held \cup InHand
    BY <1>1, <2>4 DEF OwnerInv
  <2>7. OwnerInv' /\ InHand' = InHand \cup {b}
    BY <1>1, <2>1, <2>3, <2>5, <2>6, TakenInHand
  <2>8. Pool!Make(b)
    BY <2>1, <2>6, <2>7 DEF Pool!Make
  <2> QED
    BY <2>3, <2>7, <2>8 DEF Pool!Next
<1>7. ASSUME NEW t \in Threads, Relinks(t)
      PROVE  OwnerInv' /\ [Pool!Next]_(Pool!vars)
  BY <1>1, <1>7, LinksEffect, QuietStep
<1>8. ASSUME NEW t \in Threads, PopSwap(t), head = cmp[t]
      PROVE  OwnerInv' /\ [Pool!Next]_(Pool!vars)
  <2> DEFINE p == cmp[t].ptr
  <2>1. p \in OnList /\ OnList' = OnList \ {p} /\ made' = made
    BY <1>8, PopEffect DEF PopSwap
  <2>2. p \in Batches /\ p \notin held /\ p \notin InHand /\ p \notin Uncarved
        /\ Uncarved' = Uncarved
    BY <1>1, <2>1 DEF OwnerInv, InHand, Uncarved
  <2>3. CASE t \in inside
    <3>1. batch[t] = Null /\ batch' = [batch EXCEPT ![t] = p] /\ held' = held
      BY <1>8, <2>3 DEF PopSwap, At, LocalsInv
    <3>2. OwnerInv' /\ InHand' = InHand \cup {p}
      BY <1>1, <2>1, <2>2, <3>1, TakenInHand
    <3>3. Pool!Take(p)
      BY <2>1, <3>1, <3>2 DEF Pool!Take
    <3> QED
      BY <2>2, <3>2, <3>3 DEF Pool!Next
  <2>4. CASE t \notin inside
    <3>1. batch' = batch /\ held' = held \cup {p}
      BY <1>8, <2>4 DEF PopSwap
    <3>2. InHand' = InHand
      BY <3>1 DEF InHand
    <3>3. \A u \in Threads : batch[u] # p
      BY <1>1, <2>1 DEF OwnerInv
    <3>4. OwnerInv'
      BY <1>1, <2>1, <2>2, <3>1, <3>2, <3>3 DEF OwnerInv
    <3>5. Pool!Take(p)
      BY <2>1, <3>1, <3>2 DEF Pool!Take
    <3> QED
      BY <2>2, <3>4, <3>5 DEF Pool!Next
  <2> QED
    BY <2>3, <2>4
<1>9. ASSUME NEW t \in Threads, PushSwap(t), head = cmp[t]
      PROVE  OwnerInv' /\ [Pool!Next]_(Pool!vars)
  <2> DEFINE b == batch[t]
  <2>1. /\ b \in Batches \ (OnList \cup held) /\ OnList' = OnList \cup {b}
        /\ batch' = [batch EXCEPT ![t] = Null] /\ held' = held /\ made' = made
    BY <1>9, PushEffect DEF PushSwap
  <2>2. b # Null /\ OnList' \cap held' = {}
    BY <1>1, <2>1 DEF OwnerInv
  <2>3. OwnerInv' /\ InHand' = InHand \ {b} /\ b \in InHand
    BY <1>1, <2>1, <2>2, HandedOn
  <2>4. Pool!Give(b)
    BY <2>1, <2>3 DEF Pool!Give
  <2> QED
    BY <2>1, <2>3, <2>4 DEF Pool!Next
<1>10. ASSUME NEW t \in Threads, Elsewhere(t)
       PROVE  OwnerInv' /\ [Pool!Next]_(Pool!vars)
  BY <1>3, <1>4, <1>5, <1>6, <1>10
  DEF Elsewhere, Ask, AllocateBatch, Interrupted, PopLoad, PopRead, PopSwap,
    Lock, Contend, Wait, Wake, Die, shared, registers
<1>11. CASE UNCHANGED vars
  BY <1>1, <1>11, ListStays, QuietStep DEF vars, shared, registers
<1> QED
  BY <1>2, <1>7, <1>8, <1>9, <1>10, <1>11, NextCases

LEMMA SwapStep ==
  ASSUME TypeOK, LocalsInv, ListInv, [Next]_vars
  PROVE  SwapInv'
<1>1. SwapInv
  BY DEF ListInv
<1>2. CASE UNCHANGED vars
  BY <1>1, <1>2, ListStays DEF SwapInv, vars, shared, registers
<1>3. ASSUME NEW t \in Threads, PopRead(t) PROVE SwapInv'
  <2>1. /\ pc' = [pc EXCEPT ![t] = "swap"] /\ OnList' = OnList
        /\ UNCHANGED << head, next, cmp, batch >>
        /\ \A u \in Threads \ {t} : nxt'[u] = nxt[u]
        /\ cmp[t].ptr \in OnList => nxt'[t] = next[cmp[t].ptr]
    BY <1>3, ListStays DEF PopRead, Goto, Links, shared, TypeOK
  <2> QED
    BY <1>1, <2>1 DEF SwapInv, TypeOK
<1>4. ASSUME NEW t \in Threads, Elsewhere(t), ~PopRead(t) PROVE SwapInv'
  <2>1. head' = head /\ next' = next /\ OnList' = OnList
    BY <1>4, ElsewhereEffect
  <2>2. \A u \in Threads : pc'[u] \in {"swap", "publish"} =>
          /\ pc'[u] = pc[u] /\ cmp'[u] = cmp[u]
          /\ nxt'[u] = nxt[u] /\ batch'[u] = batch[u]
    <3>1. CASE Ask(t)
      BY <3>1 DEF Ask, AllocateBatch, DeallocateBatch, Goto, TypeOK, registers
    <3>2. CASE PopLoad(t) \/ (PopSwap(t) /\ head # cmp[t])
      BY <3>2 DEF PopLoad, PopSwap, See, Goto, AfterLoad, TypeOK
    <3>3. CASE Interrupted(t) \/ Lock(t) \/ Contend(t) \/ Wait(t) \/ Wake(t)
      BY <3>3 DEF Interrupted, Lock, Contend, Wait, Wake, Enter, Retried, Goto,
        TypeOK, registers
    <3>4. CASE Unlock(t) \/ Carve(t)
      BY <3>4 DEF Unlock, Carve, Goto, TypeOK
    <3>5. CASE Die(t)
      BY <3>5 DEF Die, registers
    <3> QED
      BY <1>4, <3>1, <3>2, <3>3, <3>4, <3>5 DEF Elsewhere
  <2> QED
    BY <1>1, <2>1, <2>2 DEF SwapInv
<1>5. ASSUME NEW t \in Threads, Relinks(t) PROVE SwapInv'
  <2>1. /\ OnList' = OnList /\ head' = head
        /\ \A c \in Batches \ {batch[t]} : next'[c] = next[c]
        /\ next'[batch[t]] = head.ptr
        /\ batch[t] \in Batches \ OnList
        /\ cmp' = [cmp EXCEPT ![t] = head]
        /\ pc' = [pc EXCEPT ![t] = "publish"]
        /\ UNCHANGED << nxt, batch >>
    BY <1>5, LinksEffect
  <2>2. ASSUME NEW u \in Threads, pc'[u] = "swap", cmp'[u].ptr \in OnList',
               cmp'[u].count = head'.count
        PROVE  nxt'[u] = next'[cmp'[u].ptr]
    <3>1. u # t /\ pc[u] = "swap" /\ cmp'[u] = cmp[u]
      BY <2>1, <2>2 DEF TypeOK
    <3>2. cmp[u].ptr \in Batches \ {batch[t]}
      BY <2>1, <2>2, <3>1 DEF OnList
    <3> QED
      BY <1>1, <2>1, <2>2, <3>1, <3>2 DEF SwapInv
  <2>3. ASSUME NEW u \in Threads, pc'[u] = "publish"
        PROVE  next'[batch'[u]] = cmp'[u].ptr
    <3>1. CASE u = t
      BY <2>1, <3>1 DEF TypeOK
    <3>2. CASE u # t
      <4>1. pc[u] = "publish" /\ cmp'[u] = cmp[u] /\ batch'[u] = batch[u]
        BY <2>1, <2>3, <3>2 DEF TypeOK
      <4>2. batch[u] \in Batches /\ batch[u] # batch[t]
        BY <3>2, <4>1 DEF LocalsInv, TypeOK, Pointers, ListInv, OwnerInv
      <4> QED
        BY <1>1, <2>1, <4>1, <4>2 DEF SwapInv
    <3> QED
      BY <3>1, <3>2
  <2> QED
    BY <2>2, <2>3 DEF SwapInv
<1>6. ASSUME NEW t \in Threads, PopSwap(t), head = cmp[t] PROVE SwapInv'
  <2>1. /\ OnList' \subseteq OnList /\ next' = next /\ head'.count = head.count
        /\ \A u \in Threads : pc'[u] \in {"swap", "publish"} =>
             /\ pc'[u] = pc[u] /\ cmp'[u] = cmp[u]
             /\ nxt'[u] = nxt[u] /\ batch'[u] = batch[u]
    <3>1. OnList' \subseteq OnList
      BY <1>6, PopEffect
    <3>2. next' = next /\ head' = [ptr |-> nxt[t], count |-> cmp[t].count]
      BY <1>6 DEF PopSwap
    <3>3. /\ pc' = [pc EXCEPT ![t] = IF t \in inside THEN "unlock" ELSE "idle"]
          /\ cmp' = [cmp EXCEPT ![t] = NoHead]
          /\ nxt' = [nxt EXCEPT ![t] = Null]
          /\ batch' = [batch EXCEPT ![t] = cmp[t].ptr] \/ batch' = batch
      BY <1>6 DEF PopSwap, See, Goto
    <3> QED
      BY <1>6, <3>1, <3>2, <3>3 DEF TypeOK
  <2> QED
    BY <1>1, <2>1 DEF SwapInv
<1>7. ASSUME NEW t \in Threads, PushSwap(t), head = cmp[t] PROVE SwapInv'
  <2>1. /\ next' = next
        /\ \A u \in Threads : pc'[u] \in {"swap", "publish"} =>
             /\ u # t /\ pc'[u] = pc[u] /\ cmp'[u] = cmp[u]
             /\ nxt'[u] = nxt[u] /\ batch'[u] = batch[u]
    BY <1>7 DEF PushSwap, At, See, Goto, TypeOK
  <2>2. head'.count = (head.count + 1) % CounterSize
    BY <1>7 DEF PushSwap, Incremented
  <2>3. \A u \in Threads : pc[u] = "swap" => cmp[u].count # head'.count
    BY <1>7, <2>2 DEF PushSwap, NobodyIsLapped
  <2> QED
    BY <1>1, <2>1, <2>3 DEF SwapInv
<1> QED
  BY <1>2, <1>3, <1>4, <1>5, <1>6, <1>7, NextCases

LEMMA ListStep == TypeOK /\ LocalsInv /\ ListInv /\ [Next]_vars => ListInv'
BY AcyclicStep, OwnerStep, SwapStep DEF ListInv

\* The lock-free list with its counter is the pool CverHeap takes it for: no
\* batch is given out twice, lost or listed twice (no ABA), as long as nobody
\* is lapped while in the middle of a Pop.
THEOREM ListImplementsPool == Spec => ImplementsPool
<1>1. Init => Pool!Init
  <2> SUFFICES ASSUME Init PROVE Pool!Init
    OBVIOUS
  <2>1. head.ptr \in {} \cup {Null}
    BY DEF Init, NoHead
  <2>2. OnList = {}
    BY <2>1, ReachedIsLeast, OnListIsReached
  <2>3. held \cup InHand = {}
    BY DEF Init, InHand
  <2> QED
    BY <2>2, <2>3 DEF Pool!Init
<1>2. TypeOK /\ LocalsInv /\ ListInv /\ [Next]_vars =>
        [Pool!Next]_(Pool!vars)
  BY OwnerStep
<1> QED
  BY <1>1, <1>2, TypeInit, TypeStep, ListInit, ListStep, PTL
  DEF Spec, ImplementsPool, Pool!Spec
=============================================================================
