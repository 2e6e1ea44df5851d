------------------------------ MODULE FreeList ------------------------------
(***************************************************************************)
(* The free list of one size class at the grain of its atomic operations:  *)
(* the lock-free stack of batches (sanitizer_lfstack.h), the futex mutex   *)
(* of the region (BlockingMutex of sanitizer_linux.cc), and AllocateBatch, *)
(* DeallocateBatch and PopulateFreeList (sanitizer_allocator.h) on them.   *)
(*                                                                         *)
(* The head of the stack is one word: a pointer and a counter of pushes.   *)
(* One action is one access to that word, to the mutex or to the link of a *)
(* batch that others may see; links of a batch being pushed are private.   *)
(* A batch is taken as a whole: what the caches make of its blocks is in   *)
(* CverHeap.                                                               *)
(***************************************************************************)
EXTENDS Naturals, Sequences

CONSTANTS
  Threads,
  Batches,
  Region,         \* the batches in the order they are carved
  BatchesPerMap,  \* batches that one mapping of memory yields
  CounterSize,    \* values of the counter (2^17 in the code)
  MaxCalls,       \* bound: calls of all threads
  Null

ASSUME FreeListAssumption ==
  /\ Region \in Seq(Batches)
  /\ \A i, j \in DOMAIN Region : Region[i] = Region[j] => i = j
  /\ BatchesPerMap \in Nat \ {0}
  /\ CounterSize \in Nat \ {0, 1}
  /\ MaxCalls \in Nat
  /\ Null \notin Batches

VARIABLES
  head,    \* [ptr, count]: head_ of the stack
  next,    \* the link in each batch, while it is on the list or being pushed
  word,    \* the word of the mutex
  made,    \* batches carved so far (allocated_user)
  held,    \* batches the caches have
  pc,
  cmp,     \* per thread: the head it last saw
  nxt,     \* per thread: the link it read
  batch,   \* per thread: the batch it pushes or returns
  inside,  \* threads between Lock and Unlock of the region's mutex
  left,    \* calls that may still be made
  alive    \* the process did not run out of memory

registers == << cmp, nxt, batch >>
shared == << head, next, word, made, held >>
vars == << shared, pc, registers, inside, left, alive >>

Pointers == Batches \cup {Null}
Heads == [ptr : Pointers, count : 0 .. CounterSize - 1]
NoHead == [ptr |-> Null, count |-> 0]

At(t, label) == alive /\ pc[t] = label
Goto(t, label) == pc' = [pc EXCEPT ![t] = label]
See(t, h) == cmp' = [cmp EXCEPT ![t] = h]

-----------------------------------------------------------------------------
Init ==
  /\ head = NoHead
  /\ next = [b \in Batches |-> Null]
  /\ word = "Unlocked"
  /\ made = 0
  /\ held = {}
  /\ pc = [t \in Threads |-> "idle"]
  /\ cmp = [t \in Threads |-> NoHead]
  /\ nxt = [t \in Threads |-> Null]
  /\ batch = [t \in Threads |-> Null]
  /\ inside = {}
  /\ left = MaxCalls
  /\ alive = TRUE

\* The batches one can walk to from the head.
Closed(S) == \A b \in S : next[b] \in S \cup {Null}
OnList ==
  {b \in Batches : \A S \in SUBSET Batches :
     head.ptr \in S \cup {Null} /\ Closed(S) => b \in S}

-----------------------------------------------------------------------------
(* What caches ask for *)

AllocateBatch(t) ==
  /\ At(t, "idle") /\ left > 0
  /\ left' = left - 1
  /\ Goto(t, "load")
  /\ UNCHANGED << shared, registers, inside, alive >>

DeallocateBatch(t, b) ==
  /\ At(t, "idle") /\ left > 0 /\ b \in held
  /\ left' = left - 1
  /\ held' = held \ {b}
  /\ batch' = [batch EXCEPT ![t] = b]
  /\ Goto(t, "push")
  /\ UNCHANGED << head, next, word, made, cmp, nxt, inside, alive >>

-----------------------------------------------------------------------------
(* LFStack::Pop *)

\* Where Pop goes with the head it saw: an empty list ends it.  It is called
\* without the mutex first, then by PopulateFreeList with it.
AfterLoad(t, h) ==
  IF h.ptr # Null THEN "read" ELSE IF t \in inside THEN "carve" ELSE "lock"

PopLoad(t) ==
  /\ At(t, "load")
  /\ See(t, head)
  /\ Goto(t, AfterLoad(t, head))
  /\ UNCHANGED << shared, nxt, batch, inside, left, alive >>

\* cur->next.  If cur was popped since, its memory is in use: any value.
Links(b) == IF b \in OnList THEN {next[b]} ELSE Pointers

PopRead(t) ==
  /\ At(t, "read")
  /\ \E p \in Links(cmp[t].ptr) : nxt' = [nxt EXCEPT ![t] = p]
  /\ Goto(t, "swap")
  /\ UNCHANGED << shared, cmp, batch, inside, left, alive >>

\* Mutant: a failed exchange does not store the head it met.
Retry_Stale(t) == cmp[t]

Retry(t) == head

PopSwap(t) ==
  /\ At(t, "swap")
  /\ nxt' = [nxt EXCEPT ![t] = Null]
  /\ \/ /\ head = cmp[t]
        /\ head' = [ptr |-> nxt[t], count |-> cmp[t].count]
        /\ See(t, NoHead)
        /\ IF t \in inside
             THEN /\ batch' = [batch EXCEPT ![t] = cmp[t].ptr]
                  /\ Goto(t, "unlock")
                  /\ UNCHANGED held
             ELSE /\ held' = held \cup {cmp[t].ptr}
                  /\ Goto(t, "idle")
                  /\ UNCHANGED batch
     \/ /\ head # cmp[t]
        /\ See(t, Retry(t))
        /\ Goto(t, AfterLoad(t, Retry(t)))
        /\ UNCHANGED << head, held, batch >>
  /\ UNCHANGED << next, word, made, inside, left, alive >>

-----------------------------------------------------------------------------
(* LFStack::Push *)

\* The new link of the batch is written before the exchange publishes it.
Link(t, h) == next' = [next EXCEPT ![batch[t]] = h.ptr]

PushLoad(t) ==
  /\ At(t, "push")
  /\ See(t, head)
  /\ Link(t, head)
  /\ Goto(t, "publish")
  /\ UNCHANGED << head, word, made, held, nxt, batch, inside, left, alive >>

\* Mutant: the counter is not bounded by its bits.
Incremented_Unmasked(c) == c + 1
\* Mutant: pushing leaves the counter alone.
Incremented_Not(c) == c

Incremented(c) == (c + 1) % CounterSize

\* Bound on the scheduler: no thread sleeps in the middle of a Pop while the
\* counter comes full circle.
NobodyIsLapped(count) ==
  \A u \in Threads : pc[u] \in {"read", "swap"} => cmp[u].count # count

PushSwap(t) ==
  /\ At(t, "publish")
  /\ \/ /\ head = cmp[t]
        /\ NobodyIsLapped((head.count + 1) % CounterSize)
        /\ head' = [ptr |-> batch[t], count |-> Incremented(head.count)]
        /\ See(t, NoHead)
        /\ batch' = [batch EXCEPT ![t] = Null]
        /\ Goto(t, IF t \in inside THEN "carve" ELSE "idle")
        /\ UNCHANGED next
     \/ /\ head # cmp[t]
        /\ See(t, head)
        /\ Link(t, head)
        /\ UNCHANGED << head, batch, pc >>
  /\ UNCHANGED << word, made, held, nxt, inside, left, alive >>

-----------------------------------------------------------------------------
(* BlockingMutex *)

Enter(t) ==
  /\ inside' = inside \cup {t}
  /\ Goto(t, "load")

\* The word's old value is overwritten, "Sleeping" too.
Lock(t) ==
  /\ At(t, "lock")
  /\ word' = "Locked"
  /\ \/ word = "Unlocked" /\ Enter(t)
     \/ word # "Unlocked" /\ Goto(t, "contend") /\ UNCHANGED inside
  /\ UNCHANGED << head, next, made, held, registers, left, alive >>

\* Mutant: who sees sleepers has been woken, and has the lock.
MayEnter_Woken == word # "Locked"
\* Mutant: a thread that was woken starts over, as if nobody else slept.
Retried_Afresh == "lock"

MayEnter == word = "Unlocked"
Retried == "contend"

Contend(t) ==
  /\ At(t, "contend")
  /\ word' = "Sleeping"
  /\ \/ MayEnter /\ Enter(t)
     \/ ~MayEnter /\ Goto(t, "wait") /\ UNCHANGED inside
  /\ UNCHANGED << head, next, made, held, registers, left, alive >>

\* FUTEX_WAIT sleeps only if the word still says so.
Wait(t) ==
  /\ At(t, "wait")
  /\ Goto(t, IF word = "Sleeping" THEN "asleep" ELSE Retried)
  /\ UNCHANGED << shared, registers, inside, left, alive >>

\* A signal ends the wait.
Interrupted(t) ==
  /\ At(t, "asleep")
  /\ Goto(t, Retried)
  /\ UNCHANGED << shared, registers, inside, left, alive >>

Unlock(t) ==
  /\ At(t, "unlock")
  /\ word' = "Unlocked"
  /\ inside' = inside \ {t}
  /\ held' = held \cup {batch[t]}
  /\ batch' = [batch EXCEPT ![t] = Null]
  /\ Goto(t, IF word = "Sleeping" THEN "wake" ELSE "idle")
  /\ UNCHANGED << head, next, made, cmp, nxt, left, alive >>

\* FUTEX_WAKE of one thread, if any waits.
Wake(t) ==
  /\ At(t, "wake")
  /\ \/ \E u \in Threads :
          /\ pc[u] = "asleep"
          /\ pc' = [pc EXCEPT ![t] = "idle", ![u] = Retried]
     \/ /\ \A u \in Threads : pc[u] # "asleep"
        /\ Goto(t, "idle")
  /\ UNCHANGED << shared, registers, inside, left, alive >>

-----------------------------------------------------------------------------
(* PopulateFreeList *)

MoreMapped ==
  /\ made % BatchesPerMap # BatchesPerMap - 1
  /\ made + 1 < Len(Region)

\* The batches of a new mapping are pushed, all but the last.
Carve(t) ==
  /\ At(t, "carve") /\ made < Len(Region)
  /\ made' = made + 1
  /\ batch' = [batch EXCEPT ![t] = Region[made + 1]]
  /\ Goto(t, IF MoreMapped THEN "push" ELSE "unlock")
  /\ UNCHANGED << head, next, word, held, cmp, nxt, inside, left, alive >>

\* "Out of memory. Dying."
Die(t) ==
  /\ At(t, "carve") /\ made = Len(Region)
  /\ alive' = FALSE
  /\ UNCHANGED << shared, pc, registers, inside, left >>

-----------------------------------------------------------------------------
Step(t) ==
  \/ PopLoad(t) \/ PopRead(t) \/ PopSwap(t) \/ PushLoad(t) \/ PushSwap(t)
  \/ Lock(t) \/ Contend(t) \/ Wait(t) \/ Unlock(t) \/ Wake(t)
  \/ Carve(t) \/ Die(t)

Ask(t) == AllocateBatch(t) \/ \E b \in held : DeallocateBatch(t, b)

Over ==
  /\ ~alive \/ (left = 0 /\ \A t \in Threads : pc[t] = "idle")
  /\ UNCHANGED vars

Next ==
  \/ \E t \in Threads : Ask(t) \/ Step(t) \/ Interrupted(t)
  \/ Over

\* A thread in a call is scheduled eventually; nobody is interrupted forever.
Spec == Init /\ [][Next]_vars /\ \A t \in Threads : WF_vars(Step(t))

-----------------------------------------------------------------------------
(* Properties *)

Labels ==
  {"idle", "load", "read", "swap", "push", "publish", "lock", "contend",
   "wait", "asleep", "unlock", "wake", "carve"}

TypeOK ==
  /\ head \in Heads
  /\ next \in [Batches -> Pointers]
  /\ word \in {"Unlocked", "Locked", "Sleeping"}
  /\ made \in 0 .. Len(Region)
  /\ held \subseteq Batches
  /\ pc \in [Threads -> Labels]
  /\ cmp \in [Threads -> Heads]
  /\ nxt \in [Threads -> Pointers]
  /\ batch \in [Threads -> Pointers]
  /\ inside \subseteq Threads
  /\ left \in 0 .. MaxCalls
  /\ alive \in BOOLEAN

\* One thread at a time carves the region, and its Unlock finds the mutex
\* locked (CHECK_NE(v, MtxUnlocked)).
OneCarver ==
  \A t \in inside : word # "Unlocked" /\ inside = {t}

\* No lost wakeup: while a thread sleeps on the mutex, the word will make the
\* next Unlock wake it, or somebody is about to see to that.
SleeperIsWoken ==
  (\E t \in Threads : pc[t] = "asleep") =>
    \/ word = "Sleeping"
    \/ \E t \in Threads : pc[t] \in {"contend", "wake"}

InHand == {batch[t] : t \in Threads} \ {Null}

Pool == INSTANCE BatchPool WITH free <- OnList, out <- held \cup InHand

\* However pops, pushes and carving interleave, a batch is never given out
\* twice, lost or put on the list twice (no ABA): the list is the pool that
\* CverHeap takes it for.
ImplementsPool == Pool!Spec

\* Every call returns, unless memory runs out: no exchange fails forever and
\* nobody waits for a mutex nobody will unlock.  (As calls are bounded, they
\* have all returned at some point.)
EveryCallReturns == <>[](~alive \/ \A t \in Threads : pc[t] = "idle")
=============================================================================
