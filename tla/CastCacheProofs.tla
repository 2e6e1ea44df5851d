--------------------------- MODULE CastCacheProofs ---------------------------
(***************************************************************************)
(* Proofs about CastCache for every number of threads, every cache         *)
(* geometry and every assignment of keys: the cache never invents a match  *)
(* (HitWasMatched, and the refinement of CastMemo), and what the second    *)
(* level stores can be found again (StoredKeysAreSearchable).              *)
(***************************************************************************)
EXTENDS CastCache, TLAPS

-----------------------------------------------------------------------------
(* The inductive invariant *)

\* Both levels hold only keys that a full check matched.
SlotsSound ==
  /\ \A s \in FirstSlots : FirstCache[s] \in known \cup {0}
  /\ \A s \in SecondSlots : SecondCache[s] \in known \cup {0}

\* What a thread has established about its key at each point of the call.
ThreadSound(p) ==
  /\ result[p] = "cached" => Key(p) \in known
  /\ pc[p] \in {"refill", "updateFirst", "updateSecond"} => Key(p) \in known
  /\ pc[p] \in {"readFirst", "probeEmpty", "probeEqual", "readBucket",
                "refill", "check"} => result[p] = "asked"

\* The first n probes for key k all meet an occupied slot.
Occupied(k, n) == \A m \in 0 .. n - 1 : SecondCache[ProbeAt(k, m)] # 0

\* Slot s is where a search for key k may end.
OnPath(k, s) ==
  \E n \in 0 .. MaxTries - 1 : ProbeAt(k, n) = s /\ Occupied(k, n)

\* A probing thread has passed only occupied slots, and the bucket it chose is
\* on the probe path of its key.
ThreadSearch(p) ==
  /\ pc[p] \in {"idle", "readFirst"} => tries[p] = 0
  /\ pc[p] \in {"probeEmpty", "probeEqual"} => Occupied(Key(p), tries[p])
  /\ pc[p] = "probeEqual" => SecondCache[Probe(p)] # 0
  /\ pc[p] \in {"readBucket", "refill", "check", "updateFirst", "updateSecond"}
       => OnPath(Key(p), bucket[p])

SearchInv ==
  /\ \A p \in Threads : ThreadSearch(p)
  /\ StoredKeysAreSearchable

SoundInv == SlotsSound /\ \A p \in Threads : ThreadSound(p)

-----------------------------------------------------------------------------
(* Keys and slots *)

LEMMA KeyIsPositive ==
  ASSUME TypeOK, NEW p \in Threads
  PROVE  Key(p) \in CacheKeys /\ Key(p) \in Nat \ {0}
<1>1. cast[p] \in Casts
  BY DEF TypeOK
<1>2. cast[p].table \in Tables /\ cast[p].hash \in Hashes
  BY <1>1 DEF Casts
<1>3. Key(p) \in CacheKeys
  BY <1>2 DEF Key, CacheKeys
<1>4. \A t \in Tables, h \in Hashes : KeyOf[<<t, h>>] \in Nat \ {0}
  BY KeysAssumption
<1> QED
  BY <1>2, <1>3, <1>4 DEF Key

LEMMA RemainderInRange ==
  ASSUME NEW a \in Nat, NEW b \in Nat \ {0}
  PROVE  a % b \in 0 .. b - 1
OBVIOUS

LEMMA FirstSlotInRange ==
  ASSUME NEW k \in Nat
  PROVE  FirstSlot(k) \in FirstSlots
BY RemainderInRange, SizesAssumption DEF FirstSlot, FirstSlots

LEMMA FirstProbeInRange ==
  ASSUME NEW k \in Nat
  PROVE  FirstProbe(k) \in SecondSlots
<1> DEFINE low == k % Mask
<1>1. low \in 0 .. Mask - 1
  BY RemainderInRange, SizesAssumption
<1>2. low % 2 # 0 => low # 0
  BY <1>1
<1> QED
  BY <1>1, <1>2, SizesAssumption
  DEF FirstProbe, SecondSlots, SecondCacheSize

LEMMA ProbeInRange ==
  ASSUME NEW k \in Nat, NEW n \in Nat
  PROVE  ProbeAt(k, n) \in SecondSlots
<1>1. ProbeStep(k) \in Nat
  BY SizesAssumption DEF ProbeStep
<1>2. FirstProbe(k) \in Nat
  BY FirstProbeInRange, SizesAssumption DEF SecondSlots, SecondCacheSize
<1>3. n * ProbeStep(k) \in Nat
  BY <1>1
<1>4. FirstProbe(k) + n * ProbeStep(k) \in Nat
  BY <1>2, <1>3
<1>5. SecondCacheSize \in Nat \ {0}
  BY SizesAssumption DEF SecondCacheSize
<1> QED
  BY <1>4, <1>5, RemainderInRange DEF ProbeAt, SecondSlots

\* The bucket evicted when every probe fails is the first one probed.
LEMMA ProbeZeroIsFirstProbe ==
  ASSUME NEW k \in Nat
  PROVE  ProbeAt(k, 0) = FirstProbe(k)
<1>1. FirstProbe(k) \in 0 .. SecondCacheSize - 1
  BY FirstProbeInRange DEF SecondSlots
<1>2. ProbeStep(k) \in Nat
  BY SizesAssumption DEF ProbeStep
<1>3. FirstProbe(k) + 0 * ProbeStep(k) = FirstProbe(k)
  BY <1>1, <1>2, SizesAssumption DEF SecondCacheSize
<1>4. \A a, b \in Nat : a < b => a % b = a
  OBVIOUS
<1> QED
  BY <1>1, <1>3, <1>4, SizesAssumption DEF ProbeAt, SecondCacheSize

-----------------------------------------------------------------------------
(* Type correctness *)

LEMMA TypeInit == Init => TypeOK
<1>1. Casts # {}
  <2>1. PICK t \in Tables, h \in Hashes, q \in Places : TRUE
    BY KeysAssumption
  <2>2. [table |-> t, hash |-> h, place |-> q] \in Casts
    BY <2>1 DEF Casts
  <2> QED
    BY <2>2
<1>2. (CHOOSE c \in Casts : TRUE) \in Casts
  BY <1>1
<1>3. 0 \in SecondSlots /\ 0 \in 0 .. MaxTries - 1
  BY SizesAssumption DEF SecondSlots, SecondCacheSize
<1> QED
  BY <1>2, <1>3 DEF Init, TypeOK

\* The locals, slots and history of the cache always have their types; in
\* particular every probe and every bucket is a slot of SecondCache, for every
\* geometry (getSecondCacheBucket never indexes out of bounds).
THEOREM TypeCorrect == Spec => []TypeOK
<1>1. Init => TypeOK
  BY TypeInit
<1>2. TypeOK /\ [Next]_vars => TypeOK'
  <2> SUFFICES ASSUME TypeOK, [Next]_vars PROVE TypeOK'
    OBVIOUS
  <2>1. CASE UNCHANGED vars
    BY <2>1 DEF TypeOK, vars
  <2>2. ASSUME NEW p \in Threads, BeginCast(p) \/ Step(p) PROVE TypeOK'
    <3>1. Key(p) \in CacheKeys /\ Key(p) \in Nat \ {0}
      BY KeyIsPositive
    <3>2. FirstSlot(Key(p)) \in FirstSlots
      BY <3>1, FirstSlotInRange
    <3>3. FirstProbe(Key(p)) \in SecondSlots
      BY <3>1, FirstProbeInRange
    <3>4. Probe(p) \in SecondSlots
      BY <3>1, ProbeInRange, SizesAssumption DEF Probe, TypeOK
    <3>5. 0 \in SecondSlots /\ 0 \in 0 .. MaxTries - 1
      BY SizesAssumption DEF SecondSlots, SecondCacheSize
    <3>a. CASE BeginCast(p)
      BY <3>a DEF BeginCast, Goto, TypeOK, shared
    <3>b. CASE ReadFirst(p)
      BY <3>b, <3>5 DEF ReadFirst, Return, Done, Goto, TypeOK, shared
    <3>c. CASE ProbeEmpty(p)
      BY <3>c, <3>4 DEF ProbeEmpty, BucketIs, Goto, TypeOK, shared
    <3>d. CASE ProbeEqual(p)
      <4>1. CASE NextTry(p) /\ ~LastTry(p) /\ UNCHANGED bucket
        BY <3>d, <4>1, SizesAssumption
        DEF ProbeEqual, NextTry, LastTry, Goto, TypeOK, shared
      <4>2. CASE UNCHANGED tries /\ (BucketIs(p, Probe(p)) \/ BucketIs(p, FirstProbe(Key(p))))
        BY <3>d, <4>2, <3>3, <3>4
        DEF ProbeEqual, BucketIs, Goto, TypeOK, shared
      <4> QED
        BY <3>d, <4>1, <4>2 DEF ProbeEqual, EvictedBucket
    <3>e. CASE ReadBucket(p)
      BY <3>e DEF ReadBucket, Goto, TypeOK, shared
    <3>f. CASE Refill(p)
      BY <3>f, <3>1, <3>2, <3>5 DEF Refill, Return, Done, Goto, TypeOK
    <3>g. CASE Check(p)
      BY <3>g, <3>1, <3>5 DEF Check, Return, Done, Goto, TypeOK, shared
    <3>h. CASE UpdateFirst(p)
      BY <3>h, <3>1, <3>2 DEF UpdateFirst, Goto, TypeOK
    <3>i. CASE UpdateSecond(p)
      BY <3>i, <3>1, <3>5 DEF UpdateSecond, Done, Goto, TypeOK
    <3> QED
      BY <2>2, <3>a, <3>b, <3>c, <3>d, <3>e, <3>f, <3>g, <3>h, <3>i DEF Step
  <2> QED
    BY <2>1, <2>2 DEF Next
<1> QED
  BY <1>1, <1>2, PTL DEF Spec

-----------------------------------------------------------------------------
(* Soundness of hits *)

LEMMA SoundInit == Init => SoundInv
BY DEF Init, SoundInv, SlotsSound, ThreadSound

LEMMA SoundStep == TypeOK /\ SoundInv /\ [Next]_vars => SoundInv'
<1> SUFFICES ASSUME TypeOK, SoundInv, [Next]_vars PROVE SoundInv'
  OBVIOUS
<1>1. CASE UNCHANGED vars
  BY <1>1 DEF SoundInv, SlotsSound, ThreadSound, Key, vars
<1>2. ASSUME NEW p \in Threads, BeginCast(p) \/ Step(p) PROVE SoundInv'
  <2>1. Key(p) \in Nat \ {0}
    BY KeyIsPositive
  <2>2. FirstSlot(Key(p)) \in FirstSlots
    BY <2>1, FirstSlotInRange
  <2>3. ThreadSound(p) /\ SlotsSound
    BY DEF SoundInv
  <2> USE DEF Goto, shared
  <2>a. CASE BeginCast(p)
    BY <2>a DEF BeginCast, SoundInv, SlotsSound, ThreadSound, Key, TypeOK
  <2>b. CASE ReadFirst(p)
    <3>1. FirstHolds(p) => Key(p) \in known
      BY <2>1, <2>2, <2>3 DEF FirstHolds, SlotsSound
    <3> QED
      BY <2>b, <3>1 DEF ReadFirst, Return, Done,
        SoundInv, SlotsSound, ThreadSound, Key, TypeOK
  <2>c. CASE ProbeEmpty(p)
    BY <2>c DEF ProbeEmpty, SoundInv, SlotsSound, ThreadSound, Key, TypeOK
  <2>d. CASE ProbeEqual(p)
    BY <2>d DEF ProbeEqual, SoundInv, SlotsSound, ThreadSound, Key, TypeOK
  <2>e. CASE ReadBucket(p)
    <3>1. BucketHolds(p) => Key(p) \in known
      BY <2>1, <2>3 DEF BucketHolds, SlotsSound, TypeOK
    <3> QED
      BY <2>e, <3>1
      DEF ReadBucket, SoundInv, SlotsSound, ThreadSound, Key, TypeOK
  <2>f. CASE Refill(p)
    BY <2>f, <2>2, <2>3 DEF Refill, Return, Done,
      SoundInv, SlotsSound, ThreadSound, Key, TypeOK
  <2>g. CASE Check(p)
    BY <2>g DEF Check, Return, Done,
      SoundInv, SlotsSound, ThreadSound, Key, TypeOK
  <2>h. CASE UpdateFirst(p)
    BY <2>h, <2>2, <2>3
    DEF UpdateFirst, SoundInv, SlotsSound, ThreadSound, Key, TypeOK
  <2>i. CASE UpdateSecond(p)
    BY <2>i, <2>3
    DEF UpdateSecond, Done, SoundInv, SlotsSound, ThreadSound, Key, TypeOK
  <2> QED
    BY <1>2, <2>a, <2>b, <2>c, <2>d, <2>e, <2>f, <2>g, <2>h, <2>i DEF Step
<1> QED
  BY <1>1, <1>2 DEF Next

\* No interleaving of unlocked reads and writes makes IsInCache answer true for
\* a key that no full check has matched.
THEOREM HitsWereMatched == Spec => []HitWasMatched
<1>1. SoundInv => HitWasMatched
  BY DEF SoundInv, ThreadSound, HitWasMatched
<1> QED
  BY <1>1, TypeCorrect, SoundInit, SoundStep, PTL DEF Spec

-----------------------------------------------------------------------------
(* Searching the second level *)

\* A slot of the second level that was filled is never empty again: a bucket is
\* overwritten with another key, never cleared.
LEMMA SlotsStayFull ==
  ASSUME TypeOK, [Next]_vars, NEW s \in SecondSlots, SecondCache[s] # 0
  PROVE  SecondCache'[s] # 0
<1>1. CASE UNCHANGED vars
  BY <1>1 DEF vars
<1>2. ASSUME NEW p \in Threads, BeginCast(p) \/ Step(p)
      PROVE  SecondCache'[s] # 0
  <2>1. CASE UpdateSecond(p)
    BY <2>1, KeyIsPositive DEF UpdateSecond, TypeOK
  <2>2. CASE UNCHANGED SecondCache
    BY <2>2
  <2> QED
    BY <1>2, <2>1, <2>2 DEF Step, BeginCast, ReadFirst, ProbeEmpty, ProbeEqual,
      ReadBucket, Refill, Check, UpdateFirst, shared
<1> QED
  BY <1>1, <1>2 DEF Next

LEMMA OccupiedStays ==
  ASSUME TypeOK, [Next]_vars, NEW k \in Nat, NEW n \in Nat, Occupied(k, n)
  PROVE  Occupied(k, n)'
BY ProbeInRange, SlotsStayFull DEF Occupied

LEMMA OnPathStays ==
  ASSUME TypeOK, [Next]_vars, NEW k \in Nat, NEW s \in SecondSlots, OnPath(k, s)
  PROVE  OnPath(k, s)'
BY OccupiedStays DEF OnPath

LEMMA SearchInit == Init => SearchInv
BY DEF Init, SearchInv, ThreadSearch, StoredKeysAreSearchable, Searchable

\* The steps of a search: each failed probe adds one occupied slot, and the
\* bucket a search ends with is on the path it has walked.
LEMMA ThreadSearchStep ==
  ASSUME TypeOK, SearchInv, NEW p \in Threads, BeginCast(p) \/ Step(p)
  PROVE  ThreadSearch(p)'
<1>1. PICK k \in Nat \ {0}, n \in Nat, b \in SecondSlots :
        k = Key(p) /\ n = tries[p] /\ b = bucket[p]
  BY KeyIsPositive, SizesAssumption DEF TypeOK
<1>2. [Next]_vars
  BY DEF Next
<1>3. ThreadSearch(p) /\ n \in 0 .. MaxTries - 1
  BY <1>1 DEF SearchInv, TypeOK
<1>4. Occupied(k, n) => Occupied(k, n)'
  BY <1>1, <1>2, OccupiedStays
<1>5. OnPath(k, b) => OnPath(k, b)'
  BY <1>1, <1>2, OnPathStays
<1>6. Step(p) => Key(p)' = k
  BY <1>1 DEF Step, ReadFirst, ProbeEmpty, ProbeEqual, ReadBucket, Refill, Check,
    UpdateFirst, UpdateSecond, Key
<1>7. ASSUME Occupied(k, n)' PROVE OnPath(k, ProbeAt(k, n))'
  BY <1>3, <1>7 DEF OnPath
<1>8. OnPath(k, FirstProbe(k))'
  <2>1. 0 \in 0 .. MaxTries - 1 /\ ProbeAt(k, 0) = FirstProbe(k)
    BY SizesAssumption, ProbeZeroIsFirstProbe
  <2> QED
    BY <2>1 DEF OnPath, Occupied
<1> USE DEF Goto
<1>a. CASE BeginCast(p)
  BY <1>a, <1>3 DEF BeginCast, ThreadSearch, TypeOK
<1>b. CASE ReadFirst(p)
  <2>1. tries[p] = 0 /\ tries'[p] = 0
    BY <1>b, <1>3 DEF ReadFirst, Return, Done, ThreadSearch, TypeOK
  <2>2. pc'[p] \in {"idle", "probeEmpty"}
    BY <1>b DEF ReadFirst, Return, Done, TypeOK
  <2>3. \A m \in 0 .. tries'[p] - 1 : FALSE
    BY <2>1
  <2>4. Occupied(Key(p), tries[p])'
    BY <2>3 DEF Occupied
  <2> QED
    BY <2>1, <2>2, <2>4 DEF ThreadSearch
<1>c. CASE ProbeEmpty(p)
  <2>1. tries'[p] = n /\ Key(p)' = k /\ Probe(p) = ProbeAt(k, n)
    BY <1>c, <1>1, <1>6 DEF ProbeEmpty, Step, Probe
  <2>2. Occupied(k, n)'
    BY <1>c, <1>1, <1>3, <1>4 DEF ProbeEmpty, ThreadSearch
  <2>3. CASE SecondCache[Probe(p)] = 0
    <3>1. pc'[p] = "readBucket" /\ bucket'[p] = ProbeAt(k, n)
      BY <1>c, <2>1, <2>3 DEF ProbeEmpty, BucketIs, TypeOK
    <3> QED
      BY <3>1, <2>1, <2>2, <1>7 DEF ThreadSearch
  <2>4. CASE SecondCache[Probe(p)] # 0
    <3>1. pc'[p] = "probeEqual" /\ SecondCache'[ProbeAt(k, n)] # 0
      BY <1>c, <2>1, <2>4 DEF ProbeEmpty, TypeOK, shared
    <3> QED
      BY <3>1, <2>1, <2>2 DEF ThreadSearch, Probe
  <2> QED
    BY <2>3, <2>4
<1>d. CASE ProbeEqual(p)
  <2>1. Key(p)' = k /\ Probe(p) = ProbeAt(k, n)
    BY <1>d, <1>1, <1>6 DEF Step, Probe
  <2>2. Occupied(k, n)' /\ SecondCache'[ProbeAt(k, n)] # 0
    BY <1>d, <1>1, <1>3, <1>4, <2>1 DEF ProbeEqual, ThreadSearch, shared
  <2>3. CASE pc'[p] = "readBucket" /\ bucket'[p] = ProbeAt(k, n)
    BY <2>1, <2>2, <2>3, <1>7 DEF ThreadSearch
  <2>4. CASE pc'[p] = "readBucket" /\ bucket'[p] = FirstProbe(k)
    BY <2>1, <2>4, <1>8 DEF ThreadSearch
  <2>5. CASE pc'[p] = "probeEmpty" /\ tries'[p] = n + 1
    <3>1. Occupied(k, n + 1)'
      BY <2>2 DEF Occupied
    <3> QED
      BY <2>1, <2>5, <3>1 DEF ThreadSearch
  <2> QED
    BY <1>d, <1>1, <2>1, <2>3, <2>4, <2>5
    DEF ProbeEqual, BucketIs, NextTry, EvictedBucket, TypeOK
<1>e. CASE ReadBucket(p)
  BY <1>e, <1>1, <1>3, <1>5, <1>6 DEF Step, ReadBucket, ThreadSearch, TypeOK
<1>f. CASE Refill(p)
  BY <1>f DEF Refill, Return, Done, ThreadSearch, TypeOK
<1>g. CASE Check(p)
  BY <1>g, <1>1, <1>3, <1>5, <1>6
  DEF Step, Check, Return, Done, ThreadSearch, TypeOK
<1>h. CASE UpdateFirst(p)
  BY <1>h, <1>1, <1>3, <1>5, <1>6 DEF Step, UpdateFirst, ThreadSearch, TypeOK
<1>i. CASE UpdateSecond(p)
  BY <1>i DEF UpdateSecond, Done, ThreadSearch, TypeOK
<1> QED
  BY <1>a, <1>b, <1>c, <1>d, <1>e, <1>f, <1>g, <1>h, <1>i DEF Step

LEMMA SearchStep == TypeOK /\ SearchInv /\ [Next]_vars => SearchInv'
<1> SUFFICES ASSUME TypeOK, SearchInv, [Next]_vars PROVE SearchInv'
  OBVIOUS
<1>1. CASE UNCHANGED vars
  BY <1>1 DEF SearchInv, ThreadSearch, OnPath, Occupied, Key, Probe, vars,
    StoredKeysAreSearchable, Searchable
<1>2. ASSUME NEW p \in Threads, BeginCast(p) \/ Step(p) PROVE SearchInv'
  <2>1. ThreadSearch(p)'
    BY <1>2, ThreadSearchStep
  <2>2. ASSUME NEW q \in Threads, q # p PROVE ThreadSearch(q)'
    <3>1. PICK k \in Nat \ {0}, n \in Nat, b \in SecondSlots :
            k = Key(q) /\ n = tries[q] /\ b = bucket[q]
      BY KeyIsPositive, SizesAssumption DEF TypeOK
    <3>2. /\ pc'[q] = pc[q] /\ cast'[q] = cast[q]
          /\ tries'[q] = tries[q] /\ bucket'[q] = bucket[q]
      BY <1>2, <2>2 DEF TypeOK, BeginCast, Step, ReadFirst, ProbeEmpty, ProbeEqual,
        ReadBucket, Refill, Check, UpdateFirst, UpdateSecond, Return, Done, Goto,
        BucketIs, NextTry, shared
    <3>3. ThreadSearch(q)
      BY DEF SearchInv
    <3>4. Occupied(k, n) => Occupied(k, n)'
      BY <3>1, OccupiedStays
    <3>5. OnPath(k, b) => OnPath(k, b)'
      BY <3>1, OnPathStays
    <3>6. SecondCache[ProbeAt(k, n)] # 0 => SecondCache'[ProbeAt(k, n)] # 0
      BY <3>1, ProbeInRange, SlotsStayFull
    <3>7. Key(q)' = k /\ tries'[q] = n /\ bucket'[q] = b
      BY <3>1, <3>2 DEF Key
    <3> QED
      BY <3>1, <3>2, <3>3, <3>4, <3>5, <3>6, <3>7 DEF ThreadSearch, Probe
  <2>3. ASSUME NEW s \in SecondSlots PROVE Searchable(s)'
    <3>1. CASE SecondCache'[s] = SecondCache[s]
      <4>1. CASE SecondCache[s] = 0
        BY <3>1, <4>1 DEF Searchable
      <4>2. CASE SecondCache[s] # 0
        <5>1. PICK k \in Nat : k = SecondCache[s]
          BY DEF TypeOK
        <5>2. OnPath(k, s)
          BY <4>2, <5>1 DEF SearchInv, StoredKeysAreSearchable, Searchable,
            OnPath, Occupied
        <5>3. OnPath(k, s)'
          BY <5>1, <5>2, OnPathStays
        <5> QED
          BY <3>1, <5>1, <5>3 DEF Searchable, OnPath, Occupied
      <4> QED
        BY <4>1, <4>2
    <3>2. CASE UpdateSecond(p) /\ s = bucket[p]
      <4>1. PICK k \in Nat : k = Key(p)
        BY KeyIsPositive
      <4>2. OnPath(k, s)
        BY <3>2, <4>1 DEF UpdateSecond, SearchInv, ThreadSearch
      <4>3. OnPath(k, s)'
        BY <4>1, <4>2, OnPathStays
      <4>4. SecondCache'[s] = k
        BY <3>2, <4>1 DEF UpdateSecond, TypeOK
      <4> QED
        BY <4>3, <4>4 DEF Searchable, OnPath, Occupied
    <3> QED
      BY <1>2, <3>1, <3>2 DEF TypeOK, BeginCast, Step, ReadFirst, ProbeEmpty,
        ProbeEqual, ReadBucket, Refill, Check, UpdateFirst, UpdateSecond, shared
  <2> QED
    BY <2>1, <2>2, <2>3 DEF SearchInv, StoredKeysAreSearchable
<1> QED
  BY <1>1, <1>2 DEF Next

\* Whatever bucket a thread writes after its check, and whatever the others
\* wrote meanwhile, every key in the second level is on the path that a search
\* for it walks.
THEOREM StoredKeysAreFound == Spec => []StoredKeysAreSearchable
<1>1. SearchInv => StoredKeysAreSearchable
  BY DEF SearchInv
<1> QED
  BY <1>1, TypeCorrect, SearchInit, SearchStep, PTL DEF Spec

-----------------------------------------------------------------------------
(* Refinement *)

\* A step of thread p maps to one step of its memo entry.
LEMMA MemoStep ==
  ASSUME TypeOK, SoundInv, NEW p \in Threads, BeginCast(p) \/ Step(p)
  PROVE  [Memo!MemoNext]_(Memo!memoVars)
<1>1. Key(p) \in CacheKeys /\ ThreadSound(p)
  BY KeyIsPositive DEF SoundInv
<1>2. ASSUME NEW h, result' = [result EXCEPT ![p] = h], cast' = cast
      PROVE  View' = [View EXCEPT ![p].how = h]
  BY <1>2 DEF TypeOK, View
<1>3. View[p].how = result[p] /\ View[p].key = Key(p)
  BY DEF View, Key
<1>a. CASE BeginCast(p)
  <2>1. PICK c \in Casts : cast' = [cast EXCEPT ![p] = c]
    BY <1>a DEF BeginCast
  <2>2. KeyOf[<<c.table, c.hash>>] \in CacheKeys
    BY DEF Casts, CacheKeys
  <2>3. View' = [View EXCEPT ![p] =
                   [how |-> "asked", key |-> KeyOf[<<c.table, c.hash>>]]]
    BY <1>a, <2>1 DEF BeginCast, TypeOK, View
  <2>4. Memo!Ask(p, KeyOf[<<c.table, c.hash>>])
    BY <1>a, <2>3 DEF Memo!Ask, BeginCast
  <2> QED
    BY <2>2, <2>4 DEF Memo!MemoNext
<1>b. CASE ReadFirst(p) /\ FirstHolds(p)
  <2>1. Key(p) \in Nat \ {0} /\ FirstSlot(Key(p)) \in FirstSlots
    BY KeyIsPositive, FirstSlotInRange
  <2>2. Key(p) \in known
    BY <1>b, <2>1 DEF FirstHolds, SoundInv, SlotsSound
  <2>3. View' = [View EXCEPT ![p].how = "cached"]
    BY <1>b, <1>2 DEF ReadFirst, Return
  <2>4. View[p].how = "asked" /\ known' = known
    BY <1>b, <1>1, <1>3 DEF ReadFirst, ThreadSound
  <2>5. Memo!Recall(p)
    BY <1>3, <2>2, <2>3, <2>4 DEF Memo!Recall
  <2> QED
    BY <2>5 DEF Memo!MemoNext
<1>c. CASE Refill(p)
  <2>1. View' = [View EXCEPT ![p].how = "cached"]
    BY <1>c, <1>2 DEF Refill, Return
  <2>2. View[p].how = "asked" /\ Key(p) \in known /\ known' = known
    BY <1>c, <1>1, <1>3 DEF Refill, ThreadSound
  <2>3. Memo!Recall(p)
    BY <1>3, <2>1, <2>2 DEF Memo!Recall
  <2> QED
    BY <2>3 DEF Memo!MemoNext
<1>d. CASE Check(p) /\ PassesCheck(cast[p])
  <2>1. View' = [View EXCEPT ![p].how = "matched"]
    BY <1>d, <1>2 DEF Check
  <2>2. View[p].how = "asked" /\ known' = known \cup {Key(p)}
    BY <1>d, <1>1, <1>3 DEF Check, ThreadSound
  <2>3. Memo!Learn(p)
    BY <1>3, <2>1, <2>2 DEF Memo!Learn
  <2> QED
    BY <2>3 DEF Memo!MemoNext
<1>e. CASE Check(p) /\ ~PassesCheck(cast[p])
  <2>1. View' = [View EXCEPT ![p].how = "unmatched"]
    BY <1>e, <1>2 DEF Check, Return
  <2>2. View[p].how = "asked" /\ known' = known
    BY <1>e, <1>1, <1>3 DEF Check, ThreadSound
  <2>3. Memo!Reject(p)
    BY <2>1, <2>2 DEF Memo!Reject
  <2> QED
    BY <2>3 DEF Memo!MemoNext
<1>f. CASE result' = result /\ known' = known /\ cast' = cast
  BY <1>f DEF View, Memo!memoVars
<1> QED
  BY <1>a, <1>b, <1>c, <1>d, <1>e, <1>f
  DEF Step, ReadFirst, ProbeEmpty, ProbeEqual, ReadBucket, Check, UpdateFirst,
    UpdateSecond

\* The unlocked cache implements CastMemo: it may forget, it never invents.
THEOREM CacheImplementsMemo == Spec => ImplementsMemo
<1>1. Init => Memo!MemoInit
  <2> SUFFICES ASSUME Init PROVE Memo!MemoInit
    OBVIOUS
  <2>1. TypeOK /\ result = [p \in Threads |-> "none"] /\ known = {}
    BY TypeInit DEF Init
  <2>2. \A p \in Threads : Key(p) \in CacheKeys
    BY <2>1, KeyIsPositive
  <2> QED
    BY <2>1, <2>2 DEF Memo!MemoInit, View, Key
<1>2. TypeOK /\ SoundInv /\ [Next]_vars => [Memo!MemoNext]_(Memo!memoVars)
  <2> SUFFICES ASSUME TypeOK, SoundInv, [Next]_vars
               PROVE  [Memo!MemoNext]_(Memo!memoVars)
    OBVIOUS
  <2>1. CASE UNCHANGED vars
    BY <2>1 DEF vars, View, Memo!memoVars
  <2> QED
    BY <2>1, MemoStep DEF Next
<1> QED
  BY <1>1, <1>2, TypeCorrect, SoundInit, SoundStep, PTL
  DEF Spec, ImplementsMemo, Memo!MemoSpec

=============================================================================
