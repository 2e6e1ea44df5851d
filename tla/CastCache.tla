------------------------------ MODULE CastCache ------------------------------
(***************************************************************************)
(* The two-level cache of matched casts (lib/cver/cver_cache.h) as the     *)
(* threads of the program use it from __cver_handle_cast (cver_common.cc). *)
(* Neither level is locked: every load and store of a slot is a step of    *)
(* its own and the threads interleave freely between them.                 *)
(*                                                                         *)
(* A slot holds a key or 0 (empty).  FirstCache is direct mapped.  A key's *)
(* place in SecondCache is searched for with at most Tries probes; when    *)
(* every probe finds a foreign key the first one is the bucket to evict.   *)
(* IsInCache hands that bucket to UpdateCache, which writes it after the   *)
(* full check, whatever the other threads did to it in between.            *)
(***************************************************************************)
EXTENDS Naturals

CONSTANTS
  Threads,
  Tables,          \* type tables (containVec) of the objects being cast
  Hashes,          \* target hashes of the cast sites
  Places,          \* where in its object the cast pointer points
  KeyOf,           \* computeCacheKey: a key for a table and a hash
  Passes,          \* <<table, hash, place>> that the full check matches
  FirstCacheSize,
  Mask,            \* SecondCache has Mask + 1 slots (65536 in the source)
  MaxTries         \* probes per search (5 in the source)

CacheKeys == {KeyOf[<<t, h>>] : t \in Tables, h \in Hashes}
SecondCacheSize == Mask + 1
FirstSlots == 0 .. FirstCacheSize - 1
SecondSlots == 0 .. SecondCacheSize - 1

\* No key is 0: the low half of a key is the low half of a table's address.
ASSUME KeysAssumption ==
  /\ KeyOf \in [Tables \X Hashes -> Nat \ {0}]
  /\ Tables # {} /\ Hashes # {} /\ Places # {}
ASSUME PassesAssumption == Passes \subseteq Tables \X Hashes \X Places
ASSUME SizesAssumption ==
  /\ FirstCacheSize \in Nat \ {0}
  /\ Mask \in Nat \ {0} /\ Mask % 2 = 0
  /\ MaxTries \in Nat \ {0}

VARIABLES
  FirstCache, SecondCache,
  pc,         \* per thread, the next access it makes ("idle" between casts)
  cast,       \* per thread, the cast it is working on
  tries,      \* per thread, the probes already failed in getSecondCacheBucket
  bucket,     \* per thread, EvictSecondCacheBucket
  result,     \* per thread, how the current or last cast was answered
  known       \* history: the keys a full check has matched

shared == << FirstCache, SecondCache >>
vars == << FirstCache, SecondCache, pc, cast, tries, bucket, result, known >>

Casts == [table : Tables, hash : Hashes, place : Places]
Key(p) == KeyOf[<<cast[p].table, cast[p].hash>>]

-----------------------------------------------------------------------------
(* Slots *)

FirstSlot(k) == k % FirstCacheSize

\* (V & 65535) ^ 1
FirstProbe(k) ==
  LET low == k % Mask IN IF low % 2 = 0 THEN low + 1 ELSE low - 1

\* ((V >> 16) & 65535) + 1
ProbeStep(k) == ((k \div Mask) % Mask) + 1

\* The probe after n failed ones.  A step is at most Mask, so subtracting the
\* size once when a probe runs over the end is the remainder.
ProbeAt(k, n) == (FirstProbe(k) + n * ProbeStep(k)) % SecondCacheSize

Probe(p) == ProbeAt(Key(p), tries[p])

-----------------------------------------------------------------------------
Init ==
  /\ FirstCache = [s \in FirstSlots |-> 0]
  /\ SecondCache = [s \in SecondSlots |-> 0]
  /\ pc = [p \in Threads |-> "idle"]
  /\ cast = [p \in Threads |-> CHOOSE c \in Casts : TRUE]
  /\ tries = [p \in Threads |-> 0]
  /\ bucket = [p \in Threads |-> 0]
  /\ result = [p \in Threads |-> "none"]
  /\ known = {}

Goto(p, label) == pc' = [pc EXCEPT ![p] = label]

\* Locals die with the call.
Done(p) ==
  /\ Goto(p, "idle")
  /\ tries' = [tries EXCEPT ![p] = 0]
  /\ bucket' = [bucket EXCEPT ![p] = 0]

Return(p, how) == Done(p) /\ result' = [result EXCEPT ![p] = how]

\* __cver_handle_cast has found the object's type table and computes the key.
BeginCast(p) ==
  /\ pc[p] = "idle"
  /\ \E c \in Casts : cast' = [cast EXCEPT ![p] = c]
  /\ result' = [result EXCEPT ![p] = "asked"]
  /\ Goto(p, "readFirst")
  /\ UNCHANGED << shared, tries, bucket, known >>

-----------------------------------------------------------------------------
(* IsInCache *)

\* Mutant: the first level is not tagged with the key.
FirstHolds_NoTag(p) == FirstCache[FirstSlot(Key(p))] # 0
\* Mutant: any key in the bucket is a hit.
BucketHolds_Any(p) == SecondCache[bucket[p]] # 0
\* Mutant: one probe too many.
LastTry_OffByOne(p) == tries[p] + 1 > MaxTries
\* Mutant: the loop forgets to count.
NextTry_Forgotten(p) == UNCHANGED tries
\* Mutant: the bucket after the last probe is evicted.
EvictedBucket_Next(k) == ProbeAt(k, MaxTries)

FirstHolds(p) == FirstCache[FirstSlot(Key(p))] = Key(p)
ProbeHolds(p) == SecondCache[Probe(p)] = Key(p)
BucketHolds(p) == SecondCache[bucket[p]] = Key(p)
LastTry(p) == tries[p] + 1 >= MaxTries
NextTry(p) == tries' = [tries EXCEPT ![p] = @ + 1]
BucketIs(p, s) == bucket' = [bucket EXCEPT ![p] = s]

\* Every probe found a foreign key.
EvictedBucket(k) == FirstProbe(k)

ReadFirst(p) ==
  /\ pc[p] = "readFirst"
  /\ IF FirstHolds(p)
       THEN Return(p, "cached")
       ELSE Goto(p, "probeEmpty") /\ UNCHANGED << tries, bucket, result >>
  /\ UNCHANGED << shared, cast, known >>

\* getSecondCacheBucket: !SecondCache[Probe]
ProbeEmpty(p) ==
  /\ pc[p] = "probeEmpty"
  /\ IF SecondCache[Probe(p)] = 0
       THEN Goto(p, "readBucket") /\ BucketIs(p, Probe(p))
       ELSE Goto(p, "probeEqual") /\ UNCHANGED bucket
  /\ UNCHANGED << shared, cast, tries, result, known >>

\* getSecondCacheBucket: SecondCache[Probe] == V, else the next probe
ProbeEqual(p) ==
  /\ pc[p] = "probeEqual"
  /\ \/ /\ ProbeHolds(p)
        /\ Goto(p, "readBucket")
        /\ BucketIs(p, Probe(p))
        /\ UNCHANGED tries
     \/ /\ ~ProbeHolds(p) /\ ~LastTry(p)
        /\ Goto(p, "probeEmpty")
        /\ NextTry(p)
        /\ UNCHANGED bucket
     \/ /\ ~ProbeHolds(p) /\ LastTry(p)
        /\ Goto(p, "readBucket")
        /\ BucketIs(p, EvictedBucket(Key(p)))
        /\ UNCHANGED tries
  /\ UNCHANGED << shared, cast, result, known >>

\* IsInCache: *Bucket == Key
ReadBucket(p) ==
  /\ pc[p] = "readBucket"
  /\ Goto(p, IF BucketHolds(p) THEN "refill" ELSE "check")
  /\ UNCHANGED << shared, cast, tries, bucket, result, known >>

Refill(p) ==
  /\ pc[p] = "refill"
  /\ FirstCache' = [FirstCache EXCEPT ![FirstSlot(Key(p))] = Key(p)]
  /\ Return(p, "cached")
  /\ UNCHANGED << SecondCache, cast, known >>

-----------------------------------------------------------------------------
(* The full check, and UpdateCache when it matched *)

PassesCheck(c) == <<c.table, c.hash, c.place>> \in Passes

Check(p) ==
  /\ pc[p] = "check"
  /\ IF PassesCheck(cast[p])
       THEN /\ known' = known \cup {Key(p)}
            /\ Goto(p, "updateFirst")
            /\ result' = [result EXCEPT ![p] = "matched"]
            /\ UNCHANGED << tries, bucket >>
       ELSE Return(p, "unmatched") /\ UNCHANGED known
  /\ UNCHANGED << shared, cast >>

UpdateFirst(p) ==
  /\ pc[p] = "updateFirst"
  /\ FirstCache' = [FirstCache EXCEPT ![FirstSlot(Key(p))] = Key(p)]
  /\ Goto(p, "updateSecond")
  /\ UNCHANGED << SecondCache, cast, tries, bucket, result, known >>

UpdateSecond(p) ==
  /\ pc[p] = "updateSecond"
  /\ SecondCache' = [SecondCache EXCEPT ![bucket[p]] = Key(p)]
  /\ Done(p)
  /\ UNCHANGED << FirstCache, cast, result, known >>

-----------------------------------------------------------------------------
\* What a thread does inside __cver_handle_cast.
Step(p) ==
  \/ ReadFirst(p) \/ ProbeEmpty(p) \/ ProbeEqual(p) \/ ReadBucket(p)
  \/ Refill(p) \/ Check(p) \/ UpdateFirst(p) \/ UpdateSecond(p)

Next == \E p \in Threads : BeginCast(p) \/ Step(p)

\* A thread inside the runtime is never blocked and is scheduled eventually;
\* whether it makes another cast is up to the program.
Spec == Init /\ [][Next]_vars /\ \A p \in Threads : WF_vars(Step(p))

-----------------------------------------------------------------------------
(* Properties *)

TypeOK ==
  /\ FirstCache \in [FirstSlots -> Nat]
  /\ SecondCache \in [SecondSlots -> Nat]
  /\ pc \in [Threads -> {"idle", "readFirst", "probeEmpty", "probeEqual",
                         "readBucket", "refill", "check", "updateFirst",
                         "updateSecond"}]
  /\ cast \in [Threads -> Casts]
  /\ tries \in [Threads -> 0 .. MaxTries - 1]
  /\ bucket \in [Threads -> SecondSlots]
  /\ result \in [Threads -> {"none", "asked", "cached", "matched", "unmatched"}]
  /\ known \subseteq CacheKeys

\* However the unlocked accesses interleave, IsInCache answers true only for a
\* key that an earlier full check matched: a cast nobody matched is never
\* waved through.
HitWasMatched == \A p \in Threads : result[p] = "cached" => Key(p) \in known

\* A key written to the second level is always where a later search for it
\* looks: on its probe sequence, with no empty slot before it.  UpdateCache
\* writes a bucket chosen before the check, so this relies on slots never
\* becoming empty again.
Searchable(s) ==
  SecondCache[s] = 0 \/
  \E n \in 0 .. MaxTries - 1 :
    /\ ProbeAt(SecondCache[s], n) = s
    /\ \A m \in 0 .. n - 1 : SecondCache[ProbeAt(SecondCache[s], m)] # 0

StoredKeysAreSearchable == \A s \in SecondSlots : Searchable(s)

\* What "Checked results found in cache" promises: a cast answered from the
\* cache is one the full check matches too.
HitMatchesCheck ==
  \A p \in Threads : result[p] = "cached" => PassesCheck(cast[p])

\* No interleaving keeps a thread inside the runtime: the probe loop is bounded
\* and nothing is retried.
EveryCastReturns == \A p \in Threads : pc[p] # "idle" ~> pc[p] = "idle"

-----------------------------------------------------------------------------
(* The cache is a memo that may forget but never invents a match. *)

View ==
  [p \in Threads |-> [how |-> result[p],
                      key |-> KeyOf[<<cast[p].table, cast[p].hash>>]]]

Memo == INSTANCE CastMemo WITH answer <- View

ImplementsMemo == Memo!MemoSpec
=============================================================================
