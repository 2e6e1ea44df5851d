----------------------------- MODULE BatchPool -----------------------------
(***************************************************************************)
(* What the free list of a size class promises to the caches it serves     *)
(* (AllocateBatch and DeallocateBatch of sanitizer_allocator.h): a batch   *)
(* is free or out, whoever asks, and never both.  CverHeap relies on it.   *)
(***************************************************************************)
CONSTANT Batches

VARIABLES
  free,  \* batches on the list
  out    \* batches that caches or calls under way have

vars == << free, out >>

Init == free = {} /\ out = {}

\* A new batch is carved from the region.
Make(b) ==
  /\ b \notin free \cup out
  /\ out' = out \cup {b}
  /\ UNCHANGED free

Take(b) ==
  /\ b \in free
  /\ free' = free \ {b}
  /\ out' = out \cup {b}

Give(b) ==
  /\ b \in out
  /\ free' = free \cup {b}
  /\ out' = out \ {b}

Next == \E b \in Batches : Make(b) \/ Take(b) \/ Give(b)

Spec == Init /\ [][Next]_vars
=============================================================================
