----------------------------- MODULE ObjectHeap -----------------------------
(***************************************************************************)
(* What the heap promises to the program and to the check of casts         *)
(* (cver_allocator.cc): every block the program has carries a record of    *)
(* its own - the size asked for, and the type table and number of elements *)
(* of the object a new-expression made there - and a block is handed out   *)
(* without a type.                                                         *)
(***************************************************************************)
EXTENDS Naturals

CONSTANTS Blocks, Sizes, TypeTables, Counts, NoTable

VARIABLES
  owned,  \* the blocks the program has
  record  \* of each of them

vars == << owned, record >>

Without(b) == [x \in owned \ {b} |-> record[x]]
With(b, r) == [x \in owned \cup {b} |-> IF x = b THEN r ELSE record[x]]

Init == owned = {} /\ record = [b \in {} |-> NoTable]

Allocate(b, n) ==
  /\ b \notin owned
  /\ owned' = owned \cup {b}
  /\ record' = With(b, [size |-> n, table |-> NoTable, count |-> 0])

Release(b) ==
  /\ b \in owned
  /\ owned' = owned \ {b}
  /\ record' = Without(b)

Resize(b, n) ==
  /\ b \in owned
  /\ record' = With(b, [record[b] EXCEPT !.size = n])
  /\ UNCHANGED owned

Describe(b, v, n) ==
  /\ b \in owned
  /\ record' = With(b, [record[b] EXCEPT !.table = v, !.count = n])
  /\ UNCHANGED owned

Next ==
  \E b \in Blocks :
    \/ Release(b)
    \/ \E n \in Sizes : Allocate(b, n) \/ Resize(b, n)
    \/ \E v \in TypeTables, n \in Counts : Describe(b, v, n)

Spec == Init /\ [][Next]_vars
=============================================================================
