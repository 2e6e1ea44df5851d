------------------------------ MODULE MCRbTree ------------------------------
(* RbTree on small sets of nodes and objects. *)
EXTENDS RbTree, TLC

CONSTANTS u, v

\* Sound although FreeNode chooses: free nodes are all blank.
Symmetry == Permutations(Nodes)

\* Neighbours differ in their tables, and one object comes back as another.
NeighboursDiffer ==
  {[addr |-> a, size |-> 1, value |-> IF a % 2 = 0 THEN u ELSE v] : a \in Addrs}
  \cup {[addr |-> 2, size |-> 3, value |-> v]}

AnyObject == [addr : Addrs, size : Sizes, value : TypeTables]
=============================================================================
