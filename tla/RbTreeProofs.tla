---------------------------- MODULE RbTreeProofs ----------------------------
(***************************************************************************)
(* Proofs about RbTree for every set of nodes, addresses, sizes and        *)
(* objects and any number of readers: the pointers stay typed and never    *)
(* lead to a freed node; between operations the tree is a red-black search *)
(* tree whose parent pointers agree with its child pointers; the asserts   *)
(* of the rebalancing cases, which no build compiles in, hold; the tree    *)
(* implements the interval map; and what a lookup finds, also one that     *)
(* races with insertions, is in the tree.                                  *)
(*                                                                         *)
(* The inductive invariant says more than that, since it has to hold in    *)
(* the middle of an operation: which node may violate which rule at each   *)
(* place of the writer (PlaceInv), and what remains to be stored of a      *)
(* rotation (Midway).  It speaks of the nodes T in the tree, of the nodes  *)
(* B[n] at or below each n, and of the black heights h as sets and         *)
(* functions that exist; so it needs no recursion, and what a recursive    *)
(* definition computes is needed at the end only (UnderIsLeast,            *)
(* BlackHeightIs).  The lemmas whose names begin with Fits are the steps   *)
(* of the algorithm on a tree given as a value; those that end in Step     *)
(* apply them to the variables.  For the contents and the lookups, InTree  *)
(* tells T from the pointers alone; the lemmas that end in Maps say what a *)
(* step does to the map, and LookInv says where a lookup can be.           *)
(***************************************************************************)
EXTENDS RbTree, NumberLemmas, FiniteSetTheorems

Rotating == {"rotate1", "rotate2", "rotate3"}

-----------------------------------------------------------------------------
(* The shape of a tree: T are its nodes, R is the root, L and P are the     *)
(* child and parent pointers, and B gives the nodes below each, itself      *)
(* included.                                                                *)

IsLinked(T, R, L, P) ==
  /\ T \subseteq Nodes /\ R \in T \cup {NULL} /\ (R = NULL => T = {})
  /\ L \in [Dirs -> [Nodes -> NodesOrNull]] /\ P \in [Nodes -> NodesOrNull]
  /\ \A n \in T : \A d \in Dirs :
       /\ L[d][n] \in T \cup {NULL}
       /\ L[d][n] # NULL => P[L[d][n]] = n /\ L[d][n] # L[Other(d)][n]
  /\ \A n \in T :
       /\ P[n] \in T \cup {NULL} /\ (P[n] = NULL <=> n = R)
       /\ P[n] # NULL => \E d \in Dirs : L[d][P[n]] = n
  /\ \A n \in Nodes \ T : P[n] = NULL /\ \A d \in Dirs : L[d][n] = NULL

IsBelow(T, R, L, P, B) ==
  /\ B \in [Nodes -> SUBSET Nodes]
  /\ R # NULL => B[R] = T
  /\ \A n \in T :
       /\ n \in B[n] /\ B[n] \subseteq T
       /\ \A d \in Dirs : L[d][n] # NULL =>
            /\ B[L[d][n]] \subseteq B[n] /\ n \notin B[L[d][n]]
            /\ L[Other(d)][n] # NULL => B[L[d][n]] \cap B[L[Other(d)][n]] = {}
       /\ \A m \in B[n] :
            /\ B[m] \subseteq B[n]
            /\ m # n => /\ P[m] \in B[n]
                        /\ \E d \in Dirs : L[d][n] # NULL /\ m \in B[L[d][n]]

IsTree(T, R, L, P, B) == IsLinked(T, R, L, P) /\ IsBelow(T, R, L, P, B)

\* a lies on side d of b.
Beside(d, a, b) == IF d = "left" THEN a < b ELSE a > b

\* Left is smaller, right is larger; gone does not count.
IsOrdered(T, L, B, K, gone) ==
  \A n \in T \ {gone} : \A d \in Dirs : L[d][n] # NULL =>
    \A m \in B[L[d][n]] \ {gone} : Beside(d, K[m].addr, K[n].addr)

-----------------------------------------------------------------------------
(* Its colours.  h are black heights. *)

ColorIn(c, n) == IF n = NULL THEN "BLACK" ELSE c[n]

\* How many black nodes n counts for; gone is counted as gone already.
Blacks(c, n, gone) == IF c[n] = "BLACK" /\ n # gone THEN 1 ELSE 0

\* What short lacks.
Lack(n, short) == IF n # NULL /\ n = short THEN 1 ELSE 0

\* Both sides of a node have the same height; short is one too low.
IsBalanced(T, L, c, h, gone, short) ==
  /\ h \in [NodesOrNull -> Nat \ {0}] /\ h[NULL] = 1
  /\ \A n \in T : \A d \in Dirs :
       h[n] = h[L[d][n]] + Lack(L[d][n], short) + Blacks(c, n, gone)

\* A red node has black children, but for gone, and for except as a child.
NoRedPairs(T, L, c, gone, except) ==
  \A n \in T \ {gone} : \A d \in Dirs :
    c[n] = "RED" => L[d][n] = except \/ ColorIn(c, L[d][n]) = "BLACK"

RootIsBlack(R, c, except) == R = except \/ ColorIn(c, R) = "BLACK"

-----------------------------------------------------------------------------
(* What holds at each place of the writer *)

Settled == {"idle", "insertWalk", "deleteWalk", "deleteMax", "delete0"}

SettledInv(T, R, L, c, h, l) ==
  /\ l.gone = NULL
  /\ IsBalanced(T, L, c, h, NULL, NULL)
  /\ NoRedPairs(T, L, c, NULL, NULL) /\ RootIsBlack(R, c, NULL)

\* The new node belongs below the one the walk has reached.
InsertWalkInv(T, L, B, c, K, l) ==
  /\ l.n \in T /\ l.held \in Nodes \ T /\ c[l.held] = "RED"
  /\ K[l.held].addr = l.addr
  /\ \A n \in T : \A d \in Dirs : L[d][n] # NULL /\ l.n \in B[L[d][n]] =>
       Beside(d, l.addr, K[n].addr)

\* Only the node in hand may be a red child of a red parent, or a red root.
InsertInv(T, R, L, c, h, l) ==
  /\ l.gone = NULL /\ l.n \in T /\ c[l.n] = "RED"
  /\ IsBalanced(T, L, c, h, NULL, NULL)
  /\ NoRedPairs(T, L, c, NULL, l.n) /\ RootIsBlack(R, c, l.n)

\* insert_case5: the node is an outer grandchild under a red parent.
Insert5Inv(T, L, P, c, l) ==
  /\ P[l.n] # NULL /\ c[P[l.n]] = "RED" /\ P[P[l.n]] # NULL
  /\ \E d \in Dirs : /\ L[d][P[P[l.n]]] = P[l.n] /\ L[d][P[l.n]] = l.n
                     /\ ColorIn(c, L[Other(d)][P[P[l.n]]]) = "BLACK"

\* All other nodes of the left subtree come before those still ahead.
DeleteMaxInv(T, L, B, K, l) ==
  /\ l.held \in T /\ (\A d \in Dirs : L[d][l.held] # NULL)
  /\ l.n \in B[L["left"][l.held]]
  /\ \A m \in B[L["left"][l.held]] : m \in B[l.n] \/
       \A q \in B[l.n] : K[m].addr < K[q].addr

\* The node to unlink has at most one child, which can take its place.
GoneInv(T, L, c, l) ==
  /\ l.gone \in T
  /\ \E d \in Dirs : L[d][l.gone] = l.held /\ L[Other(d)][l.gone] = NULL
  /\ c[l.gone] = "BLACK" => ColorIn(c, l.held) = "BLACK"

\* One black is missing below the node in hand.
DeleteInv(T, R, L, B, c, h, l) ==
  /\ l.n \in T /\ l.gone \in B[l.n]
  /\ l.n # l.gone => c[l.n] = "BLACK"
  /\ GoneInv(T, L, c, l)
  /\ IsBalanced(T, L, c, h, l.gone, l.n)
  /\ NoRedPairs(T, L, c, l.gone, l.n) /\ RootIsBlack(R, c, l.n)

\* delete_case3 to 6: the sibling, on side Other(d), is black; in case 6 its
\* outer child is red.
SiblingInv(L, P, c, l) ==
  \A d \in Dirs : L[d][P[l.n]] = l.n => ColorIn(c, L[Other(d)][P[l.n]]) = "BLACK"
NephewInv(L, P, c, l) ==
  \A d \in Dirs : L[d][P[l.n]] = l.n =>
    ColorIn(c, L[Other(d)][L[Other(d)][P[l.n]]]) = "RED"

UnlinkInv(T, R, L, c, h, l) ==
  /\ GoneInv(T, L, c, l)
  /\ IsBalanced(T, L, c, h, l.gone, NULL)
  /\ NoRedPairs(T, L, c, l.gone, NULL) /\ RootIsBlack(R, c, l.gone)

PlaceInv(at, l, T, R, L, P, B, h, c, K) ==
  /\ at \in Labels \ Rotating
  /\ at \in Settled => SettledInv(T, R, L, c, h, l)
  /\ at = "insertWalk" => InsertWalkInv(T, L, B, c, K, l)
  /\ at \in {"insert1", "insert5"} => InsertInv(T, R, L, c, h, l)
  /\ at = "insert5" => Insert5Inv(T, L, P, c, l)
  /\ at = "deleteWalk" => l.n \in T \cup {NULL}
  /\ at = "deleteMax" => DeleteMaxInv(T, L, B, K, l)
  /\ at = "delete0" => l.n \in T /\ \E d \in Dirs : L[d][l.n] = NULL
  /\ at \in {"delete1", "delete2", "delete3", "delete6"} =>
       DeleteInv(T, R, L, B, c, h, l)
  /\ at \in {"delete2", "delete3", "delete6"} => P[l.n] # NULL
  /\ at \in {"delete3", "delete6"} => SiblingInv(L, P, c, l)
  /\ at = "delete6" => NephewInv(L, P, c, l)
  /\ at = "unlink" => UnlinkInv(T, R, L, c, h, l)

-----------------------------------------------------------------------------
(* A whole rotation in direction d: y, the child of x on the other side,    *)
(* takes the place of x, and x takes over i, the inner child of y.          *)

IsTurn(T, L, d, x, y, i) ==
  d \in Dirs /\ x \in T /\ y = L[Other(d)][x] /\ y # NULL /\ i = L[d][y]

TurnedRoot(R, x, y) == IF R = x THEN y ELSE R
TurnedLink(L, d, x, y, i) ==
  [e \in Dirs |-> [n \in Nodes |->
     IF n = x THEN (IF e = d THEN L[d][x] ELSE i)
     ELSE IF n = y THEN (IF e = d THEN x ELSE L[e][y])
     ELSE IF L[e][n] = x THEN y ELSE L[e][n]]]
TurnedParent(P, x, y, i) ==
  [n \in Nodes |-> IF n = x THEN y
                   ELSE IF n = y THEN P[x]
                   ELSE IF n = i THEN x ELSE P[n]]
BelowIn(B, n) == IF n = NULL THEN {} ELSE B[n]
TurnedBelow(L, B, d, x, y, i) ==
  [n \in Nodes |-> IF n = y THEN B[x]
                   ELSE IF n = x THEN {x} \cup BelowIn(B, i) \cup BelowIn(B, L[d][x])
                   ELSE B[n]]

LEMMA Mirror ==
  ASSUME NEW d \in Dirs
  PROVE  /\ Other(d) \in Dirs /\ Other(d) # d /\ Other(Other(d)) = d
         /\ Dirs = {d, Other(d)}
BY DEF Dirs, Other

\* The pointers around a rotation, before it
LEMMA TurnPlaces ==
  ASSUME NEW T, NEW R, NEW L, NEW P, NEW B, IsTree(T, R, L, P, B),
         NEW d, NEW x, NEW y, NEW i, IsTurn(T, L, d, x, y, i)
  PROVE  /\ d \in Dirs /\ Other(d) \in Dirs /\ Other(d) # d /\ Dirs = {d, Other(d)}
         /\ NULL \notin Nodes /\ T \subseteq Nodes
         /\ x \in T /\ y \in T /\ x # y /\ P[y] = x /\ L[Other(d)][x] = y
         /\ i \in T \cup {NULL} /\ i # x /\ i # y /\ L[d][y] = i
         /\ i # NULL => P[i] = y
         /\ P[x] # y /\ P[x] # x
         /\ \A e \in Dirs : L[e][y] # x /\ L[e][x] # x
         /\ x \notin B[y] /\ y \in B[y] /\ B[y] \subseteq B[x] /\ x \in B[x]
<1>1. NULL \notin Nodes
  BY ConstantsAssumption
<1>2. d \in Dirs /\ Other(d) \in Dirs /\ Other(d) # d /\ Dirs = {d, Other(d)}
  BY Mirror DEF IsTurn
<1>3. x \in T /\ y \in T /\ P[y] = x /\ L[Other(d)][x] = y /\ L[d][y] = i
  BY <1>2 DEF IsTree, IsLinked, IsTurn
<1>4. i \in T \cup {NULL} /\ y # NULL /\ (i # NULL => P[i] = y)
  BY <1>2, <1>3 DEF IsTree, IsLinked, IsTurn
<1>5. x \notin B[y] /\ y \in B[y] /\ B[y] \subseteq B[x] /\ x \in B[x]
  BY <1>2, <1>3, <1>4 DEF IsTree, IsBelow
<1>6. ASSUME NEW e \in Dirs PROVE L[e][y] # x /\ L[e][x] # x /\ L[e][y] # y
  BY <1>1, <1>3, <1>5 DEF IsTree, IsBelow, IsLinked
<1>7. P[x] # y /\ P[x] # x
  <2>1. P[x] # NULL => \E e \in Dirs : L[e][P[x]] = x
    BY <1>3 DEF IsTree, IsLinked
  <2> QED
    BY <1>4, <1>6, <1>3, <1>1, <2>1 DEF IsTree, IsLinked
<1>8. T \subseteq Nodes
  BY DEF IsTree, IsLinked
<1> QED
  BY <1>1, <1>2, <1>3, <1>4, <1>5, <1>6, <1>7, <1>8

\* and after it
LEMMA TurnedLinks ==
  ASSUME NEW T, NEW R, NEW L, NEW P, NEW B, IsTree(T, R, L, P, B),
         NEW d, NEW x, NEW y, NEW i, IsTurn(T, L, d, x, y, i),
         NEW M, M = TurnedLink(L, d, x, y, i), NEW Q, Q = TurnedParent(P, x, y, i)
  PROVE  /\ M[d][x] = L[d][x] /\ M[Other(d)][x] = i
         /\ M[d][y] = x /\ M[Other(d)][y] = L[Other(d)][y]
         /\ \A e \in Dirs, n \in Nodes : n # x /\ n # y =>
              M[e][n] = IF L[e][n] = x THEN y ELSE L[e][n]
         /\ Q[x] = y /\ Q[y] = P[x] /\ (i # NULL => Q[i] = x)
         /\ \A n \in Nodes : n # x /\ n # y /\ n # i => Q[n] = P[n]
<1>1. /\ d \in Dirs /\ Other(d) \in Dirs /\ Other(d) # d /\ x \in Nodes /\ y \in Nodes
      /\ x # y /\ i # x /\ i # y /\ (i # NULL => i \in Nodes)
  BY TurnPlaces
<1>2. \A e \in Dirs, n \in Nodes :
        M[e][n] = IF n = x THEN (IF e = d THEN L[d][x] ELSE i)
                  ELSE IF n = y THEN (IF e = d THEN x ELSE L[e][y])
                  ELSE IF L[e][n] = x THEN y ELSE L[e][n]
  BY DEF TurnedLink
<1>3. \A n \in Nodes :
        Q[n] = IF n = x THEN y ELSE IF n = y THEN P[x] ELSE IF n = i THEN x ELSE P[n]
  BY DEF TurnedParent
<1> QED
  BY <1>1, <1>2, <1>3

LEMMA TurnKeepsLinks ==
  ASSUME NEW T, NEW R, NEW L, NEW P, NEW B, IsTree(T, R, L, P, B),
         NEW d, NEW x, NEW y, NEW i, IsTurn(T, L, d, x, y, i)
  PROVE  IsLinked(T, TurnedRoot(R, x, y), TurnedLink(L, d, x, y, i),
                  TurnedParent(P, x, y, i))
<1>1. PICK M, Q, S, o : /\ M = TurnedLink(L, d, x, y, i)
                        /\ Q = TurnedParent(P, x, y, i)
                        /\ S = TurnedRoot(R, x, y) /\ o = Other(d)
  OBVIOUS
<1>2. /\ d \in Dirs /\ o \in Dirs /\ o # d /\ Dirs = {d, o} /\ Other(o) = d
      /\ NULL \notin Nodes /\ T \subseteq Nodes
      /\ x \in T /\ y \in T /\ x # y /\ P[y] = x /\ L[o][x] = y
      /\ i \in T \cup {NULL} /\ i # x /\ i # y /\ L[d][y] = i
      /\ i # NULL => P[i] = y
      /\ P[x] # y /\ P[x] # x
      /\ \A e \in Dirs : L[e][y] # x /\ L[e][x] # x
  BY <1>1, TurnPlaces, Mirror
<1>3. /\ M[d][x] = L[d][x] /\ M[o][x] = i /\ M[d][y] = x /\ M[o][y] = L[o][y]
      /\ \A e \in Dirs, n \in Nodes : n # x /\ n # y =>
           M[e][n] = IF L[e][n] = x THEN y ELSE L[e][n]
      /\ Q[x] = y /\ Q[y] = P[x] /\ (i # NULL => Q[i] = x)
      /\ \A n \in Nodes : n # x /\ n # y /\ n # i => Q[n] = P[n]
  BY <1>1, TurnedLinks
<1>4. /\ \A n \in T : \A e \in Dirs :
           /\ L[e][n] \in T \cup {NULL}
           /\ L[e][n] # NULL => P[L[e][n]] = n /\ L[e][n] # L[Other(e)][n]
      /\ \A n \in T :
           /\ P[n] \in T \cup {NULL} /\ (P[n] = NULL <=> n = R)
           /\ P[n] # NULL => \E e \in Dirs : L[e][P[n]] = n
      /\ \A n \in Nodes \ T : P[n] = NULL /\ \A e \in Dirs : L[e][n] = NULL
      /\ R \in T \cup {NULL} /\ (R = NULL => T = {})
  BY DEF IsTree, IsLinked
<1>5. \A n \in T : \A e \in Dirs : M[e][n] \in T \cup {NULL}
  BY <1>2, <1>3, <1>4
<1>6. ASSUME NEW n \in T, NEW e \in Dirs, M[e][n] # NULL PROVE Q[M[e][n]] = n
  <2>1. CASE n = x
    BY <1>2, <1>3, <1>4, <1>6, <2>1
  <2>2. CASE n = y
    BY <1>2, <1>3, <1>4, <1>6, <2>2
  <2>3. CASE n # x /\ n # y
    BY <1>2, <1>3, <1>4, <1>6, <2>3
  <2> QED
    BY <2>1, <2>2, <2>3
<1>7. ASSUME NEW n \in T, NEW e \in Dirs, M[e][n] # NULL
      PROVE  M[e][n] # M[Other(e)][n]
  <2>1. Other(e) \in Dirs /\ Other(e) # e /\ {e, Other(e)} = {d, o}
    BY <1>2, Mirror
  <2>2. CASE n = x
    BY <1>2, <1>3, <1>4, <1>7, <2>1, <2>2
  <2>3. CASE n = y
    BY <1>2, <1>3, <1>4, <1>7, <2>1, <2>3
  <2>4. CASE n # x /\ n # y
    BY <1>2, <1>3, <1>4, <1>7, <2>1, <2>4
  <2> QED
    BY <2>2, <2>3, <2>4
<1>8. \A n \in T : Q[n] \in T \cup {NULL} /\ (Q[n] = NULL <=> n = S)
  BY <1>1, <1>2, <1>3, <1>4 DEF TurnedRoot
<1>9. ASSUME NEW n \in T, Q[n] # NULL PROVE \E e \in Dirs : M[e][Q[n]] = n
  <2>1. CASE n = x
    BY <1>2, <1>3, <2>1
  <2>2. CASE n = i
    BY <1>2, <1>3, <2>2
  <2>3. CASE n = y
    <3>1. P[x] # NULL /\ P[x] \in T
      BY <1>2, <1>3, <1>4, <1>9, <2>3
    <3>2. PICK e \in Dirs : L[e][P[x]] = x
      BY <1>2, <1>4, <3>1
    <3>3. M[e][P[x]] = y
      BY <1>2, <1>3, <3>1, <3>2
    <3> QED
      BY <1>3, <2>3, <3>3
  <2>4. CASE n # x /\ n # y /\ n # i
    <3>1. Q[n] = P[n] /\ P[n] # NULL /\ P[n] \in T
      BY <1>2, <1>3, <1>4, <1>9, <2>4
    <3>2. PICK e \in Dirs : L[e][P[n]] = n
      BY <1>4, <3>1
    <3>3. CASE P[n] = x
      BY <1>2, <1>3, <2>4, <3>1, <3>2, <3>3
    <3>4. CASE P[n] = y
      BY <1>2, <1>3, <2>4, <3>1, <3>2, <3>4
    <3>5. CASE P[n] # x /\ P[n] # y
      BY <1>2, <1>3, <2>4, <3>1, <3>2, <3>5
    <3> QED
      BY <3>3, <3>4, <3>5
  <2> QED
    BY <2>1, <2>2, <2>3, <2>4
<1>10. \A n \in Nodes \ T : Q[n] = NULL /\ \A e \in Dirs : M[e][n] = NULL
  BY <1>2, <1>3, <1>4
<1>11. S \in T \cup {NULL} /\ (S = NULL => T = {})
  BY <1>1, <1>2, <1>4 DEF TurnedRoot
<1>12. M \in [Dirs -> [Nodes -> NodesOrNull]] /\ Q \in [Nodes -> NodesOrNull]
  <2>1. \A e \in Dirs, n \in Nodes : M[e][n] \in NodesOrNull
    BY <1>2, <1>5, <1>10 DEF NodesOrNull
  <2>2. \A n \in Nodes : Q[n] \in NodesOrNull
    BY <1>2, <1>8, <1>10 DEF NodesOrNull
  <2>3. Q = [n \in Nodes |-> Q[n]]
    BY <1>1 DEF TurnedParent
  <2>4. M = [e \in Dirs |-> [n \in Nodes |-> M[e][n]]]
    BY <1>1 DEF TurnedLink
  <2> QED
    BY <2>1, <2>2, <2>3, <2>4
<1>13. IsLinked(T, S, M, Q)
  BY <1>2, <1>5, <1>6, <1>7, <1>8, <1>9, <1>10, <1>11, <1>12 DEF IsLinked
<1> QED
  BY <1>1, <1>13

LEMMA TurnKeepsBelow ==
  ASSUME NEW T, NEW R, NEW L, NEW P, NEW B, IsTree(T, R, L, P, B),
         NEW d, NEW x, NEW y, NEW i, IsTurn(T, L, d, x, y, i)
  PROVE  IsBelow(T, TurnedRoot(R, x, y), TurnedLink(L, d, x, y, i),
                 TurnedParent(P, x, y, i), TurnedBelow(L, B, d, x, y, i))
<1>1. PICK M, Q, S, C, o, w :
        /\ M = TurnedLink(L, d, x, y, i) /\ Q = TurnedParent(P, x, y, i)
        /\ S = TurnedRoot(R, x, y) /\ C = TurnedBelow(L, B, d, x, y, i)
        /\ o = Other(d) /\ w = L[d][x]
  OBVIOUS
<1>2. /\ d \in Dirs /\ o \in Dirs /\ o # d /\ Dirs = {d, o} /\ Other(o) = d
      /\ NULL \notin Nodes /\ T \subseteq Nodes
      /\ x \in T /\ y \in T /\ x # y /\ P[y] = x /\ L[o][x] = y
      /\ i \in T \cup {NULL} /\ i # x /\ i # y /\ L[d][y] = i
      /\ i # NULL => P[i] = y
      /\ P[x] # y /\ P[x] # x
      /\ \A e \in Dirs : L[e][y] # x /\ L[e][x] # x
  BY <1>1, TurnPlaces, Mirror
<1>3. /\ M[d][x] = w /\ M[o][x] = i /\ M[d][y] = x /\ M[o][y] = L[o][y]
      /\ \A e \in Dirs, n \in Nodes : n # x /\ n # y =>
           M[e][n] = IF L[e][n] = x THEN y ELSE L[e][n]
      /\ Q[x] = y /\ Q[y] = P[x] /\ (i # NULL => Q[i] = x)
      /\ \A n \in Nodes : n # x /\ n # y /\ n # i => Q[n] = P[n]
  BY <1>1, TurnedLinks
<1>4. /\ \A n \in T : \A e \in Dirs :
           L[e][n] \in T \cup {NULL} /\ (L[e][n] # NULL => P[L[e][n]] = n)
      /\ R \in T \cup {NULL} /\ (R = NULL => T = {})
  BY DEF IsTree, IsLinked
<1>5. /\ R # NULL => B[R] = T
      /\ \A n \in T : n \in B[n] /\ B[n] \subseteq T
      /\ \A n \in T, e \in Dirs : L[e][n] # NULL =>
           B[L[e][n]] \subseteq B[n] /\ n \notin B[L[e][n]]
      /\ \A n \in T : L[d][n] # NULL /\ L[o][n] # NULL =>
           B[L[d][n]] \cap B[L[o][n]] = {}
      /\ \A n \in T : \A m \in B[n] : B[m] \subseteq B[n]
      /\ \A n \in T : \A m \in B[n] : m # n =>
           /\ P[m] \in B[n]
           /\ \E e \in Dirs : L[e][n] # NULL /\ m \in B[L[e][n]]
  BY <1>2 DEF IsTree, IsBelow
<1>6. /\ C[y] = B[x]
      /\ \A m : m \in C[x] <=>
           m = x \/ (i # NULL /\ m \in B[i]) \/ (w # NULL /\ m \in B[w])
      /\ \A n \in Nodes : n # x /\ n # y => C[n] = B[n]
  BY <1>1, <1>2 DEF TurnedBelow, BelowIn
<1>18. /\ w \in T \cup {NULL} /\ w # y /\ w # x
       /\ w # NULL => B[w] \cap B[y] = {} /\ B[w] \subseteq B[x] /\ x \notin B[w]
  <2>1. w \in T \cup {NULL} /\ w # x
    BY <1>1, <1>2, <1>4
  <2>2. w # y
    BY <1>1, <1>2, TurnPlaces DEF IsTree, IsLinked
  <2> QED
    BY <1>1, <1>2, <1>5, <2>1, <2>2
<1>7. C[x] \subseteq B[x] /\ y \notin C[x]
  <2>1. i # NULL => B[i] \subseteq B[y] /\ y \notin B[i]
    BY <1>2, <1>5
  <2>2. y \in B[y] /\ B[y] \subseteq B[x] /\ x \in B[x]
    BY <1>2, <1>5
  <2> QED
    BY <1>18, <1>2, <1>6, <2>1, <2>2
<1>8. S # NULL => C[S] = T
  BY <1>1, <1>2, <1>4, <1>5, <1>6 DEF TurnedRoot
<1>9. ASSUME NEW n \in T PROVE n \in C[n] /\ C[n] \subseteq T
  BY <1>2, <1>5, <1>6, <1>7
<1>10. ASSUME NEW n \in T, NEW e \in Dirs, M[e][n] # NULL
       PROVE  C[M[e][n]] \subseteq C[n] /\ n \notin C[M[e][n]]
  <2>1. CASE n = x
    <3>1. M[e][n] # x /\ M[e][n] # y /\ M[e][n] \in {i, w}
      BY <1>18, <1>2, <1>3, <2>1
    <3>2. C[M[e][n]] = B[M[e][n]]
      BY <1>1, <1>2, <1>4, <1>6, <3>1, <1>10
    <3>3. x \notin B[i] \/ i = NULL
      BY <1>2, <1>5
    <3>4. x \notin B[w] \/ w = NULL
      BY <1>1, <1>2, <1>5
    <3> QED
      BY <1>6, <1>10, <2>1, <3>1, <3>2, <3>3, <3>4
  <2>2. CASE n = y /\ e = d
    BY <1>2, <1>3, <1>6, <1>7, <2>2
  <2>3. CASE n = y /\ e = o
    <3>1. M[e][n] = L[o][y] /\ L[o][y] \in T /\ L[o][y] # x /\ L[o][y] # y
      BY <1>2, <1>3, <1>4, <1>5, <1>10, <2>3
    <3>2. B[L[o][y]] \subseteq B[y] /\ y \notin B[L[o][y]] /\ B[y] \subseteq B[x]
      BY <1>2, <1>4, <1>5, <3>1
    <3> QED
      BY <1>2, <1>6, <2>3, <3>1, <3>2
  <2>4. CASE n # x /\ n # y
    <3>1. CASE L[e][n] = x
      BY <1>2, <1>3, <1>5, <1>6, <2>4, <3>1
    <3>2. CASE L[e][n] # x
      <4>1. M[e][n] = L[e][n] /\ L[e][n] # y /\ L[e][n] \in T
        BY <1>2, <1>3, <1>4, <1>10, <2>4, <3>2
      <4> QED
        BY <1>2, <1>5, <1>6, <2>4, <3>2, <4>1
    <3> QED
      BY <3>1, <3>2
  <2> QED
    BY <1>2, <2>1, <2>2, <2>3, <2>4
<1>11. ASSUME NEW n \in T, M[d][n] # NULL, M[o][n] # NULL
       PROVE  C[M[d][n]] \cap C[M[o][n]] = {}
  <2>1. CASE n = x
    <3>1. M[d][n] = w /\ M[o][n] = i /\ w \in T /\ w # y /\ w # x
      BY <1>18, <1>2, <1>3, <1>11, <2>1
    <3>2. C[w] = B[w] /\ C[i] = B[i] /\ i \in T
      BY <1>2, <1>3, <1>6, <1>11, <2>1, <3>1
    <3>3. B[w] \cap B[y] = {} /\ B[i] \subseteq B[y]
      BY <1>1, <1>2, <1>5, <3>1, <3>2
    <3> QED
      BY <3>1, <3>2, <3>3
  <2>2. CASE n = y
    <3>1. M[d][n] = x /\ M[o][n] = L[o][y] /\ L[o][y] \in T /\ L[o][y] # x
          /\ L[o][y] # y /\ L[o][y] # NULL
      BY <1>2, <1>3, <1>4, <1>5, <1>11, <2>2
    <3>2. /\ B[L[o][y]] \subseteq B[y] /\ x \notin B[y] /\ y \in B[y]
          /\ i # NULL => B[i] \cap B[L[o][y]] = {}
          /\ w # NULL => B[w] \cap B[y] = {}
      BY <1>1, <1>2, <1>4, <1>5, <3>1
    <3> QED
      BY <1>2, <1>6, <3>1, <3>2
  <2>3. CASE n # x /\ n # y
    <3>1. /\ L[d][n] # NULL /\ L[o][n] # NULL /\ L[d][n] # y /\ L[o][n] # y
          /\ L[d][n] \in T /\ L[o][n] \in T
      BY <1>2, <1>3, <1>4, <1>11, <2>3
    <3>2. ASSUME NEW e \in Dirs PROVE C[M[e][n]] = B[L[e][n]]
      BY <1>2, <1>3, <1>6, <2>3, <3>1
    <3> QED
      BY <1>2, <1>5, <3>1, <3>2
  <2> QED
    BY <2>1, <2>2, <2>3
<1>12. ASSUME NEW n \in T, NEW m \in C[n] PROVE C[m] \subseteq C[n]
  <2>0. m \in T
    BY <1>9, <1>12
  <2>1. CASE n # x /\ n # y
    <3>1. C[n] = B[n]
      BY <1>2, <1>6, <2>1
    <3>2. m = y => x \in B[n]
      BY <1>2, <1>5, <1>12, <2>1, <3>1
    <3>3. x \in B[n] => B[x] \subseteq B[n]
      BY <1>5
    <3>4. B[m] \subseteq B[n]
      BY <1>5, <1>12, <3>1
    <3> QED
      BY <1>2, <1>6, <1>7, <2>0, <3>1, <3>2, <3>3, <3>4
  <2>2. CASE n = y
    BY <1>2, <1>5, <1>6, <1>7, <1>12, <2>0, <2>2
  <2>3. CASE n = x
    <3>1. CASE i # NULL /\ m \in B[i]
      <4>1. B[m] \subseteq B[i] /\ m # x /\ m # y
        BY <1>2, <1>4, <1>5, <1>7, <1>12, <2>3, <3>1
      <4> QED
        BY <1>2, <1>6, <2>0, <2>3, <3>1, <4>1
    <3>2. CASE w # NULL /\ m \in B[w]
      <4>1. B[m] \subseteq B[w] /\ m # x /\ m # y
        BY <1>1, <1>2, <1>4, <1>5, <1>7, <1>12, <2>3, <3>2
      <4> QED
        BY <1>2, <1>6, <2>0, <2>3, <3>2, <4>1
    <3> QED
      BY <1>6, <1>12, <2>3, <3>1, <3>2
  <2> QED
    BY <2>1, <2>2, <2>3
<1>13. ASSUME NEW n \in T, NEW m \in C[n], m # n PROVE Q[m] \in C[n]
  <2>0. m \in T
    BY <1>9, <1>13
  <2>1. CASE n # x /\ n # y
    <3>1. C[n] = B[n]
      BY <1>2, <1>6, <2>1
    <3>2. P[m] \in B[n]
      BY <1>5, <1>13, <3>1
    <3>3. m = y => P[x] \in B[n]
      BY <1>2, <1>5, <2>1, <3>2
    <3>4. m = x => y \in B[n]
      BY <1>2, <1>5, <1>13, <3>1
    <3>5. m = i => x \in B[n]
      BY <1>2, <1>4, <1>5, <2>0, <2>1, <3>2
    <3> QED
      BY <1>2, <1>3, <2>0, <3>1, <3>2, <3>3, <3>4, <3>5
  <2>2. CASE n = y
    BY <1>2, <1>3, <1>5, <1>6, <1>13, <2>0, <2>2
  <2>3. CASE n = x
    <3>1. m # x /\ m # y /\ (m = i => Q[m] = x)
      BY <1>2, <1>3, <1>7, <1>13, <2>0, <2>3
    <3>2. CASE m # i /\ i # NULL /\ m \in B[i]
      BY <1>2, <1>3, <1>5, <1>6, <2>0, <2>3, <3>1, <3>2
    <3>3. CASE m # i /\ w # NULL /\ m \in B[w]
      <4>1. Q[m] = P[m] /\ w \in T
        BY <1>1, <1>2, <1>3, <1>4, <2>0, <3>1, <3>3
      <4>2. m = w => P[m] = x
        BY <1>1, <1>2, <1>4, <3>3
      <4>3. m # w => P[m] \in B[w]
        BY <1>5, <3>3, <4>1
      <4> QED
        BY <1>6, <2>3, <3>3, <4>1, <4>2, <4>3
    <3> QED
      BY <1>6, <1>13, <2>3, <3>1, <3>2, <3>3
  <2> QED
    BY <2>1, <2>2, <2>3
<1>14. ASSUME NEW n \in T, NEW m \in C[n], m # n
       PROVE  \E e \in Dirs : M[e][n] # NULL /\ m \in C[M[e][n]]
  <2>0. m \in T
    BY <1>9, <1>14
  <2>1. CASE n # x /\ n # y
    <3>1. PICK e \in Dirs : L[e][n] # NULL /\ m \in B[L[e][n]]
      BY <1>2, <1>5, <1>6, <1>14, <2>1
    <3>2. L[e][n] # y /\ L[e][n] \in T
      BY <1>2, <1>4, <2>1, <3>1
    <3>3. M[e][n] # NULL /\ m \in C[M[e][n]]
      BY <1>2, <1>3, <1>6, <2>1, <3>1, <3>2
    <3> QED
      BY <3>3
  <2>2. CASE n = y
    <3>1. m \in B[x]
      BY <1>6, <1>14, <2>2
    <3>2. CASE m \in C[x]
      BY <1>2, <1>3, <2>2, <3>2
    <3>3. CASE m \notin C[x]
      <4>1. m # x /\ ~(w # NULL /\ m \in B[w]) /\ ~(i # NULL /\ m \in B[i])
        BY <1>6, <3>3
      <4>2. m \in B[y]
        BY <1>1, <1>2, <1>5, <3>1, <4>1
      <4>3. L[o][y] # NULL /\ m \in B[L[o][y]]
        BY <1>2, <1>5, <1>14, <2>2, <4>1, <4>2
      <4>4. L[o][y] \in T /\ L[o][y] # x /\ L[o][y] # y
        BY <1>2, <1>4, <1>5, <4>3
      <4> QED
        BY <1>2, <1>3, <1>6, <2>2, <4>3, <4>4
    <3> QED
      BY <3>2, <3>3
  <2>3. CASE n = x
    <3>1. CASE i # NULL /\ m \in B[i]
      BY <1>2, <1>3, <1>6, <2>3, <3>1
    <3>2. CASE w # NULL /\ m \in B[w]
      <4>1. w \in T /\ w # x /\ w # y
        BY <1>18, <3>2
      <4> QED
        BY <1>2, <1>3, <1>6, <2>3, <3>2, <4>1
    <3> QED
      BY <1>6, <1>14, <2>3, <3>1, <3>2
  <2> QED
    BY <2>1, <2>2, <2>3
<1>15. C \in [Nodes -> SUBSET Nodes]
  <2>1. \A n \in Nodes : C[n] \subseteq Nodes
    <3>1. \A n \in Nodes : B[n] \subseteq Nodes
      BY DEF IsTree, IsBelow
    <3> QED
      BY <1>2, <1>6, <1>9, <3>1
  <2>2. C = [n \in Nodes |-> C[n]]
    BY <1>1 DEF TurnedBelow
  <2> QED
    BY <2>1, <2>2
<1>16. ASSUME NEW n \in T, NEW e \in Dirs, M[e][n] # NULL, M[Other(e)][n] # NULL
       PROVE  C[M[e][n]] \cap C[M[Other(e)][n]] = {}
  <2>1. (e = d /\ Other(e) = o) \/ (e = o /\ Other(e) = d)
    BY <1>1, <1>2
  <2>2. M[d][n] # NULL /\ M[o][n] # NULL
    BY <1>16, <2>1
  <2> QED
    BY <1>11, <2>1, <2>2
<1>17. IsBelow(T, S, M, Q, C)
  BY <1>8, <1>9, <1>10, <1>12, <1>13, <1>14, <1>15, <1>16 DEF IsBelow
<1> QED
  BY <1>1, <1>17

LEMMA BesideFacts ==
  ASSUME NEW d \in Dirs
  PROVE  /\ \A a, b \in Nat : Beside(Other(d), a, b) <=> Beside(d, b, a)
         /\ \A a, b, c \in Nat : Beside(d, a, b) /\ Beside(d, b, c) => Beside(d, a, c)
BY DEF Dirs, Other, Beside

LEMMA AddressesAreNumbers ==
  ASSUME NEW K \in [Nodes -> Keys], NEW n \in Nodes
  PROVE  K[n].addr \in Nat /\ K[n].addr \in Addrs
BY ConstantsAssumption DEF Keys

LEMMA TurnKeepsOrder ==
  ASSUME NEW T, NEW R, NEW L, NEW P, NEW B, IsTree(T, R, L, P, B),
         NEW d, NEW x, NEW y, NEW i, IsTurn(T, L, d, x, y, i),
         NEW K \in [Nodes -> Keys], NEW gone, gone # x, gone # y,
         IsOrdered(T, L, B, K, gone)
  PROVE  IsOrdered(T, TurnedLink(L, d, x, y, i), TurnedBelow(L, B, d, x, y, i), K, gone)
<1>1. PICK M, C, o, w :
        /\ M = TurnedLink(L, d, x, y, i) /\ C = TurnedBelow(L, B, d, x, y, i)
        /\ o = Other(d) /\ w = L[d][x]
  OBVIOUS
<1>2. /\ d \in Dirs /\ o \in Dirs /\ o # d /\ Dirs = {d, o} /\ Other(o) = d
      /\ NULL \notin Nodes /\ T \subseteq Nodes
      /\ x \in T /\ y \in T /\ x # y /\ P[y] = x /\ L[o][x] = y
      /\ i \in T \cup {NULL} /\ i # x /\ i # y /\ L[d][y] = i
      /\ \A e \in Dirs : L[e][y] # x /\ L[e][x] # x
      /\ y \in B[y] /\ B[y] \subseteq B[x]
  BY <1>1, TurnPlaces, Mirror
<1>3. /\ M[d][x] = w /\ M[o][x] = i /\ M[d][y] = x /\ M[o][y] = L[o][y]
      /\ \A e \in Dirs, n \in Nodes : n # x /\ n # y =>
           M[e][n] = IF L[e][n] = x THEN y ELSE L[e][n]
  BY <1>1, TurnedLinks
<1>4. \A n \in T : \A e \in Dirs :
        /\ L[e][n] \in T \cup {NULL} /\ (L[e][n] # NULL => P[L[e][n]] = n)
        /\ L[e][n] # NULL => B[L[e][n]] \subseteq B[n] /\ B[n] \subseteq T
                             /\ n \notin B[L[e][n]] /\ L[e][n] \in B[L[e][n]]
  BY <1>2 DEF IsTree, IsLinked, IsBelow
<1>5. /\ C[y] = B[x]
      /\ \A m : m \in C[x] <=>
           m = x \/ (i # NULL /\ m \in B[i]) \/ (w # NULL /\ m \in B[w])
      /\ \A n \in Nodes : n # x /\ n # y => C[n] = B[n]
  BY <1>1, <1>2 DEF TurnedBelow, BelowIn
<1>6. \A n \in Nodes : K[n].addr \in Nat
  BY AddressesAreNumbers
<1>7. \A n \in T \ {gone} : \A e \in Dirs : L[e][n] # NULL =>
        \A m \in B[L[e][n]] \ {gone} : Beside(e, K[m].addr, K[n].addr)
  BY DEF IsOrdered
<1>8. w # NULL => w \in T /\ w # x /\ w # y /\ w \in Nodes
  <2>1. w # y
    BY <1>1, <1>2, TurnPlaces DEF IsTree, IsLinked
  <2> QED
    BY <1>1, <1>2, <1>4, <2>1
<1>9. ASSUME NEW n \in T \ {gone}, NEW e \in Dirs, M[e][n] # NULL,
             NEW m \in C[M[e][n]] \ {gone}
      PROVE  Beside(e, K[m].addr, K[n].addr)
  <2>1. CASE n = x
    <3>1. CASE e = d
      BY <1>1, <1>2, <1>3, <1>5, <1>7, <1>8, <1>9, <2>1, <3>1
    <3>2. CASE e = o
      <4>1. m \in B[i] /\ i # NULL
        BY <1>2, <1>3, <1>5, <1>9, <2>1, <3>2
      <4>2. m \in B[y]
        BY <1>2, <1>4, <4>1
      <4> QED
        BY <1>2, <1>4, <1>7, <2>1, <3>2, <4>2
    <3> QED
      BY <1>2, <3>1, <3>2
  <2>2. CASE n = y /\ e = o
    <3>1. L[o][y] \in T /\ L[o][y] # x /\ L[o][y] # y /\ L[o][y] # NULL
      BY <1>2, <1>3, <1>4, <1>9, <2>2
    <3>2. m \in B[L[o][y]]
      BY <1>2, <1>3, <1>5, <1>9, <2>2, <3>1
    <3> QED
      BY <1>2, <1>7, <2>2, <3>1, <3>2
  <2>3. CASE n = y /\ e = d
    <3>0. m \in C[x]
      BY <1>3, <1>9, <2>3
    <3>1. Beside(o, K[y].addr, K[x].addr)
      BY <1>2, <1>4, <1>7
    <3>2. Beside(d, K[x].addr, K[y].addr)
      BY <1>1, <1>2, <1>6, <3>1, BesideFacts
    <3>3. CASE i # NULL /\ m \in B[i]
      BY <1>2, <1>7, <2>3, <3>3, <1>9
    <3>4. CASE w # NULL /\ m \in B[w]
      <4>1. Beside(d, K[m].addr, K[x].addr)
        BY <1>1, <1>2, <1>7, <1>9, <3>4
      <4>2. m \in Nodes
        BY <1>1, <1>2, <1>4, <3>4
      <4> QED
        BY <1>2, <1>6, <2>3, <3>2, <4>1, <4>2, BesideFacts
    <3> QED
      BY <1>5, <2>3, <3>0, <3>2, <3>3, <3>4
  <2>4. CASE n # x /\ n # y
    <3>1. L[e][n] # NULL /\ m \in B[L[e][n]]
      <4>1. CASE L[e][n] = x
        BY <1>2, <1>3, <1>5, <1>9, <2>4, <4>1
      <4>2. CASE L[e][n] # x
        <5>1. M[e][n] = L[e][n] /\ L[e][n] # y /\ L[e][n] \in T
          BY <1>2, <1>3, <1>4, <1>9, <2>4, <4>2
        <5> QED
          BY <1>2, <1>5, <1>9, <4>2, <5>1
      <4> QED
        BY <4>1, <4>2
    <3> QED
      BY <1>7, <1>9, <3>1
  <2> QED
    BY <1>2, <2>1, <2>2, <2>3, <2>4
<1> QED
  BY <1>1, <1>9 DEF IsOrdered

-----------------------------------------------------------------------------
(* The steps of the writer, on the tree alone *)

OrderGone(at, l) == IF at = "delete0" THEN l.n ELSE l.gone

Fits(at, l, c, K, T, R, L, P, B, h) ==
  /\ IsTree(T, R, L, P, B) /\ IsOrdered(T, L, B, K, OrderGone(at, l))
  /\ K \in [Nodes -> Keys] /\ c \in [Nodes -> {"RED", "BLACK"}]
  /\ PlaceInv(at, l, T, R, L, P, B, h, c, K)

DirIn(L, P, n) == IF n = L["left"][P[n]] THEN "left" ELSE "right"

LEMMA Relatives ==
  ASSUME NEW T, NEW R, NEW L, NEW P, NEW B, IsTree(T, R, L, P, B),
         NEW n \in T, P[n] # NULL, NEW d, d = DirIn(L, P, n)
  PROVE  /\ d \in Dirs /\ Other(d) \in Dirs /\ d # Other(d) /\ Other(Other(d)) = d
         /\ Dirs = {d, Other(d)} /\ P[n] \in T /\ P[n] # n
         /\ L[d][P[n]] = n /\ L[Other(d)][P[n]] # n
         /\ L[Other(d)][P[n]] # NULL => L[Other(d)][P[n]] \in T
<1>1. NULL \notin Nodes
  BY ConstantsAssumption
<1>2. P[n] \in T /\ \E e \in Dirs : L[e][P[n]] = n
  BY DEF IsTree, IsLinked
<1>3. d \in Dirs /\ L[d][P[n]] = n
  BY <1>2 DEF DirIn, Dirs
<1>4. n \in Nodes /\ n # NULL
  BY <1>1 DEF IsTree, IsLinked
<1>5. L[Other(d)][P[n]] # n
  BY <1>2, <1>3, <1>4 DEF IsTree, IsLinked
<1>6. P[n] # n
  BY <1>2, <1>3, <1>4 DEF IsTree, IsBelow
<1>7. L[Other(d)][P[n]] # NULL => L[Other(d)][P[n]] \in T
  BY <1>2, <1>3, Mirror DEF IsTree, IsLinked
<1> QED
  BY <1>2, <1>3, <1>5, <1>6, <1>7, Mirror

\* What IsTree says of children, in the form most steps use.
LEMMA Children ==
  ASSUME NEW T, NEW R, NEW L, NEW P, NEW B, IsTree(T, R, L, P, B)
  PROVE  /\ NULL \notin T /\ NULL \notin Nodes /\ T \subseteq Nodes
         /\ \A n \in T, d \in Dirs : L[d][n] # NULL =>
              /\ L[d][n] \in T /\ P[L[d][n]] = n /\ L[d][n] # n
              /\ L[d][n] # L[Other(d)][n]
         /\ \A n \in T : P[n] = NULL <=> n = R
         /\ R # NULL => R \in T
<1>1. NULL \notin Nodes
  BY ConstantsAssumption
<1>2. T \subseteq Nodes
  BY DEF IsTree, IsLinked
<1>3. ASSUME NEW n \in T, NEW d \in Dirs, L[d][n] # NULL
      PROVE  L[d][n] \in T /\ P[L[d][n]] = n /\ L[d][n] # n /\ L[d][n] # L[Other(d)][n]
  BY <1>3 DEF IsTree, IsLinked, IsBelow
<1> QED
  BY <1>1, <1>2, <1>3 DEF IsTree, IsLinked

LEMMA Descendants ==
  ASSUME NEW T, NEW R, NEW L, NEW P, NEW B, IsTree(T, R, L, P, B)
  PROVE  /\ \A n \in T : n \in B[n] /\ B[n] \subseteq T
         /\ \A n \in T, d \in Dirs : L[d][n] # NULL =>
              /\ L[d][n] \in T /\ L[d][n] \in B[L[d][n]] /\ B[L[d][n]] \subseteq T
              /\ B[L[d][n]] \subseteq B[n] /\ n \notin B[L[d][n]]
              /\ L[Other(d)][n] # NULL => B[L[d][n]] \cap B[L[Other(d)][n]] = {}
         /\ \A n \in T : \A m \in B[n] :
              /\ B[m] \subseteq B[n]
              /\ m # n => /\ P[m] \in B[n]
                          /\ \E d \in Dirs : L[d][n] # NULL /\ m \in B[L[d][n]]
<1>1. \A n \in T : n \in B[n] /\ B[n] \subseteq T
  BY DEF IsTree, IsBelow
<1>2. ASSUME NEW n \in T, NEW d \in Dirs, L[d][n] # NULL
      PROVE  /\ L[d][n] \in T /\ L[d][n] \in B[L[d][n]] /\ B[L[d][n]] \subseteq T
             /\ B[L[d][n]] \subseteq B[n] /\ n \notin B[L[d][n]]
             /\ L[Other(d)][n] # NULL => B[L[d][n]] \cap B[L[Other(d)][n]] = {}
  <2>1. L[d][n] \in T
    BY <1>2, Children
  <2>2. L[d][n] \in B[L[d][n]] /\ B[L[d][n]] \subseteq T
    BY <1>1, <2>1
  <2> QED
    BY <1>2, <2>1, <2>2 DEF IsTree, IsBelow
<1>3. \A n \in T : \A m \in B[n] :
        /\ B[m] \subseteq B[n]
        /\ m # n => /\ P[m] \in B[n]
                    /\ \E d \in Dirs : L[d][n] # NULL /\ m \in B[L[d][n]]
  BY DEF IsTree, IsBelow
<1> QED
  BY <1>1, <1>2, <1>3

LEMMA EvenBalance ==
  ASSUME NEW T, NEW R, NEW L, NEW P, NEW B, IsTree(T, R, L, P, B),
         NEW c, NEW h, NEW gone
  PROVE  IsBalanced(T, L, c, h, gone, NULL) <=>
           /\ h \in [NodesOrNull -> Nat \ {0}] /\ h[NULL] = 1
           /\ \A n \in T, d \in Dirs : h[n] = h[L[d][n]] + Blacks(c, n, gone)
<1>1. ASSUME NEW n PROVE Lack(n, NULL) = 0
  BY DEF Lack
<1>2. ASSUME NEW n \in T, NEW d \in Dirs, h \in [NodesOrNull -> Nat \ {0}]
      PROVE  h[L[d][n]] + Lack(L[d][n], NULL) = h[L[d][n]]
  <2>1. L[d][n] \in NodesOrNull
    BY DEF IsTree, IsLinked, NodesOrNull
  <2> QED
    BY <1>1, <1>2, <2>1
<1> QED
  BY <1>2 DEF IsBalanced

LEMMA Heights ==
  ASSUME NEW T, NEW R, NEW L, NEW P, NEW B, IsTree(T, R, L, P, B),
         NEW h \in [NodesOrNull -> Nat \ {0}]
  PROVE  /\ NULL \in NodesOrNull /\ T \subseteq NodesOrNull
         /\ \A n \in NodesOrNull : h[n] \in Nat /\ h[n] # 0
         /\ \A n \in T : \A d \in Dirs : L[d][n] \in NodesOrNull
BY DEF IsTree, IsLinked, NodesOrNull

\* Under a red parent: the parent is not the root, and the grandparent is black.
LEMMA RedParent ==
  ASSUME NEW l, NEW c, NEW T, NEW R, NEW L, NEW P, NEW B, NEW h,
         IsTree(T, R, L, P, B), InsertInv(T, R, L, c, h, l),
         c \in [Nodes -> {"RED", "BLACK"}],
         P[l.n] # NULL, c[P[l.n]] = "RED"
  PROVE  /\ P[l.n] \in T /\ P[P[l.n]] # NULL /\ P[P[l.n]] \in T
         /\ c[P[P[l.n]]] = "BLACK" /\ c[R] = "BLACK" /\ R # l.n /\ R # P[l.n]
<1>1. PICK n, p : n = l.n /\ p = P[n]
  OBVIOUS
<1>2. n \in T /\ p \in T /\ p # n /\ p # NULL /\ n # R
  BY <1>1, Relatives, Children DEF InsertInv
<1>3. R # NULL
  BY <1>2 DEF IsTree, IsLinked
<1>4. R # p /\ c[R] = "BLACK"
  BY <1>1, <1>2, <1>3 DEF InsertInv, RootIsBlack, ColorIn
<1>5. P[p] # NULL
  BY <1>2, <1>4, Children
<1>6. PICK e : e = DirIn(L, P, p)
  OBVIOUS
<1>7. e \in Dirs /\ P[p] \in T /\ L[e][P[p]] = p
  BY <1>2, <1>5, <1>6, Relatives
<1>8. c[P[p]] # "RED"
  BY <1>1, <1>2, <1>7, Children DEF InsertInv, NoRedPairs, ColorIn
<1>9. c[P[p]] = "BLACK"
  BY <1>7, <1>8, Children
<1> QED
  BY <1>1, <1>2, <1>4, <1>5, <1>7, <1>9

\* insert_case1
LEMMA FitsInsertCase1 ==
  ASSUME NEW l, NEW c, NEW K, NEW T, NEW R, NEW L, NEW P, NEW B, NEW h,
         Fits("insert1", l, c, K, T, R, L, P, B, h), P[l.n] = NULL
  PROVE  Fits("idle", NoLocals, [c EXCEPT ![l.n] = "BLACK"], K, T, R, L, P, B,
              [h EXCEPT ![l.n] = @ + 1])
<1>1. PICK n, c2, h2 : /\ n = l.n /\ c2 = [c EXCEPT ![n] = "BLACK"]
                       /\ h2 = [h EXCEPT ![n] = @ + 1]
  OBVIOUS
<1>2. IsTree(T, R, L, P, B) /\ InsertInv(T, R, L, c, h, l)
      /\ c \in [Nodes -> {"RED", "BLACK"}]
  BY DEF Fits, PlaceInv
<1>3. n \in T /\ n = R /\ n \in Nodes /\ n # NULL /\ n \in NodesOrNull
  BY <1>1, <1>2, Children DEF InsertInv, NodesOrNull
<1>4. /\ c2[n] = "BLACK" /\ \A m \in Nodes : m # n => c2[m] = c[m]
      /\ c2 \in [Nodes -> {"RED", "BLACK"}]
  BY <1>1, <1>2, <1>3
<1>5. /\ h \in [NodesOrNull -> Nat \ {0}] /\ h[NULL] = 1
      /\ \A m \in T, d \in Dirs : h[m] = h[L[d][m]] + Blacks(c, m, NULL)
      /\ c[n] = "RED"
  BY <1>1, <1>2, EvenBalance DEF InsertInv
<1>6. /\ h2[n] = h[n] + 1 /\ \A m \in NodesOrNull : m # n => h2[m] = h[m]
      /\ h2 \in [NodesOrNull -> Nat \ {0}]
  BY <1>1, <1>3, <1>5
<1>7. ASSUME NEW m \in T, NEW d \in Dirs
      PROVE  h2[m] = h2[L[d][m]] + Blacks(c2, m, NULL)
  <2>1. L[d][m] # n /\ L[d][m] \in NodesOrNull /\ m \in Nodes
    BY <1>2, <1>3, Children DEF NodesOrNull
  <2>2. h[L[d][m]] \in Nat /\ h[m] = h[L[d][m]] + Blacks(c, m, NULL)
        /\ h2[L[d][m]] = h[L[d][m]]
    BY <1>2, <1>5, <1>6, <2>1, Heights
  <2>3. CASE m = n
    BY <1>3, <1>4, <1>5, <1>6, <2>2, <2>3 DEF Blacks
  <2>4. CASE m # n
    <3>1. h2[m] = h[m] /\ Blacks(c2, m, NULL) = Blacks(c, m, NULL)
      BY <1>2, <1>4, <1>6, <2>1, <2>4, Heights DEF Blacks, NodesOrNull
    <3> QED
      BY <2>2, <3>1
  <2> QED
    BY <2>3, <2>4
<1>8. IsBalanced(T, L, c2, h2, NULL, NULL)
  <2>1. h2[NULL] = 1
    BY <1>3, <1>5, <1>6, Heights, <1>2
  <2> QED
    BY <1>2, <1>6, <1>7, <2>1, EvenBalance
<1>9. NoRedPairs(T, L, c2, NULL, NULL) /\ RootIsBlack(R, c2, NULL)
  <2>1. ASSUME NEW m \in T, NEW d \in Dirs, c2[m] = "RED"
        PROVE  ColorIn(c2, L[d][m]) = "BLACK"
    <3>1. L[d][m] # n /\ m # n /\ m # NULL /\ m \in Nodes
          /\ (L[d][m] # NULL => L[d][m] \in Nodes)
      BY <1>2, <1>3, <1>4, <2>1, Children
    <3> QED
      BY <1>1, <1>2, <1>4, <2>1, <3>1 DEF InsertInv, NoRedPairs, ColorIn
  <2> QED
    BY <1>3, <1>4, <2>1 DEF NoRedPairs, RootIsBlack, ColorIn
<1>10. NoLocals.gone = NULL /\ l.gone = NULL
  BY <1>2 DEF NoLocals, InsertInv
<1>11. IsOrdered(T, L, B, K, NoLocals.gone) /\ K \in [Nodes -> Keys]
  BY <1>10 DEF Fits, OrderGone
<1>12. Fits("idle", NoLocals, c2, K, T, R, L, P, B, h2)
  BY <1>2, <1>4, <1>8, <1>9, <1>10, <1>11
  DEF Fits, PlaceInv, OrderGone, Settled, SettledInv, Labels, Rotating
<1> QED
  BY <1>1, <1>12

\* insert_case2
LEMMA FitsInsertCase2 ==
  ASSUME NEW l, NEW c, NEW K, NEW T, NEW R, NEW L, NEW P, NEW B, NEW h,
         Fits("insert1", l, c, K, T, R, L, P, B, h),
         P[l.n] # NULL, ColorIn(c, P[l.n]) = "BLACK"
  PROVE  Fits("idle", NoLocals, c, K, T, R, L, P, B, h)
<1>1. IsTree(T, R, L, P, B) /\ InsertInv(T, R, L, c, h, l)
  BY DEF Fits, PlaceInv
<1>2. NoRedPairs(T, L, c, NULL, NULL)
  <2>1. ASSUME NEW m \in T, NEW d \in Dirs, c[m] = "RED"
        PROVE  ColorIn(c, L[d][m]) = "BLACK"
    <3>1. m # NULL /\ (L[d][m] = l.n => P[l.n] = m)
      BY <1>1, Children DEF InsertInv
    <3> QED
      BY <1>1, <2>1, <3>1 DEF InsertInv, NoRedPairs, ColorIn
  <2> QED
    BY <2>1 DEF NoRedPairs
<1>3. RootIsBlack(R, c, NULL)
  BY <1>1, Children DEF InsertInv, RootIsBlack
<1>4. NoLocals.gone = NULL /\ l.gone = NULL
  BY <1>1 DEF NoLocals, InsertInv
<1>5. IsOrdered(T, L, B, K, NoLocals.gone) /\ K \in [Nodes -> Keys]
      /\ c \in [Nodes -> {"RED", "BLACK"}]
  BY <1>4 DEF Fits, OrderGone
<1> QED
  BY <1>1, <1>2, <1>3, <1>4, <1>5
  DEF Fits, PlaceInv, OrderGone, Settled, SettledInv, InsertInv, Labels, Rotating

\* insert_case3
LEMMA FitsInsertCase3 ==
  ASSUME NEW l, NEW c, NEW K, NEW T, NEW R, NEW L, NEW P, NEW B, NEW h,
         Fits("insert1", l, c, K, T, R, L, P, B, h),
         NEW p, p = P[l.n], p # NULL, c[p] = "RED",
         NEW g, g = P[p], NEW u, u = L[Other(DirIn(L, P, p))][g],
         ColorIn(c, u) = "RED"
  PROVE  /\ p \in Nodes /\ g \in Nodes /\ u \in Nodes
         /\ Fits("insert1", [l EXCEPT !.n = g],
                 [c EXCEPT ![p] = "BLACK", ![u] = "BLACK", ![g] = "RED"], K, T, R, L, P, B,
                 [h EXCEPT ![p] = h[p] + 1, ![u] = h[u] + 1])
<1>1. PICK n, c2, h2, d, l2 :
        /\ n = l.n /\ c2 = [c EXCEPT ![p] = "BLACK", ![u] = "BLACK", ![g] = "RED"]
        /\ h2 = [h EXCEPT ![p] = h[p] + 1, ![u] = h[u] + 1] /\ d = DirIn(L, P, p)
        /\ l2 = [l EXCEPT !.n = g]
  BY Zenon
<1>0. n = l.n /\ d = DirIn(L, P, p)
  BY <1>1, Zenon
<1>2. IsTree(T, R, L, P, B) /\ InsertInv(T, R, L, c, h, l)
      /\ c \in [Nodes -> {"RED", "BLACK"}]
  BY DEF Fits, PlaceInv
<1>3. /\ p \in T /\ g \in T /\ g # NULL /\ c[g] = "BLACK" /\ c[R] = "BLACK"
      /\ R # n /\ R # p /\ n \in T
  <2>1. P[l.n] # NULL /\ c[P[l.n]] = "RED"
    OBVIOUS
  <2>2. /\ P[l.n] \in T /\ P[P[l.n]] # NULL /\ P[P[l.n]] \in T
        /\ c[P[P[l.n]]] = "BLACK" /\ c[R] = "BLACK" /\ R # l.n /\ R # P[l.n]
    BY <1>2, <2>1, RedParent
  <2>3. n \in T
    BY <1>1, <1>2, Zenon DEF InsertInv
  <2> QED
    BY <1>1, <2>2, <2>3, Zenon
<1>4. /\ d \in Dirs /\ Other(d) \in Dirs /\ d # Other(d) /\ Dirs = {d, Other(d)}
      /\ g # p /\ L[d][g] = p /\ u = L[Other(d)][g] /\ u # p
  BY <1>0, <1>2, <1>3, Relatives
<1>5. u # NULL /\ u \in T /\ P[u] = g /\ u # g
  BY <1>2, <1>3, <1>4, Children DEF ColorIn
<1>6. /\ T \subseteq Nodes /\ NULL \notin T
      /\ \A m \in T, e \in Dirs : L[e][m] # NULL => L[e][m] \in T /\ P[L[e][m]] = m
  BY <1>2, Children
<1>7. /\ c2[p] = "BLACK" /\ c2[u] = "BLACK" /\ c2[g] = "RED"
      /\ \A m \in Nodes : m # p /\ m # u /\ m # g => c2[m] = c[m]
      /\ c2 \in [Nodes -> {"RED", "BLACK"}]
  <2>1. {p, u, g} \subseteq Nodes /\ p # u /\ p # g /\ u # g
    BY <1>3, <1>4, <1>5, <1>6, Zenon
  <2> QED
    BY <1>1, <1>2, <2>1, Zenon
<1>8. /\ h \in [NodesOrNull -> Nat \ {0}] /\ h[NULL] = 1
      /\ \A m \in T, e \in Dirs : h[m] = h[L[e][m]] + Blacks(c, m, NULL)
      /\ c[n] = "RED"
  BY <1>0, <1>2, EvenBalance DEF InsertInv
<1>9. /\ \A m \in NodesOrNull : h[m] \in Nat /\ h[m] # 0
      /\ NULL \in NodesOrNull /\ T \subseteq NodesOrNull
      /\ \A m \in T, e \in Dirs : L[e][m] \in NodesOrNull
  BY <1>2, <1>8, Heights
<1>10. /\ h2[p] = h[p] + 1 /\ h2[u] = h[u] + 1
       /\ \A m \in NodesOrNull : m # p /\ m # u => h2[m] = h[m]
       /\ h2 \in [NodesOrNull -> Nat \ {0}] /\ h2[NULL] = 1
  <2>1. p \in NodesOrNull /\ u \in NodesOrNull /\ p # NULL /\ u # NULL
    BY <1>3, <1>5, <1>6, <1>9, Zenon
  <2>2. h[p] + 1 \in Nat \ {0} /\ h[u] + 1 \in Nat \ {0}
    BY <1>9, <2>1
  <2> QED
    BY <1>1, <1>4, <1>8, <1>9, <2>1, <2>2, Zenon
<1>11. c[u] = "RED"
  BY <1>5, Zenon DEF ColorIn
<1>12. ASSUME NEW m \in T, NEW e \in Dirs
       PROVE  h2[m] = h2[L[e][m]] + Blacks(c2, m, NULL)
  <2>1. L[e][m] \in NodesOrNull /\ h[L[e][m]] \in Nat /\ m # NULL
        /\ h[m] = h[L[e][m]] + Blacks(c, m, NULL) /\ m \in NodesOrNull /\ h[m] \in Nat
    BY <1>6, <1>8, <1>9
  <2>2. CASE m = p \/ m = u
    <3>1. L[e][m] # p /\ L[e][m] # u
      BY <1>3, <1>4, <1>5, <1>6, <2>2
    <3>2. Blacks(c, m, NULL) = 0 /\ Blacks(c2, m, NULL) = 1
      BY <1>7, <1>11, <2>1, <2>2 DEF Blacks
    <3>3. h2[m] = h[m] + 1 /\ h2[L[e][m]] = h[L[e][m]]
      BY <1>10, <2>1, <2>2, <3>1, Zenon
    <3>4. h[m] = h[L[e][m]]
      BY <2>1, <3>2
    <3> QED
      BY <3>2, <3>3, <3>4
  <2>3. CASE m = g
    <3>1. L[e][m] = p \/ L[e][m] = u
      BY <1>4, <2>3
    <3>2. Blacks(c, m, NULL) = 1 /\ Blacks(c2, m, NULL) = 0
      BY <1>3, <1>7, <2>1, <2>3, Zenon DEF Blacks
    <3>3. h2[m] = h[m] /\ h2[L[e][m]] = h[L[e][m]] + 1
      BY <1>4, <1>5, <1>10, <2>1, <2>3, <3>1, Zenon
    <3> QED
      BY <2>1, <3>2, <3>3
  <2>4. CASE m # p /\ m # u /\ m # g
    <3>1. L[e][m] # p /\ L[e][m] # u
      BY <1>3, <1>5, <1>6, <2>4
    <3>2. Blacks(c, m, NULL) = Blacks(c2, m, NULL)
      BY <1>6, <1>7, <2>4 DEF Blacks
    <3> QED
      BY <1>10, <2>1, <2>4, <3>1, <3>2, Zenon
  <2> QED
    BY <2>2, <2>3, <2>4
<1>13. IsBalanced(T, L, c2, h2, NULL, NULL)
  BY <1>2, <1>10, <1>12, EvenBalance, Zenon
<1>14. NoRedPairs(T, L, c2, NULL, g)
  <2>1. ASSUME NEW m \in T, NEW e \in Dirs, c2[m] = "RED", L[e][m] # g, L[e][m] # NULL
        PROVE  c2[L[e][m]] = "BLACK"
    <3>1. L[e][m] \in T /\ P[L[e][m]] = m /\ m # p /\ m # u /\ m # NULL
      BY <1>6, <1>7, <2>1, Zenon
    <3>2. CASE m = g
      BY <1>4, <1>7, <3>2, Zenon
    <3>3. CASE m # g
      <4>1. c[m] = "RED" /\ L[e][m] # n
        BY <1>1, <1>6, <1>7, <2>1, <3>1, <3>3, Zenon
      <4>2. c[L[e][m]] = "BLACK"
        BY <1>1, <1>2, <2>1, <3>1, <4>1, Zenon DEF InsertInv, NoRedPairs, ColorIn
      <4> QED
        BY <1>6, <1>7, <2>1, <3>1, <4>2, Zenon
    <3> QED
      BY <3>2, <3>3
  <2> QED
    BY <2>1 DEF NoRedPairs, ColorIn
<1>15. RootIsBlack(R, c2, g)
  <2>1. R # NULL => R \in T
    BY <1>2, Children, Zenon
  <2> QED
    BY <1>3, <1>6, <1>7, <2>1 DEF RootIsBlack, ColorIn
<1>16. l2.n = g /\ l2.gone = l.gone /\ l.gone = NULL
  <2>1. l.gone = NULL /\ IsOrdered(T, L, B, K, l.gone)
    BY <1>2 DEF InsertInv, Fits, OrderGone
  <2> QED
    BY <1>1, <2>1
<1>17. Fits("insert1", l2, c2, K, T, R, L, P, B, h2)
  BY <1>2, <1>3, <1>7, <1>13, <1>14, <1>15, <1>16, Zenon
  DEF Fits, PlaceInv, OrderGone, Settled, InsertInv, Labels, Rotating
<1> QED
  BY <1>1, <1>3, <1>5, <1>6, <1>17, Zenon

\* A turn and new colours and heights: what each node must see below it.
BalancedTurn(T, L, d, x, y, i, c, h, gone, short) ==
  /\ h \in [NodesOrNull -> Nat \ {0}] /\ h[NULL] = 1
  /\ \A m \in T \ {x, y} : \A e \in Dirs :
       h[m] = IF L[e][m] = x THEN h[y] + Lack(y, short) + Blacks(c, m, gone)
              ELSE h[L[e][m]] + Lack(L[e][m], short) + Blacks(c, m, gone)
  /\ \A m \in {L[d][x], i} : h[x] = h[m] + Lack(m, short) + Blacks(c, x, gone)
  /\ \A m \in {x, L[Other(d)][y]} : h[y] = h[m] + Lack(m, short) + Blacks(c, y, gone)

LEMMA TurnedBalance ==
  ASSUME NEW T, NEW R, NEW L, NEW P, NEW B, IsTree(T, R, L, P, B),
         NEW d, NEW x, NEW y, NEW i, IsTurn(T, L, d, x, y, i), NEW c, NEW h, NEW gone,
         NEW short, BalancedTurn(T, L, d, x, y, i, c, h, gone, short)
  PROVE  IsBalanced(T, TurnedLink(L, d, x, y, i), c, h, gone, short)
<1>1. PICK M : M = TurnedLink(L, d, x, y, i)
  OBVIOUS
<1>2. /\ d \in Dirs /\ Other(d) \in Dirs /\ Dirs = {d, Other(d)}
      /\ T \subseteq Nodes /\ x # y
  BY TurnPlaces
<1>3. /\ M[d][x] = L[d][x] /\ M[Other(d)][x] = i
      /\ M[d][y] = x /\ M[Other(d)][y] = L[Other(d)][y]
      /\ \A e \in Dirs, n \in Nodes : n # x /\ n # y =>
           M[e][n] = IF L[e][n] = x THEN y ELSE L[e][n]
  BY <1>1, TurnedLinks
<1>4. ASSUME NEW m \in T, NEW e \in Dirs
      PROVE  h[m] = h[M[e][m]] + Lack(M[e][m], short) + Blacks(c, m, gone)
  <2>1. CASE m = x
    <3>1. M[e][m] \in {L[d][x], i}
      BY <1>2, <1>3, <2>1
    <3> QED
      BY <2>1, <3>1 DEF BalancedTurn
  <2>2. CASE m = y
    <3>1. M[e][m] \in {x, L[Other(d)][y]}
      BY <1>2, <1>3, <2>2
    <3> QED
      BY <2>2, <3>1 DEF BalancedTurn
  <2>3. CASE m # x /\ m # y
    <3>1. M[e][m] = IF L[e][m] = x THEN y ELSE L[e][m]
      BY <1>2, <1>3, <2>3
    <3> QED
      BY <2>3, <3>1 DEF BalancedTurn
  <2> QED
    BY <2>1, <2>2, <2>3
<1> QED
  BY <1>1, <1>4 DEF IsBalanced, BalancedTurn

\* The same for pairs of red nodes
NoRedPairsTurn(T, L, d, x, y, i, c, gone, except) ==
  /\ \A m \in T \ {x, y, gone} : \A e \in Dirs : c[m] = "RED" =>
       IF L[e][m] = x THEN y = except \/ c[y] = "BLACK"
       ELSE L[e][m] = except \/ ColorIn(c, L[e][m]) = "BLACK"
  /\ c[x] = "RED" /\ x # gone =>
       \A m \in {L[d][x], i} : m = except \/ ColorIn(c, m) = "BLACK"
  /\ c[y] = "RED" /\ y # gone =>
       \A m \in {x, L[Other(d)][y]} : m = except \/ ColorIn(c, m) = "BLACK"

LEMMA TurnedReds ==
  ASSUME NEW T, NEW R, NEW L, NEW P, NEW B, IsTree(T, R, L, P, B),
         NEW d, NEW x, NEW y, NEW i, IsTurn(T, L, d, x, y, i), NEW c, NEW gone,
         NEW except, NoRedPairsTurn(T, L, d, x, y, i, c, gone, except)
  PROVE  NoRedPairs(T, TurnedLink(L, d, x, y, i), c, gone, except)
<1>1. PICK M : M = TurnedLink(L, d, x, y, i)
  OBVIOUS
<1>2. /\ d \in Dirs /\ Other(d) \in Dirs /\ Dirs = {d, Other(d)}
      /\ T \subseteq Nodes /\ x # y /\ NULL \notin Nodes /\ y \in T
  BY TurnPlaces
<1>3. /\ M[d][x] = L[d][x] /\ M[Other(d)][x] = i
      /\ M[d][y] = x /\ M[Other(d)][y] = L[Other(d)][y]
      /\ \A e \in Dirs, n \in Nodes : n # x /\ n # y =>
           M[e][n] = IF L[e][n] = x THEN y ELSE L[e][n]
  BY <1>1, TurnedLinks
<1>4. ASSUME NEW m \in T \ {gone}, NEW e \in Dirs, c[m] = "RED"
      PROVE  M[e][m] = except \/ ColorIn(c, M[e][m]) = "BLACK"
  <2>1. CASE m = x
    <3>1. M[e][m] \in {L[d][x], i}
      BY <1>2, <1>3, <2>1
    <3> QED
      BY <1>4, <2>1, <3>1 DEF NoRedPairsTurn
  <2>2. CASE m = y
    <3>1. M[e][m] \in {x, L[Other(d)][y]}
      BY <1>2, <1>3, <2>2
    <3> QED
      BY <1>4, <2>2, <3>1 DEF NoRedPairsTurn
  <2>3. CASE m # x /\ m # y
    <3>1. M[e][m] = IF L[e][m] = x THEN y ELSE L[e][m]
      BY <1>2, <1>3, <2>3
    <3>2. ColorIn(c, y) = c[y]
      BY <1>2 DEF ColorIn
    <3> QED
      BY <1>4, <2>3, <3>1, <3>2 DEF NoRedPairsTurn
  <2> QED
    BY <2>1, <2>2, <2>3
<1> QED
  BY <1>1, <1>4 DEF NoRedPairs

LEMMA TurnedTree ==
  ASSUME NEW T, NEW R, NEW L, NEW P, NEW B, IsTree(T, R, L, P, B),
         NEW d, NEW x, NEW y, NEW i, IsTurn(T, L, d, x, y, i)
  PROVE  IsTree(T, TurnedRoot(R, x, y), TurnedLink(L, d, x, y, i),
                TurnedParent(P, x, y, i), TurnedBelow(L, B, d, x, y, i))
BY TurnKeepsLinks, TurnKeepsBelow DEF IsTree

\* insert_case4, with and without its rotation
LEMMA FitsInsertCase4 ==
  ASSUME NEW l, NEW c, NEW K, NEW T, NEW R, NEW L, NEW P, NEW B, NEW h,
         Fits("insert1", l, c, K, T, R, L, P, B, h),
         NEW p, p = P[l.n], p # NULL, c[p] = "RED", NEW g, g = P[p],
         ColorIn(c, L[Other(DirIn(L, P, p))][g]) = "BLACK",
         DirIn(L, P, l.n) = DirIn(L, P, p)
  PROVE  Fits("insert5", l, c, K, T, R, L, P, B, h)
<1>1. PICK n, d : n = l.n /\ d = DirIn(L, P, p)
  OBVIOUS
<1>2. IsTree(T, R, L, P, B) /\ InsertInv(T, R, L, c, h, l)
      /\ c \in [Nodes -> {"RED", "BLACK"}]
  BY DEF Fits, PlaceInv
<1>3. p \in T /\ g # NULL /\ g \in T /\ n \in T
  BY <1>1, <1>2, RedParent DEF InsertInv
<1>4. d \in Dirs /\ L[d][g] = p /\ L[d][p] = n
  BY <1>1, <1>2, <1>3, Relatives
<1>5. Insert5Inv(T, L, P, c, l)
  BY <1>1, <1>3, <1>4, Zenon DEF Insert5Inv
<1> QED
  BY <1>5 DEF Fits, PlaceInv, OrderGone, Settled, Labels, Rotating

LEMMA FitsInsertCase4Turn ==
  ASSUME NEW l, NEW c, NEW K, NEW T, NEW R, NEW L, NEW P, NEW B, NEW h,
         Fits("insert1", l, c, K, T, R, L, P, B, h),
         NEW p, p = P[l.n], p # NULL, c[p] = "RED", NEW g, g = P[p],
         ColorIn(c, L[Other(DirIn(L, P, p))][g]) = "BLACK",
         DirIn(L, P, l.n) # DirIn(L, P, p),
         NEW d, d = Other(DirIn(L, P, l.n)), NEW i, i = L[d][l.n]
  PROVE  /\ IsTurn(T, L, d, p, l.n, i)
         /\ Fits("insert5", [l EXCEPT !.n = p], c, K, T, TurnedRoot(R, p, l.n),
                 TurnedLink(L, d, p, l.n, i), TurnedParent(P, p, l.n, i),
                 TurnedBelow(L, B, d, p, l.n, i), h)
<1>1. PICK n, M, Q, C, l2, o :
        /\ n = l.n /\ M = TurnedLink(L, d, p, n, i) /\ Q = TurnedParent(P, p, n, i)
        /\ C = TurnedBelow(L, B, d, p, n, i) /\ l2 = [l EXCEPT !.n = p] /\ o = Other(d)
  BY Zenon
<1>0. n = l.n /\ o = Other(d) /\ i = L[d][n]
  BY <1>1, Zenon
<1>2. IsTree(T, R, L, P, B) /\ InsertInv(T, R, L, c, h, l)
      /\ c \in [Nodes -> {"RED", "BLACK"}] /\ K \in [Nodes -> Keys]
  BY DEF Fits, PlaceInv
<1>3. /\ p \in T /\ g \in T /\ g # NULL /\ c[g] = "BLACK" /\ c[R] = "BLACK"
      /\ R # n /\ R # p /\ n \in T /\ c[n] = "RED"
  <2>1. n \in T /\ c[n] = "RED"
    BY <1>0, <1>2 DEF InsertInv
  <2> QED
    BY <1>0, <1>2, <2>1, RedParent
<1>4. /\ d \in Dirs /\ o \in Dirs /\ d # o /\ Dirs = {d, o} /\ Other(o) = d
      /\ DirIn(L, P, n) = o /\ DirIn(L, P, p) = d /\ L[o][p] = n /\ L[d][g] = p
      /\ p # n /\ p # g
  <2>1. /\ DirIn(L, P, n) \in Dirs /\ L[DirIn(L, P, n)][p] = n /\ p # n
        /\ DirIn(L, P, p) \in Dirs /\ L[DirIn(L, P, p)][g] = p /\ p # g
    BY <1>0, <1>2, <1>3, Relatives
  <2> QED
    BY <1>0, <2>1, Mirror
<1>5. IsTurn(T, L, d, p, n, i)
  BY <1>0, <1>3, <1>4, <1>2, Children DEF IsTurn
<1>6. /\ T \subseteq Nodes /\ NULL \notin T
      /\ \A m \in T, e \in Dirs : L[e][m] # NULL => L[e][m] \in T /\ P[L[e][m]] = m
                                                    /\ L[e][m] # L[Other(e)][m]
  BY <1>2, Children
<1>7. \A m \in T, e \in Dirs :
        c[m] = "RED" => L[e][m] = n \/ ColorIn(c, L[e][m]) = "BLACK"
  BY <1>0, <1>2, <1>6 DEF InsertInv, NoRedPairs
<1>8. n # g /\ \A e \in Dirs : L[e][n] # n /\ L[e][n] # p
  BY <1>0, <1>3, <1>4, <1>6
<1>9. /\ M[o][p] = i /\ M[d][n] = p /\ M[d][g] = n /\ M[o][g] = L[o][g]
      /\ Q[p] = n /\ Q[n] = g
  <2>1. /\ M[o][p] = i /\ M[d][n] = p /\ Q[p] = n /\ Q[n] = P[p]
        /\ \A e \in Dirs, m \in Nodes : m # p /\ m # n =>
             M[e][m] = IF L[e][m] = p THEN n ELSE L[e][m]
    BY <1>1, <1>2, <1>5, TurnedLinks
  <2>2. L[o][g] # p
    BY <1>3, <1>4, <1>6
  <2> QED
    BY <1>3, <1>4, <1>6, <1>8, <2>1, <2>2
<1>10. IsTree(T, TurnedRoot(R, p, n), M, Q, C)
  BY <1>1, <1>2, <1>5, TurnedTree
<1>11. /\ h \in [NodesOrNull -> Nat \ {0}] /\ h[NULL] = 1
       /\ \A m \in T : \A e \in Dirs :
            h[m] = h[L[e][m]] + Lack(L[e][m], NULL) + Blacks(c, m, NULL)
  BY <1>0, <1>2 DEF InsertInv, IsBalanced
<1>12. IsBalanced(T, M, c, h, NULL, NULL)
  <2>0. /\ NULL \in NodesOrNull /\ T \subseteq NodesOrNull
        /\ \A m \in NodesOrNull : h[m] \in Nat
        /\ \A m \in T : \A e \in Dirs : L[e][m] \in NodesOrNull
    BY <1>2, <1>11, Heights
  <2>1. Blacks(c, p, NULL) = 0 /\ Blacks(c, n, NULL) = 0 /\ \A m : Lack(m, NULL) = 0
    BY <1>3 DEF Blacks, Lack
  <2>2. h[p] = h[n] /\ h[n] = h[i] /\ h[n] = h[L[o][n]] /\ h[p] = h[L[d][p]]
        /\ i \in NodesOrNull
    BY <1>0, <1>3, <1>4, <1>11, <2>0, <2>1
  <2>6. L[d][p] \in NodesOrNull /\ L[o][n] \in NodesOrNull /\ p \in NodesOrNull
    BY <1>3, <1>4, <2>0
  <2>3. \A m \in {L[d][p], i} : h[p] = h[m] + Lack(m, NULL) + Blacks(c, p, NULL)
    <3>1. \A m \in {L[d][p], i} : h[m] = h[p] /\ h[m] \in Nat
      BY <2>0, <2>2, <2>6
    <3> QED
      BY <2>1, <3>1
  <2>4. \A m \in {p, L[o][n]} : h[n] = h[m] + Lack(m, NULL) + Blacks(c, n, NULL)
    BY <2>0, <2>1, <2>2, <2>6
  <2>5. \A m \in T \ {p, n} : \A e \in Dirs :
          h[m] = IF L[e][m] = p THEN h[n] + Lack(n, NULL) + Blacks(c, m, NULL)
                 ELSE h[L[e][m]] + Lack(L[e][m], NULL) + Blacks(c, m, NULL)
    BY <1>11, <2>1, <2>2
  <2> QED
    <3>1. BalancedTurn(T, L, d, p, n, i, c, h, NULL, NULL)
      BY <1>1, <1>11, <2>3, <2>4, <2>5, Zenon DEF BalancedTurn
    <3> QED
      BY <1>1, <1>2, <1>5, <3>1, TurnedBalance, Zenon
<1>13. NoRedPairs(T, M, c, NULL, p)
  <2>1. \A m \in {L[d][p], i} : ColorIn(c, m) = "BLACK"
    <3>1. ColorIn(c, L[d][p]) = "BLACK"
      <4>1. L[d][p] = n \/ ColorIn(c, L[d][p]) = "BLACK"
        BY <1>3, <1>4, <1>7
      <4>2. CASE L[d][p] = n
        <5>1. n # NULL
          BY <1>3, <1>6
        <5> QED
          BY <1>3, <1>4, <1>6, <4>2, <5>1
      <4> QED
        BY <4>1, <4>2
    <3>2. i = L[d][n] /\ ColorIn(c, L[d][n]) = "BLACK"
      BY <1>1, <1>3, <1>4, <1>7, <1>8, Zenon
    <3> QED
      BY <3>1, <3>2
  <2>2. \A m \in {p, L[o][n]} : m = p \/ ColorIn(c, m) = "BLACK"
    BY <1>3, <1>4, <1>7, <1>8
  <2>3. \A m \in T \ {p, n, NULL} : \A e \in Dirs : c[m] = "RED" =>
          IF L[e][m] = p THEN n = p \/ c[n] = "BLACK"
          ELSE L[e][m] = p \/ ColorIn(c, L[e][m]) = "BLACK"
    <3>1. \A m \in T \ {p, n, NULL} : \A e \in Dirs : L[e][m] # n
      BY <1>0, <1>3, <1>6
    <3>2. ColorIn(c, p) = "RED"
      BY <1>3, <1>6 DEF ColorIn
    <3> QED
      BY <1>4, <1>7, <3>1, <3>2
  <2> QED
    <3>1. NoRedPairsTurn(T, L, d, p, n, i, c, NULL, p)
      BY <1>1, <2>1, <2>2, <2>3, Zenon DEF NoRedPairsTurn
    <3> QED
      BY <1>1, <1>2, <1>5, <3>1, TurnedReds, Zenon
<1>14. TurnedRoot(R, p, n) = R /\ RootIsBlack(R, c, p)
  BY <1>3 DEF TurnedRoot, RootIsBlack, ColorIn
<1>15. l2.n = p /\ l2.gone = NULL
  BY <1>1, <1>2 DEF InsertInv
<1>16. IsOrdered(T, M, C, K, NULL)
  <2>1. IsOrdered(T, L, B, K, NULL)
    BY <1>2 DEF Fits, OrderGone, InsertInv
  <2> QED
    BY <1>1, <1>2, <1>3, <1>5, <1>6, <2>1, TurnKeepsOrder, Zenon
<1>17. InsertInv(T, TurnedRoot(R, p, n), M, c, h, l2)
  BY <1>3, <1>12, <1>13, <1>14, <1>15 DEF InsertInv
<1>18. Insert5Inv(T, M, Q, c, l2)
  <2>1. Q[l2.n] = n /\ n # NULL /\ c[n] = "RED" /\ Q[n] = g /\ g # NULL
    BY <1>3, <1>6, <1>9, <1>15
  <2>2. M[d][g] = n /\ M[d][n] = l2.n /\ ColorIn(c, M[o][g]) = "BLACK"
    BY <1>0, <1>4, <1>9, <1>15, Zenon
  <2> QED
    BY <1>1, <1>4, <2>1, <2>2, Zenon DEF Insert5Inv
<1>19. Fits("insert5", l2, c, K, T, TurnedRoot(R, p, n), M, Q, C, h)
  BY <1>2, <1>10, <1>15, <1>16, <1>17, <1>18
  DEF Fits, PlaceInv, OrderGone, Settled, Labels, Rotating
<1> QED
  BY <1>1, <1>5, <1>19, Zenon

\* The two ways to name the side of a child
LEMMA SideOf ==
  ASSUME NEW T, NEW R, NEW L, NEW P, NEW B, IsTree(T, R, L, P, B),
         NEW n \in T, NEW e \in Dirs, L[e][n] # NULL
  PROVE  DirIn(L, P, L[e][n]) = e
<1>1. PICK m : m = L[e][n]
  OBVIOUS
<1>2. m \in T /\ P[m] = n /\ m # L[Other(e)][n]
  BY <1>1, Children
<1> QED
  BY <1>1, <1>2 DEF DirIn, Dirs, Other

\* insert_case5
LEMMA FitsInsertCase5 ==
  ASSUME NEW l, NEW c, NEW K, NEW T, NEW R, NEW L, NEW P, NEW B, NEW h,
         Fits("insert5", l, c, K, T, R, L, P, B, h),
         NEW p, p = P[l.n], NEW g, g = P[p],
         NEW d, d = Other(DirIn(L, P, l.n)), NEW i, i = L[d][p]
  PROVE  /\ DirIn(L, P, l.n) = DirIn(L, P, p)
         /\ IsTurn(T, L, d, g, p, i)
         /\ Fits("idle", l, [c EXCEPT ![p] = "BLACK", ![g] = "RED"], K,
                 T, TurnedRoot(R, g, p), TurnedLink(L, d, g, p, i),
                 TurnedParent(P, g, p, i), TurnedBelow(L, B, d, g, p, i),
                 [h EXCEPT ![p] = h[g], ![g] = h[p]])
<1>1. PICK n, M, Q, C, c2, h2, o, w :
        /\ n = l.n /\ M = TurnedLink(L, d, g, p, i) /\ Q = TurnedParent(P, g, p, i)
        /\ C = TurnedBelow(L, B, d, g, p, i) /\ o = Other(d) /\ w = L[d][g]
        /\ c2 = [c EXCEPT ![p] = "BLACK", ![g] = "RED"]
        /\ h2 = [h EXCEPT ![p] = h[g], ![g] = h[p]]
  BY Zenon
<1>0. n = l.n /\ o = Other(d) /\ w = L[d][g]
  BY <1>1, Zenon
<1>2. /\ IsTree(T, R, L, P, B) /\ InsertInv(T, R, L, c, h, l) /\ Insert5Inv(T, L, P, c, l)
      /\ c \in [Nodes -> {"RED", "BLACK"}] /\ K \in [Nodes -> Keys]
  BY DEF Fits, PlaceInv
<1>3. /\ p \in T /\ g \in T /\ g # NULL /\ c[g] = "BLACK" /\ c[R] = "BLACK"
      /\ R # n /\ R # p /\ n \in T /\ c[n] = "RED" /\ c[p] = "RED" /\ p # NULL
  <2>1. n \in T /\ c[n] = "RED" /\ P[l.n] # NULL /\ c[P[l.n]] = "RED"
    BY <1>0, <1>2, Zenon DEF InsertInv, Insert5Inv
  <2> QED
    BY <1>0, <1>2, <2>1, RedParent, Children
<1>4. PICK e \in Dirs : /\ L[e][g] = p /\ L[e][p] = n
                        /\ ColorIn(c, L[Other(e)][g]) = "BLACK"
  BY <1>0, <1>2, Zenon DEF Insert5Inv
<1>5. e = DirIn(L, P, n) /\ e = DirIn(L, P, p) /\ n # NULL
  BY <1>2, <1>3, <1>4, SideOf, Children
<1>6. d \in Dirs /\ o \in Dirs /\ d # o /\ Dirs = {d, o} /\ e = o /\ d = Other(e)
  BY <1>1, <1>4, <1>5, Mirror, Zenon
<1>7. /\ T \subseteq Nodes /\ NULL \notin T
      /\ \A m \in T, f \in Dirs : L[f][m] # NULL => L[f][m] \in T /\ P[L[f][m]] = m
                          /\ L[f][m] # m /\ L[f][m] # L[Other(f)][m]
  BY <1>2, Children
<1>8. L[o][g] = p /\ L[o][p] = n /\ ColorIn(c, w) = "BLACK" /\ L[d][p] = i /\ L[d][g] = w
  BY <1>1, <1>4, <1>6, Zenon
<1>9. IsTurn(T, L, d, g, p, i)
  BY <1>1, <1>3, <1>6, <1>8, Zenon DEF IsTurn
<1>10. /\ p # g /\ n # p /\ n # g /\ i # p /\ i # g /\ i # n /\ w # g /\ w # p
       /\ P[n] = p /\ P[p] = g
       /\ \A m \in T, f \in Dirs : (L[f][m] = p => m = g) /\ (L[f][m] = n => m = p)
  <2>1. p # g /\ i # p /\ i # g /\ P[p] = g /\ \A f \in Dirs : L[f][p] # g
    BY <1>2, <1>9, TurnPlaces
  <2>2. n # NULL /\ p # NULL /\ n # p /\ n # g
    BY <1>3, <1>6, <1>7, <1>8, <2>1
  <2>3. P[n] = p /\ i # n
    <3>1. L[o][p] # NULL => P[L[o][p]] = p /\ L[o][p] # L[Other(o)][p]
      BY <1>3, <1>6, <1>7
    <3>2. Other(o) = d
      BY <1>6
    <3> QED
      BY <1>8, <2>2, <3>1, <3>2
  <2>4. w # g /\ w # p
    BY <1>3, <1>6, <1>7, <1>8, <1>5, <2>2
  <2>5. \A m \in T, f \in Dirs : (L[f][m] = p => m = g) /\ (L[f][m] = n => m = p)
    BY <1>7, <2>1, <2>2, <2>3
  <2> QED
    BY <2>1, <2>2, <2>3, <2>4, <2>5
<1>11. IsTree(T, TurnedRoot(R, g, p), M, Q, C)
  BY <1>1, <1>2, <1>9, TurnedTree
<1>12. /\ c2[p] = "BLACK" /\ c2[g] = "RED"
       /\ \A m \in Nodes : m # p /\ m # g => c2[m] = c[m]
       /\ c2 \in [Nodes -> {"RED", "BLACK"}]
  <2>1. {p, g} \subseteq Nodes /\ p # g
    BY <1>3, <1>7, <1>10, Zenon
  <2> QED
    BY <1>1, <1>2, <2>1
<1>13. /\ h \in [NodesOrNull -> Nat \ {0}] /\ h[NULL] = 1
       /\ \A m \in T, f \in Dirs : h[m] = h[L[f][m]] + Blacks(c, m, NULL)
  BY <1>0, <1>2, EvenBalance DEF InsertInv
<1>14. /\ \A m \in NodesOrNull : h[m] \in Nat /\ h[m] # 0
       /\ NULL \in NodesOrNull /\ T \subseteq NodesOrNull
       /\ \A m \in T, f \in Dirs : L[f][m] \in NodesOrNull
  BY <1>2, <1>13, Heights
<1>15. /\ h2[p] = h[g] /\ h2[g] = h[p]
       /\ \A m \in NodesOrNull : m # p /\ m # g => h2[m] = h[m]
       /\ h2 \in [NodesOrNull -> Nat \ {0}] /\ h2[NULL] = 1
  BY <1>1, <1>3, <1>7, <1>10, <1>13, <1>14, Zenon
<1>16. IsBalanced(T, M, c2, h2, NULL, NULL)
  <2>1. /\ Blacks(c, p, NULL) = 0 /\ Blacks(c, g, NULL) = 1 /\ \A m : Lack(m, NULL) = 0
        /\ Blacks(c2, p, NULL) = 1 /\ Blacks(c2, g, NULL) = 0
    BY <1>3, <1>12 DEF Blacks, Lack
  <2>2. h[p] = h[n] /\ h[p] = h[i] /\ h[g] = h[p] + 1 /\ h[w] = h[p]
    <3>1. h[p] = h[n] + 0 /\ h[p] = h[i] + 0 /\ h[g] = h[p] + 1 /\ h[g] = h[w] + 1
      <4>1. /\ h[p] = h[L[o][p]] + Blacks(c, p, NULL) /\ h[p] = h[L[d][p]] + Blacks(c, p, NULL)
            /\ h[g] = h[L[o][g]] + Blacks(c, g, NULL) /\ h[g] = h[L[d][g]] + Blacks(c, g, NULL)
        BY <1>3, <1>6, <1>13, Zenon
      <4> QED
        BY <1>8, <2>1, <4>1, Zenon
    <3>2. {h[p], h[n], h[i], h[g], h[w]} \subseteq Nat
      BY <1>3, <1>6, <1>8, <1>14, ZenonT(40)
    <3> QED
      BY <3>1, <3>2
  <2>3. \A m \in {L[d][g], i} : h2[g] = h2[m] + Lack(m, NULL) + Blacks(c2, g, NULL)
    <3>0. w \in NodesOrNull /\ i \in NodesOrNull /\ p \in NodesOrNull
      BY <1>3, <1>6, <1>8, <1>14
    <3>1. \A m \in {w, i} : h2[m] = h2[g] /\ h2[m] \in Nat
      BY <1>10, <1>14, <1>15, <2>2, <3>0
    <3> QED
      BY <1>8, <2>1, <3>1
  <2>4. \A m \in {g, L[Other(d)][p]} : h2[p] = h2[m] + Lack(m, NULL) + Blacks(c2, p, NULL)
    <3>1. \A m \in {g, n} : h2[m] = h[p] /\ h[p] \in Nat
      <4>1. n \in NodesOrNull /\ p \in NodesOrNull /\ n # p /\ n # g
        BY <1>3, <1>10, <1>14
      <4>2. h2[n] = h[n] /\ h2[g] = h[p] /\ h[p] \in Nat
        BY <1>14, <1>15, <4>1
      <4> QED
        BY <2>2, <4>2
    <3>2. h2[p] = h[p] + 1
      BY <1>15, <2>2, Zenon
    <3>3. L[Other(d)][p] = n
      BY <1>1, <1>8, Zenon
    <3> QED
      BY <2>1, <3>1, <3>2, <3>3
  <2>5. ASSUME NEW m \in T \ {g, p}, NEW f \in Dirs
        PROVE  h2[m] = IF L[f][m] = g THEN h2[p] + Lack(p, NULL) + Blacks(c2, m, NULL)
                       ELSE h2[L[f][m]] + Lack(L[f][m], NULL) + Blacks(c2, m, NULL)
    <3>1. Blacks(c2, m, NULL) = Blacks(c, m, NULL) /\ h2[m] = h[m]
      BY <1>7, <1>12, <1>14, <1>15 DEF Blacks
    <3>2. h[m] = h[L[f][m]] + Blacks(c, m, NULL) /\ h[L[f][m]] \in Nat
      BY <1>13, <1>14
    <3>3. Blacks(c, m, NULL) \in Nat
      BY DEF Blacks
    <3>4. CASE L[f][m] = g
      BY <1>15, <2>1, <3>1, <3>2, <3>3, <3>4
    <3>5. CASE L[f][m] # g
      <4>1. h2[L[f][m]] = h[L[f][m]]
        BY <1>10, <1>14, <1>15, <3>5
      <4> QED
        BY <2>1, <3>1, <3>2, <3>3, <3>5, <4>1
    <3> QED
      BY <3>4, <3>5
  <2> QED
    <3>1. IsBalanced(T, TurnedLink(L, d, g, p, i), c2, h2, NULL, NULL)
      <4>1. h2 \in [NodesOrNull -> Nat \ {0}] /\ h2[NULL] = 1
        BY <1>15
      <4>2. \A m \in T \ {g, p} : \A f \in Dirs :
              h2[m] = IF L[f][m] = g THEN h2[p] + Lack(p, NULL) + Blacks(c2, m, NULL)
                      ELSE h2[L[f][m]] + Lack(L[f][m], NULL) + Blacks(c2, m, NULL)
        BY <2>5
      <4>3. BalancedTurn(T, L, d, g, p, i, c2, h2, NULL, NULL)
        BY <2>3, <2>4, <4>1, <4>2, Zenon DEF BalancedTurn
      <4> QED
        BY <1>2, <1>9, <4>3, TurnedBalance
    <3> QED
      BY <1>1, <3>1, Zenon
<1>17. NoRedPairs(T, M, c2, NULL, NULL)
  <2>1. \A m \in T, f \in Dirs :
          c[m] = "RED" => L[f][m] = n \/ ColorIn(c, L[f][m]) = "BLACK"
    BY <1>1, <1>2, <1>7 DEF InsertInv, NoRedPairs
  <2>2. \A m \in {L[d][g], i} : ColorIn(c2, m) = "BLACK"
    <3>1. ColorIn(c, i) = "BLACK" /\ ColorIn(c, w) = "BLACK"
      BY <1>3, <1>6, <1>8, <1>10, <2>1, Zenon
    <3>2. (i # NULL => i \in Nodes) /\ (w # NULL => w \in Nodes)
      BY <1>3, <1>6, <1>7, <1>8, ZenonT(40)
    <3>3. ColorIn(c2, i) = "BLACK" /\ ColorIn(c2, w) = "BLACK"
      BY <1>10, <1>12, <3>1, <3>2 DEF ColorIn
    <3> QED
      BY <1>8, <3>3
  <2>3. ASSUME NEW m \in T \ {g, p, NULL}, NEW f \in Dirs, c2[m] = "RED"
        PROVE  IF L[f][m] = g THEN p = NULL \/ c2[p] = "BLACK"
               ELSE L[f][m] = NULL \/ ColorIn(c2, L[f][m]) = "BLACK"
    <3>1. c[m] = "RED" /\ L[f][m] # n /\ L[f][m] # p
      BY <1>7, <1>10, <1>12, <2>3
    <3>2. ColorIn(c, L[f][m]) = "BLACK"
      BY <2>1, <3>1
    <3> QED
      BY <1>7, <1>12, <3>1, <3>2 DEF ColorIn
  <2> QED
    <3>1. c2[p] # "RED"
      BY <1>12
    <3> QED
      <4>1. NoRedPairs(T, TurnedLink(L, d, g, p, i), c2, NULL, NULL)
        <5>1. NoRedPairsTurn(T, L, d, g, p, i, c2, NULL, NULL)
          BY <2>2, <2>3, <3>1, Zenon DEF NoRedPairsTurn
        <5> QED
          BY <1>2, <1>9, <5>1, TurnedReds
      <4> QED
        BY <1>1, <4>1, Zenon
<1>18. RootIsBlack(TurnedRoot(R, g, p), c2, NULL)
  <2>1. R # NULL => R \in T
    BY <1>2, Children
  <2> QED
    BY <1>3, <1>7, <1>12, <2>1 DEF TurnedRoot, RootIsBlack, ColorIn
<1>19. l.gone = NULL
  BY <1>2 DEF InsertInv
<1>20. IsOrdered(T, M, C, K, NULL)
  <2>1. IsOrdered(T, L, B, K, NULL)
    BY <1>19 DEF Fits, OrderGone
  <2> QED
    BY <1>1, <1>2, <1>3, <1>9, <2>1, TurnKeepsOrder, Zenon
<1>21. Fits("idle", l, c2, K, T, TurnedRoot(R, g, p), M, Q, C, h2)
  BY <1>2, <1>11, <1>12, <1>16, <1>17, <1>18, <1>19, <1>20
  DEF Fits, PlaceInv, OrderGone, Settled, SettledInv, Labels, Rotating
<1> QED
  BY <1>1, <1>5, <1>9, <1>21, Zenon

\* Colours and keys outside the tree do not matter.
LEMMA OutsideTheTree ==
  ASSUME NEW T, NEW R, NEW L, NEW P, NEW B, IsTree(T, R, L, P, B),
         NEW c, NEW c2, \A m \in T : c2[m] = c[m],
         NEW K, NEW K2, \A m \in T : K2[m] = K[m], NEW h, NEW gone, NEW short
  PROVE  /\ IsOrdered(T, L, B, K, gone) => IsOrdered(T, L, B, K2, gone)
         /\ IsBalanced(T, L, c, h, gone, short) => IsBalanced(T, L, c2, h, gone, short)
         /\ NoRedPairs(T, L, c, gone, short) => NoRedPairs(T, L, c2, gone, short)
         /\ RootIsBlack(R, c, short) => RootIsBlack(R, c2, short)
<1>1. \A m \in T, d \in Dirs : L[d][m] # NULL => L[d][m] \in T /\ B[L[d][m]] \subseteq T
  BY DEF IsTree, IsLinked, IsBelow
<1>2. R # NULL => R \in T
  BY Children
<1>3. IsOrdered(T, L, B, K, gone) => IsOrdered(T, L, B, K2, gone)
  <2> SUFFICES ASSUME IsOrdered(T, L, B, K, gone), NEW n \in T \ {gone}, NEW d \in Dirs,
                      L[d][n] # NULL, NEW m \in B[L[d][n]] \ {gone}
               PROVE  Beside(d, K2[m].addr, K2[n].addr)
    BY DEF IsOrdered
  <2>1. m \in T /\ K2[m] = K[m] /\ K2[n] = K[n]
    BY <1>1
  <2> QED
    BY <2>1 DEF IsOrdered
<1>4. \A m \in T : Blacks(c2, m, gone) = Blacks(c, m, gone)
  BY DEF Blacks
<1>5. IsBalanced(T, L, c, h, gone, short) => IsBalanced(T, L, c2, h, gone, short)
  BY <1>4 DEF IsBalanced
<1>6. \A m \in T, d \in Dirs : ColorIn(c2, L[d][m]) = ColorIn(c, L[d][m])
  BY <1>1 DEF ColorIn
<1>7. NoRedPairs(T, L, c, gone, short) => NoRedPairs(T, L, c2, gone, short)
  BY <1>6 DEF NoRedPairs
<1>8. RootIsBlack(R, c, short) => RootIsBlack(R, c2, short)
  BY <1>2 DEF RootIsBlack, ColorIn
<1> QED
  BY <1>3, <1>5, <1>7, <1>8

LEMMA KeysExist == AnyKey \in Keys
<1>1. \E a \in Addrs, s \in Sizes : [addr |-> a, size |-> s] \in Keys
  BY ConstantsAssumption DEF Keys
<1> QED
  BY <1>1 DEF AnyKey

\* rbtree_insert into an empty tree
LEMMA FitsBeginInsertEmpty ==
  ASSUME NEW l, NEW c, NEW K, NEW T, NEW L, NEW P, NEW B, NEW h,
         Fits("idle", l, c, K, T, NULL, L, P, B, h), NEW new \in Nodes,
         NEW K2 \in [Nodes -> Keys]
  PROVE  Fits("insert1", [NoLocals EXCEPT !.n = new], [c EXCEPT ![new] = "RED"], K2,
              {new}, new, L, P, [B EXCEPT ![new] = {new}], [h EXCEPT ![new] = 1])
<1>1. PICK l2, c2, B2, h2 :
        /\ l2 = [NoLocals EXCEPT !.n = new] /\ c2 = [c EXCEPT ![new] = "RED"]
        /\ B2 = [B EXCEPT ![new] = {new}] /\ h2 = [h EXCEPT ![new] = 1]
  OBVIOUS
<1>2. /\ IsTree(T, NULL, L, P, B) /\ c \in [Nodes -> {"RED", "BLACK"}]
      /\ h \in [NodesOrNull -> Nat \ {0}] /\ h[NULL] = 1
  BY DEF Fits, PlaceInv, Settled, SettledInv, IsBalanced
<1>3. /\ \A m \in Nodes : P[m] = NULL /\ \A d \in Dirs : L[d][m] = NULL
      /\ NULL \notin Nodes
      /\ L \in [Dirs -> [Nodes -> NodesOrNull]] /\ P \in [Nodes -> NodesOrNull]
      /\ B \in [Nodes -> SUBSET Nodes]
  <2>1. T = {}
    BY <1>2 DEF IsTree, IsLinked
  <2>2. \A m \in Nodes \ T : P[m] = NULL /\ \A d \in Dirs : L[d][m] = NULL
    BY <1>2 DEF IsTree, IsLinked
  <2>3. NULL \notin Nodes
    BY ConstantsAssumption
  <2>4. /\ L \in [Dirs -> [Nodes -> NodesOrNull]] /\ P \in [Nodes -> NodesOrNull]
        /\ B \in [Nodes -> SUBSET Nodes]
    BY <1>2 DEF IsTree, IsLinked, IsBelow
  <2> QED
    BY <2>1, <2>2, <2>3, <2>4
<1>4. B2[new] = {new} /\ B2 \in [Nodes -> SUBSET Nodes] /\ c2[new] = "RED"
      /\ c2 \in [Nodes -> {"RED", "BLACK"}]
  BY <1>1, <1>2, <1>3
<1>5. h2[new] = 1 /\ h2[NULL] = 1 /\ h2 \in [NodesOrNull -> Nat \ {0}]
  <2>1. new \in NodesOrNull /\ NULL \in NodesOrNull /\ 1 \in Nat \ {0} /\ new # NULL
    BY <1>3 DEF NodesOrNull
  <2> QED
    BY <1>1, <1>2, <2>1
<1>6. IsTree({new}, new, L, P, B2)
  <2>1. IsLinked({new}, new, L, P)
    BY <1>3 DEF IsLinked
  <2>2. IsBelow({new}, new, L, P, B2)
    BY <1>3, <1>4 DEF IsBelow
  <2> QED
    BY <2>1, <2>2 DEF IsTree
<1>7. IsOrdered({new}, L, B2, K2, NULL)
  BY <1>3 DEF IsOrdered
<1>8. IsBalanced({new}, L, c2, h2, NULL, NULL)
  <2>1. Blacks(c2, new, NULL) = 0
    BY <1>4 DEF Blacks
  <2>2. \A n \in {new}, d \in Dirs : h2[n] = h2[L[d][n]] + Blacks(c2, n, NULL)
    BY <1>3, <1>5, <2>1
  <2> QED
    BY <1>5, <1>6, <2>2, EvenBalance
<1>9. NoRedPairs({new}, L, c2, NULL, new) /\ RootIsBlack(new, c2, new)
  BY <1>3 DEF NoRedPairs, RootIsBlack, ColorIn
<1>10. l2.n = new /\ l2.gone = NULL
  BY <1>1 DEF NoLocals
<1>11. Fits("insert1", l2, c2, K2, {new}, new, L, P, B2, h2)
  BY <1>4, <1>6, <1>7, <1>8, <1>9, <1>10
  DEF Fits, PlaceInv, OrderGone, Settled, InsertInv, Labels, Rotating
<1> QED
  BY <1>1, <1>11

\* and into another
LEMMA FitsBeginInsert ==
  ASSUME NEW l, NEW c, NEW K, NEW T, NEW R, NEW L, NEW P, NEW B, NEW h,
         Fits("idle", l, c, K, T, R, L, P, B, h), R # NULL, NEW new \in Nodes \ T,
         NEW k \in Keys
  PROVE  Fits("insertWalk", [NoLocals EXCEPT !.n = R, !.held = new, !.addr = k.addr],
              [c EXCEPT ![new] = "RED"], [K EXCEPT ![new] = k], T, R, L, P, B, h)
<1>1. PICK l2, c2, K2 :
        /\ l2 = [NoLocals EXCEPT !.n = R, !.held = new, !.addr = k.addr]
        /\ c2 = [c EXCEPT ![new] = "RED"] /\ K2 = [K EXCEPT ![new] = k]
  OBVIOUS
<1>2. /\ IsTree(T, R, L, P, B) /\ SettledInv(T, R, L, c, h, l)
      /\ c \in [Nodes -> {"RED", "BLACK"}] /\ K \in [Nodes -> Keys]
      /\ IsOrdered(T, L, B, K, NULL)
  BY DEF Fits, PlaceInv, Settled, OrderGone, SettledInv
<1>3. R \in T /\ T \subseteq Nodes /\ NULL \notin T
  BY <1>2, Children
<1>4. /\ \A m \in T : c2[m] = c[m] /\ K2[m] = K[m]
      /\ c2 \in [Nodes -> {"RED", "BLACK"}] /\ K2 \in [Nodes -> Keys]
      /\ c2[new] = "RED" /\ K2[new] = k
  BY <1>1, <1>2, <1>3
<1>5. l2.n = R /\ l2.held = new /\ l2.addr = k.addr /\ l2.gone = NULL
  BY <1>1 DEF NoLocals
<1>6. IsOrdered(T, L, B, K2, NULL) /\ SettledInv(T, R, L, c2, h, l2)
  BY <1>2, <1>4, <1>5, OutsideTheTree DEF SettledInv
<1>7. ASSUME NEW n \in T, NEW d \in Dirs, L[d][n] # NULL PROVE R \notin B[L[d][n]]
  <2>1. B[R] = T /\ L[d][n] \in T /\ n \notin B[L[d][n]]
    BY <1>2, <1>3, <1>7 DEF IsTree, IsLinked, IsBelow
  <2>2. \A m \in B[L[d][n]] : B[m] \subseteq B[L[d][n]]
    BY <1>2, <2>1 DEF IsTree, IsBelow
  <2> QED
    BY <2>1, <2>2
<1>8. InsertWalkInv(T, L, B, c2, K2, l2)
  BY <1>3, <1>4, <1>5, <1>7 DEF InsertWalkInv
<1>9. Fits("insertWalk", l2, c2, K2, T, R, L, P, B, h)
  BY <1>2, <1>4, <1>5, <1>6, <1>8
  DEF Fits, PlaceInv, OrderGone, Settled, Labels, Rotating
<1> QED
  BY <1>1, <1>9

LEMMA FitsInsertKnown ==
  ASSUME NEW l, NEW c, NEW K, NEW T, NEW R, NEW L, NEW P, NEW B, NEW h,
         Fits("insertWalk", l, c, K, T, R, L, P, B, h)
  PROVE  Fits("idle", NoLocals, c, [K EXCEPT ![l.held] = AnyKey], T, R, L, P, B, h)
<1>1. PICK K2 : K2 = [K EXCEPT ![l.held] = AnyKey]
  OBVIOUS
<1>2. /\ IsTree(T, R, L, P, B) /\ SettledInv(T, R, L, c, h, l)
      /\ c \in [Nodes -> {"RED", "BLACK"}] /\ K \in [Nodes -> Keys]
      /\ IsOrdered(T, L, B, K, NULL) /\ l.held \in Nodes \ T
  BY DEF Fits, PlaceInv, Settled, OrderGone, SettledInv, InsertWalkInv
<1>3. K2 \in [Nodes -> Keys] /\ \A m \in T : K2[m] = K[m]
  BY <1>1, <1>2, Children, KeysExist
<1>4. NoLocals.gone = NULL
  BY DEF NoLocals
<1>5. IsOrdered(T, L, B, K2, NULL) /\ SettledInv(T, R, L, c, h, NoLocals)
  BY <1>2, <1>3, <1>4, OutsideTheTree DEF SettledInv
<1> QED
  BY <1>1, <1>2, <1>3, <1>4, <1>5 DEF Fits, PlaceInv, OrderGone, Settled, Labels, Rotating

TowardIn(K, a, n) == IF a < K[n].addr THEN "left" ELSE "right"

\* One step of the walk
LEMMA FitsInsertWalk ==
  ASSUME NEW l, NEW c, NEW K, NEW T, NEW R, NEW L, NEW P, NEW B, NEW h,
         Fits("insertWalk", l, c, K, T, R, L, P, B, h), K[l.n].addr # l.addr,
         NEW d, d = TowardIn(K, l.addr, l.n), L[d][l.n] # NULL
  PROVE  Fits("insertWalk", [l EXCEPT !.n = L[d][l.n]], c, K, T, R, L, P, B, h)
<1>1. PICK l2, n, q, a : l2 = [l EXCEPT !.n = L[d][l.n]] /\ n = l.n /\ q = L[d][n]
                         /\ a = l.addr
  OBVIOUS
<1>2. /\ IsTree(T, R, L, P, B) /\ SettledInv(T, R, L, c, h, l)
      /\ InsertWalkInv(T, L, B, c, K, l) /\ K \in [Nodes -> Keys]
  BY DEF Fits, PlaceInv, Settled
<1>3. n \in T /\ d \in Dirs /\ q \in T /\ P[q] = n /\ n # q /\ n \in Nodes
  <2>1. n \in T /\ d \in Dirs /\ q # NULL
    BY <1>1, <1>2 DEF InsertWalkInv, TowardIn, Dirs
  <2> QED
    BY <1>1, <1>2, <2>1, Children
<1>4. l2.n = q /\ l2.held = l.held /\ l2.addr = a /\ l2.gone = l.gone
  BY <1>1
<1>5. K[n].addr \in Nat /\ a \in Nat
  BY <1>1, <1>2, <1>3, AddressesAreNumbers DEF InsertWalkInv
<1>6. Beside(d, a, K[n].addr)
  BY <1>1, <1>5 DEF TowardIn, Beside
<1>7. ASSUME NEW m \in T, NEW e \in Dirs, L[e][m] # NULL, q \in B[L[e][m]]
      PROVE  Beside(e, a, K[m].addr)
  <2>1. CASE m = n
    <3>1. e = d
      <4>1. Other(d) \in Dirs /\ Dirs = {d, Other(d)} /\ q \in B[q]
        BY <1>2, <1>3, Mirror DEF IsTree, IsBelow
      <4>2. L[Other(d)][n] # NULL => B[q] \cap B[L[Other(d)][n]] = {}
        BY <1>1, <1>2, <1>3, <1>7, <2>1 DEF IsTree, IsBelow
      <4> QED
        BY <1>7, <2>1, <4>1, <4>2
    <3> QED
      BY <1>6, <2>1, <3>1
  <2>2. CASE m # n
    <3>1. L[e][m] \in T /\ P[L[e][m]] = m
      BY <1>2, <1>7, Children
    <3>2. q # L[e][m]
      BY <1>3, <2>2, <3>1
    <3>3. n \in B[L[e][m]]
      BY <1>2, <1>3, <1>7, <3>1, <3>2 DEF IsTree, IsBelow
    <3> QED
      BY <1>1, <1>2, <1>7, <3>3 DEF InsertWalkInv
  <2> QED
    BY <2>1, <2>2
<1>8. InsertWalkInv(T, L, B, c, K, l2)
  BY <1>1, <1>2, <1>3, <1>4, <1>7 DEF InsertWalkInv
<1>9. SettledInv(T, R, L, c, h, l2)
  BY <1>2, <1>4 DEF SettledInv
<1>10. Fits("insertWalk", l2, c, K, T, R, L, P, B, h)
  BY <1>4, <1>8, <1>9 DEF Fits, PlaceInv, OrderGone, Settled, Labels, Rotating
<1> QED
  BY <1>1, <1>10

\* A new leaf
LinkedLink(L, d, n, new) == [L EXCEPT ![d][n] = new]
LinkedParent(P, n, new) == [P EXCEPT ![new] = n]
LinkedBelow(T, B, n, new) ==
  [m \in Nodes |-> IF m = new THEN {new}
                   ELSE IF m \in T /\ n \in B[m] THEN B[m] \cup {new} ELSE B[m]]

LEMMA LinkKeepsTree ==
  ASSUME NEW T, NEW R, NEW L, NEW P, NEW B, IsTree(T, R, L, P, B),
         NEW d \in Dirs, NEW n \in T, L[d][n] = NULL, NEW new \in Nodes \ T
  PROVE  IsTree(T \cup {new}, R, LinkedLink(L, d, n, new), LinkedParent(P, n, new),
                LinkedBelow(T, B, n, new))
<1>1. PICK M, Q, C, S : /\ M = LinkedLink(L, d, n, new) /\ Q = LinkedParent(P, n, new)
                        /\ C = LinkedBelow(T, B, n, new) /\ S = T \cup {new}
  OBVIOUS
<1>2. /\ NULL \notin Nodes /\ T \subseteq Nodes /\ n # NULL /\ new # NULL /\ n # new
      /\ L \in [Dirs -> [Nodes -> NodesOrNull]] /\ P \in [Nodes -> NodesOrNull]
      /\ B \in [Nodes -> SUBSET Nodes] /\ R \in T /\ R # NULL
  <2>1. NULL \notin Nodes /\ T \subseteq Nodes /\ n # NULL /\ new # NULL /\ n # new
    BY Children
  <2>2. /\ L \in [Dirs -> [Nodes -> NodesOrNull]] /\ P \in [Nodes -> NodesOrNull]
        /\ B \in [Nodes -> SUBSET Nodes]
    BY DEF IsTree, IsLinked, IsBelow
  <2>3. R \in T /\ R # NULL
    BY Children DEF IsTree, IsLinked
  <2> QED
    BY <2>1, <2>2, <2>3
<1>3. /\ \A m \in T, e \in Dirs :
           L[e][m] # NULL => /\ L[e][m] \in T /\ P[L[e][m]] = m /\ L[e][m] # m
                             /\ L[e][m] # L[Other(e)][m]
      /\ \A m \in T :
           /\ P[m] \in T \cup {NULL} /\ (P[m] = NULL <=> m = R)
           /\ P[m] # NULL => \E e \in Dirs : L[e][P[m]] = m
      /\ \A m \in Nodes \ T : P[m] = NULL /\ \A e \in Dirs : L[e][m] = NULL
  BY Children DEF IsTree, IsLinked
<1>4. /\ M[d][n] = new
      /\ \A m \in Nodes, e \in Dirs : m # n \/ e # d => M[e][m] = L[e][m]
      /\ M \in [Dirs -> [Nodes -> NodesOrNull]]
  BY <1>1, <1>2 DEF LinkedLink, NodesOrNull
<1>5. /\ Q[new] = n /\ (\A m \in Nodes : m # new => Q[m] = P[m])
      /\ Q \in [Nodes -> NodesOrNull]
  BY <1>1, <1>2 DEF LinkedParent, NodesOrNull
<1>6. \A e \in Dirs : Other(e) \in Dirs /\ Other(e) # e
  BY Mirror
<1>7. IsLinked(S, R, M, Q)
  <2>1. ASSUME NEW m \in S, NEW e \in Dirs
        PROVE  /\ M[e][m] \in S \cup {NULL}
               /\ M[e][m] # NULL => Q[M[e][m]] = m /\ M[e][m] # M[Other(e)][m]
    <3>1. CASE m = new
      BY <1>2, <1>3, <1>4, <3>1
    <3>2. CASE m = n /\ e = d
      BY <1>1, <1>2, <1>3, <1>4, <1>5, <1>6, <3>2
    <3>3. CASE m # new /\ ~(m = n /\ e = d)
      <4>1. m \in T /\ M[e][m] = L[e][m]
        BY <1>1, <1>2, <1>4, <3>3
      <4>2. M[e][m] # NULL => M[Other(e)][m] # M[e][m]
        <5>1. M[Other(e)][m] \in {L[Other(e)][m], new}
          BY <1>2, <1>4, <1>6, <4>1
        <5> QED
          BY <1>3, <4>1, <5>1
      <4> QED
        BY <1>1, <1>2, <1>3, <1>5, <4>1, <4>2
    <3> QED
      BY <3>1, <3>2, <3>3
  <2>2. ASSUME NEW m \in S
        PROVE  /\ Q[m] \in S \cup {NULL} /\ (Q[m] = NULL <=> m = R)
               /\ Q[m] # NULL => \E e \in Dirs : M[e][Q[m]] = m
    <3>1. CASE m = new
      BY <1>1, <1>2, <1>4, <1>5, <3>1
    <3>2. CASE m # new
      <4>1. m \in T /\ Q[m] = P[m]
        BY <1>1, <1>2, <1>5, <3>2
      <4>2. ASSUME P[m] # NULL PROVE \E e \in Dirs : M[e][P[m]] = m
        <5>1. PICK e \in Dirs : L[e][P[m]] = m
          BY <1>3, <4>1, <4>2
        <5>2. P[m] \in Nodes /\ (P[m] # n \/ e # d)
          BY <1>2, <1>3, <4>1, <4>2, <5>1
        <5> QED
          BY <1>4, <5>1, <5>2
      <4> QED
        BY <1>1, <1>3, <4>1, <4>2
    <3> QED
      BY <3>1, <3>2
  <2>3. \A m \in Nodes \ S : Q[m] = NULL /\ \A e \in Dirs : M[e][m] = NULL
    BY <1>1, <1>3, <1>4, <1>5
  <2>4. S \subseteq Nodes /\ R \in S
    BY <1>1, <1>2
  <2> QED
    BY <1>2, <1>4, <1>5, <2>1, <2>2, <2>3, <2>4 DEF IsLinked
<1>8. /\ B[R] = T
      /\ \A m \in T : m \in B[m] /\ B[m] \subseteq T
      /\ \A m \in T, e \in Dirs : L[e][m] # NULL =>
           /\ B[L[e][m]] \subseteq B[m] /\ m \notin B[L[e][m]]
           /\ L[Other(e)][m] # NULL => B[L[e][m]] \cap B[L[Other(e)][m]] = {}
      /\ \A m \in T : \A q \in B[m] :
           /\ B[q] \subseteq B[m]
           /\ q # m => /\ P[q] \in B[m]
                       /\ \E e \in Dirs : L[e][m] # NULL /\ q \in B[L[e][m]]
  BY <1>2 DEF IsTree, IsBelow
<1>9. /\ C[new] = {new} /\ C \in [Nodes -> SUBSET Nodes]
      /\ \A m \in T : \A q : q \in C[m] <=> q \in B[m] \/ (n \in B[m] /\ q = new)
  <2>1. C \in [Nodes -> SUBSET Nodes]
    BY <1>1, <1>2 DEF LinkedBelow
  <2>2. C[new] = {new} /\ \A m \in T : C[m] = IF n \in B[m] THEN B[m] \cup {new} ELSE B[m]
    BY <1>1, <1>2 DEF LinkedBelow
  <2> QED
    BY <2>1, <2>2
<1>10. \A m \in T : new \notin B[m]
  BY <1>8
<1>11. IsBelow(S, R, M, Q, C)
  <2>1. C[R] = S
    BY <1>1, <1>2, <1>8, <1>9
  <2>2. ASSUME NEW m \in S PROVE m \in C[m] /\ C[m] \subseteq S
    <3>1. CASE m = new
      BY <1>1, <1>9, <3>1
    <3>2. CASE m # new
      <4>1. m \in T /\ m \in B[m] /\ B[m] \subseteq T
        BY <1>1, <1>8, <3>2
      <4> QED
        BY <1>1, <1>9, <4>1
    <3> QED
      BY <3>1, <3>2
  <2>3. ASSUME NEW m \in S, NEW e \in Dirs, M[e][m] # NULL
        PROVE  /\ C[M[e][m]] \subseteq C[m] /\ m \notin C[M[e][m]]
               /\ M[Other(e)][m] # NULL => C[M[e][m]] \cap C[M[Other(e)][m]] = {}
    <3>1. m # new /\ m \in T
      BY <1>1, <1>2, <1>3, <1>4, <2>3
    <3>2. CASE M[e][m] = new
      <4>1. m = n /\ e = d
        BY <1>3, <1>4, <1>2, <3>1, <3>2
      <4>2. M[Other(e)][m] = L[Other(e)][m]
        BY <1>2, <1>4, <1>6, <4>1
      <4>3. M[Other(e)][m] # NULL => M[Other(e)][m] \in T /\ n \notin B[M[Other(e)][m]]
        BY <1>3, <1>6, <1>8, <4>1, <4>2
      <4>4. M[Other(e)][m] # NULL => new \notin C[M[Other(e)][m]]
        BY <1>8, <1>9, <4>3
      <4> QED
        <5>1. C[M[e][m]] = {new} /\ n \in B[n] /\ n # new
          BY <1>2, <1>8, <1>9, <3>2
        <5>2. new \in C[n] /\ n \notin {new}
          BY <1>9, <5>1
        <5> QED
          BY <3>1, <4>1, <4>4, <5>1, <5>2
    <3>3. CASE M[e][m] # new
      <4>1. M[e][m] = L[e][m] /\ L[e][m] # NULL /\ L[e][m] \in T
        BY <1>2, <1>3, <1>4, <2>3, <3>1, <3>3
      <4>2. C[M[e][m]] \subseteq C[m] /\ m \notin C[M[e][m]]
        <5>1. B[L[e][m]] \subseteq B[m] /\ m \notin B[L[e][m]]
          BY <1>8, <3>1, <4>1
        <5> QED
          BY <1>9, <3>1, <4>1, <5>1
      <4>3. CASE M[Other(e)][m] = new
        <5>1. m = n
          BY <1>2, <1>3, <1>4, <1>6, <3>1, <4>3
        <5>2. n \notin B[L[e][m]] /\ C[M[e][m]] \subseteq T
          <6>1. n \notin B[L[e][m]] /\ B[L[e][m]] \subseteq T
            BY <1>8, <3>1, <4>1, <5>1
          <6> QED
            BY <1>9, <4>1, <6>1
        <5>3. new \notin C[M[e][m]]
          BY <5>2
        <5> QED
          BY <1>9, <4>2, <4>3, <5>3
      <4>4. CASE M[Other(e)][m] # new /\ M[Other(e)][m] # NULL
        <5>1. M[Other(e)][m] = L[Other(e)][m] /\ L[Other(e)][m] \in T
          BY <1>2, <1>3, <1>4, <1>6, <3>1, <4>4
        <5>2. B[L[e][m]] \cap B[L[Other(e)][m]] = {}
          BY <1>8, <3>1, <4>1, <4>4, <5>1
        <5>3. \A q \in C[L[e][m]] : q \notin C[L[Other(e)][m]]
          BY <1>9, <1>10, <4>1, <5>1, <5>2
        <5>4. C[M[e][m]] \cap C[M[Other(e)][m]] = {}
          BY <4>1, <5>1, <5>3
        <5> QED
          BY <4>2, <5>4
      <4> QED
        BY <4>2, <4>3, <4>4
    <3> QED
      BY <3>2, <3>3
  <2>4. ASSUME NEW m \in S, NEW q \in C[m]
        PROVE  /\ C[q] \subseteq C[m]
               /\ q # m => /\ Q[q] \in C[m]
                           /\ \E e \in Dirs : M[e][m] # NULL /\ q \in C[M[e][m]]
    <3>1. CASE m = new
      BY <1>9, <2>4, <3>1
    <3>2. CASE m # new /\ q = new
      <4>1. m \in T /\ n \in B[m] /\ C[m] = B[m] \cup {new} /\ Q[q] = n
        BY <1>1, <1>5, <1>8, <1>9, <2>4, <3>2
      <4>2. CASE m = n
        BY <1>2, <1>4, <1>9, <3>2, <4>1, <4>2
      <4>3. CASE m # n
        <5>1. PICK e \in Dirs : L[e][m] # NULL /\ n \in B[L[e][m]]
          BY <1>8, <4>1, <4>3
        <5>2. M[e][m] = L[e][m] /\ L[e][m] \in T
          BY <1>2, <1>3, <1>4, <4>1, <4>3, <5>1
        <5>3. new \in C[M[e][m]]
          BY <1>9, <5>1, <5>2
        <5> QED
          BY <1>9, <3>2, <4>1, <5>1, <5>2, <5>3
      <4> QED
        BY <4>2, <4>3
    <3>3. CASE m # new /\ q # new
      <4>1. m \in T /\ q \in B[m] /\ q \in T
        <5>1. m \in T
          BY <1>1, <3>3
        <5>2. q \in B[m]
          BY <1>9, <2>4, <3>3, <5>1
        <5> QED
          BY <1>8, <5>1, <5>2
      <4>2. C[q] \subseteq C[m]
        <5>1. B[q] \subseteq B[m]
          BY <1>8, <4>1
        <5> QED
          BY <1>9, <4>1, <5>1
      <4>3. ASSUME q # m
            PROVE  Q[q] \in C[m] /\ \E e \in Dirs : M[e][m] # NULL /\ q \in C[M[e][m]]
        <5>1. P[q] \in B[m] /\ Q[q] = P[q]
          BY <1>2, <1>5, <1>8, <3>3, <4>1, <4>3
        <5>2. PICK e \in Dirs : L[e][m] # NULL /\ q \in B[L[e][m]]
          BY <1>8, <4>1, <4>3
        <5>3. M[e][m] = L[e][m] /\ L[e][m] \in T
          BY <1>2, <1>3, <1>4, <4>1, <5>2
        <5> QED
          BY <1>9, <4>1, <5>1, <5>2, <5>3
      <4> QED
        BY <4>2, <4>3
    <3> QED
      BY <3>1, <3>2, <3>3
  <2> QED
    BY <1>9, <2>1, <2>2, <2>3, <2>4 DEF IsBelow
<1> QED
  BY <1>1, <1>7, <1>11 DEF IsTree

LEMMA LinkKeepsOrder ==
  ASSUME NEW T, NEW R, NEW L, NEW P, NEW B, IsTree(T, R, L, P, B),
         NEW d \in Dirs, NEW n \in T, L[d][n] = NULL, NEW new \in Nodes \ T,
         NEW K \in [Nodes -> Keys], IsOrdered(T, L, B, K, NULL),
         Beside(d, K[new].addr, K[n].addr),
         \A m \in T : \A e \in Dirs : L[e][m] # NULL /\ n \in B[L[e][m]] =>
           Beside(e, K[new].addr, K[m].addr)
  PROVE  IsOrdered(T \cup {new}, LinkedLink(L, d, n, new), LinkedBelow(T, B, n, new), K, NULL)
<1>1. PICK M, C : M = LinkedLink(L, d, n, new) /\ C = LinkedBelow(T, B, n, new)
  OBVIOUS
<1>2. /\ NULL \notin Nodes /\ T \subseteq Nodes /\ L \in [Dirs -> [Nodes -> NodesOrNull]]
      /\ B \in [Nodes -> SUBSET Nodes] /\ n \in Nodes
      /\ \A e \in Dirs : L[e][new] = NULL
      /\ \A m \in T, e \in Dirs : L[e][m] # NULL => L[e][m] \in T
  <2>1. NULL \notin Nodes /\ T \subseteq Nodes
    BY Children
  <2>2. /\ L \in [Dirs -> [Nodes -> NodesOrNull]] /\ B \in [Nodes -> SUBSET Nodes]
        /\ \A m \in Nodes \ T : \A e \in Dirs : L[e][m] = NULL
    BY DEF IsTree, IsLinked, IsBelow
  <2>3. \A m \in T, e \in Dirs : L[e][m] # NULL => L[e][m] \in T
    BY Children
  <2> QED
    BY <2>1, <2>2, <2>3
<1>3. /\ M[d][n] = new
      /\ \A m \in Nodes, e \in Dirs : m # n \/ e # d => M[e][m] = L[e][m]
  BY <1>1, <1>2 DEF LinkedLink
<1>4. C[new] = {new} /\ \A m \in T : C[m] = IF n \in B[m] THEN B[m] \cup {new} ELSE B[m]
  BY <1>1, <1>2 DEF LinkedBelow
<1>5. ASSUME NEW m \in T \cup {new}, NEW e \in Dirs, M[e][m] # NULL, NEW q \in C[M[e][m]]
      PROVE  Beside(e, K[q].addr, K[m].addr)
  <2>1. CASE m = n /\ e = d
    BY <1>3, <1>4, <1>5, <2>1
  <2>2. CASE ~(m = n /\ e = d)
    <3>1. M[e][m] = L[e][m] /\ m \in T /\ L[e][m] \in T
      BY <1>2, <1>3, <1>5, <2>2
    <3>2. CASE q = new /\ n \in B[L[e][m]]
      BY <1>5, <3>1, <3>2
    <3>3. CASE q \in B[L[e][m]]
      BY <1>2, <1>5, <3>1, <3>3 DEF IsOrdered
    <3> QED
      BY <1>4, <1>5, <3>1, <3>2, <3>3
  <2> QED
    BY <2>1, <2>2
<1> QED
  BY <1>1, <1>5 DEF IsOrdered

\* The end of the walk: inserted_node becomes a leaf.
LEMMA FitsInsertLeaf ==
  ASSUME NEW l, NEW c, NEW K, NEW T, NEW R, NEW L, NEW P, NEW B, NEW h,
         Fits("insertWalk", l, c, K, T, R, L, P, B, h), K[l.n].addr # l.addr,
         NEW d, d = TowardIn(K, l.addr, l.n), L[d][l.n] = NULL
  PROVE  Fits("insert1", [l EXCEPT !.n = l.held], c, K, T \cup {l.held}, R,
              LinkedLink(L, d, l.n, l.held), LinkedParent(P, l.n, l.held),
              LinkedBelow(T, B, l.n, l.held), [h EXCEPT ![l.held] = 1])
<1>1. PICK l2, n, new, a, S, M, Q, C, h2 :
        /\ l2 = [l EXCEPT !.n = l.held] /\ n = l.n /\ new = l.held /\ a = l.addr
        /\ S = T \cup {new} /\ M = LinkedLink(L, d, n, new)
        /\ Q = LinkedParent(P, n, new) /\ C = LinkedBelow(T, B, n, new)
        /\ h2 = [h EXCEPT ![new] = 1]
  OBVIOUS
<1>2. /\ IsTree(T, R, L, P, B) /\ SettledInv(T, R, L, c, h, l)
      /\ InsertWalkInv(T, L, B, c, K, l) /\ K \in [Nodes -> Keys]
      /\ c \in [Nodes -> {"RED", "BLACK"}] /\ IsOrdered(T, L, B, K, NULL)
  BY DEF Fits, PlaceInv, Settled, OrderGone, SettledInv
<1>3. /\ n \in T /\ d \in Dirs /\ new \in Nodes \ T /\ c[new] = "RED" /\ K[new].addr = a
      /\ L[d][n] = NULL /\ K[n].addr # a
  BY <1>1, <1>2 DEF InsertWalkInv, TowardIn, Dirs
<1>4. /\ T \subseteq Nodes /\ NULL \notin Nodes /\ R # NULL /\ R \in T
      /\ \A m \in T, e \in Dirs : L[e][m] # NULL => L[e][m] \in T
      /\ \A e \in Dirs : L[e][new] = NULL
      /\ L \in [Dirs -> [Nodes -> NodesOrNull]]
  BY <1>2, <1>3, Children DEF IsTree, IsLinked
<1>5. K[n].addr \in Nat /\ a \in Nat
  BY <1>2, <1>3, <1>4, AddressesAreNumbers
<1>6. Beside(d, a, K[n].addr)
  BY <1>1, <1>3, <1>5 DEF TowardIn, Beside
<1>7. IsTree(S, R, M, Q, C)
  BY <1>1, <1>2, <1>3, LinkKeepsTree
<1>8. IsOrdered(S, M, C, K, NULL)
  BY <1>1, <1>2, <1>3, <1>6, LinkKeepsOrder DEF InsertWalkInv
<1>9. /\ M[d][n] = new
      /\ \A m \in Nodes, e \in Dirs : m # n \/ e # d => M[e][m] = L[e][m]
  BY <1>1, <1>3, <1>4 DEF LinkedLink
<1>10. /\ h \in [NodesOrNull -> Nat \ {0}] /\ h[NULL] = 1
       /\ \A m \in T, e \in Dirs : h[m] = h[L[e][m]] + Blacks(c, m, NULL)
  BY <1>1, <1>2, EvenBalance DEF SettledInv
<1>11. /\ h2[new] = 1 /\ h2[NULL] = 1 /\ h2 \in [NodesOrNull -> Nat \ {0}]
       /\ \A m \in NodesOrNull : m # new => h2[m] = h[m]
  <2>1. new \in NodesOrNull /\ NULL \in NodesOrNull /\ 1 \in Nat \ {0} /\ new # NULL
    BY <1>3, <1>4 DEF NodesOrNull
  <2> QED
    BY <1>1, <1>10, <2>1
<1>12. IsBalanced(S, M, c, h2, NULL, NULL)
  <2>1. ASSUME NEW m \in S, NEW e \in Dirs
        PROVE  h2[m] = h2[M[e][m]] + Blacks(c, m, NULL)
    <3>1. CASE m = new
      <4>1. Blacks(c, m, NULL) = 0 /\ M[e][m] = NULL
        BY <1>3, <1>4, <1>9, <3>1 DEF Blacks
      <4> QED
        BY <1>11, <3>1, <4>1
    <3>2. CASE m # new
      <4>1. m \in T /\ h2[m] = h[m] /\ h[m] = h[L[e][m]] + Blacks(c, m, NULL)
        BY <1>1, <1>4, <1>10, <1>11, <3>2 DEF NodesOrNull
      <4>2. CASE m = n /\ e = d
        <5>1. M[e][m] = new /\ L[e][m] = NULL
          BY <1>3, <1>9, <4>2
        <5> QED
          BY <1>10, <1>11, <4>1, <5>1
      <4>3. CASE ~(m = n /\ e = d)
        <5>1. M[e][m] = L[e][m] /\ L[e][m] # new /\ L[e][m] \in NodesOrNull
          BY <1>3, <1>4, <1>9, <4>1, <4>3 DEF NodesOrNull
        <5> QED
          BY <1>11, <4>1, <5>1
      <4> QED
        BY <4>2, <4>3
    <3> QED
      BY <3>1, <3>2
  <2> QED
    BY <1>7, <1>11, <2>1, EvenBalance
<1>13. NoRedPairs(S, M, c, NULL, new)
  <2>1. ASSUME NEW m \in S, NEW e \in Dirs, c[m] = "RED", M[e][m] # new
        PROVE  ColorIn(c, M[e][m]) = "BLACK"
    <3>1. M[e][m] = L[e][m]
      BY <1>1, <1>4, <1>3, <1>9, <2>1
    <3>2. CASE m = new
      BY <1>4, <3>1, <3>2 DEF ColorIn
    <3>3. CASE m # new
      <4>1. m \in T \ {NULL}
        BY <1>1, <1>4, <3>3
      <4>2. L[e][m] = NULL \/ ColorIn(c, L[e][m]) = "BLACK"
        BY <1>2, <2>1, <4>1 DEF SettledInv, NoRedPairs
      <4> QED
        BY <3>1, <4>2 DEF ColorIn
    <3> QED
      BY <3>2, <3>3
  <2> QED
    BY <2>1 DEF NoRedPairs
<1>14. RootIsBlack(R, c, new)
  BY <1>2, <1>4 DEF SettledInv, RootIsBlack
<1>15. l2.n = new /\ l2.gone = NULL /\ new \in S
  BY <1>1, <1>2 DEF SettledInv
<1>16. Fits("insert1", l2, c, K, S, R, M, Q, C, h2)
  BY <1>2, <1>3, <1>7, <1>8, <1>12, <1>13, <1>14, <1>15
  DEF Fits, PlaceInv, OrderGone, Settled, InsertInv, Labels, Rotating
<1> QED
  BY <1>1, <1>16

\* rbtree_delete: the walk to the node
LEMMA FitsBeginDelete ==
  ASSUME NEW l, NEW c, NEW K, NEW T, NEW R, NEW L, NEW P, NEW B, NEW h,
         Fits("idle", l, c, K, T, R, L, P, B, h), NEW a
  PROVE  Fits("deleteWalk", [NoLocals EXCEPT !.n = R, !.addr = a], c, K, T, R, L, P, B, h)
<1>1. PICK l2 : l2 = [NoLocals EXCEPT !.n = R, !.addr = a]
  OBVIOUS
<1>2. l2.n = R /\ l2.gone = NULL
  BY <1>1 DEF NoLocals
<1>3. /\ IsTree(T, R, L, P, B) /\ SettledInv(T, R, L, c, h, l)
      /\ IsOrdered(T, L, B, K, NULL) /\ R \in T \cup {NULL}
  BY DEF Fits, PlaceInv, Settled, OrderGone, SettledInv, IsTree, IsLinked
<1>4. SettledInv(T, R, L, c, h, l2)
  BY <1>2, <1>3 DEF SettledInv
<1>5. Fits("deleteWalk", l2, c, K, T, R, L, P, B, h)
  BY <1>2, <1>3, <1>4 DEF Fits, PlaceInv, OrderGone, Settled, Labels, Rotating
<1> QED
  BY <1>1, <1>5

\* Any place between operations may be left without a change to the tree.
LEMMA FitsReturn ==
  ASSUME NEW at \in {"idle", "deleteWalk"},
         NEW l, NEW c, NEW K, NEW T, NEW R, NEW L, NEW P, NEW B, NEW h,
         Fits(at, l, c, K, T, R, L, P, B, h)
  PROVE  Fits("idle", NoLocals, c, K, T, R, L, P, B, h)
<1>1. NoLocals.gone = NULL
  BY DEF NoLocals
<1>2. /\ IsTree(T, R, L, P, B) /\ SettledInv(T, R, L, c, h, l)
      /\ IsOrdered(T, L, B, K, NULL)
  BY DEF Fits, PlaceInv, Settled, OrderGone, SettledInv
<1>3. SettledInv(T, R, L, c, h, NoLocals)
  BY <1>1, <1>2 DEF SettledInv
<1> QED
  BY <1>1, <1>2, <1>3 DEF Fits, PlaceInv, OrderGone, Settled, Labels, Rotating

LEMMA FitsDeleteWalk ==
  ASSUME NEW l, NEW c, NEW K, NEW T, NEW R, NEW L, NEW P, NEW B, NEW h,
         Fits("deleteWalk", l, c, K, T, R, L, P, B, h), l.n # NULL, NEW d \in Dirs
  PROVE  Fits("deleteWalk", [l EXCEPT !.n = L[d][l.n]], c, K, T, R, L, P, B, h)
<1>1. PICK l2 : l2 = [l EXCEPT !.n = L[d][l.n]]
  OBVIOUS
<1>2. l2.n = L[d][l.n] /\ l2.gone = l.gone
  BY <1>1
<1>3. /\ IsTree(T, R, L, P, B) /\ SettledInv(T, R, L, c, h, l)
      /\ IsOrdered(T, L, B, K, NULL) /\ l.n \in T /\ l.gone = NULL
  BY DEF Fits, PlaceInv, Settled, OrderGone, SettledInv
<1>4. L[d][l.n] \in T \cup {NULL}
  BY <1>3, Children
<1>5. SettledInv(T, R, L, c, h, l2)
  BY <1>2, <1>3 DEF SettledInv
<1>6. Fits("deleteWalk", l2, c, K, T, R, L, P, B, h)
  BY <1>2, <1>3, <1>4, <1>5 DEF Fits, PlaceInv, OrderGone, Settled, Labels, Rotating
<1> QED
  BY <1>1, <1>6

LEMMA FitsDeleteFound ==
  ASSUME NEW l, NEW c, NEW K, NEW T, NEW R, NEW L, NEW P, NEW B, NEW h,
         Fits("deleteWalk", l, c, K, T, R, L, P, B, h), l.n # NULL,
         NEW d \in Dirs, L[d][l.n] = NULL
  PROVE  Fits("delete0", l, c, K, T, R, L, P, B, h)
<1>1. /\ IsTree(T, R, L, P, B) /\ SettledInv(T, R, L, c, h, l)
      /\ IsOrdered(T, L, B, K, NULL) /\ l.n \in T
  BY DEF Fits, PlaceInv, Settled, OrderGone, SettledInv
<1>2. IsOrdered(T, L, B, K, l.n)
  <2>1. NULL \notin T /\ \A m \in T, e \in Dirs : L[e][m] # NULL =>
                           L[e][m] \in T /\ B[L[e][m]] \subseteq T
    BY <1>1, Children, Descendants
  <2> QED
    BY <1>1, <2>1 DEF IsOrdered
<1> QED
  BY <1>1, <1>2 DEF Fits, PlaceInv, OrderGone, Settled, Labels, Rotating

LEMMA FitsDeleteInner ==
  ASSUME NEW l, NEW c, NEW K, NEW T, NEW R, NEW L, NEW P, NEW B, NEW h,
         Fits("deleteWalk", l, c, K, T, R, L, P, B, h), l.n # NULL,
         \A d \in Dirs : L[d][l.n] # NULL
  PROVE  Fits("deleteMax", [l EXCEPT !.held = l.n, !.n = L["left"][l.n]], c, K,
              T, R, L, P, B, h)
<1>1. PICK l2, n, q : l2 = [l EXCEPT !.held = l.n, !.n = L["left"][l.n]]
                      /\ n = l.n /\ q = L["left"][n]
  OBVIOUS
<1>2. l2.n = q /\ l2.held = n /\ l2.gone = l.gone
  BY <1>1
<1>3. /\ IsTree(T, R, L, P, B) /\ SettledInv(T, R, L, c, h, l)
      /\ IsOrdered(T, L, B, K, NULL) /\ n \in T /\ l.gone = NULL
  BY <1>1 DEF Fits, PlaceInv, Settled, OrderGone, SettledInv
<1>4. q \in T /\ q \in B[q]
  <2>1. q \in T
    BY <1>1, <1>3, Children DEF Dirs
  <2> QED
    BY <1>3, <2>1 DEF IsTree, IsBelow
<1>5. DeleteMaxInv(T, L, B, K, l2)
  BY <1>1, <1>2, <1>3, <1>4 DEF DeleteMaxInv
<1>6. SettledInv(T, R, L, c, h, l2)
  BY <1>2, <1>3 DEF SettledInv
<1>7. Fits("deleteMax", l2, c, K, T, R, L, P, B, h)
  BY <1>2, <1>3, <1>5, <1>6 DEF Fits, PlaceInv, OrderGone, Settled, Labels, Rotating
<1> QED
  BY <1>1, <1>7

\* maximum_node: further to the right
LEMMA FitsDeleteMax ==
  ASSUME NEW l, NEW c, NEW K, NEW T, NEW R, NEW L, NEW P, NEW B, NEW h,
         Fits("deleteMax", l, c, K, T, R, L, P, B, h), L["right"][l.n] # NULL
  PROVE  Fits("deleteMax", [l EXCEPT !.n = L["right"][l.n]], c, K, T, R, L, P, B, h)
<1>1. PICK l2, n, q, t :
        /\ l2 = [l EXCEPT !.n = L["right"][l.n]] /\ n = l.n /\ q = L["right"][n]
        /\ t = L["left"][l.held]
  OBVIOUS
<1>2. l2.n = q /\ l2.held = l.held /\ l2.gone = l.gone
  BY <1>1
<1>3. /\ IsTree(T, R, L, P, B) /\ SettledInv(T, R, L, c, h, l) /\ DeleteMaxInv(T, L, B, K, l)
      /\ IsOrdered(T, L, B, K, NULL) /\ l.gone = NULL /\ K \in [Nodes -> Keys]
  BY DEF Fits, PlaceInv, Settled, OrderGone, SettledInv
<1>4. /\ "left" \in Dirs /\ "right" \in Dirs /\ Other("right") = "left"
      /\ \A d \in Dirs : d = "left" \/ d = "right"
  BY DEF Dirs, Other
<1>5. /\ t \in T /\ n \in B[t] /\ n \in T /\ q \in T /\ NULL \notin T /\ T \subseteq Nodes
      /\ B[q] \subseteq B[n] /\ B[n] \subseteq B[t] /\ q \in B[q] /\ B[t] \subseteq T
  <2>1. t \in T /\ n \in B[t]
    BY <1>1, <1>3, <1>4, Children DEF DeleteMaxInv
  <2>2. n \in T /\ B[t] \subseteq T /\ B[n] \subseteq B[t]
    BY <1>3, <2>1 DEF IsTree, IsBelow
  <2>3. q \in T /\ B[q] \subseteq B[n] /\ q \in B[q]
    BY <1>1, <1>3, <1>4, <2>2, Descendants
  <2> QED
    BY <1>3, <2>1, <2>2, <2>3, Children
<1>6. \A m \in T : K[m].addr \in Nat
  BY <1>3, <1>5, AddressesAreNumbers
<1>7. \A m \in B[q] : K[n].addr < K[m].addr
  <2>1. \A m \in B[q] : Beside("right", K[m].addr, K[n].addr)
    BY <1>1, <1>3, <1>4, <1>5 DEF IsOrdered
  <2> QED
    BY <1>5, <1>6, <2>1 DEF Beside
<1>8. ASSUME NEW m \in B[t], m \notin B[q], NEW x \in B[q]
      PROVE  K[m].addr < K[x].addr
  <2>1. CASE m \notin B[n]
    BY <1>1, <1>3, <1>5, <1>8, <2>1 DEF DeleteMaxInv
  <2>2. CASE m = n
    BY <1>7, <1>8, <2>2
  <2>3. CASE m \in B[n] /\ m # n
    <3>1. L["left"][n] # NULL /\ m \in B[L["left"][n]]
      BY <1>1, <1>3, <1>4, <1>5, <1>8, <2>3 DEF IsTree, IsBelow
    <3>2. K[m].addr < K[n].addr
      BY <1>3, <1>4, <1>5, <3>1 DEF IsOrdered, Beside
    <3>3. K[n].addr < K[x].addr
      BY <1>7
    <3>4. K[m].addr \in Nat /\ K[n].addr \in Nat /\ K[x].addr \in Nat
      BY <1>5, <1>6
    <3> QED
      BY <3>2, <3>3, <3>4
  <2> QED
    BY <2>1, <2>2, <2>3
<1>9. DeleteMaxInv(T, L, B, K, l2)
  BY <1>1, <1>2, <1>3, <1>5, <1>8, Zenon DEF DeleteMaxInv
<1>10. SettledInv(T, R, L, c, h, l2)
  BY <1>2, <1>3 DEF SettledInv
<1>11. Fits("deleteMax", l2, c, K, T, R, L, P, B, h)
  BY <1>2, <1>3, <1>9, <1>10 DEF Fits, PlaceInv, OrderGone, Settled, Labels, Rotating
<1> QED
  BY <1>1, <1>11

\* The predecessor is found and its key copied.
LEMMA FitsDeleteMaxEnd ==
  ASSUME NEW l, NEW c, NEW K, NEW T, NEW R, NEW L, NEW P, NEW B, NEW h,
         Fits("deleteMax", l, c, K, T, R, L, P, B, h), L["right"][l.n] = NULL
  PROVE  Fits("delete0", l, c, [K EXCEPT ![l.held] = K[l.n]], T, R, L, P, B, h)
<1>1. PICK n, t, x, K2 : /\ n = l.n /\ t = L["left"][l.held] /\ x = l.held
                         /\ K2 = [K EXCEPT ![l.held] = K[l.n]]
  OBVIOUS
<1>2. /\ IsTree(T, R, L, P, B) /\ SettledInv(T, R, L, c, h, l) /\ DeleteMaxInv(T, L, B, K, l)
      /\ IsOrdered(T, L, B, K, NULL) /\ l.gone = NULL /\ K \in [Nodes -> Keys]
      /\ c \in [Nodes -> {"RED", "BLACK"}]
  BY DEF Fits, PlaceInv, Settled, OrderGone, SettledInv
<1>3. /\ "left" \in Dirs /\ "right" \in Dirs /\ Other("right") = "left"
      /\ \A d \in Dirs : d = "left" \/ d = "right"
  BY DEF Dirs, Other
<1>4. /\ x \in T /\ t \in T /\ t # NULL /\ n \in B[t] /\ NULL \notin T /\ T \subseteq Nodes
  BY <1>1, <1>2, <1>3, Children DEF DeleteMaxInv
<1>5. /\ n \in T /\ B[t] \subseteq T /\ n \in B[n] /\ x \notin B[t] /\ n # x
      /\ B[t] \subseteq B[x] /\ B[x] \subseteq T
  <2>1. n \in T /\ B[t] \subseteq T
    BY <1>2, <1>4 DEF IsTree, IsBelow
  <2>2. x \notin B[t] /\ B[t] \subseteq B[x] /\ B[x] \subseteq T
    BY <1>1, <1>2, <1>3, <1>4 DEF IsTree, IsBelow
  <2>3. n \in B[n]
    BY <1>2, <2>1 DEF IsTree, IsBelow
  <2> QED
    BY <1>4, <2>1, <2>2, <2>3
<1>6. /\ K2[x] = K[n] /\ (\A m \in Nodes : m # x => K2[m] = K[m])
      /\ K2 \in [Nodes -> Keys]
  BY <1>1, <1>2, <1>4, <1>5
<1>7. \A m \in T : K[m].addr \in Nat
  BY <1>2, <1>4, AddressesAreNumbers
<1>8. \A m \in T, e \in Dirs : L[e][m] # NULL =>
        /\ L[e][m] \in T /\ B[L[e][m]] \subseteq T /\ m \notin B[L[e][m]]
        /\ \A q \in B[L[e][m]] : B[q] \subseteq B[L[e][m]]
        /\ \A q \in B[L[e][m]] : Beside(e, K[q].addr, K[m].addr)
  <2>1. ASSUME NEW m \in T, NEW e \in Dirs, L[e][m] # NULL
        PROVE  /\ L[e][m] \in T /\ B[L[e][m]] \subseteq T /\ m \notin B[L[e][m]]
               /\ \A q \in B[L[e][m]] : B[q] \subseteq B[L[e][m]]
    <3>1. L[e][m] \in T /\ m \notin B[L[e][m]]
      BY <1>2, <2>1, Descendants
    <3> QED
      BY <1>2, <2>1, <3>1, Descendants
  <2>2. ASSUME NEW m \in T, NEW e \in Dirs, L[e][m] # NULL, NEW q \in B[L[e][m]]
        PROVE  Beside(e, K[q].addr, K[m].addr)
    <3>1. q # NULL /\ m # NULL
      BY <1>4, <2>1, <2>2
    <3> QED
      BY <1>2, <2>2, <3>1 DEF IsOrdered
  <2> QED
    BY <2>1, <2>2
<1>9. \A m \in B[t] : m # n => K[m].addr < K[n].addr
  <2>1. ASSUME NEW m \in B[t], m # n PROVE K[m].addr < K[n].addr
    <3>1. CASE m \notin B[n]
      BY <1>1, <1>2, <1>5, <2>1, <3>1 DEF DeleteMaxInv
    <3>2. CASE m \in B[n]
      <4>1. L["left"][n] # NULL /\ m \in B[L["left"][n]]
        BY <1>1, <1>2, <1>3, <1>5, <2>1, <3>2 DEF IsTree, IsBelow
      <4> QED
        BY <1>3, <1>5, <1>8, <4>1 DEF Beside
    <3> QED
      BY <3>1, <3>2
  <2> QED
    BY <2>1
<1>10. K[n].addr < K[x].addr
  BY <1>1, <1>3, <1>4, <1>8 DEF Beside
<1>11. ASSUME NEW m \in T \ {n}, NEW e \in Dirs, L[e][m] # NULL,
              NEW q \in B[L[e][m]] \ {n}
       PROVE  Beside(e, K2[q].addr, K2[m].addr)
  <2>0. m \in Nodes /\ q \in Nodes /\ m \in T /\ q \in T
    BY <1>4, <1>8, <1>11
  <2>1. CASE m = x /\ e = "left"
    <3>1. K[q].addr < K[n].addr /\ q # x
      BY <1>1, <1>5, <1>9, <1>11, <2>1
    <3> QED
      BY <1>6, <2>0, <2>1, <3>1 DEF Beside
  <2>2. CASE m = x /\ e = "right"
    <3>1. K[q].addr > K[x].addr /\ q # x
      BY <1>3, <1>4, <1>8, <1>11, <2>2 DEF Beside
    <3>2. K[q].addr > K[n].addr
      BY <1>5, <1>7, <1>10, <1>4, <2>0, <3>1
    <3> QED
      BY <1>6, <2>0, <2>2, <3>1, <3>2 DEF Beside
  <2>3. CASE m # x /\ q = x
    <3>1. n \in B[L[e][m]]
      <4>1. n \in B[x]
        BY <1>4, <1>5
      <4> QED
        BY <1>8, <1>11, <2>3, <4>1
    <3> QED
      BY <1>6, <1>8, <1>11, <2>0, <2>3, <3>1
  <2>4. CASE m # x /\ q # x
    BY <1>6, <1>8, <1>11, <2>0, <2>4
  <2> QED
    BY <1>3, <2>1, <2>2, <2>3, <2>4
<1>12. IsOrdered(T, L, B, K2, n)
  BY <1>11 DEF IsOrdered
<1>13. Fits("delete0", l, c, K2, T, R, L, P, B, h)
  BY <1>1, <1>2, <1>3, <1>5, <1>6, <1>12
  DEF Fits, PlaceInv, OrderGone, Settled, Labels, Rotating
<1> QED
  BY <1>1, <1>13

\* The node to unlink is the one found; its only child will take its place.
OnlyChildIn(L, n) == IF L["right"][n] = NULL THEN L["left"][n] ELSE L["right"][n]

LEMMA OnlyChildIs ==
  ASSUME NEW L, NEW n, \E d \in Dirs : L[d][n] = NULL
  PROVE  \E d \in Dirs : L[d][n] = OnlyChildIn(L, n) /\ L[Other(d)][n] = NULL
<1>1. CASE L["right"][n] = NULL
  BY <1>1 DEF Dirs, Other, OnlyChildIn
<1>2. CASE L["right"][n] # NULL
  BY <1>2 DEF Dirs, Other, OnlyChildIn
<1> QED
  BY <1>1, <1>2

\* A red node is unlinked at once,
LEMMA FitsBeginUnlinkRed ==
  ASSUME NEW l, NEW c, NEW K, NEW T, NEW R, NEW L, NEW P, NEW B, NEW h,
         Fits("delete0", l, c, K, T, R, L, P, B, h), c[l.n] = "RED"
  PROVE  Fits("unlink", [l EXCEPT !.gone = l.n, !.held = OnlyChildIn(L, l.n)], c, K,
              T, R, L, P, B, h)
<1>1. PICK l2, n : n = l.n /\ l2 = [l EXCEPT !.gone = l.n, !.held = OnlyChildIn(L, l.n)]
  OBVIOUS
<1>2. /\ IsTree(T, R, L, P, B) /\ SettledInv(T, R, L, c, h, l)
      /\ IsOrdered(T, L, B, K, n) /\ n \in T /\ \E d \in Dirs : L[d][n] = NULL
  BY <1>1 DEF Fits, PlaceInv, Settled, OrderGone
<1>3. l2.gone = n /\ l2.held = OnlyChildIn(L, n)
  BY <1>1
<1>4. GoneInv(T, L, c, l2)
  BY <1>1, <1>2, <1>3, OnlyChildIs DEF GoneInv
<1>5. \A m \in T : Blacks(c, m, NULL) = Blacks(c, m, n)
  BY <1>1, <1>2, Children DEF Blacks
<1>6. IsBalanced(T, L, c, h, n, NULL)
  BY <1>2, <1>5 DEF SettledInv, IsBalanced
<1>7. NoRedPairs(T, L, c, n, NULL)
  BY <1>2, Children DEF SettledInv, NoRedPairs
<1>8. RootIsBlack(R, c, n)
  BY <1>2 DEF SettledInv, RootIsBlack, ColorIn
<1>9. UnlinkInv(T, R, L, c, h, l2)
  BY <1>3, <1>4, <1>6, <1>7, <1>8 DEF UnlinkInv
<1>10. Fits("unlink", l2, c, K, T, R, L, P, B, h)
  BY <1>2, <1>3, <1>9 DEF Fits, PlaceInv, OrderGone, Settled, Labels, Rotating
<1> QED
  BY <1>1, <1>10

\* a black one leaves a black missing.
LEMMA FitsBeginUnlinkBlack ==
  ASSUME NEW l, NEW c, NEW K, NEW T, NEW R, NEW L, NEW P, NEW B, NEW h,
         Fits("delete0", l, c, K, T, R, L, P, B, h), c[l.n] = "BLACK",
         NEW q, q = OnlyChildIn(L, l.n)
  PROVE  Fits("delete1", [l EXCEPT !.gone = l.n, !.held = q],
              [c EXCEPT ![l.n] = ColorIn(c, q)], K, T, R, L, P, B,
              [h EXCEPT ![l.n] = h[q]])
<1>1. PICK l2, n, c2, h2 :
        /\ n = l.n /\ l2 = [l EXCEPT !.gone = n, !.held = q]
        /\ c2 = [c EXCEPT ![n] = ColorIn(c, q)] /\ h2 = [h EXCEPT ![n] = h[q]]
  OBVIOUS
<1>2. /\ IsTree(T, R, L, P, B) /\ SettledInv(T, R, L, c, h, l)
      /\ IsOrdered(T, L, B, K, n) /\ n \in T /\ (\E d \in Dirs : L[d][n] = NULL)
      /\ c \in [Nodes -> {"RED", "BLACK"}]
  BY <1>1 DEF Fits, PlaceInv, Settled, OrderGone
<1>3. l2.n = n /\ l2.gone = n /\ l2.held = q
  BY <1>1
<1>4. PICK d \in Dirs : L[d][n] = q /\ L[Other(d)][n] = NULL
  BY <1>1, <1>2, OnlyChildIs
<1>5. /\ NULL \notin T /\ T \subseteq Nodes /\ n \in Nodes /\ n # NULL /\ q # n
      /\ q # NULL => q \in T /\ q \in Nodes
      /\ \A m \in T, e \in Dirs : L[e][m] # NULL => L[e][m] \in T /\ L[e][m] # m
  BY <1>2, <1>4, Children
<1>6. ColorIn(c, q) \in {"RED", "BLACK"}
  BY <1>2, <1>5 DEF ColorIn
<1>7. /\ c2[n] = ColorIn(c, q) /\ (\A m \in Nodes : m # n => c2[m] = c[m])
      /\ c2 \in [Nodes -> {"RED", "BLACK"}]
  BY <1>1, <1>2, <1>5, <1>6
<1>8. /\ h \in [NodesOrNull -> Nat \ {0}] /\ h[NULL] = 1
      /\ \A m \in T, e \in Dirs : h[m] = h[L[e][m]] + Blacks(c, m, NULL)
  BY <1>2, EvenBalance DEF SettledInv
<1>9. /\ NULL \in NodesOrNull /\ T \subseteq NodesOrNull
      /\ \A m \in NodesOrNull : h[m] \in Nat /\ h[m] # 0
      /\ \A m \in T, e \in Dirs : L[e][m] \in NodesOrNull
  BY <1>2, <1>8, Heights
<1>10. /\ h2[n] = h[q] /\ (\A m \in NodesOrNull : m # n => h2[m] = h[m])
       /\ h2 \in [NodesOrNull -> Nat \ {0}] /\ h2[NULL] = 1
  <2>1. n \in NodesOrNull /\ q \in NodesOrNull /\ h[q] \in Nat \ {0}
    BY <1>2, <1>4, <1>9
  <2> QED
    BY <1>1, <1>5, <1>8, <1>9, <2>1
<1>11. \A e \in Dirs : h[n] = h[L[e][n]] + 1 /\ h[L[e][n]] = h[q]
  <2>1. Blacks(c, n, NULL) = 1
    BY <1>1, <1>5 DEF Blacks
  <2>2. \A e \in Dirs : h[n] = h[L[e][n]] + 1
    BY <1>2, <1>8, <2>1
  <2>3. h[q] \in Nat /\ h[n] = h[q] + 1 /\ \A e \in Dirs : h[L[e][n]] \in Nat
    BY <1>2, <1>4, <1>9, <2>2
  <2> QED
    BY <2>2, <2>3
<1>12. IsBalanced(T, L, c2, h2, n, n)
  <2>1. ASSUME NEW m \in T, NEW e \in Dirs
        PROVE  h2[m] = h2[L[e][m]] + Lack(L[e][m], n) + Blacks(c2, m, n)
    <3>0. L[e][m] \in NodesOrNull /\ h[L[e][m]] \in Nat
      BY <1>9
    <3>1. CASE m = n
      <4>1. L[e][m] # n /\ Blacks(c2, m, n) = 0 /\ Lack(L[e][m], n) = 0
        BY <1>5, <3>1 DEF Blacks, Lack
      <4>2. h2[m] = h[q] /\ h2[L[e][m]] = h[q] /\ h[q] \in Nat
        BY <1>9, <1>10, <1>11, <3>0, <3>1, <4>1
      <4> QED
        BY <4>1, <4>2
    <3>2. CASE m # n
      <4>1. /\ h2[m] = h[m] /\ h[m] = h[L[e][m]] + Blacks(c, m, NULL)
            /\ Blacks(c2, m, n) = Blacks(c, m, NULL) /\ Blacks(c, m, NULL) \in Nat
        BY <1>5, <1>7, <1>8, <1>9, <1>10, <3>2 DEF Blacks
      <4>2. CASE L[e][m] = n
        <5>1. Lack(L[e][m], n) = 1 /\ h2[L[e][m]] = h[q] /\ h[L[e][m]] = h[q] + 1
          BY <1>4, <1>5, <1>10, <1>11, <4>2 DEF Lack
        <5>2. h[q] \in Nat
          BY <1>2, <1>4, <1>9
        <5> QED
          BY <4>1, <5>1, <5>2
      <4>3. CASE L[e][m] # n
        <5>1. Lack(L[e][m], n) = 0 /\ h2[L[e][m]] = h[L[e][m]]
          BY <1>10, <3>0, <4>3 DEF Lack
        <5> QED
          BY <3>0, <4>1, <5>1
      <4> QED
        BY <4>2, <4>3
    <3> QED
      BY <3>1, <3>2
  <2> QED
    BY <1>10, <2>1 DEF IsBalanced
<1>13. NoRedPairs(T, L, c2, n, n)
  <2>1. ASSUME NEW m \in T \ {n}, NEW e \in Dirs, c2[m] = "RED", L[e][m] # n
        PROVE  ColorIn(c2, L[e][m]) = "BLACK"
    <3>1. c[m] = "RED" /\ m \in T \ {NULL}
      BY <1>5, <1>7, <2>1
    <3>2. L[e][m] = NULL \/ ColorIn(c, L[e][m]) = "BLACK"
      BY <1>2, <3>1 DEF SettledInv, NoRedPairs
    <3> QED
      BY <1>5, <1>7, <2>1, <3>2 DEF ColorIn
  <2> QED
    BY <2>1 DEF NoRedPairs
<1>14. RootIsBlack(R, c2, n)
  <2>1. R # NULL => R \in Nodes
    BY <1>2, <1>5, Children
  <2> QED
    BY <1>2, <1>7, <2>1 DEF SettledInv, RootIsBlack, ColorIn
<1>15. GoneInv(T, L, c2, l2)
  <2>1. ColorIn(c2, q) = ColorIn(c, q)
    BY <1>5, <1>7 DEF ColorIn
  <2> QED
    BY <1>2, <1>3, <1>4, <1>7, <2>1 DEF GoneInv
<1>16. DeleteInv(T, R, L, B, c2, h2, l2)
  <2>1. n \in B[n]
    BY <1>2, Descendants
  <2> QED
    BY <1>2, <1>3, <1>12, <1>13, <1>14, <1>15, <2>1 DEF DeleteInv
<1>17. IsOrdered(T, L, B, K, n) /\ K \in [Nodes -> Keys]
  BY <1>2 DEF Fits
<1>18. Fits("delete1", l2, c2, K, T, R, L, P, B, h2)
  BY <1>2, <1>3, <1>7, <1>16, <1>17 DEF Fits, PlaceInv, OrderGone, Settled, Labels, Rotating
<1> QED
  BY <1>1, <1>18

\* delete_case1: a black missing above the root is missed by nobody.
LEMMA FitsDeleteCase1Root ==
  ASSUME NEW l, NEW c, NEW K, NEW T, NEW R, NEW L, NEW P, NEW B, NEW h,
         Fits("delete1", l, c, K, T, R, L, P, B, h), P[l.n] = NULL
  PROVE  Fits("unlink", l, c, K, T, R, L, P, B, h)
<1>1. PICK n : n = l.n
  OBVIOUS
<1>2. IsTree(T, R, L, P, B) /\ DeleteInv(T, R, L, B, c, h, l)
  BY DEF Fits, PlaceInv
<1>3. n = R /\ n \in T /\ NULL \notin T /\ \A m \in T, e \in Dirs : L[e][m] # n
  <2>1. n \in T /\ n = R /\ NULL \notin T
    BY <1>1, <1>2, Children DEF DeleteInv
  <2>2. \A m \in T, e \in Dirs : L[e][m] # n
    BY <1>1, <1>2, <2>1, Children
  <2> QED
    BY <2>1, <2>2
<1>4. \A m \in T, e \in Dirs : Lack(L[e][m], n) = Lack(L[e][m], NULL)
  BY <1>3 DEF Lack
<1>5. IsBalanced(T, L, c, h, l.gone, NULL)
  BY <1>1, <1>2, <1>4 DEF DeleteInv, IsBalanced
<1>6. NoRedPairs(T, L, c, l.gone, NULL)
  BY <1>1, <1>2, <1>3 DEF DeleteInv, NoRedPairs
<1>7. RootIsBlack(R, c, l.gone)
  BY <1>1, <1>2, <1>3 DEF DeleteInv, RootIsBlack, ColorIn
<1>8. UnlinkInv(T, R, L, c, h, l)
  BY <1>2, <1>5, <1>6, <1>7 DEF DeleteInv, UnlinkInv
<1> QED
  BY <1>8 DEF Fits, PlaceInv, OrderGone, Settled, Labels, Rotating

LEMMA FitsDeleteCase1 ==
  ASSUME NEW l, NEW c, NEW K, NEW T, NEW R, NEW L, NEW P, NEW B, NEW h,
         Fits("delete1", l, c, K, T, R, L, P, B, h), P[l.n] # NULL
  PROVE  Fits("delete2", l, c, K, T, R, L, P, B, h)
BY DEF Fits, PlaceInv, OrderGone, Settled, Labels, Rotating

\* Around the node that is a black short: its sibling s exists, and what is to
\* be unlinked is on this side.
ShortNode(T, L, P, B, c, h, l, n, p, d, o, s) ==
  /\ n = l.n /\ p = P[n] /\ d = DirIn(L, P, n) /\ o = Other(d) /\ s = L[o][p]
  /\ d \in Dirs /\ o \in Dirs /\ d # o /\ Dirs = {d, o} /\ Other(o) = d
  /\ p \in T /\ n \in T /\ p # n /\ L[d][p] = n
  /\ s # NULL /\ s \in T /\ s # n /\ s # p /\ P[s] = p
  /\ l.gone \in B[n] /\ l.gone # p /\ l.gone # s
  /\ p \notin B[n] /\ s \notin B[n] /\ B[n] \cap B[s] = {}
  /\ h[s] = h[n] + 1 /\ h[p] = h[s] + Blacks(c, p, NULL)

LEMMA ShortHasSibling ==
  ASSUME NEW l, NEW c, NEW T, NEW R, NEW L, NEW P, NEW B, NEW h,
         IsTree(T, R, L, P, B), DeleteInv(T, R, L, B, c, h, l), P[l.n] # NULL
  PROVE  \E n, p, d, o, s : ShortNode(T, L, P, B, c, h, l, n, p, d, o, s)
<1>0. PICK n, p, d, o, s : /\ n = l.n /\ p = P[n] /\ d = DirIn(L, P, n)
                           /\ o = Other(d) /\ s = L[o][p]
  OBVIOUS
<1>1. n \in T /\ l.gone \in B[n] /\ IsBalanced(T, L, c, h, l.gone, n) /\ p # NULL
  BY <1>0 DEF DeleteInv
<1>2. /\ d \in Dirs /\ o \in Dirs /\ d # o /\ Dirs = {d, o} /\ Other(o) = d
      /\ p \in T /\ p # n /\ L[d][p] = n /\ s # n /\ (s # NULL => s \in T)
  BY <1>0, <1>1, Relatives
<1>3. n # NULL /\ NULL \notin T /\ p \notin B[n]
  BY <1>1, <1>2, Children, Descendants
<1>4. Lack(n, n) = 1 /\ Lack(s, n) = 0
  BY <1>2, <1>3 DEF Lack
<1>5. /\ h \in [NodesOrNull -> Nat \ {0}] /\ h[NULL] = 1
      /\ \A m \in T : \A e \in Dirs :
           h[m] = h[L[e][m]] + Lack(L[e][m], n) + Blacks(c, m, l.gone)
  BY <1>1 DEF IsBalanced
<1>6. n \in NodesOrNull /\ s \in NodesOrNull /\ h[n] \in Nat /\ h[s] \in Nat /\ h[n] # 0
  BY <1>0, <1>1, <1>2, <1>5, Heights
<1>7. l.gone # p
  BY <1>1, <1>3
<1>8. Blacks(c, p, l.gone) = Blacks(c, p, NULL) /\ Blacks(c, p, NULL) \in Nat
  BY <1>2, <1>3, <1>7 DEF Blacks
<1>9. /\ h[p] = h[n] + Lack(n, n) + Blacks(c, p, l.gone)
      /\ h[p] = h[s] + Lack(s, n) + Blacks(c, p, l.gone)
  BY <1>0, <1>2, <1>5
<1>10. h[s] = h[n] + 1 /\ h[p] = h[s] + Blacks(c, p, NULL)
  BY <1>4, <1>6, <1>8, <1>9
<1>11. s # NULL /\ s \in T
  BY <1>2, <1>5, <1>6, <1>10
<1>12. s # p /\ P[s] = p
  BY <1>0, <1>2, <1>11, Children
<1>13. B[n] \cap B[s] = {} /\ s \in B[s]
  <2>1. L[d][p] # NULL /\ L[Other(d)][p] # NULL
    BY <1>0, <1>2, <1>3, <1>11
  <2>2. B[L[d][p]] \cap B[L[Other(d)][p]] = {}
    BY <1>2, <2>1, Descendants
  <2>3. L[d][p] = n /\ L[Other(d)][p] = s
    BY <1>0, <1>2
  <2>4. s \in B[s]
    BY <1>11, Descendants
  <2> QED
    BY <2>2, <2>3, <2>4
<1>14. s \notin B[n] /\ l.gone # s
  BY <1>1, <1>13
<1>15. ShortNode(T, L, P, B, c, h, l, n, p, d, o, s)
  BY <1>0, <1>1, <1>2, <1>3, <1>7, <1>10, <1>11, <1>12, <1>13, <1>14, Zenon DEF ShortNode
<1> QED
  BY <1>15

LEMMA GoneKept ==
  ASSUME NEW l, NEW c, NEW T, NEW R, NEW L, NEW P, NEW B,
         IsTree(T, R, L, P, B), GoneInv(T, L, c, l), NEW n \in T, l.gone \in B[n],
         NEW c2, \A m \in B[n] : c2[m] = c[m],
         NEW M, \A m \in B[n] : \A e \in Dirs : M[e][m] = L[e][m]
  PROVE  GoneInv(T, M, c2, l)
<1>1. l.gone \in T /\ B[l.gone] \subseteq B[n]
  BY Descendants DEF GoneInv
<1>2. PICK d \in Dirs : L[d][l.gone] = l.held /\ L[Other(d)][l.gone] = NULL
  BY DEF GoneInv
<1>3. M[d][l.gone] = l.held /\ M[Other(d)][l.gone] = NULL
  BY <1>2, Mirror
<1>4. l.held # NULL => l.held \in B[n]
  BY <1>1, <1>2, Descendants
<1>5. ColorIn(c2, l.held) = ColorIn(c, l.held) /\ c2[l.gone] = c[l.gone]
  BY <1>4 DEF ColorIn
<1> QED
  BY <1>1, <1>2, <1>3, <1>5 DEF GoneInv

\* What lies below a node apart from the rotation stays.
LEMMA TurnBeside ==
  ASSUME NEW T, NEW R, NEW L, NEW P, NEW B, IsTree(T, R, L, P, B),
         NEW d, NEW x, NEW y, NEW i, IsTurn(T, L, d, x, y, i),
         NEW n \in T, x \notin B[n], y \notin B[n],
         NEW M, M = TurnedLink(L, d, x, y, i), NEW C, C = TurnedBelow(L, B, d, x, y, i)
  PROVE  C[n] = B[n] /\ \A m \in B[n] : \A e \in Dirs : M[e][m] = L[e][m]
<1>1. n \in B[n] /\ B[n] \subseteq T /\ T \subseteq Nodes /\ n # x /\ n # y
  BY Children, Descendants
<1>2. C[n] = B[n]
  BY <1>1 DEF TurnedBelow
<1>3. ASSUME NEW m \in B[n], NEW e \in Dirs PROVE M[e][m] = L[e][m]
  <2>1. m \in T /\ B[m] \subseteq B[n] /\ m # x /\ m # y
    BY <1>1, Descendants
  <2>2. L[e][m] # x
    <3>1. x \in T /\ x # NULL
      BY TurnPlaces
    <3>2. L[e][m] # NULL => L[e][m] \in B[m]
      BY <2>1, Descendants
    <3> QED
      BY <2>1, <3>1, <3>2
  <2> QED
    BY <1>1, <2>1, <2>2, TurnedLinks
<1> QED
  BY <1>2, <1>3

\* delete_case2: a black sibling is left to the next cases,
LEMMA FitsDeleteCase2 ==
  ASSUME NEW l, NEW c, NEW K, NEW T, NEW R, NEW L, NEW P, NEW B, NEW h,
         Fits("delete2", l, c, K, T, R, L, P, B, h),
         ColorIn(c, L[Other(DirIn(L, P, l.n))][P[l.n]]) = "BLACK"
  PROVE  Fits("delete3", l, c, K, T, R, L, P, B, h)
<1>1. IsTree(T, R, L, P, B) /\ l.n \in T /\ P[l.n] # NULL
  BY DEF Fits, PlaceInv, DeleteInv
<1>2. SiblingInv(L, P, c, l)
  <2>1. \A e \in Dirs : L[e][P[l.n]] = l.n => e = DirIn(L, P, l.n)
    BY <1>1, Relatives, SideOf, Children
  <2> QED
    BY <2>1 DEF SiblingInv
<1> QED
  BY <1>2 DEF Fits, PlaceInv, OrderGone, Settled, Labels, Rotating

\* a red one is rotated above the parent.
LEMMA FitsDeleteCase2Turn ==
  ASSUME NEW l, NEW c, NEW K, NEW T, NEW R, NEW L, NEW P, NEW B, NEW h,
         Fits("delete2", l, c, K, T, R, L, P, B, h),
         NEW n, NEW p, NEW d, NEW o, NEW s, ShortNode(T, L, P, B, c, h, l, n, p, d, o, s),
         ColorIn(c, s) = "RED", NEW i, IsTurn(T, L, d, p, s, i)
  PROVE  /\ p \in Nodes /\ s \in Nodes
         /\ Fits("delete3", l, [c EXCEPT ![p] = "RED", ![s] = "BLACK"], K,
                 T, TurnedRoot(R, p, s), TurnedLink(L, d, p, s, i),
                 TurnedParent(P, p, s, i), TurnedBelow(L, B, d, p, s, i),
                 [h EXCEPT ![p] = h[s], ![s] = h[p]])
<1>1. PICK M, Q, C, c2, h2, z, S :
        /\ M = TurnedLink(L, d, p, s, i) /\ Q = TurnedParent(P, p, s, i)
        /\ C = TurnedBelow(L, B, d, p, s, i) /\ z = L[o][s]
        /\ S = TurnedRoot(R, p, s)
        /\ c2 = [c EXCEPT ![p] = "RED", ![s] = "BLACK"]
        /\ h2 = [h EXCEPT ![p] = h[s], ![s] = h[p]]
  BY Zenon
<1>2. /\ IsTree(T, R, L, P, B) /\ DeleteInv(T, R, L, B, c, h, l) /\ P[l.n] # NULL
      /\ c \in [Nodes -> {"RED", "BLACK"}] /\ K \in [Nodes -> Keys]
      /\ IsOrdered(T, L, B, K, l.gone)
  BY DEF Fits, PlaceInv, OrderGone
<1>3. /\ d \in Dirs /\ o \in Dirs /\ d # o /\ Dirs = {d, o} /\ Other(o) = d
      /\ p \in T /\ n \in T /\ p # n /\ L[d][p] = n
      /\ s # NULL /\ s \in T /\ s # n /\ s # p /\ P[s] = p
      /\ l.gone \in B[n] /\ l.gone # p /\ l.gone # s
      /\ p \notin B[n] /\ s \notin B[n] /\ B[n] \cap B[s] = {}
      /\ h[s] = h[n] + 1 /\ h[p] = h[s] + Blacks(c, p, NULL)
  BY Zenon DEF ShortNode
<1>0. n = l.n /\ o = Other(d) /\ L[o][p] = s /\ P[n] = p
  BY Zenon DEF ShortNode
<1>4. /\ NULL \notin T /\ T \subseteq Nodes /\ L[o][p] = s /\ c[s] = "RED"
      /\ \A m \in T, e \in Dirs : L[e][m] # NULL => L[e][m] \in T /\ P[L[e][m]] = m
  <2>1. c[s] = "RED"
    BY <1>3 DEF ColorIn
  <2> QED
    BY <1>0, <1>2, <2>1, Children
<1>5. /\ GoneInv(T, L, c, l) /\ IsBalanced(T, L, c, h, l.gone, n)
      /\ \A m \in T \ {l.gone}, e \in Dirs :
           c[m] = "RED" => L[e][m] = n \/ ColorIn(c, L[e][m]) = "BLACK"
      /\ RootIsBlack(R, c, n) /\ (n # l.gone => c[n] = "BLACK")
  <2>1. NoRedPairs(T, L, c, l.gone, n)
    BY <1>0, <1>2 DEF DeleteInv
  <2>2. \A m \in T \ {l.gone}, e \in Dirs :
          c[m] = "RED" => L[e][m] = n \/ ColorIn(c, L[e][m]) = "BLACK"
    BY <2>1 DEF NoRedPairs
  <2> QED
    BY <1>0, <1>2, <2>2 DEF DeleteInv
<1>6. c[p] = "BLACK"
  <2>1. c[p] # "RED"
    BY <1>3, <1>4, <1>5 DEF ColorIn
  <2> QED
    BY <1>2, <1>3, <1>4, <2>1
<1>8. /\ i \in T \cup {NULL} /\ i # p /\ i # s /\ (i # NULL => P[i] = s) /\ L[d][s] = i
      /\ z \in T \cup {NULL} /\ z # p /\ z # s /\ (z # NULL => P[z] = s)
      /\ i # n /\ z # n
  <2>1. /\ i \in T \cup {NULL} /\ i # p /\ i # s /\ (i # NULL => P[i] = s) /\ L[d][s] = i
        /\ \A e \in Dirs : L[e][s] # p
    BY <1>2, TurnPlaces
  <2>2. z # p
    BY <1>1, <1>3, <2>1
  <2>4. z # NULL => z \in T /\ P[z] = s /\ z # s
    BY <1>1, <1>2, <1>3, Children
  <2>3. P[n] = p /\ n # NULL
    BY <1>0, <1>3, <1>4
  <2> QED
    BY <1>3, <2>1, <2>2, <2>3, <2>4
<1>9. ColorIn(c, i) = "BLACK" /\ ColorIn(c, z) = "BLACK"
  BY <1>1, <1>3, <1>4, <1>5, <1>8
<1>10. /\ c2[p] = "RED" /\ c2[s] = "BLACK"
       /\ \A m \in Nodes : m # p /\ m # s => c2[m] = c[m]
       /\ c2 \in [Nodes -> {"RED", "BLACK"}]
  BY <1>1, <1>2, <1>3, <1>4
<1>11. /\ h \in [NodesOrNull -> Nat \ {0}] /\ h[NULL] = 1
       /\ \A m \in T : \A e \in Dirs :
            h[m] = h[L[e][m]] + Lack(L[e][m], n) + Blacks(c, m, l.gone)
  BY <1>5 DEF IsBalanced
<1>12. /\ \A m \in NodesOrNull : h[m] \in Nat /\ h[m] # 0
       /\ NULL \in NodesOrNull /\ T \subseteq NodesOrNull
       /\ \A m \in T, e \in Dirs : L[e][m] \in NodesOrNull
  BY <1>2, <1>11, Heights
<1>13. /\ h2[p] = h[s] /\ h2[s] = h[p]
       /\ \A m \in NodesOrNull : m # p /\ m # s => h2[m] = h[m]
       /\ h2 \in [NodesOrNull -> Nat \ {0}] /\ h2[NULL] = 1
  BY <1>1, <1>3, <1>4, <1>11, <1>12
<1>14. /\ Blacks(c, s, l.gone) = 0 /\ Blacks(c2, p, l.gone) = 0
       /\ Blacks(c2, s, l.gone) = 1 /\ Blacks(c, p, NULL) = 1
       /\ Lack(n, n) = 1 /\ \A m : m # n => Lack(m, n) = 0
       /\ \A m : Blacks(c, m, l.gone) \in Nat
  BY <1>3, <1>4, <1>6, <1>10 DEF Blacks, Lack
<1>15. h[i] = h[s] /\ h[z] = h[s] /\ h[p] = h[s] + 1
  <2>1. /\ h[s] = h[i] + Lack(i, n) + Blacks(c, s, l.gone)
        /\ h[s] = h[z] + Lack(z, n) + Blacks(c, s, l.gone)
    BY <1>1, <1>3, <1>8, <1>11
  <2>2. h[i] \in Nat /\ h[z] \in Nat /\ Lack(i, n) = 0 /\ Lack(z, n) = 0
    BY <1>8, <1>12, <1>14
  <2>3. h[s] \in Nat /\ h[s] = h[i] + 0 + 0 /\ h[s] = h[z] + 0 + 0
    BY <1>3, <1>12, <1>14, <2>1, <2>2
  <2>4. h[p] = h[s] + 1
    BY <1>3, <1>14
  <2> QED
    BY <2>2, <2>3, <2>4
<1>16. BalancedTurn(T, L, d, p, s, i, c2, h2, l.gone, n)
  <2>0. /\ n \in NodesOrNull /\ i \in NodesOrNull /\ z \in NodesOrNull
        /\ s \in NodesOrNull /\ p \in NodesOrNull
    BY <1>3, <1>8, <1>12
  <2>1. /\ h2[n] = h[n] /\ h2[i] = h[s] /\ h2[z] = h[s] /\ h[s] \in Nat /\ h[n] \in Nat
    BY <1>3, <1>8, <1>12, <1>13, <1>15, <2>0
  <2>2. \A m \in {L[d][p], i} : h2[p] = h2[m] + Lack(m, n) + Blacks(c2, p, l.gone)
    <3>1. h2[p] = h2[n] + Lack(n, n) + Blacks(c2, p, l.gone)
      <4>1. h2[p] = h[n] + 1 /\ h2[n] = h[n]
        BY <1>3, <1>13, <2>1
      <4> QED
        BY <1>14, <2>1, <4>1
    <3>2. h2[p] = h2[i] + Lack(i, n) + Blacks(c2, p, l.gone)
      BY <1>8, <1>13, <1>14, <2>1
    <3> QED
      BY <1>3, <3>1, <3>2
  <2>3. \A m \in {p, L[Other(d)][s]} : h2[s] = h2[m] + Lack(m, n) + Blacks(c2, s, l.gone)
    <3>1. h2[s] = h2[p] + Lack(p, n) + Blacks(c2, s, l.gone)
      <4>1. h2[s] = h[s] + 1 /\ h2[p] = h[s] /\ Lack(p, n) = 0
        BY <1>3, <1>13, <1>14, <1>15
      <4> QED
        BY <1>14, <2>1, <4>1
    <3>2. h2[s] = h2[z] + Lack(z, n) + Blacks(c2, s, l.gone)
      BY <1>8, <1>13, <1>14, <1>15, <2>1
    <3>3. L[Other(d)][s] = z
      BY <1>0, <1>1
    <3> QED
      BY <3>1, <3>2, <3>3
  <2>4. ASSUME NEW m \in T \ {p, s}, NEW e \in Dirs
        PROVE  h2[m] = IF L[e][m] = p THEN h2[s] + Lack(s, n) + Blacks(c2, m, l.gone)
                       ELSE h2[L[e][m]] + Lack(L[e][m], n) + Blacks(c2, m, l.gone)
    <3>1. Blacks(c2, m, l.gone) = Blacks(c, m, l.gone) /\ h2[m] = h[m]
      BY <1>4, <1>10, <1>12, <1>13 DEF Blacks
    <3>2. h[m] = h[L[e][m]] + Lack(L[e][m], n) + Blacks(c, m, l.gone)
      BY <1>11
    <3>3. CASE L[e][m] = p
      BY <1>3, <1>13, <1>14, <3>1, <3>2, <3>3
    <3>4. CASE L[e][m] # p
      <4>1. L[e][m] # s
        BY <1>3, <1>4
      <4>2. h2[L[e][m]] = h[L[e][m]]
        BY <1>12, <1>13, <3>4, <4>1
      <4> QED
        BY <3>1, <3>2, <3>4, <4>2
    <3> QED
      BY <3>3, <3>4
  <2>5. h2 \in [NodesOrNull -> Nat \ {0}] /\ h2[NULL] = 1
    BY <1>13
  <2> QED
    BY <2>2, <2>3, <2>4, <2>5 DEF BalancedTurn
<1>17. IsBalanced(T, M, c2, h2, l.gone, n)
  BY <1>1, <1>2, <1>16, TurnedBalance
<1>18. NoRedPairsTurn(T, L, d, p, s, i, c2, l.gone, n)
  <2>1. \A m \in {L[d][p], i} : m = n \/ ColorIn(c2, m) = "BLACK"
    BY <1>3, <1>4, <1>8, <1>9, <1>10 DEF ColorIn
  <2>2. ASSUME NEW m \in T \ {p, s, l.gone}, NEW e \in Dirs, c2[m] = "RED"
        PROVE  IF L[e][m] = p THEN s = n \/ c2[s] = "BLACK"
               ELSE L[e][m] = n \/ ColorIn(c2, L[e][m]) = "BLACK"
    <3>1. c[m] = "RED" /\ L[e][m] # s
      BY <1>3, <1>4, <1>10, <2>2
    <3>2. L[e][m] = n \/ ColorIn(c, L[e][m]) = "BLACK"
      BY <1>5, <3>1
    <3> QED
      BY <1>4, <1>10, <3>1, <3>2 DEF ColorIn
  <2>3. c2[s] # "RED"
    BY <1>10
  <2> QED
    BY <2>1, <2>2, <2>3 DEF NoRedPairsTurn
<1>19. NoRedPairs(T, M, c2, l.gone, n)
  BY <1>1, <1>2, <1>18, TurnedReds
<1>20. RootIsBlack(S, c2, n)
  <2>1. R # NULL => R \in T
    BY <1>2, Children
  <2>2. R # n
    BY <1>0, <1>2, <1>3, <1>4, Children
  <2> QED
    BY <1>1, <1>4, <1>5, <1>10, <2>1, <2>2 DEF TurnedRoot, RootIsBlack, ColorIn
<1>21. C[n] = B[n] /\ \A m \in B[n] : \A e \in Dirs : M[e][m] = L[e][m]
  BY <1>1, <1>2, <1>3, TurnBeside
<1>22. \A m \in B[n] : c2[m] = c[m]
  BY <1>2, <1>3, <1>4, <1>10, Descendants
<1>23. GoneInv(T, M, c2, l)
  BY <1>2, <1>3, <1>5, <1>21, <1>22, GoneKept
<1>24. DeleteInv(T, S, M, C, c2, h2, l)
  <2>1. n # l.gone => c2[n] = "BLACK"
    BY <1>3, <1>4, <1>5, <1>10
  <2> QED
    BY <1>0, <1>3, <1>17, <1>19, <1>20, <1>21, <1>23, <2>1 DEF DeleteInv
<1>25. IsTree(T, S, M, Q, C)
  BY <1>1, <1>2, TurnedTree
<1>26. IsOrdered(T, M, C, K, l.gone)
  BY <1>1, <1>2, <1>3, TurnKeepsOrder
<1>27. Q[n] = p /\ M[d][p] = n /\ M[o][p] = i
  <2>1. M[d][p] = L[d][p] /\ M[Other(d)][p] = i
    BY <1>1, <1>2, TurnedLinks
  <2>2. \A m \in Nodes : m # p /\ m # s /\ m # i => Q[m] = P[m]
    BY <1>1, <1>2, TurnedLinks
  <2> QED
    BY <1>0, <1>3, <1>4, <1>8, <2>1, <2>2
<1>28. SiblingInv(M, Q, c2, l)
  <2>1. ColorIn(c2, i) = "BLACK"
    BY <1>4, <1>8, <1>9, <1>10 DEF ColorIn
  <2>2. \A e \in Dirs : M[e][p] = n => e = d
    BY <1>3, <1>8, <1>27
  <2> QED
    BY <1>0, <1>27, <2>1, <2>2 DEF SiblingInv
<1>29. Q[l.n] # NULL
  BY <1>0, <1>3, <1>4, <1>27
<1>30. Fits("delete3", l, c2, K, T, S, M, Q, C, h2)
  BY <1>2, <1>10, <1>24, <1>25, <1>26, <1>28, <1>29
  DEF Fits, PlaceInv, OrderGone, Settled, Labels, Rotating
<1> QED
  BY <1>1, <1>3, <1>4, <1>30

\* Colours and the heights around the short node, for the cases after it.
LEMMA ShortColours ==
  ASSUME NEW l, NEW c, NEW T, NEW R, NEW L, NEW P, NEW B, NEW h,
         IsTree(T, R, L, P, B), DeleteInv(T, R, L, B, c, h, l), SiblingInv(L, P, c, l),
         NEW n, NEW p, NEW d, NEW o, NEW s, ShortNode(T, L, P, B, c, h, l, n, p, d, o, s)
  PROVE  /\ c[s] = "BLACK" /\ GoneInv(T, L, c, l)
         /\ (n # l.gone => c[n] = "BLACK")
         /\ \A m \in T \ {l.gone}, e \in Dirs :
              c[m] = "RED" => L[e][m] = n \/ ColorIn(c, L[e][m]) = "BLACK"
         /\ R # NULL /\ R \in T /\ R # n /\ c[R] = "BLACK" /\ R # s
         /\ h \in [NodesOrNull -> Nat \ {0}] /\ h[NULL] = 1
         /\ \A m \in T : \A e \in Dirs :
              h[m] = h[L[e][m]] + Lack(L[e][m], n) + Blacks(c, m, l.gone)
         /\ \A e \in Dirs : /\ h[L[e][s]] = h[n] /\ L[e][s] # n /\ L[e][s] # s
                            /\ L[e][s] # p /\ L[e][s] \in T \cup {NULL}
                            /\ L[e][s] # NULL => P[L[e][s]] = s
         /\ l.gone \notin B[s]
<1>1. /\ n = l.n /\ o = Other(d) /\ L[o][p] = s /\ P[n] = p /\ L[d][p] = n
      /\ p \in T /\ n \in T /\ s \in T /\ s # NULL /\ d \in Dirs /\ s # n /\ s # p
      /\ P[s] = p /\ l.gone \in B[n] /\ B[n] \cap B[s] = {} /\ h[s] = h[n] + 1
      /\ l.gone # s
  BY Zenon DEF ShortNode
<1>2. c[s] = "BLACK"
  BY <1>1 DEF SiblingInv, ColorIn
<1>3. /\ IsBalanced(T, L, c, h, l.gone, n) /\ NoRedPairs(T, L, c, l.gone, n)
      /\ RootIsBlack(R, c, n) /\ GoneInv(T, L, c, l) /\ (n # l.gone => c[n] = "BLACK")
  BY <1>1 DEF DeleteInv
<1>4. \A m \in T \ {l.gone}, e \in Dirs :
        c[m] = "RED" => L[e][m] = n \/ ColorIn(c, L[e][m]) = "BLACK"
  BY <1>3 DEF NoRedPairs
<1>5. /\ h \in [NodesOrNull -> Nat \ {0}] /\ h[NULL] = 1
      /\ \A m \in T : \A e \in Dirs :
           h[m] = h[L[e][m]] + Lack(L[e][m], n) + Blacks(c, m, l.gone)
  BY <1>3 DEF IsBalanced
<1>6. R # NULL /\ R \in T
  BY <1>1 DEF IsTree, IsLinked
<1>7. R # n /\ R # s /\ NULL \notin T
  BY <1>1, Children
<1>8. c[R] = "BLACK"
  BY <1>3, <1>6, <1>7 DEF RootIsBlack, ColorIn
<1>9. ASSUME NEW e \in Dirs
      PROVE  /\ h[L[e][s]] = h[n] /\ L[e][s] # n /\ L[e][s] # s
             /\ L[e][s] # p /\ L[e][s] \in T \cup {NULL}
             /\ L[e][s] # NULL => P[L[e][s]] = s
  <2>1. L[e][s] # NULL => L[e][s] \in T /\ P[L[e][s]] = s /\ L[e][s] # s
    BY <1>1, Children
  <2>2. L[e][s] # n
    BY <1>1, <1>7, <2>1
  <2>3. L[e][s] # p
    <3>1. L[o][p] # NULL /\ o \in Dirs
      BY <1>1, Mirror
    <3>2. p \notin B[s] /\ B[s] \subseteq T
      BY <1>1, <3>1, Descendants
    <3>3. L[e][s] # NULL => L[e][s] \in B[s]
      BY <1>1, Descendants
    <3> QED
      BY <1>1, <1>7, <3>2, <3>3
  <2>4. h[s] = h[L[e][s]] + Lack(L[e][s], n) + Blacks(c, s, l.gone)
    BY <1>1, <1>5
  <2>5. Lack(L[e][s], n) = 0 /\ Blacks(c, s, l.gone) = 1
    BY <1>1, <1>2, <2>2 DEF Lack, Blacks
  <2>6. h[L[e][s]] \in Nat /\ h[n] \in Nat
    BY <1>1, <1>5, Heights
  <2>7. h[L[e][s]] = h[n]
    BY <1>1, <2>4, <2>5, <2>6
  <2>8. L[e][s] \in T \cup {NULL} /\ L[e][s] # s
    BY <1>1, <2>1
  <2> QED
    BY <2>1, <2>2, <2>3, <2>7, <2>8
<1>10. l.gone \notin B[s]
  BY <1>1
<1> QED
  BY <1>2, <1>3, <1>4, <1>5, <1>6, <1>7, <1>8, <1>9, <1>10

\* delete_case3
LEMMA FitsDeleteCase3 ==
  ASSUME NEW l, NEW c, NEW K, NEW T, NEW R, NEW L, NEW P, NEW B, NEW h,
         Fits("delete3", l, c, K, T, R, L, P, B, h),
         NEW n, NEW p, NEW d, NEW o, NEW s, ShortNode(T, L, P, B, c, h, l, n, p, d, o, s),
         c[p] = "BLACK", \A e \in Dirs : ColorIn(c, L[e][s]) = "BLACK"
  PROVE  Fits("delete1", [l EXCEPT !.n = p], [c EXCEPT ![s] = "RED"], K, T, R, L, P, B,
              [h EXCEPT ![s] = h[n], ![p] = h[s]])
<1>1. PICK c2, h2, l2 : /\ c2 = [c EXCEPT ![s] = "RED"] /\ l2 = [l EXCEPT !.n = p]
                        /\ h2 = [h EXCEPT ![s] = h[n], ![p] = h[s]]
  BY Zenon
<1>2. /\ IsTree(T, R, L, P, B) /\ DeleteInv(T, R, L, B, c, h, l) /\ SiblingInv(L, P, c, l)
      /\ c \in [Nodes -> {"RED", "BLACK"}] /\ K \in [Nodes -> Keys]
      /\ IsOrdered(T, L, B, K, l.gone)
  BY DEF Fits, PlaceInv, OrderGone
<1>3. /\ d \in Dirs /\ o \in Dirs /\ d # o /\ Dirs = {d, o}
      /\ p \in T /\ n \in T /\ p # n /\ L[d][p] = n
      /\ s # NULL /\ s \in T /\ s # n /\ s # p /\ P[s] = p
      /\ l.gone \in B[n] /\ l.gone # p /\ l.gone # s
      /\ p \notin B[n] /\ s \notin B[n]
      /\ h[s] = h[n] + 1 /\ h[p] = h[s] + Blacks(c, p, NULL)
  BY Zenon DEF ShortNode
<1>4. n = l.n /\ L[o][p] = s /\ P[n] = p
  BY Zenon DEF ShortNode
<1>5. /\ GoneInv(T, L, c, l) /\ c[s] = "BLACK" /\ (n # l.gone => c[n] = "BLACK")
      /\ \A m \in T \ {l.gone}, e \in Dirs :
           c[m] = "RED" => L[e][m] = n \/ ColorIn(c, L[e][m]) = "BLACK"
      /\ R \in T /\ R # n /\ c[R] = "BLACK" /\ R # s
      /\ h \in [NodesOrNull -> Nat \ {0}] /\ h[NULL] = 1
      /\ \A m \in T : \A e \in Dirs :
           h[m] = h[L[e][m]] + Lack(L[e][m], n) + Blacks(c, m, l.gone)
  BY <1>2, ShortColours
<1>6. \A e \in Dirs : /\ h[L[e][s]] = h[n] /\ L[e][s] # n /\ L[e][s] # s
                      /\ L[e][s] # p
  BY <1>2, ShortColours
<1>7. /\ NULL \notin T /\ T \subseteq Nodes /\ p # NULL /\ n # NULL
      /\ \A m \in T, e \in Dirs : L[e][m] # NULL => L[e][m] \in T /\ P[L[e][m]] = m
  BY <1>2, <1>3, Children
<1>8. /\ c2[s] = "RED" /\ (\A m \in Nodes : m # s => c2[m] = c[m])
      /\ c2 \in [Nodes -> {"RED", "BLACK"}]
  BY <1>1, <1>2, <1>3, <1>7
<1>9. /\ \A m \in NodesOrNull : h[m] \in Nat /\ h[m] # 0
      /\ NULL \in NodesOrNull /\ T \subseteq NodesOrNull
      /\ \A m \in T, e \in Dirs : L[e][m] \in NodesOrNull
  BY <1>2, <1>5, Heights
<1>10. /\ h2[s] = h[n] /\ h2[p] = h[s]
       /\ \A m \in NodesOrNull : m # p /\ m # s => h2[m] = h[m]
       /\ h2 \in [NodesOrNull -> Nat \ {0}] /\ h2[NULL] = 1
  <2>1. {p, s, n} \subseteq NodesOrNull /\ h[n] \in Nat \ {0} /\ h[s] \in Nat \ {0}
    BY <1>3, <1>9
  <2> QED
    BY <1>1, <1>3, <1>5, <1>7, <1>9, <2>1
<1>11. /\ Blacks(c2, s, l.gone) = 0 /\ Blacks(c2, p, l.gone) = 1
       /\ Blacks(c, p, NULL) = 1 /\ h[p] = h[s] + 1
       /\ Lack(p, p) = 1 /\ (\A m : m # p => Lack(m, p) = 0)
       /\ Lack(n, n) = 1 /\ (\A m : m # n => Lack(m, n) = 0)
       /\ \A m : Blacks(c, m, l.gone) \in Nat
  <2>1. Blacks(c, p, NULL) = 1
    BY <1>7 DEF Blacks
  <2>2. c2[p] = "BLACK"
    BY <1>3, <1>7, <1>8
  <2> QED
    BY <1>3, <1>7, <1>8, <2>1, <2>2 DEF Blacks, Lack
<1>12. ASSUME NEW m \in T, NEW e \in Dirs
       PROVE  h2[m] = h2[L[e][m]] + Lack(L[e][m], p) + Blacks(c2, m, l.gone)
  <2>0. L[e][m] \in NodesOrNull /\ h[L[e][m]] \in Nat /\ h[n] \in Nat
    BY <1>3, <1>9
  <2>1. CASE m = s
    <3>1. L[e][m] # p /\ L[e][m] # s /\ h[L[e][m]] = h[n]
      BY <1>6, <2>1
    <3>2. h2[L[e][m]] = h[n] /\ h2[m] = h[n] /\ Lack(L[e][m], p) = 0
      BY <1>10, <1>11, <2>0, <2>1, <3>1
    <3> QED
      BY <1>11, <2>0, <2>1, <3>2
  <2>2. CASE m = p
    <3>1. L[e][m] = n \/ L[e][m] = s
      BY <1>3, <1>4, <2>2
    <3>2. h2[n] = h[n] /\ h2[s] = h[n] /\ h2[p] = h[n] + 1
      BY <1>3, <1>9, <1>10
    <3>3. h2[L[e][m]] = h[n] /\ Lack(L[e][m], p) = 0
      BY <1>3, <1>11, <3>1, <3>2
    <3> QED
      BY <1>11, <2>0, <2>2, <3>2, <3>3
  <2>3. CASE m # s /\ m # p
    <3>1. L[e][m] # n /\ L[e][m] # s
      BY <1>3, <1>4, <1>7, <2>3
    <3>2. /\ h2[m] = h[m] /\ Blacks(c2, m, l.gone) = Blacks(c, m, l.gone)
          /\ h[m] = h[L[e][m]] + 0 + Blacks(c, m, l.gone)
      BY <1>5, <1>7, <1>8, <1>9, <1>10, <1>11, <2>3, <3>1 DEF Blacks
    <3>3. CASE L[e][m] = p
      <4>1. h2[L[e][m]] = h[s] /\ h[L[e][m]] = h[s] + 1 /\ Lack(L[e][m], p) = 1
        BY <1>10, <1>11, <3>3
      <4>2. h[s] \in Nat
        BY <1>3, <1>9
      <4> QED
        BY <1>11, <3>2, <4>1, <4>2
    <3>4. CASE L[e][m] # p
      <4>1. h2[L[e][m]] = h[L[e][m]] /\ Lack(L[e][m], p) = 0
        BY <1>10, <1>11, <2>0, <3>1, <3>4
      <4> QED
        BY <2>0, <3>2, <4>1
    <3> QED
      BY <3>3, <3>4
  <2> QED
    BY <2>1, <2>2, <2>3
<1>13. IsBalanced(T, L, c2, h2, l.gone, p)
  BY <1>10, <1>12 DEF IsBalanced
<1>14. NoRedPairs(T, L, c2, l.gone, p)
  <2>1. ASSUME NEW m \in T \ {l.gone}, NEW e \in Dirs, c2[m] = "RED", L[e][m] # p
        PROVE  ColorIn(c2, L[e][m]) = "BLACK"
    <3>1. CASE m = s
      <4>1. L[e][m] # s /\ ColorIn(c, L[e][m]) = "BLACK"
        BY <1>6, <3>1
      <4> QED
        BY <1>7, <1>8, <4>1 DEF ColorIn
    <3>2. CASE m # s
      <4>1. c[m] = "RED" /\ m # p
        BY <1>7, <1>8, <2>1, <3>2
      <4>2. L[e][m] # n /\ L[e][m] # s
        BY <1>3, <1>4, <1>7, <4>1
      <4>3. ColorIn(c, L[e][m]) = "BLACK"
        BY <1>5, <4>1, <4>2
      <4> QED
        BY <1>7, <1>8, <4>2, <4>3 DEF ColorIn
    <3> QED
      BY <3>1, <3>2
  <2> QED
    BY <2>1 DEF NoRedPairs
<1>15. RootIsBlack(R, c2, p)
  BY <1>5, <1>7, <1>8 DEF RootIsBlack, ColorIn
<1>16. GoneInv(T, L, c2, l2)
  <2>1. \A m \in B[n] : c2[m] = c[m]
    BY <1>2, <1>3, <1>7, <1>8, Descendants
  <2>2. GoneInv(T, L, c2, l)
    BY <1>2, <1>3, <1>5, <2>1, GoneKept
  <2>3. l2.gone = l.gone /\ l2.held = l.held
    BY <1>1
  <2> QED
    BY <2>2, <2>3 DEF GoneInv
<1>17. l2.n = p /\ l2.gone = l.gone
  BY <1>1
<1>18. DeleteInv(T, R, L, B, c2, h2, l2)
  <2>1. B[n] \subseteq B[p]
    BY <1>2, <1>3, <1>7, Descendants
  <2>2. c2[p] = "BLACK"
    BY <1>3, <1>7, <1>8
  <2> QED
    BY <1>3, <1>13, <1>14, <1>15, <1>16, <1>17, <2>1, <2>2 DEF DeleteInv
<1>19. Fits("delete1", l2, c2, K, T, R, L, P, B, h2)
  BY <1>2, <1>8, <1>17, <1>18 DEF Fits, PlaceInv, OrderGone, Settled, Labels, Rotating
<1> QED
  BY <1>1, <1>19

\* delete_case4: only the parent is red; it pays for the missing black.
LEMMA FitsDeleteCase4 ==
  ASSUME NEW l, NEW c, NEW K, NEW T, NEW R, NEW L, NEW P, NEW B, NEW h,
         Fits("delete3", l, c, K, T, R, L, P, B, h),
         NEW n, NEW p, NEW d, NEW o, NEW s, ShortNode(T, L, P, B, c, h, l, n, p, d, o, s),
         c[p] = "RED", \A e \in Dirs : ColorIn(c, L[e][s]) = "BLACK"
  PROVE  Fits("unlink", l, [c EXCEPT ![s] = "RED", ![p] = "BLACK"], K, T, R, L, P, B,
              [h EXCEPT ![s] = h[n]])
<1>1. PICK c2, h2 : /\ c2 = [c EXCEPT ![s] = "RED", ![p] = "BLACK"]
                    /\ h2 = [h EXCEPT ![s] = h[n]]
  BY Zenon
<1>2. /\ IsTree(T, R, L, P, B) /\ DeleteInv(T, R, L, B, c, h, l) /\ SiblingInv(L, P, c, l)
      /\ c \in [Nodes -> {"RED", "BLACK"}] /\ K \in [Nodes -> Keys]
      /\ IsOrdered(T, L, B, K, l.gone)
  BY DEF Fits, PlaceInv, OrderGone
<1>3. /\ d \in Dirs /\ o \in Dirs /\ d # o /\ Dirs = {d, o}
      /\ p \in T /\ n \in T /\ p # n /\ L[d][p] = n
      /\ s # NULL /\ s \in T /\ s # n /\ s # p /\ P[s] = p
      /\ l.gone \in B[n] /\ l.gone # p /\ l.gone # s
      /\ p \notin B[n] /\ s \notin B[n]
      /\ h[s] = h[n] + 1 /\ h[p] = h[s] + Blacks(c, p, NULL)
  BY Zenon DEF ShortNode
<1>4. n = l.n /\ L[o][p] = s /\ P[n] = p
  BY Zenon DEF ShortNode
<1>5. /\ GoneInv(T, L, c, l) /\ c[s] = "BLACK"
      /\ \A m \in T \ {l.gone}, e \in Dirs :
           c[m] = "RED" => L[e][m] = n \/ ColorIn(c, L[e][m]) = "BLACK"
      /\ R # NULL /\ R \in T /\ c[R] = "BLACK" /\ R # s
      /\ h \in [NodesOrNull -> Nat \ {0}] /\ h[NULL] = 1
      /\ \A m \in T : \A e \in Dirs :
           h[m] = h[L[e][m]] + Lack(L[e][m], n) + Blacks(c, m, l.gone)
  BY <1>2, ShortColours
<1>6. \A e \in Dirs : /\ h[L[e][s]] = h[n] /\ L[e][s] # n /\ L[e][s] # s
                      /\ L[e][s] # p
  BY <1>2, ShortColours
<1>7. /\ NULL \notin T /\ T \subseteq Nodes /\ p # NULL /\ n # NULL
      /\ \A m \in T, e \in Dirs : L[e][m] # NULL => L[e][m] \in T /\ P[L[e][m]] = m
  BY <1>2, <1>3, Children
<1>8. /\ c2[s] = "RED" /\ c2[p] = "BLACK"
      /\ (\A m \in Nodes : m # s /\ m # p => c2[m] = c[m])
      /\ c2 \in [Nodes -> {"RED", "BLACK"}]
  BY <1>1, <1>2, <1>3, <1>7
<1>9. /\ \A m \in NodesOrNull : h[m] \in Nat /\ h[m] # 0
      /\ NULL \in NodesOrNull /\ T \subseteq NodesOrNull
      /\ \A m \in T, e \in Dirs : L[e][m] \in NodesOrNull
  BY <1>2, <1>5, Heights
<1>10. /\ h2[s] = h[n] /\ \A m \in NodesOrNull : m # s => h2[m] = h[m]
       /\ h2 \in [NodesOrNull -> Nat \ {0}] /\ h2[NULL] = 1
  <2>1. {p, s, n} \subseteq NodesOrNull /\ h[n] \in Nat \ {0}
    BY <1>3, <1>9
  <2> QED
    BY <1>1, <1>3, <1>5, <1>7, <1>9, <2>1
<1>11. /\ Blacks(c2, s, l.gone) = 0 /\ Blacks(c2, p, l.gone) = 1
       /\ Blacks(c, p, NULL) = 0 /\ (\A m : m # n => Lack(m, n) = 0)
       /\ \A m : Blacks(c, m, l.gone) \in Nat
  <2>1. Blacks(c, p, NULL) = 0
    BY DEF Blacks
  <2> QED
    BY <1>3, <1>7, <1>8, <2>1 DEF Blacks, Lack
<1>12. ASSUME NEW m \in T, NEW e \in Dirs
       PROVE  h2[m] = h2[L[e][m]] + Blacks(c2, m, l.gone)
  <2>0. L[e][m] \in NodesOrNull /\ h[L[e][m]] \in Nat /\ h[n] \in Nat
    BY <1>3, <1>9
  <2>1. CASE m = s
    <3>1. L[e][m] # s /\ h[L[e][m]] = h[n]
      BY <1>6, <2>1
    <3>2. h2[L[e][m]] = h[n] /\ h2[m] = h[n]
      BY <1>10, <2>0, <2>1, <3>1
    <3> QED
      BY <1>11, <2>0, <2>1, <3>2
  <2>2. CASE m = p
    <3>1. L[e][m] = n \/ L[e][m] = s
      BY <1>3, <1>4, <2>2
    <3>2. h2[n] = h[n] /\ h2[s] = h[n] /\ h2[p] = h[p]
      BY <1>3, <1>9, <1>10
    <3>3. h[p] = h[n] + 1
      BY <1>3, <1>11, <2>0
    <3> QED
      BY <1>11, <2>2, <3>1, <3>2, <3>3
  <2>3. CASE m # s /\ m # p
    <3>1. L[e][m] # n /\ L[e][m] # s
      BY <1>3, <1>4, <1>7, <2>3
    <3>2. h2[m] = h[m] /\ Blacks(c2, m, l.gone) = Blacks(c, m, l.gone)
      BY <1>7, <1>8, <1>9, <1>10, <2>3 DEF Blacks
    <3>3. h[m] = h[L[e][m]] + 0 + Blacks(c, m, l.gone) /\ h2[L[e][m]] = h[L[e][m]]
      BY <1>5, <1>10, <1>11, <2>0, <3>1
    <3>4. Blacks(c, m, l.gone) \in Nat
      BY <1>11
    <3> QED
      BY <2>0, <3>2, <3>3, <3>4
  <2> QED
    BY <2>1, <2>2, <2>3
<1>13. IsBalanced(T, L, c2, h2, l.gone, NULL)
  BY <1>2, <1>10, <1>12, EvenBalance
<1>14. NoRedPairs(T, L, c2, l.gone, NULL)
  <2>1. ASSUME NEW m \in T \ {l.gone}, NEW e \in Dirs, c2[m] = "RED"
        PROVE  ColorIn(c2, L[e][m]) = "BLACK"
    <3>1. CASE m = s
      <4>1. L[e][m] # s /\ ColorIn(c, L[e][m]) = "BLACK"
        BY <1>6, <3>1
      <4> QED
        BY <1>7, <1>8, <4>1 DEF ColorIn
    <3>2. CASE m # s
      <4>1. c[m] = "RED" /\ m # p
        BY <1>7, <1>8, <2>1, <3>2
      <4>2. L[e][m] # n /\ L[e][m] # s
        BY <1>3, <1>4, <1>7, <4>1
      <4>3. ColorIn(c, L[e][m]) = "BLACK"
        BY <1>5, <4>1, <4>2
      <4> QED
        BY <1>7, <1>8, <4>2, <4>3 DEF ColorIn
    <3> QED
      BY <3>1, <3>2
  <2> QED
    BY <2>1 DEF NoRedPairs
<1>15. RootIsBlack(R, c2, l.gone)
  BY <1>5, <1>7, <1>8 DEF RootIsBlack, ColorIn
<1>16. GoneInv(T, L, c2, l)
  <2>1. \A m \in B[n] : c2[m] = c[m]
    BY <1>2, <1>3, <1>7, <1>8, Descendants
  <2> QED
    BY <1>2, <1>3, <1>5, <2>1, GoneKept
<1>17. UnlinkInv(T, R, L, c2, h2, l)
  BY <1>13, <1>14, <1>15, <1>16 DEF UnlinkInv
<1>18. Fits("unlink", l, c2, K, T, R, L, P, B, h2)
  BY <1>2, <1>8, <1>17 DEF Fits, PlaceInv, OrderGone, Settled, Labels, Rotating
<1> QED
  BY <1>1, <1>18

\* delete_case5: with a red outer nephew there is nothing to do,
LEMMA FitsDeleteCase5 ==
  ASSUME NEW l, NEW c, NEW K, NEW T, NEW R, NEW L, NEW P, NEW B, NEW h,
         Fits("delete3", l, c, K, T, R, L, P, B, h),
         NEW n, NEW p, NEW d, NEW o, NEW s, ShortNode(T, L, P, B, c, h, l, n, p, d, o, s),
         ColorIn(c, L[o][s]) = "RED"
  PROVE  Fits("delete6", l, c, K, T, R, L, P, B, h)
<1>1. /\ n = l.n /\ p = P[n] /\ L[d][p] = n /\ s = L[o][p] /\ s # n
      /\ o = Other(d) /\ Dirs = {d, o}
  BY Zenon DEF ShortNode
<1>2. \A e \in Dirs : L[e][P[l.n]] = l.n => e = d
  BY <1>1
<1>3. NephewInv(L, P, c, l)
  BY <1>1, <1>2 DEF NephewInv
<1> QED
  BY <1>3 DEF Fits, PlaceInv, OrderGone, Settled, Labels, Rotating

\* a red inner nephew alone is rotated above the sibling.
LEMMA FitsDeleteCase5Turn ==
  ASSUME NEW l, NEW c, NEW K, NEW T, NEW R, NEW L, NEW P, NEW B, NEW h,
         Fits("delete3", l, c, K, T, R, L, P, B, h),
         NEW n, NEW p, NEW d, NEW o, NEW s, ShortNode(T, L, P, B, c, h, l, n, p, d, o, s),
         NEW t, NEW i, IsTurn(T, L, o, s, t, i),
         ColorIn(c, t) = "RED", ColorIn(c, L[o][s]) = "BLACK"
  PROVE  /\ s \in Nodes /\ t \in Nodes
         /\ Fits("delete6", l, [c EXCEPT ![s] = "RED", ![t] = "BLACK"], K,
                 T, TurnedRoot(R, s, t), TurnedLink(L, o, s, t, i),
                 TurnedParent(P, s, t, i), TurnedBelow(L, B, o, s, t, i),
                 [h EXCEPT ![s] = h[t], ![t] = h[s]])
<1>1. PICK M, Q, C, c2, h2, z, u, S :
        /\ M = TurnedLink(L, o, s, t, i) /\ Q = TurnedParent(P, s, t, i)
        /\ C = TurnedBelow(L, B, o, s, t, i) /\ z = L[d][t] /\ u = L[o][s]
        /\ S = TurnedRoot(R, s, t)
        /\ c2 = [c EXCEPT ![s] = "RED", ![t] = "BLACK"]
        /\ h2 = [h EXCEPT ![s] = h[t], ![t] = h[s]]
  BY Zenon
<1>2. /\ IsTree(T, R, L, P, B) /\ DeleteInv(T, R, L, B, c, h, l) /\ P[l.n] # NULL
      /\ SiblingInv(L, P, c, l)
      /\ c \in [Nodes -> {"RED", "BLACK"}] /\ K \in [Nodes -> Keys]
      /\ IsOrdered(T, L, B, K, l.gone)
  BY DEF Fits, PlaceInv, OrderGone
<1>3. /\ d \in Dirs /\ o \in Dirs /\ d # o /\ Dirs = {d, o} /\ Other(o) = d
      /\ p \in T /\ n \in T /\ p # n /\ L[d][p] = n
      /\ s # NULL /\ s \in T /\ s # n /\ s # p /\ P[s] = p
      /\ l.gone \in B[n] /\ l.gone # p /\ l.gone # s
      /\ p \notin B[n] /\ s \notin B[n] /\ B[n] \cap B[s] = {}
      /\ h[s] = h[n] + 1
  BY Zenon DEF ShortNode
<1>0. n = l.n /\ o = Other(d) /\ L[o][p] = s /\ P[n] = p
  BY Zenon DEF ShortNode
<1>5. /\ GoneInv(T, L, c, l) /\ c[s] = "BLACK" /\ (n # l.gone => c[n] = "BLACK")
      /\ \A m \in T \ {l.gone}, e \in Dirs :
           c[m] = "RED" => L[e][m] = n \/ ColorIn(c, L[e][m]) = "BLACK"
      /\ R # NULL /\ R \in T /\ R # n /\ c[R] = "BLACK" /\ R # s
      /\ h \in [NodesOrNull -> Nat \ {0}] /\ h[NULL] = 1
      /\ \A m \in T : \A e \in Dirs :
           h[m] = h[L[e][m]] + Lack(L[e][m], n) + Blacks(c, m, l.gone)
      /\ l.gone \notin B[s]
  BY <1>2, ShortColours
<1>6. \A e \in Dirs : /\ h[L[e][s]] = h[n] /\ L[e][s] # n /\ L[e][s] # s
                      /\ L[e][s] # p /\ L[e][s] \in T \cup {NULL}
                      /\ L[e][s] # NULL => P[L[e][s]] = s
  BY <1>2, ShortColours
<1>7. /\ NULL \notin T /\ T \subseteq Nodes
      /\ \A m \in T, e \in Dirs : L[e][m] # NULL =>
           L[e][m] \in T /\ P[L[e][m]] = m /\ L[e][m] # m /\ L[e][m] # L[Other(e)][m]
  BY <1>2, Children
<1>8. /\ t \in T /\ t = L[d][s] /\ t # NULL /\ P[t] = s /\ h[t] = h[n] /\ t # n /\ t # s
      /\ t # p /\ c[t] = "RED"
  <2>1. t = L[d][s] /\ t # NULL
    BY <1>3 DEF IsTurn
  <2>2. t \in T /\ P[t] = s /\ h[t] = h[n] /\ t # n /\ t # s /\ t # p
    BY <1>3, <1>6, <2>1
  <2> QED
    BY <2>1, <2>2 DEF ColorIn
<1>9. /\ i \in T \cup {NULL} /\ i # s /\ i # t /\ (i # NULL => P[i] = t) /\ L[o][t] = i
      /\ z \in T \cup {NULL} /\ z # s /\ z # t /\ (z # NULL => P[z] = t)
      /\ i # n /\ z # n
  <2>1. /\ i \in T \cup {NULL} /\ i # s /\ i # t /\ (i # NULL => P[i] = t) /\ L[o][t] = i
        /\ \A e \in Dirs : L[e][t] # s
    BY <1>2, TurnPlaces
  <2>2. z # s
    BY <1>1, <1>3, <2>1
  <2>3. z # NULL => z \in T /\ P[z] = t /\ z # t
    BY <1>1, <1>3, <1>7, <1>8
  <2>4. P[n] = p /\ n # NULL
    BY <1>0, <1>3, <1>7
  <2> QED
    BY <1>8, <2>1, <2>2, <2>3, <2>4
<1>10. /\ u \in T \cup {NULL} /\ u # s /\ u # t /\ u # n /\ h[u] = h[n]
       /\ ColorIn(c, u) = "BLACK"
  <2>1. L[d][s] # L[Other(d)][s]
    BY <1>3, <1>7, <1>8
  <2>2. u # t
    BY <1>0, <1>1, <1>8, <2>1
  <2> QED
    BY <1>1, <1>3, <1>6, <2>2
<1>11. t \in B[s] /\ t # l.gone /\ t \notin B[n]
  <2>1. L[d][s] \in B[L[d][s]] /\ B[L[d][s]] \subseteq B[s]
    BY <1>2, <1>3, <1>8, Descendants
  <2> QED
    BY <1>3, <1>5, <1>8, <2>1
<1>12. ColorIn(c, i) = "BLACK" /\ ColorIn(c, z) = "BLACK"
  BY <1>1, <1>3, <1>5, <1>8, <1>9, <1>11
<1>13. /\ c2[s] = "RED" /\ c2[t] = "BLACK"
       /\ \A m \in Nodes : m # s /\ m # t => c2[m] = c[m]
       /\ c2 \in [Nodes -> {"RED", "BLACK"}]
  BY <1>1, <1>2, <1>3, <1>7, <1>8
<1>14. /\ \A m \in NodesOrNull : h[m] \in Nat /\ h[m] # 0
       /\ NULL \in NodesOrNull /\ T \subseteq NodesOrNull
       /\ \A m \in T, e \in Dirs : L[e][m] \in NodesOrNull
  BY <1>2, <1>5, Heights
<1>15. /\ h2[s] = h[t] /\ h2[t] = h[s]
       /\ \A m \in NodesOrNull : m # s /\ m # t => h2[m] = h[m]
       /\ h2 \in [NodesOrNull -> Nat \ {0}] /\ h2[NULL] = 1
  BY <1>1, <1>3, <1>5, <1>7, <1>8, <1>14
<1>16. /\ Blacks(c, t, l.gone) = 0 /\ Blacks(c2, s, l.gone) = 0
       /\ Blacks(c2, t, l.gone) = 1
       /\ \A m : m # n => Lack(m, n) = 0
       /\ \A m : Blacks(c, m, l.gone) \in Nat
  BY <1>3, <1>8, <1>11, <1>13 DEF Blacks, Lack
<1>17. h[i] = h[n] /\ h[z] = h[n]
  <2>1. /\ h[t] = h[i] + Lack(i, n) + Blacks(c, t, l.gone)
        /\ h[t] = h[z] + Lack(z, n) + Blacks(c, t, l.gone)
    BY <1>1, <1>3, <1>5, <1>8, <1>9
  <2>2. h[i] \in Nat /\ h[z] \in Nat /\ Lack(i, n) = 0 /\ Lack(z, n) = 0
    BY <1>9, <1>14, <1>16
  <2> QED
    BY <1>8, <1>16, <2>1, <2>2
<1>18. BalancedTurn(T, L, o, s, t, i, c2, h2, l.gone, n)
  <2>0. /\ n \in NodesOrNull /\ i \in NodesOrNull /\ z \in NodesOrNull
        /\ u \in NodesOrNull /\ h[n] \in Nat
    BY <1>3, <1>9, <1>10, <1>14
  <2>1. h2[i] = h[n] /\ h2[z] = h[n] /\ h2[u] = h[n] /\ h2[s] = h[n] /\ h2[t] = h[n] + 1
    BY <1>3, <1>8, <1>9, <1>10, <1>15, <1>17, <2>0
  <2>2. \A m \in {L[o][s], i} : h2[s] = h2[m] + Lack(m, n) + Blacks(c2, s, l.gone)
    <3>1. Lack(u, n) = 0 /\ Lack(i, n) = 0
      BY <1>9, <1>10, <1>16
    <3> QED
      BY <1>1, <1>16, <2>0, <2>1, <3>1
  <2>3. \A m \in {s, L[Other(o)][t]} : h2[t] = h2[m] + Lack(m, n) + Blacks(c2, t, l.gone)
    <3>1. Lack(s, n) = 0 /\ Lack(z, n) = 0
      BY <1>3, <1>9, <1>16
    <3>2. L[Other(o)][t] = z
      BY <1>1, <1>3
    <3> QED
      BY <1>16, <2>0, <2>1, <3>1, <3>2
  <2>4. ASSUME NEW m \in T \ {s, t}, NEW e \in Dirs
        PROVE  h2[m] = IF L[e][m] = s THEN h2[t] + Lack(t, n) + Blacks(c2, m, l.gone)
                       ELSE h2[L[e][m]] + Lack(L[e][m], n) + Blacks(c2, m, l.gone)
    <3>1. Blacks(c2, m, l.gone) = Blacks(c, m, l.gone) /\ h2[m] = h[m]
      BY <1>7, <1>13, <1>14, <1>15 DEF Blacks
    <3>2. h[m] = h[L[e][m]] + Lack(L[e][m], n) + Blacks(c, m, l.gone)
      BY <1>5
    <3>3. CASE L[e][m] = s
      BY <1>3, <1>8, <1>15, <1>16, <3>1, <3>2, <3>3
    <3>4. CASE L[e][m] # s
      <4>1. L[e][m] # t
        BY <1>7, <1>8
      <4>2. h2[L[e][m]] = h[L[e][m]]
        BY <1>14, <1>15, <3>4, <4>1
      <4> QED
        BY <3>1, <3>2, <3>4, <4>2
    <3> QED
      BY <3>3, <3>4
  <2>5. h2 \in [NodesOrNull -> Nat \ {0}] /\ h2[NULL] = 1
    BY <1>15
  <2> QED
    BY <2>2, <2>3, <2>4, <2>5 DEF BalancedTurn
<1>19. IsBalanced(T, M, c2, h2, l.gone, n)
  BY <1>1, <1>2, <1>18, TurnedBalance
<1>20. NoRedPairsTurn(T, L, o, s, t, i, c2, l.gone, n)
  <2>1. \A m \in {L[o][s], i} : m = n \/ ColorIn(c2, m) = "BLACK"
    BY <1>1, <1>7, <1>9, <1>10, <1>12, <1>13 DEF ColorIn
  <2>2. ASSUME NEW m \in T \ {s, t, l.gone}, NEW e \in Dirs, c2[m] = "RED"
        PROVE  IF L[e][m] = s THEN t = n \/ c2[t] = "BLACK"
               ELSE L[e][m] = n \/ ColorIn(c2, L[e][m]) = "BLACK"
    <3>1. c[m] = "RED" /\ L[e][m] # t
      BY <1>7, <1>8, <1>13, <2>2
    <3>2. L[e][m] = n \/ ColorIn(c, L[e][m]) = "BLACK"
      BY <1>5, <3>1
    <3> QED
      BY <1>7, <1>13, <3>1, <3>2 DEF ColorIn
  <2>3. c2[t] # "RED"
    BY <1>13
  <2> QED
    BY <2>1, <2>2, <2>3 DEF NoRedPairsTurn
<1>21. NoRedPairs(T, M, c2, l.gone, n)
  BY <1>1, <1>2, <1>20, TurnedReds
<1>22. RootIsBlack(S, c2, n)
  BY <1>1, <1>5, <1>7, <1>13 DEF TurnedRoot, RootIsBlack, ColorIn
<1>23. C[n] = B[n] /\ \A m \in B[n] : \A e \in Dirs : M[e][m] = L[e][m]
  BY <1>1, <1>2, <1>3, <1>11, TurnBeside
<1>24. \A m \in B[n] : c2[m] = c[m]
  BY <1>2, <1>3, <1>7, <1>11, <1>13, Descendants
<1>25. GoneInv(T, M, c2, l)
  BY <1>2, <1>3, <1>5, <1>23, <1>24, GoneKept
<1>26. DeleteInv(T, S, M, C, c2, h2, l)
  <2>1. n # l.gone => c2[n] = "BLACK"
    BY <1>3, <1>5, <1>7, <1>8, <1>13
  <2> QED
    BY <1>0, <1>3, <1>19, <1>21, <1>22, <1>23, <1>25, <2>1 DEF DeleteInv
<1>27. IsTree(T, S, M, Q, C)
  BY <1>1, <1>2, TurnedTree
<1>28. IsOrdered(T, M, C, K, l.gone)
  BY <1>1, <1>2, <1>3, <1>11, TurnKeepsOrder
<1>29. Q[n] = p /\ M[d][p] = n /\ M[o][p] = t /\ M[o][t] = s
  <2>1. M[o][t] = s
    BY <1>1, <1>2, TurnedLinks
  <2>2. \A e \in Dirs, m \in Nodes : m # s /\ m # t =>
          M[e][m] = IF L[e][m] = s THEN t ELSE L[e][m]
    BY <1>1, <1>2, TurnedLinks
  <2>3. \A m \in Nodes : m # s /\ m # t /\ m # i => Q[m] = P[m]
    BY <1>1, <1>2, TurnedLinks
  <2> QED
    BY <1>0, <1>3, <1>7, <1>8, <1>9, <2>1, <2>2, <2>3
<1>30. \A e \in Dirs : M[e][p] = n => e = d
  BY <1>3, <1>8, <1>29
<1>31. SiblingInv(M, Q, c2, l)
  <2>1. ColorIn(c2, t) = "BLACK"
    BY <1>13 DEF ColorIn
  <2> QED
    BY <1>0, <1>29, <1>30, <2>1 DEF SiblingInv
<1>32. NephewInv(M, Q, c2, l)
  <2>1. ColorIn(c2, s) = "RED"
    BY <1>3, <1>13 DEF ColorIn
  <2> QED
    BY <1>0, <1>29, <1>30, <2>1 DEF NephewInv
<1>33. Q[l.n] # NULL
  BY <1>0, <1>3, <1>7, <1>29
<1>34. Fits("delete6", l, c2, K, T, S, M, Q, C, h2)
  BY <1>2, <1>13, <1>26, <1>27, <1>28, <1>31, <1>32, <1>33
  DEF Fits, PlaceInv, OrderGone, Settled, Labels, Rotating
<1> QED
  BY <1>1, <1>3, <1>7, <1>8, <1>34, Zenon

\* delete_case6: the sibling is rotated above the parent and takes its colour;
\* the red outer nephew q turns black.
LEMMA FitsDeleteCase6 ==
  ASSUME NEW l, NEW c, NEW K, NEW T, NEW R, NEW L, NEW P, NEW B, NEW h,
         Fits("delete6", l, c, K, T, R, L, P, B, h),
         NEW n, NEW p, NEW d, NEW o, NEW s, ShortNode(T, L, P, B, c, h, l, n, p, d, o, s),
         NEW i, IsTurn(T, L, d, p, s, i), NEW q, q = L[o][s]
  PROVE  /\ p \in Nodes /\ s \in Nodes /\ q \in Nodes
         /\ Fits("unlink", l,
                 [c EXCEPT ![s] = ColorIn(c, p), ![p] = "BLACK", ![q] = "BLACK"], K,
                 T, TurnedRoot(R, p, s), TurnedLink(L, d, p, s, i),
                 TurnedParent(P, p, s, i), TurnedBelow(L, B, d, p, s, i),
                 [h EXCEPT ![p] = h[s], ![s] = h[p], ![q] = h[s]])
<1>1. PICK M, Q, C, c2, h2, S :
        /\ M = TurnedLink(L, d, p, s, i) /\ Q = TurnedParent(P, p, s, i)
        /\ C = TurnedBelow(L, B, d, p, s, i) /\ S = TurnedRoot(R, p, s)
        /\ c2 = [c EXCEPT ![s] = ColorIn(c, p), ![p] = "BLACK", ![q] = "BLACK"]
        /\ h2 = [h EXCEPT ![p] = h[s], ![s] = h[p], ![q] = h[s]]
  BY Zenon
<1>2. /\ IsTree(T, R, L, P, B) /\ DeleteInv(T, R, L, B, c, h, l) /\ P[l.n] # NULL
      /\ SiblingInv(L, P, c, l) /\ NephewInv(L, P, c, l)
      /\ c \in [Nodes -> {"RED", "BLACK"}] /\ K \in [Nodes -> Keys]
      /\ IsOrdered(T, L, B, K, l.gone)
  BY DEF Fits, PlaceInv, OrderGone
<1>3. /\ d \in Dirs /\ o \in Dirs /\ d # o /\ Dirs = {d, o} /\ Other(o) = d
      /\ p \in T /\ n \in T /\ p # n /\ L[d][p] = n
      /\ s # NULL /\ s \in T /\ s # n /\ s # p /\ P[s] = p
      /\ l.gone \in B[n] /\ l.gone # p /\ l.gone # s
      /\ p \notin B[n] /\ s \notin B[n] /\ B[n] \cap B[s] = {}
      /\ h[s] = h[n] + 1 /\ h[p] = h[s] + Blacks(c, p, NULL)
  BY Zenon DEF ShortNode
<1>0. n = l.n /\ o = Other(d) /\ L[o][p] = s /\ P[n] = p
  BY Zenon DEF ShortNode
<1>5. /\ GoneInv(T, L, c, l) /\ c[s] = "BLACK"
      /\ \A m \in T \ {l.gone}, e \in Dirs :
           c[m] = "RED" => L[e][m] = n \/ ColorIn(c, L[e][m]) = "BLACK"
      /\ R # NULL /\ R \in T /\ R # n /\ c[R] = "BLACK" /\ R # s
      /\ h \in [NodesOrNull -> Nat \ {0}] /\ h[NULL] = 1
      /\ \A m \in T : \A e \in Dirs :
           h[m] = h[L[e][m]] + Lack(L[e][m], n) + Blacks(c, m, l.gone)
      /\ l.gone \notin B[s]
  BY <1>2, ShortColours
<1>6. \A e \in Dirs : /\ h[L[e][s]] = h[n] /\ L[e][s] # n /\ L[e][s] # s
                      /\ L[e][s] # p /\ L[e][s] \in T \cup {NULL}
                      /\ L[e][s] # NULL => P[L[e][s]] = s
  BY <1>2, ShortColours
<1>7. /\ NULL \notin T /\ T \subseteq Nodes
      /\ \A m \in T, e \in Dirs : L[e][m] # NULL =>
           L[e][m] \in T /\ P[L[e][m]] = m /\ L[e][m] # m /\ L[e][m] # L[Other(e)][m]
  BY <1>2, Children
<1>8. /\ q \in T /\ q # NULL /\ P[q] = s /\ h[q] = h[n] /\ q # n /\ q # s /\ q # p
      /\ c[q] = "RED"
  <2>1. ColorIn(c, q) = "RED"
    BY <1>0, <1>2, <1>3 DEF NephewInv
  <2> QED
    BY <1>3, <1>6, <2>1 DEF ColorIn
<1>9. /\ i \in T \cup {NULL} /\ i = L[d][s] /\ i # p /\ i # s /\ i # n /\ i # q
      /\ h[i] = h[n] /\ (i # NULL => P[i] = s)
  <2>1. i = L[d][s]
    BY DEF IsTurn
  <2>2. i # q
    BY <1>0, <1>3, <1>7, <1>8, <2>1
  <2> QED
    BY <1>3, <1>6, <2>1, <2>2
<1>10. q \in B[s] /\ q # l.gone /\ q \notin B[n]
  <2>1. L[o][s] \in B[L[o][s]] /\ B[L[o][s]] \subseteq B[s]
    BY <1>2, <1>3, <1>8, Descendants
  <2> QED
    BY <1>3, <1>5, <2>1
<1>11. /\ c2[s] = c[p] /\ c2[p] = "BLACK" /\ c2[q] = "BLACK"
       /\ \A m \in Nodes : m # s /\ m # p /\ m # q => c2[m] = c[m]
       /\ c2 \in [Nodes -> {"RED", "BLACK"}]
  <2>1. ColorIn(c, p) = c[p] /\ c[p] \in {"RED", "BLACK"} /\ {s, p, q} \subseteq Nodes
    BY <1>2, <1>3, <1>7, <1>8 DEF ColorIn
  <2> QED
    BY <1>1, <1>2, <1>3, <1>8, <2>1
<1>12. /\ \A m \in NodesOrNull : h[m] \in Nat /\ h[m] # 0
       /\ NULL \in NodesOrNull /\ T \subseteq NodesOrNull
       /\ \A m \in T, e \in Dirs : L[e][m] \in NodesOrNull
  BY <1>2, <1>5, Heights
<1>13. /\ h2[p] = h[s] /\ h2[s] = h[p] /\ h2[q] = h[s]
       /\ \A m \in NodesOrNull : m # p /\ m # s /\ m # q => h2[m] = h[m]
       /\ h2 \in [NodesOrNull -> Nat \ {0}] /\ h2[NULL] = 1
  BY <1>1, <1>3, <1>5, <1>7, <1>8, <1>12
<1>14. /\ Blacks(c, q, l.gone) = 0 /\ Blacks(c2, q, l.gone) = 1
       /\ Blacks(c2, p, l.gone) = 1 /\ Blacks(c2, s, l.gone) = Blacks(c, p, NULL)
       /\ (\A m : m # n => Lack(m, n) = 0) /\ (\A m : Lack(m, NULL) = 0)
       /\ \A m : Blacks(c, m, l.gone) \in Nat /\ Blacks(c, m, NULL) \in Nat
  <2>1. p # NULL /\ l.gone # p
    BY <1>3, <1>7
  <2> QED
    BY <1>3, <1>8, <1>10, <1>11, <2>1 DEF Blacks, Lack
<1>15. ASSUME NEW e \in Dirs
       PROVE  /\ h[L[e][q]] = h[n] /\ L[e][q] # p /\ L[e][q] # s /\ L[e][q] # q
              /\ L[e][q] # n /\ L[e][q] \in NodesOrNull
  <2>1. L[e][q] # q /\ L[e][q] # n /\ L[e][q] # s /\ L[e][q] \in NodesOrNull
    BY <1>0, <1>3, <1>7, <1>8, <1>12
  <2>2. L[e][q] # p
    <3>1. L[e][q] # NULL => L[e][q] \in B[q] /\ B[q] \subseteq B[s]
      BY <1>2, <1>3, <1>8, <1>10, Descendants
    <3>2. L[o][p] # NULL
      BY <1>0, <1>3
    <3>3. p \notin B[L[o][p]]
      BY <1>2, <1>3, <3>2, Descendants
    <3> QED
      BY <1>0, <1>3, <1>7, <3>1, <3>3
  <2>3. h[q] = h[L[e][q]] + Lack(L[e][q], n) + Blacks(c, q, l.gone)
    BY <1>5, <1>8
  <2>4. h[L[e][q]] \in Nat /\ Lack(L[e][q], n) = 0
    BY <1>12, <1>14, <2>1
  <2> QED
    BY <1>8, <1>14, <2>1, <2>2, <2>3, <2>4
<1>16. BalancedTurn(T, L, d, p, s, i, c2, h2, l.gone, NULL)
  <2>0. /\ n \in NodesOrNull /\ i \in NodesOrNull /\ h[n] \in Nat /\ h[p] \in Nat
    BY <1>3, <1>9, <1>12
  <2>1. /\ h2[i] = h[n] /\ h2[n] = h[n] /\ h2[p] = h[n] + 1 /\ h2[q] = h[n] + 1
        /\ h2[s] = h[n] + 1 + Blacks(c, p, NULL)
    BY <1>3, <1>8, <1>9, <1>13, <2>0
  <2>2. \A m \in {L[d][p], i} : h2[p] = h2[m] + Lack(m, NULL) + Blacks(c2, p, l.gone)
    <3>1. Lack(n, NULL) = 0 /\ Lack(i, NULL) = 0
      BY <1>14
    <3> QED
      BY <1>3, <1>14, <2>0, <2>1, <3>1
  <2>3. \A m \in {p, L[Other(d)][s]} :
          h2[s] = h2[m] + Lack(m, NULL) + Blacks(c2, s, l.gone)
    <3>1. Lack(p, NULL) = 0 /\ Lack(q, NULL) = 0
      BY <1>14
    <3>2. Blacks(c, p, NULL) \in Nat /\ Blacks(c2, s, l.gone) = Blacks(c, p, NULL)
      BY <1>14
    <3>3. /\ h2[s] = h2[p] + Lack(p, NULL) + Blacks(c2, s, l.gone)
          /\ h2[s] = h2[q] + Lack(q, NULL) + Blacks(c2, s, l.gone)
      BY <2>0, <2>1, <3>1, <3>2
    <3>4. L[Other(d)][s] = q
      BY <1>0
    <3> QED
      BY <3>3, <3>4
  <2>4. ASSUME NEW m \in T \ {p, s}, NEW e \in Dirs
        PROVE  h2[m] = IF L[e][m] = p THEN h2[s] + Lack(s, NULL) + Blacks(c2, m, l.gone)
                       ELSE h2[L[e][m]] + Lack(L[e][m], NULL) + Blacks(c2, m, l.gone)
    <3>1. CASE m = q
      <4>1. h2[L[e][q]] = h[n] /\ L[e][q] # p
        BY <1>13, <1>15
      <4>2. Lack(L[e][q], NULL) = 0
        BY <1>14
      <4>3. h2[q] = h2[L[e][q]] + Lack(L[e][q], NULL) + Blacks(c2, q, l.gone)
        BY <1>14, <2>0, <2>1, <4>1, <4>2
      <4> QED
        BY <3>1, <4>1, <4>3
    <3>2. CASE m # q
      <4>1. Blacks(c2, m, l.gone) = Blacks(c, m, l.gone) /\ h2[m] = h[m]
        BY <1>7, <1>11, <1>12, <1>13, <3>2 DEF Blacks
      <4>2. h[m] = h[L[e][m]] + Lack(L[e][m], n) + Blacks(c, m, l.gone)
        BY <1>5
      <4>3. L[e][m] # n /\ L[e][m] # s /\ L[e][m] # q
        BY <1>0, <1>3, <1>7, <1>8
      <4>4. /\ Lack(L[e][m], n) = 0 /\ Lack(L[e][m], NULL) = 0 /\ Lack(s, NULL) = 0
            /\ Blacks(c, m, l.gone) \in Nat /\ h[L[e][m]] \in Nat
        BY <1>12, <1>14, <4>3
      <4>5. CASE L[e][m] = p
        BY <1>13, <2>0, <4>1, <4>2, <4>4, <4>5
      <4>6. CASE L[e][m] # p
        <5>1. h2[L[e][m]] = h[L[e][m]]
          BY <1>12, <1>13, <4>3, <4>6
        <5> QED
          BY <4>1, <4>2, <4>4, <4>6, <5>1
      <4> QED
        BY <4>5, <4>6
    <3> QED
      BY <3>1, <3>2
  <2>5. h2 \in [NodesOrNull -> Nat \ {0}] /\ h2[NULL] = 1
    BY <1>13
  <2> QED
    BY <2>2, <2>3, <2>4, <2>5 DEF BalancedTurn
<1>17. IsBalanced(T, TurnedLink(L, d, p, s, i), c2, h2, l.gone, NULL)
  BY <1>2, <1>16, TurnedBalance
<1>18. NoRedPairsTurn(T, L, d, p, s, i, c2, l.gone, NULL)
  <2>1. c2[p] # "RED"
    BY <1>11
  <2>2. ASSUME NEW m \in T \ {p, s, l.gone}, NEW e \in Dirs, c2[m] = "RED"
        PROVE  IF L[e][m] = p THEN s = NULL \/ c2[s] = "BLACK"
               ELSE L[e][m] = NULL \/ ColorIn(c2, L[e][m]) = "BLACK"
    <3>1. c[m] = "RED" /\ L[e][m] # s /\ L[e][m] # q /\ L[e][m] # n
      BY <1>0, <1>3, <1>7, <1>8, <1>11, <2>2
    <3>2. ColorIn(c, L[e][m]) = "BLACK"
      BY <1>5, <3>1
    <3>3. CASE L[e][m] = p
      BY <1>3, <1>7, <1>11, <3>2, <3>3 DEF ColorIn
    <3>4. CASE L[e][m] # p
      BY <1>7, <1>11, <3>1, <3>2, <3>4 DEF ColorIn
    <3> QED
      BY <3>3, <3>4
  <2>3. \A m \in {p, L[Other(d)][s]} : m = NULL \/ ColorIn(c2, m) = "BLACK"
    BY <1>0, <1>11 DEF ColorIn
  <2> QED
    BY <2>1, <2>2, <2>3 DEF NoRedPairsTurn
<1>19. NoRedPairs(T, TurnedLink(L, d, p, s, i), c2, l.gone, NULL)
  BY <1>2, <1>18, TurnedReds
<1>20. RootIsBlack(S, c2, l.gone)
  <2>1. CASE R = p
    BY <1>1, <1>5, <1>11, <2>1 DEF TurnedRoot, RootIsBlack, ColorIn
  <2>2. CASE R # p
    BY <1>1, <1>5, <1>7, <1>11, <2>2 DEF TurnedRoot, RootIsBlack, ColorIn
  <2> QED
    BY <2>1, <2>2
<1>21. C[n] = B[n] /\ \A m \in B[n] : \A e \in Dirs : M[e][m] = L[e][m]
  BY <1>1, <1>2, <1>3, TurnBeside
<1>22. \A m \in B[n] : c2[m] = c[m]
  BY <1>2, <1>3, <1>7, <1>10, <1>11, Descendants
<1>23. GoneInv(T, M, c2, l)
  BY <1>2, <1>3, <1>5, <1>21, <1>22, GoneKept
<1>24. UnlinkInv(T, S, M, c2, h2, l)
  BY <1>1, <1>17, <1>19, <1>20, <1>23 DEF UnlinkInv
<1>25. IsTree(T, S, M, Q, C)
  BY <1>1, <1>2, TurnedTree
<1>26. IsOrdered(T, M, C, K, l.gone)
  BY <1>1, <1>2, <1>3, TurnKeepsOrder
<1>27. Fits("unlink", l, c2, K, T, S, M, Q, C, h2)
  BY <1>2, <1>11, <1>24, <1>25, <1>26
  DEF Fits, PlaceInv, OrderGone, Settled, Labels, Rotating
<1> QED
  BY <1>1, <1>3, <1>7, <1>8, <1>27

-----------------------------------------------------------------------------
(* Unlinking a node g that has at most the child q *)

IsSplice(T, L, g, q) ==
  g \in T /\ \E d \in Dirs : L[d][g] = q /\ L[Other(d)][g] = NULL

SplicedRoot(R, P, g, q) == IF P[g] = NULL THEN q ELSE R
SplicedLink(L, P, g, q) ==
  [e \in Dirs |-> [(IF P[g] = NULL THEN L
                    ELSE [L EXCEPT ![DirIn(L, P, g)][P[g]] = q])[e] EXCEPT ![g] = NULL]]
SplicedParent(P, g, q) ==
  [(IF q = NULL THEN P ELSE [P EXCEPT ![q] = P[g]]) EXCEPT ![g] = NULL]
SplicedBelow(B, g) == [n \in Nodes |-> B[n] \ {g}]

\* Below a child of before are now the same nodes, without g.
OnlyOneLeaves(U, L, M, B, C, g) ==
  \A n \in U, e \in Dirs : M[e][n] # NULL =>
    L[e][n] # NULL /\ C[M[e][n]] = B[L[e][n]] \ {g}

\* The pointers around g, before
LEMMA SplicePlaces ==
  ASSUME NEW T, NEW R, NEW L, NEW P, NEW B, IsTree(T, R, L, P, B),
         NEW g, NEW q, IsSplice(T, L, g, q)
  PROVE  /\ g \in T /\ g # NULL /\ NULL \notin T /\ T \subseteq Nodes /\ NULL \notin Nodes
         /\ q \in T \cup {NULL} /\ q # g /\ (q # NULL => P[q] = g)
         /\ P[g] \in T \cup {NULL} /\ (P[g] # NULL => P[g] # g /\ P[g] # q)
         /\ P[g] = NULL <=> g = R
         /\ \A m \in T : P[m] = g => m = q
         /\ \A e \in Dirs : L[e][g] \in {q, NULL}
         /\ q # NULL => \E e \in Dirs : L[e][g] = q
         /\ q = NULL => B[g] = {g}
         /\ q # NULL => B[q] = B[g] \ {g}
<1>1. PICK d \in Dirs : L[d][g] = q /\ L[Other(d)][g] = NULL
  BY DEF IsSplice
<1>2. g \in T /\ NULL \notin T /\ T \subseteq Nodes /\ NULL \notin Nodes
  BY Children DEF IsSplice
<1>3. Dirs = {d, Other(d)}
  BY <1>1, Mirror
<1>4. q \in T \cup {NULL} /\ q # g /\ (q # NULL => P[q] = g)
  BY <1>1, <1>2, Children
<1>5. /\ P[g] \in T \cup {NULL} /\ (P[g] = NULL <=> g = R)
      /\ P[g] # NULL => \E e \in Dirs : L[e][P[g]] = g
  BY <1>2 DEF IsTree, IsLinked
<1>6. ASSUME P[g] # NULL PROVE P[g] # g /\ P[g] # q
  <2>1. PICK e \in Dirs : L[e][P[g]] = g
    BY <1>5, <1>6
  <2>2. P[g] # g /\ P[g] \notin B[g]
    BY <1>2, <1>5, <1>6, <2>1, Descendants, Children
  <2>3. q # NULL => q \in B[g]
    BY <1>1, <1>2, Descendants
  <2> QED
    BY <1>6, <2>2, <2>3
<1>7. \A e \in Dirs : L[e][g] \in {q, NULL}
  BY <1>1, <1>3
<1>8. ASSUME NEW m \in T, P[m] = g PROVE m = q
  <2>1. \E e \in Dirs : L[e][P[m]] = m
    BY <1>2, <1>8 DEF IsTree, IsLinked
  <2> QED
    BY <1>2, <1>7, <1>8, <2>1
<1>9. \A m \in B[g] : m # g => \E e \in Dirs : L[e][g] # NULL /\ m \in B[L[e][g]]
  BY <1>2, Descendants
<1>10. \A m \in B[g] : m # g => q # NULL /\ m \in B[q]
  BY <1>7, <1>9
<1>11. q = NULL => B[g] = {g}
  BY <1>2, <1>10, Descendants
<1>12. q # NULL => B[q] = B[g] \ {g}
  <2>1. q # NULL => B[q] \subseteq B[g] /\ g \notin B[q]
    BY <1>1, <1>2, Descendants
  <2> QED
    BY <1>10, <2>1
<1>13. g # NULL
  BY <1>2
<1> QED
  BY <1>1, <1>2, <1>4, <1>5, <1>6, <1>7, <1>8, <1>11, <1>12, <1>13

\* and after
LEMMA SplicedLinks ==
  ASSUME NEW T, NEW R, NEW L, NEW P, NEW B, IsTree(T, R, L, P, B),
         NEW g, NEW q, IsSplice(T, L, g, q),
         NEW M, M = SplicedLink(L, P, g, q), NEW Q, Q = SplicedParent(P, g, q)
  PROVE  /\ \A e \in Dirs : M[e][g] = NULL
         /\ \A e \in Dirs, m \in Nodes : m # g =>
              M[e][m] = IF L[e][m] = g THEN q ELSE L[e][m]
         /\ Q[g] = NULL
         /\ \A m \in Nodes : m # g => Q[m] = IF m = q THEN P[g] ELSE P[m]
         /\ M \in [Dirs -> [Nodes -> NodesOrNull]] /\ Q \in [Nodes -> NodesOrNull]
<1>1. /\ g \in T /\ g # NULL /\ NULL \notin T /\ T \subseteq Nodes /\ NULL \notin Nodes
      /\ q \in T \cup {NULL} /\ q # g
      /\ P[g] \in T \cup {NULL} /\ (P[g] # NULL => P[g] # g /\ P[g] # q)
  BY SplicePlaces
<1>2. /\ L \in [Dirs -> [Nodes -> NodesOrNull]] /\ P \in [Nodes -> NodesOrNull]
      /\ q \in NodesOrNull /\ P[g] \in NodesOrNull /\ NULL \in NodesOrNull
  BY <1>1 DEF IsTree, IsLinked, NodesOrNull
<1>3. /\ Q[g] = NULL /\ Q \in [Nodes -> NodesOrNull]
      /\ \A m \in Nodes : m # g => Q[m] = IF m = q THEN P[g] ELSE P[m]
  BY <1>1, <1>2 DEF SplicedParent
<1>4. ASSUME P[g] = NULL
      PROVE  /\ \A e \in Dirs : M[e][g] = NULL
             /\ \A e \in Dirs, m \in Nodes : m # g => M[e][m] = L[e][m]
             /\ \A e \in Dirs, m \in Nodes : L[e][m] # g
             /\ M \in [Dirs -> [Nodes -> NodesOrNull]]
  <2>1. M = [e \in Dirs |-> [L[e] EXCEPT ![g] = NULL]]
    BY <1>4 DEF SplicedLink
  <2>2. /\ \A e \in Dirs : M[e][g] = NULL
        /\ \A e \in Dirs, m \in Nodes : m # g => M[e][m] = L[e][m]
        /\ M \in [Dirs -> [Nodes -> NodesOrNull]]
    BY <1>1, <1>2, <2>1
  <2>3. ASSUME NEW e \in Dirs, NEW m \in Nodes, L[e][m] = g PROVE FALSE
    <3>1. m \in T
      BY <1>1, <2>3 DEF IsTree, IsLinked
    <3>2. P[g] = m
      BY <1>1, <2>3, <3>1, Children
    <3> QED
      BY <1>1, <1>4, <3>1, <3>2
  <2> QED
    BY <2>2, <2>3
<1>5. ASSUME P[g] # NULL
      PROVE  /\ \A e \in Dirs : M[e][g] = NULL
             /\ \A e \in Dirs, m \in Nodes : m # g =>
                  M[e][m] = IF L[e][m] = g THEN q ELSE L[e][m]
             /\ M \in [Dirs -> [Nodes -> NodesOrNull]]
  <2>1. PICK d, p : d = DirIn(L, P, g) /\ p = P[g]
    OBVIOUS
  <2>2. d \in Dirs /\ p \in T /\ L[d][p] = g /\ L[Other(d)][p] # g /\ Dirs = {d, Other(d)}
    BY <1>1, <1>5, <2>1, Relatives
  <2>3. p \in Nodes /\ p # g /\ g \in Nodes
    BY <1>1, <1>5, <2>1, <2>2
  <2>4. PICK N : N = [L EXCEPT ![d][p] = q]
    OBVIOUS
  <2>5. /\ N \in [Dirs -> [Nodes -> NodesOrNull]]
        /\ N[d][p] = q
        /\ \A e \in Dirs, m \in Nodes : e # d \/ m # p => N[e][m] = L[e][m]
    BY <1>2, <2>2, <2>3, <2>4
  <2>6. M = [e \in Dirs |-> [N[e] EXCEPT ![g] = NULL]]
    BY <1>5, <2>1, <2>4 DEF SplicedLink
  <2>7. /\ \A e \in Dirs : M[e][g] = NULL
        /\ \A e \in Dirs, m \in Nodes : m # g => M[e][m] = N[e][m]
        /\ M \in [Dirs -> [Nodes -> NodesOrNull]]
    BY <1>2, <2>3, <2>5, <2>6
  <2>8. ASSUME NEW e \in Dirs, NEW m \in Nodes, L[e][m] = g PROVE m = p /\ e = d
    <3>1. m \in T
      BY <1>1, <2>8 DEF IsTree, IsLinked
    <3>2. P[g] = m
      BY <1>1, <2>8, <3>1, Children
    <3> QED
      BY <2>1, <2>2, <2>8, <3>2
  <2> QED
    BY <2>2, <2>5, <2>7, <2>8
<1> QED
  BY <1>3, <1>4, <1>5

LEMMA SpliceKeepsLinks ==
  ASSUME NEW T, NEW R, NEW L, NEW P, NEW B, IsTree(T, R, L, P, B),
         NEW g, NEW q, IsSplice(T, L, g, q)
  PROVE  IsLinked(T \ {g}, SplicedRoot(R, P, g, q), SplicedLink(L, P, g, q),
                  SplicedParent(P, g, q))
<1>1. PICK U, M, Q, S : /\ U = T \ {g} /\ M = SplicedLink(L, P, g, q)
                        /\ Q = SplicedParent(P, g, q) /\ S = SplicedRoot(R, P, g, q)
  OBVIOUS
<1>2. /\ g \in T /\ g # NULL /\ NULL \notin T /\ T \subseteq Nodes /\ NULL \notin Nodes
      /\ q \in T \cup {NULL} /\ q # g /\ (q # NULL => P[q] = g)
      /\ P[g] \in T \cup {NULL} /\ (P[g] # NULL => P[g] # g /\ P[g] # q)
      /\ P[g] = NULL <=> g = R
      /\ \A m \in T : P[m] = g => m = q
      /\ q = NULL => B[g] = {g}
  BY SplicePlaces
<1>3. /\ \A e \in Dirs : M[e][g] = NULL
      /\ \A e \in Dirs, m \in Nodes : m # g =>
           M[e][m] = IF L[e][m] = g THEN q ELSE L[e][m]
      /\ Q[g] = NULL
      /\ \A m \in Nodes : m # g => Q[m] = IF m = q THEN P[g] ELSE P[m]
      /\ M \in [Dirs -> [Nodes -> NodesOrNull]] /\ Q \in [Nodes -> NodesOrNull]
  BY <1>1, SplicedLinks
<1>4. /\ \A n \in T : \A e \in Dirs :
           /\ L[e][n] \in T \cup {NULL}
           /\ L[e][n] # NULL => P[L[e][n]] = n /\ L[e][n] # L[Other(e)][n]
      /\ \A n \in T :
           /\ P[n] \in T \cup {NULL} /\ (P[n] = NULL <=> n = R)
           /\ P[n] # NULL => \E e \in Dirs : L[e][P[n]] = n
      /\ \A n \in Nodes \ T : P[n] = NULL /\ \A e \in Dirs : L[e][n] = NULL
      /\ R \in T \cup {NULL} /\ (R = NULL => T = {})
  BY DEF IsTree, IsLinked
<1>5. U \subseteq Nodes /\ U \subseteq T /\ g \notin U /\ \A m \in T : m # g => m \in U
  BY <1>1, <1>2
<1>6. S \in U \cup {NULL} /\ (S = NULL => U = {})
  <2>1. CASE P[g] = NULL
    <3>1. S = q /\ B[g] = T
      BY <1>1, <1>2, <2>1 DEF SplicedRoot, IsTree, IsBelow
    <3> QED
      BY <1>1, <1>2, <1>5, <3>1
  <2>2. CASE P[g] # NULL
    BY <1>1, <1>2, <1>4, <1>5, <2>2 DEF SplicedRoot
  <2> QED
    BY <2>1, <2>2
<1>7. \A n \in U, e \in Dirs : M[e][n] \in U \cup {NULL}
  BY <1>2, <1>3, <1>4, <1>5
<1>8. ASSUME NEW n \in U, NEW e \in Dirs, M[e][n] # NULL
      PROVE  Q[M[e][n]] = n /\ M[e][n] # M[Other(e)][n]
  <2>0. Other(e) \in Dirs /\ Other(Other(e)) = e
    BY Mirror
  <2>1. /\ n \in T /\ n # g /\ n \in Nodes
        /\ M[e][n] = IF L[e][n] = g THEN q ELSE L[e][n]
        /\ M[Other(e)][n] = IF L[Other(e)][n] = g THEN q ELSE L[Other(e)][n]
    BY <1>3, <1>5, <2>0
  <2>2. \A f \in Dirs : L[f][n] # NULL => L[f][n] # q
    BY <1>2, <1>4, <2>1
  <2>3. \A f \in Dirs : L[f][n] # NULL => P[L[f][n]] = n /\ L[f][n] \in Nodes
    BY <1>2, <1>4, <2>1
  <2>4. CASE L[e][n] = g
    <3>1. M[e][n] = q /\ q # NULL /\ P[g] = n /\ L[Other(e)][n] # g
      BY <1>2, <1>4, <1>8, <2>1, <2>3, <2>4
    <3>2. Q[q] = n
      BY <1>2, <1>3, <3>1
    <3> QED
      BY <2>0, <2>1, <2>2, <3>1, <3>2
  <2>5. CASE L[e][n] # g
    <3>1. M[e][n] = L[e][n] /\ L[e][n] # q /\ P[L[e][n]] = n /\ L[e][n] \in Nodes
      BY <1>8, <2>1, <2>2, <2>3, <2>5
    <3>2. Q[L[e][n]] = n
      BY <1>3, <2>5, <3>1
    <3>3. L[e][n] # L[Other(e)][n]
      BY <1>4, <1>8, <2>1, <3>1
    <3> QED
      BY <2>1, <3>1, <3>2, <3>3
  <2> QED
    BY <2>4, <2>5
<1>9. ASSUME NEW n \in U
      PROVE  Q[n] \in U \cup {NULL} /\ (Q[n] = NULL <=> n = S)
  <2>1. n \in T /\ n # g /\ n \in Nodes /\ n # NULL
    BY <1>2, <1>5
  <2>2. CASE n = q
    <3>1. Q[n] = P[g] /\ P[n] = g /\ n # R
      BY <1>2, <1>3, <1>4, <2>1, <2>2
    <3> QED
      BY <1>1, <1>2, <1>5, <2>2, <3>1 DEF SplicedRoot
  <2>3. CASE n # q
    <3>1. Q[n] = P[n] /\ P[n] # g
      BY <1>2, <1>3, <2>1, <2>3
    <3>2. P[g] = NULL => P[n] # NULL /\ S = q
      BY <1>1, <1>2, <1>4, <2>1 DEF SplicedRoot
    <3>3. P[g] # NULL => S = R
      BY <1>1 DEF SplicedRoot
    <3> QED
      BY <1>4, <1>5, <2>1, <2>3, <3>1, <3>2, <3>3
  <2> QED
    BY <2>2, <2>3
<1>10. ASSUME NEW n \in U, Q[n] # NULL PROVE \E e \in Dirs : M[e][Q[n]] = n
  <2>1. n \in T /\ n # g /\ n \in Nodes
    BY <1>5
  <2>2. CASE n = q
    <3>1. Q[n] = P[g] /\ P[g] \in Nodes /\ P[g] # g /\ P[g] # NULL
      BY <1>2, <1>3, <1>10, <2>1, <2>2
    <3>2. PICK e \in Dirs : L[e][P[g]] = g
      BY <1>2, <1>4, <3>1
    <3>3. M[e][P[g]] = q
      BY <1>3, <3>1, <3>2
    <3> QED
      BY <2>2, <3>1, <3>3
  <2>3. CASE n # q
    <3>1. Q[n] = P[n] /\ P[n] # g /\ P[n] # NULL /\ P[n] \in Nodes
      BY <1>2, <1>3, <1>4, <1>10, <2>1, <2>3
    <3>2. PICK e \in Dirs : L[e][P[n]] = n
      BY <1>4, <2>1, <3>1
    <3>3. M[e][P[n]] = n
      BY <1>3, <2>1, <3>1, <3>2
    <3> QED
      BY <3>1, <3>3
  <2> QED
    BY <2>2, <2>3
<1>11. ASSUME NEW n \in Nodes \ U PROVE Q[n] = NULL /\ \A e \in Dirs : M[e][n] = NULL
  <2>1. CASE n = g
    BY <1>3, <2>1
  <2>2. CASE n # g
    <3>1. n \notin T /\ n # q
      BY <1>2, <1>5, <2>2
    <3> QED
      BY <1>2, <1>3, <1>4, <2>2, <3>1
  <2> QED
    BY <2>1, <2>2
<1>12. IsLinked(U, S, M, Q)
  BY <1>3, <1>5, <1>6, <1>7, <1>8, <1>9, <1>10, <1>11 DEF IsLinked
<1> QED
  BY <1>1, <1>12

LEMMA SpliceKeepsBelow ==
  ASSUME NEW T, NEW R, NEW L, NEW P, NEW B, IsTree(T, R, L, P, B),
         NEW g, NEW q, IsSplice(T, L, g, q)
  PROVE  /\ IsBelow(T \ {g}, SplicedRoot(R, P, g, q), SplicedLink(L, P, g, q),
                    SplicedParent(P, g, q), SplicedBelow(B, g))
         /\ OnlyOneLeaves(T \ {g}, L, SplicedLink(L, P, g, q), B, SplicedBelow(B, g), g)
<1>1. PICK U, M, Q, S, C : /\ U = T \ {g} /\ M = SplicedLink(L, P, g, q)
                           /\ Q = SplicedParent(P, g, q) /\ S = SplicedRoot(R, P, g, q)
                           /\ C = SplicedBelow(B, g)
  OBVIOUS
<1>2. /\ g \in T /\ g # NULL /\ NULL \notin T /\ T \subseteq Nodes /\ NULL \notin Nodes
      /\ q \in T \cup {NULL} /\ q # g /\ (q # NULL => P[q] = g)
      /\ P[g] \in T \cup {NULL} /\ (P[g] # NULL => P[g] # g /\ P[g] # q)
      /\ P[g] = NULL <=> g = R
      /\ \A m \in T : P[m] = g => m = q
      /\ q = NULL => B[g] = {g}
      /\ q # NULL => B[q] = B[g] \ {g}
  BY SplicePlaces
<1>3. /\ \A e \in Dirs, m \in Nodes : m # g =>
           M[e][m] = IF L[e][m] = g THEN q ELSE L[e][m]
      /\ \A m \in Nodes : m # g => Q[m] = IF m = q THEN P[g] ELSE P[m]
  BY <1>1, SplicedLinks
<1>4. /\ \A n \in T : n \in B[n] /\ B[n] \subseteq T
      /\ \A n \in T, d \in Dirs : L[d][n] # NULL =>
           /\ L[d][n] \in T /\ L[d][n] \in B[L[d][n]] /\ B[L[d][n]] \subseteq T
           /\ B[L[d][n]] \subseteq B[n] /\ n \notin B[L[d][n]]
           /\ L[Other(d)][n] # NULL => B[L[d][n]] \cap B[L[Other(d)][n]] = {}
      /\ \A n \in T : \A m \in B[n] :
           /\ B[m] \subseteq B[n]
           /\ m # n => /\ P[m] \in B[n]
                       /\ \E d \in Dirs : L[d][n] # NULL /\ m \in B[L[d][n]]
  BY Descendants
<1>5. U \subseteq Nodes /\ U \subseteq T /\ g \notin U /\ \A m \in T : m # g => m \in U
  BY <1>1, <1>2
<1>6. \A m \in Nodes : C[m] = B[m] \ {g}
  BY <1>1 DEF SplicedBelow
<1>7. q # NULL => C[q] = B[g] \ {g}
  BY <1>2, <1>6
<1>8. ASSUME NEW n \in U, NEW e \in Dirs, M[e][n] # NULL
      PROVE  L[e][n] # NULL /\ C[M[e][n]] = B[L[e][n]] \ {g}
  <2>1. n \in T /\ n # g /\ M[e][n] = IF L[e][n] = g THEN q ELSE L[e][n]
    BY <1>3, <1>5
  <2>2. CASE L[e][n] = g
    BY <1>2, <1>7, <1>8, <2>1, <2>2
  <2>3. CASE L[e][n] # g
    <3>1. L[e][n] \in Nodes
      BY <1>2, <1>4, <1>8, <2>1, <2>3
    <3> QED
      BY <1>6, <1>8, <2>1, <2>3, <3>1
  <2> QED
    BY <2>2, <2>3
<1>9. ASSUME NEW n \in U, NEW e \in Dirs, NEW m \in B[L[e][n]], m # g, L[e][n] # NULL
      PROVE  M[e][n] # NULL
  <2>1. n \in T /\ n # g /\ M[e][n] = IF L[e][n] = g THEN q ELSE L[e][n]
    BY <1>3, <1>5
  <2> QED
    BY <1>2, <1>9, <2>1
<1>10. S # NULL => C[S] = U
  <2>1. R # NULL => B[R] = T
    BY DEF IsTree, IsBelow
  <2>2. CASE P[g] = NULL
    BY <1>1, <1>2, <1>7, <2>1, <2>2 DEF SplicedRoot
  <2>3. CASE P[g] # NULL
    <3>1. S = R /\ R # g /\ (R # NULL => R \in Nodes)
      BY <1>1, <1>2, <2>3, Children DEF SplicedRoot
    <3> QED
      BY <1>1, <1>6, <2>1, <3>1
  <2> QED
    BY <2>2, <2>3
<1>11. ASSUME NEW n \in U
       PROVE  /\ n \in C[n] /\ C[n] \subseteq U
              /\ \A e \in Dirs : M[e][n] # NULL =>
                   /\ C[M[e][n]] \subseteq C[n] /\ n \notin C[M[e][n]]
                   /\ M[Other(e)][n] # NULL => C[M[e][n]] \cap C[M[Other(e)][n]] = {}
  <2>1. n \in T /\ n # g /\ C[n] = B[n] \ {g}
    BY <1>5, <1>6
  <2>2. n \in C[n] /\ C[n] \subseteq U
    BY <1>4, <1>5, <2>1
  <2>3. ASSUME NEW e \in Dirs, M[e][n] # NULL
        PROVE  /\ C[M[e][n]] \subseteq C[n] /\ n \notin C[M[e][n]]
               /\ M[Other(e)][n] # NULL => C[M[e][n]] \cap C[M[Other(e)][n]] = {}
    <3>1. L[e][n] # NULL /\ C[M[e][n]] = B[L[e][n]] \ {g}
      BY <1>8, <2>3
    <3>2. Other(e) \in Dirs
      BY Mirror
    <3>3. M[Other(e)][n] # NULL =>
            L[Other(e)][n] # NULL /\ C[M[Other(e)][n]] = B[L[Other(e)][n]] \ {g}
      BY <1>8, <3>2
    <3> QED
      BY <1>4, <2>1, <3>1, <3>3
  <2> QED
    BY <2>2, <2>3
<1>12. ASSUME NEW n \in U, NEW m \in C[n]
       PROVE  /\ C[m] \subseteq C[n]
              /\ m # n => /\ Q[m] \in C[n]
                          /\ \E e \in Dirs : M[e][n] # NULL /\ m \in C[M[e][n]]
  <2>1. n \in T /\ n # g /\ C[n] = B[n] \ {g} /\ m \in B[n] /\ m # g /\ m \in T /\ m \in Nodes
    BY <1>4, <1>5, <1>6
  <2>2. C[m] \subseteq C[n]
    BY <1>4, <1>6, <2>1
  <2>3. ASSUME m # n PROVE Q[m] \in C[n]
    <3>1. CASE m = q
      <4>1. q # NULL /\ g \in B[n]
        BY <1>2, <1>4, <2>1, <2>3, <3>1
      <4>2. P[g] \in B[n] /\ P[g] # g
        BY <1>2, <1>4, <2>1, <4>1
      <4> QED
        BY <1>3, <2>1, <3>1, <4>2
    <3>2. CASE m # q
      BY <1>2, <1>3, <1>4, <2>1, <2>3, <3>2
    <3> QED
      BY <3>1, <3>2
  <2>4. ASSUME m # n PROVE \E e \in Dirs : M[e][n] # NULL /\ m \in C[M[e][n]]
    <3>1. PICK e \in Dirs : L[e][n] # NULL /\ m \in B[L[e][n]]
      BY <1>4, <2>1, <2>4
    <3>2. M[e][n] # NULL
      BY <1>9, <2>1, <3>1
    <3>3. m \in C[M[e][n]]
      BY <1>8, <2>1, <3>1, <3>2
    <3> QED
      BY <3>2, <3>3
  <2> QED
    BY <2>2, <2>3, <2>4
<1>13. C \in [Nodes -> SUBSET Nodes]
  <2>1. \A m \in Nodes : B[m] \subseteq Nodes
    BY DEF IsTree, IsBelow
  <2> QED
    BY <1>1, <2>1 DEF SplicedBelow
<1>14. IsBelow(U, S, M, Q, C)
  BY <1>10, <1>11, <1>12, <1>13 DEF IsBelow
<1>15. OnlyOneLeaves(U, L, M, B, C, g)
  BY <1>8 DEF OnlyOneLeaves
<1> QED
  BY <1>1, <1>14, <1>15

\* The node is unlinked, the root is black again, and the block is blank.
LEMMA FitsUnlink ==
  ASSUME NEW l, NEW c, NEW K, NEW T, NEW R, NEW L, NEW P, NEW B, NEW h,
         Fits("unlink", l, c, K, T, R, L, P, B, h),
         NEW g, NEW q, g = l.gone, q = l.held,
         NEW c2, c2 = [m \in Nodes |-> IF m = g THEN "RED"
                                       ELSE IF m = q /\ P[g] = NULL THEN "BLACK"
                                       ELSE c[m]]
  PROVE  /\ IsSplice(T, L, g, q)
         /\ \E h2 : Fits("idle", NoLocals, c2, [K EXCEPT ![g] = AnyKey], T \ {g},
                         SplicedRoot(R, P, g, q), SplicedLink(L, P, g, q),
                         SplicedParent(P, g, q), SplicedBelow(B, g), h2)
<1>1. PICK U, M, Q, S, C, K2 :
        /\ U = T \ {g} /\ M = SplicedLink(L, P, g, q)
        /\ Q = SplicedParent(P, g, q) /\ S = SplicedRoot(R, P, g, q)
        /\ C = SplicedBelow(B, g) /\ K2 = [K EXCEPT ![g] = AnyKey]
  OBVIOUS
<1>2. /\ IsTree(T, R, L, P, B) /\ UnlinkInv(T, R, L, c, h, l)
      /\ c \in [Nodes -> {"RED", "BLACK"}] /\ K \in [Nodes -> Keys]
      /\ IsOrdered(T, L, B, K, g)
  BY DEF Fits, PlaceInv, OrderGone
<1>3. /\ IsBalanced(T, L, c, h, g, NULL) /\ NoRedPairs(T, L, c, g, NULL)
      /\ RootIsBlack(R, c, g) /\ GoneInv(T, L, c, l)
  BY <1>2 DEF UnlinkInv
<1>4. IsSplice(T, L, g, q) /\ (c[g] = "BLACK" => ColorIn(c, q) = "BLACK")
  BY <1>3 DEF GoneInv, IsSplice
<1>5. /\ g \in T /\ g # NULL /\ NULL \notin T /\ T \subseteq Nodes /\ NULL \notin Nodes
      /\ q \in T \cup {NULL} /\ q # g /\ (q # NULL => P[q] = g)
      /\ P[g] = NULL <=> g = R
  BY <1>2, <1>4, SplicePlaces
<1>6. \A e \in Dirs, m \in Nodes : m # g => M[e][m] = IF L[e][m] = g THEN q ELSE L[e][m]
  BY <1>1, <1>2, <1>4, SplicedLinks
<1>7. IsTree(U, S, M, Q, C)
  BY <1>1, <1>2, <1>4, SpliceKeepsLinks, SpliceKeepsBelow DEF IsTree
<1>8. \A n \in U, e \in Dirs : M[e][n] # NULL =>
         L[e][n] # NULL /\ C[M[e][n]] = B[L[e][n]] \ {g}
  <2>1. OnlyOneLeaves(U, L, M, B, C, g)
    BY <1>1, <1>2, <1>4, SpliceKeepsBelow
  <2> QED
    BY <2>1 DEF OnlyOneLeaves
<1>9. K2 \in [Nodes -> Keys] /\ \A m \in Nodes : m # g => K2[m] = K[m]
  BY <1>1, <1>2, <1>5, KeysExist
<1>10. IsOrdered(U, M, C, K2, NULL)
  <2>1. ASSUME NEW n \in U \ {NULL}, NEW e \in Dirs, M[e][n] # NULL,
               NEW m \in C[M[e][n]] \ {NULL}
        PROVE  Beside(e, K2[m].addr, K2[n].addr)
    <3>1. n \in T \ {g} /\ n \in Nodes /\ L[e][n] # NULL /\ m \in B[L[e][n]] \ {g}
      BY <1>1, <1>5, <1>8, <2>1
    <3>2. m \in Nodes
      BY <1>2, <1>5, <3>1, Descendants
    <3>3. Beside(e, K[m].addr, K[n].addr)
      BY <1>2, <3>1 DEF IsOrdered
    <3> QED
      BY <1>9, <3>1, <3>2, <3>3
  <2> QED
    BY <2>1 DEF IsOrdered
<1>11. /\ h \in [NodesOrNull -> Nat \ {0}] /\ h[NULL] = 1
       /\ \A m \in T, e \in Dirs : h[m] = h[L[e][m]] + Blacks(c, m, g)
  BY <1>2, <1>3, EvenBalance
<1>12. /\ \A m \in NodesOrNull : h[m] \in Nat /\ h[m] # 0
       /\ NULL \in NodesOrNull /\ T \subseteq NodesOrNull
       /\ \A m \in T, e \in Dirs : L[e][m] \in NodesOrNull
  BY <1>2, <1>11, Heights
<1>13. h[g] = h[q]
  <2>1. PICK e \in Dirs : L[e][g] = q
    BY <1>4 DEF IsSplice
  <2>2. Blacks(c, g, g) = 0
    BY DEF Blacks
  <2>3. h[q] \in Nat
    BY <1>5, <1>12
  <2>4. h[g] = h[q] + Blacks(c, g, g)
    BY <1>5, <1>11, <2>1
  <2> QED
    BY <2>2, <2>3, <2>4
<1>14. /\ \A m \in Nodes : m # g /\ (m # q \/ P[g] # NULL) => c2[m] = c[m]
       /\ q # NULL /\ P[g] = NULL => c2[q] = "BLACK"
       /\ c2 \in [Nodes -> {"RED", "BLACK"}]
  BY <1>2, <1>5
<1>15. PICK h2 : h2 = IF P[g] = NULL /\ q # NULL /\ c[q] = "RED"
                      THEN [h EXCEPT ![q] = h[q] + 1] ELSE h
  OBVIOUS
<1>16. /\ h2 \in [NodesOrNull -> Nat \ {0}]
       /\ \A m \in NodesOrNull : m # q \/ P[g] # NULL => h2[m] = h[m]
       /\ h2[NULL] = 1
  <2>1. q \in NodesOrNull /\ h[q] + 1 \in Nat \ {0}
    BY <1>5, <1>12
  <2> QED
    BY <1>11, <1>12, <1>15, <2>1
<1>17. ASSUME NEW m \in U, NEW e \in Dirs
       PROVE  h2[m] = h2[M[e][m]] + Blacks(c2, m, NULL)
  <2>1. m \in T /\ m # g /\ m \in Nodes /\ m # NULL /\ m \in NodesOrNull
    BY <1>1, <1>5, <1>12
  <2>2. M[e][m] \in NodesOrNull /\ h[M[e][m]] \in Nat
    BY <1>5, <1>6, <1>12, <2>1
  <2>3. h[m] = h[M[e][m]] + Blacks(c, m, g)
    BY <1>6, <1>11, <1>13, <2>1
  <2>4. Blacks(c, m, g) = Blacks(c, m, NULL) /\ Blacks(c, m, NULL) \in Nat
    BY <2>1 DEF Blacks
  <2>5. P[g] = NULL /\ q # NULL => M[e][m] # q
    BY <1>2, <1>5, <1>6, <2>1, Children
  <2>6. h2[M[e][m]] = h[M[e][m]]
    <3>1. CASE P[g] = NULL /\ q # NULL
      BY <1>16, <2>2, <2>5, <3>1
    <3>2. CASE P[g] # NULL
      BY <1>16, <2>2, <3>2
    <3>3. CASE q = NULL
      BY <1>15, <3>3
    <3> QED
      BY <3>1, <3>2, <3>3
  <2>7. CASE m # q \/ P[g] # NULL
    <3>1. h2[m] = h[m] /\ c2[m] = c[m]
      BY <1>14, <1>16, <2>1, <2>7
    <3> QED
      BY <2>3, <2>4, <2>6, <3>1 DEF Blacks
  <2>8. CASE m = q /\ P[g] = NULL
    <3>1. Blacks(c2, m, NULL) = 1
      BY <1>14, <2>1, <2>8 DEF Blacks
    <3>2. CASE c[q] = "RED"
      <4>1. h2[q] = h[q] + 1 /\ Blacks(c, q, NULL) = 0
        BY <1>11, <1>15, <2>1, <2>8, <3>2 DEF Blacks
      <4> QED
        BY <2>2, <2>3, <2>4, <2>6, <2>8, <3>1, <4>1
    <3>3. CASE c[q] # "RED"
      <4>1. h2[q] = h[q] /\ Blacks(c, q, NULL) = 1
        <5>1. c[q] = "BLACK"
          BY <1>2, <2>1, <2>8, <3>3
        <5> QED
          BY <1>15, <2>1, <2>8, <3>3, <5>1 DEF Blacks
      <4> QED
        BY <2>2, <2>3, <2>4, <2>6, <2>8, <3>1, <4>1
    <3> QED
      BY <3>2, <3>3
  <2> QED
    BY <2>7, <2>8
<1>18. IsBalanced(U, M, c2, h2, NULL, NULL)
  BY <1>7, <1>16, <1>17, EvenBalance
<1>19. NoRedPairs(U, M, c2, NULL, NULL)
  <2>1. ASSUME NEW m \in U, NEW e \in Dirs, c2[m] = "RED"
        PROVE  ColorIn(c2, M[e][m]) = "BLACK"
    <3>1. m \in T /\ m # g /\ m \in Nodes /\ c[m] = "RED"
      BY <1>1, <1>5, <1>14, <2>1
    <3>2. ColorIn(c, L[e][m]) = "BLACK"
      BY <1>3, <3>1 DEF NoRedPairs, ColorIn
    <3>3. ColorIn(c, M[e][m]) = "BLACK"
      BY <1>4, <1>5, <1>6, <3>1, <3>2 DEF ColorIn
    <3>4. M[e][m] = NULL \/ (M[e][m] \in Nodes /\ M[e][m] # g)
      BY <1>2, <1>5, <1>6, <3>1, Children
    <3> QED
      BY <1>14, <3>3, <3>4 DEF ColorIn
  <2> QED
    BY <2>1 DEF NoRedPairs
<1>20. RootIsBlack(S, c2, NULL)
  <2>1. CASE P[g] = NULL
    BY <1>1, <1>14, <2>1 DEF SplicedRoot, RootIsBlack, ColorIn
  <2>2. CASE P[g] # NULL
    <3>1. S = R /\ R # g /\ (R # NULL => R \in Nodes)
      BY <1>1, <1>2, <1>5, <2>2, Children DEF SplicedRoot
    <3> QED
      BY <1>3, <1>14, <2>2, <3>1 DEF RootIsBlack, ColorIn
  <2> QED
    BY <2>1, <2>2
<1>21. SettledInv(U, S, M, c2, h2, NoLocals) /\ NoLocals.gone = NULL
  BY <1>18, <1>19, <1>20 DEF SettledInv, NoLocals
<1>22. Fits("idle", NoLocals, c2, K2, U, S, M, Q, C, h2)
  BY <1>7, <1>9, <1>10, <1>14, <1>21
  DEF Fits, PlaceInv, OrderGone, Settled, Labels, Rotating
<1> QED
  BY <1>1, <1>4, <1>22

-----------------------------------------------------------------------------
(* The three stores of a rotation *)

Turn1Link(L, P, x, y) ==
  IF P[x] = NULL THEN L ELSE [L EXCEPT ![DirIn(L, P, x)][P[x]] = y]
Turn1Parent(P, x, y) == [P EXCEPT ![y] = P[x]]
Turn2Link(L, P, d, x, y, i) == [Turn1Link(L, P, x, y) EXCEPT ![Other(d)][x] = i]
Turn2Parent(P, x, y, i) ==
  IF i = NULL THEN Turn1Parent(P, x, y) ELSE [Turn1Parent(P, x, y) EXCEPT ![i] = x]

\* The pointers after the first store
LEMMA Turn1 ==
  ASSUME NEW T, NEW R, NEW L, NEW P, NEW B, IsTree(T, R, L, P, B),
         NEW d, NEW x, NEW y, NEW i, IsTurn(T, L, d, x, y, i),
         NEW M, M = Turn1Link(L, P, x, y), NEW Q, Q = Turn1Parent(P, x, y)
  PROVE  /\ (IF P[x] = NULL THEN y ELSE R) = TurnedRoot(R, x, y)
         /\ M \in [Dirs -> [Nodes -> NodesOrNull]] /\ Q \in [Nodes -> NodesOrNull]
         /\ \A e \in Dirs, n \in Nodes : M[e][n] = IF L[e][n] = x THEN y ELSE L[e][n]
         /\ \A n \in Nodes : Q[n] = IF n = y THEN P[x] ELSE P[n]
         /\ M[d][y] = i
<1>1. /\ d \in Dirs /\ x \in T /\ y \in T /\ x # y /\ T \subseteq Nodes
      /\ L[d][y] = i /\ NULL \notin Nodes /\ i # x
  BY TurnPlaces
<1>2. /\ L \in [Dirs -> [Nodes -> NodesOrNull]] /\ P \in [Nodes -> NodesOrNull]
      /\ \A n \in Nodes \ T, e \in Dirs : L[e][n] = NULL
  BY DEF IsTree, IsLinked
<1>3. P[x] \in NodesOrNull /\ y \in NodesOrNull
  BY <1>1, <1>2 DEF NodesOrNull
<1>4. (IF P[x] = NULL THEN y ELSE R) = TurnedRoot(R, x, y)
  BY <1>1, Children DEF TurnedRoot
<1>5. Q \in [Nodes -> NodesOrNull] /\ \A n \in Nodes : Q[n] = IF n = y THEN P[x] ELSE P[n]
  BY <1>1, <1>2, <1>3 DEF Turn1Parent
<1>6. ASSUME NEW e \in Dirs, NEW n \in Nodes, L[e][n] = x
      PROVE  n \in T /\ n = P[x] /\ e = DirIn(L, P, x)
  <2>1. n \in T
    BY <1>1, <1>2, <1>6
  <2> QED
    BY <1>1, <1>6, <2>1, Children, SideOf
<1>7. CASE P[x] = NULL
  <2>1. M = L
    BY <1>7 DEF Turn1Link
  <2>2. \A e \in Dirs, n \in Nodes : L[e][n] # x
    BY <1>1, <1>6, <1>7
  <2> QED
    BY <1>1, <1>2, <1>4, <1>5, <2>1, <2>2
<1>8. CASE P[x] # NULL
  <2>1. PICK e, p : e = DirIn(L, P, x) /\ p = P[x]
    OBVIOUS
  <2>2. e \in Dirs /\ p \in T /\ L[e][p] = x
    BY <1>1, <1>8, <2>1, Relatives
  <2>3. M = [L EXCEPT ![e][p] = y]
    BY <1>8, <2>1 DEF Turn1Link
  <2>4. /\ M \in [Dirs -> [Nodes -> NodesOrNull]]
        /\ M[e][p] = y
        /\ \A f \in Dirs, n \in Nodes : f # e \/ n # p => M[f][n] = L[f][n]
    BY <1>1, <1>2, <1>3, <2>2, <2>3
  <2>5. \A f \in Dirs, n \in Nodes : M[f][n] = IF L[f][n] = x THEN y ELSE L[f][n]
    BY <1>6, <2>1, <2>2, <2>4
  <2> QED
    BY <1>1, <1>4, <1>5, <2>4, <2>5
<1> QED
  BY <1>7, <1>8

\* After the second
LEMMA Turn2 ==
  ASSUME NEW T, NEW R, NEW L, NEW P, NEW B, IsTree(T, R, L, P, B),
         NEW d, NEW x, NEW y, NEW i, IsTurn(T, L, d, x, y, i),
         NEW M, M = Turn2Link(L, P, d, x, y, i), NEW Q, Q = Turn2Parent(P, x, y, i)
  PROVE  /\ M \in [Dirs -> [Nodes -> NodesOrNull]] /\ Q \in [Nodes -> NodesOrNull]
         /\ \A e \in Dirs, n \in Nodes :
              M[e][n] = IF n = x /\ e = Other(d) THEN i
                        ELSE IF L[e][n] = x THEN y ELSE L[e][n]
         /\ \A n \in Nodes : Q[n] = IF n = i THEN x ELSE IF n = y THEN P[x] ELSE P[n]
<1>1. PICK N, O : N = Turn1Link(L, P, x, y) /\ O = Turn1Parent(P, x, y)
  OBVIOUS
<1>2. /\ N \in [Dirs -> [Nodes -> NodesOrNull]] /\ O \in [Nodes -> NodesOrNull]
      /\ \A e \in Dirs, n \in Nodes : N[e][n] = IF L[e][n] = x THEN y ELSE L[e][n]
      /\ \A n \in Nodes : O[n] = IF n = y THEN P[x] ELSE P[n]
  BY <1>1, Turn1
<1>3. /\ Other(d) \in Dirs /\ x \in T /\ T \subseteq Nodes /\ NULL \notin Nodes
      /\ i \in T \cup {NULL}
  BY TurnPlaces
<1>4. x \in Nodes /\ x \in NodesOrNull /\ i \in NodesOrNull
  BY <1>3 DEF NodesOrNull
<1>5. M = [N EXCEPT ![Other(d)][x] = i]
  BY <1>1 DEF Turn2Link
<1>6. /\ M \in [Dirs -> [Nodes -> NodesOrNull]]
      /\ M[Other(d)][x] = i
      /\ \A e \in Dirs, n \in Nodes : e # Other(d) \/ n # x => M[e][n] = N[e][n]
  BY <1>2, <1>3, <1>4, <1>5
<1>7. Q = IF i = NULL THEN O ELSE [O EXCEPT ![i] = x]
  BY <1>1 DEF Turn2Parent
<1>8. Q \in [Nodes -> NodesOrNull] /\ \A n \in Nodes : Q[n] = IF n = i THEN x ELSE O[n]
  BY <1>2, <1>3, <1>4, <1>7
<1> QED
  BY <1>2, <1>6, <1>8

\* After the third: the whole rotation
LEMMA Turn3 ==
  ASSUME NEW T, NEW R, NEW L, NEW P, NEW B, IsTree(T, R, L, P, B),
         NEW d, NEW x, NEW y, NEW i, IsTurn(T, L, d, x, y, i)
  PROVE  /\ [Turn2Link(L, P, d, x, y, i) EXCEPT ![d][y] = x] = TurnedLink(L, d, x, y, i)
         /\ [Turn2Parent(P, x, y, i) EXCEPT ![x] = y] = TurnedParent(P, x, y, i)
<1>1. PICK N, O : N = Turn2Link(L, P, d, x, y, i) /\ O = Turn2Parent(P, x, y, i)
  OBVIOUS
<1>2. /\ N \in [Dirs -> [Nodes -> NodesOrNull]] /\ O \in [Nodes -> NodesOrNull]
      /\ \A e \in Dirs, n \in Nodes :
           N[e][n] = IF n = x /\ e = Other(d) THEN i
                     ELSE IF L[e][n] = x THEN y ELSE L[e][n]
      /\ \A n \in Nodes : O[n] = IF n = i THEN x ELSE IF n = y THEN P[x] ELSE P[n]
  BY <1>1, Turn2
<1>3. /\ d \in Dirs /\ Other(d) \in Dirs /\ Other(d) # d /\ Dirs = {d, Other(d)}
      /\ x \in Nodes /\ y \in Nodes /\ x # y /\ i # x /\ i # y
      /\ \A e \in Dirs : L[e][y] # x /\ L[e][x] # x
  BY TurnPlaces
<1>4. [N EXCEPT ![d][y] = x] = TurnedLink(L, d, x, y, i)
  <2>1. PICK M : M = [N EXCEPT ![d][y] = x]
    OBVIOUS
  <2>2. /\ M = [e \in Dirs |-> M[e]] /\ \A e \in Dirs : M[e] = [n \in Nodes |-> M[e][n]]
        /\ M[d][y] = x /\ \A e \in Dirs, n \in Nodes : e # d \/ n # y => M[e][n] = N[e][n]
    BY <1>2, <1>3, <2>1
  <2>3. ASSUME NEW e \in Dirs, NEW n \in Nodes
        PROVE  M[e][n] = IF n = x THEN (IF e = d THEN L[d][x] ELSE i)
                         ELSE IF n = y THEN (IF e = d THEN x ELSE L[e][y])
                         ELSE IF L[e][n] = x THEN y ELSE L[e][n]
    BY <1>2, <1>3, <2>2
  <2>4. \A e \in Dirs : M[e] = TurnedLink(L, d, x, y, i)[e]
    BY <2>2, <2>3 DEF TurnedLink
  <2> QED
    BY <2>1, <2>2, <2>4 DEF TurnedLink
<1>5. [O EXCEPT ![x] = y] = TurnedParent(P, x, y, i)
  <2>1. PICK Q : Q = [O EXCEPT ![x] = y]
    OBVIOUS
  <2>2. /\ Q = [n \in Nodes |-> Q[n]]
        /\ \A n \in Nodes : Q[n] = IF n = x THEN y ELSE O[n]
    BY <1>2, <1>3, <2>1
  <2>3. \A n \in Nodes : Q[n] = IF n = x THEN y ELSE IF n = y THEN P[x]
                                ELSE IF n = i THEN x ELSE P[n]
    BY <1>2, <1>3, <2>2
  <2> QED
    BY <2>1, <2>2, <2>3 DEF TurnedParent
<1> QED
  BY <1>1, <1>4, <1>5

-----------------------------------------------------------------------------
(* The inductive invariant *)

\* Before the store that at names, of a rotation that began with R0, L0 and P0
Midway(at, r, R, L, P, T, R0, L0, P0, B0, i) ==
  /\ IsTree(T, R0, L0, P0, B0) /\ IsTurn(T, L0, r.dir, r.node, r.up, i)
  /\ at = "rotate1" => R = R0 /\ L = L0 /\ P = P0
  /\ at \in {"rotate2", "rotate3"} => R = TurnedRoot(R0, r.node, r.up)
  /\ at = "rotate2" => /\ L = Turn1Link(L0, P0, r.node, r.up)
                       /\ P = Turn1Parent(P0, r.node, r.up)
  /\ at = "rotate3" => /\ L = Turn2Link(L0, P0, r.dir, r.node, r.up, i)
                       /\ P = Turn2Parent(P0, r.node, r.up, i)

\* What the rotation leads to
AfterTurn(r, l, c, K, T, R0, L0, P0, B0, i, h) ==
  Fits(r.next, l, c, K, T, TurnedRoot(R0, r.node, r.up),
       TurnedLink(L0, r.dir, r.node, r.up, i), TurnedParent(P0, r.node, r.up, i),
       TurnedBelow(L0, B0, r.dir, r.node, r.up, i), h)

Resting(at, l, c, K, R, L, P, T) ==
  at \notin Rotating /\ \E B, h : Fits(at, l, c, K, T, R, L, P, B, h)

Turning(at, r, l, c, K, R, L, P, T) ==
  at \in Rotating /\ \E R0, L0, P0, B0, i, h :
    /\ Midway(at, r, R, L, P, T, R0, L0, P0, B0, i)
    /\ AfterTurn(r, l, c, K, T, R0, L0, P0, B0, i, h)

TreeInv ==
  \E T : /\ T \subseteq allocated
         /\ pc = "insertWalk" => loc.held \in allocated
         /\ \/ Resting(pc, loc, color, key, root, link, parent, T)
            \/ Turning(pc, rotation, loc, color, key, root, link, parent, T)

Locals == [n : NodesOrNull, held : NodesOrNull, gone : NodesOrNull, addr : Addrs \cup {0}]
\* Where a rotation goes on
Resumed == {"idle", "insert5", "delete3", "delete6", "unlink"}
Rotations ==
  [dir : Dirs, node : NodesOrNull, up : NodesOrNull, next : Resumed]

FieldsInv ==
  /\ value \in [Nodes -> TypeTables] /\ allocated \subseteq Nodes
  /\ pc \in Labels /\ loc \in Locals /\ rotation \in Rotations

Entries == [addr : Addrs, size : Sizes, value : TypeTables]
Lookups ==
  [searching : BOOLEAN, addr : Probed \cup {0}, node : NodesOrNull,
   result : SUBSET Entries, disturbed : BOOLEAN]

FindInv ==
  /\ find \in [Readers -> Lookups]
  /\ \A r \in Readers : \A e, f \in find[r].result : e = f

-----------------------------------------------------------------------------
(* What it says of the pointers, also in the middle of a rotation *)

Pointers(T, R, L, P) ==
  /\ R \in T \cup {NULL} /\ T \subseteq Nodes
  /\ L \in [Dirs -> [Nodes -> NodesOrNull]] /\ P \in [Nodes -> NodesOrNull]
  /\ \A n \in Nodes : P[n] \in T \cup {NULL}
  /\ \A n \in Nodes, d \in Dirs : L[d][n] \in T \cup {NULL}

LEMMA TreePointers ==
  ASSUME NEW T, NEW R, NEW L, NEW P, NEW B, IsTree(T, R, L, P, B)
  PROVE  Pointers(T, R, L, P)
<1>1. \A n \in Nodes : P[n] \in T \cup {NULL}
  BY DEF IsTree, IsLinked
<1>2. \A n \in Nodes, d \in Dirs : L[d][n] \in T \cup {NULL}
  BY DEF IsTree, IsLinked
<1> QED
  BY <1>1, <1>2 DEF Pointers, IsTree, IsLinked

LEMMA MidwayPointers ==
  ASSUME NEW at \in Rotating, NEW r, NEW R, NEW L, NEW P, NEW T, NEW R0, NEW L0, NEW P0,
         NEW B0, NEW i, Midway(at, r, R, L, P, T, R0, L0, P0, B0, i)
  PROVE  Pointers(T, R, L, P)
<1>1. PICK d, x, y : d = r.dir /\ x = r.node /\ y = r.up
  OBVIOUS
<1>2. /\ IsTree(T, R0, L0, P0, B0) /\ IsTurn(T, L0, d, x, y, i)
      /\ at = "rotate1" => R = R0 /\ L = L0 /\ P = P0
      /\ at \in {"rotate2", "rotate3"} => R = TurnedRoot(R0, x, y)
      /\ at = "rotate2" => L = Turn1Link(L0, P0, x, y) /\ P = Turn1Parent(P0, x, y)
      /\ at = "rotate3" => /\ L = Turn2Link(L0, P0, d, x, y, i)
                           /\ P = Turn2Parent(P0, x, y, i)
  BY <1>1 DEF Midway
<1>3. /\ Pointers(T, R0, L0, P0) /\ x \in T /\ y \in T /\ i \in T \cup {NULL}
      /\ T \subseteq Nodes /\ NULL \notin Nodes
  BY <1>2, TreePointers, TurnPlaces
<1>4. /\ R0 \in T \cup {NULL}
      /\ \A n \in Nodes : P0[n] \in T \cup {NULL}
      /\ \A n \in Nodes, e \in Dirs : L0[e][n] \in T \cup {NULL}
  BY <1>3 DEF Pointers
<1>5. CASE at = "rotate1"
  BY <1>2, <1>3, <1>5
<1>6. CASE at = "rotate2"
  <2>1. /\ L \in [Dirs -> [Nodes -> NodesOrNull]] /\ P \in [Nodes -> NodesOrNull]
        /\ \A e \in Dirs, n \in Nodes : L[e][n] = IF L0[e][n] = x THEN y ELSE L0[e][n]
        /\ \A n \in Nodes : P[n] = IF n = y THEN P0[x] ELSE P0[n]
    BY <1>2, <1>6, Turn1
  <2>2. R \in T \cup {NULL}
    BY <1>2, <1>3, <1>4, <1>6 DEF TurnedRoot
  <2>3. \A n \in Nodes : P[n] \in T \cup {NULL}
    BY <1>3, <1>4, <2>1
  <2>4. \A n \in Nodes, e \in Dirs : L[e][n] \in T \cup {NULL}
    BY <1>3, <1>4, <2>1
  <2> QED
    BY <1>3, <2>1, <2>2, <2>3, <2>4 DEF Pointers
<1>7. CASE at = "rotate3"
  <2>1. /\ L \in [Dirs -> [Nodes -> NodesOrNull]] /\ P \in [Nodes -> NodesOrNull]
        /\ \A e \in Dirs, n \in Nodes :
              L[e][n] = IF n = x /\ e = Other(d) THEN i
                        ELSE IF L0[e][n] = x THEN y ELSE L0[e][n]
        /\ \A n \in Nodes : P[n] = IF n = i THEN x ELSE IF n = y THEN P0[x] ELSE P0[n]
    BY <1>2, <1>7, Turn2
  <2>2. R \in T \cup {NULL}
    BY <1>2, <1>3, <1>4, <1>7 DEF TurnedRoot
  <2>3. \A n \in Nodes : P[n] \in T \cup {NULL}
    BY <1>3, <1>4, <2>1
  <2>4. \A n \in Nodes, e \in Dirs : L[e][n] \in T \cup {NULL}
    BY <1>3, <1>4, <2>1
  <2> QED
    BY <1>3, <2>1, <2>2, <2>3, <2>4 DEF Pointers
<1> QED
  BY <1>5, <1>6, <1>7 DEF Rotating

LEMMA TreeIsTyped ==
  ASSUME TreeInv
  PROVE  /\ key \in [Nodes -> Keys] /\ color \in [Nodes -> {"RED", "BLACK"}]
         /\ \E T : T \subseteq allocated /\ Pointers(T, root, link, parent)
<1>1. PICK T : /\ T \subseteq allocated
               /\ \/ Resting(pc, loc, color, key, root, link, parent, T)
                  \/ Turning(pc, rotation, loc, color, key, root, link, parent, T)
  BY DEF TreeInv
<1>2. CASE Resting(pc, loc, color, key, root, link, parent, T)
  <2>1. PICK B, h : Fits(pc, loc, color, key, T, root, link, parent, B, h)
    BY <1>2 DEF Resting
  <2>2. IsTree(T, root, link, parent, B) /\ key \in [Nodes -> Keys]
        /\ color \in [Nodes -> {"RED", "BLACK"}]
    BY <2>1 DEF Fits
  <2> QED
    BY <1>1, <2>2, TreePointers
<1>3. CASE Turning(pc, rotation, loc, color, key, root, link, parent, T)
  <2>1. PICK R0, L0, P0, B0, i, h :
          /\ pc \in Rotating
          /\ Midway(pc, rotation, root, link, parent, T, R0, L0, P0, B0, i)
          /\ AfterTurn(rotation, loc, color, key, T, R0, L0, P0, B0, i, h)
    BY <1>3 DEF Turning
  <2>2. key \in [Nodes -> Keys] /\ color \in [Nodes -> {"RED", "BLACK"}]
    BY <2>1 DEF AfterTurn, Fits
  <2>3. Pointers(T, root, link, parent)
    BY <2>1, MidwayPointers
  <2> QED
    BY <1>1, <2>2, <2>3
<1> QED
  BY <1>1, <1>2, <1>3

-----------------------------------------------------------------------------
(* The steps of the writer *)

\* The operators of the program, on the present tree
LEMMA Names ==
  /\ \A n : DirOf(n) = DirIn(link, parent, n)
  /\ \A n : NodeColor(n) = ColorIn(color, n)
  /\ \A a, n : Toward(a, n) = TowardIn(key, a, n)
  /\ \A n : OnlyChild(n) = OnlyChildIn(link, n)
BY DEF DirOf, DirIn, NodeColor, ColorIn, Toward, TowardIn, OnlyChild, OnlyChildIn

LEMMA AtRest ==
  ASSUME TreeInv, pc \notin Rotating
  PROVE  \E T, B, h : /\ T \subseteq allocated
                      /\ pc = "insertWalk" => loc.held \in allocated
                      /\ Fits(pc, loc, color, key, T, root, link, parent, B, h)
<1>1. PICK T : /\ T \subseteq allocated
               /\ pc = "insertWalk" => loc.held \in allocated
               /\ \/ Resting(pc, loc, color, key, root, link, parent, T)
                  \/ Turning(pc, rotation, loc, color, key, root, link, parent, T)
  BY DEF TreeInv
<1>2. Resting(pc, loc, color, key, root, link, parent, T)
  BY <1>1 DEF Turning
<1> QED
  BY <1>1, <1>2 DEF Resting

LEMMA ToRest ==
  ASSUME NEW T, NEW B, NEW h, T \subseteq allocated',
         pc' = "insertWalk" => loc'.held \in allocated',
         Fits(pc', loc', color', key', T, root', link', parent', B, h)
  PROVE  TreeInv'
<1>1. pc' \notin Rotating
  BY DEF Fits, PlaceInv
<1>2. Resting(pc', loc', color', key', root', link', parent', T)
  BY <1>1 DEF Resting
<1> QED
  BY <1>2 DEF TreeInv

LEMMA ToTurn ==
  ASSUME NEW T, NEW B, NEW h, NEW d, NEW x, NEW next \in Resumed, NEW y, NEW i,
         BeginRotation(d, x, next), y = link[Other(d)][x],
         root' = root, link' = link, parent' = parent, T \subseteq allocated',
         IsTree(T, root, link, parent, B), IsTurn(T, link, d, x, y, i),
         Fits(next, loc', color', key', T, TurnedRoot(root, x, y),
              TurnedLink(link, d, x, y, i), TurnedParent(parent, x, y, i),
              TurnedBelow(link, B, d, x, y, i), h)
  PROVE  TreeInv' /\ rotation' \in Rotations /\ pc' \in Labels
<1>1. pc' = "rotate1" /\ rotation' = [dir |-> d, node |-> x, up |-> y, next |-> next]
  BY DEF BeginRotation, Goto
<1>3. rotation' \in Rotations /\ pc' \in Labels
  BY <1>1, TurnPlaces DEF Rotations, NodesOrNull, Labels
<1>4. Midway(pc', rotation', root', link', parent', T, root, link, parent, B, i)
  BY <1>1 DEF Midway
<1>5. AfterTurn(rotation', loc', color', key', T, root, link, parent, B, i, h)
  BY <1>1 DEF AfterTurn
<1>6. pc' \in Rotating /\ pc' # "insertWalk"
  BY <1>1 DEF Rotating
<1>7. Turning(pc', rotation', loc', color', key', root', link', parent', T)
  BY <1>4, <1>5, <1>6 DEF Turning
<1> QED
  BY <1>3, <1>6, <1>7 DEF TreeInv

\* The node in hand is one of the tree.
LEMMA InHand ==
  ASSUME NEW at, NEW l, NEW c, NEW K, NEW T, NEW R, NEW L, NEW P, NEW B, NEW h,
         Fits(at, l, c, K, T, R, L, P, B, h)
  PROVE  /\ T \subseteq Nodes /\ NULL \notin Nodes
         /\ at \in {"insertWalk", "insert1", "insert5", "deleteMax", "delete0",
                    "delete1", "delete2", "delete3", "delete6"} => l.n \in T
         /\ at = "unlink" => l.gone \in T
         /\ at = "insertWalk" => l.held \in Nodes \ T
         /\ at = "deleteMax" => l.held \in T
         /\ at = "deleteWalk" => l.n \in T \cup {NULL}
<1>1. IsTree(T, R, L, P, B) /\ PlaceInv(at, l, T, R, L, P, B, h, c, K)
  BY DEF Fits
<1>2. T \subseteq Nodes /\ NULL \notin Nodes
  BY <1>1, Children
<1>3. at = "insertWalk" => l.n \in T /\ l.held \in Nodes \ T
  BY <1>1 DEF PlaceInv, InsertWalkInv
<1>4. at \in {"insert1", "insert5"} => l.n \in T
  BY <1>1 DEF PlaceInv, InsertInv
<1>5. at = "deleteMax" => l.n \in T /\ l.held \in T
  <2>1. at = "deleteMax" => /\ l.held \in T /\ L["left"][l.held] # NULL
                            /\ l.n \in B[L["left"][l.held]]
    BY <1>1 DEF PlaceInv, DeleteMaxInv, Dirs
  <2> QED
    BY <1>1, <2>1, Descendants DEF Dirs
<1>6. at \in {"delete1", "delete2", "delete3", "delete6"} => l.n \in T
  BY <1>1 DEF PlaceInv, DeleteInv
<1>7. at = "unlink" => l.gone \in T
  BY <1>1 DEF PlaceInv, UnlinkInv, GoneInv
<1>8. at = "delete0" => l.n \in T
  BY <1>1 DEF PlaceInv
<1>9. at = "deleteWalk" => l.n \in T \cup {NULL}
  BY <1>1 DEF PlaceInv
<1> QED
  BY <1>2, <1>3, <1>4, <1>5, <1>6, <1>7, <1>8, <1>9

LEMMA NoLocalsTyped == NoLocals \in Locals
BY DEF NoLocals, Locals, NodesOrNull

\* The three stores of a rotation
LEMMA Rotate1Step ==
  ASSUME FieldsInv, TreeInv, Rotate1
  PROVE  FieldsInv' /\ TreeInv'
<1>1. pc = "rotate1" /\ pc' = "rotate2" /\ UNCHANGED << key, value, color, allocated, loc, rotation >>
  BY DEF Rotate1, At, Goto
<1>2. PICK T, R0, L0, P0, B0, i, h :
        /\ T \subseteq allocated
        /\ Midway(pc, rotation, root, link, parent, T, R0, L0, P0, B0, i)
        /\ AfterTurn(rotation, loc, color, key, T, R0, L0, P0, B0, i, h)
  BY <1>1 DEF TreeInv, Resting, Turning, Rotating
<1>3. PICK d, x, y : d = rotation.dir /\ x = rotation.node /\ y = rotation.up
  OBVIOUS
<1>4. /\ IsTree(T, R0, L0, P0, B0) /\ IsTurn(T, L0, d, x, y, i)
      /\ root = R0 /\ link = L0 /\ parent = P0
  BY <1>1, <1>2, <1>3 DEF Midway
<1>5. y # NULL
  BY <1>4 DEF IsTurn
<1>6. /\ root' = (IF P0[x] = NULL THEN y ELSE R0)
      /\ link' = Turn1Link(L0, P0, x, y) /\ parent' = Turn1Parent(P0, x, y)
  BY <1>3, <1>4, <1>5, Zenon
  DEF Rotate1, RootReplaced, LinkReplaced, ParentReplaced, Turn1Link, Turn1Parent, DirOf, DirIn
<1>7. root' = TurnedRoot(R0, x, y)
  BY <1>4, <1>6, Turn1
<1>8. Midway(pc', rotation', root', link', parent', T, R0, L0, P0, B0, i)
  BY <1>1, <1>3, <1>4, <1>6, <1>7 DEF Midway
<1>9. Turning(pc', rotation', loc', color', key', root', link', parent', T)
  BY <1>1, <1>2, <1>8 DEF Turning, Rotating
<1>10. TreeInv'
  BY <1>1, <1>2, <1>9 DEF TreeInv
<1>11. FieldsInv'
  BY <1>1 DEF FieldsInv, Labels
<1> QED
  BY <1>10, <1>11

LEMMA Rotate2Step ==
  ASSUME FieldsInv, TreeInv, Rotate2
  PROVE  FieldsInv' /\ TreeInv'
<1>1. /\ pc = "rotate2" /\ pc' = "rotate3"
      /\ UNCHANGED << root, key, value, color, allocated, loc, rotation >>
  BY DEF Rotate2, At, Goto
<1>2. PICK T, R0, L0, P0, B0, i, h :
        /\ T \subseteq allocated
        /\ Midway(pc, rotation, root, link, parent, T, R0, L0, P0, B0, i)
        /\ AfterTurn(rotation, loc, color, key, T, R0, L0, P0, B0, i, h)
  BY <1>1 DEF TreeInv, Resting, Turning, Rotating
<1>3. PICK d, x, y : d = rotation.dir /\ x = rotation.node /\ y = rotation.up
  OBVIOUS
<1>4. /\ IsTree(T, R0, L0, P0, B0) /\ IsTurn(T, L0, d, x, y, i)
      /\ root = TurnedRoot(R0, x, y)
      /\ link = Turn1Link(L0, P0, x, y) /\ parent = Turn1Parent(P0, x, y)
  BY <1>1, <1>2, <1>3 DEF Midway
<1>5. link[d][y] = i
  BY <1>4, Turn1
<1>6. link' = Turn2Link(L0, P0, d, x, y, i) /\ parent' = Turn2Parent(P0, x, y, i)
  BY <1>3, <1>4, <1>5 DEF Rotate2, InnerChild, Turn2Link, Turn2Parent
<1>8. Midway(pc', rotation', root', link', parent', T, R0, L0, P0, B0, i)
  BY <1>1, <1>3, <1>4, <1>6 DEF Midway
<1>9. Turning(pc', rotation', loc', color', key', root', link', parent', T)
  BY <1>1, <1>2, <1>8 DEF Turning, Rotating
<1>10. TreeInv'
  BY <1>1, <1>2, <1>9 DEF TreeInv
<1>11. FieldsInv'
  BY <1>1 DEF FieldsInv, Labels
<1> QED
  BY <1>10, <1>11

LEMMA Rotate3Step ==
  ASSUME FieldsInv, TreeInv, Rotate3
  PROVE  FieldsInv' /\ TreeInv'
<1>1. /\ pc = "rotate3" /\ pc' = rotation.next /\ UNCHANGED << root, key, value, color, allocated >>
      /\ loc' = (IF rotation.next = "idle" THEN NoLocals ELSE loc)
      /\ rotation' = NoRotation
  BY DEF Rotate3, At, Goto
<1>2. PICK T, R0, L0, P0, B0, i, h :
        /\ T \subseteq allocated
        /\ Midway(pc, rotation, root, link, parent, T, R0, L0, P0, B0, i)
        /\ AfterTurn(rotation, loc, color, key, T, R0, L0, P0, B0, i, h)
  BY <1>1 DEF TreeInv, Resting, Turning, Rotating
<1>3. PICK d, x, y : d = rotation.dir /\ x = rotation.node /\ y = rotation.up
  OBVIOUS
<1>4. /\ IsTree(T, R0, L0, P0, B0) /\ IsTurn(T, L0, d, x, y, i)
      /\ root = TurnedRoot(R0, x, y)
      /\ link = Turn2Link(L0, P0, d, x, y, i) /\ parent = Turn2Parent(P0, x, y, i)
  BY <1>1, <1>2, <1>3 DEF Midway
<1>5. link' = TurnedLink(L0, d, x, y, i) /\ parent' = TurnedParent(P0, x, y, i)
  <2>1. link' = [link EXCEPT ![d][y] = x] /\ parent' = [parent EXCEPT ![x] = y]
    BY <1>3 DEF Rotate3
  <2> QED
    BY <1>4, <2>1, Turn3
<1>6. PICK B : B = TurnedBelow(L0, B0, d, x, y, i)
  OBVIOUS
<1>7. Fits(rotation.next, loc, color', key', T, root', link', parent', B, h)
  BY <1>1, <1>2, <1>3, <1>4, <1>5, <1>6 DEF AfterTurn
<1>8. Fits(pc', loc', color', key', T, root', link', parent', B, h)
  <2>1. CASE rotation.next = "idle"
    BY <1>1, <1>7, <2>1, FitsReturn
  <2>2. CASE rotation.next # "idle"
    BY <1>1, <1>7, <2>2
  <2> QED
    BY <2>1, <2>2
<1>9. rotation.next \in Labels /\ rotation.next # "insertWalk"
  BY DEF FieldsInv, Rotations, Resumed, Labels
<1>10. FieldsInv'
  <2>1. loc' \in Locals
    BY <1>1, NoLocalsTyped DEF FieldsInv
  <2>2. rotation' \in Rotations
    BY <1>1 DEF NoRotation, Rotations, Dirs, NodesOrNull, Resumed
  <2> QED
    BY <1>1, <1>9, <2>1, <2>2 DEF FieldsInv
<1>11. TreeInv'
  BY <1>1, <1>2, <1>8, <1>9, ToRest
<1> QED
  BY <1>10, <1>11

\* A block outside the tree has no pointers to clear.
LEMMA BlankOutside ==
  ASSUME NEW T, NEW R, NEW L, NEW P, NEW B, IsTree(T, R, L, P, B), NEW n \in Nodes \ T
  PROVE  /\ [d \in Dirs |-> [L[d] EXCEPT ![n] = NULL]] = L
         /\ [P EXCEPT ![n] = NULL] = P
<1>1. /\ L \in [Dirs -> [Nodes -> NodesOrNull]] /\ P \in [Nodes -> NodesOrNull]
      /\ P[n] = NULL /\ \A d \in Dirs : L[d][n] = NULL
  BY DEF IsTree, IsLinked
<1>2. [P EXCEPT ![n] = NULL] = P
  BY <1>1
<1>3. \A d \in Dirs : [L[d] EXCEPT ![n] = NULL] = L[d]
  <2>1. ASSUME NEW d \in Dirs PROVE [L[d] EXCEPT ![n] = NULL] = L[d]
    <3>1. L[d] \in [Nodes -> NodesOrNull] /\ L[d][n] = NULL
      BY <1>1
    <3> QED
      BY <3>1
  <2> QED
    BY <2>1
<1>4. L = [d \in Dirs |-> L[d]]
  BY <1>1
<1> QED
  BY <1>2, <1>3, <1>4

LEMMA BeginInsertStep ==
  ASSUME FieldsInv, TreeInv, NEW o \in Objects, BeginInsert(o.addr, o.size, o.value)
  PROVE  FieldsInv' /\ TreeInv'
<1>1. PICK n : n = FreeNode
  OBVIOUS
<1>2. /\ pc = "idle" /\ allocated # Nodes /\ allocated' = allocated \cup {n}
      /\ key' = [key EXCEPT ![n] = [addr |-> o.addr, size |-> o.size]]
      /\ value' = [value EXCEPT ![n] = o.value]
      /\ color' = [color EXCEPT ![n] = "RED"]
      /\ link' = [d \in Dirs |-> [link[d] EXCEPT ![n] = NULL]]
      /\ parent' = [parent EXCEPT ![n] = NULL]
      /\ rotation' = rotation
  BY <1>1 DEF BeginInsert, MayBegin, Paint
<1>3. PICK T, B, h :
        /\ T \subseteq allocated
        /\ Fits("idle", loc, color, key, T, root, link, parent, B, h)
  <2>1. pc \notin Rotating
    BY <1>2 DEF Rotating
  <2> QED
    BY <1>2, <2>1, AtRest
<1>4. allocated \subseteq Nodes /\ n \in Nodes \ allocated
  BY <1>1, <1>2 DEF FieldsInv, FreeNode
<1>5. IsTree(T, root, link, parent, B) /\ key \in [Nodes -> Keys]
  BY <1>3 DEF Fits
<1>6. link' = link /\ parent' = parent
  <2>1. n \in Nodes \ T
    BY <1>3, <1>4
  <2> QED
    BY <1>2, <1>5, <2>1, BlankOutside
<1>7. /\ o.addr \in Addrs /\ o.size \in Sizes /\ o.value \in TypeTables
      /\ [addr |-> o.addr, size |-> o.size] \in Keys
  BY ConstantsAssumption DEF Keys
<1>8. value' \in [Nodes -> TypeTables] /\ allocated' \subseteq Nodes
  BY <1>2, <1>4, <1>7 DEF FieldsInv
<1>9. CASE root = NULL
  <2>1. /\ root' = n /\ loc' = [NoLocals EXCEPT !.n = n] /\ pc' = "insert1"
    BY <1>1, <1>9 DEF BeginInsert, Goto
  <2>2. Fits("insert1", loc', color', key', {n}, root', link', parent',
             [B EXCEPT ![n] = {n}], [h EXCEPT ![n] = 1])
    <3>1. key' \in [Nodes -> Keys]
      BY <1>2, <1>4, <1>5, <1>7
    <3>2. Fits("idle", loc, color, key, T, NULL, link, parent, B, h) /\ n \in Nodes
      BY <1>3, <1>4, <1>9
    <3>3. Fits("insert1", [NoLocals EXCEPT !.n = n], [color EXCEPT ![n] = "RED"], key', {n},
               n, link, parent, [B EXCEPT ![n] = {n}], [h EXCEPT ![n] = 1])
      BY <3>1, <3>2, FitsBeginInsertEmpty
    <3> QED
      BY <1>2, <1>6, <2>1, <3>3
  <2>3. TreeInv'
    BY <1>2, <2>1, <2>2, ToRest
  <2>4. loc' \in Locals
    BY <1>4, <2>1 DEF NoLocals, Locals, NodesOrNull
  <2> QED
    BY <1>2, <1>8, <2>1, <2>3, <2>4 DEF FieldsInv, Labels
<1>10. CASE root # NULL
  <2>1. /\ root' = root /\ pc' = "insertWalk"
        /\ loc' = [NoLocals EXCEPT !.n = root, !.held = n, !.addr = o.addr]
    BY <1>1, <1>10 DEF BeginInsert, Goto
  <2>2. Fits("insertWalk", loc', color', key', T, root', link', parent', B, h)
    <3>1. n \in Nodes \ T
      BY <1>3, <1>4
    <3>2. PICK k \in Keys : k = [addr |-> o.addr, size |-> o.size]
      BY <1>7
    <3>3. Fits("insertWalk", [NoLocals EXCEPT !.n = root, !.held = n, !.addr = k.addr],
               [color EXCEPT ![n] = "RED"], [key EXCEPT ![n] = k], T, root, link, parent, B, h)
      BY <1>3, <1>10, <3>1, FitsBeginInsert, Zenon
    <3>4. k.addr = o.addr
      BY <3>2
    <3> QED
      BY <1>2, <1>6, <2>1, <3>2, <3>3, <3>4
  <2>3. loc' \in Locals /\ loc'.held = n
    <3>1. root \in NodesOrNull
      BY <1>5 DEF IsTree, IsLinked, NodesOrNull
    <3> QED
      BY <1>4, <1>7, <2>1, <3>1 DEF NoLocals, Locals, NodesOrNull
  <2>4. TreeInv'
    <3>1. T \subseteq allocated' /\ loc'.held \in allocated'
      BY <1>2, <1>3, <2>3
    <3> QED
      BY <2>1, <2>2, <3>1, ToRest
  <2> QED
    BY <1>2, <1>8, <2>1, <2>3, <2>4 DEF FieldsInv, Labels
<1> QED
  BY <1>9, <1>10

LEMMA InsertKnownStep ==
  ASSUME FieldsInv, TreeInv, InsertKnown
  PROVE  FieldsInv' /\ TreeInv'
<1>1. /\ pc = "insertWalk" /\ pc' = "idle" /\ loc' = NoLocals
      /\ value' = [value EXCEPT ![loc.n] = value[loc.held], ![loc.held] = AnyTable]
      /\ key' = [key EXCEPT ![loc.held] = AnyKey]
      /\ UNCHANGED << root, color, link, parent, allocated, rotation >>
  BY DEF InsertKnown, At, Return, Goto
<1>2. PICK T, B, h :
        /\ T \subseteq allocated
        /\ Fits("insertWalk", loc, color, key, T, root, link, parent, B, h)
  <2>1. pc \notin Rotating
    BY <1>1 DEF Rotating
  <2> QED
    BY <1>1, <2>1, AtRest
<1>3. Fits("idle", loc', color', key', T, root', link', parent', B, h)
  BY <1>1, <1>2, FitsInsertKnown
<1>4. TreeInv'
  BY <1>1, <1>2, <1>3, ToRest
<1>5. value' \in [Nodes -> TypeTables]
  <2>1. loc.held \in Nodes /\ AnyTable \in TypeTables
    BY <1>2, InHand, ConstantsAssumption DEF AnyTable
  <2> QED
    BY <1>1, <2>1 DEF FieldsInv
<1>6. FieldsInv'
  BY <1>1, <1>5, NoLocalsTyped DEF FieldsInv, Labels
<1> QED
  BY <1>4, <1>6

LEMMA InsertWalkStep ==
  ASSUME FieldsInv, TreeInv, InsertWalk
  PROVE  FieldsInv' /\ TreeInv'
<1>1. /\ pc = "insertWalk" /\ key[loc.n].addr # loc.addr
      /\ UNCHANGED << root, key, value, color, allocated, rotation >>
  BY DEF InsertWalk, At
<1>2. PICK T, B, h :
        /\ T \subseteq allocated /\ loc.held \in allocated
        /\ Fits("insertWalk", loc, color, key, T, root, link, parent, B, h)
  <2>1. pc \notin Rotating
    BY <1>1 DEF Rotating
  <2> QED
    BY <1>1, <2>1, AtRest
<1>3. PICK d : d = TowardIn(key, loc.addr, loc.n)
  OBVIOUS
<1>4. d = Toward(loc.addr, loc.n) /\ d \in Dirs
  BY <1>3 DEF Toward, TowardIn, Dirs
<1>5. loc \in Locals /\ loc.n \in Nodes /\ loc.n \in T /\ loc.held \in Nodes
  BY <1>2, InHand DEF FieldsInv
<1>6. CASE link[d][loc.n] # NULL
  <2>1. /\ loc' = [loc EXCEPT !.n = link[d][loc.n]] /\ pc' = "insertWalk"
        /\ link' = link /\ parent' = parent
    BY <1>4, <1>6 DEF InsertWalk, Goto
  <2>2. Fits("insertWalk", loc', color', key', T, root', link', parent', B, h)
    BY <1>1, <1>2, <1>3, <1>6, <2>1, FitsInsertWalk
  <2>3. link[d][loc.n] \in NodesOrNull
    BY <1>2, <1>4, <1>5 DEF Fits, IsTree, IsLinked
  <2>4. loc' \in Locals /\ loc'.held = loc.held
    BY <1>5, <2>1, <2>3 DEF Locals
  <2>5. TreeInv'
    BY <1>1, <1>2, <2>1, <2>2, <2>4, ToRest
  <2> QED
    BY <1>1, <2>1, <2>4, <2>5 DEF FieldsInv, Labels
<1>7. CASE link[d][loc.n] = NULL
  <2>1. /\ link' = [link EXCEPT ![d][loc.n] = loc.held]
        /\ parent' = [parent EXCEPT ![loc.held] = loc.n]
        /\ loc' = [loc EXCEPT !.n = loc.held] /\ pc' = "insert1"
    BY <1>4, <1>7 DEF InsertWalk, Goto
  <2>2. PICK B2, h2 : B2 = LinkedBelow(T, B, loc.n, loc.held)
                      /\ h2 = [h EXCEPT ![loc.held] = 1]
    OBVIOUS
  <2>3. Fits("insert1", loc', color', key', T \cup {loc.held}, root', link', parent', B2, h2)
    <3>1. Fits("insert1", [loc EXCEPT !.n = loc.held], color, key, T \cup {loc.held}, root,
               LinkedLink(link, d, loc.n, loc.held), LinkedParent(parent, loc.n, loc.held),
               LinkedBelow(T, B, loc.n, loc.held), [h EXCEPT ![loc.held] = 1])
      BY <1>1, <1>2, <1>3, <1>7, FitsInsertLeaf
    <3> QED
      BY <1>1, <2>1, <2>2, <3>1 DEF LinkedLink, LinkedParent
  <2>4. loc' \in Locals
    BY <1>5, <2>1 DEF Locals, NodesOrNull
  <2>5. TreeInv'
    <3>1. T \cup {loc.held} \subseteq allocated'
      BY <1>1, <1>2
    <3> QED
      BY <2>1, <2>3, <3>1, ToRest
  <2> QED
    BY <1>1, <2>1, <2>4, <2>5 DEF FieldsInv, Labels
<1> QED
  BY <1>6, <1>7

LEMMA AtPlace ==
  ASSUME TreeInv, NEW at \in Labels \ Rotating, pc = at
  PROVE  \E T, B, h : /\ T \subseteq allocated
                      /\ Fits(at, loc, color, key, T, root, link, parent, B, h)
BY AtRest

LEMMA InsertCase1Step ==
  ASSUME FieldsInv, TreeInv, InsertCase1
  PROVE  FieldsInv' /\ TreeInv'
<1>1. /\ pc = "insert1" /\ parent[loc.n] = NULL /\ pc' = "idle" /\ loc' = NoLocals
      /\ color' = [color EXCEPT ![loc.n] = "BLACK"]
      /\ UNCHANGED << root, key, value, link, parent, allocated, rotation >>
  BY DEF InsertCase1, At, Return, Goto, Paint
<1>2. PICK T, B, h : /\ T \subseteq allocated
                     /\ Fits("insert1", loc, color, key, T, root, link, parent, B, h)
  BY <1>1, AtPlace DEF Labels, Rotating
<1>3. PICK h2 : h2 = [h EXCEPT ![loc.n] = @ + 1]
  OBVIOUS
<1>4. Fits("idle", loc', color', key', T, root', link', parent', B, h2)
  BY <1>1, <1>2, <1>3, FitsInsertCase1
<1>5. TreeInv'
  BY <1>1, <1>2, <1>4, ToRest
<1>6. FieldsInv'
  BY <1>1, NoLocalsTyped DEF FieldsInv, Labels
<1> QED
  BY <1>5, <1>6

LEMMA InsertCase2Step ==
  ASSUME FieldsInv, TreeInv, InsertCase2
  PROVE  FieldsInv' /\ TreeInv'
<1>1. /\ pc = "insert1" /\ parent[loc.n] # NULL /\ pc' = "idle" /\ loc' = NoLocals
      /\ ColorIn(color, parent[loc.n]) = "BLACK"
      /\ UNCHANGED << root, key, value, color, link, parent, allocated, rotation >>
  BY Names DEF InsertCase2, At, Return, Goto, tree
<1>2. PICK T, B, h : /\ T \subseteq allocated
                     /\ Fits("insert1", loc, color, key, T, root, link, parent, B, h)
  BY <1>1, AtPlace DEF Labels, Rotating
<1>4. Fits("idle", loc', color', key', T, root', link', parent', B, h)
  BY <1>1, <1>2, FitsInsertCase2
<1>5. TreeInv'
  BY <1>1, <1>2, <1>4, ToRest
<1>6. FieldsInv'
  BY <1>1, NoLocalsTyped DEF FieldsInv, Labels
<1> QED
  BY <1>5, <1>6

\* What insert_case3 and 4 know of the relatives
LEMMA RedParentHere ==
  ASSUME TreeInv, pc = "insert1", parent[loc.n] # NULL, NodeColor(parent[loc.n]) = "RED"
  PROVE  \E T, B, h, p, g, u :
           /\ T \subseteq allocated
           /\ Fits("insert1", loc, color, key, T, root, link, parent, B, h)
           /\ p = parent[loc.n] /\ g = parent[p]
           /\ u = link[Other(DirIn(link, parent, p))][g]
           /\ p # NULL /\ color[p] = "RED" /\ p \in T /\ g \in T /\ g # NULL
           /\ Grandparent(loc.n) = g /\ Uncle(loc.n) = u
           /\ ColorIn(color, u) \in {"RED", "BLACK"}
<1>1. PICK T, B, h : /\ T \subseteq allocated
                     /\ Fits("insert1", loc, color, key, T, root, link, parent, B, h)
  BY AtPlace DEF Labels, Rotating
<1>2. PICK p, g, u : /\ p = parent[loc.n] /\ g = parent[p]
                     /\ u = link[Other(DirIn(link, parent, p))][g]
  OBVIOUS
<1>3. p # NULL /\ color[p] = "RED"
  BY <1>2 DEF NodeColor
<1>4. /\ IsTree(T, root, link, parent, B) /\ InsertInv(T, root, link, color, h, loc)
      /\ color \in [Nodes -> {"RED", "BLACK"}]
  BY <1>1 DEF Fits, PlaceInv
<1>5. p \in T /\ g \in T /\ g # NULL
  BY <1>2, <1>3, <1>4, RedParent
<1>6. Grandparent(loc.n) = g /\ Uncle(loc.n) = u
  BY <1>2, Names DEF Grandparent, Uncle, Sibling
<1>7. u # NULL => u \in T
  BY <1>2, <1>4, <1>5, Relatives
<1>8. ColorIn(color, u) \in {"RED", "BLACK"}
  BY <1>4, <1>7, Children DEF ColorIn
<1> QED
  BY <1>1, <1>2, <1>3, <1>5, <1>6, <1>8, Zenon

LEMMA InsertCase3Step ==
  ASSUME FieldsInv, TreeInv, InsertCase3
  PROVE  FieldsInv' /\ TreeInv'
<1>1. /\ pc = "insert1" /\ parent[loc.n] # NULL /\ pc' = "insert1"
      /\ NodeColor(parent[loc.n]) = "RED" /\ ColorIn(color, Uncle(loc.n)) = "RED"
      /\ color' = [color EXCEPT ![parent[loc.n]] = "BLACK", ![Uncle(loc.n)] = "BLACK",
                                ![Grandparent(loc.n)] = "RED"]
      /\ loc' = [loc EXCEPT !.n = Grandparent(loc.n)]
      /\ UNCHANGED << root, key, value, link, parent, allocated, rotation >>
  BY Names DEF InsertCase3, At, Goto, UncleIsRed
<1>2. PICK T, B, h, p, g, u :
        /\ T \subseteq allocated
        /\ Fits("insert1", loc, color, key, T, root, link, parent, B, h)
        /\ p = parent[loc.n] /\ g = parent[p]
        /\ u = link[Other(DirIn(link, parent, p))][g]
        /\ p # NULL /\ color[p] = "RED" /\ p \in T /\ g \in T /\ g # NULL
        /\ Grandparent(loc.n) = g /\ Uncle(loc.n) = u
        /\ ColorIn(color, u) \in {"RED", "BLACK"}
  BY <1>1, RedParentHere
<1>3. PICK h2 : h2 = [h EXCEPT ![p] = h[p] + 1, ![u] = h[u] + 1]
  OBVIOUS
<1>4. /\ ColorIn(color, u) = "RED"
      /\ color' = [color EXCEPT ![p] = "BLACK", ![u] = "BLACK", ![g] = "RED"]
      /\ loc' = [loc EXCEPT !.n = g]
  BY <1>1, <1>2, Zenon
<1>5. Fits("insert1", loc', color', key', T, root', link', parent', B, h2)
  <2>1. Fits("insert1", [loc EXCEPT !.n = g],
             [color EXCEPT ![p] = "BLACK", ![u] = "BLACK", ![g] = "RED"], key, T, root,
             link, parent, B, [h EXCEPT ![p] = h[p] + 1, ![u] = h[u] + 1])
    BY <1>2, <1>4, FitsInsertCase3, Zenon
  <2> QED
    BY <1>1, <1>3, <1>4, <2>1, Zenon
<1>6. TreeInv'
  BY <1>1, <1>2, <1>5, ToRest, Zenon
<1>7. loc' \in Locals
  <2>1. g \in NodesOrNull
    BY <1>2, InHand DEF NodesOrNull
  <2> QED
    BY <1>4, <2>1 DEF FieldsInv, Locals
<1>8. FieldsInv'
  BY <1>1, <1>7 DEF FieldsInv
<1> QED
  BY <1>6, <1>8

LEMMA InsertCase4Step ==
  ASSUME FieldsInv, TreeInv, InsertCase4
  PROVE  FieldsInv' /\ TreeInv'
<1>1. /\ pc = "insert1" /\ parent[loc.n] # NULL
      /\ NodeColor(parent[loc.n]) = "RED" /\ ColorIn(color, Uncle(loc.n)) # "RED"
      /\ UNCHANGED << root, key, value, color, link, parent, allocated >>
  BY Names DEF InsertCase4, At, UncleIsRed, tree
<1>2. PICK T, B, h, p, g, u :
        /\ T \subseteq allocated
        /\ Fits("insert1", loc, color, key, T, root, link, parent, B, h)
        /\ p = parent[loc.n] /\ g = parent[p]
        /\ u = link[Other(DirIn(link, parent, p))][g]
        /\ p # NULL /\ color[p] = "RED" /\ p \in T /\ g \in T /\ g # NULL
        /\ Grandparent(loc.n) = g /\ Uncle(loc.n) = u
        /\ ColorIn(color, u) \in {"RED", "BLACK"}
  BY <1>1, RedParentHere
<1>3. ColorIn(color, link[Other(DirIn(link, parent, p))][g]) = "BLACK"
  BY <1>1, <1>2
<1>4. CASE DirOf(loc.n) = DirOf(parent[loc.n])
  <2>1. pc' = "insert5" /\ loc' = loc /\ rotation' = rotation
    BY <1>4 DEF InsertCase4, Goto
  <2>2. DirIn(link, parent, loc.n) = DirIn(link, parent, p)
    BY <1>2, <1>4, Names
  <2>3. Fits("insert5", loc, color, key, T, root, link, parent, B, h)
    BY <1>2, <1>3, <2>2, FitsInsertCase4
  <2>4. Fits(pc', loc', color', key', T, root', link', parent', B, h)
    BY <1>1, <2>1, <2>3
  <2>5. TreeInv'
    BY <1>1, <1>2, <2>1, <2>4, ToRest
  <2> QED
    BY <1>1, <2>1, <2>5 DEF FieldsInv, Labels
<1>5. CASE DirOf(loc.n) # DirOf(parent[loc.n])
  <2>1. PICK d, n, i : d = Other(DirIn(link, parent, loc.n)) /\ n = loc.n /\ i = link[d][n]
    OBVIOUS
  <2>2. BeginRotation(d, p, "insert5") /\ loc' = [loc EXCEPT !.n = p]
    BY <1>2, <1>5, <2>1, Names DEF InsertCase4
  <2>3. DirIn(link, parent, loc.n) # DirIn(link, parent, p)
    BY <1>2, <1>5, Names
  <2>4. /\ IsTurn(T, link, d, p, n, i)
        /\ Fits("insert5", [loc EXCEPT !.n = p], color, key, T, TurnedRoot(root, p, n),
                TurnedLink(link, d, p, n, i), TurnedParent(parent, p, n, i),
                TurnedBelow(link, B, d, p, n, i), h)
    BY <1>2, <1>3, <2>1, <2>3, FitsInsertCase4Turn
  <2>5. n = link[Other(d)][p] /\ IsTree(T, root, link, parent, B)
    BY <1>2, <2>4, Zenon DEF IsTurn, Fits
  <2>6. TreeInv' /\ rotation' \in Rotations /\ pc' \in Labels
    <3>1. "insert5" \in Resumed /\ T \subseteq allocated'
      BY <1>1, <1>2 DEF Resumed
    <3>2. Fits("insert5", loc', color', key', T, TurnedRoot(root, p, n),
               TurnedLink(link, d, p, n, i), TurnedParent(parent, p, n, i),
               TurnedBelow(link, B, d, p, n, i), h)
      BY <1>1, <2>2, <2>4
    <3> QED
      BY <1>1, <2>2, <2>4, <2>5, <3>1, <3>2, ToTurn
  <2>7. loc' \in Locals
    <3>1. p \in NodesOrNull
      BY <1>2, InHand DEF NodesOrNull
    <3> QED
      BY <2>2, <3>1 DEF FieldsInv, Locals
  <2> QED
    BY <1>1, <2>6, <2>7 DEF FieldsInv
<1> QED
  BY <1>4, <1>5

LEMMA InsertCase5Step ==
  ASSUME FieldsInv, TreeInv, InsertCase5
  PROVE  FieldsInv' /\ TreeInv'
<1>1. PICK n, p, g, d, i :
        /\ n = loc.n /\ p = parent[n] /\ g = parent[p]
        /\ d = Other(DirIn(link, parent, n)) /\ i = link[d][p]
  OBVIOUS
<1>2. /\ pc = "insert5" /\ BeginRotation(d, g, "idle")
      /\ color' = [color EXCEPT ![p] = "BLACK", ![g] = "RED"]
      /\ UNCHANGED << root, key, value, link, parent, allocated, loc >>
  BY <1>1, Names DEF InsertCase5, At, Grandparent
<1>3. PICK T, B, h : /\ T \subseteq allocated
                     /\ Fits("insert5", loc, color, key, T, root, link, parent, B, h)
  BY <1>2, AtPlace DEF Labels, Rotating
<1>4. PICK h2 : h2 = [h EXCEPT ![p] = h[g], ![g] = h[p]]
  OBVIOUS
<1>5. /\ IsTurn(T, link, d, g, p, i)
      /\ Fits("idle", loc, [color EXCEPT ![p] = "BLACK", ![g] = "RED"], key, T,
              TurnedRoot(root, g, p), TurnedLink(link, d, g, p, i),
              TurnedParent(parent, g, p, i), TurnedBelow(link, B, d, g, p, i), h2)
  <2>1. p = parent[loc.n] /\ d = Other(DirIn(link, parent, loc.n))
    BY <1>1
  <2>2. /\ IsTurn(T, link, d, g, p, i)
        /\ Fits("idle", loc, [color EXCEPT ![p] = "BLACK", ![g] = "RED"], key, T,
                TurnedRoot(root, g, p), TurnedLink(link, d, g, p, i),
                TurnedParent(parent, g, p, i), TurnedBelow(link, B, d, g, p, i),
                [h EXCEPT ![p] = h[g], ![g] = h[p]])
    BY <1>1, <1>3, <2>1, FitsInsertCase5
  <2> QED
    BY <1>4, <2>2
<1>6. p = link[Other(d)][g] /\ IsTree(T, root, link, parent, B)
  BY <1>3, <1>5, Zenon DEF IsTurn, Fits
<1>7. TreeInv' /\ rotation' \in Rotations /\ pc' \in Labels
  <2>1. "idle" \in Resumed /\ T \subseteq allocated'
    BY <1>2, <1>3 DEF Resumed
  <2>2. Fits("idle", loc', color', key', T, TurnedRoot(root, g, p),
             TurnedLink(link, d, g, p, i), TurnedParent(parent, g, p, i),
             TurnedBelow(link, B, d, g, p, i), h2)
    BY <1>2, <1>5
  <2> QED
    BY <1>2, <1>5, <1>6, <2>1, <2>2, ToTurn
<1> QED
  BY <1>2, <1>7 DEF FieldsInv

LEMMA BeginDeleteStep ==
  ASSUME FieldsInv, TreeInv, NEW a \in Addrs, BeginDelete(a)
  PROVE  FieldsInv' /\ TreeInv'
<1>1. /\ pc = "idle" /\ pc' = "deleteWalk"
      /\ loc' = [NoLocals EXCEPT !.n = root, !.addr = a]
      /\ UNCHANGED << root, key, value, color, link, parent, allocated, rotation >>
  BY DEF BeginDelete, MayBegin, Goto, tree
<1>2. PICK T, B, h : /\ T \subseteq allocated
                     /\ Fits("idle", loc, color, key, T, root, link, parent, B, h)
  BY <1>1, AtPlace DEF Labels, Rotating
<1>3. Fits("deleteWalk", loc', color', key', T, root', link', parent', B, h)
  BY <1>1, <1>2, FitsBeginDelete
<1>4. TreeInv'
  BY <1>1, <1>2, <1>3, ToRest
<1>5. loc' \in Locals
  <2>1. root \in NodesOrNull
    BY <1>2 DEF Fits, IsTree, IsLinked, NodesOrNull
  <2> QED
    BY <1>1, <2>1 DEF NoLocals, Locals, NodesOrNull
<1> QED
  BY <1>1, <1>4, <1>5 DEF FieldsInv, Labels

LEMMA DeleteUnknownStep ==
  ASSUME FieldsInv, TreeInv, DeleteUnknown
  PROVE  FieldsInv' /\ TreeInv'
<1>1. /\ pc = "deleteWalk" /\ pc' = "idle" /\ loc' = NoLocals
      /\ UNCHANGED << root, key, value, color, link, parent, allocated, rotation >>
  BY DEF DeleteUnknown, At, Return, Goto, tree
<1>2. PICK T, B, h : /\ T \subseteq allocated
                     /\ Fits("deleteWalk", loc, color, key, T, root, link, parent, B, h)
  BY <1>1, AtPlace DEF Labels, Rotating
<1>3. Fits("idle", loc', color', key', T, root', link', parent', B, h)
  BY <1>1, <1>2, FitsReturn
<1>4. TreeInv'
  BY <1>1, <1>2, <1>3, ToRest
<1> QED
  BY <1>1, <1>4, NoLocalsTyped DEF FieldsInv, Labels

LEMMA DeleteWalkStep ==
  ASSUME FieldsInv, TreeInv, DeleteWalk
  PROVE  FieldsInv' /\ TreeInv'
<1>1. /\ pc = "deleteWalk" /\ loc.n # NULL
      /\ UNCHANGED << root, key, value, color, link, parent, allocated, rotation >>
  BY DEF DeleteWalk, At, tree
<1>2. PICK T, B, h : /\ T \subseteq allocated
                     /\ Fits("deleteWalk", loc, color, key, T, root, link, parent, B, h)
  BY <1>1, AtPlace DEF Labels, Rotating
<1>3. loc.n \in T /\ loc.n \in Nodes /\ loc \in Locals
  BY <1>1, <1>2, InHand DEF FieldsInv
<1>4. \A d \in Dirs : link[d][loc.n] \in NodesOrNull
  BY <1>2, <1>3 DEF Fits, IsTree, IsLinked
<1>5. CASE /\ key[loc.n].addr # loc.addr
           /\ loc' = [loc EXCEPT !.n = link[Toward(loc.addr, loc.n)][loc.n]]
           /\ Goto("deleteWalk")
  <2>1. PICK d : d = Toward(loc.addr, loc.n)
    OBVIOUS
  <2>2. /\ d \in Dirs /\ loc' = [loc EXCEPT !.n = link[d][loc.n]] /\ pc' = "deleteWalk"
    BY <1>5, <2>1 DEF Toward, Dirs, Goto
  <2>3. Fits("deleteWalk", loc', color', key', T, root', link', parent', B, h)
    BY <1>1, <1>2, <2>2, FitsDeleteWalk
  <2>4. TreeInv'
    BY <1>1, <1>2, <2>2, <2>3, ToRest
  <2>5. loc' \in Locals
    BY <1>3, <1>4, <2>2 DEF Locals
  <2> QED
    BY <1>1, <2>2, <2>4, <2>5 DEF FieldsInv, Labels
<1>6. CASE /\ \A d \in Dirs : link[d][loc.n] # NULL
           /\ loc' = [loc EXCEPT !.held = loc.n, !.n = link["left"][loc.n]]
           /\ Goto("deleteMax")
  <2>1. pc' = "deleteMax" /\ "left" \in Dirs
    BY <1>6 DEF Goto, Dirs
  <2>2. Fits("deleteMax", loc', color', key', T, root', link', parent', B, h)
    BY <1>1, <1>2, <1>6, FitsDeleteInner, Zenon
  <2>3. TreeInv'
    BY <1>1, <1>2, <2>1, <2>2, ToRest
  <2>4. loc' \in Locals
    BY <1>3, <1>4, <1>6, <2>1 DEF Locals, NodesOrNull
  <2> QED
    BY <1>1, <2>1, <2>3, <2>4 DEF FieldsInv, Labels
<1>7. CASE (\E d \in Dirs : link[d][loc.n] = NULL) /\ loc' = loc /\ Goto("delete0")
  <2>1. pc' = "delete0"
    BY <1>7 DEF Goto
  <2>2. Fits("delete0", loc', color', key', T, root', link', parent', B, h)
    BY <1>1, <1>2, <1>7, FitsDeleteFound
  <2>3. TreeInv'
    BY <1>1, <1>2, <2>1, <2>2, ToRest
  <2> QED
    BY <1>1, <1>7, <2>1, <2>3 DEF FieldsInv, Labels
<1> QED
  BY <1>5, <1>6, <1>7 DEF DeleteWalk, HasKey

LEMMA DeleteMaxStep ==
  ASSUME FieldsInv, TreeInv, DeleteMax
  PROVE  FieldsInv' /\ TreeInv'
<1>1. pc = "deleteMax" /\ UNCHANGED << root, color, link, parent, allocated, rotation >>
  BY DEF DeleteMax, At
<1>2. PICK T, B, h : /\ T \subseteq allocated
                     /\ Fits("deleteMax", loc, color, key, T, root, link, parent, B, h)
  BY <1>1, AtPlace DEF Labels, Rotating
<1>3. loc.n \in Nodes /\ loc.held \in Nodes /\ loc \in Locals
  BY <1>2, InHand DEF FieldsInv
<1>4. CASE link["right"][loc.n] # NULL
  <2>1. /\ loc' = [loc EXCEPT !.n = link["right"][loc.n]] /\ pc' = "deleteMax"
        /\ key' = key /\ value' = value
    BY <1>4 DEF DeleteMax, Goto
  <2>2. Fits("deleteMax", loc', color', key', T, root', link', parent', B, h)
    BY <1>1, <1>2, <1>4, <2>1, FitsDeleteMax
  <2>3. TreeInv'
    BY <1>1, <1>2, <2>1, <2>2, ToRest
  <2>4. loc' \in Locals
    <3>1. link["right"][loc.n] \in NodesOrNull
      BY <1>2, <1>3 DEF Fits, IsTree, IsLinked, Dirs
    <3> QED
      BY <1>3, <2>1, <3>1 DEF Locals
  <2> QED
    BY <1>1, <2>1, <2>3, <2>4 DEF FieldsInv, Labels
<1>5. CASE link["right"][loc.n] = NULL
  <2>1. /\ loc' = loc /\ pc' = "delete0" /\ key' = [key EXCEPT ![loc.held] = key[loc.n]]
        /\ value' = [value EXCEPT ![loc.held] = value[loc.n]]
    BY <1>5 DEF DeleteMax, Goto, CopiedValue
  <2>2. Fits("delete0", loc', color', key', T, root', link', parent', B, h)
    BY <1>1, <1>2, <1>5, <2>1, FitsDeleteMaxEnd
  <2>3. TreeInv'
    BY <1>1, <1>2, <2>1, <2>2, ToRest
  <2>4. value' \in [Nodes -> TypeTables]
    BY <1>3, <2>1 DEF FieldsInv
  <2> QED
    BY <1>1, <2>1, <2>3, <2>4 DEF FieldsInv, Labels
<1> QED
  BY <1>4, <1>5

LEMMA BeginUnlinkStep ==
  ASSUME FieldsInv, TreeInv, BeginUnlink
  PROVE  FieldsInv' /\ TreeInv'
<1>1. PICK n, q : n = loc.n /\ q = OnlyChildIn(link, n)
  OBVIOUS
<1>2. /\ pc = "delete0" /\ loc' = [loc EXCEPT !.gone = n, !.held = q]
      /\ UNCHANGED << root, key, value, link, parent, allocated, rotation >>
  BY <1>1, Names DEF BeginUnlink, At
<1>3. PICK T, B, h : /\ T \subseteq allocated
                     /\ Fits("delete0", loc, color, key, T, root, link, parent, B, h)
  BY <1>2, AtPlace DEF Labels, Rotating
<1>4. n \in T /\ n \in Nodes /\ NULL \notin Nodes
  BY <1>1, <1>3, InHand
<1>5. loc' \in Locals
  <2>1. \A d \in Dirs : link[d][n] \in NodesOrNull
    BY <1>3, <1>4 DEF Fits, IsTree, IsLinked
  <2>2. q \in NodesOrNull
    BY <1>1, <2>1 DEF OnlyChildIn, Dirs
  <2> QED
    BY <1>2, <1>4, <2>2 DEF FieldsInv, Locals, NodesOrNull
<1>6. CASE color[n] = "BLACK"
  <2>1. pc' = "delete1" /\ color' = [color EXCEPT ![n] = ColorIn(color, q)]
    BY <1>1, <1>4, <1>6, Names DEF BeginUnlink, Goto, Paint, ColorIn
  <2>2. PICK h2 : h2 = [h EXCEPT ![n] = h[q]]
    OBVIOUS
  <2>3. Fits("delete1", loc', color', key', T, root', link', parent', B, h2)
    <3>1. q = OnlyChildIn(link, loc.n) /\ color[loc.n] = "BLACK"
      BY <1>1, <1>6
    <3>2. Fits("delete1", [loc EXCEPT !.gone = loc.n, !.held = q],
               [color EXCEPT ![loc.n] = ColorIn(color, q)], key, T, root, link, parent, B,
               [h EXCEPT ![loc.n] = h[q]])
      BY <1>3, <3>1, FitsBeginUnlinkBlack, Zenon
    <3> QED
      BY <1>1, <1>2, <2>1, <2>2, <3>2
  <2>4. TreeInv'
    BY <1>2, <1>3, <2>1, <2>3, ToRest
  <2> QED
    BY <1>2, <1>5, <2>1, <2>4 DEF FieldsInv, Labels
<1>7. CASE color[n] # "BLACK"
  <2>1. pc' = "unlink" /\ color' = color
    BY <1>1, <1>4, <1>7, Names DEF BeginUnlink, Goto, Paint, ColorIn
  <2>2. color[loc.n] = "RED"
    BY <1>1, <1>3, <1>4, <1>7 DEF Fits
  <2>3. Fits("unlink", loc', color', key', T, root', link', parent', B, h)
    <3>1. Fits("unlink", [loc EXCEPT !.gone = loc.n, !.held = OnlyChildIn(link, loc.n)],
               color, key, T, root, link, parent, B, h)
      BY <1>3, <2>2, FitsBeginUnlinkRed
    <3> QED
      BY <1>1, <1>2, <2>1, <3>1
  <2>4. TreeInv'
    BY <1>2, <1>3, <2>1, <2>3, ToRest
  <2> QED
    BY <1>2, <1>5, <2>1, <2>4 DEF FieldsInv, Labels
<1> QED
  BY <1>6, <1>7

LEMMA DeleteCase1Step ==
  ASSUME FieldsInv, TreeInv, DeleteCase1
  PROVE  FieldsInv' /\ TreeInv'
<1>1. /\ pc = "delete1" /\ pc' = (IF parent[loc.n] = NULL THEN "unlink" ELSE "delete2")
      /\ UNCHANGED << root, key, value, color, link, parent, allocated, loc, rotation >>
  BY DEF DeleteCase1, At, Goto, tree
<1>2. PICK T, B, h : /\ T \subseteq allocated
                     /\ Fits("delete1", loc, color, key, T, root, link, parent, B, h)
  BY <1>1, AtPlace DEF Labels, Rotating
<1>3. Fits(pc', loc, color, key, T, root, link, parent, B, h)
  <2>1. CASE parent[loc.n] = NULL
    BY <1>1, <1>2, <2>1, FitsDeleteCase1Root
  <2>2. CASE parent[loc.n] # NULL
    BY <1>1, <1>2, <2>2, FitsDeleteCase1
  <2> QED
    BY <2>1, <2>2
<1>4. Fits(pc', loc', color', key', T, root', link', parent', B, h)
  BY <1>1, <1>3
<1>5. TreeInv'
  BY <1>1, <1>2, <1>4, ToRest
<1> QED
  BY <1>1, <1>5 DEF FieldsInv, Labels

\* The black short, its parent and its sibling, as the program names them
LEMMA ShortHere ==
  ASSUME TreeInv, pc \in {"delete2", "delete3", "delete6"}
  PROVE  \E T, B, h, n, p, d, o, s :
           /\ T \subseteq allocated
           /\ Fits(pc, loc, color, key, T, root, link, parent, B, h)
           /\ IsTree(T, root, link, parent, B)
           /\ DeleteInv(T, root, link, B, color, h, loc)
           /\ ShortNode(T, link, parent, B, color, h, loc, n, p, d, o, s)
           /\ loc.n = n /\ parent[loc.n] = p /\ DirOf(loc.n) = d /\ Sibling(loc.n) = s
           /\ Other(DirOf(loc.n)) = o
           /\ ColorIn(color, p) = color[p] /\ ColorIn(color, s) = color[s]
           /\ color[s] \in {"RED", "BLACK"} /\ color[p] \in {"RED", "BLACK"}
           /\ \A e \in Dirs : ColorIn(color, link[e][s]) \in {"RED", "BLACK"}
<1>1. PICK T, B, h : /\ T \subseteq allocated
                     /\ Fits(pc, loc, color, key, T, root, link, parent, B, h)
  BY AtPlace DEF Labels, Rotating
<1>2. /\ IsTree(T, root, link, parent, B) /\ DeleteInv(T, root, link, B, color, h, loc)
      /\ parent[loc.n] # NULL /\ color \in [Nodes -> {"RED", "BLACK"}]
  BY <1>1 DEF Fits, PlaceInv
<1>3. PICK n, p, d, o, s : ShortNode(T, link, parent, B, color, h, loc, n, p, d, o, s)
  BY <1>2, ShortHasSibling
<1>4. /\ n = loc.n /\ p = parent[n] /\ d = DirIn(link, parent, n) /\ o = Other(d)
      /\ s = link[o][p] /\ p \in T /\ s \in T
  BY <1>3, Zenon DEF ShortNode
<1>5. DirOf(loc.n) = d /\ Sibling(loc.n) = s
  BY <1>4, Names DEF Sibling
<1>6. T \subseteq Nodes /\ NULL \notin Nodes
  BY <1>1, InHand
<1>7. \A e \in Dirs : link[e][s] \in T \cup {NULL}
  BY <1>2, <1>4 DEF IsTree, IsLinked
<1>8. /\ ColorIn(color, p) = color[p] /\ ColorIn(color, s) = color[s]
      /\ color[s] \in {"RED", "BLACK"} /\ color[p] \in {"RED", "BLACK"}
  BY <1>2, <1>4, <1>6 DEF ColorIn
<1>9. \A e \in Dirs : ColorIn(color, link[e][s]) \in {"RED", "BLACK"}
  BY <1>2, <1>6, <1>7 DEF ColorIn
<1> QED
  BY <1>1, <1>2, <1>3, <1>4, <1>5, <1>8, <1>9, Zenon

LEMMA DeleteCase2Step ==
  ASSUME FieldsInv, TreeInv, DeleteCase2
  PROVE  FieldsInv' /\ TreeInv'
<1>1. /\ pc = "delete2"
      /\ UNCHANGED << root, key, value, link, parent, allocated, loc >>
  BY DEF DeleteCase2, At
<1>2. PICK T, B, h, n, p, d, o, s :
        /\ T \subseteq allocated
        /\ Fits("delete2", loc, color, key, T, root, link, parent, B, h)
        /\ IsTree(T, root, link, parent, B)
        /\ ShortNode(T, link, parent, B, color, h, loc, n, p, d, o, s)
        /\ loc.n = n /\ parent[loc.n] = p /\ DirOf(loc.n) = d /\ Sibling(loc.n) = s
        /\ Other(DirOf(loc.n)) = o /\ ColorIn(color, s) = color[s]
        /\ color[s] \in {"RED", "BLACK"}
  BY <1>1, ShortHere
<1>3. /\ o = Other(d) /\ s = link[o][p] /\ d = DirIn(link, parent, loc.n)
      /\ d \in Dirs /\ p \in T /\ s # NULL
  BY <1>2, Zenon DEF ShortNode
<1>4. CASE color[s] = "RED"
  <2>1. /\ color' = [color EXCEPT ![p] = "RED", ![s] = "BLACK"]
        /\ BeginRotation(d, p, "delete3")
    BY <1>2, <1>4, Names DEF DeleteCase2
  <2>2. PICK i : i = link[d][s]
    OBVIOUS
  <2>3. IsTurn(T, link, d, p, s, i)
    BY <1>3, <2>2 DEF IsTurn
  <2>4. PICK h2 : h2 = [h EXCEPT ![p] = h[s], ![s] = h[p]]
    OBVIOUS
  <2>5. Fits("delete3", loc, [color EXCEPT ![p] = "RED", ![s] = "BLACK"], key,
             T, TurnedRoot(root, p, s), TurnedLink(link, d, p, s, i),
             TurnedParent(parent, p, s, i), TurnedBelow(link, B, d, p, s, i), h2)
    BY <1>2, <1>4, <2>3, <2>4, FitsDeleteCase2Turn
  <2>6. Fits("delete3", loc', color', key',
             T, TurnedRoot(root, p, s), TurnedLink(link, d, p, s, i),
             TurnedParent(parent, p, s, i), TurnedBelow(link, B, d, p, s, i), h2)
    BY <1>1, <2>1, <2>5
  <2>7. "delete3" \in Resumed /\ T \subseteq allocated' /\ s = link[Other(d)][p]
    BY <1>1, <1>2, <1>3 DEF Resumed
  <2>8. TreeInv' /\ rotation' \in Rotations /\ pc' \in Labels
    BY <1>1, <1>2, <2>1, <2>3, <2>6, <2>7, ToTurn
  <2> QED
    BY <1>1, <2>8 DEF FieldsInv
<1>5. CASE color[s] # "RED"
  <2>1. pc' = "delete3" /\ color' = color /\ rotation' = rotation
    BY <1>2, <1>5, Names DEF DeleteCase2, Goto
  <2>2. ColorIn(color, link[Other(DirIn(link, parent, loc.n))][parent[loc.n]]) = "BLACK"
    BY <1>2, <1>3, <1>5
  <2>3. Fits("delete3", loc, color, key, T, root, link, parent, B, h)
    BY <1>2, <2>2, FitsDeleteCase2
  <2>4. Fits(pc', loc', color', key', T, root', link', parent', B, h)
    BY <1>1, <2>1, <2>3
  <2>5. TreeInv'
    BY <1>1, <1>2, <2>1, <2>4, ToRest
  <2> QED
    BY <1>1, <2>1, <2>5 DEF FieldsInv, Labels
<1> QED
  BY <1>4, <1>5

LEMMA DeleteCase3Step ==
  ASSUME FieldsInv, TreeInv, DeleteCase3
  PROVE  FieldsInv' /\ TreeInv'
<1>1. /\ pc = "delete3" /\ pc' = "delete1"
      /\ UNCHANGED << root, key, value, link, parent, allocated, rotation >>
  BY DEF DeleteCase3, At, Goto
<1>2. PICK T, B, h, n, p, d, o, s :
        /\ T \subseteq allocated
        /\ Fits("delete3", loc, color, key, T, root, link, parent, B, h)
        /\ ShortNode(T, link, parent, B, color, h, loc, n, p, d, o, s)
        /\ loc.n = n /\ parent[loc.n] = p /\ Sibling(loc.n) = s
        /\ ColorIn(color, p) = color[p]
  BY <1>1, ShortHere
<1>3. /\ color[p] = "BLACK" /\ \A e \in Dirs : ColorIn(color, link[e][s]) = "BLACK"
      /\ color' = [color EXCEPT ![s] = "RED"] /\ loc' = [loc EXCEPT !.n = p]
  BY <1>2, Names DEF DeleteCase3, SiblingIsBlack, Paint
<1>4. PICK h2 : h2 = [h EXCEPT ![s] = h[n], ![p] = h[s]]
  OBVIOUS
<1>5. Fits("delete1", [loc EXCEPT !.n = p], [color EXCEPT ![s] = "RED"], key, T, root,
           link, parent, B, h2)
  BY <1>2, <1>3, <1>4, FitsDeleteCase3
<1>6. Fits(pc', loc', color', key', T, root', link', parent', B, h2)
  BY <1>1, <1>3, <1>5
<1>7. TreeInv'
  BY <1>1, <1>2, <1>6, ToRest
<1>8. loc' \in Locals
  <2>1. p \in NodesOrNull
    BY <1>2, InHand, Zenon DEF ShortNode, NodesOrNull
  <2> QED
    BY <1>3, <2>1 DEF FieldsInv, Locals
<1> QED
  BY <1>1, <1>7, <1>8 DEF FieldsInv, Labels

LEMMA DeleteCase4Step ==
  ASSUME FieldsInv, TreeInv, DeleteCase4
  PROVE  FieldsInv' /\ TreeInv'
<1>1. /\ pc = "delete3" /\ pc' = "unlink"
      /\ UNCHANGED << root, key, value, link, parent, allocated, loc, rotation >>
  BY DEF DeleteCase4, At, Goto
<1>2. PICK T, B, h, n, p, d, o, s :
        /\ T \subseteq allocated
        /\ Fits("delete3", loc, color, key, T, root, link, parent, B, h)
        /\ ShortNode(T, link, parent, B, color, h, loc, n, p, d, o, s)
        /\ loc.n = n /\ parent[loc.n] = p /\ Sibling(loc.n) = s
        /\ ColorIn(color, p) = color[p]
  BY <1>1, ShortHere
<1>3. /\ color[p] = "RED" /\ \A e \in Dirs : ColorIn(color, link[e][s]) = "BLACK"
      /\ color' = [color EXCEPT ![s] = "RED", ![p] = "BLACK"]
  BY <1>2, Names DEF DeleteCase4, SiblingIsBlack
<1>4. PICK h2 : h2 = [h EXCEPT ![s] = h[n]]
  OBVIOUS
<1>5. Fits("unlink", loc, [color EXCEPT ![s] = "RED", ![p] = "BLACK"], key, T, root,
           link, parent, B, h2)
  BY <1>2, <1>3, <1>4, FitsDeleteCase4
<1>6. Fits(pc', loc', color', key', T, root', link', parent', B, h2)
  BY <1>1, <1>3, <1>5
<1>7. TreeInv'
  BY <1>1, <1>2, <1>6, ToRest
<1> QED
  BY <1>1, <1>7 DEF FieldsInv, Labels

LEMMA DeleteCase5Step ==
  ASSUME FieldsInv, TreeInv, DeleteCase5
  PROVE  FieldsInv' /\ TreeInv'
<1>1. /\ pc = "delete3" /\ ~SiblingIsBlack(loc.n)
      /\ UNCHANGED << root, key, value, link, parent, allocated, loc >>
  BY DEF DeleteCase5, At
<1>2. PICK T, B, h, n, p, d, o, s :
        /\ T \subseteq allocated
        /\ Fits("delete3", loc, color, key, T, root, link, parent, B, h)
        /\ IsTree(T, root, link, parent, B)
        /\ DeleteInv(T, root, link, B, color, h, loc)
        /\ ShortNode(T, link, parent, B, color, h, loc, n, p, d, o, s)
        /\ loc.n = n /\ DirOf(loc.n) = d /\ Sibling(loc.n) = s
        /\ Other(DirOf(loc.n)) = o /\ ColorIn(color, s) = color[s]
        /\ \A e \in Dirs : ColorIn(color, link[e][s]) \in {"RED", "BLACK"}
  BY <1>1, ShortHere
<1>3. /\ o = Other(d) /\ d = Other(o) /\ Dirs = {d, o} /\ s # NULL /\ s \in T
  BY <1>2, Zenon DEF ShortNode
<1>4. SiblingInv(link, parent, color, loc)
  BY <1>2 DEF Fits, PlaceInv
<1>5. color[s] = "BLACK"
  BY <1>2, <1>4, ShortColours
<1>6. OnlyInnerNephewIsRed(loc.n) <=> /\ ColorIn(color, link[d][s]) = "RED"
                                      /\ ColorIn(color, link[o][s]) = "BLACK"
  BY <1>2, <1>5, Names DEF OnlyInnerNephewIsRed
<1>7. ~ \A e \in Dirs : ColorIn(color, link[e][s]) = "BLACK"
  BY <1>1, <1>2, <1>5, Names DEF SiblingIsBlack
<1>8. CASE OnlyInnerNephewIsRed(loc.n)
  <2>1. PICK t, i : t = link[d][s] /\ i = link[o][t]
    OBVIOUS
  <2>2. /\ color' = [color EXCEPT ![s] = "RED", ![t] = "BLACK"]
        /\ BeginRotation(o, s, "delete6")
    BY <1>2, <1>8, <2>1 DEF DeleteCase5
  <2>3. /\ ColorIn(color, t) = "RED" /\ ColorIn(color, link[o][s]) = "BLACK"
        /\ t # NULL
    BY <1>6, <1>8, <2>1 DEF ColorIn
  <2>4. IsTurn(T, link, o, s, t, i) /\ t = link[Other(o)][s]
    BY <1>3, <2>1, <2>3 DEF IsTurn
  <2>5. PICK h2 : h2 = [h EXCEPT ![s] = h[t], ![t] = h[s]]
    OBVIOUS
  <2>6. Fits("delete6", loc, [color EXCEPT ![s] = "RED", ![t] = "BLACK"], key,
             T, TurnedRoot(root, s, t), TurnedLink(link, o, s, t, i),
             TurnedParent(parent, s, t, i), TurnedBelow(link, B, o, s, t, i), h2)
    BY <1>2, <2>3, <2>4, <2>5, FitsDeleteCase5Turn, ZenonT(40)
  <2>7. Fits("delete6", loc', color', key',
             T, TurnedRoot(root, s, t), TurnedLink(link, o, s, t, i),
             TurnedParent(parent, s, t, i), TurnedBelow(link, B, o, s, t, i), h2)
    BY <1>1, <2>2, <2>6
  <2>8. "delete6" \in Resumed /\ T \subseteq allocated'
    BY <1>1, <1>2 DEF Resumed
  <2>9. TreeInv' /\ rotation' \in Rotations /\ pc' \in Labels
    BY <1>1, <1>2, <2>2, <2>4, <2>7, <2>8, ToTurn
  <2> QED
    BY <1>1, <2>9 DEF FieldsInv
<1>9. CASE ~OnlyInnerNephewIsRed(loc.n)
  <2>1. pc' = "delete6" /\ color' = color /\ rotation' = rotation
    BY <1>9 DEF DeleteCase5, Goto
  <2>2. ColorIn(color, link[o][s]) = "RED"
    BY <1>2, <1>3, <1>6, <1>7, <1>9
  <2>3. Fits("delete6", loc, color, key, T, root, link, parent, B, h)
    BY <1>2, <2>2, FitsDeleteCase5
  <2>4. Fits(pc', loc', color', key', T, root', link', parent', B, h)
    BY <1>1, <2>1, <2>3
  <2>5. TreeInv'
    BY <1>1, <1>2, <2>1, <2>4, ToRest
  <2> QED
    BY <1>1, <2>1, <2>5 DEF FieldsInv, Labels
<1> QED
  BY <1>8, <1>9

LEMMA DeleteCase6Step ==
  ASSUME FieldsInv, TreeInv, DeleteCase6
  PROVE  FieldsInv' /\ TreeInv'
<1>1. /\ pc = "delete6"
      /\ UNCHANGED << root, key, value, link, parent, allocated, loc >>
  BY DEF DeleteCase6, At
<1>2. PICK T, B, h, n, p, d, o, s :
        /\ T \subseteq allocated
        /\ Fits("delete6", loc, color, key, T, root, link, parent, B, h)
        /\ IsTree(T, root, link, parent, B)
        /\ ShortNode(T, link, parent, B, color, h, loc, n, p, d, o, s)
        /\ loc.n = n /\ parent[loc.n] = p /\ DirOf(loc.n) = d /\ Sibling(loc.n) = s
        /\ Other(DirOf(loc.n)) = o
  BY <1>1, ShortHere
<1>3. /\ o = Other(d) /\ s = link[o][p] /\ d \in Dirs /\ p \in T /\ s # NULL
  BY <1>2, Zenon DEF ShortNode
<1>4. PICK q, i : q = link[o][s] /\ i = link[d][s]
  OBVIOUS
<1>5. /\ color' = [color EXCEPT ![s] = ColorIn(color, p), ![p] = "BLACK", ![q] = "BLACK"]
      /\ BeginRotation(d, p, "unlink")
  BY <1>2, <1>4, Names DEF DeleteCase6
<1>6. IsTurn(T, link, d, p, s, i)
  BY <1>3, <1>4 DEF IsTurn
<1>7. PICK h2 : h2 = [h EXCEPT ![p] = h[s], ![s] = h[p], ![q] = h[s]]
  OBVIOUS
<1>8. Fits("unlink", loc,
           [color EXCEPT ![s] = ColorIn(color, p), ![p] = "BLACK", ![q] = "BLACK"], key,
           T, TurnedRoot(root, p, s), TurnedLink(link, d, p, s, i),
           TurnedParent(parent, p, s, i), TurnedBelow(link, B, d, p, s, i), h2)
  BY <1>2, <1>4, <1>6, <1>7, FitsDeleteCase6, ZenonT(40)
<1>9. Fits("unlink", loc', color', key',
           T, TurnedRoot(root, p, s), TurnedLink(link, d, p, s, i),
           TurnedParent(parent, p, s, i), TurnedBelow(link, B, d, p, s, i), h2)
  BY <1>1, <1>5, <1>8
<1>10. "unlink" \in Resumed /\ T \subseteq allocated' /\ s = link[Other(d)][p]
  BY <1>1, <1>2, <1>3 DEF Resumed
<1>11. TreeInv' /\ rotation' \in Rotations /\ pc' \in Labels
  BY <1>1, <1>2, <1>5, <1>6, <1>9, <1>10, ToTurn
<1> QED
  BY <1>1, <1>11 DEF FieldsInv

LEMMA UnlinkStep ==
  ASSUME FieldsInv, TreeInv, Unlink
  PROVE  FieldsInv' /\ TreeInv'
<1>1. PICK g, q : g = loc.gone /\ q = loc.held
  OBVIOUS
<1>2. /\ pc = "unlink" /\ pc' = "idle" /\ loc' = NoLocals
      /\ key' = [key EXCEPT ![g] = AnyKey] /\ value' = [value EXCEPT ![g] = AnyTable]
      /\ allocated' = allocated \ {g} /\ rotation' = rotation
  BY <1>1 DEF Unlink, At, Return, Goto
<1>3. color' = [m \in Nodes |-> IF m = g THEN "RED"
                                ELSE IF m = q /\ parent[g] = NULL THEN "BLACK"
                                ELSE color[m]]
  BY <1>1 DEF Unlink
<1>4. /\ root' = SplicedRoot(root, parent, g, q)
      /\ link' = SplicedLink(link, parent, g, q)
      /\ parent' = SplicedParent(parent, g, q)
  BY <1>1, Names DEF Unlink, RootReplaced, LinkReplaced, ParentReplaced, SplicedRoot,
                     SplicedLink, SplicedParent
<1>5. PICK T, B, h : /\ T \subseteq allocated
                     /\ Fits("unlink", loc, color, key, T, root, link, parent, B, h)
  BY <1>2, AtPlace DEF Labels, Rotating
<1>6. PICK c2 : c2 = [m \in Nodes |-> IF m = g THEN "RED"
                                      ELSE IF m = q /\ parent[g] = NULL THEN "BLACK"
                                      ELSE color[m]]
  OBVIOUS
<1>7. PICK h2 : Fits("idle", NoLocals, c2, [key EXCEPT ![g] = AnyKey], T \ {g},
                     SplicedRoot(root, parent, g, q), SplicedLink(link, parent, g, q),
                     SplicedParent(parent, g, q), SplicedBelow(B, g), h2)
  BY <1>1, <1>5, <1>6, FitsUnlink
<1>8. PICK C : C = SplicedBelow(B, g)
  OBVIOUS
<1>9. Fits(pc', loc', color', key', T \ {g}, root', link', parent', C, h2)
  BY <1>2, <1>3, <1>4, <1>6, <1>7, <1>8
<1>10. T \ {g} \subseteq allocated'
  BY <1>2, <1>5
<1>11. TreeInv'
  BY <1>2, <1>9, <1>10, ToRest
<1>12. value' \in [Nodes -> TypeTables]
  <2>1. AnyTable \in TypeTables
    BY ConstantsAssumption DEF AnyTable
  <2> QED
    BY <1>2, <2>1 DEF FieldsInv
<1> QED
  BY <1>2, <1>10, <1>11, <1>12, NoLocalsTyped DEF FieldsInv, Labels

-----------------------------------------------------------------------------
(* The lookups *)

LEMMA DisturbKeepsFind ==
  ASSUME FindInv, Disturb
  PROVE  FindInv'
<1>1. ASSUME NEW l \in Lookups
      PROVE  /\ [l EXCEPT !.disturbed = TRUE] \in Lookups
             /\ [l EXCEPT !.disturbed = TRUE].result = l.result
  BY DEF Lookups
<1>2. \A r \in Readers : find[r] \in Lookups
  BY DEF FindInv
<1>3. \A r \in Readers : find'[r] \in Lookups /\ find'[r].result = find[r].result
  BY <1>1, <1>2 DEF Disturb
<1>4. find' = [r \in Readers |-> find'[r]]
  BY DEF Disturb
<1>5. find' \in [Readers -> Lookups]
  BY <1>3, <1>4
<1> QED
  BY <1>3, <1>5 DEF FindInv

LEMMA EveryWriterStepDisturbs ==
  ASSUME WriterStep \/ (\E o \in Objects : BeginInsert(o.addr, o.size, o.value))
                    \/ (\E a \in Addrs : BeginDelete(a))
  PROVE  Disturb
<1>1. CASE \E o \in Objects : BeginInsert(o.addr, o.size, o.value)
  BY <1>1 DEF BeginInsert, Goto
<1>2. CASE \E a \in Addrs : BeginDelete(a)
  BY <1>2 DEF BeginDelete, Goto
<1>3. CASE Rotate1 \/ Rotate2 \/ Rotate3
  BY <1>3 DEF Rotate1, Rotate2, Rotate3, Goto
<1>4. CASE InsertKnown \/ InsertWalk \/ InsertCase1 \/ InsertCase2 \/ InsertCase3
  BY <1>4 DEF InsertKnown, InsertWalk, InsertCase1, InsertCase2, InsertCase3, Goto, Return
<1>5. CASE InsertCase4 \/ InsertCase5
  BY <1>5 DEF InsertCase4, InsertCase5, Goto, BeginRotation
<1>6. CASE DeleteUnknown \/ DeleteWalk \/ DeleteMax \/ BeginUnlink \/ DeleteCase1
  BY <1>6 DEF DeleteUnknown, DeleteWalk, DeleteMax, BeginUnlink, DeleteCase1, Goto, Return
<1>7. CASE DeleteCase2 \/ DeleteCase3 \/ DeleteCase4 \/ DeleteCase5 \/ DeleteCase6
  BY <1>7 DEF DeleteCase2, DeleteCase3, DeleteCase4, DeleteCase5, DeleteCase6, Goto,
              BeginRotation
<1>8. CASE Unlink
  BY <1>8 DEF Unlink, Goto, Return
<1> QED
  BY <1>1, <1>2, <1>3, <1>4, <1>5, <1>6, <1>7, <1>8 DEF WriterStep

LEMMA OneLookup ==
  ASSUME FindInv, NEW r \in Readers, NEW l \in Lookups, find' = [find EXCEPT ![r] = l],
         \A e, f \in l.result : e = f
  PROVE  FindInv'
<1>1. find' \in [Readers -> Lookups]
  BY DEF FindInv
<1>2. \A s \in Readers : find'[s] = IF s = r THEN l ELSE find[s]
  BY DEF FindInv
<1> QED
  BY <1>1, <1>2 DEF FindInv

LEMMA LookupKeepsFind ==
  ASSUME FieldsInv, TreeInv, FindInv, NEW r \in Readers,
         LookupStep(r) \/ \E a \in Probed : BeginLookup(r, a)
  PROVE  FindInv'
<1>1. PICK T : T \subseteq allocated /\ Pointers(T, root, link, parent)
  BY TreeIsTyped
<1>2. /\ key \in [Nodes -> Keys] /\ value \in [Nodes -> TypeTables]
      /\ root \in NodesOrNull /\ link \in [Dirs -> [Nodes -> NodesOrNull]]
  BY <1>1, TreeIsTyped DEF FieldsInv, Pointers, NodesOrNull
<1>3. find[r] \in Lookups /\ find \in [Readers -> Lookups]
      /\ \A e, f \in find[r].result : e = f
  BY DEF FindInv
<1>4. ASSUME NEW a \in Probed, BeginLookup(r, a)
      PROVE  FindInv'
  <2>1. PICK b : b \in BOOLEAN /\ b = (pc # "idle")
    OBVIOUS
  <2>2. PICK l : l = [searching |-> TRUE, addr |-> a, node |-> root,
                      result |-> {}, disturbed |-> b]
    OBVIOUS
  <2>3. l \in Lookups /\ l.result = {}
    BY <1>2, <2>1, <2>2 DEF Lookups
  <2>4. find' = [find EXCEPT ![r] = l]
    BY <1>4, <2>1, <2>2, Zenon DEF BeginLookup
  <2> QED
    BY <2>3, <2>4, OneLookup
<1>5. ASSUME LookupStep(r)
      PROVE  FindInv'
  <2>1. PICK n : n = find[r].node
    OBVIOUS
  <2>2. n \in NodesOrNull
    BY <1>3, <2>1 DEF Lookups
  <2>3. CASE find' = [find EXCEPT ![r].searching = FALSE]
    <3>1. PICK l : l = [find[r] EXCEPT !.searching = FALSE]
      OBVIOUS
    <3>2. l \in Lookups /\ l.result = find[r].result
      BY <1>3, <3>1 DEF Lookups
    <3>3. find' = [find EXCEPT ![r] = l]
      BY <1>3, <2>3, <3>1, Zenon
    <3>4. \A e, f \in l.result : e = f
      BY <1>3, <3>2
    <3> QED
      BY <3>2, <3>3, <3>4, OneLookup
  <2>4. ASSUME NEW d \in Dirs, n # NULL, find' = [find EXCEPT ![r].node = link[d][n]]
        PROVE  FindInv'
    <3>1. PICK l : l = [find[r] EXCEPT !.node = link[d][n]]
      OBVIOUS
    <3>2. link[d][n] \in NodesOrNull
      BY <1>2, <2>2, <2>4 DEF NodesOrNull
    <3>3. l \in Lookups /\ l.result = find[r].result
      BY <1>3, <3>1, <3>2 DEF Lookups
    <3>4. find' = [find EXCEPT ![r] = l]
      BY <1>3, <2>4, <3>1, Zenon
    <3>5. \A e, f \in l.result : e = f
      BY <1>3, <3>3
    <3> QED
      BY <3>3, <3>4, <3>5, OneLookup
  <2>5. CASE n # NULL /\ find' = [find EXCEPT ![r].searching = FALSE, ![r].node = NULL,
                                              ![r].result = {EntryOf(n)}]
    <3>1. PICK l : l = [find[r] EXCEPT !.searching = FALSE, !.node = NULL,
                                       !.result = {EntryOf(n)}]
      OBVIOUS
    <3>2. EntryOf(n) \in Entries
      BY <1>2, <2>2, <2>5 DEF EntryOf, Entries, Keys, NodesOrNull
    <3>3. l \in Lookups /\ l.result = {EntryOf(n)}
      <4>1. PICK E : E = {EntryOf(n)}
        OBVIOUS
      <4>2. E \subseteq Entries /\ NULL \in NodesOrNull
        BY <3>2, <4>1 DEF NodesOrNull
      <4> QED
        BY <1>3, <3>1, <4>1, <4>2 DEF Lookups
    <3>4. find' = [find EXCEPT ![r] = l]
      <4>1. DOMAIN find = Readers
        BY <1>3
      <4> QED
        BY <2>5, <3>1, <4>1
    <3>5. \A e, f \in l.result : e = f
      BY <3>3
    <3> QED
      BY <3>3, <3>4, <3>5, OneLookup
  <2>6. "left" \in Dirs /\ "right" \in Dirs
    BY DEF Dirs
  <2> QED
    BY <1>5, <2>1, <2>3, <2>4, <2>5, <2>6, Zenon DEF LookupStep
<1> QED
  BY <1>4, <1>5

-----------------------------------------------------------------------------
(* The invariant is inductive *)

RbInv == FieldsInv /\ TreeInv /\ FindInv

LEMMA InitHasRbInv ==
  ASSUME Init
  PROVE  RbInv
<1>1. AnyTable \in TypeTables /\ AnyKey \in Keys /\ NULL \notin Nodes
  BY KeysExist, ConstantsAssumption DEF AnyTable
<1>2. FieldsInv
  BY <1>1, NoLocalsTyped DEF Init, FieldsInv, Labels, Rotations, Resumed, NoRotation, Dirs, NodesOrNull
<1>3. FindInv
  <2>1. PICK l : l = [searching |-> FALSE, addr |-> 0, node |-> NULL,
                      result |-> {}, disturbed |-> FALSE]
    OBVIOUS
  <2>2. l \in Lookups /\ l.result = {}
    BY <2>1 DEF Lookups, NodesOrNull
  <2>3. find = [r \in Readers |-> l]
    BY <2>1, Zenon DEF Init
  <2> QED
    BY <2>2, <2>3 DEF FindInv
<1>4. TreeInv
  <2>1. PICK B, h : /\ B = [n \in Nodes |-> {}] /\ h = [n \in NodesOrNull |-> 1]
    OBVIOUS
  <2>2. /\ link \in [Dirs -> [Nodes -> NodesOrNull]] /\ parent \in [Nodes -> NodesOrNull]
        /\ \A n \in Nodes : parent[n] = NULL /\ \A d \in Dirs : link[d][n] = NULL
    BY DEF Init, NodesOrNull
  <2>3. IsTree({}, root, link, parent, B)
    <3>1. IsLinked({}, root, link, parent)
      BY <2>2 DEF Init, IsLinked
    <3>2. IsBelow({}, root, link, parent, B)
      BY <2>1 DEF Init, IsBelow
    <3> QED
      BY <3>1, <3>2 DEF IsTree
  <2>4. PlaceInv("idle", loc, {}, root, link, parent, B, h, color, key)
    <3>1. SettledInv({}, root, link, color, h, loc)
      BY <2>1 DEF Init, NoLocals, SettledInv, IsBalanced, NoRedPairs, RootIsBlack, ColorIn,
                  NodesOrNull
    <3> QED
      BY <3>1 DEF PlaceInv, Labels, Rotating, Settled
  <2>5. Fits(pc, loc, color, key, {}, root, link, parent, B, h)
    <3>1. /\ key \in [Nodes -> Keys] /\ color \in [Nodes -> {"RED", "BLACK"}]
          /\ loc.gone = NULL
      BY <1>1 DEF Init, NoLocals
    <3>2. pc = "idle"
      BY DEF Init
    <3> QED
      BY <2>3, <2>4, <3>1, <3>2 DEF Fits, IsOrdered
  <2>6. Resting(pc, loc, color, key, root, link, parent, {})
    BY <2>5 DEF Init, Resting, Rotating
  <2> QED
    BY <2>6 DEF Init, TreeInv
<1> QED
  BY <1>2, <1>3, <1>4 DEF RbInv

LEMMA WriterKeepsTree ==
  ASSUME FieldsInv, TreeInv, WriterStep
  PROVE  FieldsInv' /\ TreeInv'
BY Rotate1Step, Rotate2Step, Rotate3Step, InsertKnownStep, InsertWalkStep,
   InsertCase1Step, InsertCase2Step, InsertCase3Step, InsertCase4Step, InsertCase5Step,
   DeleteUnknownStep, DeleteWalkStep, DeleteMaxStep, BeginUnlinkStep, DeleteCase1Step,
   DeleteCase2Step, DeleteCase3Step, DeleteCase4Step, DeleteCase5Step, DeleteCase6Step,
   UnlinkStep
DEF WriterStep

LEMMA NextKeepsRbInv ==
  ASSUME RbInv, [Next]_vars
  PROVE  RbInv'
<1>1. FieldsInv /\ TreeInv /\ FindInv
  BY DEF RbInv
<1>2. CASE WriterStep
  BY <1>1, <1>2, WriterKeepsTree, EveryWriterStepDisturbs, DisturbKeepsFind DEF RbInv
<1>3. CASE \E o \in Objects : BeginInsert(o.addr, o.size, o.value)
  BY <1>1, <1>3, BeginInsertStep, EveryWriterStepDisturbs, DisturbKeepsFind DEF RbInv
<1>4. CASE \E a \in Addrs : BeginDelete(a)
  BY <1>1, <1>4, BeginDeleteStep, EveryWriterStepDisturbs, DisturbKeepsFind DEF RbInv
<1>5. ASSUME UNCHANGED << tree, pc, loc, rotation >>
      PROVE  FieldsInv' /\ TreeInv'
  BY <1>1, <1>5 DEF FieldsInv, TreeInv, tree
<1>6. CASE \E r \in Readers : LookupStep(r) \/ \E a \in Probed : BeginLookup(r, a)
  <2>1. UNCHANGED << tree, pc, loc, rotation >>
    BY <1>6 DEF LookupStep, BeginLookup
  <2>2. FindInv'
    BY <1>1, <1>6, LookupKeepsFind
  <2> QED
    BY <1>5, <2>1, <2>2 DEF RbInv
<1>7. CASE UNCHANGED vars
  <2>1. UNCHANGED << tree, pc, loc, rotation >> /\ find' = find
    BY <1>7 DEF vars
  <2> QED
    BY <1>1, <1>5, <2>1 DEF RbInv, FindInv
<1> QED
  BY <1>2, <1>3, <1>4, <1>6, <1>7 DEF Next

-----------------------------------------------------------------------------
(* The nodes under others *)

\* The sets that Under builds
IsReach(f, S, N) ==
  f = [i \in 0 .. N |-> IF i = 0 THEN S \ {NULL} ELSE Below(f[i - 1])]

\* exist,
LEMMA ReachExists ==
  ASSUME link \in [Dirs -> [Nodes -> NodesOrNull]], NEW S \in SUBSET NodesOrNull,
         NEW N \in Nat
  PROVE  \E f : IsReach(f, S, N)
<1> DEFINE Reaches(n, f) ==
             /\ f \in [0 .. n -> SUBSET Nodes]
             /\ \A k \in 0 .. n : f[k] = IF k = 0 THEN S \ {NULL} ELSE Below(f[k - 1])
           I == {n \in Nat : \E f : Reaches(n, f)}
<1>1. S \ {NULL} \subseteq Nodes /\ \A U \in SUBSET Nodes : Below(U) \subseteq Nodes
  BY DEF NodesOrNull, Below
<1>2. 0 \in I
  <2>1. PICK f : f = [k \in 0 .. 0 |-> S \ {NULL}]
    OBVIOUS
  <2>2. Reaches(0, f)
    BY <1>1, <2>1
  <2> QED
    BY <2>2
<1>3. ASSUME NEW n \in Nat, n \in I PROVE n + 1 \in I
  <2>1. PICK f : Reaches(n, f)
    BY <1>3
  <2> DEFINE g == [k \in 0 .. n + 1 |-> IF k = 0 THEN S \ {NULL} ELSE Below(f[k - 1])]
  <2>2. \A k \in 1 .. n + 1 : k - 1 \in 0 .. n /\ f[k - 1] \in SUBSET Nodes
    BY <2>1
  <2>3. \A k \in 0 .. n + 1 : g[k] = IF k = 0 THEN S \ {NULL} ELSE Below(f[k - 1])
    OBVIOUS
  <2>4. g \in [0 .. n + 1 -> SUBSET Nodes]
    BY <1>1, <2>2
  <2> HIDE DEF g
  <2>5. ASSUME NEW k \in 0 .. n PROVE g[k] = f[k]
    <3>1. k \in 0 .. n + 1
      OBVIOUS
    <3>2. g[k] = IF k = 0 THEN S \ {NULL} ELSE Below(f[k - 1])
      BY <2>3, <3>1
    <3>3. f[k] = IF k = 0 THEN S \ {NULL} ELSE Below(f[k - 1])
      BY <2>1
    <3> QED
      BY <3>2, <3>3
  <2>6. \A k \in 0 .. n + 1 : g[k] = IF k = 0 THEN S \ {NULL} ELSE Below(g[k - 1])
    BY <2>2, <2>3, <2>5
  <2>7. Reaches(n + 1, g)
    BY <2>4, <2>6
  <2>8. \E e : Reaches(n + 1, e)
    <3> HIDE DEF Reaches
    <3> QED
      BY <2>7
  <2> HIDE DEF Reaches
  <2> QED
    BY <2>8
<1>4. N \in I
  <2> HIDE DEF I
  <2> QED
    BY <1>2, <1>3, Induction
<1>5. PICK f : Reaches(N, f)
  BY <1>4
<1>6. f = [k \in 0 .. N |-> IF k = 0 THEN S \ {NULL} ELSE Below(f[k - 1])]
  BY <1>5
<1> QED
  BY <1>6 DEF IsReach

\* and what Under builds stays within every set that has the children of its
\* members.
LEMMA UnderIsLeast ==
  ASSUME link \in [Dirs -> [Nodes -> NodesOrNull]], NEW S \in SUBSET NodesOrNull,
         NEW X \in SUBSET Nodes, S \ {NULL} \subseteq X,
         \A n \in X, d \in Dirs : link[d][n] # NULL => link[d][n] \in X
  PROVE  Under(S) \subseteq X
<1> DEFINE N == Cardinality(Nodes)
           reach == CHOOSE f : f = [i \in 0 .. N |->
                                      IF i = 0 THEN S \ {NULL} ELSE Below(f[i - 1])]
<1>1. N \in Nat
  BY ConstantsAssumption, FS_CardinalityType
<1>2. Under(S) = reach[N]
  BY DEF Under
<1> HIDE DEF N
<1>3. reach = [i \in 0 .. N |-> IF i = 0 THEN S \ {NULL} ELSE Below(reach[i - 1])]
  <2>1. PICK f : IsReach(f, S, N)
    BY <1>1, ReachExists
  <2>2. f = [i \in 0 .. N |-> IF i = 0 THEN S \ {NULL} ELSE Below(f[i - 1])]
    BY <2>1 DEF IsReach
  <2> QED
    BY <2>2
<1> HIDE DEF reach
<1>4. \A U : U \subseteq X => Below(U) \subseteq X
  BY DEF Below
<1> DEFINE I == {n \in Nat : n <= N => reach[n] \subseteq X}
<1>5. 0 \in I
  BY <1>1, <1>3
<1>6. ASSUME NEW n \in Nat, n \in I PROVE n + 1 \in I
  <2> SUFFICES ASSUME n + 1 <= N PROVE reach[n + 1] \subseteq X
    OBVIOUS
  <2>1. n + 1 \in 0 .. N /\ n + 1 # 0 /\ (n + 1) - 1 = n /\ reach[n] \subseteq X
    BY <1>1, <1>6
  <2>2. reach[n + 1] = Below(reach[n])
    BY <1>3, <2>1
  <2> QED
    BY <1>4, <2>1, <2>2
<1>7. N \in I
  <2> HIDE DEF I
  <2> QED
    BY <1>1, <1>5, <1>6, Induction
<1> QED
  BY <1>1, <1>2, <1>7

-----------------------------------------------------------------------------
(* Black heights *)

LEMMA BlackHeightIs ==
  ASSUME NEW T, NEW B, NEW h, IsTree(T, root, link, parent, B),
         color \in [Nodes -> {"RED", "BLACK"}],
         IsBalanced(T, link, color, h, NULL, NULL), NoRedPairs(T, link, color, NULL, NULL)
  PROVE  \A n \in T \cup {NULL} : BlackHeight[n] = h[n]
<1> DEFINE Black(n) == IF color[n] = "BLACK" THEN 1 ELSE 0
<1>1. /\ T \subseteq Nodes /\ NULL \notin Nodes /\ "left" \in Dirs
      /\ \A n \in T, d \in Dirs : link[d][n] \in T \cup {NULL}
      /\ \A n \in Nodes \ T, d \in Dirs : link[d][n] = NULL
      /\ \A n \in Nodes : Black(n) \in Nat
  BY Children DEF IsTree, IsLinked, Dirs
<1>2. /\ h[NULL] = 1 /\ \A n \in T \cup {NULL} : h[n] \in Nat \ {0}
      /\ \A n \in T, d \in Dirs : h[n] = h[link[d][n]] + Black(n)
  <2>1. \A n \in T \cup {NULL} : n \in NodesOrNull
    BY <1>1 DEF NodesOrNull
  <2>2. \A n \in T, d \in Dirs :
          h[n] = h[link[d][n]] + Lack(link[d][n], NULL) + Blacks(color, n, NULL)
    BY DEF IsBalanced
  <2>3. \A n \in T : Blacks(color, n, NULL) = Black(n)
    BY <1>1 DEF Blacks
  <2>4. \A n : Lack(n, NULL) = 0
    BY DEF Lack
  <2>5. h[NULL] = 1 /\ \A n \in T \cup {NULL} : h[n] \in Nat \ {0}
    BY <2>1 DEF IsBalanced
  <2> QED
    BY <1>1, <2>2, <2>3, <2>4, <2>5
<1>3. \E f : f = [n \in NodesOrNull |-> IF n = NULL THEN 1
                                        ELSE f[link["left"][n]] + Black(n)]
  <2> DEFINE f == [n \in NodesOrNull |-> IF n = NULL THEN 1
                                         ELSE IF n \in T THEN h[n] ELSE 1 + Black(n)]
  <2>1. \A n \in T \cup {NULL} : f[n] = h[n]
    BY <1>1, <1>2 DEF NodesOrNull
  <2>2. ASSUME NEW n \in Nodes
        PROVE  f[n] = f[link["left"][n]] + Black(n)
    <3>1. CASE n \in T
      BY <1>1, <1>2, <2>1, <3>1
    <3>2. CASE n \notin T
      <4>1. f[n] = 1 + Black(n) /\ f[link["left"][n]] = 1
        BY <1>1, <1>2, <2>1, <3>2 DEF NodesOrNull
      <4> QED
        BY <4>1
    <3> QED
      BY <3>1, <3>2
  <2>3. f = [n \in NodesOrNull |-> IF n = NULL THEN 1 ELSE f[n]]
    BY <1>1 DEF NodesOrNull
  <2>4. f = [n \in NodesOrNull |-> IF n = NULL THEN 1
                                   ELSE f[link["left"][n]] + Black(n)]
    <3> HIDE DEF f
    <3> QED
      BY <2>2, <2>3 DEF NodesOrNull
  <2> QED
    BY <2>4
<1>4. BlackHeight = [n \in NodesOrNull |-> IF n = NULL THEN 1
                                           ELSE BlackHeight[link["left"][n]] + Black(n)]
  BY <1>3 DEF BlackHeight
<1>5. /\ BlackHeight[NULL] = 1
      /\ \A n \in T : BlackHeight[n] = BlackHeight[link["left"][n]] + Black(n)
  <2>1. NULL \in NodesOrNull /\ \A n \in T : n \in NodesOrNull /\ n # NULL
    BY <1>1 DEF NodesOrNull
  <2> QED
    BY <1>4, <2>1
<1> DEFINE Rank(n) == 2 * h[n] + (IF color[n] = "RED" THEN 1 ELSE 0)
           I == {k \in Nat : \A n \in T : Rank(n) < k => BlackHeight[n] = h[n]}
<1>6. \A n \in T : Rank(n) \in Nat
  BY <1>2
<1>7. 0 \in I
  BY <1>6
<1>8. ASSUME NEW n \in T, NEW m \in T, m = link["left"][n]
      PROVE  Rank(m) < Rank(n)
  <2>1. h[n] = h[m] + Black(n) /\ h[n] \in Nat /\ h[m] \in Nat
    BY <1>1, <1>2, <1>8
  <2>2. color[n] = "RED" => color[m] = "BLACK"
    BY <1>1, <1>8 DEF NoRedPairs, ColorIn
  <2>3. color[n] \in {"RED", "BLACK"} /\ color[m] \in {"RED", "BLACK"}
    BY <1>1
  <2> QED
    BY <2>1, <2>2, <2>3
<1>9. ASSUME NEW k \in Nat, k \in I PROVE k + 1 \in I
  <2> SUFFICES ASSUME NEW n \in T, Rank(n) < k + 1 PROVE BlackHeight[n] = h[n]
    OBVIOUS
  <2>1. PICK m : m = link["left"][n] /\ m \in T \cup {NULL}
    BY <1>1
  <2>2. BlackHeight[m] = h[m]
    <3>1. CASE m = NULL
      BY <1>2, <1>5, <3>1
    <3>2. CASE m \in T
      <4>1. Rank(m) < Rank(n) /\ Rank(m) \in Nat /\ Rank(n) \in Nat
        BY <1>6, <1>8, <2>1, <3>2
      <4>2. Rank(m) < k
        <5> HIDE DEF Rank
        <5> QED
          BY <4>1
      <4> QED
        BY <1>9, <3>2, <4>2
    <3> QED
      BY <2>1, <3>1, <3>2
  <2> QED
    BY <1>1, <1>2, <1>5, <2>1, <2>2
<1>10. Nat \subseteq I
  <2> HIDE DEF I
  <2> QED
    BY <1>7, <1>9, Induction
<1>11. ASSUME NEW n \in T PROVE BlackHeight[n] = h[n]
  <2>1. Rank(n) + 1 \in Nat /\ Rank(n) < Rank(n) + 1
    BY <1>6
  <2>2. Rank(n) + 1 \in I
    BY <1>10, <2>1
  <2> QED
    BY <2>1, <2>2
<1> QED
  BY <1>2, <1>5, <1>11

-----------------------------------------------------------------------------
(* The properties *)

LEMMA TypeOKHolds ==
  ASSUME RbInv
  PROVE  TypeOK
<1>1. FieldsInv /\ TreeInv /\ FindInv
  BY DEF RbInv
<1>2. PICK T : T \subseteq allocated /\ Pointers(T, root, link, parent)
  BY <1>1, TreeIsTyped
<1>3. key \in [Nodes -> Keys] /\ color \in [Nodes -> {"RED", "BLACK"}]
  BY <1>1, TreeIsTyped
<1>4. /\ root \in T \cup {NULL} /\ T \subseteq Nodes
      /\ link \in [Dirs -> [Nodes -> NodesOrNull]] /\ parent \in [Nodes -> NodesOrNull]
      /\ \A n \in Nodes : parent[n] \in T \cup {NULL}
      /\ \A n \in Nodes, d \in Dirs : link[d][n] \in T \cup {NULL}
      /\ allocated \subseteq Nodes
  BY <1>1, <1>2 DEF Pointers, FieldsInv
<1>5. {root} \cup UNION {{parent[n], link["left"][n], link["right"][n]} : n \in allocated}
        \subseteq allocated \cup {NULL}
  <2>1. \A n \in allocated : /\ parent[n] \in allocated \cup {NULL}
                             /\ link["left"][n] \in allocated \cup {NULL}
                             /\ link["right"][n] \in allocated \cup {NULL}
    BY <1>2, <1>4 DEF Dirs
  <2>2. root \in allocated \cup {NULL}
    BY <1>2, <1>4
  <2> QED
    BY <2>1, <2>2
<1>6. root \in NodesOrNull
  BY <1>4 DEF NodesOrNull
<1>7. /\ value \in [Nodes -> TypeTables] /\ pc \in Labels
      /\ loc \in [n : NodesOrNull, held : NodesOrNull, gone : NodesOrNull,
                  addr : Addrs \cup {0}]
  BY <1>1 DEF FieldsInv, Locals
<1>8. rotation \in [dir : Dirs, node : NodesOrNull, up : NodesOrNull, next : Labels]
  <2>1. rotation \in Rotations /\ Resumed \subseteq Labels
    BY <1>1 DEF FieldsInv, Resumed, Labels
  <2> QED
    BY <2>1 DEF Rotations
<1>9. ASSUME NEW r \in Readers
      PROVE  /\ find[r].searching \in BOOLEAN /\ find[r].disturbed \in BOOLEAN
             /\ find[r].addr \in Probed \cup {0} /\ find[r].node \in NodesOrNull
             /\ Cardinality(find[r].result) <= 1
  <2>1. find[r] \in Lookups /\ \A e, f \in find[r].result : e = f
    BY <1>1 DEF FindInv
  <2>2. find[r].searching \in BOOLEAN /\ find[r].disturbed \in BOOLEAN
    BY <2>1, Zenon DEF Lookups
  <2>3. find[r].addr \in Probed \cup {0} /\ find[r].node \in NodesOrNull
    BY <2>1 DEF Lookups
  <2>4. Cardinality(find[r].result) <= 1
    <3>1. CASE find[r].result = {}
      BY <3>1, FS_EmptySet
    <3>2. CASE find[r].result # {}
      <4>1. PICK e : e \in find[r].result
        BY <3>2
      <4>2. find[r].result = {e}
        BY <2>1, <4>1
      <4>3. Cardinality({e}) = 1
        BY FS_Singleton
      <4> QED
        BY <4>2, <4>3
    <3> QED
      BY <3>1, <3>2
  <2> QED
    BY <2>2, <2>3, <2>4
<1> QED
  BY <1>3, <1>4, <1>5, <1>6, <1>7, <1>8, <1>9 DEF TypeOK

\* The tree between operations
LEMMA Idle ==
  ASSUME RbInv, pc = "idle"
  PROVE  \E T, B, h : /\ IsTree(T, root, link, parent, B)
                      /\ color \in [Nodes -> {"RED", "BLACK"}]
                      /\ IsOrdered(T, link, B, key, NULL)
                      /\ SettledInv(T, root, link, color, h, loc)
                      /\ Under({root}) \subseteq T
<1>1. PICK T, B, h : Fits("idle", loc, color, key, T, root, link, parent, B, h)
  BY AtPlace DEF RbInv, Labels, Rotating
<1>2. /\ IsTree(T, root, link, parent, B) /\ color \in [Nodes -> {"RED", "BLACK"}]
      /\ IsOrdered(T, link, B, key, loc.gone)
      /\ SettledInv(T, root, link, color, h, loc)
  BY <1>1 DEF Fits, PlaceInv, Settled, OrderGone
<1>3. loc.gone = NULL
  BY <1>2 DEF SettledInv
<1>4. Under({root}) \subseteq T
  <2>1. /\ link \in [Dirs -> [Nodes -> NodesOrNull]] /\ T \subseteq Nodes
        /\ root \in T \cup {NULL} /\ {root} \subseteq NodesOrNull
    BY <1>2 DEF IsTree, IsLinked, NodesOrNull
  <2>2. \A n \in T, d \in Dirs : link[d][n] # NULL => link[d][n] \in T
    BY <1>2, Children
  <2>3. {root} \ {NULL} \subseteq T
    BY <2>1
  <2> QED
    BY <2>1, <2>2, <2>3, UnderIsLeast
<1> QED
  BY <1>2, <1>3, <1>4

LEMMA VerifyPropertiesHold ==
  ASSUME RbInv
  PROVE  VerifyProperties
<1> SUFFICES ASSUME pc = "idle"
             PROVE  /\ NodeColor(root) = "BLACK"
                    /\ \A n \in Under({root}) :
                         /\ color[n] = "RED" =>
                              \A d \in Dirs : NodeColor(link[d][n]) = "BLACK"
                         /\ BlackHeight[link["left"][n]] = BlackHeight[link["right"][n]]
  BY DEF VerifyProperties
<1>1. PICK T, B, h : /\ IsTree(T, root, link, parent, B)
                     /\ color \in [Nodes -> {"RED", "BLACK"}]
                     /\ SettledInv(T, root, link, color, h, loc)
                     /\ Under({root}) \subseteq T
  BY Idle
<1>2. /\ IsBalanced(T, link, color, h, NULL, NULL)
      /\ NoRedPairs(T, link, color, NULL, NULL) /\ RootIsBlack(root, color, NULL)
  BY <1>1 DEF SettledInv
<1>3. /\ NULL \notin T /\ "left" \in Dirs /\ "right" \in Dirs
      /\ \A n \in T, d \in Dirs : link[d][n] \in T \cup {NULL}
  BY <1>1, Children DEF Dirs
<1>4. NodeColor(root) = "BLACK"
  BY <1>2, Names DEF RootIsBlack, ColorIn
<1>5. ASSUME NEW n \in T, color[n] = "RED", NEW d \in Dirs
      PROVE  NodeColor(link[d][n]) = "BLACK"
  BY <1>2, <1>3, <1>5, Names DEF NoRedPairs, ColorIn
<1>6. ASSUME NEW n \in T
      PROVE  BlackHeight[link["left"][n]] = BlackHeight[link["right"][n]]
  <2>1. \A m \in T \cup {NULL} : BlackHeight[m] = h[m]
    BY <1>1, <1>2, BlackHeightIs
  <2>2. PICK a, b : a = link["left"][n] /\ b = link["right"][n]
    OBVIOUS
  <2>3. a \in T \cup {NULL} /\ b \in T \cup {NULL}
    BY <1>3, <2>2
  <2>4. h[a] = h[b]
    <3>1. /\ h \in [NodesOrNull -> Nat \ {0}]
          /\ \A d \in Dirs : h[n] = h[link[d][n]] + Blacks(color, n, NULL)
      BY <1>1, <1>2, EvenBalance
    <3>2. /\ h[n] = h[a] + Blacks(color, n, NULL) /\ h[n] = h[b] + Blacks(color, n, NULL)
      BY <1>3, <2>2, <3>1
    <3>3. h[a] \in Nat /\ h[b] \in Nat /\ Blacks(color, n, NULL) \in Nat
      BY <1>1, <2>3, <3>1, Heights DEF Blacks
    <3> QED
      BY <3>2, <3>3
  <2> QED
    BY <2>1, <2>2, <2>3, <2>4
<1> QED
  BY <1>1, <1>4, <1>5, <1>6

LEMMA WellLinkedHolds ==
  ASSUME RbInv
  PROVE  WellLinked
<1> SUFFICES ASSUME pc = "idle"
             PROVE  /\ root # NULL => parent[root] = NULL
                    /\ \A n \in Under({root}) : \A d \in Dirs :
                         /\ link[d][n] # NULL => parent[link[d][n]] = n
                         /\ \A m \in Under({link[d][n]}) :
                              IF d = "left" THEN key[m].addr < key[n].addr
                                            ELSE key[m].addr > key[n].addr
  BY DEF WellLinked
<1>1. PICK T, B : /\ IsTree(T, root, link, parent, B)
                  /\ IsOrdered(T, link, B, key, NULL)
                  /\ Under({root}) \subseteq T
  BY Idle
<1>2. root # NULL => parent[root] = NULL
  BY <1>1, Children
<1>3. ASSUME NEW n \in T, NEW d \in Dirs, link[d][n] # NULL
      PROVE  parent[link[d][n]] = n
  BY <1>1, <1>3, Children
<1>4. ASSUME NEW n \in T, NEW d \in Dirs, NEW m \in Under({link[d][n]})
      PROVE  Beside(d, key[m].addr, key[n].addr)
  <2>1. PICK q : q = link[d][n]
    OBVIOUS
  <2>2. /\ link \in [Dirs -> [Nodes -> NodesOrNull]] /\ T \subseteq Nodes
        /\ NULL \notin T /\ q \in T \cup {NULL}
    BY <1>1, <2>1, Children DEF IsTree, IsLinked
  <2>3. {q} \subseteq NodesOrNull
    BY <2>2 DEF NodesOrNull
  <2>4. q # NULL
    <3> SUFFICES ASSUME q = NULL PROVE FALSE
      OBVIOUS
    <3>1. {q} \ {NULL} \subseteq {} /\ {} \subseteq Nodes
      OBVIOUS
    <3>2. Under({q}) \subseteq {}
      BY <2>2, <2>3, <3>1, UnderIsLeast
    <3> QED
      BY <1>4, <2>1, <3>2
  <2>5. m \in B[q]
    <3>1. /\ q \in T /\ q \in B[q] /\ B[q] \subseteq T
      BY <1>1, <2>2, <2>4, Descendants
    <3>2. \A k \in B[q], e \in Dirs : link[e][k] # NULL => link[e][k] \in B[q]
      <4> SUFFICES ASSUME NEW k \in B[q], NEW e \in Dirs, link[e][k] # NULL
                   PROVE  link[e][k] \in B[q]
        OBVIOUS
      <4>1. k \in T /\ B[k] \subseteq B[q]
        BY <1>1, <3>1, Descendants
      <4>2. link[e][k] \in B[link[e][k]] /\ B[link[e][k]] \subseteq B[k]
        BY <1>1, <4>1, Descendants
      <4> QED
        BY <4>1, <4>2
    <3>3. {q} \ {NULL} \subseteq B[q] /\ B[q] \subseteq Nodes
      BY <2>2, <3>1
    <3>4. Under({q}) \subseteq B[q]
      BY <2>2, <2>3, <3>2, <3>3, UnderIsLeast
    <3> QED
      BY <1>4, <2>1, <3>4
  <2>6. m # NULL /\ n # NULL
    BY <1>1, <2>1, <2>2, <2>4, <2>5, Descendants
  <2> QED
    BY <1>1, <2>1, <2>4, <2>5, <2>6 DEF IsOrdered
<1> QED
  BY <1>1, <1>2, <1>3, <1>4 DEF Beside

LEMMA AssertionsAreTrue ==
  ASSUME RbInv
  PROVE  AssertionsHold
<1>1. FieldsInv /\ TreeInv
  BY DEF RbInv
<1>2. ASSUME pc = "insert1", parent[loc.n] # NULL, NodeColor(parent[loc.n]) = "RED"
      PROVE  Grandparent(loc.n) # NULL
  BY <1>1, <1>2, RedParentHere
<1>3. ASSUME pc = "insert5"
      PROVE  DirOf(loc.n) = DirOf(parent[loc.n])
  <2>1. PICK T, B, h : Fits("insert5", loc, color, key, T, root, link, parent, B, h)
    BY <1>1, <1>3, AtPlace DEF Labels, Rotating
  <2>2. /\ IsTree(T, root, link, parent, B) /\ InsertInv(T, root, link, color, h, loc)
        /\ Insert5Inv(T, link, parent, color, loc)
        /\ color \in [Nodes -> {"RED", "BLACK"}]
    BY <2>1 DEF Fits, PlaceInv
  <2>3. PICK n, p, g : n = loc.n /\ p = parent[n] /\ g = parent[p]
    OBVIOUS
  <2>4. n \in T /\ p \in T /\ g \in T /\ p # NULL /\ n # NULL
    <3>1. parent[loc.n] # NULL /\ color[parent[loc.n]] = "RED" /\ n \in T
      BY <2>2, <2>3 DEF Insert5Inv, InsertInv
    <3> QED
      BY <2>2, <2>3, <3>1, RedParent, Children
  <2>5. PICK e \in Dirs : link[e][g] = p /\ link[e][p] = n
    BY <2>2, <2>3, Zenon DEF Insert5Inv
  <2>6. DirIn(link, parent, n) = e /\ DirIn(link, parent, p) = e
    BY <2>2, <2>4, <2>5, SideOf
  <2> QED
    BY <2>3, <2>6, Names
<1>4. ASSUME pc = "delete0"
      PROVE  \E d \in Dirs : link[d][loc.n] = NULL
  <2>1. PICK T, B, h : Fits("delete0", loc, color, key, T, root, link, parent, B, h)
    BY <1>1, <1>4, AtPlace DEF Labels, Rotating
  <2> QED
    BY <2>1 DEF Fits, PlaceInv
<1>5. ASSUME pc \in {"delete2", "delete3"}
      PROVE  Sibling(loc.n) # NULL
  BY <1>1, <1>5, ShortHere DEF ShortNode
<1>6. ASSUME pc = "delete6"
      PROVE  NodeColor(link[Other(DirOf(loc.n))][Sibling(loc.n)]) = "RED"
  <2>1. PICK T, B, h, n, p, d, o, s :
          /\ Fits("delete6", loc, color, key, T, root, link, parent, B, h)
          /\ ShortNode(T, link, parent, B, color, h, loc, n, p, d, o, s)
          /\ Sibling(loc.n) = s /\ Other(DirOf(loc.n)) = o
    BY <1>1, <1>6, ShortHere
  <2>2. /\ n = loc.n /\ p = parent[n] /\ o = Other(d) /\ s = link[o][p] /\ d \in Dirs
        /\ link[d][p] = n
    BY <2>1, Zenon DEF ShortNode
  <2>3. NephewInv(link, parent, color, loc)
    BY <2>1 DEF Fits, PlaceInv
  <2>4. ColorIn(color, link[o][s]) = "RED"
    BY <2>2, <2>3 DEF NephewInv
  <2> QED
    BY <2>1, <2>4, Names
<1> QED
  BY <1>2, <1>3, <1>4, <1>5, <1>6 DEF AssertionsHold

-----------------------------------------------------------------------------
(* The theorems *)

LEMMA InvariantHolds == Spec => []RbInv
<1>1. Init => RbInv
  BY InitHasRbInv
<1>2. RbInv /\ [Next]_vars => RbInv'
  BY NextKeepsRbInv
<1> QED
  BY <1>1, <1>2, PTL DEF Spec

\* No pointer of the tree, of the writer or of a lookup's record leaves the type
\* it is declared with, and no pointer in an allocated node leads to a freed one.
THEOREM TypeIsCorrect == Spec => []TypeOK
<1>1. RbInv => TypeOK
  BY TypeOKHolds
<1> QED
  BY <1>1, InvariantHolds, PTL

\* Between operations the red-black rules that verify_properties would check
\* hold: black root, no red child of a red node, equal black heights.
THEOREM RedBlackRulesHold == Spec => []VerifyProperties
<1>1. RbInv => VerifyProperties
  BY VerifyPropertiesHold
<1> QED
  BY <1>1, InvariantHolds, PTL

\* Between operations the tree is ordered by address and its parent pointers
\* are the inverse of its child pointers.
THEOREM TreeIsWellLinked == Spec => []WellLinked
<1>1. RbInv => WellLinked
  BY WellLinkedHolds
<1> QED
  BY <1>1, InvariantHolds, PTL

\* The asserts of rbtree_insert, rbtree_delete and their cases would never fail.
THEOREM AssertsNeverFail == Spec => []AssertionsHold
<1>1. RbInv => AssertionsHold
  BY AssertionsAreTrue
<1> QED
  BY <1>1, InvariantHolds, PTL


-----------------------------------------------------------------------------
(* The nodes of the tree *)

\* Induction from the leaves up
LEMMA TreeInduction ==
  ASSUME NEW T, NEW R, NEW L, NEW P, NEW B, IsTree(T, R, L, P, B), NEW Good,
         \A n \in T : (\A d \in Dirs : L[d][n] # NULL => L[d][n] \in Good) => n \in Good
  PROVE  T \subseteq Good
<1> DEFINE size(n) == Cardinality(B[n])
           I == {k \in Nat : \A n \in T : size(n) < k => n \in Good}
<1>1. \A n \in T : B[n] \subseteq Nodes /\ IsFiniteSet(B[n]) /\ size(n) \in Nat
  <2> SUFFICES ASSUME NEW n \in T PROVE B[n] \subseteq Nodes /\ IsFiniteSet(B[n]) /\ size(n) \in Nat
    OBVIOUS
  <2>1. B[n] \subseteq Nodes
    BY DEF IsTree, IsBelow, IsLinked
  <2>2. IsFiniteSet(B[n])
    BY <2>1, ConstantsAssumption, FS_Subset
  <2> QED
    BY <2>1, <2>2, FS_CardinalityType
<1>2. ASSUME NEW n \in T, NEW d \in Dirs, L[d][n] # NULL
      PROVE  L[d][n] \in T /\ size(L[d][n]) < size(n)
  <2>1. PICK m : m = L[d][n]
    OBVIOUS
  <2>2. m \in T /\ B[m] \subseteq B[n] /\ n \in B[n] /\ n \notin B[m]
    BY <1>2, <2>1, Descendants
  <2>3. size(m) \in Nat /\ size(n) \in Nat
    BY <1>1, <2>2
  <2>4. Cardinality(B[m]) <= Cardinality(B[n]) /\ Cardinality(B[m]) # Cardinality(B[n])
    BY <1>1, <2>2, FS_Subset
  <2> QED
    BY <2>1, <2>2, <2>3, <2>4
<1> HIDE DEF size
<1>3. 0 \in I
  BY <1>1
<1>4. ASSUME NEW k \in Nat, k \in I PROVE k + 1 \in I
  <2> SUFFICES ASSUME NEW n \in T, size(n) < k + 1 PROVE n \in Good
    OBVIOUS
  <2>1. ASSUME NEW d \in Dirs, L[d][n] # NULL
        PROVE  L[d][n] \in Good
    <3>1. L[d][n] \in T /\ size(L[d][n]) < size(n)
      BY <1>2, <2>1
    <3>2. size(L[d][n]) < k
      BY <1>1, <3>1
    <3> QED
      BY <1>4, <3>1, <3>2
  <2> QED
    BY <2>1
<1>5. Nat \subseteq I
  <2> HIDE DEF I
  <2> QED
    BY <1>3, <1>4, Induction
<1> SUFFICES ASSUME NEW n \in T PROVE n \in Good
  OBVIOUS
<1>6. size(n) + 1 \in Nat /\ size(n) < size(n) + 1
  BY <1>1
<1>7. size(n) + 1 \in I
  BY <1>5, <1>6
<1> QED
  BY <1>6, <1>7

\* Whoever follows the child pointers from the root meets every node.
LEMMA TreeIsReached ==
  ASSUME NEW T, NEW R, NEW L, NEW P, NEW B, IsTree(T, R, L, P, B), NEW X,
         R # NULL => R \in X,
         \A n \in T, d \in Dirs : n \in X /\ L[d][n] # NULL => L[d][n] \in X
  PROVE  T \subseteq X
<1> DEFINE Good == {n \in T : n \in X => B[n] \subseteq X}
<1>1. ASSUME NEW n \in T, \A d \in Dirs : L[d][n] # NULL => L[d][n] \in Good
      PROVE  n \in Good
  <2> SUFFICES ASSUME n \in X, NEW m \in B[n] PROVE m \in X
    OBVIOUS
  <2>1. CASE m = n
    BY <2>1
  <2>2. CASE m # n
    <3>1. PICK d \in Dirs : L[d][n] # NULL /\ m \in B[L[d][n]]
      BY <2>2, Descendants
    <3>2. L[d][n] \in X /\ L[d][n] \in Good
      BY <1>1, <3>1
    <3> QED
      BY <3>1, <3>2
  <2> QED
    BY <2>1, <2>2
<1>2. T \subseteq Good
  <2> HIDE DEF Good
  <2> QED
    BY <1>1, TreeInduction
<1>3. CASE R = NULL
  BY <1>3 DEF IsTree, IsLinked
<1>4. CASE R # NULL
  <2>1. R \in T /\ B[R] = T
    BY <1>4 DEF IsTree, IsLinked, IsBelow
  <2> QED
    BY <1>2, <1>4, <2>1
<1> QED
  BY <1>3, <1>4

\* No two nodes have the same address.
LEMMA AddressesDiffer ==
  ASSUME NEW T, NEW R, NEW L, NEW P, NEW B, IsTree(T, R, L, P, B),
         NEW K \in [Nodes -> Keys], NEW gone, IsOrdered(T, L, B, K, gone),
         gone \in T => \E d \in Dirs : L[d][gone] = NULL
  PROVE  \A m, n \in T \ {gone} : m # n => K[m].addr # K[n].addr
<1> DEFINE Good == {r \in T : \A m, n \in B[r] \ {gone} : m # n => K[m].addr # K[n].addr}
<1>1. \A n \in T : K[n].addr \in Nat
  BY Children, AddressesAreNumbers
<1>2. \A d, a, b : Beside(d, a, b) /\ a \in Nat /\ b \in Nat => a # b
  BY DEF Beside
<1>3. ASSUME NEW r \in T, NEW d \in Dirs, NEW m \in B[r] \ {gone},
             r # gone, L[d][r] # NULL, m \in B[L[d][r]]
      PROVE  Beside(d, K[m].addr, K[r].addr)
  BY <1>3 DEF IsOrdered
<1>4. ASSUME NEW r \in T, \A d \in Dirs : L[d][r] # NULL => L[d][r] \in Good
      PROVE  r \in Good
  <2> SUFFICES ASSUME NEW m \in B[r] \ {gone}, NEW n \in B[r] \ {gone}, m # n
               PROVE  K[m].addr # K[n].addr
    OBVIOUS
  <2>1. B[r] \subseteq T /\ m \in T /\ n \in T
    BY Descendants
  <2>2. CASE m = r
    <3>1. PICK d \in Dirs : L[d][r] # NULL /\ n \in B[L[d][r]]
      BY <2>2, Descendants
    <3>2. Beside(d, K[n].addr, K[m].addr)
      BY <1>3, <2>2, <3>1
    <3> QED
      BY <1>1, <2>1, <3>2 DEF Beside
  <2>3. CASE n = r
    <3>1. PICK d \in Dirs : L[d][r] # NULL /\ m \in B[L[d][r]]
      BY <2>3, Descendants
    <3>2. Beside(d, K[m].addr, K[n].addr)
      BY <1>3, <2>3, <3>1
    <3> QED
      BY <1>1, <2>1, <3>2 DEF Beside
  <2>4. CASE m # r /\ n # r
    <3>1. PICK d \in Dirs : L[d][r] # NULL /\ m \in B[L[d][r]]
      BY <2>4, Descendants
    <3>2. PICK e \in Dirs : L[e][r] # NULL /\ n \in B[L[e][r]]
      BY <2>4, Descendants
    <3>3. CASE d = e
      <4>1. L[d][r] \in Good
        BY <1>4, <3>1
      <4> QED
        BY <3>1, <3>2, <3>3, <4>1
    <3>4. CASE d # e
      <4>1. r # gone
        <5>1. Dirs = {d, e}
          BY <3>4 DEF Dirs
        <5> QED
          BY <3>1, <3>2, <5>1
      <4>2. Beside(d, K[m].addr, K[r].addr) /\ Beside(e, K[n].addr, K[r].addr)
        BY <1>3, <3>1, <3>2, <4>1
      <4>3. K[m].addr \in Nat /\ K[n].addr \in Nat /\ K[r].addr \in Nat
        BY <1>1, <2>1
      <4> QED
        BY <3>4, <4>2, <4>3 DEF Beside, Dirs
    <3> QED
      BY <3>3, <3>4
  <2> QED
    BY <2>2, <2>3, <2>4
<1>5. T \subseteq Good
  <2> HIDE DEF Good
  <2> QED
    BY <1>4, TreeInduction
<1>6. CASE R = NULL
  BY <1>6 DEF IsTree, IsLinked
<1>7. CASE R # NULL
  <2>1. R \in T /\ B[R] = T
    BY <1>7 DEF IsTree, IsLinked, IsBelow
  <2> QED
    BY <1>5, <2>1
<1> QED
  BY <1>6, <1>7

\* What Under builds is closed, since it takes as many steps as there are nodes.
LEMMA UnderIsClosed ==
  ASSUME link \in [Dirs -> [Nodes -> NodesOrNull]], NEW S \in SUBSET NodesOrNull
  PROVE  /\ S \ {NULL} \subseteq Under(S) /\ Under(S) \subseteq Nodes
         /\ \A n \in Under(S), d \in Dirs : link[d][n] # NULL => link[d][n] \in Under(S)
<1> DEFINE N == Cardinality(Nodes)
           reach == CHOOSE f : f = [i \in 0 .. N |->
                                      IF i = 0 THEN S \ {NULL} ELSE Below(f[i - 1])]
<1>1. N \in Nat
  BY ConstantsAssumption, FS_CardinalityType
<1>2. Under(S) = reach[N]
  BY DEF Under
<1> HIDE DEF N
<1>3. reach = [i \in 0 .. N |-> IF i = 0 THEN S \ {NULL} ELSE Below(reach[i - 1])]
  <2>1. PICK f : IsReach(f, S, N)
    BY <1>1, ReachExists
  <2>2. f = [i \in 0 .. N |-> IF i = 0 THEN S \ {NULL} ELSE Below(f[i - 1])]
    BY <2>1 DEF IsReach
  <2> QED
    BY <2>2
<1> HIDE DEF reach
<1>4. /\ \A U : U \subseteq Below(U)
      /\ \A U \in SUBSET Nodes : Below(U) \subseteq Nodes
      /\ S \ {NULL} \subseteq Nodes
  BY DEF Below, NodesOrNull
<1> DEFINE Full(U, i) == Below(U) = U \/ i <= Cardinality(U)
           I == {i \in Nat : i <= N => /\ S \ {NULL} \subseteq reach[i]
                                       /\ reach[i] \subseteq Nodes /\ Full(reach[i], i)}
<1>5. 0 \in I
  <2>1. reach[0] = S \ {NULL} /\ IsFiniteSet(Nodes)
    BY <1>1, <1>3, ConstantsAssumption
  <2>2. IsFiniteSet(reach[0])
    BY <1>4, <2>1, FS_Subset
  <2>3. Cardinality(reach[0]) \in Nat
    BY <2>2, FS_CardinalityType
  <2>4. Full(reach[0], 0)
    BY <2>3
  <2>5. S \ {NULL} \subseteq reach[0] /\ reach[0] \subseteq Nodes
    BY <1>4, <2>1
  <2> HIDE DEF Full
  <2> QED
    BY <2>4, <2>5
<1>6. ASSUME NEW i \in Nat, i \in I PROVE i + 1 \in I
  <2> SUFFICES ASSUME i + 1 <= N
               PROVE  /\ S \ {NULL} \subseteq reach[i + 1] /\ reach[i + 1] \subseteq Nodes
                      /\ Full(reach[i + 1], i + 1)
    OBVIOUS
  <2>1. PICK U, V : U = reach[i] /\ V = reach[i + 1]
    OBVIOUS
  <2>2. i + 1 \in 0 .. N /\ i + 1 # 0 /\ (i + 1) - 1 = i /\ i <= N
    BY <1>1
  <2>3. S \ {NULL} \subseteq U /\ U \subseteq Nodes /\ Full(U, i) /\ V = Below(U)
    <3>1. V = Below(U)
      BY <1>3, <2>1, <2>2
    <3> QED
      BY <1>6, <2>1, <2>2, <3>1
  <2>4. U \subseteq V /\ V \subseteq Nodes
    BY <1>4, <2>3
  <2>5. CASE V = U
    BY <2>1, <2>3, <2>4, <2>5
  <2>6. CASE V # U
    <3>1. IsFiniteSet(V)
      BY <2>4, ConstantsAssumption, FS_Subset
    <3>2. Cardinality(V) \in Nat /\ IsFiniteSet(U)
      BY <2>4, <3>1, FS_CardinalityType, FS_Subset
    <3>3. Cardinality(U) \in Nat /\ Cardinality(U) <= Cardinality(V)
          /\ Cardinality(U) # Cardinality(V)
      BY <2>4, <2>6, <3>1, <3>2, FS_CardinalityType, FS_Subset
    <3>4. i <= Cardinality(U)
      BY <2>3, <2>6
    <3>5. i + 1 <= Cardinality(V)
      BY <3>2, <3>3, <3>4
    <3> QED
      BY <2>1, <2>3, <2>4, <3>5
  <2> QED
    BY <2>5, <2>6
<1>7. N \in I
  <2> HIDE DEF I
  <2> QED
    BY <1>1, <1>5, <1>6, Induction
<1>8. PICK U : U = Under(S)
  OBVIOUS
<1>9. S \ {NULL} \subseteq U /\ U \subseteq Nodes /\ Full(U, N)
  BY <1>1, <1>2, <1>7, <1>8
<1>10. Below(U) = U
  <2> SUFFICES ASSUME N <= Cardinality(U) PROVE Below(U) = U
    BY <1>9
  <2>1. Cardinality(U) <= N /\ (Cardinality(U) = N => U = Nodes) /\ IsFiniteSet(U)
    BY <1>9, ConstantsAssumption, FS_Subset DEF N
  <2>2. Cardinality(U) \in Nat
    BY <2>1, FS_CardinalityType
  <2>3. U = Nodes
    BY <1>1, <2>1, <2>2
  <2>4. Nodes \in SUBSET Nodes
    OBVIOUS
  <2>5. Below(Nodes) \subseteq Nodes /\ Nodes \subseteq Below(Nodes)
    BY <1>4, <2>4
  <2> QED
    BY <2>3, <2>5
<1>11. \A n \in U, d \in Dirs : link[d][n] # NULL => link[d][n] \in U
  <2>1. \A n \in U, d \in Dirs : link[d][n] # NULL => link[d][n] \in Below(U)
    BY DEF Below
  <2> QED
    BY <1>10, <2>1
<1> QED
  BY <1>8, <1>9, <1>11

-----------------------------------------------------------------------------
(* The contents *)

\* The node that a rotation is moving down
Moving == IF pc \in {"rotate2", "rotate3"} THEN {rotation.node} ELSE {}

\* The nodes of the tree, told by their parent pointers
InTree == {n \in Nodes : parent[n] # NULL \/ n = root \/ n \in Moving}

\* The T of the invariant is no other than this.
TreeInvOf(T) ==
  /\ T \subseteq allocated
  /\ pc = "insertWalk" => loc.held \in allocated
  /\ \/ Resting(pc, loc, color, key, root, link, parent, T)
     \/ Turning(pc, rotation, loc, color, key, root, link, parent, T)

LEMMA WhoIsInTree ==
  ASSUME TreeInv
  PROVE  TreeInvOf(InTree)
<1>1. PICK T : TreeInvOf(T)
  BY DEF TreeInv, TreeInvOf
<1>2. CASE Resting(pc, loc, color, key, root, link, parent, T)
  <2>1. PICK B, h : Fits(pc, loc, color, key, T, root, link, parent, B, h)
    BY <1>2 DEF Resting
  <2>2. /\ T \subseteq Nodes /\ NULL \notin Nodes
        /\ root \in T \cup {NULL}
        /\ \A n \in T : parent[n] = NULL <=> n = root
        /\ \A n \in Nodes \ T : parent[n] = NULL
    BY <2>1, InHand DEF Fits, IsTree, IsLinked
  <2>3. Moving = {}
    BY <1>2 DEF Resting, Rotating, Moving
  <2>4. T = InTree
    BY <2>2, <2>3 DEF InTree
  <2> QED
    BY <1>1, <2>4
<1>3. CASE Turning(pc, rotation, loc, color, key, root, link, parent, T)
  <2>1. PICK R0, L0, P0, B0, i :
          /\ pc \in Rotating
          /\ Midway(pc, rotation, root, link, parent, T, R0, L0, P0, B0, i)
    BY <1>3 DEF Turning
  <2>2. PICK d, x, y : d = rotation.dir /\ x = rotation.node /\ y = rotation.up
    OBVIOUS
  <2>3. /\ IsTree(T, R0, L0, P0, B0) /\ IsTurn(T, L0, d, x, y, i)
        /\ pc = "rotate1" => root = R0 /\ parent = P0
        /\ pc \in {"rotate2", "rotate3"} => root = TurnedRoot(R0, x, y)
        /\ pc = "rotate2" => parent = Turn1Parent(P0, x, y)
        /\ pc = "rotate3" => parent = Turn2Parent(P0, x, y, i)
    BY <2>1, <2>2 DEF Midway
  <2>4. /\ T \subseteq Nodes /\ NULL \notin Nodes
        /\ R0 \in T \cup {NULL}
        /\ \A n \in T : P0[n] = NULL <=> n = R0
        /\ \A n \in Nodes \ T : P0[n] = NULL
        /\ x \in T /\ y \in T /\ x # y /\ i \in T \cup {NULL} /\ i # x
    BY <2>3, TurnPlaces DEF IsTree, IsLinked
  <2>5. CASE pc = "rotate1"
    <3>1. Moving = {}
      BY <2>5 DEF Moving
    <3>2. T = InTree
      BY <2>3, <2>4, <2>5, <3>1 DEF InTree
    <3> QED
      BY <1>1, <3>2
  <2>6. CASE pc = "rotate2"
    <3>1. Moving = {x} /\ root = IF R0 = x THEN y ELSE R0
      BY <2>2, <2>3, <2>6 DEF Moving, TurnedRoot
    <3>2. \A n \in Nodes : parent[n] = IF n = y THEN P0[x] ELSE P0[n]
      BY <2>3, <2>6, Turn1
    <3>3. T = InTree
      BY <2>4, <3>1, <3>2 DEF InTree
    <3> QED
      BY <1>1, <3>3
  <2>7. CASE pc = "rotate3"
    <3>1. Moving = {x} /\ root = IF R0 = x THEN y ELSE R0
      BY <2>2, <2>3, <2>7 DEF Moving, TurnedRoot
    <3>2. \A n \in Nodes : parent[n] = IF n = i THEN x ELSE IF n = y THEN P0[x] ELSE P0[n]
      BY <2>3, <2>7, Turn2
    <3>3. T = InTree
      BY <2>4, <3>1, <3>2 DEF InTree
    <3> QED
      BY <1>1, <3>3
  <2> QED
    BY <2>1, <2>5, <2>6, <2>7 DEF Rotating
<1> QED
  BY <1>1, <1>2, <1>3 DEF TreeInvOf

\* All of it hangs below the root and the node that is moving, and nothing else.
LEMMA TreeHangsTogether ==
  ASSUME TreeInv
  PROVE  Under({root} \cup Moving) = InTree
<1>1. PICK T : T = InTree /\ TreeInvOf(T)
  BY WhoIsInTree
<1>2. PICK S, X : S = {root} \cup Moving /\ X = Under(S)
  OBVIOUS
<1>3. Pointers(T, root, link, parent) /\ Moving \subseteq T
  <2>1. CASE Resting(pc, loc, color, key, root, link, parent, T)
    BY <2>1, TreePointers DEF Resting, Fits, Rotating, Moving
  <2>2. CASE Turning(pc, rotation, loc, color, key, root, link, parent, T)
    <3>1. PICK R0, L0, P0, B0, i :
            /\ pc \in Rotating
            /\ Midway(pc, rotation, root, link, parent, T, R0, L0, P0, B0, i)
      BY <2>2 DEF Turning
    <3>2. Pointers(T, root, link, parent)
      BY <3>1, MidwayPointers
    <3>3. IsTree(T, R0, L0, P0, B0)
          /\ IsTurn(T, L0, rotation.dir, rotation.node, rotation.up, i)
      BY <3>1 DEF Midway
    <3>4. rotation.node \in T
      BY <3>3 DEF IsTurn
    <3> QED
      BY <3>2, <3>4 DEF Moving
  <2> QED
    BY <1>1, <2>1, <2>2 DEF TreeInvOf
<1>4. /\ link \in [Dirs -> [Nodes -> NodesOrNull]] /\ T \subseteq Nodes
      /\ root \in T \cup {NULL} /\ \A n \in Nodes, d \in Dirs : link[d][n] \in T \cup {NULL}
      /\ S \in SUBSET NodesOrNull /\ S \ {NULL} \subseteq T /\ NULL \notin Nodes
  BY <1>2, <1>3, ConstantsAssumption DEF Pointers, NodesOrNull
<1>5. X \subseteq T
  BY <1>2, <1>4, UnderIsLeast
<1>6. /\ S \ {NULL} \subseteq X
      /\ \A n \in X, d \in Dirs : link[d][n] # NULL => link[d][n] \in X
  BY <1>2, <1>4, UnderIsClosed
<1>7. root # NULL => root \in X
  BY <1>2, <1>6
<1>8. CASE Resting(pc, loc, color, key, root, link, parent, T)
  <2>1. PICK B : IsTree(T, root, link, parent, B)
    BY <1>8 DEF Resting, Fits
  <2>2. T \subseteq X
    BY <1>6, <1>7, <2>1, TreeIsReached
  <2> QED
    BY <1>1, <1>2, <1>5, <2>2
<1>9. CASE Turning(pc, rotation, loc, color, key, root, link, parent, T)
  <2>1. PICK R0, L0, P0, B0, i :
          /\ pc \in Rotating
          /\ Midway(pc, rotation, root, link, parent, T, R0, L0, P0, B0, i)
    BY <1>9 DEF Turning
  <2>2. PICK d, x, y : d = rotation.dir /\ x = rotation.node /\ y = rotation.up
    OBVIOUS
  <2>3. /\ IsTree(T, R0, L0, P0, B0) /\ IsTurn(T, L0, d, x, y, i)
        /\ pc = "rotate1" => root = R0 /\ link = L0
        /\ pc \in {"rotate2", "rotate3"} => root = TurnedRoot(R0, x, y)
        /\ pc = "rotate2" => link = Turn1Link(L0, P0, x, y)
        /\ pc = "rotate3" => link = Turn2Link(L0, P0, d, x, y, i)
    BY <2>1, <2>2 DEF Midway
  <2>4. /\ d \in Dirs /\ Other(d) \in Dirs /\ Dirs = {d, Other(d)}
        /\ x \in T /\ y \in T /\ x # y /\ y = L0[Other(d)][x] /\ y # NULL
    BY <2>3, TurnPlaces DEF IsTurn
  <2>5. CASE pc = "rotate1"
    <3>1. T \subseteq X
      BY <1>6, <1>7, <2>3, <2>5, TreeIsReached
    <3> QED
      BY <1>1, <1>2, <1>5, <3>1
  <2>6. CASE pc # "rotate1"
    <3>1. x \in X
      BY <1>2, <1>4, <1>6, <2>1, <2>2, <2>4, <2>6 DEF Moving, Rotating
    <3>2. R0 # NULL => R0 \in X
      BY <1>7, <2>1, <2>3, <2>4, <2>6, <3>1 DEF TurnedRoot, Rotating
    <3>3. ASSUME NEW e \in Dirs, NEW n \in T, n # x \/ e # Other(d)
          PROVE  link[e][n] = IF L0[e][n] = x THEN y ELSE L0[e][n]
      <4>1. n \in Nodes
        BY <1>4
      <4>2. CASE pc = "rotate2"
        BY <2>3, <4>1, <4>2, Turn1
      <4>3. CASE pc = "rotate3"
        BY <2>3, <3>3, <4>1, <4>3, Turn2
      <4> QED
        BY <2>1, <2>6, <4>2, <4>3 DEF Rotating
    <3>4. ASSUME NEW e \in Dirs, NEW n \in T, n \in X, n # x \/ e # Other(d),
                 L0[e][n] # NULL
          PROVE  L0[e][n] \in X
      <4>1. CASE L0[e][n] = x
        BY <3>1, <4>1
      <4>2. CASE L0[e][n] # x
        BY <1>6, <3>3, <3>4, <4>2
      <4> QED
        BY <4>1, <4>2
    <3>5. y \in X
      <4>1. CASE R0 = x
        BY <1>7, <2>1, <2>3, <2>4, <2>6, <4>1 DEF TurnedRoot, Rotating
      <4>2. CASE R0 # x
        <5>1. PICK p, e : p = P0[x] /\ e = DirIn(L0, P0, x)
          OBVIOUS
        <5>2. p # NULL
          BY <2>3, <2>4, <4>2, <5>1, Children
        <5>3. e \in Dirs /\ p \in T /\ L0[e][p] = x /\ p # x
          BY <2>3, <2>4, <5>1, <5>2, Relatives
        <5>4. p \notin B0[x]
          <6>1. x # NULL
            BY <1>4, <2>4
          <6> QED
            BY <2>3, <5>3, <6>1, Descendants
        <5>5. PICK Y : Y = X \cup B0[x]
          OBVIOUS
        <5>6. ASSUME NEW n \in T, NEW f \in Dirs, n \in Y, L0[f][n] # NULL
              PROVE  L0[f][n] \in Y
          <6>1. CASE n \in B0[x]
            <7>1. B0[n] \subseteq B0[x] /\ L0[f][n] \in B0[n]
              <8>1. L0[f][n] \in B0[L0[f][n]] /\ B0[L0[f][n]] \subseteq B0[n]
                BY <2>3, <5>6, Descendants
              <8> QED
                BY <2>3, <2>4, <6>1, <8>1, Descendants
            <7> QED
              BY <5>5, <7>1
          <6>2. CASE n \notin B0[x]
            <7>1. n # x
              BY <2>3, <2>4, <6>2, Descendants
            <7> QED
              BY <3>4, <5>5, <5>6, <6>2, <7>1
          <6> QED
            BY <6>1, <6>2
        <5>7. T \subseteq Y
          <6>1. R0 # NULL => R0 \in Y
            BY <3>2, <5>5
          <6> QED
            BY <2>3, <5>6, <6>1, TreeIsReached
        <5>8. p \in X
          BY <5>3, <5>4, <5>5, <5>7
        <5>9. link[e][p] = y
          BY <3>3, <5>3
        <5> QED
          BY <1>6, <2>4, <5>3, <5>8, <5>9
      <4> QED
        BY <4>1, <4>2
    <3>6. ASSUME NEW n \in T, NEW e \in Dirs, n \in X, L0[e][n] # NULL
          PROVE  L0[e][n] \in X
      BY <2>4, <3>4, <3>5, <3>6
    <3>7. T \subseteq X
      BY <2>3, <3>2, <3>6, TreeIsReached
    <3> QED
      BY <1>1, <1>2, <1>5, <3>7
  <2> QED
    BY <2>5, <2>6
<1> QED
  BY <1>1, <1>8, <1>9 DEF TreeInvOf

LEMMA ContentsAre == TreeInv => Contents = {EntryOf(n) : n \in InTree}
<1> SUFFICES ASSUME TreeInv PROVE Contents = {EntryOf(n) : n \in InTree}
  OBVIOUS
<1>1. Under({root} \cup Moving) = InTree
  BY TreeHangsTogether
<1> QED
  BY <1>1 DEF Contents, Moving

LEMMA ContentsWillBe == (TreeInv => Contents = {EntryOf(n) : n \in InTree})'
BY ContentsAre, PTL

\* A step that changes no entry of a node in the tree
LEMMA SameContents ==
  ASSUME TreeInv, TreeInv', InTree' = InTree,
         \A n \in InTree : key'[n] = key[n] /\ value'[n] = value[n]
  PROVE  Contents' = Contents
<1>1. Contents = {EntryOf(n) : n \in InTree}
  BY ContentsAre
<1>2. Contents' = {EntryOf(n)' : n \in InTree'}
  BY ContentsWillBe
<1>3. \A n \in InTree : EntryOf(n)' = EntryOf(n)
  BY DEF EntryOf
<1> QED
  BY <1>1, <1>2, <1>3

-----------------------------------------------------------------------------
(* The steps as changes of the map *)

\* The node whose entry goes, or has gone already
Leaving == IF pc = "delete0" THEN loc.n ELSE loc.gone

\* When its entry has been overwritten by another's, that one is still there.
LeavingInv ==
  Leaving # NULL =>
    \A m \in InTree : key[m].addr = key[Leaving].addr => EntryOf(m) = EntryOf(Leaving)

LEMMA TreeHere ==
  ASSUME TreeInv, pc \in Labels \ Rotating
  PROVE  /\ InTree \subseteq allocated
         /\ \E B, h : Fits(pc, loc, color, key, InTree, root, link, parent, B, h)
<1>1. PICK T : T = InTree /\ TreeInvOf(T)
  BY WhoIsInTree
<1>2. Resting(pc, loc, color, key, root, link, parent, T)
  BY <1>1 DEF TreeInvOf, Turning
<1> QED
  BY <1>1, <1>2 DEF TreeInvOf, Resting

LEMMA AddressesDifferHere ==
  ASSUME TreeInv, pc \in Labels \ Rotating
  PROVE  \A m, n \in InTree \ {Leaving} : m # n => key[m].addr # key[n].addr
<1>1. PICK T, B, h, g : /\ T = InTree /\ g = Leaving
                        /\ Fits(pc, loc, color, key, T, root, link, parent, B, h)
  BY TreeHere
<1>2. /\ IsTree(T, root, link, parent, B) /\ key \in [Nodes -> Keys]
      /\ PlaceInv(pc, loc, T, root, link, parent, B, h, color, key)
      /\ IsOrdered(T, link, B, key, g)
  BY <1>1 DEF Fits, OrderGone, Leaving
<1>3. NULL \notin T
  BY <1>2, Children
<1>4. g \in T => \E d \in Dirs : link[d][g] = NULL
  <2>1. CASE pc = "delete0"
    BY <1>1, <1>2, <2>1 DEF PlaceInv, Leaving
  <2>2. CASE pc \in {"delete1", "delete2", "delete3", "delete6"}
    <3>1. GoneInv(T, link, color, loc) /\ g = loc.gone
      BY <1>1, <1>2, <2>2 DEF PlaceInv, DeleteInv, Leaving
    <3> QED
      BY <3>1, Mirror DEF GoneInv
  <2>3. CASE pc = "unlink"
    <3>1. GoneInv(T, link, color, loc) /\ g = loc.gone
      BY <1>1, <1>2, <2>3 DEF PlaceInv, UnlinkInv, Leaving
    <3> QED
      BY <3>1, Mirror DEF GoneInv
  <2>4. CASE pc \in {"insert1", "insert5"}
    BY <1>1, <1>2, <1>3, <2>4 DEF PlaceInv, InsertInv, Leaving
  <2>5. CASE pc \in Settled /\ pc # "delete0"
    BY <1>1, <1>2, <1>3, <2>5 DEF PlaceInv, SettledInv, Leaving
  <2> QED
    BY <2>1, <2>2, <2>3, <2>4, <2>5 DEF Labels, Rotating, Settled
<1> QED
  BY <1>1, <1>2, <1>4, AddressesDiffer

LEMMA SameTree ==
  ASSUME root' = root, parent' = parent, Moving = {}, Moving' = {}
  PROVE  InTree' = InTree
BY DEF InTree

LEMMA QuietStep ==
  ASSUME TreeInv, TreeInv', LeavingInv, InTree' = InTree, key' = key, value' = value,
         Leaving' \in {Leaving, NULL}
  PROVE  Contents' = Contents /\ LeavingInv'
<1>1. Contents' = Contents
  BY SameContents
<1>2. LeavingInv'
  <2>1. \A m : EntryOf(m)' = EntryOf(m)
    BY DEF EntryOf
  <2>2. CASE Leaving' = NULL
    BY <2>2 DEF LeavingInv
  <2>3. CASE Leaving' = Leaving
    <3>1. PICK g : g = Leaving /\ g = Leaving'
      BY <2>3
    <3>2. g # NULL => \A m \in InTree : key[m].addr = key[g].addr => EntryOf(m) = EntryOf(g)
      BY <3>1 DEF LeavingInv
    <3>3. g # NULL => \A m \in InTree' : key'[m].addr = key'[g].addr =>
                                           EntryOf(m)' = (EntryOf(g))'
      BY <2>1, <3>2
    <3> QED
      BY <3>1, <3>3 DEF LeavingInv
  <2> QED
    BY <2>2, <2>3
<1> QED
  BY <1>1, <1>2

\* Walking, recolouring and the begin of a rotation
LEMMA QuietActions ==
  ASSUME FieldsInv, TreeInv, TreeInv', LeavingInv,
         \/ InsertWalk /\ link' = link
         \/ InsertCase1 \/ InsertCase2 \/ InsertCase3 \/ InsertCase4 \/ InsertCase5
         \/ (\E a \in Addrs : BeginDelete(a)) \/ DeleteUnknown
         \/ DeleteWalk /\ pc' # "delete0"
         \/ DeleteMax /\ pc' # "delete0"
         \/ BeginUnlink \/ DeleteCase1 \/ DeleteCase2 \/ DeleteCase3
         \/ DeleteCase4 \/ DeleteCase5 \/ DeleteCase6
  PROVE  /\ InTree' = InTree /\ Contents' = Contents /\ LeavingInv'
         /\ key' = key /\ Leaving' \in {Leaving, NULL}
<1>1. loc \in Locals
  BY DEF FieldsInv
<1>2. /\ \A x : [loc EXCEPT !.n = x].gone = loc.gone
      /\ \A x, y : [loc EXCEPT !.held = x, !.n = y].gone = loc.gone
      /\ \A x, y : [loc EXCEPT !.gone = x, !.held = y].gone = x
      /\ NoLocals.gone = NULL /\ \A x, y : [NoLocals EXCEPT !.n = x, !.addr = y].gone = NULL
  BY <1>1 DEF Locals, NoLocals
<1>3. ASSUME UNCHANGED << root, parent, key, value >>, Moving = {}, Moving' = {},
             Leaving' \in {Leaving, NULL}
      PROVE  /\ InTree' = InTree /\ Contents' = Contents /\ LeavingInv'
             /\ key' = key /\ Leaving' \in {Leaving, NULL}
  <2>1. InTree' = InTree
    BY <1>3, SameTree
  <2> QED
    BY <1>3, <2>1, QuietStep
<1>4. ASSUME pc \notin {"rotate2", "rotate3", "delete0"},
             pc' \notin {"rotate2", "rotate3", "delete0"},
             loc'.gone = loc.gone \/ loc'.gone = NULL
      PROVE  Moving = {} /\ Moving' = {} /\ Leaving' \in {Leaving, NULL}
  BY <1>4 DEF Moving, Leaving
<1>5. CASE InsertWalk /\ link' = link
  <2>1. /\ pc = "insertWalk" /\ pc' \in {"insertWalk", "insert1"} /\ loc'.gone = loc.gone
        /\ UNCHANGED << root, key, value >>
    BY <1>2, <1>5 DEF InsertWalk, At, Goto
  <2>2. parent' = parent
    <3>1. SUFFICES ASSUME parent' # parent PROVE FALSE
      OBVIOUS
    <3>2. PICK d : /\ d \in Dirs /\ link[d][loc.n] = NULL
                   /\ link' = [link EXCEPT ![d][loc.n] = loc.held]
      BY <1>5, <3>1 DEF InsertWalk, Toward, Dirs
    <3>3. PICK B, h : Fits("insertWalk", loc, color, key, InTree, root, link, parent, B, h)
      BY <2>1, TreeHere DEF Labels, Rotating
    <3>4. loc.n \in Nodes /\ loc.held \in Nodes /\ NULL \notin Nodes
      BY <3>3, InHand
    <3>5. link \in [Dirs -> [Nodes -> NodesOrNull]]
      BY <3>3 DEF Fits, IsTree, IsLinked
    <3>6. link'[d][loc.n] = loc.held
      BY <3>2, <3>4, <3>5
    <3> QED
      BY <1>5, <3>2, <3>4, <3>6
  <2> QED
    BY <1>3, <1>4, <2>1, <2>2
<1>6. CASE InsertCase1 \/ InsertCase2 \/ InsertCase3
  <2>1. /\ pc = "insert1" /\ pc' \in {"idle", "insert1"}
        /\ loc'.gone = loc.gone \/ loc'.gone = NULL
        /\ UNCHANGED << root, parent, key, value >>
    BY <1>2, <1>6 DEF InsertCase1, InsertCase2, InsertCase3, At, Goto, Return, tree
  <2> QED
    BY <1>3, <1>4, <2>1
<1>7. CASE InsertCase4 \/ InsertCase5
  <2>1. /\ pc \in {"insert1", "insert5"} /\ pc' \in {"insert5", "rotate1"}
        /\ loc'.gone = loc.gone
        /\ UNCHANGED << root, parent, key, value >>
    BY <1>2, <1>7 DEF InsertCase4, InsertCase5, At, Goto, BeginRotation, tree
  <2> QED
    BY <1>3, <1>4, <2>1
<1>8. CASE (\E a \in Addrs : BeginDelete(a)) \/ DeleteUnknown
  <2>1. /\ pc \in {"idle", "deleteWalk"} /\ pc' \in {"deleteWalk", "idle"}
        /\ loc'.gone = NULL
        /\ UNCHANGED << root, parent, key, value >>
    <3>1. CASE \E a \in Addrs : BeginDelete(a)
      <4>1. PICK a \in Addrs : BeginDelete(a)
        BY <3>1
      <4>2. loc' = [NoLocals EXCEPT !.n = root, !.addr = a] /\ pc = "idle" /\ pc' = "deleteWalk"
        BY <4>1 DEF BeginDelete, MayBegin, Goto
      <4>3. loc'.gone = NULL
        BY <4>2 DEF NoLocals
      <4> QED
        BY <4>1, <4>2, <4>3 DEF BeginDelete, tree
    <3>2. CASE DeleteUnknown
      <4>1. loc' = NoLocals /\ pc = "deleteWalk" /\ pc' = "idle"
        BY <3>2 DEF DeleteUnknown, At, Goto, Return
      <4>2. loc'.gone = NULL
        BY <4>1 DEF NoLocals
      <4> QED
        BY <3>2, <4>1, <4>2 DEF DeleteUnknown, tree
    <3> QED
      BY <1>8, <3>1, <3>2
  <2> QED
    BY <1>3, <1>4, <2>1
<1>9. CASE DeleteWalk /\ pc' # "delete0"
  <2>1. /\ pc = "deleteWalk" /\ pc' \in {"deleteWalk", "deleteMax"}
        /\ loc'.gone = loc.gone
        /\ UNCHANGED << root, parent, key, value >>
    <3>1. pc = "deleteWalk" /\ UNCHANGED << root, parent, key, value >>
      BY <1>9 DEF DeleteWalk, At, tree
    <3>2. \/ pc' = "deleteWalk" /\ \E m : loc' = [loc EXCEPT !.n = m]
          \/ pc' = "deleteMax" /\ \E m, o : loc' = [loc EXCEPT !.held = o, !.n = m]
      BY <1>9, Zenon DEF DeleteWalk, Goto
    <3>3. CASE pc' = "deleteWalk" /\ \E m : loc' = [loc EXCEPT !.n = m]
      BY <1>2, <3>1, <3>3
    <3>4. CASE pc' = "deleteMax" /\ \E m, o : loc' = [loc EXCEPT !.held = o, !.n = m]
      <4>1. PICK m, o : loc' = [loc EXCEPT !.held = o, !.n = m]
        BY <3>4
      <4> QED
        BY <1>2, <3>1, <3>4, <4>1
    <3> QED
      BY <3>2, <3>3, <3>4, Zenon
  <2> QED
    BY <1>3, <1>4, <2>1
<1>10. CASE DeleteMax /\ pc' # "delete0"
  <2>1. /\ pc = "deleteMax" /\ pc' = "deleteMax"
        /\ loc'.gone = loc.gone
        /\ UNCHANGED << root, parent, key, value >>
    BY <1>2, <1>10 DEF DeleteMax, At, Goto
  <2> QED
    BY <1>3, <1>4, <2>1
<1>11. CASE BeginUnlink
  <2>1. /\ pc = "delete0" /\ pc' \in {"delete1", "unlink"}
        /\ loc'.gone = loc.n
        /\ UNCHANGED << root, parent, key, value >>
    BY <1>2, <1>11 DEF BeginUnlink, At, Goto
  <2>2. Moving = {} /\ Moving' = {} /\ Leaving' = Leaving
    BY <2>1 DEF Moving, Leaving
  <2> QED
    BY <1>3, <2>1, <2>2
<1>12. CASE DeleteCase1 \/ DeleteCase3 \/ DeleteCase4
  <2>1. /\ pc \in {"delete1", "delete3"} /\ pc' \in {"delete1", "delete2", "unlink"}
        /\ loc'.gone = loc.gone
        /\ UNCHANGED << root, parent, key, value >>
    BY <1>2, <1>12 DEF DeleteCase1, DeleteCase3, DeleteCase4, At, Goto, tree
  <2> QED
    BY <1>3, <1>4, <2>1
<1>13. CASE DeleteCase2 \/ DeleteCase5 \/ DeleteCase6
  <2>1. /\ pc \in {"delete2", "delete3", "delete6"}
        /\ pc' \in {"delete3", "delete6", "rotate1"}
        /\ loc'.gone = loc.gone
        /\ UNCHANGED << root, parent, key, value >>
    BY <1>2, <1>13, Zenon DEF DeleteCase2, DeleteCase5, DeleteCase6, At, Goto, BeginRotation
  <2> QED
    BY <1>3, <1>4, <2>1
<1> QED
  BY <1>5, <1>6, <1>7, <1>8, <1>9, <1>10, <1>11, <1>12, <1>13

\* A rotation moves nodes, but none in or out, not even for a moment.
LEMMA RotationKeepsNodes ==
  ASSUME FieldsInv, TreeInv, Rotate1 \/ Rotate2 \/ Rotate3
  PROVE  InTree' = InTree
<1>1. pc \in Rotating
  BY DEF Rotate1, Rotate2, Rotate3, At, Rotating
<1>2. PICK T : T = InTree /\ TreeInvOf(T)
  BY WhoIsInTree
<1>3. Turning(pc, rotation, loc, color, key, root, link, parent, T)
  BY <1>1, <1>2 DEF TreeInvOf, Resting
<1>4. PICK R0, L0, P0, B0, i : Midway(pc, rotation, root, link, parent, T, R0, L0, P0, B0, i)
  BY <1>3 DEF Turning
<1>5. PICK d, x, y : d = rotation.dir /\ x = rotation.node /\ y = rotation.up
  OBVIOUS
<1>6. /\ IsTree(T, R0, L0, P0, B0) /\ IsTurn(T, L0, d, x, y, i)
      /\ pc = "rotate1" => root = R0 /\ parent = P0
  BY <1>4, <1>5 DEF Midway
<1>7. x \in T /\ y \in T /\ x # y /\ T \subseteq Nodes /\ NULL \notin Nodes /\ d \in Dirs
  BY <1>6, TurnPlaces
<1>8. /\ parent \in [Nodes -> NodesOrNull]
      /\ \A n \in Nodes, e \in Dirs : link[e][n] \in T \cup {NULL}
  BY <1>1, <1>4, MidwayPointers DEF Pointers
<1>9. \A n \in Nodes : n \in T <=> parent[n] # NULL \/ n = root \/ n \in Moving
  BY <1>2 DEF InTree
<1>10. InTree' = {n \in Nodes : parent'[n] # NULL \/ n = root' \/ n \in Moving'}
  BY DEF InTree
<1>11. CASE Rotate1
  <2>1. /\ pc = "rotate1" /\ pc' = "rotate2" /\ rotation' = rotation
        /\ root' = IF parent[x] = NULL THEN y ELSE root
        /\ parent' = IF y = NULL THEN parent ELSE [parent EXCEPT ![y] = parent[x]]
    BY <1>5, <1>11 DEF Rotate1, At, Goto, RootReplaced, ParentReplaced
  <2>2. Moving = {} /\ Moving' = {x}
    BY <1>5, <2>1 DEF Moving
  <2>3. parent[x] = NULL <=> x = root
    BY <1>6, <1>7, <2>1, Children
  <2>4. \A n \in Nodes : parent'[n] = IF n = y THEN parent[x] ELSE parent[n]
    BY <1>7, <1>8, <2>1
  <2>5. ASSUME NEW n \in Nodes
        PROVE  n \in T <=> parent'[n] # NULL \/ n = root' \/ n = x
    <3>1. CASE n = x
      BY <1>7, <3>1
    <3>2. CASE n = y
      BY <1>7, <2>1, <2>4, <3>2
    <3>3. CASE n # x /\ n # y
      <4>1. n = root' <=> n = root
        BY <2>1, <2>3, <3>3
      <4> QED
        BY <1>9, <2>2, <2>4, <3>3, <4>1
    <3> QED
      BY <3>1, <3>2, <3>3
  <2> QED
    BY <1>2, <1>7, <1>10, <2>2, <2>5
<1>12. CASE Rotate2
  <2>1. PICK inner : inner = link[d][y]
    OBVIOUS
  <2>2. /\ pc = "rotate2" /\ pc' = "rotate3" /\ rotation' = rotation /\ root' = root
        /\ parent' = IF inner = NULL THEN parent ELSE [parent EXCEPT ![inner] = x]
    BY <1>5, <1>12, <2>1 DEF Rotate2, At, Goto, InnerChild
  <2>3. Moving' = Moving
    BY <2>2 DEF Moving
  <2>4. inner \in T \cup {NULL}
    BY <1>7, <1>8, <2>1
  <2>5. \A n \in Nodes : parent'[n] = IF n = inner THEN x ELSE parent[n]
    BY <1>7, <1>8, <2>2
  <2> QED
    BY <1>2, <1>7, <1>9, <1>10, <2>2, <2>3, <2>4, <2>5
<1>13. CASE Rotate3
  <2>1. /\ pc = "rotate3" /\ pc' = rotation.next /\ root' = root
        /\ parent' = [parent EXCEPT ![x] = y]
    BY <1>5, <1>13 DEF Rotate3, At, Goto
  <2>2. Moving = {x} /\ Moving' = {}
    BY <1>5, <2>1 DEF Moving, FieldsInv, Rotations, Resumed
  <2>3. \A n \in Nodes : parent'[n] = IF n = x THEN y ELSE parent[n]
    BY <1>7, <1>8, <2>1
  <2> QED
    BY <1>2, <1>7, <1>9, <1>10, <2>1, <2>2, <2>3
<1> QED
  BY <1>11, <1>12, <1>13

LEMMA QuietRotation ==
  ASSUME FieldsInv, TreeInv, TreeInv', LeavingInv, Rotate1 \/ Rotate2 \/ Rotate3
  PROVE  /\ InTree' = InTree /\ Contents' = Contents /\ LeavingInv'
         /\ key' = key /\ Leaving' \in {Leaving, NULL}
<1>1. InTree' = InTree
  BY RotationKeepsNodes
<1>2. key' = key /\ value' = value
  BY DEF Rotate1, Rotate2, Rotate3
<1>3. Leaving' \in {Leaving, NULL}
  <2>1. loc' = loc \/ loc' = NoLocals
    BY DEF Rotate1, Rotate2, Rotate3
  <2>2. pc # "delete0" /\ pc' # "delete0"
    BY DEF Rotate1, Rotate2, Rotate3, At, Goto, FieldsInv, Rotations, Resumed
  <2> QED
    BY <2>1, <2>2 DEF Leaving, NoLocals
<1> QED
  BY <1>1, <1>2, <1>3, QuietStep

\* A new node with a new address adds its entry.
LEMMA EntryAdded ==
  ASSUME TreeInv, TreeInv', NEW n, n \notin InTree, InTree' = InTree \cup {n},
         \A m \in InTree : key'[m] = key[m] /\ value'[m] = value[m],
         NEW a \in Addrs, NEW s \in Sizes, NEW v \in TypeTables,
         key'[n] = [addr |-> a, size |-> s], value'[n] = v,
         \A m \in InTree : key[m].addr # a
  PROVE  Map!MapNext
<1>1. Contents = {EntryOf(m) : m \in InTree}
  BY ContentsAre
<1>2. Contents' = {EntryOf(m)' : m \in InTree'}
  BY ContentsWillBe
<1>3. \A m \in InTree : EntryOf(m)' = EntryOf(m)
  BY DEF EntryOf
<1>4. EntryOf(n)' = [addr |-> a, size |-> s, value |-> v]
  BY DEF EntryOf
<1>5. Contents' = Contents \cup {[addr |-> a, size |-> s, value |-> v]}
  BY <1>1, <1>2, <1>3, <1>4
<1>6. Map!At(a) = {}
  <2>1. \A m \in InTree : EntryOf(m).addr = key[m].addr
    BY DEF EntryOf
  <2>2. \A e \in Contents : e.addr # a
    BY <1>1, <2>1
  <2> QED
    BY <2>2 DEF Map!At
<1>7. Map!Register(a, s, v)
  BY <1>5, <1>6 DEF Map!Register
<1> QED
  BY <1>7 DEF Map!MapNext

\* A tree outlives a node outside it, and an empty one gets its root.
LEMMA BeginInsertMaps ==
  ASSUME FieldsInv, TreeInv, TreeInv', NEW o \in Objects,
         BeginInsert(o.addr, o.size, o.value)
  PROVE  /\ Contents' = Contents \/ Map!MapNext
         /\ LeavingInv' /\ InTree \subseteq InTree' /\ Leaving' = NULL
         /\ \A m \in InTree : key'[m] = key[m]
<1>1. PICK n : n = FreeNode
  OBVIOUS
<1>2. /\ pc = "idle" /\ allocated # Nodes
      /\ key' = [key EXCEPT ![n] = [addr |-> o.addr, size |-> o.size]]
      /\ value' = [value EXCEPT ![n] = o.value]
      /\ parent' = [parent EXCEPT ![n] = NULL]
      /\ pc' \in {"insert1", "insertWalk"}
  BY <1>1 DEF BeginInsert, MayBegin, Goto
<1>3. n \in Nodes \ allocated
  BY <1>1, <1>2 DEF FieldsInv, FreeNode
<1>4. PICK T : T = InTree
  OBVIOUS
<1>5. /\ T \subseteq allocated
      /\ \E B, h : Fits(pc, loc, color, key, T, root, link, parent, B, h)
  BY <1>2, <1>4, TreeHere DEF Labels, Rotating
<1>6. PICK B : IsTree(T, root, link, parent, B) /\ key \in [Nodes -> Keys]
  BY <1>5 DEF Fits
<1>7. /\ n \notin T /\ parent \in [Nodes -> NodesOrNull] /\ parent[n] = NULL
      /\ (root # NULL => root \in T) /\ (root = NULL => T = {})
      /\ T \subseteq Nodes /\ NULL \notin Nodes
      /\ \A m \in Nodes \ T : parent[m] = NULL
  BY <1>3, <1>5, <1>6, Children DEF IsTree, IsLinked
<1>8. /\ parent' = parent
      /\ \A m \in T : key'[m] = key[m] /\ value'[m] = value[m]
      /\ key'[n] = [addr |-> o.addr, size |-> o.size] /\ value'[n] = o.value
  BY <1>2, <1>3, <1>6, <1>7 DEF FieldsInv
<1>9. Moving = {} /\ Moving' = {}
  BY <1>2 DEF Moving
<1>10. LeavingInv' /\ Leaving' = NULL
  <2>2. \/ loc' = [NoLocals EXCEPT !.n = n]
        \/ loc' = [NoLocals EXCEPT !.n = root, !.held = n, !.addr = o.addr]
    BY <1>1 DEF BeginInsert
  <2>3. loc'.gone = NULL
    <3>1. CASE loc' = [NoLocals EXCEPT !.n = n]
      BY <3>1 DEF NoLocals
    <3>2. CASE loc' = [NoLocals EXCEPT !.n = root, !.held = n, !.addr = o.addr]
      BY <3>2 DEF NoLocals
    <3> QED
      BY <2>2, <3>1, <3>2
  <2> QED
    BY <1>2, <2>3 DEF LeavingInv, Leaving
<1>11. CASE root = NULL
  <2>1. root' = n
    BY <1>1, <1>11 DEF BeginInsert
  <2>2. InTree' = T \cup {n}
    BY <1>3, <1>7, <1>8, <1>9, <1>11, <2>1 DEF InTree
  <2>3. o.addr \in Addrs /\ o.size \in Sizes /\ o.value \in TypeTables
    BY ConstantsAssumption
  <2>4. Map!MapNext
    BY <1>4, <1>7, <1>8, <1>11, <2>2, <2>3, EntryAdded
  <2> QED
    BY <1>4, <1>8, <1>10, <2>2, <2>4
<1>12. CASE root # NULL
  <2>1. root' = root
    BY <1>12 DEF BeginInsert
  <2>2. InTree' = T
    BY <1>4, <1>8, <1>9, <2>1, SameTree
  <2>3. Contents' = Contents
    BY <1>4, <1>8, <2>2, SameContents
  <2> QED
    BY <1>4, <1>8, <1>10, <2>2, <2>3
<1> QED
  BY <1>11, <1>12

\* The entry of the known node gets the new table.
LEMMA InsertKnownMaps ==
  ASSUME FieldsInv, TreeInv, TreeInv', InsertKnown
  PROVE  /\ Map!MapNext /\ LeavingInv' /\ InTree' = InTree /\ Leaving' = NULL
         /\ \A m \in InTree : key'[m] = key[m]
<1>1. /\ pc = "insertWalk" /\ pc' = "idle" /\ loc' = NoLocals
      /\ key[loc.n].addr = loc.addr
      /\ value' = [value EXCEPT ![loc.n] = value[loc.held], ![loc.held] = AnyTable]
      /\ key' = [key EXCEPT ![loc.held] = AnyKey]
      /\ root' = root /\ parent' = parent
  BY DEF InsertKnown, At, Return, Goto
<1>2. PICK T, n, q, v : T = InTree /\ n = loc.n /\ q = loc.held /\ v = value[q]
  OBVIOUS
<1>3. PICK B, h : Fits("insertWalk", loc, color, key, T, root, link, parent, B, h)
  BY <1>1, <1>2, TreeHere DEF Labels, Rotating
<1>4. n \in T /\ q \in Nodes \ T /\ T \subseteq Nodes /\ key \in [Nodes -> Keys]
  BY <1>2, <1>3, InHand, Children DEF Fits
<1>5. loc.gone = NULL /\ NULL \notin T
  BY <1>3, Children DEF Fits, PlaceInv, Settled, SettledInv
<1>6. \A m \in T : m # n => key[m].addr # key[n].addr
  <2>1. Leaving = NULL
    BY <1>1, <1>5 DEF Leaving
  <2> QED
    BY <1>1, <1>2, <1>4, <1>5, <2>1, AddressesDifferHere DEF Labels, Rotating
<1>7. /\ \A m \in T : key'[m] = key[m] /\ value'[m] = IF m = n THEN v ELSE value[m]
      /\ v \in TypeTables
  BY <1>1, <1>2, <1>4 DEF FieldsInv
<1>8. InTree' = T
  <2>1. Moving = {} /\ Moving' = {}
    BY <1>1 DEF Moving
  <2> QED
    BY <1>1, <1>2, <2>1, SameTree
<1>9. Contents = {EntryOf(m) : m \in T} /\ Contents' = {EntryOf(m)' : m \in T}
  BY <1>2, <1>8, ContentsAre, ContentsWillBe
<1>10. PICK a : a = key[n].addr
  OBVIOUS
<1>11. a \in Addrs
  BY <1>4, <1>10, AddressesAreNumbers
<1>12. \A m \in T : EntryOf(m).addr = a <=> m = n
  BY <1>6, <1>10 DEF EntryOf
<1>13. Map!At(a) = {EntryOf(n)}
  BY <1>4, <1>9, <1>12 DEF Map!At
<1>14. \A m \in T : m # n => EntryOf(m)' = EntryOf(m)
  BY <1>7 DEF EntryOf
<1>15. EntryOf(n)' = [EntryOf(n) EXCEPT !.value = v]
  BY <1>4, <1>7 DEF EntryOf
<1>16. Contents' = (Contents \ {EntryOf(n)}) \cup {[EntryOf(n) EXCEPT !.value = v]}
  <2>1. \A m \in T : EntryOf(m) = EntryOf(n) => m = n
    BY <1>4, <1>12
  <2>2. Contents \ {EntryOf(n)} = {EntryOf(m) : m \in T \ {n}}
    BY <1>9, <2>1
  <2>3. Contents' = {EntryOf(m)' : m \in T \ {n}} \cup {EntryOf(n)'}
    BY <1>4, <1>9
  <2>4. {EntryOf(m)' : m \in T \ {n}} = {EntryOf(m) : m \in T \ {n}}
    BY <1>14
  <2> QED
    BY <1>15, <2>2, <2>3, <2>4
<1>17. PICK s : s \in Sizes
  BY ConstantsAssumption
<1>18. Map!Register(a, s, v)
  BY <1>13, <1>16 DEF Map!Register
<1>19. Map!MapNext
  BY <1>7, <1>11, <1>17, <1>18 DEF Map!MapNext
<1>20. LeavingInv' /\ Leaving' = NULL
  BY <1>1 DEF LeavingInv, Leaving, NoLocals
<1> QED
  BY <1>2, <1>7, <1>8, <1>19, <1>20

\* When the walk of an insertion ends at a node with nothing on the side of the
\* new address, no node has that address.
LEMMA AddressIsNew ==
  ASSUME NEW l, NEW c, NEW K, NEW T, NEW R, NEW L, NEW P, NEW B, NEW h,
         Fits("insertWalk", l, c, K, T, R, L, P, B, h), K[l.n].addr # l.addr,
         L[TowardIn(K, l.addr, l.n)][l.n] = NULL
  PROVE  \A m \in T : K[m].addr # l.addr
<1> DEFINE Good == {r \in T : l.n \in B[r] => \A m \in B[r] : K[m].addr # l.addr}
<1>1. PICK n, a, d : n = l.n /\ a = l.addr /\ d = TowardIn(K, a, n)
  OBVIOUS
<1>2. /\ IsTree(T, R, L, P, B) /\ K \in [Nodes -> Keys] /\ n \in T
      /\ a = K[l.held].addr /\ l.held \in Nodes
      /\ \A r \in T, e \in Dirs : L[e][r] # NULL /\ n \in B[L[e][r]] => Beside(e, a, K[r].addr)
  BY <1>1 DEF Fits, PlaceInv, InsertWalkInv
<1>3. IsOrdered(T, L, B, K, NULL) /\ NULL \notin T
  BY <1>2, Children DEF Fits, OrderGone, PlaceInv, Settled, SettledInv
<1>4. a \in Nat /\ \A m \in T : K[m].addr \in Nat
  BY <1>2, Children, AddressesAreNumbers
<1>5. \A r \in T, e \in Dirs : L[e][r] # NULL =>
        \A m \in B[L[e][r]] : Beside(e, K[m].addr, K[r].addr)
  <2>1. \A r \in T, e \in Dirs : L[e][r] # NULL => NULL \notin B[L[e][r]]
    BY <1>2, <1>3, Descendants
  <2> QED
    BY <1>3, <2>1 DEF IsOrdered
<1>6. /\ d \in Dirs /\ L[d][n] = NULL /\ K[n].addr # a
      /\ Beside(d, a, K[n].addr)
  BY <1>1, <1>2, <1>4 DEF TowardIn, Beside, Dirs
<1>7. ASSUME NEW e \in Dirs, NEW f \in Dirs, e # f, NEW x \in Nat, NEW y \in Nat,
             NEW z \in Nat, Beside(e, x, z), Beside(f, y, z)
      PROVE  x # y
  BY <1>7 DEF Beside, Dirs
<1>8. ASSUME NEW r \in T, \A e \in Dirs : L[e][r] # NULL => L[e][r] \in Good
      PROVE  r \in Good
  <2> SUFFICES ASSUME n \in B[r], NEW m \in B[r] PROVE K[m].addr # a
    BY <1>1
  <2>1. m \in T /\ K[m].addr \in Nat /\ K[r].addr \in Nat
    BY <1>2, <1>4, Descendants
  <2>2. PICK f \in Dirs : /\ Beside(f, a, K[r].addr)
                          /\ r # n => L[f][r] # NULL /\ n \in B[L[f][r]]
                          /\ r = n => L[f][r] = NULL
    <3>1. CASE r = n
      BY <1>6, <3>1
    <3>2. CASE r # n
      <4>1. PICK f \in Dirs : L[f][r] # NULL /\ n \in B[L[f][r]]
        BY <1>2, <3>2, Descendants
      <4>2. Beside(f, a, K[r].addr)
        BY <1>2, <4>1
      <4> QED
        BY <3>2, <4>1, <4>2
    <3> QED
      BY <3>1, <3>2
  <2>3. CASE m = r
    BY <1>4, <2>1, <2>2, <2>3 DEF Beside
  <2>4. CASE m # r
    <3>1. PICK e \in Dirs : L[e][r] # NULL /\ m \in B[L[e][r]]
      BY <1>2, <2>4, Descendants
    <3>2. CASE e = f
      <4>1. L[e][r] \in Good /\ n \in B[L[e][r]]
        BY <1>8, <2>2, <3>1, <3>2
      <4> QED
        BY <1>1, <3>1, <4>1
    <3>3. CASE e # f
      <4>1. Beside(e, K[m].addr, K[r].addr)
        BY <1>5, <3>1
      <4> QED
        BY <1>4, <1>7, <2>1, <2>2, <3>3, <4>1
    <3> QED
      BY <3>2, <3>3
  <2> QED
    BY <2>3, <2>4
<1>9. T \subseteq Good
  <2> HIDE DEF Good
  <2> QED
    BY <1>2, <1>8, TreeInduction
<1>10. R \in T /\ B[R] = T
  BY <1>2 DEF IsTree, IsLinked, IsBelow
<1> QED
  BY <1>1, <1>2, <1>9, <1>10

\* The new leaf is the entry.
LEMMA InsertLeafMaps ==
  ASSUME FieldsInv, TreeInv, TreeInv', InsertWalk, link' # link
  PROVE  /\ Map!MapNext /\ LeavingInv' /\ InTree \subseteq InTree' /\ Leaving' = NULL
         /\ \A m \in InTree : key'[m] = key[m]
<1>1. /\ pc = "insertWalk" /\ key[loc.n].addr # loc.addr
      /\ UNCHANGED << root, key, value >>
  BY DEF InsertWalk, At
<1>2. PICK T, n, q, d : T = InTree /\ n = loc.n /\ q = loc.held /\ d = TowardIn(key, loc.addr, n)
  OBVIOUS
<1>3. /\ link[d][n] = NULL /\ pc' = "insert1" /\ loc' = [loc EXCEPT !.n = q]
      /\ parent' = [parent EXCEPT ![q] = n]
  BY <1>2 DEF InsertWalk, Goto, Toward, TowardIn
<1>4. PICK B, h : Fits("insertWalk", loc, color, key, T, root, link, parent, B, h)
  BY <1>1, <1>2, TreeHere DEF Labels, Rotating
<1>5. /\ n \in T /\ q \in Nodes \ T /\ T \subseteq Nodes /\ key \in [Nodes -> Keys]
      /\ IsTree(T, root, link, parent, B) /\ key[q].addr = loc.addr /\ loc.gone = NULL
  BY <1>2, <1>4, InHand, Children DEF Fits, PlaceInv, InsertWalkInv, Settled, SettledInv
<1>6. /\ parent \in [Nodes -> NodesOrNull] /\ NULL \notin Nodes
  BY <1>5, Children DEF IsTree, IsLinked
<1>7. \A m \in T : key[m].addr # key[q].addr
  BY <1>1, <1>2, <1>3, <1>4, <1>5, AddressIsNew
<1>8. InTree' = T \cup {q}
  <2>1. Moving = {} /\ Moving' = {}
    BY <1>1, <1>3 DEF Moving
  <2>2. \A m \in Nodes : parent'[m] = IF m = q THEN n ELSE parent[m]
    BY <1>3, <1>5, <1>6
  <2>3. T = {m \in Nodes : parent[m] # NULL \/ m = root}
    BY <1>2, <2>1 DEF InTree
  <2>4. InTree' = {m \in Nodes : parent'[m] # NULL \/ m = root}
    BY <1>1, <2>1 DEF InTree
  <2> QED
    BY <1>5, <1>6, <2>2, <2>3, <2>4
<1>9. PICK a, s : a = key[q].addr /\ s = key[q].size
  OBVIOUS
<1>10. a \in Addrs /\ s \in Sizes /\ value[q] \in TypeTables /\ key[q] = [addr |-> a, size |-> s]
  BY <1>5, <1>9 DEF FieldsInv, Keys
<1>11. Map!MapNext
  <2>1. PICK v : v = value[q]
    OBVIOUS
  <2>2. /\ q \notin InTree /\ InTree' = InTree \cup {q}
        /\ \A m \in InTree : key'[m] = key[m] /\ value'[m] = value[m]
        /\ key'[q] = [addr |-> a, size |-> s] /\ value'[q] = v /\ v \in TypeTables
        /\ \A m \in InTree : key[m].addr # a
    BY <1>1, <1>2, <1>5, <1>7, <1>8, <1>9, <1>10, <2>1
  <2> QED
    BY <1>10, <2>2, EntryAdded
<1>12. LeavingInv' /\ Leaving' = NULL
  <2>1. loc'.gone = NULL
    BY <1>3, <1>5 DEF FieldsInv, Locals
  <2> QED
    BY <1>3, <2>1 DEF LeavingInv, Leaving
<1> QED
  BY <1>1, <1>2, <1>8, <1>11, <1>12

\* The address of the node found is no other node's.
LEMMA DeleteFoundMaps ==
  ASSUME FieldsInv, TreeInv, TreeInv', DeleteWalk, pc' = "delete0"
  PROVE  /\ Contents' = Contents /\ LeavingInv'
         /\ InTree' = InTree /\ key' = key /\ Leaving' = loc.n
         /\ \A m \in InTree : m # loc.n => key[m].addr # key[loc.n].addr
<1>1. pc = "deleteWalk" /\ loc' = loc /\ UNCHANGED << root, key, value, parent >>
  BY DEF DeleteWalk, At, Goto, tree
<1>2. PICK T, n : T = InTree /\ n = loc.n
  OBVIOUS
<1>3. PICK B, h : Fits("deleteWalk", loc, color, key, T, root, link, parent, B, h)
  BY <1>1, <1>2, TreeHere DEF Labels, Rotating
<1>4. loc.gone = NULL /\ NULL \notin T /\ n \in T \cup {NULL} /\ n # NULL
  BY <1>2, <1>3, Children DEF Fits, PlaceInv, Settled, SettledInv, DeleteWalk
<1>5. InTree' = T
  <2>1. Moving = {} /\ Moving' = {}
    BY <1>1 DEF Moving
  <2> QED
    BY <1>1, <1>2, <2>1, SameTree
<1>6. Contents' = Contents
  BY <1>1, <1>2, <1>5, SameContents
<1>7. \A m \in T : m # n => key[m].addr # key[n].addr
  <2>1. Leaving = NULL
    BY <1>1, <1>4 DEF Leaving
  <2> QED
    BY <1>1, <1>2, <1>4, <2>1, AddressesDifferHere DEF Labels, Rotating
<1>8. Leaving' = n
  BY <1>1, <1>2 DEF Leaving
<1>9. \A m \in InTree' : key'[m].addr = key'[Leaving'].addr => m = Leaving'
  BY <1>1, <1>5, <1>7, <1>8
<1>10. \A m : EntryOf(m)' = [addr |-> key'[m].addr, size |-> key'[m].size, value |-> value'[m]]
  BY DEF EntryOf
<1>11. LeavingInv'
  BY <1>9, <1>10 DEF LeavingInv, EntryOf
<1> QED
  BY <1>1, <1>2, <1>5, <1>6, <1>7, <1>8, <1>11

\* The predecessor's entry overwrites the one to delete, and is there twice.
LEMMA DeleteMaxMaps ==
  ASSUME FieldsInv, TreeInv, TreeInv', DeleteMax, pc' = "delete0"
  PROVE  /\ Map!MapNext /\ LeavingInv'
         /\ InTree' = InTree /\ Leaving' = loc.n /\ loc.held \in InTree \ {loc.n}
         /\ \A m, k \in InTree : m # k => key[m].addr # key[k].addr
         /\ \A m \in InTree : key'[m] = IF m = loc.held THEN key[loc.n] ELSE key[m]
<1>1. PICK T, n, g : T = InTree /\ n = loc.n /\ g = loc.held
  OBVIOUS
<1>2. /\ pc = "deleteMax" /\ loc' = loc /\ UNCHANGED << root, parent >>
      /\ key' = [key EXCEPT ![g] = key[n]] /\ value' = [value EXCEPT ![g] = value[n]]
  BY <1>1 DEF DeleteMax, At, Goto, CopiedValue
<1>3. PICK B, h : Fits("deleteMax", loc, color, key, T, root, link, parent, B, h)
  BY <1>1, <1>2, TreeHere DEF Labels, Rotating
<1>4. loc.gone = NULL
  BY <1>3 DEF Fits, PlaceInv, Settled, SettledInv
<1>5. /\ IsTree(T, root, link, parent, B) /\ key \in [Nodes -> Keys]
      /\ DeleteMaxInv(T, link, B, key, loc)
  BY <1>3 DEF Fits, PlaceInv
<1>6. /\ g \in T /\ link["left"][g] # NULL /\ n \in B[link["left"][g]]
      /\ T \subseteq Nodes /\ NULL \notin T
  <2>1. "left" \in Dirs
    BY DEF Dirs
  <2>2. g \in T /\ link["left"][g] # NULL /\ n \in B[link["left"][g]]
    BY <1>1, <1>5, <2>1 DEF DeleteMaxInv
  <2> QED
    BY <1>5, <2>2, Children
<1>7. n \in T /\ n # g
  <2>1. "left" \in Dirs
    BY DEF Dirs
  <2> QED
    BY <1>5, <1>6, <2>1, Descendants
<1>8. \A m, k \in T : m # k => key[m].addr # key[k].addr
  <2>1. Leaving = NULL
    BY <1>2, <1>4 DEF Leaving
  <2> QED
    BY <1>1, <1>2, <1>6, <2>1, AddressesDifferHere DEF Labels, Rotating
<1>9. InTree' = T
  <2>1. Moving = {} /\ Moving' = {}
    BY <1>2 DEF Moving
  <2> QED
    BY <1>1, <1>2, <2>1, SameTree
<1>10. Contents = {EntryOf(m) : m \in T} /\ Contents' = {EntryOf(m)' : m \in T}
  BY <1>1, <1>9, ContentsAre, ContentsWillBe
<1>11. /\ \A m \in T : m # g => key'[m] = key[m] /\ value'[m] = value[m]
       /\ key'[g] = key[n] /\ value'[g] = value[n]
  BY <1>2, <1>5, <1>6 DEF FieldsInv
<1>12. /\ \A m \in T : m # g => EntryOf(m)' = EntryOf(m)
       /\ EntryOf(g)' = EntryOf(n)
  BY <1>11 DEF EntryOf
<1>13. PICK a : a = key[g].addr
  OBVIOUS
<1>14. \A m \in T : EntryOf(m).addr = a <=> m = g
  BY <1>6, <1>8, <1>13 DEF EntryOf
<1>15. Map!At(a) = {EntryOf(g)}
  BY <1>6, <1>10, <1>14 DEF Map!At
<1>16. Contents' = Contents \ {EntryOf(g)}
  <2>1. \A m \in T : EntryOf(m) = EntryOf(g) => m = g
    BY <1>6, <1>14
  <2>2. Contents \ {EntryOf(g)} = {EntryOf(m) : m \in T \ {g}}
    BY <1>10, <2>1
  <2>3. Contents' = {EntryOf(m)' : m \in T \ {g}} \cup {EntryOf(g)'}
    BY <1>6, <1>10
  <2>4. {EntryOf(m)' : m \in T \ {g}} = {EntryOf(m) : m \in T \ {g}}
    BY <1>12
  <2> QED
    BY <1>7, <1>12, <2>2, <2>3, <2>4
<1>17. Map!Unregister(a)
  BY <1>15, <1>16 DEF Map!Unregister
<1>18. a \in Addrs
  BY <1>5, <1>6, <1>13, AddressesAreNumbers
<1>19. Map!MapNext
  BY <1>17, <1>18 DEF Map!MapNext
<1>20. Leaving' = n
  BY <1>1, <1>2 DEF Leaving
<1>21. \A m \in T : key'[m].addr = key'[n].addr => m = n \/ m = g
  BY <1>7, <1>8, <1>11
<1>22. \A m \in T : key'[m].addr = key'[n].addr => EntryOf(m)' = EntryOf(n)'
  BY <1>7, <1>12, <1>21
<1>23. EntryOf(n)' = EntryOf(Leaving)'
  BY <1>20 DEF EntryOf
<1>24. LeavingInv'
  BY <1>9, <1>20, <1>22, <1>23 DEF LeavingInv
<1> QED
  BY <1>1, <1>6, <1>7, <1>8, <1>9, <1>11, <1>19, <1>20, <1>24

\* The node unlinked takes its entry along, unless the entry was copied first.
LEMMA UnlinkMaps ==
  ASSUME FieldsInv, TreeInv, TreeInv', LeavingInv, Unlink
  PROVE  /\ Contents' = Contents \/ Map!MapNext
         /\ LeavingInv' /\ Leaving' = NULL
         /\ InTree' = InTree \ {loc.gone} /\ \A m \in InTree' : key'[m] = key[m]
         /\ loc.gone \in InTree /\ loc.gone # NULL
<1>1. PICK T, g, q : T = InTree /\ g = loc.gone /\ q = loc.held
  OBVIOUS
<1>2. /\ pc = "unlink" /\ pc' = "idle" /\ loc' = NoLocals
      /\ root' = (IF parent[g] = NULL THEN q ELSE root)
      /\ parent' = SplicedParent(parent, g, q)
      /\ key' = [key EXCEPT ![g] = AnyKey] /\ value' = [value EXCEPT ![g] = AnyTable]
  BY <1>1 DEF Unlink, At, Return, Goto, RootReplaced, ParentReplaced, SplicedParent
<1>3. PICK B, h : Fits("unlink", loc, color, key, T, root, link, parent, B, h)
  BY <1>1, <1>2, TreeHere DEF Labels, Rotating
<1>4. /\ IsTree(T, root, link, parent, B) /\ key \in [Nodes -> Keys]
      /\ IsSplice(T, link, g, q)
  BY <1>1, <1>3 DEF Fits, PlaceInv, UnlinkInv, GoneInv, IsSplice
<1>5. /\ g \in T /\ g # NULL /\ NULL \notin T /\ T \subseteq Nodes /\ NULL \notin Nodes
      /\ q \in T \cup {NULL} /\ q # g /\ (parent[g] = NULL <=> g = root)
      /\ parent \in [Nodes -> NodesOrNull]
  <2>1. parent \in [Nodes -> NodesOrNull]
    BY <1>4 DEF IsTree, IsLinked
  <2> QED
    BY <1>4, <2>1, SplicePlaces
<1>6. \A m \in Nodes : parent'[m] = IF m = g THEN NULL ELSE IF m = q THEN parent[g]
                                    ELSE parent[m]
  BY <1>2, <1>5 DEF SplicedParent
<1>7. InTree' = T \ {g}
  <2>1. Moving = {} /\ Moving' = {}
    BY <1>2 DEF Moving
  <2>2. InTree' = {m \in Nodes : parent'[m] # NULL \/ m = root'}
    BY <2>1 DEF InTree
  <2>3. T = {m \in Nodes : parent[m] # NULL \/ m = root}
    BY <1>1, <2>1 DEF InTree
  <2>4. ASSUME NEW m \in Nodes
        PROVE  parent'[m] # NULL \/ m = root' <=> m \in T /\ m # g
    <3>1. CASE m = g
      BY <1>2, <1>5, <1>6, <3>1
    <3>2. CASE m = q
      BY <1>2, <1>5, <1>6, <3>2
    <3>3. CASE m # g /\ m # q
      BY <1>2, <1>5, <1>6, <2>3, <3>3
    <3> QED
      BY <3>1, <3>2, <3>3
  <2> QED
    BY <1>5, <2>2, <2>4
<1>8. Contents = {EntryOf(m) : m \in T} /\ Contents' = {EntryOf(m)' : m \in T \ {g}}
  BY <1>1, <1>7, ContentsAre, ContentsWillBe
<1>9. \A m \in T \ {g} : EntryOf(m)' = EntryOf(m)
  <2>1. \A m \in T \ {g} : key'[m] = key[m] /\ value'[m] = value[m]
    BY <1>2, <1>4, <1>5 DEF FieldsInv
  <2> QED
    BY <2>1 DEF EntryOf
<1>10. Contents' = {EntryOf(m) : m \in T \ {g}}
  BY <1>8, <1>9
<1>11. PICK a : a = key[g].addr
  OBVIOUS
<1>12. \A m \in T : key[m].addr = a => EntryOf(m) = EntryOf(g)
  BY <1>1, <1>2, <1>5, <1>11 DEF LeavingInv, Leaving
<1>13. LeavingInv' /\ Leaving' = NULL
  BY <1>2 DEF LeavingInv, Leaving, NoLocals
<1>14. ASSUME \E m \in T \ {g} : key[m].addr = a
       PROVE  Contents' = Contents \/ Map!MapNext
  BY <1>8, <1>10, <1>12, <1>13, <1>14
<1>15. ASSUME \A m \in T \ {g} : key[m].addr # a
       PROVE  Contents' = Contents \/ Map!MapNext
  <2>1. \A m \in T : EntryOf(m).addr = a <=> m = g
    BY <1>5, <1>11, <1>15 DEF EntryOf
  <2>2. Map!At(a) = {EntryOf(g)}
    BY <1>5, <1>8, <2>1 DEF Map!At
  <2>3. Contents' = Contents \ {EntryOf(g)}
    <3>1. \A m \in T : EntryOf(m) = EntryOf(g) => m = g
      BY <1>5, <2>1
    <3> QED
      BY <1>8, <1>10, <3>1
  <2>4. Map!Unregister(a)
    BY <2>2, <2>3 DEF Map!Unregister
  <2>5. a \in Addrs
    BY <1>4, <1>5, <1>11, AddressesAreNumbers
  <2> QED
    BY <1>13, <2>4, <2>5 DEF Map!MapNext
<1>16. \A m \in InTree' : key'[m] = key[m]
  BY <1>2, <1>4, <1>5, <1>7
<1> QED
  BY <1>1, <1>5, <1>7, <1>13, <1>14, <1>15, <1>16

\* Lookups and stuttering steps
LEMMA NoWriterStep ==
  ASSUME TreeInv, TreeInv', LeavingInv, UNCHANGED << tree, pc, loc, rotation >>
  PROVE  Contents' = Contents /\ LeavingInv'
<1>1. InTree' = InTree /\ key' = key /\ value' = value
  BY DEF InTree, Moving, tree
<1>2. Leaving' = Leaving
  BY DEF Leaving
<1> QED
  BY <1>1, <1>2, QuietStep

LEMMA WriterMaps ==
  ASSUME FieldsInv, TreeInv, TreeInv', LeavingInv, WriterStep
  PROVE  (Contents' = Contents \/ Map!MapNext) /\ LeavingInv'
<1>1. CASE Rotate1 \/ Rotate2 \/ Rotate3
  BY <1>1, QuietRotation
<1>2. CASE InsertKnown
  BY <1>2, InsertKnownMaps
<1>3. CASE InsertWalk
  BY <1>3, InsertLeafMaps, QuietActions
<1>4. CASE InsertCase1 \/ InsertCase2 \/ InsertCase3 \/ InsertCase4 \/ InsertCase5
  BY <1>4, QuietActions
<1>5. CASE DeleteUnknown \/ BeginUnlink
  BY <1>5, QuietActions
<1>6. CASE DeleteWalk
  BY <1>6, DeleteFoundMaps, QuietActions
<1>7. CASE DeleteMax
  BY <1>7, DeleteMaxMaps, QuietActions
<1>8. CASE \/ DeleteCase1 \/ DeleteCase2 \/ DeleteCase3 \/ DeleteCase4 \/ DeleteCase5
           \/ DeleteCase6
  BY <1>8, QuietActions
<1>9. CASE Unlink
  BY <1>9, UnlinkMaps
<1> QED
  BY <1>1, <1>2, <1>3, <1>4, <1>5, <1>6, <1>7, <1>8, <1>9 DEF WriterStep

LEMMA NextMaps ==
  ASSUME RbInv, RbInv', LeavingInv, [Next]_vars
  PROVE  (Contents' = Contents \/ Map!MapNext) /\ LeavingInv'
<1>1. FieldsInv /\ TreeInv /\ TreeInv'
  BY DEF RbInv
<1>2. CASE WriterStep
  BY <1>1, <1>2, WriterMaps
<1>3. CASE \E o \in Objects : BeginInsert(o.addr, o.size, o.value)
  BY <1>1, <1>3, BeginInsertMaps
<1>4. CASE \E a \in Addrs : BeginDelete(a)
  BY <1>1, <1>4, QuietActions
<1>5. CASE \E r \in Readers : LookupStep(r) \/ \E a \in Probed : BeginLookup(r, a)
  <2>1. UNCHANGED << tree, pc, loc, rotation >>
    BY <1>5 DEF LookupStep, BeginLookup
  <2> QED
    BY <1>1, <2>1, NoWriterStep
<1>6. CASE UNCHANGED vars
  <2>1. UNCHANGED << tree, pc, loc, rotation >>
    BY <1>6 DEF vars
  <2> QED
    BY <1>1, <2>1, NoWriterStep
<1> QED
  BY <1>2, <1>3, <1>4, <1>5, <1>6 DEF Next

LEMMA LeavingHolds == Spec => []LeavingInv
<1>1. Init => LeavingInv
  BY DEF Init, LeavingInv, Leaving, NoLocals
<1>2. RbInv /\ RbInv' /\ LeavingInv /\ [Next]_vars => LeavingInv'
  BY NextMaps
<1> QED
  BY <1>1, <1>2, InvariantHolds, PTL DEF Spec

\* Pointer by pointer, with its rotations and copied keys, the tree is the
\* interval map: an operation changes the contents in one step, rebalancing not.
THEOREM TreeImplementsMap == Spec => ImplementsMap
<1>1. Init => Map!MapInit
  <2> SUFFICES ASSUME Init PROVE Map!MapInit
    OBVIOUS
  <2>1. InTree = {}
    BY ConstantsAssumption DEF Init, InTree, Moving
  <2>2. TreeInv
    BY InitHasRbInv DEF RbInv
  <2>3. Contents = {}
    BY <2>1, <2>2, ContentsAre
  <2> QED
    BY <2>3 DEF Map!MapInit
<1>2. RbInv /\ RbInv' /\ LeavingInv /\ [Next]_vars => [Map!MapNext]_Contents
  BY NextMaps
<1> QED
  BY <1>1, <1>2, InvariantHolds, LeavingHolds, PTL DEF Spec, ImplementsMap, Map!MapSpec

-----------------------------------------------------------------------------
(* Lookups *)

\* Where the writer of the tree of globals can be: it deletes nothing.
Inserting == {"idle", "insertWalk", "insert1", "insert5"} \cup Rotating

\* Whatever covers the address is still below the node.
NotMissed(a, n) ==
  \A B : IsTree(InTree, root, link, parent, B) =>
    \A m \in InTree : ~Before(a, m) /\ ~Beyond(a, m) => n # NULL /\ m \in B[n]

SearchInv(r) ==
  find[r].searching =>
    /\ find[r].result = {}
    /\ find[r].node \in InTree \cup {NULL}
    /\ ~find[r].disturbed =>
         pc = "idle" /\ (Disjoint => NotMissed(find[r].addr, find[r].node))

LookInv ==
  /\ Shared => pc \in Inserting /\ rotation.next \in {"idle", "insert5"}
  /\ ~Shared /\ pc # "idle" => Searching = {}
  /\ \A r \in Readers : SearchInv(r)

LEMMA PointersHere ==
  ASSUME TreeInv
  PROVE  Pointers(InTree, root, link, parent)
<1>1. PICK T : T = InTree /\ TreeInvOf(T)
  BY WhoIsInTree
<1>2. CASE Resting(pc, loc, color, key, root, link, parent, T)
  BY <1>1, <1>2, TreePointers DEF Resting, Fits
<1>3. CASE Turning(pc, rotation, loc, color, key, root, link, parent, T)
  BY <1>1, <1>3, MidwayPointers DEF Turning
<1> QED
  BY <1>1, <1>2, <1>3 DEF TreeInvOf

\* What is known of the tree between operations
LEMMA IdleTree ==
  ASSUME TreeInv, pc = "idle" \/ pc = "deleteWalk"
  PROVE  /\ \E B : IsTree(InTree, root, link, parent, B) /\ key \in [Nodes -> Keys]
         /\ \A m, n \in InTree : m # n => key[m].addr # key[n].addr
         /\ \A B : IsTree(InTree, root, link, parent, B) =>
              \A n \in InTree, d \in Dirs : link[d][n] # NULL =>
                \A m \in B[link[d][n]] : Beside(d, key[m].addr, key[n].addr)
<1>1. PICK T, B, h : /\ T = InTree
                     /\ Fits(pc, loc, color, key, T, root, link, parent, B, h)
  BY TreeHere DEF Labels, Rotating
<1>2. IsTree(T, root, link, parent, B) /\ key \in [Nodes -> Keys]
  BY <1>1 DEF Fits
<1>3. IsOrdered(T, link, B, key, NULL) /\ loc.gone = NULL
  BY <1>1 DEF Fits, OrderGone, PlaceInv, Settled, SettledInv
<1>4. NULL \notin T
  BY <1>2, Children
<1>5. \A m, n \in T : m # n => key[m].addr # key[n].addr
  <2>1. NULL \notin T /\ (NULL \in T => \E d \in Dirs : link[d][NULL] = NULL)
    BY <1>4
  <2> QED
    BY <1>2, <1>3, <2>1, AddressesDiffer
<1>6. ASSUME NEW C, IsTree(T, root, link, parent, C)
      PROVE  \A n \in T : C[n] = B[n]
  <2> DEFINE Same == {n \in T : C[n] = B[n]}
  <2>1. ASSUME NEW n \in T, \A d \in Dirs : link[d][n] # NULL => link[d][n] \in Same
        PROVE  n \in Same
    <3>1. ASSUME NEW m \in B[n] PROVE m \in C[n]
      <4>1. CASE m = n
        BY <1>6, <4>1, Descendants
      <4>2. CASE m # n
        <5>1. PICK d \in Dirs : link[d][n] # NULL /\ m \in B[link[d][n]]
          BY <1>2, <4>2, Descendants
        <5>2. C[link[d][n]] = B[link[d][n]] /\ C[link[d][n]] \subseteq C[n]
          BY <1>6, <2>1, <5>1, Descendants
        <5> QED
          BY <5>1, <5>2
      <4> QED
        BY <4>1, <4>2
    <3>2. ASSUME NEW m \in C[n] PROVE m \in B[n]
      <4>1. CASE m = n
        BY <1>2, <4>1, Descendants
      <4>2. CASE m # n
        <5>1. PICK d \in Dirs : link[d][n] # NULL /\ m \in C[link[d][n]]
          BY <1>6, <4>2, Descendants
        <5>2. C[link[d][n]] = B[link[d][n]] /\ B[link[d][n]] \subseteq B[n]
          BY <1>2, <2>1, <5>1, Descendants
        <5> QED
          BY <5>1, <5>2
      <4> QED
        BY <4>1, <4>2
    <3> QED
      BY <3>1, <3>2
  <2>2. T \subseteq Same
    <3> HIDE DEF Same
    <3> QED
      BY <1>2, <2>1, TreeInduction
  <2> QED
    BY <2>2
<1>7. ASSUME NEW C, IsTree(T, root, link, parent, C), NEW n \in T, NEW d \in Dirs,
             link[d][n] # NULL, NEW m \in C[link[d][n]]
      PROVE  Beside(d, key[m].addr, key[n].addr)
  <2>1. link[d][n] \in T /\ B[link[d][n]] \subseteq T
    BY <1>2, <1>7, Descendants
  <2>2. m \in B[link[d][n]] /\ m # NULL /\ n # NULL
    BY <1>4, <1>6, <1>7, <2>1
  <2> QED
    BY <1>3, <1>7, <2>2 DEF IsOrdered
<1> QED
  BY <1>1, <1>2, <1>5, <1>7

\* Objects that do not overlap, in terms of the nodes
LEMMA DisjointNodes ==
  ASSUME TreeInv, Disjoint
  PROVE  \A m, n \in InTree : key[m].addr < key[n].addr =>
           key[m].addr + key[m].size <= key[n].addr
<1>1. Contents = {EntryOf(n) : n \in InTree}
  BY ContentsAre
<1>2. \A n : EntryOf(n).addr = key[n].addr /\ EntryOf(n).size = key[n].size
  BY DEF EntryOf
<1> QED
  BY <1>1, <1>2 DEF Disjoint

\* A search goes where the object must be, and stops at it.
LEMMA SearchGoesOn ==
  ASSUME TreeInv, pc = "idle", Disjoint, NEW a \in Nat, NEW n \in InTree, NotMissed(a, n)
  PROVE  /\ Before(a, n) => NotMissed(a, link["left"][n])
         /\ ~Before(a, n) /\ Beyond(a, n) => NotMissed(a, link["right"][n])
         /\ ~Before(a, n) /\ ~Beyond(a, n) => Covering(a) = {EntryOf(n)}
<1>1. PICK T : T = InTree
  OBVIOUS
<1>2. /\ \A m, k \in T : m # k => key[m].addr # key[k].addr
      /\ \A m, k \in T : key[m].addr < key[k].addr =>
           key[m].addr + key[m].size <= key[k].addr
      /\ \A m \in T : key[m].addr \in Nat /\ key[m].size \in Nat
  <2>1. T \subseteq Nodes /\ key \in [Nodes -> Keys]
    BY <1>1, IdleTree, PointersHere DEF Pointers
  <2>2. \A m \in T : key[m].addr \in Nat /\ key[m].size \in Nat
    BY <2>1, ConstantsAssumption DEF Keys
  <2> QED
    BY <1>1, <2>2, IdleTree, DisjointNodes
<1>3. ASSUME NEW m \in T, ~Before(a, m), ~Beyond(a, m)
      PROVE  key[m].addr <= a /\ a < key[m].addr + key[m].size
  BY <1>2, <1>3 DEF Before, Beyond
<1>4. ASSUME NEW B, IsTree(T, root, link, parent, B), NEW m \in T, ~Before(a, m), ~Beyond(a, m)
      PROVE  /\ m \in B[n]
             /\ m # n => \E d \in Dirs : /\ link[d][n] # NULL /\ m \in B[link[d][n]]
                                         /\ Beside(d, key[m].addr, key[n].addr)
  <2>1. m \in B[n]
    BY <1>1, <1>4 DEF NotMissed
  <2>2. ASSUME m # n
        PROVE  \E d \in Dirs : /\ link[d][n] # NULL /\ m \in B[link[d][n]]
                               /\ Beside(d, key[m].addr, key[n].addr)
    <3>1. PICK d \in Dirs : link[d][n] # NULL /\ m \in B[link[d][n]]
      BY <1>1, <1>4, <2>1, <2>2, Descendants
    <3>2. Beside(d, key[m].addr, key[n].addr)
      BY <1>1, <1>4, <3>1, IdleTree
    <3> QED
      BY <3>1, <3>2
  <2> QED
    BY <2>1, <2>2
<1>5. ASSUME Before(a, n)
      PROVE  NotMissed(a, link["left"][n])
  <2> SUFFICES ASSUME NEW B, IsTree(T, root, link, parent, B), NEW m \in T,
                      ~Before(a, m), ~Beyond(a, m)
               PROVE  link["left"][n] # NULL /\ m \in B[link["left"][n]]
    BY <1>1 DEF NotMissed
  <2>1. key[m].addr <= a /\ a < key[n].addr
    BY <1>3, <1>5 DEF Before
  <2>2. m # n
    BY <1>1, <1>2, <2>1
  <2>3. PICK d \in Dirs : /\ link[d][n] # NULL /\ m \in B[link[d][n]]
                          /\ Beside(d, key[m].addr, key[n].addr)
    BY <1>4, <2>2
  <2>4. d = "left"
    BY <1>1, <1>2, <2>1, <2>3 DEF Beside, Dirs
  <2> QED
    BY <2>3, <2>4
<1>6. ASSUME ~Before(a, n), Beyond(a, n)
      PROVE  NotMissed(a, link["right"][n])
  <2> SUFFICES ASSUME NEW B, IsTree(T, root, link, parent, B), NEW m \in T,
                      ~Before(a, m), ~Beyond(a, m)
               PROVE  link["right"][n] # NULL /\ m \in B[link["right"][n]]
    BY <1>1 DEF NotMissed
  <2>1. /\ key[m].addr <= a /\ a < key[m].addr + key[m].size
        /\ key[n].addr <= a /\ key[n].addr + key[n].size <= a
    BY <1>1, <1>2, <1>3, <1>6 DEF Before, Beyond
  <2>2. m # n
    BY <1>1, <1>2, <2>1
  <2>3. PICK d \in Dirs : /\ link[d][n] # NULL /\ m \in B[link[d][n]]
                          /\ Beside(d, key[m].addr, key[n].addr)
    BY <1>4, <2>2
  <2>4. ~(key[m].addr < key[n].addr)
    BY <1>1, <1>2, <2>1
  <2>5. d = "right"
    BY <2>3, <2>4 DEF Beside, Dirs
  <2> QED
    BY <2>3, <2>5
<1>7. ASSUME ~Before(a, n), ~Beyond(a, n)
      PROVE  Covering(a) = {EntryOf(n)}
  <2>1. ASSUME NEW m \in T, key[m].addr <= a, a < key[m].addr + key[m].size
        PROVE  m = n
    <3>1. key[n].addr <= a /\ a < key[n].addr + key[n].size
      BY <1>1, <1>3, <1>7
    <3> SUFFICES ASSUME m # n PROVE FALSE
      OBVIOUS
    <3>2. CASE key[m].addr < key[n].addr
      BY <1>1, <1>2, <2>1, <3>1, <3>2
    <3>3. CASE key[n].addr < key[m].addr
      BY <1>1, <1>2, <2>1, <3>1, <3>3
    <3> QED
      BY <1>1, <1>2, <3>2, <3>3
  <2>2. Contents = {EntryOf(m) : m \in T}
    BY <1>1, ContentsAre
  <2>3. \A m : EntryOf(m).addr = key[m].addr /\ EntryOf(m).size = key[m].size
    BY DEF EntryOf
  <2>4. EntryOf(n) \in Covering(a)
    BY <1>1, <1>3, <1>7, <2>2, <2>3 DEF Covering
  <2>5. \A e \in Covering(a) : e = EntryOf(n)
    BY <2>1, <2>2, <2>3 DEF Covering
  <2> QED
    BY <2>4, <2>5
<1> QED
  BY <1>5, <1>6, <1>7

\* At the end of a path nothing is missed, so nothing covers the address.
LEMMA SearchEnds ==
  ASSUME TreeInv, pc = "idle", NEW a \in Nat, NotMissed(a, NULL)
  PROVE  Covering(a) = {}
<1>1. PICK T, B : T = InTree /\ IsTree(T, root, link, parent, B)
  BY IdleTree
<1>2. \A m \in T : Before(a, m) \/ Beyond(a, m)
  BY <1>1 DEF NotMissed
<1>3. \A m \in T : key[m].addr \in Nat /\ key[m].size \in Nat
  <2>1. T \subseteq Nodes /\ key \in [Nodes -> Keys]
    BY <1>1, IdleTree, PointersHere DEF Pointers
  <2> QED
    BY <2>1, ConstantsAssumption DEF Keys
<1>4. \A m \in T : ~(key[m].addr <= a /\ a < key[m].addr + key[m].size)
  BY <1>2, <1>3 DEF Before, Beyond
<1>5. Contents = {EntryOf(m) : m \in T}
  BY <1>1, ContentsAre
<1> QED
  BY <1>4, <1>5 DEF Covering, EntryOf

LEMMA DisturbedLookups ==
  ASSUME FindInv, Disturb, NEW r \in Readers
  PROVE  /\ find'[r].searching = find[r].searching
         /\ find'[r].result = find[r].result /\ find'[r].node = find[r].node
         /\ find[r].searching => find'[r].disturbed
<1>1. find[r] \in Lookups
  BY DEF FindInv
<1>2. find'[r] = IF find[r].searching THEN [find[r] EXCEPT !.disturbed = TRUE] ELSE find[r]
  BY DEF Disturb, Searching
<1>3. CASE find[r].searching
  <2>1. PICK l, k : l = find[r] /\ k = [l EXCEPT !.disturbed = TRUE]
    OBVIOUS
  <2>2. /\ k.searching = l.searching /\ k.result = l.result /\ k.node = l.node
        /\ k.disturbed
    BY <1>1, <2>1 DEF Lookups
  <2> QED
    BY <1>2, <1>3, <2>1, <2>2
<1>4. CASE ~find[r].searching
  BY <1>2, <1>4
<1> QED
  BY <1>3, <1>4

\* In the tree of globals the writer inserts, and nothing else.
LEMMA OnlyInsertions ==
  ASSUME pc \in Inserting, rotation.next \in {"idle", "insert5"}, WriterStep
  PROVE  /\ pc' \in Inserting /\ rotation'.next \in {"idle", "insert5"}
         /\ \/ Rotate1 \/ Rotate2 \/ Rotate3 \/ InsertKnown \/ InsertWalk
            \/ InsertCase1 \/ InsertCase2 \/ InsertCase3 \/ InsertCase4 \/ InsertCase5
<1>1. \/ Rotate1 \/ Rotate2 \/ Rotate3 \/ InsertKnown \/ InsertWalk
      \/ InsertCase1 \/ InsertCase2 \/ InsertCase3 \/ InsertCase4 \/ InsertCase5
  <2>1. ~ DeleteUnknown /\ ~ DeleteWalk /\ ~ DeleteMax /\ ~ BeginUnlink /\ ~ DeleteCase1
        /\ ~ DeleteCase2
    BY DEF DeleteUnknown, DeleteWalk, DeleteMax, BeginUnlink, DeleteCase1, DeleteCase2,
           At, Inserting, Rotating
  <2>2. ~ DeleteCase3 /\ ~ DeleteCase4 /\ ~ DeleteCase5 /\ ~ DeleteCase6 /\ ~ Unlink
    BY DEF DeleteCase3, DeleteCase4, DeleteCase5, DeleteCase6, Unlink, At, Inserting, Rotating
  <2> QED
    BY <2>1, <2>2 DEF WriterStep
<1>2. CASE Rotate1 \/ Rotate2
  BY <1>2 DEF Rotate1, Rotate2, Goto, Inserting, Rotating
<1>3. CASE Rotate3
  BY <1>3 DEF Rotate3, Goto, NoRotation, Inserting
<1>4. CASE InsertKnown \/ InsertWalk \/ InsertCase1 \/ InsertCase2 \/ InsertCase3
  <2>1. pc' \in Inserting /\ rotation' = rotation
    BY <1>4 DEF InsertKnown, InsertWalk, InsertCase1, InsertCase2, InsertCase3, Goto, Return,
                Inserting
  <2> QED
    BY <1>1, <2>1
<1>5. CASE InsertCase4
  <2>1. \/ pc' = "insert5" /\ rotation' = rotation
        \/ pc' = "rotate1" /\ rotation'.next = "insert5"
    BY <1>5 DEF InsertCase4, Goto, BeginRotation
  <2> QED
    BY <1>1, <2>1 DEF Inserting, Rotating
<1>6. CASE InsertCase5
  BY <1>6 DEF InsertCase5, Goto, BeginRotation, Inserting, Rotating
<1> QED
  BY <1>1, <1>2, <1>3, <1>4, <1>5, <1>6

\* A writer's step: no node leaves the tree of globals, and every lookup under way
\* is disturbed; on another tree none is.
LEMMA WriterKeepsLook ==
  ASSUME RbInv, RbInv', LeavingInv, LookInv,
         \/ WriterStep
         \/ \E o \in Objects : BeginInsert(o.addr, o.size, o.value)
         \/ \E a \in Addrs : BeginDelete(a)
  PROVE  LookInv'
<1>1. FieldsInv /\ TreeInv /\ TreeInv' /\ FindInv
  BY DEF RbInv
<1>2. Disturb
  BY EveryWriterStepDisturbs
<1>3. Searching' = Searching
  BY <1>1, <1>2, DisturbedLookups DEF Searching
<1>4. Shared \in BOOLEAN
  BY ConstantsAssumption
<1>5. CASE ~Shared
  <2>1. Searching = {}
    <3>1. CASE WriterStep
      <4>1. pc # "idle"
        <5>1. CASE \/ Rotate1 \/ Rotate2 \/ Rotate3 \/ InsertKnown \/ InsertWalk
                   \/ InsertCase1 \/ InsertCase2 \/ InsertCase3 \/ InsertCase4 \/ InsertCase5
          BY <5>1 DEF Rotate1, Rotate2, Rotate3, InsertKnown, InsertWalk, InsertCase1,
                      InsertCase2, InsertCase3, InsertCase4, InsertCase5, At
        <5>2. CASE \/ DeleteUnknown \/ DeleteWalk \/ DeleteMax \/ BeginUnlink \/ DeleteCase1
                   \/ DeleteCase2 \/ DeleteCase3 \/ DeleteCase4 \/ DeleteCase5
                   \/ DeleteCase6 \/ Unlink
          BY <5>2, Zenon DEF DeleteUnknown, DeleteWalk, DeleteMax, BeginUnlink, DeleteCase1,
                      DeleteCase2, DeleteCase3, DeleteCase4, DeleteCase5, DeleteCase6,
                      Unlink, At
        <5> QED
          BY <3>1, <5>1, <5>2 DEF WriterStep
      <4> QED
        BY <1>5, <4>1 DEF LookInv
    <3>2. CASE ~WriterStep
      BY <1>5, <3>2 DEF BeginInsert, BeginDelete, MayBegin
    <3> QED
      BY <3>1, <3>2
  <2>2. \A r \in Readers : ~find'[r].searching
    BY <1>3, <2>1 DEF Searching
  <2> QED
    BY <1>3, <1>5, <2>1, <2>2 DEF LookInv, SearchInv
<1>6. CASE Shared
  <2>1. pc \in Inserting /\ rotation.next \in {"idle", "insert5"}
    BY <1>6 DEF LookInv
  <2>2. /\ InTree \subseteq InTree'
        /\ pc' \in Inserting /\ rotation'.next \in {"idle", "insert5"}
    <3>1. CASE WriterStep
      <4>1. /\ pc' \in Inserting /\ rotation'.next \in {"idle", "insert5"}
            /\ \/ Rotate1 \/ Rotate2 \/ Rotate3 \/ InsertKnown \/ InsertWalk
               \/ InsertCase1 \/ InsertCase2 \/ InsertCase3 \/ InsertCase4 \/ InsertCase5
        BY <2>1, <3>1, OnlyInsertions
      <4>2. InTree \subseteq InTree'
        <5>1. CASE Rotate1 \/ Rotate2 \/ Rotate3
          BY <1>1, <5>1, RotationKeepsNodes
        <5>2. CASE InsertKnown
          BY <1>1, <5>2, InsertKnownMaps
        <5>3. CASE InsertWalk
          BY <1>1, <5>3, InsertLeafMaps, QuietActions
        <5>4. CASE InsertCase1 \/ InsertCase2 \/ InsertCase3 \/ InsertCase4 \/ InsertCase5
          BY <1>1, <5>4, QuietActions
        <5> QED
          BY <4>1, <5>1, <5>2, <5>3, <5>4
      <4> QED
        BY <4>1, <4>2
    <3>2. CASE \E o \in Objects : BeginInsert(o.addr, o.size, o.value)
      <4>1. InTree \subseteq InTree'
        BY <1>1, <3>2, BeginInsertMaps
      <4>2. pc' \in {"insert1", "insertWalk"} /\ rotation' = rotation
        BY <3>2 DEF BeginInsert, Goto
      <4> QED
        BY <2>1, <4>1, <4>2 DEF Inserting
    <3>3. CASE \E a \in Addrs : BeginDelete(a)
      BY <1>6, <3>3 DEF BeginDelete
    <3> QED
      BY <3>1, <3>2, <3>3
  <2>3. \A r \in Readers : SearchInv(r)'
    <3> SUFFICES ASSUME NEW r \in Readers PROVE SearchInv(r)'
      OBVIOUS
    <3>1. /\ find'[r].searching = find[r].searching
          /\ find'[r].result = find[r].result /\ find'[r].node = find[r].node
          /\ find[r].searching => find'[r].disturbed
      BY <1>1, <1>2, DisturbedLookups
    <3>2. SearchInv(r)
      BY DEF LookInv
    <3> QED
      BY <2>2, <3>1, <3>2 DEF SearchInv
  <2> QED
    BY <1>6, <2>2, <2>3 DEF LookInv
<1> QED
  BY <1>4, <1>5, <1>6

LEMMA LookupKeepsLook ==
  ASSUME RbInv, RbInv', LeavingInv, LookInv, NEW r \in Readers,
         LookupStep(r) \/ \E a \in Probed : BeginLookup(r, a)
  PROVE  LookInv'
<1>1. TreeInv /\ TreeInv' /\ find \in [Readers -> Lookups]
  BY DEF RbInv, FindInv
<1>2. UNCHANGED << tree, pc, loc, rotation >>
  BY DEF LookupStep, BeginLookup
<1>3. InTree' = InTree /\ Disjoint' = Disjoint
  <2>1. Contents' = Contents
    BY <1>1, <1>2, NoWriterStep
  <2> QED
    BY <1>2, <2>1 DEF InTree, Moving, tree, Disjoint
<1>4. \A a, n : NotMissed(a, n) => NotMissed(a, n)'
  BY <1>2, <1>3 DEF NotMissed, Before, Beyond, tree
<1>5. Pointers(InTree, root, link, parent) /\ link' = link
  BY <1>1, <1>2, PointersHere DEF tree
<1>6. ASSUME NEW s \in Readers, find'[s] = find[s]
      PROVE  SearchInv(s)'
  <2>1. SearchInv(s)
    BY DEF LookInv
  <2>2. PICK f, a, n : f = find[s] /\ a = f.addr /\ n = f.node
    OBVIOUS
  <2>3. NotMissed(a, n) => NotMissed(a, n)'
    BY <1>4
  <2>4. find'[s] = f
    BY <1>6, <2>2
  <2>5. f.searching => /\ f.result = {} /\ n \in InTree \cup {NULL}
                       /\ ~f.disturbed => pc = "idle" /\ (Disjoint => NotMissed(a, n))
    BY <2>1, <2>2 DEF SearchInv
  <2>6. f.searching => /\ f.result = {} /\ n \in InTree' \cup {NULL}
                       /\ ~f.disturbed => pc' = "idle" /\ (Disjoint' => NotMissed(a, n)')
    BY <1>2, <1>3, <2>3, <2>5
  <2> QED
    BY <2>2, <2>4, <2>6 DEF SearchInv, NotMissed, Before, Beyond
<1>7. ASSUME NEW f, find'[r] = f, NEW a, NEW n, a = f.addr, n = f.node,
             f.searching => /\ f.result = {} /\ n \in InTree \cup {NULL}
                            /\ ~f.disturbed => pc = "idle" /\ (Disjoint => NotMissed(a, n))
      PROVE  SearchInv(r)'
  <2>1. NotMissed(a, n) => NotMissed(a, n)'
    BY <1>4
  <2>2. f.searching => /\ f.result = {} /\ n \in InTree' \cup {NULL}
                       /\ ~f.disturbed => pc' = "idle" /\ (Disjoint' => NotMissed(a, n)')
    BY <1>2, <1>3, <1>7, <2>1
  <2> QED
    BY <1>7, <2>2 DEF SearchInv, NotMissed, Before, Beyond
<1>8. \A s \in Readers : s # r => find'[s] = find[s]
  BY <1>1 DEF LookupStep, BeginLookup
<1>9. SearchInv(r)' /\ (~Shared /\ pc # "idle" => Searching' = {})
  <2>1. CASE \E a \in Probed : BeginLookup(r, a)
    <3>1. PICK a \in Probed : BeginLookup(r, a)
      BY <2>1
    <3>2. PICK b : b \in BOOLEAN /\ b = (pc # "idle")
      OBVIOUS
    <3>3. PICK f : f = [searching |-> TRUE, addr |-> a, node |-> root, result |-> {},
                        disturbed |-> b]
      OBVIOUS
    <3>4. find' = [find EXCEPT ![r] = f]
      BY <3>1, <3>2, <3>3, Zenon DEF BeginLookup
    <3>5. find'[r] = f
      BY <1>1, <3>4
    <3>6. root \in InTree \cup {NULL}
      BY <1>5 DEF Pointers
    <3>7. NotMissed(a, root)
      BY DEF NotMissed, IsTree, IsLinked, IsBelow
    <3>8. f.result = {} /\ f.addr = a /\ f.node = root /\ (~f.disturbed => pc = "idle")
      BY <3>2, <3>3
    <3>9. SearchInv(r)'
      BY <1>7, <3>5, <3>6, <3>7, <3>8
    <3>10. Shared \/ pc = "idle"
      BY <3>1 DEF BeginLookup
    <3> QED
      BY <3>9, <3>10
  <2>2. CASE LookupStep(r)
    <3>1. PICK f, a, n : f = find[r] /\ a = f.addr /\ n = f.node
      OBVIOUS
    <3>2. /\ f.searching /\ f.result = {} /\ n \in InTree \cup {NULL}
          /\ ~f.disturbed => pc = "idle" /\ (Disjoint => NotMissed(a, n))
      BY <2>2, <3>1, Zenon DEF LookupStep, LookInv, SearchInv
    <3>3. Shared \/ pc = "idle"
      <4>1. r \in Searching
        BY <3>1, <3>2 DEF Searching
      <4> QED
        BY <4>1 DEF LookInv
    <3>4. f \in Lookups /\ a \in Nat
      BY <1>1, <3>1, ConstantsAssumption DEF Lookups
    <3>5. CASE find' = [find EXCEPT ![r].searching = FALSE]
      <4>1. PICK l : l = [f EXCEPT !.searching = FALSE]
        OBVIOUS
      <4>2. find'[r] = l
        BY <1>1, <3>1, <3>5, <4>1
      <4>3. ~l.searching
        BY <3>4, <4>1 DEF Lookups
      <4> QED
        BY <1>7, <3>3, <4>2, <4>3
    <3>6. CASE n # NULL /\ find' = [find EXCEPT ![r].searching = FALSE, ![r].node = NULL,
                                                ![r].result = {EntryOf(n)}]
      <4>1. PICK l : l = [f EXCEPT !.searching = FALSE, !.node = NULL,
                                   !.result = {EntryOf(n)}]
        OBVIOUS
      <4>2. find'[r] = l
        BY <1>1, <3>1, <3>6, <4>1
      <4>3. ~l.searching
        BY <3>4, <4>1 DEF Lookups
      <4> QED
        BY <1>7, <3>3, <4>2, <4>3
    <3>7. ASSUME NEW d \in Dirs, n # NULL, find' = [find EXCEPT ![r].node = link[d][n]],
                 pc = "idle" /\ Disjoint /\ NotMissed(a, n) => NotMissed(a, link[d][n])
          PROVE  SearchInv(r)'
      <4>1. PICK m, l : m = link[d][n] /\ l = [f EXCEPT !.node = m]
        OBVIOUS
      <4>2. find'[r] = l
        BY <1>1, <3>1, <3>7, <4>1
      <4>3. /\ l.searching /\ l.result = {} /\ l.addr = a /\ l.node = m
            /\ l.disturbed = f.disturbed
        BY <3>1, <3>2, <3>4, <4>1 DEF Lookups
      <4>4. m \in InTree \cup {NULL}
        BY <1>5, <3>2, <3>7, <4>1 DEF Pointers
      <4>5. ~f.disturbed => pc = "idle" /\ (Disjoint => NotMissed(a, m))
        BY <3>2, <3>7, <4>1
      <4> QED
        BY <1>7, <4>2, <4>3, <4>4, <4>5
    <3>8. CASE n # NULL /\ Before(a, n) /\ find' = [find EXCEPT ![r].node = link["left"][n]]
      <4>1. "left" \in Dirs
        BY DEF Dirs
      <4>2. pc = "idle" /\ Disjoint /\ NotMissed(a, n) => NotMissed(a, link["left"][n])
        BY <1>1, <3>2, <3>4, <3>8, SearchGoesOn
      <4> QED
        BY <3>3, <3>7, <3>8, <4>1, <4>2
    <3>9. CASE /\ n # NULL /\ ~Before(a, n) /\ Beyond(a, n)
               /\ find' = [find EXCEPT ![r].node = link["right"][n]]
      <4>1. "right" \in Dirs
        BY DEF Dirs
      <4>2. pc = "idle" /\ Disjoint /\ NotMissed(a, n) => NotMissed(a, link["right"][n])
        BY <1>1, <3>2, <3>4, <3>9, SearchGoesOn
      <4> QED
        BY <3>3, <3>7, <3>9, <4>1, <4>2
    <3> QED
      BY <2>2, <3>1, <3>5, <3>6, <3>8, <3>9, Zenon DEF LookupStep
  <2> QED
    BY <2>1, <2>2
<1>10. Shared => pc' \in Inserting /\ rotation'.next \in {"idle", "insert5"}
  BY <1>2 DEF LookInv
<1> QED
  BY <1>2, <1>6, <1>8, <1>9, <1>10 DEF LookInv

LEMMA InitHasLookInv ==
  ASSUME Init
  PROVE  LookInv
<1>1. \A r \in Readers : ~find[r].searching
  BY DEF Init
<1>2. pc = "idle" /\ rotation.next = "idle"
  BY DEF Init, NoRotation
<1> QED
  BY <1>1, <1>2 DEF LookInv, SearchInv, Inserting

LEMMA NextKeepsLook ==
  ASSUME RbInv, RbInv', LeavingInv, LookInv, [Next]_vars
  PROVE  LookInv'
<1>1. CASE \/ WriterStep
           \/ \E o \in Objects : BeginInsert(o.addr, o.size, o.value)
           \/ \E a \in Addrs : BeginDelete(a)
  BY <1>1, WriterKeepsLook
<1>2. CASE \E r \in Readers : LookupStep(r) \/ \E a \in Probed : BeginLookup(r, a)
  BY <1>2, LookupKeepsLook
<1>3. CASE UNCHANGED vars
  <2>1. UNCHANGED << tree, pc, loc, rotation >> /\ find' = find
    BY <1>3 DEF vars
  <2>2. Contents' = Contents
    BY <2>1, NoWriterStep DEF RbInv
  <2> QED
    BY <2>1, <2>2
    DEF LookInv, SearchInv, Searching, InTree, Moving, NotMissed, Before, Beyond, Disjoint, tree
<1> QED
  BY <1>1, <1>2, <1>3 DEF Next

\* The step with which a lookup returns
LEMMA LookupEnds ==
  ASSUME RbInv, LookInv, [Next]_vars, NEW r \in Readers,
         find[r].searching, ~find'[r].searching
  PROVE  /\ find'[r].result \subseteq Covering(find[r].addr)
         /\ ~find[r].disturbed /\ Disjoint => find'[r].result = Covering(find[r].addr)
<1>1. TreeInv /\ FindInv /\ find \in [Readers -> Lookups]
  BY DEF RbInv, FindInv
<1>2. LookupStep(r)
  <2>1. CASE \/ WriterStep
             \/ \E o \in Objects : BeginInsert(o.addr, o.size, o.value)
             \/ \E a \in Addrs : BeginDelete(a)
    BY <1>1, <2>1, EveryWriterStepDisturbs, DisturbedLookups
  <2>2. ASSUME NEW s \in Readers, LookupStep(s) \/ \E a \in Probed : BeginLookup(s, a)
        PROVE  LookupStep(r)
    <3>1. s # r => find'[r] = find[r]
      BY <1>1, <2>2 DEF LookupStep, BeginLookup
    <3>2. s = r
      BY <3>1
    <3> QED
      BY <2>2, <3>2 DEF BeginLookup
  <2>3. CASE UNCHANGED vars
    BY <2>3 DEF vars
  <2> QED
    BY <2>1, <2>2, <2>3 DEF Next
<1>3. PICK f, a, n : f = find[r] /\ a = f.addr /\ n = f.node
  OBVIOUS
<1>4. /\ f.searching /\ f.result = {} /\ n \in InTree \cup {NULL}
      /\ ~f.disturbed => pc = "idle" /\ (Disjoint => NotMissed(a, n))
  BY <1>3 DEF LookInv, SearchInv
<1>5. f \in Lookups /\ a \in Nat
  BY <1>1, <1>3, ConstantsAssumption DEF Lookups
<1>6. ASSUME n = NULL, find' = [find EXCEPT ![r].searching = FALSE]
      PROVE  /\ find'[r].result \subseteq Covering(a)
             /\ ~f.disturbed /\ Disjoint => find'[r].result = Covering(a)
  <2>1. find'[r].result = {}
    <3>1. PICK l : l = [f EXCEPT !.searching = FALSE]
      OBVIOUS
    <3>2. find'[r] = l
      BY <1>1, <1>3, <1>6, <3>1
    <3> QED
      BY <1>4, <1>5, <3>1, <3>2 DEF Lookups
  <2>2. ~f.disturbed /\ Disjoint => Covering(a) = {}
    BY <1>1, <1>4, <1>5, <1>6, SearchEnds
  <2> QED
    BY <2>1, <2>2
<1>7. ASSUME n # NULL, ~Before(a, n), ~Beyond(a, n),
             find' = [find EXCEPT ![r].searching = FALSE, ![r].node = NULL,
                                  ![r].result = {EntryOf(n)}]
      PROVE  /\ find'[r].result \subseteq Covering(a)
             /\ ~f.disturbed /\ Disjoint => find'[r].result = Covering(a)
  <2>1. find'[r].result = {EntryOf(n)}
    <3>1. PICK l : l = [f EXCEPT !.searching = FALSE, !.node = NULL, !.result = {EntryOf(n)}]
      OBVIOUS
    <3>2. find'[r] = l
      BY <1>1, <1>3, <1>7, <3>1
    <3>3. l.result = {EntryOf(n)}
      BY <1>5, <3>1 DEF Lookups
    <3> QED
      BY <3>2, <3>3
  <2>2. n \in InTree
    BY <1>4, <1>7
  <2>3. EntryOf(n) \in Covering(a)
    <3>1. key[n].addr \in Nat /\ key[n].size \in Nat
      <4>1. n \in Nodes
        BY <2>2 DEF InTree
      <4>2. key \in [Nodes -> Keys]
        BY <1>1, TreeIsTyped
      <4> QED
        BY <4>1, <4>2, ConstantsAssumption DEF Keys
    <3>2. key[n].addr <= a /\ a < key[n].addr + key[n].size
      BY <1>5, <1>7, <3>1 DEF Before, Beyond
    <3>3. EntryOf(n) \in Contents
      BY <1>1, <2>2, ContentsAre
    <3> QED
      BY <3>2, <3>3 DEF Covering, EntryOf
  <2>4. ~f.disturbed /\ Disjoint => Covering(a) = {EntryOf(n)}
    BY <1>1, <1>4, <1>5, <1>7, <2>2, SearchGoesOn
  <2> QED
    BY <2>1, <2>3, <2>4
<1>8. ASSUME NEW m, find' = [find EXCEPT ![r].node = m]
      PROVE  FALSE
  <2>1. PICK l : l = [f EXCEPT !.node = m]
    OBVIOUS
  <2>2. find'[r] = l
    BY <1>1, <1>3, <1>8, <2>1
  <2>3. l.searching
    BY <1>4, <1>5, <2>1 DEF Lookups
  <2> QED
    BY <2>2, <2>3
<1> QED
  BY <1>2, <1>3, <1>6, <1>7, <1>8 DEF LookupStep

LEMMA LookupsHold == Spec => [](RbInv /\ LookInv)
<1>1. Init => LookInv
  BY InitHasLookInv
<1>2. RbInv /\ RbInv' /\ LeavingInv /\ LookInv /\ [Next]_vars => LookInv'
  BY NextKeepsLook
<1> QED
  BY <1>1, <1>2, InvariantHolds, LeavingHolds, PTL DEF Spec

\* Whatever races with it, a lookup of the tree of globals returns an entry that
\* is in the tree as it is now, and that covers the address, or none.
THEOREM LookupsNeverInvent == Spec => LookupNeverInvents
<1>1. RbInv /\ LookInv /\ [Next]_vars =>
        [\A r \in Readers : find[r].searching /\ ~find'[r].searching
           => find'[r].result \subseteq Covering(find[r].addr)]_vars
  BY LookupEnds
<1> QED
  BY <1>1, LookupsHold, PTL DEF Spec, LookupNeverInvents

\* A lookup that no insertion overlaps finds the object that covers the address,
\* if objects do not overlap.
THEOREM LookupsFindCovering == Spec => LookupFindsCovering
<1>1. RbInv /\ LookInv /\ [Next]_vars =>
        [\A r \in Readers :
           find[r].searching /\ ~find'[r].searching /\ ~find[r].disturbed /\ Disjoint
             => find'[r].result = Covering(find[r].addr)]_vars
  BY LookupEnds
<1> QED
  BY <1>1, LookupsHold, PTL DEF Spec, LookupFindsCovering

-----------------------------------------------------------------------------
(* The address that is lost *)

\* The walk has not left behind a node with the address.
NotPassed(a, n) ==
  \A B : IsTree(InTree, root, link, parent, B) =>
    \A m \in InTree : key[m].addr = a => n # NULL /\ m \in B[n]

\* The node that goes is the one with the address, or the one whose entry has
\* overwritten it; no other node has it.
LeavingIsAsked(a) ==
  /\ \A m \in InTree \ {Leaving} : key[m].addr # a
  /\ \/ key[Leaving].addr = a
     \/ \E m \in InTree \ {Leaving} : key[m].addr = key[Leaving].addr

AskedInv ==
  /\ pc = "deleteWalk" => NotPassed(loc.addr, loc.n)
  /\ pc = "deleteMax" => key[loc.held].addr = loc.addr
  /\ Leaving # NULL => LeavingIsAsked(loc.addr)

\* What the property says of a step
LostIsAsked ==
  /\ Known \ Known' \subseteq {loc.addr}
  /\ pc \in {"deleteWalk", "unlink"} /\ pc' = "idle" => loc.addr \notin Known'

LEMMA KnownAre == TreeInv => Known = {key[n].addr : n \in InTree}
<1>1. \A n : EntryOf(n).addr = key[n].addr
  BY DEF EntryOf
<1> QED
  BY <1>1, ContentsAre DEF Known

LEMMA KnownWillBe == (TreeInv => Known = {key[n].addr : n \in InTree})'
BY KnownAre, PTL

\* An operation keeps its address until it is over.
LEMMA KeepsAddr ==
  ASSUME FieldsInv, WriterStep
  PROVE  loc'.addr = loc.addr \/ loc' = NoLocals
<1>1. loc \in Locals
  BY DEF FieldsInv
<1>2. \A x : /\ [loc EXCEPT !.n = x].addr = loc.addr
             /\ \A y : /\ [loc EXCEPT !.held = y, !.n = x].addr = loc.addr
                       /\ [loc EXCEPT !.gone = y, !.held = x].addr = loc.addr
  BY <1>1 DEF Locals
<1>3. CASE Rotate1 \/ Rotate2 \/ Rotate3 \/ InsertKnown
  BY <1>3 DEF Rotate1, Rotate2, Rotate3, InsertKnown, Return
<1>4. CASE InsertWalk
  BY <1>2, <1>4 DEF InsertWalk
<1>5. CASE InsertCase1 \/ InsertCase2 \/ InsertCase3 \/ InsertCase4 \/ InsertCase5
  BY <1>2, <1>5 DEF InsertCase1, InsertCase2, InsertCase3, InsertCase4, InsertCase5, Return
<1>6. CASE DeleteUnknown \/ DeleteMax
  BY <1>2, <1>6 DEF DeleteUnknown, DeleteMax, Return
<1>7. CASE DeleteWalk \/ BeginUnlink
  <2>1. PICK x, y : \/ loc' = loc
                    \/ loc' = [loc EXCEPT !.n = x]
                    \/ loc' = [loc EXCEPT !.held = y, !.n = x]
                    \/ loc' = [loc EXCEPT !.gone = x, !.held = y]
    BY <1>7, Zenon DEF DeleteWalk, BeginUnlink
  <2> QED
    BY <1>1, <2>1 DEF Locals
<1>8. CASE \/ DeleteCase1 \/ DeleteCase2 \/ DeleteCase3 \/ DeleteCase4 \/ DeleteCase5
           \/ DeleteCase6 \/ Unlink
  BY <1>2, <1>8 DEF DeleteCase1, DeleteCase2, DeleteCase3, DeleteCase4, DeleteCase5,
                    DeleteCase6, Unlink, Return
<1> QED
  BY <1>3, <1>4, <1>5, <1>6, <1>7, <1>8 DEF WriterStep

\* Nothing is lost where the nodes keep their keys, though one may be new.
LEMMA NothingLost ==
  ASSUME TreeInv, TreeInv', InTree \subseteq InTree', \A m \in InTree : key'[m] = key[m]
  PROVE  Known \subseteq Known'
BY KnownAre, KnownWillBe

LEMMA StillAsked ==
  ASSUME FieldsInv, AskedInv, InTree' = InTree, key' = key, Leaving' \in {Leaving, NULL},
         loc'.addr = loc.addr \/ loc' = NoLocals, pc' \notin {"deleteWalk", "deleteMax"}
  PROVE  AskedInv'
<1> SUFFICES ASSUME Leaving' # NULL PROVE LeavingIsAsked(loc.addr)'
  BY DEF AskedInv
<1>1. Leaving' = Leaving /\ Leaving # NULL
  OBVIOUS
<1>2. loc' # NoLocals
  BY DEF Leaving, NoLocals
<1>3. PICK g, a : g = Leaving /\ a = loc.addr
  OBVIOUS
<1>4. /\ \A m \in InTree \ {g} : key[m].addr # a
      /\ \/ key[g].addr = a
         \/ \E m \in InTree \ {g} : key[m].addr = key[g].addr
  BY <1>1, <1>3 DEF AskedInv, LeavingIsAsked
<1>5. Leaving' = g /\ loc'.addr = a
  BY <1>1, <1>2, <1>3
<1> QED
  BY <1>4, <1>5 DEF LeavingIsAsked

\* A node with the address is on the side of n the walk takes.
LEMMA WalkGoesOn ==
  ASSUME TreeInv, pc = "deleteWalk", NEW a, NEW n \in InTree, NotPassed(a, n),
         key[n].addr # a
  PROVE  NotPassed(a, link[Toward(a, n)][n])
<1>1. PICK T : T = InTree
  OBVIOUS
<1> SUFFICES ASSUME NEW B, IsTree(T, root, link, parent, B), NEW m \in T, key[m].addr = a
             PROVE  LET c == link[Toward(a, n)][n] IN c # NULL /\ m \in B[c]
  BY <1>1 DEF NotPassed
<1>2. m \in B[n] /\ m # n
  BY <1>1 DEF NotPassed
<1>3. PICK d \in Dirs : link[d][n] # NULL /\ m \in B[link[d][n]]
  BY <1>1, <1>2, Descendants
<1>4. Beside(d, key[m].addr, key[n].addr)
  BY <1>1, <1>3, IdleTree
<1>5. key[m].addr \in Nat /\ key[n].addr \in Nat
  <2>1. T \subseteq Nodes /\ key \in [Nodes -> Keys]
    BY <1>1, IdleTree, PointersHere DEF Pointers
  <2> QED
    BY <1>1, <2>1, AddressesAreNumbers
<1>6. d = Toward(a, n)
  BY <1>4, <1>5 DEF Beside, Toward, Dirs
<1> QED
  BY <1>3, <1>6

\* A pointer that leaves a node of the tree leads into it.
LEMMA WalkStaysInTree ==
  ASSUME TreeInv, pc = "deleteWalk", loc.n # NULL
  PROVE  loc.n \in InTree
<1>1. PICK T, B, h : /\ T = InTree
                     /\ Fits("deleteWalk", loc, color, key, T, root, link, parent, B, h)
  BY TreeHere DEF Labels, Rotating
<1> QED
  BY <1>1 DEF Fits, PlaceInv

LEMMA DeleteWalkAsked ==
  ASSUME FieldsInv, TreeInv, TreeInv', LeavingInv, AskedInv, DeleteWalk
  PROVE  AskedInv' /\ LostIsAsked
<1>1. /\ pc = "deleteWalk" /\ loc.n # NULL /\ NotPassed(loc.addr, loc.n)
      /\ UNCHANGED << root, key, link, parent >>
      /\ pc' \in {"deleteWalk", "deleteMax", "delete0"}
  BY DEF DeleteWalk, At, AskedInv, Goto, tree
<1>2. loc.n \in InTree
  BY <1>1, WalkStaysInTree
<1>3. InTree' = InTree
  BY QuietActions, DeleteFoundMaps
<1>4. LostIsAsked
  <2>1. Known \subseteq Known'
    BY <1>1, <1>3, NothingLost
  <2> QED
    BY <1>1, <2>1 DEF LostIsAsked
<1>5. PICK n, a : n = loc.n /\ a = loc.addr
  OBVIOUS
<1>6. CASE pc' = "deleteWalk"
  <2>1. ~HasKey(n, a) /\ loc' = [loc EXCEPT !.n = link[Toward(a, n)][n]]
    BY <1>5, <1>6 DEF DeleteWalk, Goto
  <2>2. NotPassed(a, link[Toward(a, n)][n])
    BY <1>1, <1>2, <1>5, <2>1, WalkGoesOn DEF HasKey
  <2>3. PICK c : c = link[Toward(a, n)][n]
    OBVIOUS
  <2>4. loc'.n = c /\ loc'.addr = a /\ loc'.gone = loc.gone
    BY <1>5, <2>1, <2>3 DEF FieldsInv, Locals
  <2>5. NotPassed(loc.addr, loc.n)'
    BY <1>1, <1>3, <2>2, <2>3, <2>4 DEF NotPassed
  <2>6. Leaving' = NULL
    <3>1. loc.gone = NULL
      <4>1. PICK T, B, h : Fits("deleteWalk", loc, color, key, T, root, link, parent, B, h)
        BY <1>1, TreeHere DEF Labels, Rotating
      <4> QED
        BY <4>1 DEF Fits, PlaceInv, Settled, SettledInv
    <3> QED
      BY <1>6, <2>4, <3>1 DEF Leaving
  <2> QED
    BY <1>4, <1>6, <2>5, <2>6 DEF AskedInv
<1>7. CASE pc' = "deleteMax"
  <2>1. HasKey(n, a) /\ loc' = [loc EXCEPT !.held = n, !.n = link["left"][n]]
    BY <1>5, <1>7 DEF DeleteWalk, Goto
  <2>2. loc'.held = n /\ loc'.addr = a /\ loc'.gone = loc.gone
    BY <1>5, <2>1 DEF FieldsInv, Locals
  <2>3. key[n].addr = a
    BY <2>1 DEF HasKey
  <2>4. key'[loc'.held].addr = loc'.addr
    BY <1>1, <2>2, <2>3
  <2>5. Leaving' = NULL
    <3>1. loc.gone = NULL
      <4>1. PICK T, B, h : Fits("deleteWalk", loc, color, key, T, root, link, parent, B, h)
        BY <1>1, TreeHere DEF Labels, Rotating
      <4> QED
        BY <4>1 DEF Fits, PlaceInv, Settled, SettledInv
    <3> QED
      BY <1>7, <2>2, <3>1 DEF Leaving
  <2> QED
    BY <1>4, <1>7, <2>4, <2>5 DEF AskedInv
<1>8. CASE pc' = "delete0"
  <2>1. HasKey(n, a) /\ loc' = loc
    BY <1>5, <1>8 DEF DeleteWalk, Goto
  <2>2. key[n].addr = a
    BY <2>1 DEF HasKey
  <2>3. Leaving' = n /\ \A m \in InTree : m # n => key[m].addr # key[n].addr
    BY <1>5, <1>8, DeleteFoundMaps
  <2>4. LeavingIsAsked(loc.addr)'
    BY <1>1, <1>3, <1>5, <2>1, <2>2, <2>3 DEF LeavingIsAsked
  <2> QED
    BY <1>4, <1>8, <2>4 DEF AskedInv
<1> QED
  BY <1>1, <1>6, <1>7, <1>8

LEMMA DeleteMaxAsked ==
  ASSUME FieldsInv, TreeInv, TreeInv', LeavingInv, AskedInv, DeleteMax
  PROVE  AskedInv' /\ LostIsAsked
<1>1. /\ pc = "deleteMax" /\ key[loc.held].addr = loc.addr
      /\ pc' \in {"deleteMax", "delete0"}
  BY DEF DeleteMax, At, AskedInv, Goto
<1>2. PICK n, q, a : n = loc.n /\ q = loc.held /\ a = loc.addr
  OBVIOUS
<1>3. CASE pc' = "deleteMax"
  <2>1. InTree' = InTree /\ key' = key /\ Leaving' \in {Leaving, NULL}
    BY <1>3, QuietActions
  <2>2. loc' = [loc EXCEPT !.n = link["right"][n]]
    BY <1>2, <1>3 DEF DeleteMax, Goto
  <2>3. loc'.held = q /\ loc'.addr = a
    BY <1>2, <2>2 DEF FieldsInv, Locals
  <2>4. Leaving = NULL
    <3>1. PICK T, B, h : Fits("deleteMax", loc, color, key, T, root, link, parent, B, h)
      BY <1>1, TreeHere DEF Labels, Rotating
    <3>2. loc.gone = NULL
      BY <3>1 DEF Fits, PlaceInv, Settled, SettledInv
    <3> QED
      BY <1>1, <3>2 DEF Leaving
  <2>5. Known \subseteq Known'
    BY <2>1, NothingLost
  <2>6. LostIsAsked
    BY <1>1, <2>5 DEF LostIsAsked
  <2>7. key'[loc'.held].addr = loc'.addr
    BY <1>1, <1>2, <2>1, <2>3
  <2> QED
    BY <1>3, <2>1, <2>4, <2>6, <2>7 DEF AskedInv
<1>4. CASE pc' = "delete0"
  <2>1. /\ InTree' = InTree /\ Leaving' = n /\ q \in InTree \ {n}
        /\ \A m, k \in InTree : m # k => key[m].addr # key[k].addr
        /\ \A m \in InTree : key'[m] = IF m = q THEN key[n] ELSE key[m]
    BY <1>2, <1>4, DeleteMaxMaps
  <2>2. loc' = loc
    BY <1>4, <1>1 DEF DeleteMax, Goto
  <2>3. n \in InTree
    <3>1. PICK T, B, h : /\ T = InTree
                         /\ Fits("deleteMax", loc, color, key, T, root, link, parent, B, h)
      BY <1>1, TreeHere DEF Labels, Rotating
    <3>2. "left" \in Dirs
      BY DEF Dirs
    <3>3. IsTree(T, root, link, parent, B) /\ DeleteMaxInv(T, link, B, key, loc)
      BY <3>1 DEF Fits, PlaceInv
    <3>4. link["left"][q] # NULL /\ n \in B[link["left"][q]]
      BY <1>2, <3>2, <3>3 DEF DeleteMaxInv
    <3> QED
      BY <2>1, <3>1, <3>2, <3>3, <3>4, Descendants
  <2>4. key[q].addr = a
    BY <1>1, <1>2
  <2>5. ASSUME NEW m \in InTree \ {n} PROVE key'[m].addr # a
    <3>1. CASE m = q
      BY <2>1, <2>3, <2>4, <3>1
    <3>2. CASE m # q
      BY <2>1, <2>4, <3>2
    <3> QED
      BY <3>1, <3>2
  <2>6. key'[q].addr = key'[n].addr
    BY <2>1, <2>3
  <2>7. LeavingIsAsked(loc.addr)'
    BY <1>2, <2>1, <2>2, <2>5, <2>6 DEF LeavingIsAsked
  <2>8. Known = {key[m].addr : m \in InTree} /\ Known' = {key'[m].addr : m \in InTree}
    BY <2>1, KnownAre, KnownWillBe
  <2>9. Known \ Known' \subseteq {a}
    <3> SUFFICES ASSUME NEW m \in InTree, key[m].addr \notin Known'
                 PROVE  key[m].addr = a
      BY <2>8
    <3>1. CASE m = q
      BY <2>4, <3>1
    <3>2. CASE m # q
      BY <2>1, <2>8, <3>2
    <3> QED
      BY <3>1, <3>2
  <2>10. LostIsAsked
    BY <1>1, <1>2, <2>9 DEF LostIsAsked
  <2> QED
    BY <1>4, <2>7, <2>10 DEF AskedInv
<1> QED
  BY <1>1, <1>3, <1>4

LEMMA UnlinkAsked ==
  ASSUME FieldsInv, TreeInv, TreeInv', LeavingInv, AskedInv, Unlink
  PROVE  AskedInv' /\ LostIsAsked
<1>1. PICK g, a : g = loc.gone /\ a = loc.addr
  OBVIOUS
<1>2. /\ InTree' = InTree \ {g} /\ (\A m \in InTree' : key'[m] = key[m])
      /\ g \in InTree /\ g # NULL /\ Leaving' = NULL
  BY <1>1, UnlinkMaps
<1>3. pc = "unlink" /\ pc' = "idle"
  BY DEF Unlink, At, Return, Goto
<1>4. /\ \A m \in InTree \ {g} : key[m].addr # a
      /\ key[g].addr = a \/ \E m \in InTree \ {g} : key[m].addr = key[g].addr
  <2>1. Leaving = g
    BY <1>1, <1>3, Zenon DEF Leaving
  <2> QED
    BY <1>1, <1>2, <2>1 DEF AskedInv, LeavingIsAsked
<1>5. Known = {key[m].addr : m \in InTree} /\ Known' = {key[m].addr : m \in InTree \ {g}}
  <2>1. Known' = {key'[m].addr : m \in InTree'}
    BY KnownWillBe
  <2> QED
    BY <1>2, <2>1, KnownAre
<1>6. a \notin Known' /\ Known \ Known' \subseteq {a}
  BY <1>4, <1>5
<1> QED
  BY <1>1, <1>2, <1>3, <1>6 DEF AskedInv, LostIsAsked

\* The walk of an unknown address has passed nothing and ends at nothing.
LEMMA DeleteUnknownAsked ==
  ASSUME FieldsInv, TreeInv, TreeInv', LeavingInv, AskedInv, DeleteUnknown
  PROVE  AskedInv' /\ LostIsAsked
<1>1. /\ pc = "deleteWalk" /\ loc.n = NULL /\ pc' = "idle" /\ loc' = NoLocals
      /\ NotPassed(loc.addr, NULL)
  BY DEF DeleteUnknown, At, Return, Goto, AskedInv
<1>2. InTree' = InTree /\ key' = key /\ Leaving' \in {Leaving, NULL}
  BY QuietActions
<1>3. AskedInv'
  BY <1>1, <1>2, StillAsked
<1>4. Known = {key[m].addr : m \in InTree} /\ Known' = Known
  BY <1>2, KnownAre, KnownWillBe
<1>5. PICK B : IsTree(InTree, root, link, parent, B)
  BY <1>1, IdleTree
<1>6. loc.addr \notin Known
  BY <1>1, <1>4, <1>5 DEF NotPassed
<1> QED
  BY <1>3, <1>4, <1>6 DEF LostIsAsked

\* Insertions, rotations, the rebalancing of a deletion
LEMMA OtherStepsAsked ==
  ASSUME FieldsInv, TreeInv, TreeInv', LeavingInv, AskedInv, WriterStep,
         ~(DeleteUnknown \/ DeleteWalk \/ DeleteMax \/ Unlink)
  PROVE  AskedInv' /\ LostIsAsked
<1>1. pc \notin {"deleteWalk", "deleteMax", "unlink"}
  <2>1. CASE Rotate1 \/ Rotate2 \/ Rotate3
    BY <2>1 DEF Rotate1, Rotate2, Rotate3, At
  <2>2. CASE \/ InsertKnown \/ InsertWalk \/ InsertCase1 \/ InsertCase2 \/ InsertCase3
             \/ InsertCase4 \/ InsertCase5
    BY <2>2 DEF InsertKnown, InsertWalk, InsertCase1, InsertCase2, InsertCase3,
                InsertCase4, InsertCase5, At
  <2>3. CASE \/ BeginUnlink \/ DeleteCase1 \/ DeleteCase2 \/ DeleteCase3 \/ DeleteCase4
             \/ DeleteCase5 \/ DeleteCase6
    BY <2>3 DEF BeginUnlink, DeleteCase1, DeleteCase2, DeleteCase3, DeleteCase4,
                DeleteCase5, DeleteCase6, At
  <2> QED
    BY <2>1, <2>2, <2>3 DEF WriterStep
<1>2. pc' \notin {"deleteWalk", "deleteMax"}
  <2>1. CASE Rotate1 \/ Rotate2 \/ Rotate3
    BY <2>1 DEF Rotate1, Rotate2, Rotate3, Goto, FieldsInv, Rotations, Resumed
  <2>2. CASE \/ InsertKnown \/ InsertWalk \/ InsertCase1 \/ InsertCase2 \/ InsertCase3
             \/ InsertCase4 \/ InsertCase5
    BY <2>2 DEF InsertKnown, InsertWalk, InsertCase1, InsertCase2, InsertCase3,
                InsertCase4, InsertCase5, Return, Goto, BeginRotation
  <2>3. CASE \/ BeginUnlink \/ DeleteCase1 \/ DeleteCase2 \/ DeleteCase3 \/ DeleteCase4
             \/ DeleteCase5 \/ DeleteCase6
    BY <2>3, Zenon DEF BeginUnlink, DeleteCase1, DeleteCase2, DeleteCase3, DeleteCase4,
                DeleteCase5, DeleteCase6, Goto, BeginRotation
  <2> QED
    BY <2>1, <2>2, <2>3 DEF WriterStep
<1>3. loc'.addr = loc.addr \/ loc' = NoLocals
  BY KeepsAddr
<1>4. /\ InTree \subseteq InTree' /\ \A m \in InTree : key'[m] = key[m]
      /\ \/ Leaving' = NULL
         \/ InTree' = InTree /\ key' = key /\ Leaving' = Leaving
  <2>1. CASE Rotate1 \/ Rotate2 \/ Rotate3
    BY <2>1, QuietRotation
  <2>2. CASE InsertKnown
    BY <2>2, InsertKnownMaps
  <2>3. CASE InsertWalk
    BY <2>3, InsertLeafMaps, QuietActions
  <2>4. CASE InsertCase1 \/ InsertCase2 \/ InsertCase3 \/ InsertCase4 \/ InsertCase5
    BY <2>4, QuietActions
  <2>5. CASE \/ BeginUnlink \/ DeleteCase1 \/ DeleteCase2 \/ DeleteCase3 \/ DeleteCase4
             \/ DeleteCase5 \/ DeleteCase6
    BY <2>5, QuietActions
  <2> QED
    BY <2>1, <2>2, <2>3, <2>4, <2>5 DEF WriterStep
<1>5. AskedInv'
  <2>1. CASE Leaving' = NULL
    BY <1>2, <2>1 DEF AskedInv
  <2>2. CASE InTree' = InTree /\ key' = key /\ Leaving' = Leaving
    BY <1>2, <1>3, <2>2, StillAsked
  <2> QED
    BY <1>4, <2>1, <2>2
<1>6. Known \subseteq Known'
  BY <1>4, NothingLost
<1> QED
  BY <1>1, <1>5, <1>6 DEF LostIsAsked

LEMMA BeginsAsked ==
  ASSUME FieldsInv, TreeInv, TreeInv', LeavingInv, AskedInv,
         \/ \E o \in Objects : BeginInsert(o.addr, o.size, o.value)
         \/ \E a \in Addrs : BeginDelete(a)
  PROVE  AskedInv' /\ LostIsAsked
<1>1. CASE \E o \in Objects : BeginInsert(o.addr, o.size, o.value)
  <2>1. PICK o \in Objects : BeginInsert(o.addr, o.size, o.value)
    BY <1>1
  <2>2. /\ InTree \subseteq InTree' /\ Leaving' = NULL
        /\ \A m \in InTree : key'[m] = key[m]
    BY <2>1, BeginInsertMaps
  <2>3. pc = "idle" /\ pc' \in {"insert1", "insertWalk"}
    BY <2>1 DEF BeginInsert, MayBegin, Goto
  <2>4. Known \subseteq Known'
    BY <2>2, NothingLost
  <2> QED
    BY <2>2, <2>3, <2>4 DEF AskedInv, LostIsAsked
<1>2. CASE \E a \in Addrs : BeginDelete(a)
  <2>1. PICK a \in Addrs : BeginDelete(a)
    BY <1>2
  <2>2. /\ pc = "idle" /\ pc' = "deleteWalk"
        /\ loc' = [NoLocals EXCEPT !.n = root, !.addr = a]
        /\ UNCHANGED << root, link, parent >>
    BY <2>1 DEF BeginDelete, MayBegin, Goto, tree
  <2>3. InTree' = InTree /\ key' = key
    BY <1>2, QuietActions
  <2>4. loc'.n = root /\ loc'.addr = a /\ loc'.gone = NULL
    BY <2>2 DEF NoLocals
  <2>5. NotPassed(a, root)
    BY DEF NotPassed, IsTree, IsLinked, IsBelow
  <2>6. NotPassed(loc.addr, loc.n)'
    BY <2>2, <2>3, <2>4, <2>5 DEF NotPassed
  <2>7. Leaving' = NULL
    BY <2>2, <2>4 DEF Leaving
  <2>8. Known \subseteq Known'
    BY <2>3, NothingLost
  <2> QED
    BY <2>2, <2>6, <2>7, <2>8 DEF AskedInv, LostIsAsked
<1> QED
  BY <1>1, <1>2

LEMMA NextAsked ==
  ASSUME RbInv, RbInv', LeavingInv, AskedInv, [Next]_vars
  PROVE  AskedInv' /\ [LostIsAsked]_vars
<1>1. FieldsInv /\ TreeInv /\ TreeInv'
  BY DEF RbInv
<1>2. CASE WriterStep
  BY <1>1, <1>2, DeleteUnknownAsked, DeleteWalkAsked, DeleteMaxAsked, UnlinkAsked,
     OtherStepsAsked
<1>3. CASE \/ \E o \in Objects : BeginInsert(o.addr, o.size, o.value)
           \/ \E a \in Addrs : BeginDelete(a)
  BY <1>1, <1>3, BeginsAsked
<1>4. CASE \/ \E r \in Readers : LookupStep(r) \/ \E a \in Probed : BeginLookup(r, a)
           \/ UNCHANGED vars
  <2>1. UNCHANGED << tree, pc, loc, rotation >>
    BY <1>4, Zenon DEF LookupStep, BeginLookup, vars
  <2>2. InTree' = InTree /\ key' = key /\ UNCHANGED << root, link, parent >>
    BY <2>1 DEF InTree, Moving, tree
  <2>3. Leaving' = Leaving
    BY <2>1 DEF Leaving
  <2>4. Known' = Known
    BY <1>1, <2>2, KnownAre, KnownWillBe
  <2>5. AskedInv'
    BY <2>1, <2>2, <2>3 DEF AskedInv, NotPassed, LeavingIsAsked
  <2> QED
    BY <2>1, <2>4, <2>5 DEF LostIsAsked
<1> QED
  BY <1>2, <1>3, <1>4 DEF Next

\* A deletion loses the address it was called with and no other, though another
\* node may leave the tree and another entry be copied; after it, that address
\* is in the tree no more.
THEOREM DeletesAreAsAsked == Spec => DeletesWhatWasAsked
<1>1. Init => AskedInv
  BY DEF Init, AskedInv, Leaving, NoLocals
<1>2. RbInv /\ RbInv' /\ LeavingInv /\ AskedInv /\ [Next]_vars =>
        AskedInv' /\ [LostIsAsked]_vars
  BY NextAsked
<1>3. [LostIsAsked]_vars =>
        [/\ Known \ Known' \subseteq {loc.addr}
         /\ pc \in {"deleteWalk", "unlink"} /\ pc' = "idle" => loc.addr \notin Known']_vars
  BY DEF LostIsAsked
<1> QED
  BY <1>1, <1>2, <1>3, InvariantHolds, LeavingHolds, PTL DEF Spec, DeletesWhatWasAsked
=============================================================================
