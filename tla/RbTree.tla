------------------------------- MODULE RbTree -------------------------------
(***************************************************************************)
(* The red-black tree of traced objects (lib/cver/cver_rbtree.cc), pointer *)
(* by pointer.  A tree maps the address and size of an object to its type  *)
(* table.  Each thread with a CverThread has one for its stack, used by    *)
(* that thread alone; one more, for globals, is written by constructors    *)
(* (also those of a library opened later) and searched by every thread     *)
(* without a lock.                                                         *)
(*                                                                         *)
(* One action is one case of the algorithm; a rotation is split into its   *)
(* three stores to child pointers, which are what a concurrent search can  *)
(* see.  Left and right are the directions of link, so each pair of mirror *)
(* images in the source is one action here.                                *)
(***************************************************************************)
EXTENDS Naturals, FiniteSets

CONSTANTS
  Nodes, NULL,     \* blocks of memory for rbtree_node_t, and the null pointer
  Addrs, Sizes, TypeTables,
  Objects,         \* [addr, size, value]: the objects that come and go
  Probed,          \* addresses that are looked up
  Readers,         \* lookups that can be under way at the same time
  Shared           \* TRUE for the tree of globals, FALSE for a stack's tree

ASSUME ConstantsAssumption ==
  /\ Addrs \subseteq Nat /\ Sizes \subseteq Nat \ {0} /\ Probed \subseteq Nat
  /\ Addrs # {} /\ Sizes # {} /\ TypeTables # {}
  /\ Objects \subseteq [addr : Addrs, size : Sizes, value : TypeTables]
  /\ NULL \notin Nodes /\ IsFiniteSet(Nodes)
  /\ Shared \in BOOLEAN

VARIABLES
  root,
  key, value, color, link, parent,  \* the fields of the nodes
  allocated,                        \* nodes rbtree_malloc returned, not freed
  pc, loc, rotation,                \* the writer: its place and its locals
  find                              \* per reader, its lookup

tree == << root, key, value, color, link, parent, allocated >>
vars == << tree, pc, loc, rotation, find >>

Dirs == {"left", "right"}
Other(d) == IF d = "left" THEN "right" ELSE "left"
Keys == [addr : Addrs, size : Sizes]
AnyKey == CHOOSE k \in Keys : TRUE
AnyTable == CHOOSE v \in TypeTables : TRUE

-----------------------------------------------------------------------------
(* Helpers of the source *)

NodeColor(n) == IF n = NULL THEN "BLACK" ELSE color[n]

\* Which child of its parent n is.
DirOf(n) == IF n = link["left"][parent[n]] THEN "left" ELSE "right"
Sibling(n) == link[Other(DirOf(n))][parent[n]]
Grandparent(n) == parent[parent[n]]
Uncle(n) == Sibling(parent[n])

Paint(n, c) == color' = [color EXCEPT ![n] = c]

\* Mutant: the child keeps the parent pointer to the node that goes.
ParentReplaced_Kept(oldn, newn) == parent

\* replace_node: newn takes the place of oldn under oldn's parent.
RootReplaced(oldn, newn) == IF parent[oldn] = NULL THEN newn ELSE root
LinkReplaced(oldn, newn) ==
  IF parent[oldn] = NULL THEN link
  ELSE [link EXCEPT ![DirOf(oldn)][parent[oldn]] = newn]
ParentReplaced(oldn, newn) ==
  IF newn = NULL THEN parent ELSE [parent EXCEPT ![newn] = parent[oldn]]

-----------------------------------------------------------------------------
(* The writer's control *)

NoLocals == [n |-> NULL, held |-> NULL, gone |-> NULL, addr |-> 0]
NoRotation == [dir |-> "left", node |-> NULL, up |-> NULL, next |-> "idle"]

Init ==
  /\ root = NULL
  /\ key = [n \in Nodes |-> AnyKey]
  /\ value = [n \in Nodes |-> AnyTable]
  /\ color = [n \in Nodes |-> "RED"]
  /\ link = [d \in Dirs |-> [n \in Nodes |-> NULL]]
  /\ parent = [n \in Nodes |-> NULL]
  /\ allocated = {}
  /\ pc = "idle" /\ loc = NoLocals /\ rotation = NoRotation
  /\ find = [r \in Readers |-> [searching |-> FALSE, addr |-> 0, node |-> NULL,
                                result |-> {}, disturbed |-> FALSE]]

Searching == {r \in Readers : find[r].searching}

\* The thread of an unshared tree does one operation at a time.
MayBegin == pc = "idle" /\ (Shared \/ Searching = {})

\* Every step of the writer is seen by the lookups under way.
Disturb ==
  find' = [r \in Readers |->
             IF r \in Searching THEN [find[r] EXCEPT !.disturbed = TRUE]
                                ELSE find[r]]

Goto(label) == pc' = label /\ Disturb
Return == Goto("idle") /\ loc' = NoLocals
At(label) == pc = label

BeginRotation(d, n, next) ==
  /\ Goto("rotate1")
  /\ rotation' = [dir |-> d, node |-> n, up |-> link[Other(d)][n], next |-> next]

-----------------------------------------------------------------------------
(* rotate_left and rotate_right *)

Rotate1 ==
  /\ At("rotate1")
  /\ root' = RootReplaced(rotation.node, rotation.up)
  /\ link' = LinkReplaced(rotation.node, rotation.up)
  /\ parent' = ParentReplaced(rotation.node, rotation.up)
  /\ Goto("rotate2")
  /\ UNCHANGED << key, value, color, allocated, loc, rotation >>

\* Mutants: the outer grandchild changes sides; no grandchild does.
InnerChild_Outer(t) == link[Other(t.dir)][t.up]
InnerChild_Kept(t) == t.up

InnerChild(t) == link[t.dir][t.up]

Rotate2 ==
  /\ At("rotate2")
  /\ LET n == rotation.node
         inner == InnerChild(rotation)
     IN  /\ link' = [link EXCEPT ![Other(rotation.dir)][n] = inner]
         /\ parent' = IF inner = NULL THEN parent
                                      ELSE [parent EXCEPT ![inner] = n]
  /\ Goto("rotate3")
  /\ UNCHANGED << root, key, value, color, allocated, loc, rotation >>

Rotate3 ==
  /\ At("rotate3")
  /\ link' = [link EXCEPT ![rotation.dir][rotation.up] = rotation.node]
  /\ parent' = [parent EXCEPT ![rotation.node] = rotation.up]
  /\ Goto(rotation.next)
  /\ loc' = IF rotation.next = "idle" THEN NoLocals ELSE loc
  /\ rotation' = NoRotation
  /\ UNCHANGED << root, key, value, color, allocated >>

-----------------------------------------------------------------------------
(* rbtree_insert: loc.n is the node walked over, then the one that may      *)
(* violate the red-black rules; loc.held is inserted_node.                  *)

\* Which free block rbtree_malloc returns makes no difference.
FreeNode == CHOOSE n \in Nodes \ allocated : TRUE

BeginInsert(a, s, v) ==
  /\ MayBegin /\ allocated # Nodes
  /\ LET n == FreeNode
     IN  /\ allocated' = allocated \cup {n}
         /\ key' = [key EXCEPT ![n] = [addr |-> a, size |-> s]]
         /\ value' = [value EXCEPT ![n] = v]
         /\ Paint(n, "RED")
         /\ link' = [d \in Dirs |-> [link[d] EXCEPT ![n] = NULL]]
         /\ parent' = [parent EXCEPT ![n] = NULL]
         /\ IF root = NULL
              THEN /\ root' = n
                   /\ loc' = [NoLocals EXCEPT !.n = n]
                   /\ Goto("insert1")
              ELSE /\ loc' = [NoLocals EXCEPT !.n = root, !.held = n, !.addr = a]
                   /\ Goto("insertWalk")
                   /\ UNCHANGED root
  /\ UNCHANGED rotation

Toward(a, n) == IF a < key[n].addr THEN "left" ELSE "right"

\* The address is known already: the value is replaced, the size is not, and
\* inserted_node is neither linked nor freed (nothing reads it again, so it is
\* shown blank).
InsertKnown ==
  /\ At("insertWalk")
  /\ key[loc.n].addr = loc.addr
  /\ value' = [value EXCEPT ![loc.n] = value[loc.held], ![loc.held] = AnyTable]
  /\ key' = [key EXCEPT ![loc.held] = AnyKey]
  /\ Return
  /\ UNCHANGED << root, color, link, parent, allocated, rotation >>

InsertWalk ==
  /\ At("insertWalk")
  /\ key[loc.n].addr # loc.addr
  /\ LET d == Toward(loc.addr, loc.n) IN
       IF link[d][loc.n] # NULL
         THEN /\ loc' = [loc EXCEPT !.n = link[d][loc.n]]
              /\ Goto("insertWalk")
              /\ UNCHANGED << link, parent >>
         ELSE /\ link' = [link EXCEPT ![d][loc.n] = loc.held]
              /\ parent' = [parent EXCEPT ![loc.held] = loc.n]
              /\ loc' = [loc EXCEPT !.n = loc.held]
              /\ Goto("insert1")
  /\ UNCHANGED << root, key, value, color, allocated, rotation >>

\* insert_case1: the root is black.
InsertCase1 ==
  /\ At("insert1")
  /\ parent[loc.n] = NULL
  /\ Paint(loc.n, "BLACK")
  /\ Return
  /\ UNCHANGED << root, key, value, link, parent, allocated, rotation >>

\* insert_case2: under a black parent the tree is still valid.
InsertCase2 ==
  /\ At("insert1")
  /\ parent[loc.n] # NULL /\ NodeColor(parent[loc.n]) = "BLACK"
  /\ Return
  /\ UNCHANGED << tree, rotation >>

UncleIsRed(n) == NodeColor(Uncle(n)) = "RED"

\* insert_case3: parent and uncle are red; the grandparent takes over the red.
InsertCase3 ==
  /\ At("insert1")
  /\ parent[loc.n] # NULL /\ NodeColor(parent[loc.n]) = "RED"
  /\ UncleIsRed(loc.n)
  /\ color' = [color EXCEPT ![parent[loc.n]] = "BLACK",
                            ![Uncle(loc.n)] = "BLACK",
                            ![Grandparent(loc.n)] = "RED"]
  /\ loc' = [loc EXCEPT !.n = Grandparent(loc.n)]
  /\ Goto("insert1")
  /\ UNCHANGED << root, key, value, link, parent, allocated, rotation >>

\* insert_case4: an inner grandchild is rotated to the outside.  What n becomes,
\* n->left after a left rotation, is its old parent.
InsertCase4 ==
  /\ At("insert1")
  /\ parent[loc.n] # NULL /\ NodeColor(parent[loc.n]) = "RED"
  /\ ~UncleIsRed(loc.n)
  /\ IF DirOf(loc.n) # DirOf(parent[loc.n])
       THEN /\ BeginRotation(Other(DirOf(loc.n)), parent[loc.n], "insert5")
            /\ loc' = [loc EXCEPT !.n = parent[loc.n]]
       ELSE Goto("insert5") /\ UNCHANGED << loc, rotation >>
  /\ UNCHANGED tree

\* insert_case5
InsertCase5 ==
  /\ At("insert5")
  /\ color' = [color EXCEPT ![parent[loc.n]] = "BLACK",
                            ![Grandparent(loc.n)] = "RED"]
  /\ BeginRotation(Other(DirOf(loc.n)), Grandparent(loc.n), "idle")
  /\ UNCHANGED << root, key, value, link, parent, allocated, loc >>

-----------------------------------------------------------------------------
(* rbtree_delete: loc.n is the node walked over, then the one that is a    *)
(* black short; loc.held is the node whose key is replaced by its          *)
(* predecessor's, then child; loc.gone is the node to unlink.              *)

BeginDelete(a) ==
  /\ MayBegin
  /\ ~Shared
  /\ loc' = [NoLocals EXCEPT !.n = root, !.addr = a]
  /\ Goto("deleteWalk")
  /\ UNCHANGED << tree, rotation >>

DeleteUnknown ==
  /\ At("deleteWalk")
  /\ loc.n = NULL
  /\ Return
  /\ UNCHANGED << tree, rotation >>

\* Mutant: compare_obj_range in the place of compare_obj.
HasKey_InRange(n, a) == key[n].addr <= a /\ a < key[n].addr + key[n].size

\* compare_obj: sizes play no part.
HasKey(n, a) == key[n].addr = a

DeleteWalk ==
  /\ At("deleteWalk")
  /\ loc.n # NULL
  /\ LET n == loc.n IN
       \/ /\ ~HasKey(n, loc.addr)
          /\ loc' = [loc EXCEPT !.n = link[Toward(loc.addr, n)][n]]
          /\ Goto("deleteWalk")
       \/ /\ HasKey(n, loc.addr)
          /\ \A d \in Dirs : link[d][n] # NULL
          /\ loc' = [loc EXCEPT !.held = n, !.n = link["left"][n]]
          /\ Goto("deleteMax")
       \/ /\ HasKey(n, loc.addr)
          /\ \E d \in Dirs : link[d][n] = NULL
          /\ UNCHANGED loc
          /\ Goto("delete0")
  /\ UNCHANGED << tree, rotation >>

\* Mutant: only the key is copied.
CopiedValue_Old(n) == value[loc.held]

CopiedValue(n) == value[n]

\* maximum_node, and the predecessor's key and value copied
DeleteMax ==
  /\ At("deleteMax")
  /\ IF link["right"][loc.n] # NULL
       THEN /\ loc' = [loc EXCEPT !.n = link["right"][loc.n]]
            /\ Goto("deleteMax")
            /\ UNCHANGED << key, value >>
       ELSE /\ key' = [key EXCEPT ![loc.held] = key[loc.n]]
            /\ value' = [value EXCEPT ![loc.held] = CopiedValue(loc.n)]
            /\ Goto("delete0")
            /\ UNCHANGED loc
  /\ UNCHANGED << root, color, link, parent, allocated, rotation >>

OnlyChild(n) == IF link["right"][n] = NULL THEN link["left"][n] ELSE link["right"][n]

BeginUnlink ==
  /\ At("delete0")
  /\ loc' = [loc EXCEPT !.gone = loc.n, !.held = OnlyChild(loc.n)]
  /\ IF NodeColor(loc.n) = "BLACK"
       THEN Paint(loc.n, NodeColor(OnlyChild(loc.n))) /\ Goto("delete1")
       ELSE UNCHANGED color /\ Goto("unlink")
  /\ UNCHANGED << root, key, value, link, parent, allocated, rotation >>

DeleteCase1 ==
  /\ At("delete1")
  /\ Goto(IF parent[loc.n] = NULL THEN "unlink" ELSE "delete2")
  /\ UNCHANGED << tree, loc, rotation >>

\* delete_case2: a red sibling is rotated above the parent.
DeleteCase2 ==
  /\ At("delete2")
  /\ IF NodeColor(Sibling(loc.n)) = "RED"
       THEN /\ color' = [color EXCEPT ![parent[loc.n]] = "RED",
                                      ![Sibling(loc.n)] = "BLACK"]
            /\ BeginRotation(DirOf(loc.n), parent[loc.n], "delete3")
       ELSE Goto("delete3") /\ UNCHANGED << color, rotation >>
  /\ UNCHANGED << root, key, value, link, parent, allocated, loc >>

\* Mutant: only one child is looked at.
SiblingIsBlack_OneChild(n) ==
  /\ NodeColor(Sibling(n)) = "BLACK"
  /\ NodeColor(link["right"][Sibling(n)]) = "BLACK"

\* The sibling and both its children are black.
SiblingIsBlack(n) ==
  /\ NodeColor(Sibling(n)) = "BLACK"
  /\ \A d \in Dirs : NodeColor(link[d][Sibling(n)]) = "BLACK"

\* delete_case3: all black; the parent is now a black short.
DeleteCase3 ==
  /\ At("delete3")
  /\ NodeColor(parent[loc.n]) = "BLACK" /\ SiblingIsBlack(loc.n)
  /\ Paint(Sibling(loc.n), "RED")
  /\ loc' = [loc EXCEPT !.n = parent[loc.n]]
  /\ Goto("delete1")
  /\ UNCHANGED << root, key, value, link, parent, allocated, rotation >>

\* delete_case4: only the parent is red; it trades colours with the sibling.
DeleteCase4 ==
  /\ At("delete3")
  /\ NodeColor(parent[loc.n]) = "RED" /\ SiblingIsBlack(loc.n)
  /\ color' = [color EXCEPT ![Sibling(loc.n)] = "RED", ![parent[loc.n]] = "BLACK"]
  /\ Goto("unlink")
  /\ UNCHANGED << root, key, value, link, parent, allocated, loc, rotation >>

\* Mutant: the inner nephew is never rotated out.
OnlyInnerNephewIsRed_Never(n) == FALSE

OnlyInnerNephewIsRed(n) ==
  /\ NodeColor(Sibling(n)) = "BLACK"
  /\ NodeColor(link[DirOf(n)][Sibling(n)]) = "RED"
  /\ NodeColor(link[Other(DirOf(n))][Sibling(n)]) = "BLACK"

\* delete_case5: a red inner nephew is rotated above the sibling.
DeleteCase5 ==
  /\ At("delete3")
  /\ ~SiblingIsBlack(loc.n)
  /\ IF OnlyInnerNephewIsRed(loc.n)
       THEN LET d == DirOf(loc.n)
                s == Sibling(loc.n)
            IN  /\ color' = [color EXCEPT ![s] = "RED", ![link[d][s]] = "BLACK"]
                /\ BeginRotation(Other(d), s, "delete6")
       ELSE Goto("delete6") /\ UNCHANGED << color, rotation >>
  /\ UNCHANGED << root, key, value, link, parent, allocated, loc >>

\* delete_case6: the red outer nephew pays for the missing black.
DeleteCase6 ==
  /\ At("delete6")
  /\ LET d == DirOf(loc.n)
         s == Sibling(loc.n)
     IN  /\ color' = [color EXCEPT ![s] = NodeColor(parent[loc.n]),
                                   ![parent[loc.n]] = "BLACK",
                                   ![link[Other(d)][s]] = "BLACK"]
         /\ BeginRotation(d, parent[loc.n], "unlink")
  /\ UNCHANGED << root, key, value, link, parent, allocated, loc >>

\* replace_node(t, n, child), the root is black, rbtree_free(n): the freed block
\* is blank.
Unlink ==
  /\ At("unlink")
  /\ LET n == loc.gone
         new == loc.held
     IN  /\ root' = RootReplaced(n, new)
         /\ link' = [d \in Dirs |-> [LinkReplaced(n, new)[d] EXCEPT ![n] = NULL]]
         /\ parent' = [ParentReplaced(n, new) EXCEPT ![n] = NULL]
         /\ color' = [m \in Nodes |->
                        IF m = n THEN "RED"
                        ELSE IF m = new /\ parent[n] = NULL THEN "BLACK"
                        ELSE color[m]]
         /\ key' = [key EXCEPT ![n] = AnyKey]
         /\ value' = [value EXCEPT ![n] = AnyTable]
         /\ allocated' = allocated \ {n}
  /\ Return
  /\ UNCHANGED rotation

-----------------------------------------------------------------------------
(* rbtree_lookup_range *)

BeginLookup(r, a) ==
  /\ ~find[r].searching
  /\ Shared \/ (pc = "idle" /\ Searching = {})
  /\ find' = [find EXCEPT ![r] = [searching |-> TRUE, addr |-> a, node |-> root,
                                  result |-> {}, disturbed |-> pc # "idle"]]
  /\ UNCHANGED << tree, pc, loc, rotation >>

EntryOf(n) == [addr |-> key[n].addr, size |-> key[n].size, value |-> value[n]]

\* Mutants: off by one at either end of the object.
Before_OrAt(a, n) == a <= key[n].addr
Beyond_Last(a, n) == a > key[n].addr + key[n].size

\* compare_obj_range
Before(a, n) == a < key[n].addr
Beyond(a, n) == a >= key[n].addr + key[n].size

\* The step down, or the end of the search
LookupStep(r) ==
  /\ find[r].searching
  /\ LET n == find[r].node
         a == find[r].addr
     IN  \/ /\ n = NULL
            /\ find' = [find EXCEPT ![r].searching = FALSE]
         \/ /\ n # NULL /\ Before(a, n)
            /\ find' = [find EXCEPT ![r].node = link["left"][n]]
         \/ /\ n # NULL /\ ~Before(a, n) /\ Beyond(a, n)
            /\ find' = [find EXCEPT ![r].node = link["right"][n]]
         \/ /\ n # NULL /\ ~Before(a, n) /\ ~Beyond(a, n)
            /\ find' = [find EXCEPT ![r].searching = FALSE, ![r].node = NULL,
                                    ![r].result = {EntryOf(n)}]
  /\ UNCHANGED << tree, pc, loc, rotation >>

-----------------------------------------------------------------------------
WriterStep ==
  \/ Rotate1 \/ Rotate2 \/ Rotate3
  \/ InsertKnown \/ InsertWalk
  \/ InsertCase1 \/ InsertCase2 \/ InsertCase3 \/ InsertCase4 \/ InsertCase5
  \/ DeleteUnknown \/ DeleteWalk \/ DeleteMax \/ BeginUnlink
  \/ DeleteCase1 \/ DeleteCase2 \/ DeleteCase3 \/ DeleteCase4 \/ DeleteCase5
  \/ DeleteCase6 \/ Unlink

Next ==
  \/ \E o \in Objects : BeginInsert(o.addr, o.size, o.value)
  \/ \E a \in Addrs : BeginDelete(a)
  \/ WriterStep
  \/ \E r \in Readers : LookupStep(r) \/ \E a \in Probed : BeginLookup(r, a)

\* A thread inside an operation is scheduled eventually.
Spec ==
  Init /\ [][Next]_vars /\ WF_vars(WriterStep)
       /\ \A r \in Readers : WF_vars(LookupStep(r))

-----------------------------------------------------------------------------
(* The tree as a set *)

Below(S) == S \cup ({link[d][n] : d \in Dirs, n \in S} \ {NULL})

\* The nodes under those of S.
Under(S) ==
  LET reach[i \in 0 .. Cardinality(Nodes)] ==
        IF i = 0 THEN S \ {NULL} ELSE Below(reach[i - 1])
  IN  reach[Cardinality(Nodes)]

\* Between the first and the last store of a rotation the node rotated down
\* is linked from nowhere; it is still in the tree.
Contents ==
  {EntryOf(n) :
     n \in Under({root} \cup
                 (IF pc \in {"rotate2", "rotate3"} THEN {rotation.node} ELSE {}))}

Disjoint ==
  \A e, f \in Contents : e.addr < f.addr => e.addr + e.size <= f.addr

-----------------------------------------------------------------------------
(* Properties *)

NodesOrNull == Nodes \cup {NULL}
Labels ==
  {"idle", "rotate1", "rotate2", "rotate3", "insertWalk", "insert1", "insert5",
   "deleteWalk", "deleteMax", "delete0", "delete1", "delete2", "delete3",
   "delete6", "unlink"}

\* In particular no pointer leads to a freed node.
TypeOK ==
  /\ root \in NodesOrNull
  /\ key \in [Nodes -> Keys] /\ value \in [Nodes -> TypeTables]
  /\ color \in [Nodes -> {"RED", "BLACK"}]
  /\ link \in [Dirs -> [Nodes -> NodesOrNull]]
  /\ parent \in [Nodes -> NodesOrNull]
  /\ allocated \subseteq Nodes
  /\ {root} \cup UNION {{parent[n], link["left"][n], link["right"][n]} :
                        n \in allocated} \subseteq allocated \cup {NULL}
  /\ pc \in Labels
  /\ loc \in [n : NodesOrNull, held : NodesOrNull, gone : NodesOrNull,
              addr : Addrs \cup {0}]
  /\ rotation \in [dir : Dirs, node : NodesOrNull, up : NodesOrNull, next : Labels]
  /\ \A r \in Readers :
       /\ find[r].searching \in BOOLEAN /\ find[r].disturbed \in BOOLEAN
       /\ find[r].addr \in Probed \cup {0} /\ find[r].node \in NodesOrNull
       /\ Cardinality(find[r].result) <= 1

\* verify_property_2, 4 and 5, which are compiled out: between operations the
\* root is black, no red node has a red child, and every path from a node down
\* to a null pointer passes the same number of black nodes.
BlackHeight[n \in NodesOrNull] ==
  IF n = NULL THEN 1
  ELSE BlackHeight[link["left"][n]] + (IF color[n] = "BLACK" THEN 1 ELSE 0)

VerifyProperties ==
  pc = "idle" =>
    /\ NodeColor(root) = "BLACK"
    /\ \A n \in Under({root}) :
         /\ color[n] = "RED" => \A d \in Dirs : NodeColor(link[d][n]) = "BLACK"
         /\ BlackHeight[link["left"][n]] = BlackHeight[link["right"][n]]

\* Between operations the tree is ordered by address and every parent pointer
\* is the inverse of the child pointer it came from.
WellLinked ==
  pc = "idle" =>
    /\ root # NULL => parent[root] = NULL
    /\ \A n \in Under({root}) : \A d \in Dirs :
         /\ link[d][n] # NULL => parent[link[d][n]] = n
         /\ \A m \in Under({link[d][n]}) :
              IF d = "left" THEN key[m].addr < key[n].addr
                            ELSE key[m].addr > key[n].addr

\* The rbtree_asserts of the rebalancing cases, compiled out as well: the
\* relatives a case needs exist, and case 6 finds its red nephew.
AssertionsHold ==
  /\ pc = "insert1" /\ parent[loc.n] # NULL /\ NodeColor(parent[loc.n]) = "RED"
       => Grandparent(loc.n) # NULL
  /\ pc = "insert5" => DirOf(loc.n) = DirOf(parent[loc.n])
  /\ pc = "delete0" => \E d \in Dirs : link[d][loc.n] = NULL
  /\ pc \in {"delete2", "delete3"} => Sibling(loc.n) # NULL
  /\ pc = "delete6" => NodeColor(link[Other(DirOf(loc.n))][Sibling(loc.n)]) = "RED"

\* A lookup that overlaps no insertion, of an address in a tree of disjoint
\* objects, finds the object that covers the address if there is one.
Covering(a) == {e \in Contents : e.addr <= a /\ a < e.addr + e.size}

LookupFindsCovering ==
  [][\A r \in Readers :
       find[r].searching /\ ~find'[r].searching /\ ~find[r].disturbed /\ Disjoint
         => find'[r].result = Covering(find[r].addr)]_vars

\* A lookup that races with insertions may miss an object, but what it finds is
\* in the tree, with its present type table, and covers the address.
LookupNeverInvents ==
  [][\A r \in Readers :
       find[r].searching /\ ~find'[r].searching
         => find'[r].result \subseteq Covering(find[r].addr)]_vars

\* Whatever the writer does meanwhile, a lookup ends.
EveryLookupReturns == \A r \in Readers : find[r].searching ~> ~find[r].searching

\* Each operation changes the contents in one step and as IntervalMap says;
\* rotations and recolourings change nothing.
Map == INSTANCE IntervalMap WITH entries <- Contents
ImplementsMap == Map!MapSpec

\* Whichever node leaves the tree and whichever entry was copied over another,
\* the address that is lost is the one rbtree_delete was called with, and when
\* it returns that address is in the tree no more.
Known == {e.addr : e \in Contents}

DeletesWhatWasAsked ==
  [][/\ Known \ Known' \subseteq {loc.addr}
     /\ pc \in {"deleteWalk", "unlink"} /\ pc' = "idle" => loc.addr \notin Known']_vars
=============================================================================
