----------------------------- MODULE CastLocate -----------------------------
(***************************************************************************)
(* Which type table a cast is checked against: what the handlers of object *)
(* creation record (__cver_handle_new, _stack_enter, _stack_exit and       *)
(* _global_var), and how __cver_handle_cast goes from a pointer to a table *)
(* and the start of the object, through the tree of the thread's stack,    *)
(* the metadata of heap blocks and the tree of globals.                    *)
(*                                                                         *)
(* Addresses are numbers, as the metadata of a pointer is found by         *)
(* arithmetic: the primary allocator is one aligned space, cut into a      *)
(* region per size class and each region into blocks.  The trees are the   *)
(* maps RbTree implements, a call of the heap is one step (see CverHeap),  *)
(* and only the main thread ever has a CverThread.                         *)
(***************************************************************************)
EXTENDS Naturals, FiniteSets

CONSTANTS
  Threads, Main,
  SpaceBeg,    \* kSpaceBeg
  RegionSize,  \* kRegionSize
  Regions,     \* kNumClassesRounded
  BlockSize,   \* of each class: the size of its blocks, 0 if it has none
  MapSize,     \* kUserMapSize
  Stack,       \* addresses of the main thread's stack
  Outside,     \* addresses of images, mappings and other threads' stacks
  Sizes,       \* sizes that malloc is asked for
  Types, TypeSize,
  MaxObjects,  \* bound: objects created
  NoTable

SizeClasses == 0 .. Regions - 1
Primary == SpaceBeg .. SpaceBeg + RegionSize * Regions - 1

ASSUME LocateAssumption ==
  /\ Main \in Threads
  /\ SpaceBeg \in Nat \ {0} /\ RegionSize \in Nat \ {0} /\ Regions \in Nat \ {0}
  /\ SpaceBeg % (RegionSize * Regions) = 0
  /\ BlockSize \in [SizeClasses -> Nat] /\ MapSize \in Nat \ {0}
  /\ Stack \subseteq Nat \ {0} /\ Outside \subseteq Nat \ {0}
  /\ Stack \cap Primary = {} /\ Outside \cap Primary = {}
  /\ Stack \cap Outside = {}
  /\ Sizes \subseteq Nat \ {0} /\ TypeSize \in [Types -> Nat \ {0}]
  /\ MaxObjects \in Nat
  /\ NoTable \notin Types

VARIABLES
  mapped,      \* of each class: how much of its region is mapped (mapped_user)
  blocks,      \* blocks the program has
  requested,   \* requested_size in the metadata of each block
  table,       \* the type table in the metadata of each block
  traced,      \* the main thread still has its CverThread
  stackTree,   \* its tree
  globalTree,  \* the tree of globals
  objects,     \* live objects of the program
  strayed,     \* blocks whose table was set for an object that is not in them
  created      \* objects created so far

heap == << mapped, blocks, requested, table, strayed >>
trees == << stackTree, globalTree >>
vars == << heap, traced, trees, objects, created >>

StackMap == INSTANCE IntervalMap WITH
  entries <- stackTree, Addrs <- Stack, Sizes <- Nat, TypeTables <- Types
GlobalMap == INSTANCE IntervalMap WITH
  entries <- globalTree, Addrs <- Outside, Sizes <- Nat, TypeTables <- Types

-----------------------------------------------------------------------------
(* SizeClassAllocator64: from a pointer to a block *)

PointerIsMine(p) == p \in Primary

\* Mutant: the index is that of the next block when p is in the middle of one.
ChunkIdx_Up(p, size) == ((p % RegionSize) + size - 1) \div size

SizeClass(p) == (p \div RegionSize) % Regions
ChunkIdx(p, size) == (p % RegionSize) \div size

\* The block, or the place of its metadata: computed for any pointer at all.
BlockOf(p) == << SizeClass(p), ChunkIdx(p, BlockSize[SizeClass(p)]) >>

\* The first m[c] bytes of each region c are mapped, and next_beg is within.
IsMapped(b, m) == (b[2] + 1) * BlockSize[b[1]] <= m[b[1]]
HasBlock(p, m) == BlockSize[SizeClass(p)] > 0 /\ IsMapped(BlockOf(p), m)

BlockBegin(p) ==
  (p - (p % RegionSize)) + BlockOf(p)[2] * BlockSize[SizeClass(p)]

Whole == [c \in SizeClasses |-> RegionSize]
Blocks == {BlockOf(p) : p \in {q \in Primary : HasBlock(q, Whole)}}
Cells ==
  [b \in Blocks |-> {p \in Primary : HasBlock(p, Whole) /\ BlockOf(p) = b}]
Begin(b) == SpaceBeg + b[1] * RegionSize + b[2] * BlockSize[b[1]]

-----------------------------------------------------------------------------
Init ==
  /\ mapped = [c \in SizeClasses |-> 0]
  /\ blocks = {}
  /\ requested = [b \in Blocks |-> 0]
  /\ table = [b \in Blocks |-> NoTable]
  /\ traced = TRUE
  /\ stackTree = {} /\ globalTree = {}
  /\ objects = {}
  /\ strayed = {}
  /\ created = 0

Extent(at, type) == at .. at + TypeSize[type] - 1
CellsOf(o) == Extent(o.at, o.type)
Occupied == UNION {CellsOf(o) : o \in objects}
Object(at, type, by) == [at |-> at, type |-> type, by |-> by]

\* An object comes to life where none is.
Create(at, type, by) ==
  /\ created < MaxObjects
  /\ created' = created + 1
  /\ Extent(at, type) \cap Occupied = {}
  /\ objects' = objects \cup {Object(at, type, by)}

\* SetCverTypeTableAndNumElements, for any pointer a new-expression got
HandleNew(p, type, tables, m) ==
  IF HasBlock(p, m) THEN [tables EXCEPT ![BlockOf(p)] = type] ELSE tables

-----------------------------------------------------------------------------
(* The heap *)

\* ClassID: the smallest that fits
Holds(c, n) ==
  /\ n <= BlockSize[c]
  /\ \A d \in SizeClasses : n <= BlockSize[d] => BlockSize[c] <= BlockSize[d]

\* The program may use what it asked for, which may be less than the block.
Given(b) == Begin(b) .. Begin(b) + requested[b] - 1

\* CverAllocate
Fresh(b) == [table EXCEPT ![b] = NoTable]

\* PopulateFreeList maps memory in units; the last block of it is not carved.
Mappings(b) ==
  {m \in mapped[b[1]] .. RegionSize :
     /\ (m - mapped[b[1]]) % MapSize = 0
     /\ (b[2] + 2) * BlockSize[b[1]] <= m}

Allocate(b, n) ==
  /\ b \notin blocks /\ Holds(b[1], n)
  /\ blocks' = blocks \cup {b}
  /\ \E m \in Mappings(b) : mapped' = [mapped EXCEPT ![b[1]] = m]
  /\ requested' = [requested EXCEPT ![b] = n]
  /\ strayed' = strayed \ {b}

Malloc(b, n) ==
  /\ Allocate(b, n)
  /\ table' = Fresh(b)
  /\ UNCHANGED << traced, trees, objects, created >>

\* A new-expression: operator new, then __cver_handle_new.
New(b, type) ==
  /\ Allocate(b, TypeSize[type])
  /\ Create(Begin(b), type, "new")
  /\ table' = HandleNew(Begin(b), type, Fresh(b), mapped')
  /\ UNCHANGED << traced, trees >>

\* The same with an operator new of the class, that takes memory out of a block
\* of the program,
NewInPool(p, type) ==
  /\ \E b \in blocks : Extent(p, type) \subseteq Given(b)
  /\ Create(p, type, "pool")
  /\ table' = HandleNew(p, type, table, mapped)
  /\ UNCHANGED << mapped, blocks, requested, strayed, traced, trees >>

\* or out of other memory (operator new does so itself for large objects), which
\* may be a buffer on the stack.
NewOutside(p, type) ==
  /\ \/ Extent(p, type) \subseteq Outside
     \/ Extent(p, type) \subseteq Stack
  /\ Create(p, type, "outside")
  /\ table' = HandleNew(p, type, table, mapped)
  /\ strayed' = strayed \cup (IF HasBlock(p, mapped) THEN {BlockOf(p)} ELSE {})
  /\ UNCHANGED << mapped, blocks, requested, traced, trees >>

\* Objects that nobody records: those of new-expressions with placement
\* arguments, std::nothrow too, and the local objects of threads without a
\* CverThread.
Unrecorded(p, type) ==
  /\ \/ Extent(p, type) \subseteq Outside
     \/ Extent(p, type) \subseteq Stack
     \/ \E b \in blocks : Extent(p, type) \subseteq Given(b)
  /\ Create(p, type, "placement")
  /\ UNCHANGED << heap, traced, trees >>

\* A destructor runs, and the memory stays the program's.
Destroy(o) ==
  /\ o.by \in {"new", "pool", "outside", "placement"}
  /\ objects' = objects \ {o}
  /\ UNCHANGED << heap, traced, trees, created >>

\* Mutant: free leaves the table to the next malloc.
Freed_Keeps(b) == table

\* CverDeallocate
Freed(b) == [table EXCEPT ![b] = NoTable]

\* delete and free, of a block in which nothing else lives.
Free(b) ==
  LET inside == {o \in objects : o.at \in Cells[b]}
  IN  /\ b \in blocks
      /\ \A o \in inside : o.by = "new"
      /\ objects' = objects \ inside
      /\ blocks' = blocks \ {b}
      /\ requested' = [requested EXCEPT ![b] = 0]
      /\ table' = Freed(b)
      /\ strayed' = strayed \ {b}
      /\ UNCHANGED << mapped, traced, trees, created >>

-----------------------------------------------------------------------------
(* The main thread's stack *)

\* Mutant: the tree is used without asking for the thread.
HasTree_Always == TRUE

HasTree == traced

Enter(p, type) ==
  /\ Extent(p, type) \subseteq Stack
  /\ Create(p, type, "stack")
  /\ IF HasTree THEN StackMap!Register(p, TypeSize[type], type)
                ELSE UNCHANGED stackTree
  /\ UNCHANGED << heap, traced, globalTree >>

Exit(o) ==
  /\ o.by = "stack"
  /\ objects' = objects \ {o}
  /\ IF HasTree THEN StackMap!Unregister(o.at) ELSE UNCHANGED stackTree
  /\ UNCHANGED << heap, traced, globalTree, created >>

\* An exception passes: __cver_handle_stack_exit is not called.
Unwind(o) ==
  /\ o.by = "stack"
  /\ objects' = objects \ {o}
  /\ UNCHANGED << heap, traced, trees, created >>

\* CverThread::Destroy: the context stays, without a thread.
DestroyThread ==
  /\ traced
  /\ traced' = FALSE
  /\ stackTree' = {}
  /\ UNCHANGED << heap, globalTree, objects, created >>

-----------------------------------------------------------------------------
(* Globals *)

\* A constructor of the image calls __cver_handle_global_var.
Load(p, type) ==
  /\ Extent(p, type) \subseteq Outside
  /\ Create(p, type, "global")
  /\ GlobalMap!Register(p, TypeSize[type], type)
  /\ UNCHANGED << heap, traced, stackTree >>

\* The image is unloaded (dlclose); nothing tells the runtime.
Unload(o) ==
  /\ o.by = "global"
  /\ objects' = objects \ {o}
  /\ UNCHANGED << heap, traced, trees, created >>

-----------------------------------------------------------------------------
Next ==
  \/ \E b \in Blocks :
       \/ \E n \in Sizes : Malloc(b, n)
       \/ \E v \in Types : New(b, v)
       \/ Free(b)
  \/ \E p \in Primary, v \in Types : NewInPool(p, v)
  \/ \E p \in Outside \cup Stack, v \in Types : NewOutside(p, v)
  \/ \E p \in Outside, v \in Types : Load(p, v)
  \/ \E p \in Stack, v \in Types : Enter(p, v)
  \/ \E p \in Primary \cup Outside \cup Stack, v \in Types : Unrecorded(p, v)
  \/ \E o \in objects : Destroy(o) \/ Exit(o) \/ Unwind(o) \/ Unload(o)
  \/ DestroyThread

Spec == Init /\ [][Next]_vars

-----------------------------------------------------------------------------
(* __cver_handle_cast: what a pointer is found to point into *)

Found(value, base) == [table |-> value, base |-> base]

\* rbtree_lookup_range: where entries overlap, any of them (or none, which the
\* properties do not tell apart).
InTree(tree, p) ==
  {Found(e.value, e.addr) : e \in {f \in tree : StackMap!Covers(f, p)}}

\* Mutant: a pointer in a block is taken for one to its start.
HeapBase_Pointer(p) == p

HeapBase(p) == BlockBegin(p)

InHeap(p) ==
  IF HasBlock(p, mapped) /\ table[BlockOf(p)] # NoTable
    THEN {Found(table[BlockOf(p)], HeapBase(p))} ELSE {}

\* Mutant: a stack pointer without an entry is looked for elsewhere.
OnOwnStack_Never(t, p) == FALSE

OnOwnStack(t, p) == t = Main /\ traced /\ p \in Stack

\* Every place where the search begins also ends it.  An empty set is
\* UNKNOWN_CAST_RET: no check is made.
Locate(t, p) ==
  CASE OnOwnStack(t, p) -> InTree(stackTree, p)
    [] ~OnOwnStack(t, p) /\ PointerIsMine(p) -> InHeap(p)
    [] ~OnOwnStack(t, p) /\ ~PointerIsMine(p) -> InTree(globalTree, p)

-----------------------------------------------------------------------------
(* Properties *)

Kinds == {"new", "pool", "outside", "placement", "stack", "global"}

TypeOK ==
  /\ mapped \in [SizeClasses -> 0 .. RegionSize]
  /\ blocks \subseteq Blocks /\ strayed \subseteq Blocks
  /\ requested \in [Blocks -> Nat]
  /\ table \in [Blocks -> Types \cup {NoTable}]
  /\ traced \in BOOLEAN
  /\ stackTree \subseteq StackMap!Entries
  /\ globalTree \subseteq GlobalMap!Entries
  /\ objects \subseteq [at : Nat, type : Types, by : Kinds]
  /\ created \in 0 .. MaxObjects
  /\ ~traced => stackTree = {}

Own(o) == Found(o.type, o.at)

IsStale(e) ==
  \A o \in objects :
    ~(o.by \in {"stack", "global"} /\ o.at = e.addr /\ o.type = e.value
      /\ TypeSize[o.type] = e.size)

StaleAt(p) ==
  {e \in stackTree \cup globalTree : StackMap!Covers(e, p) /\ IsStale(e)}

\* A cast of a pointer into a live object is checked against the type and from
\* the start of that object or not at all, with three exceptions:
\*   - an entry left by an exception or an unloaded image covers the pointer;
\*   - several objects share, or follow each other in, one block of the heap;
\*   - the table of its block was overwritten for an object that is elsewhere.
WrongTableHasACause ==
  \A t \in Threads, o \in objects : \A p \in CellsOf(o) :
    \/ Locate(t, p) \subseteq {Own(o)}
    \/ StaleAt(p) # {}
    \/ PointerIsMine(p) /\ o.by \in {"pool", "placement"}
    \/ PointerIsMine(p) /\ BlockOf(p) \in strayed

\* Objects that were recorded are checked: those of new-expressions and globals
\* whoever casts, the main thread's locals when it casts itself and while it
\* has its CverThread, as long as no entry of a tree is stale.
NothingIsStale == \A e \in stackTree \cup globalTree : ~IsStale(e)

RecordedAreFound ==
  \A t \in Threads, o \in objects : \A p \in CellsOf(o) :
    \/ o.by = "new" /\ BlockOf(p) \notin strayed
    \/ o.by = "global" /\ NothingIsStale
    \/ o.by = "stack" /\ NothingIsStale /\ traced /\ t = Main
    => Own(o) \in Locate(t, p)

\* A dangling pointer into the heap is not checked against the type of an
\* object that is gone.
DanglingIsUnknown ==
  \A t \in Threads, b \in Blocks \ (blocks \cup strayed) :
    \A p \in Cells[b] : Locate(t, p) = {}
=============================================================================
