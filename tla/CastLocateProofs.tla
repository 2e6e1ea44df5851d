-------------------------- MODULE CastLocateProofs --------------------------
(***************************************************************************)
(* Proofs about CastLocate for every layout of the primary allocator,      *)
(* every set of types and any number of threads and objects: the table a   *)
(* cast is checked against is that of the object the pointer is in, but    *)
(* for the named causes.                                                   *)
(***************************************************************************)
EXTENDS CastLocate, NumberLemmas

-----------------------------------------------------------------------------
(* The layout of the primary allocator *)

LEMMA Layout ==
  /\ RegionSize \in Nat \ {0} /\ Regions \in Nat \ {0} /\ SpaceBeg \in Nat
  /\ RegionSize * Regions \in Nat \ {0}
  /\ \E k \in Nat : SpaceBeg = (k * Regions) * RegionSize
<1>1. /\ RegionSize \in Nat \ {0} /\ Regions \in Nat \ {0} /\ SpaceBeg \in Nat
      /\ SpaceBeg % (RegionSize * Regions) = 0
  BY LocateAssumption
<1>2. RegionSize * Regions \in Nat \ {0}
  BY <1>1
<1>3. PICK m : m = RegionSize * Regions
  OBVIOUS
<1>4. SpaceBeg = (SpaceBeg \div m) * m + (SpaceBeg % m) /\ SpaceBeg \div m \in Nat
  BY <1>1, <1>2, <1>3, DivisionTheorem
<1>5. PICK k \in Nat : SpaceBeg = k * m
  <2>1. PICK k : k = SpaceBeg \div m
    OBVIOUS
  <2>2. k \in Nat /\ SpaceBeg % m = 0
    BY <1>1, <1>3, <1>4, <2>1
  <2>3. k * m \in Nat
    BY <1>2, <1>3, <2>2
  <2>4. SpaceBeg = k * m
    BY <1>4, <2>1, <2>2, <2>3
  <2> QED
    BY <2>2, <2>4
<1>6. SpaceBeg = (k * Regions) * RegionSize
  BY <1>1, <1>3, <1>5
<1> QED
  BY <1>1, <1>2, <1>6

\* An address of the space from its region and its place there,
LEMMA InRegion ==
  ASSUME NEW c \in SizeClasses, NEW r \in 0 .. RegionSize - 1, NEW p,
         p = SpaceBeg + c * RegionSize + r
  PROVE  p \in Primary /\ p \in Nat /\ SizeClass(p) = c /\ p % RegionSize = r
<1>1. /\ RegionSize \in Nat \ {0} /\ Regions \in Nat \ {0} /\ SpaceBeg \in Nat
      /\ c \in Nat /\ c < Regions /\ r \in Nat /\ r < RegionSize
  BY Layout DEF SizeClasses
<1>2. PICK k \in Nat : SpaceBeg = (k * Regions) * RegionSize
  BY Layout
<1>3. PICK q \in Nat : q = k * Regions + c
  BY <1>1, <1>2
<1>4. p = q * RegionSize + r
  BY <1>1, <1>2, <1>3
<1>5. p \div RegionSize = q /\ p % RegionSize = r
  BY <1>1, <1>4, Division
<1>6. q % Regions = c
  BY <1>1, <1>2, <1>3, Division
<1>7. p \in Primary
  <2>1. PICK d \in Nat : Regions = c + 1 + d
    BY <1>1
  <2>2. RegionSize * Regions = c * RegionSize + RegionSize + d * RegionSize
        /\ d * RegionSize >= 0 /\ c * RegionSize >= 0
        /\ c * RegionSize \in Nat /\ d * RegionSize \in Nat
    BY <1>1, <2>1
  <2> QED
    BY <1>1, <2>2 DEF Primary
<1> QED
  BY <1>1, <1>4, <1>5, <1>6, <1>7 DEF SizeClass

\* and back.
LEMMA RegionOf ==
  ASSUME NEW p \in Primary
  PROVE  /\ p \in Nat /\ SizeClass(p) \in SizeClasses
         /\ p % RegionSize \in 0 .. RegionSize - 1
         /\ p = SpaceBeg + SizeClass(p) * RegionSize + (p % RegionSize)
<1>1. /\ RegionSize \in Nat \ {0} /\ Regions \in Nat \ {0} /\ SpaceBeg \in Nat
      /\ RegionSize * Regions \in Nat \ {0}
  BY Layout
<1>2. PICK d \in Nat : p = SpaceBeg + d /\ d < RegionSize * Regions
  BY <1>1 DEF Primary
<1>3. PICK c : c = d \div RegionSize
  OBVIOUS
<1>4. PICK r : r = d % RegionSize
  OBVIOUS
<1>5. c \in Nat /\ r \in 0 .. RegionSize - 1 /\ d = c * RegionSize + r
  BY <1>1, <1>2, <1>3, <1>4, DivisionTheorem
<1>6. c < Regions
  <2>1. CASE c >= Regions
    <3>1. PICK k \in Nat : c = Regions + k
      BY <1>1, <1>5, <2>1
    <3>2. c * RegionSize = RegionSize * Regions + k * RegionSize
          /\ k * RegionSize \in Nat /\ RegionSize * Regions \in Nat
      BY <1>1, <3>1
    <3> QED
      BY <1>2, <1>5, <3>2
  <2> QED
    BY <1>1, <1>5, <2>1
<1>7. c \in SizeClasses
  BY <1>1, <1>5, <1>6 DEF SizeClasses
<1>8. p = SpaceBeg + c * RegionSize + r
  BY <1>1, <1>2, <1>5
<1>9. p \in Nat /\ SizeClass(p) = c /\ p % RegionSize = r
  BY <1>5, <1>7, <1>8, InRegion
<1> QED
  BY <1>5, <1>7, <1>8, <1>9

\* The arithmetic finds a block for any address, of the space or not.
LEMMA AnyBlock ==
  ASSUME NEW p \in Nat, NEW m \in [SizeClasses -> 0 .. RegionSize],
         HasBlock(p, m)
  PROVE  BlockOf(p) \in Blocks
<1>1. RegionSize \in Nat \ {0}
  BY Layout
<1>2. PICK c : c = SizeClass(p)
  OBVIOUS
<1>3. PICK r : r = p % RegionSize
  OBVIOUS
<1>4. c \in SizeClasses /\ r \in 0 .. RegionSize - 1
  <2>1. Regions \in Nat \ {0}
    BY LocateAssumption
  <2>2. r \in 0 .. RegionSize - 1 /\ p \div RegionSize \in Nat
    BY <1>1, <1>3, DivisionTheorem
  <2>3. (p \div RegionSize) % Regions \in 0 .. Regions - 1
    BY <2>1, <2>2, DivisionTheorem
  <2> QED
    BY <1>2, <2>2, <2>3 DEF SizeClass, SizeClasses
<1>5. PICK q : q = SpaceBeg + c * RegionSize + r
  OBVIOUS
<1>6. q \in Primary /\ SizeClass(q) = c /\ q % RegionSize = r
  BY <1>4, <1>5, InRegion
<1>7. BlockOf(q) = BlockOf(p)
  BY <1>2, <1>3, <1>6 DEF BlockOf, ChunkIdx
<1>8. HasBlock(q, Whole)
  <2>1. BlockSize[c] \in Nat \ {0} /\ BlockOf(p) = << c, r \div BlockSize[c] >>
    BY <1>2, <1>3, <1>4, LocateAssumption DEF HasBlock, BlockOf, ChunkIdx
  <2>2. PICK k : k = r \div BlockSize[c]
    OBVIOUS
  <2>3. k \in Nat
    <3>1. r \in Nat
      BY <1>1, <1>4
    <3> QED
      BY <2>1, <2>2, <3>1, DivisionTheorem
  <2>4. (k + 1) * BlockSize[c] <= m[c] /\ m[c] \in 0 .. RegionSize
    BY <1>4, <2>1, <2>2 DEF HasBlock, IsMapped
  <2>5. (k + 1) * BlockSize[c] \in Nat
    BY <2>1, <2>3
  <2>6. IsMapped(BlockOf(q), Whole)
    BY <1>1, <1>4, <1>7, <2>1, <2>2, <2>4, <2>5 DEF IsMapped, Whole
  <2> QED
    BY <1>6, <2>1, <2>6 DEF HasBlock
<1> QED
  BY <1>6, <1>7, <1>8 DEF Blocks

LEMMA BlocksAre ==
  ASSUME NEW b \in Blocks
  PROVE  /\ b = << b[1], b[2] >> /\ b[1] \in SizeClasses /\ b[2] \in Nat
         /\ BlockSize[b[1]] \in Nat \ {0}
         /\ (b[2] + 1) * BlockSize[b[1]] <= RegionSize
<1>1. PICK p \in Primary : HasBlock(p, Whole) /\ b = BlockOf(p)
  BY DEF Blocks
<1>2. SizeClass(p) \in SizeClasses /\ p % RegionSize \in Nat
  BY <1>1, RegionOf
<1>3. /\ b = << b[1], b[2] >> /\ b[1] = SizeClass(p)
      /\ b[2] = (p % RegionSize) \div BlockSize[SizeClass(p)]
  BY <1>1 DEF BlockOf, ChunkIdx
<1>4. BlockSize[b[1]] \in Nat \ {0}
  BY <1>1, <1>2, <1>3, LocateAssumption DEF HasBlock
<1>5. b[2] \in Nat
  BY <1>2, <1>3, <1>4, DivisionTheorem
<1> QED
  BY <1>1, <1>2, <1>3, <1>4, <1>5 DEF HasBlock, IsMapped, Whole

\* The addresses of a block: those from Begin(b) on.
LEMMA CellsOfBlock ==
  ASSUME NEW b \in Blocks, NEW i \in 0 .. BlockSize[b[1]] - 1
  PROVE  Begin(b) + i \in Cells[b]
<1>1. PICK c : c = b[1]
  OBVIOUS
<1>2. PICK n : n = b[2]
  OBVIOUS
<1>3. PICK s : s = BlockSize[c]
  OBVIOUS
<1>4. /\ b = << c, n >> /\ c \in SizeClasses /\ n \in Nat /\ s \in Nat \ {0}
      /\ (n + 1) * s <= RegionSize /\ i \in Nat /\ i < s
      /\ RegionSize \in Nat /\ SpaceBeg \in Nat /\ c \in Nat
  BY <1>1, <1>2, <1>3, BlocksAre, Layout DEF SizeClasses
<1>5. PICK r : r = n * s + i
  OBVIOUS
<1>6. r \in 0 .. RegionSize - 1
  <2>1. (n + 1) * s = n * s + s /\ n * s \in Nat
    BY <1>4
  <2> QED
    BY <1>4, <1>5, <2>1
<1>7. r \div s = n
  BY <1>4, <1>5, Division
<1>8. PICK p : p = SpaceBeg + c * RegionSize + r
  OBVIOUS
<1>9. p \in Primary /\ SizeClass(p) = c /\ p % RegionSize = r
  BY <1>4, <1>6, <1>8, InRegion
<1>10. BlockOf(p) = b
  BY <1>3, <1>4, <1>7, <1>9 DEF BlockOf, ChunkIdx
<1>11. HasBlock(p, Whole)
  BY <1>1, <1>2, <1>3, <1>4, <1>9, <1>10 DEF HasBlock, IsMapped, Whole
<1>12. Begin(b) + i = p
  <2>1. Begin(b) = SpaceBeg + c * RegionSize + n * s
    BY <1>1, <1>2, <1>3 DEF Begin
  <2> QED
    BY <1>4, <1>5, <1>8, <2>1
<1> QED
  BY <1>9, <1>10, <1>11, <1>12 DEF Cells

\* From any of them the arithmetic finds the block and its start.
LEMMA BlockOfCell ==
  ASSUME NEW b \in Blocks, NEW p \in Cells[b]
  PROVE  /\ p \in Primary /\ BlockOf(p) = b
         /\ \A m : HasBlock(p, m) <=> IsMapped(b, m)
         /\ BlockBegin(p) = Begin(b)
<1>1. p \in Primary /\ BlockOf(p) = b /\ HasBlock(p, Whole)
  BY DEF Cells
<1>2. SizeClass(p) = b[1]
  BY <1>1 DEF BlockOf
<1>3. /\ p \in Nat /\ SizeClass(p) \in Nat /\ p % RegionSize \in Nat
      /\ p = SpaceBeg + SizeClass(p) * RegionSize + (p % RegionSize)
      /\ SpaceBeg \in Nat /\ RegionSize \in Nat
  BY <1>1, RegionOf, Layout DEF SizeClasses
<1>4. p - (p % RegionSize) = SpaceBeg + b[1] * RegionSize
  BY <1>2, <1>3
<1>5. BlockBegin(p) = Begin(b)
  BY <1>1, <1>2, <1>4 DEF BlockBegin, Begin
<1> QED
  BY <1>1, <1>2, <1>5 DEF HasBlock

-----------------------------------------------------------------------------
(* The inductive invariant *)

\* The program gets no more than a block has, and a block it does not have has no
\* type, unless one strayed there.
BlocksInv ==
  \A b \in Blocks :
    /\ requested[b] <= BlockSize[b[1]]
    /\ b \in blocks => IsMapped(b, mapped)
    /\ b \notin blocks \cup strayed => table[b] = NoTable

ObjectsApart ==
  \A o, q \in objects : CellsOf(o) \cap CellsOf(q) # {} => o = q

\* Objects outside of the heap, and entries of those that get one.
PlacesInv ==
  \A o \in objects :
    /\ o.by = "outside" => CellsOf(o) \subseteq Outside \/ CellsOf(o) \subseteq Stack
    /\ o.by = "global" => CellsOf(o) \subseteq Outside
    /\ o.by = "stack" => CellsOf(o) \subseteq Stack

TreesInv ==
  \A o \in objects :
    /\ o.by = "global" => \E e \in globalTree : e.addr = o.at /\ e.value = o.type
    /\ o.by = "stack" /\ traced =>
         \E e \in stackTree : e.addr = o.at /\ e.value = o.type

\* The block of a new-expression is its object's alone, and says so unless a
\* table strayed there.
HasHome(o, b) ==
  /\ o.at = Begin(b) /\ requested[b] = TypeSize[o.type]
  /\ b \in strayed \/ table[b] = o.type

HomesInv == \A o \in objects : o.by = "new" => \E b \in blocks : HasHome(o, b)

LocateInv ==
  TypeOK /\ BlocksInv /\ ObjectsApart /\ PlacesInv /\ TreesInv /\ HomesInv

-----------------------------------------------------------------------------
LEMMA LocateInit == Init => LocateInv
<1> SUFFICES ASSUME Init PROVE LocateInv
  OBVIOUS
<1>1. 0 \in 0 .. MaxObjects
  BY LocateAssumption
<1>2. TypeOK
  BY <1>1, LocateAssumption DEF Init, TypeOK
<1>3. \A b \in Blocks : BlockSize[b[1]] \in Nat
  BY BlocksAre
<1>4. BlocksInv
  BY <1>2, <1>3 DEF Init, BlocksInv
<1> QED
  BY <1>2, <1>4
  DEF Init, LocateInv, ObjectsApart, PlacesInv, TreesInv, HomesInv

\* The cells of an object, and of what is to become one.
LEMMA CellsOfObject ==
  ASSUME NEW at \in Nat, NEW v \in Types, NEW by
  PROVE  /\ at \in Extent(at, v) /\ CellsOf(Object(at, v, by)) = Extent(at, v)
         /\ Object(at, v, by).at = at /\ Object(at, v, by).type = v
         /\ Object(at, v, by).by = by
<1>1. TypeSize[v] \in Nat \ {0}
  BY LocateAssumption
<1>2. at \in Extent(at, v)
  BY <1>1 DEF Extent
<1> QED
  BY <1>2 DEF CellsOf, Object

LEMMA ObjectCells ==
  ASSUME TypeOK, NEW o \in objects
  PROVE  o.at \in Nat /\ o.type \in Types /\ o.at \in CellsOf(o)
<1>1. o.at \in Nat /\ o.type \in Types
  BY DEF TypeOK
<1>2. TypeSize[o.type] \in Nat \ {0}
  BY <1>1, LocateAssumption
<1> QED
  BY <1>1, <1>2 DEF CellsOf, Extent

\* What the program was given lies in the block.
LEMMA GivenInCells ==
  ASSUME TypeOK, BlocksInv, NEW b \in Blocks
  PROVE  Given(b) \subseteq Cells[b]
<1>1. /\ requested[b] \in Nat /\ requested[b] <= BlockSize[b[1]]
      /\ BlockSize[b[1]] \in Nat /\ Begin(b) \in Nat
  <2>1. /\ b[1] \in Nat /\ b[2] \in Nat /\ BlockSize[b[1]] \in Nat
        /\ RegionSize \in Nat /\ SpaceBeg \in Nat
    BY BlocksAre, Layout DEF SizeClasses
  <2>2. b[1] * RegionSize \in Nat /\ b[2] * BlockSize[b[1]] \in Nat
    BY <2>1
  <2> QED
    BY <2>1, <2>2 DEF TypeOK, BlocksInv, Begin
<1>2. ASSUME NEW p \in Given(b) PROVE p \in Cells[b]
  <2>1. PICK i \in 0 .. BlockSize[b[1]] - 1 : p = Begin(b) + i
    <3>1. p - Begin(b) \in 0 .. BlockSize[b[1]] - 1 /\ p = Begin(b) + (p - Begin(b))
      BY <1>1 DEF Given
    <3> QED
      BY <3>1
  <2> QED
    BY <2>1, CellsOfBlock
<1> QED
  BY <1>2

LEMMA BlockStarts ==
  ASSUME NEW b \in Blocks
  PROVE  Begin(b) \in Cells[b] /\ Begin(b) \in Nat
<1>1. 0 \in 0 .. BlockSize[b[1]] - 1
  BY BlocksAre
<1>2. Begin(b) \in Nat
  <2>1. /\ b[1] \in Nat /\ b[2] \in Nat /\ BlockSize[b[1]] \in Nat
        /\ RegionSize \in Nat /\ SpaceBeg \in Nat
    BY BlocksAre, Layout DEF SizeClasses
  <2>2. b[1] * RegionSize \in Nat /\ b[2] * BlockSize[b[1]] \in Nat
    BY <2>1
  <2> QED
    BY <2>1, <2>2 DEF Begin
<1>3. Begin(b) + 0 \in Cells[b]
  BY <1>1, CellsOfBlock
<1> QED
  BY <1>2, <1>3

\* What a new-expression writes, by where its pointer points.
LEMMA NewInBlock ==
  ASSUME NEW b \in Blocks, NEW p \in Cells[b], NEW v, NEW tables, NEW m,
         IsMapped(b, m)
  PROVE  HandleNew(p, v, tables, m) = [tables EXCEPT ![b] = v]
BY BlockOfCell DEF HandleNew

-----------------------------------------------------------------------------
LEMMA CreateKeepsApart ==
  ASSUME TypeOK, ObjectsApart, NEW at \in Nat, NEW v \in Types, NEW by,
         Create(at, v, by)
  PROVE  ObjectsApart'
<1>1. PICK n : n = Object(at, v, by)
  OBVIOUS
<1>2. CellsOf(n) \cap Occupied = {} /\ objects' = objects \cup {n}
  BY <1>1, CellsOfObject DEF Create
<1>3. \A o \in objects : CellsOf(o) \subseteq Occupied
  BY DEF Occupied
<1> QED
  BY <1>2, <1>3 DEF ObjectsApart

LEMMA FewerStayApart ==
  ASSUME ObjectsApart, objects' \subseteq objects
  PROVE  ObjectsApart'
BY DEF ObjectsApart

LEMMA ApartStep ==
  ASSUME LocateInv, [Next]_vars
  PROVE  ObjectsApart'
<1>0. TypeOK /\ ObjectsApart
  BY DEF LocateInv
<1>1. Primary \cup Outside \cup Stack \subseteq Nat
  BY LocateAssumption DEF Primary
<1>2. CASE UNCHANGED vars
  BY <1>0, <1>2, FewerStayApart DEF vars
<1>3. ASSUME NEW b \in Blocks,
             \/ \E n \in Sizes : Malloc(b, n)
             \/ \E v \in Types : New(b, v)
             \/ Free(b)
      PROVE  ObjectsApart'
  <2>1. CASE \E n \in Sizes : Malloc(b, n)
    BY <1>0, <2>1, FewerStayApart DEF Malloc
  <2>2. ASSUME NEW v \in Types, New(b, v) PROVE ObjectsApart'
    BY <1>0, <2>2, BlockStarts, CreateKeepsApart DEF New
  <2>3. CASE Free(b)
    BY <1>0, <2>3, FewerStayApart DEF Free
  <2> QED
    BY <1>3, <2>1, <2>2, <2>3
<1>4. ASSUME NEW p \in Primary \cup Outside \cup Stack, NEW v \in Types,
             \/ NewInPool(p, v) \/ NewOutside(p, v) \/ Load(p, v) \/ Enter(p, v)
             \/ Unrecorded(p, v)
      PROVE  ObjectsApart'
  <2>1. p \in Nat /\ \E by \in Kinds : Create(p, v, by)
    BY <1>1, <1>4 DEF NewInPool, NewOutside, Load, Enter, Unrecorded, Kinds
  <2> QED
    BY <1>0, <2>1, CreateKeepsApart
<1>5. ASSUME NEW o \in objects, Destroy(o) \/ Exit(o) \/ Unwind(o) \/ Unload(o)
      PROVE  ObjectsApart'
  BY <1>0, <1>5, FewerStayApart DEF Destroy, Exit, Unwind, Unload
<1>6. CASE DestroyThread
  BY <1>0, <1>6, FewerStayApart DEF DestroyThread
<1> QED
  BY <1>2, <1>3, <1>4, <1>5, <1>6 DEF Next

-----------------------------------------------------------------------------
\* Before a block is handed out its memory is mapped, and none is unmapped.
LEMMA AllocateMaps ==
  ASSUME TypeOK, NEW b \in Blocks, NEW n, Allocate(b, n)
  PROVE  /\ mapped' \in [SizeClasses -> 0 .. RegionSize]
         /\ IsMapped(b, mapped')
         /\ \A x \in Blocks : IsMapped(x, mapped) => IsMapped(x, mapped')
<1>1. /\ b[1] \in SizeClasses /\ b[2] \in Nat /\ BlockSize[b[1]] \in Nat
      /\ RegionSize \in Nat /\ mapped \in [SizeClasses -> 0 .. RegionSize]
  BY BlocksAre, LocateAssumption DEF TypeOK
<1>2. PICK m \in Mappings(b) : mapped' = [mapped EXCEPT ![b[1]] = m]
  BY DEF Allocate
<1>3. /\ m \in 0 .. RegionSize /\ mapped[b[1]] <= m
      /\ (b[2] + 2) * BlockSize[b[1]] <= m
  BY <1>1, <1>2 DEF Mappings
<1>4. /\ mapped' \in [SizeClasses -> 0 .. RegionSize]
      /\ mapped'[b[1]] = m
      /\ \A c \in SizeClasses : mapped[c] <= mapped'[c]
  BY <1>1, <1>2, <1>3
<1>5. IsMapped(b, mapped')
  <2>1. (b[2] + 1) * BlockSize[b[1]] <= (b[2] + 2) * BlockSize[b[1]]
        /\ (b[2] + 1) * BlockSize[b[1]] \in Nat
        /\ (b[2] + 2) * BlockSize[b[1]] \in Nat
    BY <1>1
  <2> QED
    BY <1>3, <1>4, <2>1 DEF IsMapped
<1>6. ASSUME NEW x \in Blocks, IsMapped(x, mapped)
      PROVE  IsMapped(x, mapped')
  <2>1. x[1] \in SizeClasses /\ (x[2] + 1) * BlockSize[x[1]] \in Nat
    BY BlocksAre
  <2>2. mapped[x[1]] <= mapped'[x[1]] /\ mapped[x[1]] \in Nat /\ mapped'[x[1]] \in Nat
    BY <1>1, <1>4, <2>1
  <2> QED
    BY <1>6, <2>1, <2>2 DEF IsMapped
<1> QED
  BY <1>4, <1>5, <1>6

LEMMA TypeStep ==
  ASSUME LocateInv, [Next]_vars
  PROVE  TypeOK'
<1>0. TypeOK
  BY DEF LocateInv
<1>1. /\ Primary \cup Outside \cup Stack \subseteq Nat
      /\ MaxObjects \in Nat /\ TypeSize \in [Types -> Nat]
  BY LocateAssumption DEF Primary
<1>2. CASE UNCHANGED vars
  BY <1>0, <1>2 DEF TypeOK, vars, heap, trees
<1>3. ASSUME NEW at \in Nat, NEW v \in Types, NEW by \in Kinds, Create(at, v, by)
      PROVE  /\ created' \in 0 .. MaxObjects
             /\ objects' \subseteq [at : Nat, type : Types, by : Kinds]
  <2>1. Object(at, v, by) \in [at : Nat, type : Types, by : Kinds]
    BY DEF Object
  <2> QED
    BY <1>0, <1>1, <1>3, <2>1 DEF Create, TypeOK
<1>4. ASSUME NEW tables \in [Blocks -> Types \cup {NoTable}], NEW p, NEW m,
             NEW v \in Types
      PROVE  HandleNew(p, v, tables, m) \in [Blocks -> Types \cup {NoTable}]
  BY DEF HandleNew
<1>5. ASSUME NEW b \in Blocks, NEW n \in Nat, Allocate(b, n)
      PROVE  /\ mapped' \in [SizeClasses -> 0 .. RegionSize] /\ blocks' \subseteq Blocks
             /\ strayed' \subseteq Blocks /\ requested' \in [Blocks -> Nat]
             /\ Fresh(b) \in [Blocks -> Types \cup {NoTable}]
  BY <1>0, <1>5, AllocateMaps DEF Allocate, Fresh, TypeOK
<1>6. ASSUME NEW b \in Blocks, NEW n \in Sizes, Malloc(b, n)
      PROVE  TypeOK'
  <2>1. n \in Nat /\ Allocate(b, n)
    BY <1>6, LocateAssumption DEF Malloc
  <2> QED
    BY <1>0, <1>5, <1>6, <2>1 DEF Malloc, TypeOK, trees
<1>7. ASSUME NEW b \in Blocks, NEW v \in Types, New(b, v)
      PROVE  TypeOK'
  <2>1. Allocate(b, TypeSize[v]) /\ TypeSize[v] \in Nat /\ Begin(b) \in Nat
    BY <1>1, <1>7, BlockStarts DEF New
  <2>2. /\ created' \in 0 .. MaxObjects
        /\ objects' \subseteq [at : Nat, type : Types, by : Kinds]
    BY <1>3, <1>7, <2>1 DEF New, Kinds
  <2>3. table' \in [Blocks -> Types \cup {NoTable}]
    BY <1>4, <1>5, <1>7, <2>1 DEF New
  <2> QED
    BY <1>0, <1>5, <1>7, <2>1, <2>2, <2>3 DEF New, TypeOK, trees
<1>8. ASSUME NEW b \in Blocks, Free(b)
      PROVE  TypeOK'
  BY <1>0, <1>8 DEF Free, Freed, TypeOK, trees
<1>9. ASSUME NEW p \in Primary \cup Outside \cup Stack, NEW v \in Types,
             NewInPool(p, v) \/ NewOutside(p, v)
      PROVE  TypeOK'
  <2>1. /\ created' \in 0 .. MaxObjects
        /\ objects' \subseteq [at : Nat, type : Types, by : Kinds]
    BY <1>1, <1>3, <1>9 DEF NewInPool, NewOutside, Kinds
  <2>2. table' \in [Blocks -> Types \cup {NoTable}]
    BY <1>0, <1>4, <1>9 DEF NewInPool, NewOutside, TypeOK
  <2>3. strayed' \subseteq Blocks
    <3>1. HasBlock(p, mapped) => BlockOf(p) \in Blocks
      BY <1>0, <1>1, AnyBlock DEF TypeOK
    <3> QED
      BY <1>0, <1>9, <3>1 DEF NewInPool, NewOutside, TypeOK
  <2> QED
    BY <1>0, <1>9, <2>1, <2>2, <2>3 DEF NewInPool, NewOutside, TypeOK, trees
<1>10. ASSUME NEW p \in Outside, NEW v \in Types, Load(p, v)
       PROVE  TypeOK'
  <2>1. /\ created' \in 0 .. MaxObjects
        /\ objects' \subseteq [at : Nat, type : Types, by : Kinds]
    BY <1>1, <1>3, <1>10 DEF Load, Kinds
  <2>2. TypeSize[v] \in Nat
    BY <1>1
  <2>3. globalTree' \subseteq GlobalMap!Entries
    BY <1>0, <1>10, <2>2 DEF Load, TypeOK, GlobalMap!Register, GlobalMap!Entries,
      GlobalMap!At
  <2> QED
    BY <1>0, <1>10, <2>1, <2>3 DEF Load, TypeOK, heap
<1>11. ASSUME NEW p \in Stack, NEW v \in Types, Enter(p, v)
       PROVE  TypeOK'
  <2>1. /\ created' \in 0 .. MaxObjects
        /\ objects' \subseteq [at : Nat, type : Types, by : Kinds]
    BY <1>1, <1>3, <1>11 DEF Enter, Kinds
  <2>2. TypeSize[v] \in Nat
    BY <1>1
  <2>3. stackTree' \subseteq StackMap!Entries /\ (~traced => stackTree' = {})
    BY <1>0, <1>11, <2>2 DEF Enter, HasTree, TypeOK, StackMap!Register,
      StackMap!Entries, StackMap!At
  <2> QED
    BY <1>0, <1>11, <2>1, <2>3 DEF Enter, TypeOK, heap
<1>12. ASSUME NEW p \in Primary \cup Outside \cup Stack, NEW v \in Types,
              Unrecorded(p, v)
       PROVE  TypeOK'
  <2>1. /\ created' \in 0 .. MaxObjects
        /\ objects' \subseteq [at : Nat, type : Types, by : Kinds]
    BY <1>1, <1>3, <1>12 DEF Unrecorded, Kinds
  <2> QED
    BY <1>0, <1>12, <2>1 DEF Unrecorded, TypeOK, heap, trees
<1>13. ASSUME NEW o \in objects, Destroy(o) \/ Unwind(o) \/ Unload(o)
       PROVE  TypeOK'
  BY <1>0, <1>13 DEF Destroy, Unwind, Unload, TypeOK, heap, trees
<1>14. ASSUME NEW o \in objects, Exit(o)
       PROVE  TypeOK'
  <2>1. stackTree' \subseteq stackTree
    BY <1>14 DEF Exit, StackMap!Unregister
  <2> QED
    BY <1>0, <1>14, <2>1 DEF Exit, TypeOK, heap
<1>15. CASE DestroyThread
  BY <1>0, <1>15 DEF DestroyThread, TypeOK, heap
<1> QED
  BY <1>2, <1>6, <1>7, <1>8, <1>9, <1>10, <1>11, <1>12, <1>13, <1>14, <1>15
  DEF Next

-----------------------------------------------------------------------------
(* Where objects are *)

LEMMA NewPlaces ==
  ASSUME PlacesInv, NEW at \in Nat, NEW v \in Types, NEW by, Create(at, v, by),
         by = "outside" =>
           Extent(at, v) \subseteq Outside \/ Extent(at, v) \subseteq Stack,
         by = "global" => Extent(at, v) \subseteq Outside,
         by = "stack" => Extent(at, v) \subseteq Stack
  PROVE  PlacesInv'
<1>1. PICK n : n = Object(at, v, by)
  OBVIOUS
<1>2. CellsOf(n) = Extent(at, v) /\ n.by = by /\ objects' = objects \cup {n}
  BY <1>1, CellsOfObject DEF Create
<1> QED
  BY <1>2 DEF PlacesInv

LEMMA PlacesStep ==
  ASSUME LocateInv, [Next]_vars
  PROVE  PlacesInv'
<1>0. PlacesInv
  BY DEF LocateInv
<1>1. Primary \cup Outside \cup Stack \subseteq Nat
  BY LocateAssumption DEF Primary
<1>2. CASE objects' \subseteq objects
  BY <1>0, <1>2 DEF PlacesInv
<1>3. ASSUME NEW b \in Blocks, NEW v \in Types, New(b, v)
      PROVE  PlacesInv'
  BY <1>0, <1>3, BlockStarts, NewPlaces DEF New
<1>4. ASSUME NEW p \in Primary \cup Outside \cup Stack, NEW v \in Types,
             NewInPool(p, v) \/ Unrecorded(p, v)
      PROVE  PlacesInv'
  <2>1. p \in Nat /\ (Create(p, v, "pool") \/ Create(p, v, "placement"))
    BY <1>1, <1>4 DEF NewInPool, Unrecorded
  <2> QED
    BY <1>0, <2>1, NewPlaces
<1>5. ASSUME NEW p \in Outside \cup Stack, NEW v \in Types,
             NewOutside(p, v) \/ Load(p, v)
      PROVE  PlacesInv'
  BY <1>0, <1>1, <1>5, NewPlaces DEF NewOutside, Load
<1>6. ASSUME NEW p \in Stack, NEW v \in Types, Enter(p, v)
      PROVE  PlacesInv'
  BY <1>0, <1>1, <1>6, NewPlaces DEF Enter
<1>7. ASSUME NEW o \in objects, Destroy(o) \/ Exit(o) \/ Unwind(o) \/ Unload(o)
      PROVE  objects' \subseteq objects
  BY <1>7 DEF Destroy, Exit, Unwind, Unload
<1>8. ASSUME \/ UNCHANGED vars
             \/ DestroyThread
             \/ \E b \in Blocks :
                  Free(b) \/ \E n \in Sizes : Malloc(b, n)
      PROVE  objects' \subseteq objects
  BY <1>8 DEF Malloc, Free, DestroyThread, vars
<1> QED
  BY <1>2, <1>3, <1>4, <1>5, <1>6, <1>7, <1>8 DEF Next

-----------------------------------------------------------------------------
(* What the trees know *)

\* A step that adds no stack or global object and leaves the trees alone.
LEMMA TreesKept ==
  ASSUME TreesInv, UNCHANGED << traced, trees >>,
         \A o \in objects' : o \in objects \/ o.by \notin {"stack", "global"}
  PROVE  TreesInv'
BY DEF TreesInv, trees

LEMMA TreesStep ==
  ASSUME LocateInv, [Next]_vars
  PROVE  TreesInv'
<1>0. TypeOK /\ ObjectsApart /\ TreesInv
  BY DEF LocateInv
<1>1. Primary \cup Outside \cup Stack \subseteq Nat
  BY LocateAssumption DEF Primary
<1>2. CASE UNCHANGED vars
  BY <1>0, <1>2, TreesKept DEF vars
<1>3. ASSUME NEW b \in Blocks,
             \/ \E n \in Sizes : Malloc(b, n)
             \/ Free(b)
      PROVE  TreesInv'
  BY <1>0, <1>3, TreesKept DEF Malloc, Free
<1>4. ASSUME NEW b \in Blocks, NEW v \in Types, New(b, v)
      PROVE  TreesInv'
  <2>1. /\ Object(Begin(b), v, "new").by = "new" /\ UNCHANGED << traced, trees >>
        /\ objects' = objects \cup {Object(Begin(b), v, "new")}
    BY <1>4, BlockStarts, CellsOfObject DEF New, Create
  <2> QED
    BY <1>0, <2>1, TreesKept
<1>5. ASSUME NEW p \in Primary \cup Outside \cup Stack, NEW v \in Types,
             NewInPool(p, v) \/ NewOutside(p, v) \/ Unrecorded(p, v)
      PROVE  TreesInv'
  <2>1. /\ UNCHANGED << traced, trees >>
        /\ \E by \in {"pool", "outside", "placement"} :
             objects' = objects \cup {Object(p, v, by)}
    BY <1>5 DEF NewInPool, NewOutside, Unrecorded, Create
  <2>2. \A by : Object(p, v, by).by = by
    BY DEF Object
  <2> QED
    BY <1>0, <2>1, <2>2, TreesKept
<1>6. ASSUME NEW p \in Outside, NEW v \in Types, Load(p, v)
      PROVE  TreesInv'
  <2>1. PICK n : n = Object(p, v, "global")
    OBVIOUS
  <2>2. /\ n.at = p /\ n.type = v /\ n.by = "global" /\ p \in CellsOf(n)
        /\ objects' = objects \cup {n} /\ CellsOf(n) \cap Occupied = {}
        /\ UNCHANGED << traced, stackTree >>
    BY <1>1, <1>6, <2>1, CellsOfObject DEF Load, Create
  <2>3. \A e \in globalTree : e.addr # p => e \in globalTree'
    BY <1>6 DEF Load, GlobalMap!Register, GlobalMap!At
  <2>4. \E e \in globalTree' : e.addr = p /\ e.value = v
    <3>1. CASE GlobalMap!At(p) = {}
      <4>1. [addr |-> p, size |-> TypeSize[v], value |-> v] \in globalTree'
        BY <1>6, <3>1 DEF Load, GlobalMap!Register
      <4> QED
        BY <4>1
    <3>2. CASE GlobalMap!At(p) # {}
      <4>1. PICK e \in GlobalMap!At(p) : TRUE
        BY <3>2
      <4>2. e \in GlobalMap!Entries /\ e.addr = p
        BY <1>0, <4>1 DEF TypeOK, GlobalMap!At
      <4>3. [e EXCEPT !.value = v] \in globalTree'
        BY <1>6, <3>2, <4>1 DEF Load, GlobalMap!Register
      <4>4. [e EXCEPT !.value = v].addr = p /\ [e EXCEPT !.value = v].value = v
        BY <4>2 DEF GlobalMap!Entries
      <4> QED
        BY <4>3, <4>4
    <3> QED
      BY <3>1, <3>2
  <2>5. \A o \in objects : o.at # p
    <3>1. \A o \in objects : o.at \in Occupied
      BY <1>0, ObjectCells DEF Occupied
    <3> QED
      BY <2>2, <3>1
  <2> QED
    BY <1>0, <2>2, <2>3, <2>4, <2>5 DEF TreesInv
<1>7. ASSUME NEW p \in Stack, NEW v \in Types, Enter(p, v)
      PROVE  TreesInv'
  <2>1. PICK n : n = Object(p, v, "stack")
    OBVIOUS
  <2>2. /\ n.at = p /\ n.type = v /\ n.by = "stack" /\ p \in CellsOf(n)
        /\ objects' = objects \cup {n} /\ CellsOf(n) \cap Occupied = {}
        /\ UNCHANGED << traced, globalTree >>
    BY <1>1, <1>7, <2>1, CellsOfObject DEF Enter, Create
  <2>3. CASE ~traced
    BY <1>0, <2>2, <2>3 DEF TreesInv
  <2>4. CASE traced
    <3>1. StackMap!Register(p, TypeSize[v], v)
      BY <1>7, <2>4 DEF Enter, HasTree
    <3>2. \A e \in stackTree : e.addr # p => e \in stackTree'
      BY <3>1 DEF StackMap!Register, StackMap!At
    <3>3. \E e \in stackTree' : e.addr = p /\ e.value = v
      <4>1. CASE StackMap!At(p) = {}
        <5>1. [addr |-> p, size |-> TypeSize[v], value |-> v] \in stackTree'
          BY <3>1, <4>1 DEF StackMap!Register
        <5> QED
          BY <5>1
      <4>2. CASE StackMap!At(p) # {}
        <5>1. PICK e \in StackMap!At(p) : TRUE
          BY <4>2
        <5>2. e \in StackMap!Entries /\ e.addr = p
          BY <1>0, <5>1 DEF TypeOK, StackMap!At
        <5>3. [e EXCEPT !.value = v] \in stackTree'
          BY <3>1, <4>2, <5>1 DEF StackMap!Register
        <5>4. [e EXCEPT !.value = v].addr = p /\ [e EXCEPT !.value = v].value = v
          BY <5>2 DEF StackMap!Entries
        <5> QED
          BY <5>3, <5>4
      <4> QED
        BY <4>1, <4>2
    <3>4. \A o \in objects : o.at # p
      <4>1. \A o \in objects : o.at \in Occupied
        BY <1>0, ObjectCells DEF Occupied
      <4> QED
        BY <2>2, <4>1
    <3> QED
      BY <1>0, <2>2, <2>4, <3>2, <3>3, <3>4 DEF TreesInv
  <2> QED
    BY <2>3, <2>4
<1>8. ASSUME NEW o \in objects, Destroy(o) \/ Unwind(o) \/ Unload(o)
      PROVE  TreesInv'
  BY <1>0, <1>8, TreesKept DEF Destroy, Unwind, Unload
<1>9. ASSUME NEW o \in objects, Exit(o)
      PROVE  TreesInv'
  <2>1. /\ objects' = objects \ {o} /\ UNCHANGED << traced, globalTree >>
        /\ \A e \in stackTree : e.addr # o.at => e \in stackTree'
    BY <1>9 DEF Exit, StackMap!Unregister, StackMap!At
  <2>2. \A q \in objects \ {o} : q.at # o.at
    BY <1>0, ObjectCells DEF ObjectsApart
  <2> QED
    BY <1>0, <2>1, <2>2 DEF TreesInv
<1>10. CASE DestroyThread
  BY <1>0, <1>10 DEF DestroyThread, TreesInv
<1> QED
  BY <1>2, <1>3, <1>4, <1>5, <1>6, <1>7, <1>8, <1>9, <1>10 DEF Next

-----------------------------------------------------------------------------
(* What the metadata of blocks says *)

LEMMA BlocksStep ==
  ASSUME LocateInv, [Next]_vars
  PROVE  BlocksInv'
<1>0. TypeOK /\ BlocksInv
  BY DEF LocateInv
<1>1. /\ Primary \cup Outside \cup Stack \subseteq Nat
      /\ TypeSize \in [Types -> Nat]
  BY LocateAssumption DEF Primary
<1>2. CASE UNCHANGED heap
  BY <1>0, <1>2 DEF BlocksInv, heap
<1>3. ASSUME NEW b \in Blocks, NEW n \in Nat, Allocate(b, n),
             \A x \in Blocks \ {b} : table'[x] = table[x]
      PROVE  BlocksInv'
  BY <1>0, <1>3, AllocateMaps DEF Allocate, Holds, BlocksInv, TypeOK
<1>4. ASSUME NEW b \in Blocks, NEW n \in Sizes, Malloc(b, n)
      PROVE  BlocksInv'
  <2>1. n \in Nat /\ Allocate(b, n)
    BY <1>4, LocateAssumption DEF Malloc
  <2>2. \A x \in Blocks \ {b} : table'[x] = table[x]
    BY <1>0, <1>4 DEF Malloc, Fresh, TypeOK
  <2> QED
    BY <1>3, <2>1, <2>2
<1>5. ASSUME NEW b \in Blocks, NEW v \in Types, New(b, v)
      PROVE  BlocksInv'
  <2>1. TypeSize[v] \in Nat /\ Allocate(b, TypeSize[v]) /\ IsMapped(b, mapped')
    BY <1>0, <1>1, <1>5, AllocateMaps DEF New
  <2>2. table' = [Fresh(b) EXCEPT ![b] = v]
    BY <1>5, <2>1, BlockStarts, NewInBlock DEF New
  <2>3. \A x \in Blocks \ {b} : table'[x] = table[x]
    BY <1>0, <2>2 DEF Fresh, TypeOK
  <2> QED
    BY <1>3, <2>1, <2>3
<1>6. ASSUME NEW b \in Blocks, Free(b)
      PROVE  BlocksInv'
  <2>1. BlockSize[b[1]] \in Nat
    BY BlocksAre
  <2> QED
    BY <1>0, <1>6, <2>1 DEF Free, Freed, BlocksInv, TypeOK
<1>7. ASSUME NEW p \in Primary, NEW v \in Types, NewInPool(p, v)
      PROVE  BlocksInv'
  <2>1. PICK b \in blocks : Extent(p, v) \subseteq Given(b)
    BY <1>7 DEF NewInPool
  <2>2. b \in Blocks /\ p \in Cells[b] /\ IsMapped(b, mapped)
    BY <1>0, <1>1, <2>1, CellsOfObject, GivenInCells DEF TypeOK, BlocksInv
  <2>3. table' = [table EXCEPT ![b] = v]
    BY <1>7, <2>2, NewInBlock DEF NewInPool
  <2> QED
    BY <1>0, <1>7, <2>1, <2>2, <2>3 DEF NewInPool, BlocksInv, TypeOK
<1>8. ASSUME NEW p \in Outside \cup Stack, NEW v \in Types, NewOutside(p, v)
      PROVE  BlocksInv'
  <2>1. CASE HasBlock(p, mapped)
    <3>1. /\ table' = [table EXCEPT ![BlockOf(p)] = v]
          /\ strayed' = strayed \cup {BlockOf(p)}
          /\ UNCHANGED << mapped, blocks, requested >>
      BY <1>8, <2>1 DEF NewOutside, HandleNew
    <3> QED
      BY <1>0, <3>1 DEF BlocksInv, TypeOK
  <2>2. CASE ~HasBlock(p, mapped)
    BY <1>0, <1>8, <2>2 DEF NewOutside, HandleNew, BlocksInv
  <2> QED
    BY <2>1, <2>2
<1>9. ASSUME NEW p \in Primary \cup Outside \cup Stack, NEW v \in Types,
             Load(p, v) \/ Enter(p, v) \/ Unrecorded(p, v)
      PROVE  UNCHANGED heap
  BY <1>9 DEF Load, Enter, Unrecorded
<1>10. ASSUME NEW o \in objects, Destroy(o) \/ Exit(o) \/ Unwind(o) \/ Unload(o)
       PROVE  UNCHANGED heap
  BY <1>10 DEF Destroy, Exit, Unwind, Unload
<1>11. ASSUME DestroyThread \/ UNCHANGED vars
       PROVE  UNCHANGED heap
  BY <1>11 DEF DestroyThread, vars
<1> QED
  BY <1>2, <1>4, <1>5, <1>6, <1>7, <1>8, <1>9, <1>10, <1>11 DEF Next

\* The blocks of new-expressions stay what they are.
LEMMA HomesKept ==
  ASSUME HomesInv,
         \A o \in objects' : o \in objects \/ o.by # "new",
         \A o \in objects' \cap objects, b \in blocks :
           HasHome(o, b) => b \in blocks' /\ HasHome(o, b)'
  PROVE  HomesInv'
BY DEF HomesInv

LEMMA HomesStep ==
  ASSUME LocateInv, [Next]_vars
  PROVE  HomesInv'
<1>0. TypeOK /\ BlocksInv /\ ObjectsApart /\ HomesInv /\ blocks \subseteq Blocks
  BY DEF LocateInv, TypeOK
<1>1. Primary \cup Outside \cup Stack \subseteq Nat
  BY LocateAssumption DEF Primary
<1>2. ASSUME UNCHANGED << blocks, requested, table, strayed >>,
             \A o \in objects' : o \in objects \/ o.by # "new"
      PROVE  HomesInv'
  BY <1>0, <1>2, HomesKept DEF HasHome
<1>3. ASSUME NEW b \in Blocks, NEW n, Allocate(b, n),
             \A x \in Blocks \ {b} : table'[x] = table[x]
      PROVE  \A o \in objects, c \in blocks :
               HasHome(o, c) => c \in blocks' /\ HasHome(o, c)'
  BY <1>0, <1>3 DEF Allocate, HasHome, TypeOK
<1>4. ASSUME NEW b \in Blocks, NEW n \in Sizes, Malloc(b, n)
      PROVE  HomesInv'
  <2>1. Allocate(b, n) /\ objects' = objects
    BY <1>4 DEF Malloc
  <2>2. \A x \in Blocks \ {b} : table'[x] = table[x]
    BY <1>0, <1>4 DEF Malloc, Fresh, TypeOK
  <2> QED
    BY <1>0, <1>3, <2>1, <2>2, HomesKept
<1>5. ASSUME NEW b \in Blocks, NEW v \in Types, New(b, v)
      PROVE  HomesInv'
  <2>1. Allocate(b, TypeSize[v]) /\ IsMapped(b, mapped') /\ b \in blocks'
    BY <1>0, <1>5, AllocateMaps DEF New, Allocate
  <2>2. table' = [Fresh(b) EXCEPT ![b] = v]
    BY <1>5, <2>1, BlockStarts, NewInBlock DEF New
  <2>3. table'[b] = v /\ \A x \in Blocks \ {b} : table'[x] = table[x]
    BY <1>0, <2>2 DEF Fresh, TypeOK
  <2>4. PICK n : n = Object(Begin(b), v, "new")
    OBVIOUS
  <2>5. n.at = Begin(b) /\ n.type = v /\ objects' = objects \cup {n}
    BY <1>5, <2>4, BlockStarts, CellsOfObject DEF New, Create
  <2>6. requested'[b] = TypeSize[v]
    BY <1>0, <2>1 DEF Allocate, TypeOK
  <2>7. HasHome(n, b)'
    BY <2>3, <2>5, <2>6 DEF HasHome
  <2> QED
    BY <1>0, <1>3, <2>1, <2>3, <2>5, <2>7 DEF HomesInv
<1>6. ASSUME NEW b \in Blocks, Free(b)
      PROVE  HomesInv'
  <2>1. ASSUME NEW o \in objects, NEW c \in blocks, HasHome(o, c), o \in objects'
        PROVE  c \in blocks' /\ HasHome(o, c)'
    <3>1. o.at \in Cells[c]
      BY <1>0, <2>1, BlockStarts DEF HasHome
    <3>2. c # b
      BY <1>6, <2>1, <3>1 DEF Free
    <3> QED
      BY <1>0, <1>6, <2>1, <3>2 DEF Free, Freed, HasHome, TypeOK
  <2>2. objects' \subseteq objects
    BY <1>6 DEF Free
  <2> QED
    BY <1>0, <2>1, <2>2, HomesKept
<1>7. ASSUME NEW p \in Primary, NEW v \in Types, NewInPool(p, v)
      PROVE  HomesInv'
  <2>1. PICK b \in blocks : Extent(p, v) \subseteq Given(b)
    BY <1>7 DEF NewInPool
  <2>2. /\ b \in Blocks /\ p \in Nat /\ p \in Given(b) /\ p \in Extent(p, v)
        /\ p \in Cells[b] /\ IsMapped(b, mapped)
    BY <1>0, <1>1, <2>1, CellsOfObject, GivenInCells DEF BlocksInv
  <2>3. table' = [table EXCEPT ![b] = v]
    BY <1>7, <2>2, NewInBlock DEF NewInPool
  <2>4. UNCHANGED << blocks, requested, strayed >>
    BY <1>7 DEF NewInPool
  <2>5. ASSUME NEW o \in objects, HasHome(o, b) PROVE FALSE
    <3>1. CellsOf(o) = Given(b)
      BY <2>5 DEF HasHome, CellsOf, Extent, Given
    <3>2. CellsOf(o) \subseteq Occupied
      BY DEF Occupied
    <3> QED
      BY <1>7, <2>2, <3>1, <3>2 DEF NewInPool, Create
  <2>6. \A o \in objects, c \in blocks :
          HasHome(o, c) => c \in blocks' /\ HasHome(o, c)'
    BY <1>0, <2>3, <2>4, <2>5 DEF HasHome, TypeOK
  <2>7. \A o \in objects' : o \in objects \/ o.by # "new"
    BY <1>7 DEF NewInPool, Create, Object
  <2> QED
    BY <1>0, <2>6, <2>7, HomesKept
<1>8. ASSUME NEW p \in Outside \cup Stack, NEW v \in Types, NewOutside(p, v)
      PROVE  HomesInv'
  <2>1. /\ UNCHANGED << blocks, requested >> /\ strayed \subseteq strayed'
        /\ \A x \in Blocks \ strayed' : table'[x] = table[x]
    BY <1>0, <1>8 DEF NewOutside, HandleNew, TypeOK
  <2>2. \A o \in objects, c \in blocks :
          HasHome(o, c) => c \in blocks' /\ HasHome(o, c)'
    BY <1>0, <2>1 DEF HasHome
  <2>3. \A o \in objects' : o \in objects \/ o.by # "new"
    BY <1>8 DEF NewOutside, Create, Object
  <2> QED
    BY <1>0, <2>2, <2>3, HomesKept
<1>9. ASSUME NEW p \in Primary \cup Outside \cup Stack, NEW v \in Types,
             Load(p, v) \/ Enter(p, v) \/ Unrecorded(p, v)
      PROVE  HomesInv'
  <2>1. UNCHANGED heap /\ \E by \in {"global", "stack", "placement"} :
          objects' = objects \cup {Object(p, v, by)}
    BY <1>9 DEF Load, Enter, Unrecorded, Create
  <2>2. \A by : Object(p, v, by).by = by
    BY DEF Object
  <2> QED
    BY <1>2, <2>1, <2>2 DEF heap
<1>10. ASSUME NEW o \in objects, Destroy(o) \/ Exit(o) \/ Unwind(o) \/ Unload(o)
       PROVE  HomesInv'
  BY <1>2, <1>10 DEF Destroy, Exit, Unwind, Unload, heap
<1>11. ASSUME DestroyThread \/ UNCHANGED vars
       PROVE  HomesInv'
  BY <1>2, <1>11 DEF DestroyThread, vars, heap
<1> QED
  BY <1>4, <1>5, <1>6, <1>7, <1>8, <1>9, <1>10, <1>11 DEF Next

LEMMA LocateIsSound == Spec => []LocateInv
<1>1. LocateInv /\ [Next]_vars => LocateInv'
  BY TypeStep, BlocksStep, ApartStep, PlacesStep, TreesStep, HomesStep
  DEF LocateInv
<1> QED
  BY <1>1, LocateInit, PTL DEF Spec

\* Everything the handlers of object creation and of casts keep has its type,
\* and a thread without a CverThread has no entries.
THEOREM TypeCorrect == Spec => []TypeOK
<1>1. LocateInv => TypeOK
  BY DEF LocateInv
<1> QED
  BY <1>1, LocateIsSound, PTL

-----------------------------------------------------------------------------
(* What a cast is checked against *)

LEMMA LocateCases ==
  ASSUME NEW t, NEW p
  PROVE  /\ OnOwnStack(t, p) => Locate(t, p) = InTree(stackTree, p)
         /\ ~OnOwnStack(t, p) /\ p \in Primary => Locate(t, p) = InHeap(p)
         /\ ~OnOwnStack(t, p) /\ p \notin Primary =>
              Locate(t, p) = InTree(globalTree, p)
<1>1. CASE OnOwnStack(t, p)
  BY <1>1 DEF Locate, PointerIsMine
<1>2. CASE ~OnOwnStack(t, p) /\ p \in Primary
  BY <1>2 DEF Locate, PointerIsMine
<1>3. CASE ~OnOwnStack(t, p) /\ p \notin Primary
  BY <1>3 DEF Locate, PointerIsMine
<1> QED
  BY <1>1, <1>2, <1>3

\* A block with an object of a new-expression answers for all of its cells.
LEMMA HomeAnswers ==
  ASSUME LocateInv, NEW o \in objects, o.by = "new", NEW p \in CellsOf(o)
  PROVE  /\ p \in Primary
         /\ BlockOf(p) \notin strayed => InHeap(p) = {Own(o)}
<1>0. TypeOK /\ BlocksInv /\ HomesInv
  BY DEF LocateInv
<1>1. PICK b \in blocks : HasHome(o, b)
  BY <1>0 DEF HomesInv
<1>2. b \in Blocks /\ IsMapped(b, mapped)
  BY <1>0 DEF TypeOK, BlocksInv
<1>3. CellsOf(o) = Given(b)
  BY <1>1 DEF HasHome, CellsOf, Extent, Given
<1>4. p \in Cells[b]
  BY <1>0, <1>2, <1>3, GivenInCells
<1>5. /\ p \in Primary /\ BlockOf(p) = b /\ HasBlock(p, mapped)
      /\ BlockBegin(p) = o.at
  BY <1>1, <1>2, <1>4, BlockOfCell DEF HasHome
<1>6. o.type # NoTable
  BY <1>0, LocateAssumption DEF TypeOK
<1>7. b \notin strayed => table[b] = o.type
  BY <1>1 DEF HasHome
<1> QED
  BY <1>5, <1>6, <1>7 DEF InHeap, HeapBase, Own

\* An entry that covers a cell of an object is the object's, or stale.
LEMMA CoveringEntry ==
  ASSUME LocateInv, NEW o \in objects, NEW p \in CellsOf(o),
         NEW e \in stackTree \cup globalTree, StackMap!Covers(e, p)
  PROVE  IsStale(e) \/ Found(e.value, e.addr) = Own(o)
<1> SUFFICES ASSUME ~IsStale(e) PROVE Found(e.value, e.addr) = Own(o)
  OBVIOUS
<1>0. TypeOK /\ ObjectsApart
  BY DEF LocateInv
<1>1. PICK q \in objects :
        q.at = e.addr /\ q.type = e.value /\ TypeSize[q.type] = e.size
  BY DEF IsStale
<1>2. p \in Nat /\ q.at \in Nat /\ TypeSize[q.type] \in Nat
  <2>1. q.at \in Nat /\ q.type \in Types /\ o.at \in Nat
    BY <1>0, ObjectCells
  <2> QED
    BY <2>1, LocateAssumption DEF CellsOf, Extent
<1>3. p \in CellsOf(q)
  BY <1>1, <1>2 DEF StackMap!Covers, CellsOf, Extent
<1>4. q = o
  BY <1>0, <1>3 DEF ObjectsApart
<1> QED
  BY <1>1, <1>4 DEF Own

LEMMA TreeAnswers ==
  ASSUME LocateInv, NEW o \in objects, NEW p \in CellsOf(o),
         NEW tree \in SUBSET (stackTree \cup globalTree)
  PROVE  InTree(tree, p) \subseteq {Own(o)} \/ StaleAt(p) # {}
BY CoveringEntry DEF InTree, StaleAt

\* A cast of a pointer into a live object is checked against the type and from
\* the start of that object, or not at all, for any memory layout, any threads
\* and however objects come and go - but for the three causes that the property
\* names.
THEOREM WrongTablesHaveCauses == Spec => []WrongTableHasACause
<1>1. ASSUME LocateInv PROVE WrongTableHasACause
  <2> SUFFICES ASSUME NEW t \in Threads, NEW o \in objects, NEW p \in CellsOf(o)
               PROVE  \/ Locate(t, p) \subseteq {Own(o)}
                      \/ StaleAt(p) # {}
                      \/ PointerIsMine(p) /\ o.by \in {"pool", "placement"}
                      \/ PointerIsMine(p) /\ BlockOf(p) \in strayed
    BY DEF WrongTableHasACause
  <2>1. CASE OnOwnStack(t, p)
    BY <1>1, <2>1, LocateCases, TreeAnswers
  <2>2. CASE ~OnOwnStack(t, p) /\ p \notin Primary
    BY <1>1, <2>2, LocateCases, TreeAnswers
  <2>3. CASE ~OnOwnStack(t, p) /\ p \in Primary
    <3>1. o.by \in Kinds /\ o.by \notin {"outside", "global", "stack"}
      BY <1>1, <2>3, LocateAssumption DEF LocateInv, TypeOK, PlacesInv
    <3>2. CASE o.by = "new"
      BY <1>1, <2>3, <3>2, LocateCases, HomeAnswers DEF PointerIsMine
    <3>3. CASE o.by \in {"pool", "placement"}
      BY <2>3, <3>3 DEF PointerIsMine
    <3> QED
      BY <3>1, <3>2, <3>3 DEF Kinds
  <2> QED
    BY <2>1, <2>2, <2>3
<1> QED
  BY <1>1, LocateIsSound, PTL

\* What was recorded is found: an object's own entry covers all of it when no
\* entry is stale.
LEMMA EntryAnswers ==
  ASSUME LocateInv, NothingIsStale, NEW o \in objects, NEW p \in CellsOf(o),
         NEW tree \in SUBSET (stackTree \cup globalTree),
         \E e \in tree : e.addr = o.at /\ e.value = o.type
  PROVE  Own(o) \in InTree(tree, p)
<1>0. TypeOK /\ ObjectsApart
  BY DEF LocateInv
<1>1. PICK e \in tree : e.addr = o.at /\ e.value = o.type
  OBVIOUS
<1>2. PICK q \in objects :
        q.at = e.addr /\ q.type = e.value /\ TypeSize[q.type] = e.size
  BY DEF NothingIsStale, IsStale
<1>3. q = o
  BY <1>0, <1>1, <1>2, ObjectCells DEF ObjectsApart
<1>4. StackMap!Covers(e, p)
  <2>1. o.at \in Nat /\ TypeSize[o.type] \in Nat
    BY <1>0, ObjectCells, LocateAssumption
  <2> QED
    BY <1>1, <1>2, <1>3, <2>1 DEF StackMap!Covers, CellsOf, Extent
<1> QED
  BY <1>1, <1>4 DEF InTree, Own

\* Every object of a new-expression, every global and, to itself, every local of
\* the main thread is found by a cast of any pointer into it, as long as no table
\* strayed into its block and no entry is stale.
THEOREM RecordedObjectsAreFound == Spec => []RecordedAreFound
<1>1. ASSUME LocateInv PROVE RecordedAreFound
  <2> SUFFICES ASSUME NEW t \in Threads, NEW o \in objects, NEW p \in CellsOf(o),
                      \/ o.by = "new" /\ BlockOf(p) \notin strayed
                      \/ o.by = "global" /\ NothingIsStale
                      \/ o.by = "stack" /\ NothingIsStale /\ traced /\ t = Main
               PROVE  Own(o) \in Locate(t, p)
    BY DEF RecordedAreFound
  <2>0. PlacesInv /\ TreesInv /\ Stack \cap Primary = {}
        /\ Outside \cap Primary = {} /\ Stack \cap Outside = {}
    BY <1>1, LocateAssumption DEF LocateInv
  <2>1. CASE o.by = "new" /\ BlockOf(p) \notin strayed
    <3>1. p \in Primary /\ InHeap(p) = {Own(o)}
      BY <1>1, <2>1, HomeAnswers
    <3>2. ~OnOwnStack(t, p)
      BY <2>0, <3>1 DEF OnOwnStack
    <3> QED
      BY <3>1, <3>2, LocateCases
  <2>2. CASE o.by = "global" /\ NothingIsStale
    <3>1. p \notin Primary /\ ~OnOwnStack(t, p)
      BY <2>0, <2>2 DEF PlacesInv, OnOwnStack
    <3>2. \E e \in globalTree : e.addr = o.at /\ e.value = o.type
      BY <2>0, <2>2 DEF TreesInv
    <3> QED
      BY <1>1, <2>2, <3>1, <3>2, LocateCases, EntryAnswers
  <2>3. CASE o.by = "stack" /\ NothingIsStale /\ traced /\ t = Main
    <3>1. OnOwnStack(t, p)
      BY <2>0, <2>3 DEF PlacesInv, OnOwnStack
    <3>2. \E e \in stackTree : e.addr = o.at /\ e.value = o.type
      BY <2>0, <2>3 DEF TreesInv
    <3> QED
      BY <1>1, <2>3, <3>1, <3>2, LocateCases, EntryAnswers
  <2> QED
    BY <2>1, <2>2, <2>3
<1> QED
  BY <1>1, LocateIsSound, PTL

\* No cast of a pointer into a freed block is checked against the type of what was
\* there, by any thread and for any pointer into the block.
THEOREM DanglingPointersAreUnknown == Spec => []DanglingIsUnknown
<1>1. ASSUME LocateInv PROVE DanglingIsUnknown
  <2> SUFFICES ASSUME NEW t \in Threads, NEW b \in Blocks,
                      b \notin blocks \cup strayed, NEW p \in Cells[b]
               PROVE  Locate(t, p) = {}
    BY DEF DanglingIsUnknown
  <2>1. p \in Primary /\ BlockOf(p) = b
    BY BlockOfCell
  <2>2. table[b] = NoTable
    BY <1>1 DEF LocateInv, BlocksInv
  <2>3. ~OnOwnStack(t, p)
    BY <2>1, LocateAssumption DEF OnOwnStack
  <2> QED
    BY <2>1, <2>2, <2>3, LocateCases DEF InHeap
<1> QED
  BY <1>1, LocateIsSound, PTL
=============================================================================
