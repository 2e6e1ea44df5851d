----------------------------- MODULE TypeTable -----------------------------
(***************************************************************************)
(* The type tables clang emits for classes (CGTHTables.cpp) and the        *)
(* validity check the runtime makes with them (CheckCastValidity).         *)
(*                                                                         *)
(* A program is a sequence of class definitions; a class is its index, so  *)
(* bases and fields are of smaller classes, and what the compiler gets by  *)
(* recursion over a definition is composed here from the smaller classes.  *)
(* Sizes and offsets are bytes.  Every scalar is of one size, no class is  *)
(* polymorphic and none is without members, so RecordLayoutBuilder pads    *)
(* nothing, reorders no base and lets no field into a base's tail.  Not    *)
(* modelled: virtual bases and unions.                                     *)
(***************************************************************************)
EXTENDS Integers, Sequences, FiniteSets

CONSTANT ScalarSize

ASSUME ScalarAssumption == ScalarSize \in Nat \ {0}

\* What is inside a part, seen from the whole.
Shift(S, d) == {[s EXCEPT !.offset = @ + d] : s \in S}

-----------------------------------------------------------------------------
(* Record layout (RecordLayoutBuilder.cpp): bases in order, then scalars,  *)
(* then fields of class type, each where the data before it ends.          *)

\* Where part i lies when parts of these sizes follow one another.
Start(sizes, i) ==
  LET sum[k \in 0 .. Len(sizes)] == IF k = 0 THEN 0 ELSE sum[k - 1] + sizes[k]
  IN  sum[i - 1]

BaseSizes(cs, bases) == [i \in 1 .. Len(bases) |-> cs[bases[i]].size]

FieldSizes(cs, fields) ==
  [i \in 1 .. Len(fields) |-> fields[i].count * cs[fields[i].class].size]

BaseAt(cs, bases, i) == Start(BaseSizes(cs, bases), i)

FieldAt(cs, bases, scalars, fields, i) ==
  BaseAt(cs, bases, Len(bases) + 1) + scalars * ScalarSize
    + Start(FieldSizes(cs, fields), i)

LaidBases(cs, bases) ==
  {[class |-> bases[i], offset |-> BaseAt(cs, bases, i)] : i \in DOMAIN bases}

LaidFields(cs, bases, scalars, fields) ==
  {[class |-> fields[i].class, count |-> fields[i].count,
    named |-> fields[i].named,
    offset |-> FieldAt(cs, bases, scalars, fields, i)] : i \in DOMAIN fields}

-----------------------------------------------------------------------------
(* Table generation, for a class with laid out bases B and fields F *)

\* Mutant: the size of one element instead of the whole array field.
FieldSize_Element(cs, f) == cs[f.class].size
\* Mutant: fields of bases keep their offset within the base.
BaseShift_None(b) == 0
\* Mutant: only the direct bases are hashed.
MoreBases_None(cs, b) == {b.class}
\* Mutant: no base counts as one of the same layout.
IsSameSize_Never(cs, b, size) == FALSE
\* Mutant: the tables of fields are not generated.
NeededBy_Nothing(cs, e) == {}

FieldSize(cs, f) == f.count * cs[f.class].size
BaseShift(b) == b.offset
MoreBases(cs, b) == {b.class} \cup cs[b.class].ancestors
IsSameSize(cs, b, size) == cs[b].size = size
NeededBy(cs, e) == cs[e.table].needs

\* RD->forallBases
AllBases(cs, B) == UNION {MoreBases(cs, b) : b \in B}

\* Anonymous fields are skipped; an array stands for its element class.
ContainVec(cs, B, F) ==
  {[offset |-> f.offset, size |-> FieldSize(cs, f), table |-> f.class] :
     f \in {g \in F : g.named}}
  \cup UNION {Shift(cs[b.class].contains, BaseShift(b)) : b \in B}

\* A hash is the class it stands for and the isSameLayout bit.
HashVec(cs, c, B, size) ==
  {[type |-> c, same |-> FALSE]} \cup
  {[type |-> b, same |-> IsSameSize(cs, b, size)] : b \in AllBases(cs, B)}

\* GenerateTypeHierarchy recurses into the classes of the containment vector.
Needed(cs, c, contains) == {c} \cup UNION {NeededBy(cs, e) : e \in contains}

-----------------------------------------------------------------------------
(* What is in an object, by the rules of the language *)

Elements(cs, f) ==
  {[offset |-> f.offset + k * cs[f.class].size, later |-> k > 0,
    named |-> f.named] : k \in 0 .. f.count - 1}

\* What is in the elements of a field.
PartOf(e, s) ==
  [class |-> s.class, offset |-> e.offset + s.offset, inField |-> TRUE,
   hidden |-> s.hidden \/ ~e.named \/ (e.later /\ s.inField)]

InField(cs, f) ==
  {PartOf(e, s) : e \in Elements(cs, f), s \in cs[f.class].inside}

InFields(cs, F) == UNION {InField(cs, f) : f \in F}

InBases(cs, B) == UNION {Shift(cs[b.class].inside, b.offset) : b \in B}

\* All subobjects of an object of a class.  inField: reached through a field.
\* hidden: inside an unnamed field, or a field of an array element other than
\* the first; the tables do not describe those.
Subobjects(cs, c, B, F) ==
  {[class |-> c, offset |-> 0, inField |-> FALSE, hidden |-> FALSE]}
  \cup InBases(cs, B) \cup InFields(cs, F)

\* The next class of the program.
Class(cs, bases, scalars, fields) ==
  LET c == Len(cs) + 1
      B == LaidBases(cs, bases)
      F == LaidFields(cs, bases, scalars, fields)
      size == FieldAt(cs, bases, scalars, fields, Len(fields) + 1)
      contains == ContainVec(cs, B, F)
  IN [size |-> size,
      ancestors |-> AllBases(cs, B),
      inside |-> Subobjects(cs, c, B, F),
      contains |-> contains,
      hashes |-> HashVec(cs, c, B, size),
      needs |-> Needed(cs, c, contains)]

\* Where base b lies in an object of class c.
BaseOffsets(cs, c, b) ==
  {s.offset : s \in {t \in cs[c].inside : t.class = b /\ ~t.inField}}

\* Classes a static_cast may go down to from c (the base is unambiguous).
DownCasts(cs, c) ==
  {t \in c + 1 .. Len(cs) : Cardinality(BaseOffsets(cs, t, c)) = 1}

BaseOffset(cs, c, b) == CHOOSE n \in BaseOffsets(cs, c, b) : TRUE

-----------------------------------------------------------------------------
(* CheckCastValidity *)

\* Mutant: the end of a field belongs to it.
InRange_Closed(e, d) == e.offset <= d /\ d <= e.offset + e.size
\* Mutant: the nested check keeps the base of the outer object.
Nested_SameBase(e, d) == d

InRange(e, d) == e.offset <= d /\ d < e.offset + e.size
Nested(e, d) == d - e.offset

\* The classes whose hash matches at displacement d from the start of an
\* object of class c: those of a contained table that covers d, and its own.
\* The layout bits are masked out.  Only generated tables can be followed.
Matched(cs, generated, c, d) ==
  LET match[x \in (1 .. Len(cs)) \X Int] ==
        {h.type : h \in cs[x[1]].hashes} \cup
        UNION {match[<<e.table, Nested(e, x[2])>>] :
                 e \in {f \in cs[x[1]].contains :
                          f.table \in generated /\ InRange(f, x[2])}}
  IN match[<<c, d>>]
=============================================================================
