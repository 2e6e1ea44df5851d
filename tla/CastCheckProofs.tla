-------------------------- MODULE CastCheckProofs --------------------------
(***************************************************************************)
(* Proofs about CastCheck for programs of any classes: every class that    *)
(* can be compiled has a true and complete containment vector (ClassInv,   *)
(* by one lemma per part for the step that defines a class), and so what   *)
(* the recursion of CheckCastValidity finds at a place is what is there.   *)
(* The verdicts follow, for objects that have no array cookie.             *)
(***************************************************************************)
EXTENDS CastCheck, NumberLemmas, FiniteSetTheorems

-----------------------------------------------------------------------------
(* Layout *)

\* The sums the layout is made of exist,
LEMMA SumsExist ==
  ASSUME NEW s \in Seq(Nat)
  PROVE  \E f \in [0 .. Len(s) -> Nat] :
           f = [k \in 0 .. Len(s) |-> IF k = 0 THEN 0 ELSE f[k - 1] + s[k]]
<1> DEFINE Sums(n, f) ==
             /\ f \in [0 .. n -> Nat]
             /\ \A k \in 0 .. n : f[k] = IF k = 0 THEN 0 ELSE f[k - 1] + s[k]
           S == {n \in Nat : n <= Len(s) => \E f : Sums(n, f)}
<1>1. Len(s) \in Nat /\ \A k \in 1 .. Len(s) : s[k] \in Nat
  OBVIOUS
<1>2. 0 \in S
  <2>1. Sums(0, [k \in 0 .. 0 |-> 0])
    OBVIOUS
  <2> QED
    BY <2>1
<1>3. ASSUME NEW n \in Nat, n \in S PROVE n + 1 \in S
  <2> SUFFICES ASSUME n + 1 <= Len(s) PROVE \E f : Sums(n + 1, f)
    OBVIOUS
  <2>1. PICK f : Sums(n, f)
    <3> HIDE DEF Sums
    <3>1. n <= Len(s)
      BY <1>1
    <3> QED
      BY <1>3, <3>1
  <2> DEFINE g == [k \in 0 .. n + 1 |-> IF k = 0 THEN 0 ELSE f[k - 1] + s[k]]
  <2>2. \A k \in 1 .. n + 1 : k - 1 \in 0 .. n /\ f[k - 1] \in Nat /\ s[k] \in Nat
    BY <1>1, <2>1
  <2>3. \A k \in 0 .. n + 1 : g[k] = IF k = 0 THEN 0 ELSE f[k - 1] + s[k]
    OBVIOUS
  <2>4. g \in [0 .. n + 1 -> Nat]
    BY <2>2
  <2> HIDE DEF g
  <2>5. \A k \in 0 .. n : g[k] = f[k]
    BY <2>1, <2>3
  <2>6. \A k \in 0 .. n + 1 : g[k] = IF k = 0 THEN 0 ELSE g[k - 1] + s[k]
    BY <2>2, <2>3, <2>5
  <2>7. Sums(n + 1, g)
    BY <2>4, <2>6
  <2> QED
    BY <2>7
<1>4. Len(s) \in S
  <2> HIDE DEF S
  <2> QED
    BY <1>1, <1>2, <1>3, Induction
<1>5. PICK f : Sums(Len(s), f)
  BY <1>1, <1>4
<1>6. f = [k \in 0 .. Len(s) |-> IF k = 0 THEN 0 ELSE f[k - 1] + s[k]]
  BY <1>5
<1> QED
  BY <1>5, <1>6

\* and so every part lies before the end of the last one.
LEMMA PartsAreLaidOut ==
  ASSUME NEW s \in Seq(Nat)
  PROVE  /\ \A i \in 1 .. Len(s) + 1 : Start(s, i) \in Nat
         /\ \A i \in 1 .. Len(s) : Start(s, i) + s[i] <= Start(s, Len(s) + 1)
<1> DEFINE sum == CHOOSE f : f = [k \in 0 .. Len(s) |->
                                    IF k = 0 THEN 0 ELSE f[k - 1] + s[k]]
<1>1. \A i : Start(s, i) = sum[i - 1]
  BY DEF Start
<1>2. sum = [k \in 0 .. Len(s) |-> IF k = 0 THEN 0 ELSE sum[k - 1] + s[k]]
  BY SumsExist
<1>3. Len(s) \in Nat /\ \A k \in 1 .. Len(s) : s[k] \in Nat
  OBVIOUS
<1> HIDE DEF sum
<1>4. \A k \in 0 .. Len(s) : sum[k] = IF k = 0 THEN 0 ELSE sum[k - 1] + s[k]
  BY <1>2
<1> DEFINE S == {n \in Nat : n <= Len(s) =>
                   /\ sum[n] \in Nat
                   /\ \A i \in 1 .. n : sum[i - 1] \in Nat /\ sum[i - 1] + s[i] <= sum[n]}
<1>5. 0 \in S
  BY <1>3, <1>4
<1>6. ASSUME NEW n \in Nat, n \in S PROVE n + 1 \in S
  <2> SUFFICES ASSUME n + 1 <= Len(s)
               PROVE  /\ sum[n + 1] \in Nat
                      /\ \A i \in 1 .. n + 1 :
                           sum[i - 1] \in Nat /\ sum[i - 1] + s[i] <= sum[n + 1]
    OBVIOUS
  <2>1. /\ sum[n] \in Nat
        /\ \A i \in 1 .. n : sum[i - 1] \in Nat /\ sum[i - 1] + s[i] <= sum[n]
    BY <1>3, <1>6
  <2>2. sum[n + 1] = sum[n] + s[n + 1] /\ s[n + 1] \in Nat
    BY <1>3, <1>4
  <2>3. ASSUME NEW i \in 1 .. n + 1
        PROVE  sum[i - 1] \in Nat /\ sum[i - 1] + s[i] <= sum[n + 1]
    <3>1. s[i] \in Nat
      BY <1>3
    <3>2. CASE i = n + 1
      <4>1. i - 1 = n
        BY <3>2
      <4> QED
        BY <2>1, <2>2, <3>2, <4>1
    <3>3. CASE i \in 1 .. n
      <4>1. sum[i - 1] \in Nat /\ sum[i - 1] + s[i] <= sum[n]
        BY <2>1, <3>3
      <4>2. \A a, b, e \in Nat : a + b <= e => \A f \in Nat : a + b <= e + f
        OBVIOUS
      <4> QED
        BY <2>1, <2>2, <3>1, <4>1, <4>2
    <3> QED
      BY <3>2, <3>3
  <2> QED
    BY <2>1, <2>2, <2>3
<1>7. Nat \subseteq S
  <2> HIDE DEF S
  <2> QED
    BY <1>5, <1>6, Induction
<1>8. Len(s) \in S
  BY <1>3, <1>7
<1>9. /\ sum[Len(s)] \in Nat
      /\ \A i \in 1 .. Len(s) : sum[i - 1] \in Nat /\ sum[i - 1] + s[i] <= sum[Len(s)]
  BY <1>3, <1>8
<1>10. ASSUME NEW i \in 1 .. Len(s) + 1 PROVE Start(s, i) \in Nat
  <2>1. CASE i = Len(s) + 1
    <3>1. i - 1 = Len(s)
      BY <1>3, <2>1
    <3> QED
      BY <1>1, <1>9, <3>1
  <2>2. CASE i \in 1 .. Len(s)
    BY <1>1, <1>9, <2>2
  <2> QED
    BY <1>3, <2>1, <2>2
<1>11. (Len(s) + 1) - 1 = Len(s)
  BY <1>3
<1> QED
  BY <1>1, <1>9, <1>10, <1>11

-----------------------------------------------------------------------------
(* What the compiler guarantees of every class *)

\* A class and its bases: what its own hashes stand for.
Lineage(cs, c) == {c} \cup cs[c].ancestors

PartType(c) ==
  [class : 1 .. c, offset : Nat, inField : BOOLEAN, hidden : BOOLEAN]
EntryType(c) == [offset : Nat, size : Nat, table : 1 .. c - 1]

Whole(c) == [class |-> c, offset |-> 0, inField |-> FALSE, hidden |-> FALSE]

WellFormed(cs, c) ==
  /\ cs[c].size \in Nat \ {0}
  /\ cs[c].ancestors \subseteq 1 .. c - 1
  /\ cs[c].inside \subseteq PartType(c) /\ Whole(c) \in cs[c].inside
  /\ cs[c].contains \subseteq EntryType(c)

\* No subobject sticks out, and those that are in no field are bases.
PartsFit(cs, c) ==
  \A s \in cs[c].inside :
    /\ s.offset + cs[s.class].size <= cs[c].size
    /\ ~s.inField => s.class \in Lineage(cs, c)

CoversAt(cs, s, d) == s.offset <= d /\ d < s.offset + cs[s.class].size

\* What the containment vector says is true: wherever an entry covers, there is
\* an object of its class, and at the entry's start there are all its parts.
EntriesAreThere(cs, c) ==
  \A e \in cs[c].contains :
    /\ \A d \in Int : InRange(e, d) =>
         \E s \in cs[c].inside : s.class = e.table /\ CoversAt(cs, s, d)
    /\ \A t \in cs[e.table].inside : \E s \in cs[c].inside :
         s.class = t.class /\ s.offset = e.offset + t.offset

\* A subobject that is not hidden is a base, or an entry covers it and is of its
\* class, or has it at that place.
IsListed(cs, c, s) ==
  \/ s.class \in Lineage(cs, c)
  \/ \E e \in cs[c].contains :
       /\ InRange(e, s.offset)
       /\ \/ s.class \in Lineage(cs, e.table)
          \/ \E t \in cs[e.table].inside :
               ~t.hidden /\ t.class = s.class /\ t.offset = s.offset - e.offset

PartsAreListed(cs, c) == \A s \in cs[c].inside : ~s.hidden => IsListed(cs, c, s)

HashesAreRight(cs, c) ==
  cs[c].hashes =
    {[type |-> c, same |-> FALSE]} \cup
    {[type |-> b, same |-> cs[b].size = cs[c].size] : b \in cs[c].ancestors}

NeedsAreClosed(cs, c) ==
  /\ c \in cs[c].needs /\ cs[c].needs \subseteq 1 .. c
  /\ \A t \in cs[c].needs : \A e \in cs[t].contains : e.table \in cs[c].needs

ClassInv(cs, c) ==
  /\ WellFormed(cs, c) /\ PartsFit(cs, c)
  /\ EntriesAreThere(cs, c) /\ PartsAreListed(cs, c)
  /\ HashesAreRight(cs, c) /\ NeedsAreClosed(cs, c)

\* The bases and fields of class n + 1 lie within its size.
LaidOut(cs, n, B, F, size) ==
  /\ n \in Nat /\ size \in Nat \ {0}
  /\ \A c \in 1 .. n : ClassInv(cs, c)
  /\ \A b \in B :
       /\ b.class \in 1 .. n /\ b.offset \in Nat
       /\ b.offset + cs[b.class].size <= size
  /\ \A f \in F :
       /\ f.class \in 1 .. n /\ f.count \in Nat \ {0} /\ f.named \in BOOLEAN
       /\ f.offset \in Nat
       /\ f.offset + f.count * cs[f.class].size <= size

\* The program cx is cs with one more class, compiled from B and F.
IsNext(cx, cs, n, B, F, size) ==
  /\ \A c \in 1 .. n : cx[c] = cs[c]
  /\ cx[n + 1].size = size
  /\ cx[n + 1].ancestors = AllBases(cs, B)
  /\ cx[n + 1].inside = Subobjects(cs, n + 1, B, F)
  /\ cx[n + 1].contains = ContainVec(cs, B, F)
  /\ cx[n + 1].hashes = HashVec(cs, n + 1, B, size)
  /\ cx[n + 1].needs = Needed(cs, n + 1, cx[n + 1].contains)

-----------------------------------------------------------------------------
(* The next class *)

LEMMA ShiftedParts ==
  ASSUME NEW c, NEW S \in SUBSET PartType(c), NEW d, NEW u
  PROVE  u \in Shift(S, d) <=>
           \E s \in S : u = [class |-> s.class, offset |-> s.offset + d,
                             inField |-> s.inField, hidden |-> s.hidden]
<1>1. \A s \in S : [s EXCEPT !.offset = s.offset + d] =
                     [class |-> s.class, offset |-> s.offset + d,
                      inField |-> s.inField, hidden |-> s.hidden]
  BY DEF PartType
<1>2. u \in Shift(S, d) <=> \E s \in S : u = [s EXCEPT !.offset = s.offset + d]
  BY Zenon DEF Shift
<1> QED
  BY <1>1, <1>2, Zenon

LEMMA ShiftedEntries ==
  ASSUME NEW c, NEW S \in SUBSET EntryType(c), NEW d, NEW u
  PROVE  u \in Shift(S, d) <=>
           \E e \in S : u = [offset |-> e.offset + d, size |-> e.size,
                             table |-> e.table]
<1>1. \A e \in S : [e EXCEPT !.offset = e.offset + d] =
                     [offset |-> e.offset + d, size |-> e.size, table |-> e.table]
  BY DEF EntryType
<1>2. u \in Shift(S, d) <=> \E e \in S : u = [e EXCEPT !.offset = e.offset + d]
  BY Zenon DEF Shift
<1> QED
  BY <1>1, <1>2, Zenon

\* The subobjects of the next class,
PartOfBase(b, s) ==
  [class |-> s.class, offset |-> s.offset + b.offset,
   inField |-> s.inField, hidden |-> s.hidden]

PartOfField(cs, f, i, s) ==
  [class |-> s.class, offset |-> f.offset + i * cs[f.class].size + s.offset,
   inField |-> TRUE,
   hidden |-> s.hidden \/ ~f.named \/ (i > 0 /\ s.inField)]

LEMMA InsideNext ==
  ASSUME NEW cs, NEW n, NEW B, NEW F, NEW size, NEW cx,
         LaidOut(cs, n, B, F, size), IsNext(cx, cs, n, B, F, size), NEW u
  PROVE  u \in cx[n + 1].inside <=>
           \/ u = Whole(n + 1)
           \/ \E b \in B : \E s \in cs[b.class].inside : u = PartOfBase(b, s)
           \/ \E f \in F : \E i \in 0 .. f.count - 1 : \E s \in cs[f.class].inside :
                u = PartOfField(cs, f, i, s)
<1>1. ASSUME NEW b \in B
      PROVE  u \in Shift(cs[b.class].inside, b.offset) <=>
               \E s \in cs[b.class].inside : u = PartOfBase(b, s)
  <2>1. cs[b.class].inside \in SUBSET PartType(b.class)
    BY DEF LaidOut, ClassInv, WellFormed
  <2> QED
    BY <2>1, ShiftedParts DEF PartOfBase
<1> DEFINE Element(f, i) == [offset |-> f.offset + i * cs[f.class].size,
                             later |-> i > 0, named |-> f.named]
<1>2. ASSUME NEW f \in F
      PROVE  u \in InField(cs, f) <=>
             \E i \in 0 .. f.count - 1 : \E s \in cs[f.class].inside :
               u = PartOfField(cs, f, i, s)
  <2>1. \A e : e \in Elements(cs, f) <=> \E i \in 0 .. f.count - 1 : e = Element(f, i)
    BY Zenon DEF Elements
  <2>2. \A i, s : PartOf(Element(f, i), s) = PartOfField(cs, f, i, s)
    BY Zenon DEF PartOf, PartOfField
  <2> HIDE DEF Element
  <2>3. u \in InField(cs, f) <=>
          \E e \in Elements(cs, f), s \in cs[f.class].inside : u = PartOf(e, s)
    BY DEF InField
  <2> QED
    BY <2>1, <2>2, <2>3
<1>3. u \in cx[n + 1].inside <=>
        u = Whole(n + 1) \/ u \in InBases(cs, B) \/ u \in InFields(cs, F)
  BY DEF IsNext, Subobjects, Whole
<1>4. u \in InBases(cs, B) <=>
        \E b \in B : \E s \in cs[b.class].inside : u = PartOfBase(b, s)
  BY <1>1, Zenon DEF InBases
<1>5. u \in InFields(cs, F) <=>
        \E f \in F : \E i \in 0 .. f.count - 1 : \E s \in cs[f.class].inside :
          u = PartOfField(cs, f, i, s)
  BY <1>2, Zenon DEF InFields
<1> QED
  BY <1>3, <1>4, <1>5, Zenon

\* and its containment vector.
EntryOfField(cs, f) ==
  [offset |-> f.offset, size |-> f.count * cs[f.class].size, table |-> f.class]

EntryOfBase(b, e) ==
  [offset |-> e.offset + b.offset, size |-> e.size, table |-> e.table]

LEMMA ContainsNext ==
  ASSUME NEW cs, NEW n, NEW B, NEW F, NEW size, NEW cx,
         LaidOut(cs, n, B, F, size), IsNext(cx, cs, n, B, F, size), NEW u
  PROVE  u \in cx[n + 1].contains <=>
           \/ \E f \in F : f.named /\ u = EntryOfField(cs, f)
           \/ \E b \in B : \E e \in cs[b.class].contains : u = EntryOfBase(b, e)
<1>1. ASSUME NEW b \in B
      PROVE  u \in Shift(cs[b.class].contains, BaseShift(b)) <=>
               \E e \in cs[b.class].contains : u = EntryOfBase(b, e)
  <2>1. cs[b.class].contains \in SUBSET EntryType(b.class)
    BY DEF LaidOut, ClassInv, WellFormed
  <2> QED
    BY <2>1, ShiftedEntries DEF EntryOfBase, BaseShift
<1> QED
  BY <1>1 DEF IsNext, ContainVec, FieldSize, EntryOfField
\* Its bases, and theirs.
LEMMA AncestorsNext ==
  ASSUME NEW cs, NEW n, NEW B, NEW F, NEW size, NEW cx,
         IsNext(cx, cs, n, B, F, size), NEW a
  PROVE  a \in cx[n + 1].ancestors <=> \E b \in B : a \in Lineage(cs, b.class)
<1>1. cx[n + 1].ancestors = AllBases(cs, B)
  BY DEF IsNext
<1>2. \A b : Lineage(cs, b.class) = MoreBases(cs, b)
  BY Zenon DEF Lineage, MoreBases
<1>3. a \in AllBases(cs, B) <=> \E b \in B : a \in MoreBases(cs, b)
  BY Zenon DEF AllBases
<1> QED
  BY <1>1, <1>2, <1>3, Zenon

\* What LaidOut says of the classes so far,
LEMMA SmallerClasses ==
  ASSUME NEW cs, NEW n, NEW B, NEW F, NEW size, LaidOut(cs, n, B, F, size),
         NEW c \in 1 .. n
  PROVE  /\ n \in Nat /\ cs[c].size \in Nat \ {0} /\ ClassInv(cs, c)
         /\ cs[c].ancestors \subseteq 1 .. n
         /\ \A e \in cs[c].contains : e \in EntryType(c)
         /\ \A s \in cs[c].inside :
              /\ s \in PartType(c) /\ s.class \in 1 .. n /\ s.offset \in Nat
              /\ cs[s.class].size \in Nat \ {0}
              /\ s.offset + cs[s.class].size <= cs[c].size
              /\ s.offset < cs[c].size
<1>1. n \in Nat /\ c \in Nat /\ \A d \in 1 .. n : ClassInv(cs, d)
  BY DEF LaidOut
<1>2. \A d \in 1 .. n : WellFormed(cs, d) /\ PartsFit(cs, d)
  BY <1>1 DEF ClassInv
<1>3. \A d \in 1 .. n : cs[d].size \in Nat \ {0}
  BY <1>2 DEF WellFormed
<1>4. ASSUME NEW s \in cs[c].inside
      PROVE  /\ s \in PartType(c) /\ s.class \in 1 .. n /\ s.offset \in Nat
             /\ cs[s.class].size \in Nat \ {0}
             /\ s.offset + cs[s.class].size <= cs[c].size
             /\ s.offset < cs[c].size
  <2>1. s \in PartType(c)
    BY <1>2 DEF WellFormed
  <2>2. s.class \in 1 .. n /\ s.offset \in Nat
    BY <1>1, <2>1 DEF PartType
  <2>3. cs[s.class].size \in Nat \ {0} /\ cs[c].size \in Nat
    BY <1>3, <2>2
  <2>4. s.offset + cs[s.class].size <= cs[c].size
    BY <1>2 DEF PartsFit
  <2>5. s.offset < cs[c].size
    BY <2>2, <2>3, <2>4
  <2> QED
    BY <2>1, <2>2, <2>3, <2>4, <2>5
<1>5. cs[c].ancestors \subseteq 1 .. n /\ cs[c].contains \subseteq EntryType(c)
  BY <1>1, <1>2 DEF WellFormed
<1> QED
  BY <1>1, <1>3, <1>4, <1>5

\* and of the elements of a field.
LEMMA ElementsFit ==
  ASSUME NEW cs, NEW n, NEW B, NEW F, NEW size, LaidOut(cs, n, B, F, size),
         NEW f \in F, NEW i \in 0 .. f.count - 1
  PROVE  /\ f.class \in 1 .. n /\ f.offset \in Nat /\ f.count \in Nat \ {0}
         /\ cs[f.class].size \in Nat \ {0}
         /\ i * cs[f.class].size \in Nat /\ f.count * cs[f.class].size \in Nat
         /\ i * cs[f.class].size + cs[f.class].size <= f.count * cs[f.class].size
         /\ f.offset + f.count * cs[f.class].size <= size
<1>1. /\ f.class \in 1 .. n /\ f.offset \in Nat /\ f.count \in Nat \ {0}
      /\ f.offset + f.count * cs[f.class].size <= size
  BY DEF LaidOut
<1>2. PICK z : z = cs[f.class].size
  OBVIOUS
<1>3. z \in Nat \ {0}
  BY <1>1, <1>2, SmallerClasses
<1>4. i \in Nat /\ i < f.count
  BY <1>1
<1>5. i * z + z <= f.count * z
  BY <1>1, <1>3, <1>4, Multiples
<1>6. i * z \in Nat /\ f.count * z \in Nat
  BY <1>1, <1>3, <1>4
<1> QED
  BY <1>1, <1>2, <1>3, <1>5, <1>6

LEMMA NextWellFormed ==
  ASSUME NEW cs, NEW n, NEW B, NEW F, NEW size, NEW cx,
         LaidOut(cs, n, B, F, size), IsNext(cx, cs, n, B, F, size)
  PROVE  WellFormed(cx, n + 1)
<1>1. n \in Nat /\ cx[n + 1].size \in Nat \ {0}
  BY DEF LaidOut, IsNext
<1>2. cx[n + 1].ancestors \subseteq 1 .. n
  <2>1. ASSUME NEW b \in B PROVE Lineage(cs, b.class) \subseteq 1 .. n
    <3>1. b.class \in 1 .. n
      BY DEF LaidOut
    <3> QED
      BY <3>1, SmallerClasses DEF Lineage
  <2> QED
    BY <2>1, AncestorsNext
<1>3. ASSUME NEW u \in cx[n + 1].inside PROVE u \in PartType(n + 1)
  <2>1. CASE u = Whole(n + 1)
    BY <1>1, <2>1 DEF Whole, PartType
  <2>2. ASSUME NEW b \in B, NEW s \in cs[b.class].inside, u = PartOfBase(b, s)
        PROVE  u \in PartType(n + 1)
    <3>1. b.class \in 1 .. n /\ b.offset \in Nat
      BY DEF LaidOut
    <3>2. s \in PartType(b.class) /\ s.class \in 1 .. n
      BY <3>1, SmallerClasses
    <3> QED
      BY <1>1, <2>2, <3>1, <3>2 DEF PartType, PartOfBase
  <2>3. ASSUME NEW f \in F, NEW i \in 0 .. f.count - 1, NEW s \in cs[f.class].inside,
               u = PartOfField(cs, f, i, s)
        PROVE  u \in PartType(n + 1)
    <3>1. f.class \in 1 .. n /\ f.offset \in Nat /\ i * cs[f.class].size \in Nat
      BY ElementsFit
    <3>2. s \in PartType(f.class) /\ s.class \in 1 .. n /\ s.offset \in Nat
      BY <3>1, SmallerClasses
    <3>3. f.offset + i * cs[f.class].size + s.offset \in Nat
      BY <3>1, <3>2
    <3> HIDE DEF PartOfField
    <3>4. (s.hidden \/ ~f.named \/ (i > 0 /\ s.inField)) \in BOOLEAN
      OBVIOUS
    <3>5. s.class \in 1 .. n + 1
      BY <1>1, <3>2
    <3> QED
      BY <2>3, <3>3, <3>4, <3>5 DEF PartType, PartOfField
  <2> QED
    BY <2>1, <2>2, <2>3, InsideNext
<1>4. Whole(n + 1) \in cx[n + 1].inside
  BY InsideNext
<1>5. ASSUME NEW e \in cx[n + 1].contains PROVE e \in EntryType(n + 1)
  <2>1. ASSUME NEW f \in F, e = EntryOfField(cs, f) PROVE e \in EntryType(n + 1)
    <3>1. 0 \in 0 .. f.count - 1
      BY DEF LaidOut
    <3>2. f.class \in 1 .. n /\ f.offset \in Nat /\ f.count * cs[f.class].size \in Nat
      BY <3>1, ElementsFit
    <3> QED
      BY <1>1, <2>1, <3>2 DEF EntryType, EntryOfField
  <2>2. ASSUME NEW b \in B, NEW d \in cs[b.class].contains, e = EntryOfBase(b, d)
        PROVE  e \in EntryType(n + 1)
    <3>1. b.class \in 1 .. n /\ b.offset \in Nat
      BY DEF LaidOut
    <3>2. d \in EntryType(b.class)
      BY <3>1, SmallerClasses
    <3> QED
      BY <1>1, <2>2, <3>1, <3>2 DEF EntryType, EntryOfBase
  <2> QED
    BY <2>1, <2>2, ContainsNext
<1> QED
  BY <1>1, <1>2, <1>3, <1>4, <1>5 DEF WellFormed

LEMMA NextPartsFit ==
  ASSUME NEW cs, NEW n, NEW B, NEW F, NEW size, NEW cx,
         LaidOut(cs, n, B, F, size), IsNext(cx, cs, n, B, F, size)
  PROVE  PartsFit(cx, n + 1)
<1> SUFFICES ASSUME NEW u \in cx[n + 1].inside
             PROVE  /\ u.offset + cx[u.class].size <= cx[n + 1].size
                    /\ ~u.inField => u.class \in Lineage(cx, n + 1)
  BY DEF PartsFit
<1>1. n \in Nat /\ size \in Nat /\ cx[n + 1].size = size
      /\ \A c \in 1 .. n : cx[c] = cs[c]
  BY DEF LaidOut, IsNext
<1>2. CASE u = Whole(n + 1)
  BY <1>1, <1>2 DEF Whole, Lineage
<1>3. ASSUME NEW b \in B, NEW s \in cs[b.class].inside, u = PartOfBase(b, s)
      PROVE  /\ u.offset + cx[u.class].size <= size
             /\ ~u.inField => u.class \in Lineage(cx, n + 1)
  <2>1. b.class \in 1 .. n /\ b.offset \in Nat /\ b.offset + cs[b.class].size <= size
    BY DEF LaidOut
  <2>2. /\ s.class \in 1 .. n /\ s.offset \in Nat /\ cs[s.class].size \in Nat
        /\ cs[b.class].size \in Nat /\ ClassInv(cs, b.class)
        /\ s.offset + cs[s.class].size <= cs[b.class].size
    BY <2>1, SmallerClasses
  <2>3. u.class = s.class /\ u.offset = s.offset + b.offset /\ u.inField = s.inField
    BY <1>3 DEF PartOfBase
  <2>4. cx[u.class].size = cs[s.class].size
    BY <1>1, <2>2, <2>3
  <2>5. u.offset + cx[u.class].size <= size
    BY <1>1, <2>1, <2>2, <2>3, <2>4
  <2>6. ~s.inField => s.class \in Lineage(cs, b.class)
    BY <2>2 DEF ClassInv, PartsFit
  <2> QED
    BY <2>3, <2>5, <2>6, AncestorsNext DEF Lineage
<1>4. ASSUME NEW f \in F, NEW i \in 0 .. f.count - 1, NEW s \in cs[f.class].inside,
             u = PartOfField(cs, f, i, s)
      PROVE  u.offset + cx[u.class].size <= size /\ u.inField
  <2>1. PICK z, m, t : z = cs[f.class].size /\ m = i * z /\ t = f.count * z
    OBVIOUS
  <2>2. /\ f.class \in 1 .. n /\ f.offset \in Nat /\ z \in Nat /\ m \in Nat
        /\ t \in Nat /\ m + z <= t /\ f.offset + t <= size
    BY <2>1, ElementsFit
  <2>3. /\ s.class \in 1 .. n /\ s.offset \in Nat /\ cs[s.class].size \in Nat
        /\ s.offset + cs[s.class].size <= z
    BY <2>1, <2>2, SmallerClasses
  <2>4. u.class = s.class /\ u.offset = f.offset + m + s.offset /\ u.inField
    BY <1>4, <2>1 DEF PartOfField
  <2>5. cx[u.class].size = cs[s.class].size
    BY <1>1, <2>3, <2>4
  <2> QED
    BY <1>1, <2>2, <2>3, <2>4, <2>5
<1> QED
  BY <1>1, <1>2, <1>3, <1>4, InsideNext

LEMMA NextHashes ==
  ASSUME NEW cs, NEW n, NEW B, NEW F, NEW size, NEW cx,
         LaidOut(cs, n, B, F, size), IsNext(cx, cs, n, B, F, size)
  PROVE  HashesAreRight(cx, n + 1)
<1>1. /\ n \in Nat /\ cx[n + 1].size = size /\ \A c \in 1 .. n : cx[c] = cs[c]
      /\ cx[n + 1].ancestors = AllBases(cs, B)
      /\ cx[n + 1].hashes = HashVec(cs, n + 1, B, size)
  BY DEF LaidOut, IsNext
<1>2. \A b \in AllBases(cs, B) : cx[b].size = cs[b].size
  BY <1>1, NextWellFormed DEF WellFormed
<1>3. \A b \in AllBases(cs, B) :
        [type |-> b, same |-> IsSameSize(cs, b, size)] =
        [type |-> b, same |-> cx[b].size = cx[n + 1].size]
  BY <1>1, <1>2 DEF IsSameSize
<1> DEFINE Old(b) == [type |-> b, same |-> IsSameSize(cs, b, size)]
           New(b) == [type |-> b, same |-> cx[b].size = cx[n + 1].size]
<1>4. {Old(b) : b \in AllBases(cs, B)} = {New(b) : b \in AllBases(cs, B)}
  <2>1. \A b \in AllBases(cs, B) : Old(b) = New(b)
    BY <1>3
  <2> HIDE DEF Old, New
  <2> QED
    BY <2>1
<1> QED
  BY <1>1, <1>4, Zenon DEF HashesAreRight, HashVec

LEMMA NextNeeds ==
  ASSUME NEW cs, NEW n, NEW B, NEW F, NEW size, NEW cx,
         LaidOut(cs, n, B, F, size), IsNext(cx, cs, n, B, F, size)
  PROVE  NeedsAreClosed(cx, n + 1)
<1>1. /\ n \in Nat /\ \A c \in 1 .. n : cx[c] = cs[c]
      /\ cx[n + 1].needs = Needed(cs, n + 1, cx[n + 1].contains)
  BY DEF LaidOut, IsNext
<1>2. \A e \in cx[n + 1].contains : e.table \in 1 .. n
  BY <1>1, NextWellFormed DEF WellFormed, EntryType
<1>3. \A c \in 1 .. n : NeedsAreClosed(cs, c)
  BY SmallerClasses DEF ClassInv
<1>4. \A t : t \in cx[n + 1].needs <=>
        t = n + 1 \/ \E e \in cx[n + 1].contains : t \in cs[e.table].needs
  <2>1. \A t : t \in Needed(cs, n + 1, cx[n + 1].contains) <=>
          t = n + 1 \/ \E e \in cx[n + 1].contains : t \in NeededBy(cs, e)
    BY Zenon DEF Needed
  <2> QED
    BY <1>1, <2>1 DEF NeededBy
<1>5. ASSUME NEW e \in cx[n + 1].contains, NEW t \in cs[e.table].needs
      PROVE  t \in 1 .. n /\ \A d \in cx[t].contains : d.table \in cx[n + 1].needs
  <2>1. t \in 1 .. n
    BY <1>1, <1>2, <1>3 DEF NeedsAreClosed
  <2>2. \A d \in cs[t].contains : d.table \in cs[e.table].needs
    BY <1>2, <1>3 DEF NeedsAreClosed
  <2> QED
    BY <1>1, <1>4, <2>1, <2>2
<1>6. ASSUME NEW e \in cx[n + 1].contains PROVE e.table \in cx[n + 1].needs
  <2>1. e.table \in cs[e.table].needs
    BY <1>2, <1>3 DEF NeedsAreClosed
  <2> QED
    BY <1>4, <2>1
<1>7. ASSUME NEW t \in cx[n + 1].needs
      PROVE  t \in 1 .. n + 1 /\ \A e \in cx[t].contains : e.table \in cx[n + 1].needs
  <2>1. CASE t = n + 1
    BY <1>1, <1>6, <2>1
  <2>2. CASE \E e \in cx[n + 1].contains : t \in cs[e.table].needs
    BY <1>1, <1>5, <2>2
  <2> QED
    BY <1>4, <2>1, <2>2
<1>8. n + 1 \in cx[n + 1].needs
  BY <1>4
<1> QED
  BY <1>7, <1>8 DEF NeedsAreClosed

LEMMA NextEntries ==
  ASSUME NEW cs, NEW n, NEW B, NEW F, NEW size, NEW cx,
         LaidOut(cs, n, B, F, size), IsNext(cx, cs, n, B, F, size)
  PROVE  EntriesAreThere(cx, n + 1)
<1> SUFFICES ASSUME NEW e \in cx[n + 1].contains
             PROVE  /\ \A d \in Int : InRange(e, d) =>
                         \E u \in cx[n + 1].inside : u.class = e.table /\ CoversAt(cx, u, d)
                    /\ \A t \in cx[e.table].inside : \E u \in cx[n + 1].inside :
                         u.class = t.class /\ u.offset = e.offset + t.offset
  BY DEF EntriesAreThere
<1>1. n \in Nat /\ \A c \in 1 .. n : cx[c] = cs[c]
  BY DEF LaidOut, IsNext
<1>2. ASSUME NEW f \in F, f.named, e = EntryOfField(cs, f)
      PROVE  /\ \A d \in Int : InRange(e, d) =>
                  \E u \in cx[n + 1].inside : u.class = e.table /\ CoversAt(cx, u, d)
             /\ \A t \in cx[e.table].inside : \E u \in cx[n + 1].inside :
                  u.class = t.class /\ u.offset = e.offset + t.offset
  <2>1. PICK z, t : z = cs[f.class].size /\ t = f.count * z
    OBVIOUS
  <2>2. f.count \in Nat \ {0} /\ 0 \in 0 .. f.count - 1
    BY DEF LaidOut
  <2>3. f.class \in 1 .. n /\ f.offset \in Nat /\ z \in Nat \ {0} /\ t \in Nat
    BY <2>1, <2>2, ElementsFit
  <2>4. e.offset = f.offset /\ e.size = t /\ e.table = f.class
    BY <1>2, <2>1 DEF EntryOfField
  <2>5. cx[e.table] = cs[f.class]
    BY <1>1, <2>3, <2>4
  <2>6. ASSUME NEW d \in Int, InRange(e, d)
        PROVE  \E u \in cx[n + 1].inside : u.class = e.table /\ CoversAt(cx, u, d)
    <3>1. d - f.offset \in Nat /\ d - f.offset < t
      BY <2>3, <2>4, <2>6 DEF InRange
    <3>2. PICK a : a = d - f.offset
      OBVIOUS
    <3>3. PICK i, r : i = a \div z /\ r = a % z
      OBVIOUS
    <3>4. i \in Nat /\ r \in 0 .. z - 1 /\ a = i * z + r
      BY <2>3, <3>1, <3>2, <3>3, DivisionTheorem
    <3>5. i < f.count
      <4>1. CASE f.count < i
        BY <2>1, <2>2, <2>3, <3>1, <3>2, <3>4, <4>1, Multiples
      <4>2. CASE f.count = i
        BY <2>1, <2>3, <3>1, <3>2, <3>4, <4>2
      <4> QED
        BY <2>2, <3>4, <4>1, <4>2
    <3>6. i \in 0 .. f.count - 1 /\ i * z \in Nat
      BY <2>2, <2>3, <3>4, <3>5
    <3>7. Whole(f.class) \in cs[f.class].inside
      BY <2>3, SmallerClasses DEF ClassInv, WellFormed
    <3>8. PICK u : u = PartOfField(cs, f, i, Whole(f.class))
      OBVIOUS
    <3>9. u \in cx[n + 1].inside
      BY <3>6, <3>7, <3>8, InsideNext
    <3>10. u.class = f.class /\ u.offset = f.offset + i * z + 0
      BY <2>1, <3>8 DEF PartOfField, Whole
    <3>11. CoversAt(cx, u, d)
      <4>1. cx[u.class].size = z
        BY <2>1, <2>4, <2>5, <3>10
      <4> QED
        BY <2>3, <3>1, <3>2, <3>4, <3>6, <3>10, <4>1 DEF CoversAt
    <3> QED
      BY <2>4, <3>9, <3>10, <3>11
  <2>7. ASSUME NEW s \in cx[e.table].inside
        PROVE  \E u \in cx[n + 1].inside : u.class = s.class /\ u.offset = e.offset + s.offset
    <3>1. s \in cs[f.class].inside /\ s.offset \in Nat
      BY <2>3, <2>5, SmallerClasses
    <3>2. PICK u : u = PartOfField(cs, f, 0, s)
      OBVIOUS
    <3>3. u \in cx[n + 1].inside
      BY <2>2, <3>1, <3>2, InsideNext
    <3>4. u.class = s.class /\ u.offset = f.offset + 0 * z + s.offset
      BY <2>1, <3>2 DEF PartOfField
    <3>5. u.offset = e.offset + s.offset
      BY <2>3, <2>4, <3>1, <3>4
    <3> QED
      BY <3>3, <3>4, <3>5
  <2> QED
    BY <2>6, <2>7
<1>3. ASSUME NEW b \in B, NEW x \in cs[b.class].contains, e = EntryOfBase(b, x)
      PROVE  /\ \A d \in Int : InRange(e, d) =>
                  \E u \in cx[n + 1].inside : u.class = e.table /\ CoversAt(cx, u, d)
             /\ \A t \in cx[e.table].inside : \E u \in cx[n + 1].inside :
                  u.class = t.class /\ u.offset = e.offset + t.offset
  <2>1. b.class \in 1 .. n /\ b.offset \in Nat
    BY DEF LaidOut
  <2>2. x \in EntryType(b.class) /\ EntriesAreThere(cs, b.class)
    BY <2>1, SmallerClasses DEF ClassInv
  <2>3. x.offset \in Nat /\ x.size \in Nat /\ x.table \in 1 .. n
    BY <1>1, <2>1, <2>2 DEF EntryType
  <2>4. e.offset = x.offset + b.offset /\ e.size = x.size /\ e.table = x.table
    BY <1>3 DEF EntryOfBase
  <2>5. ASSUME NEW s \in cs[b.class].inside
        PROVE  \E u \in cx[n + 1].inside :
                 u.class = s.class /\ u.offset = s.offset + b.offset
    <3>1. PICK u : u = PartOfBase(b, s)
      OBVIOUS
    <3>2. u \in cx[n + 1].inside
      BY <3>1, InsideNext
    <3>3. u.class = s.class /\ u.offset = s.offset + b.offset
      BY <3>1 DEF PartOfBase
    <3> QED
      BY <3>2, <3>3
  <2>6. ASSUME NEW d \in Int, InRange(e, d)
        PROVE  \E u \in cx[n + 1].inside : u.class = e.table /\ CoversAt(cx, u, d)
    <3>1. d - b.offset \in Int /\ InRange(x, d - b.offset)
      BY <2>1, <2>3, <2>4, <2>6 DEF InRange
    <3>2. PICK s \in cs[b.class].inside : s.class = x.table /\ CoversAt(cs, s, d - b.offset)
      BY <2>2, <3>1 DEF EntriesAreThere
    <3>3. PICK u \in cx[n + 1].inside : u.class = s.class /\ u.offset = s.offset + b.offset
      BY <2>5
    <3>4. s.offset \in Nat /\ s.class \in 1 .. n /\ cs[s.class].size \in Nat
      BY <2>1, SmallerClasses
    <3>5. cx[u.class].size = cs[s.class].size
      BY <1>1, <3>3, <3>4
    <3>6. CoversAt(cx, u, d)
      BY <2>1, <3>2, <3>3, <3>4, <3>5 DEF CoversAt
    <3> QED
      BY <2>4, <3>2, <3>3, <3>6
  <2>7. ASSUME NEW t \in cx[e.table].inside
        PROVE  \E u \in cx[n + 1].inside : u.class = t.class /\ u.offset = e.offset + t.offset
    <3>1. t \in cs[x.table].inside /\ t.offset \in Nat
      BY <1>1, <2>3, <2>4, SmallerClasses
    <3>2. PICK s \in cs[b.class].inside : s.class = t.class /\ s.offset = x.offset + t.offset
      BY <2>2, <3>1 DEF EntriesAreThere
    <3>3. PICK u \in cx[n + 1].inside : u.class = s.class /\ u.offset = s.offset + b.offset
      BY <2>5
    <3>4. u.offset = e.offset + t.offset
      BY <2>1, <2>3, <2>4, <3>1, <3>2, <3>3
    <3> QED
      BY <3>2, <3>3, <3>4
  <2> QED
    BY <2>6, <2>7
<1> QED
  BY <1>2, <1>3, ContainsNext

LEMMA NextListed ==
  ASSUME NEW cs, NEW n, NEW B, NEW F, NEW size, NEW cx,
         LaidOut(cs, n, B, F, size), IsNext(cx, cs, n, B, F, size)
  PROVE  PartsAreListed(cx, n + 1)
<1> SUFFICES ASSUME NEW u \in cx[n + 1].inside, ~u.hidden
             PROVE  IsListed(cx, n + 1, u)
  BY DEF PartsAreListed
<1>1. n \in Nat /\ \A c \in 1 .. n : cx[c] = cs[c] /\ Lineage(cx, c) = Lineage(cs, c)
  BY DEF LaidOut, IsNext, Lineage
<1>2. CASE u = Whole(n + 1)
  BY <1>2 DEF IsListed, Lineage, Whole
<1>3. ASSUME NEW b \in B, NEW s \in cs[b.class].inside, u = PartOfBase(b, s)
      PROVE  IsListed(cx, n + 1, u)
  <2>1. b.class \in 1 .. n /\ b.offset \in Nat
    BY DEF LaidOut
  <2>2. /\ ClassInv(cs, b.class) /\ s.offset \in Nat
        /\ \A e \in cs[b.class].contains : e \in EntryType(b.class)
    BY <2>1, SmallerClasses
  <2>3. u.class = s.class /\ u.offset = s.offset + b.offset /\ u.hidden = s.hidden
    BY <1>3 DEF PartOfBase
  <2>4. IsListed(cs, b.class, s)
    BY <2>2, <2>3 DEF ClassInv, PartsAreListed
  <2>5. CASE s.class \in Lineage(cs, b.class)
    BY <2>3, <2>5, AncestorsNext DEF IsListed, Lineage
  <2>6. ASSUME NEW x \in cs[b.class].contains, InRange(x, s.offset),
               \/ s.class \in Lineage(cs, x.table)
               \/ \E t \in cs[x.table].inside :
                    ~t.hidden /\ t.class = s.class /\ t.offset = s.offset - x.offset
        PROVE  IsListed(cx, n + 1, u)
    <3>1. x.offset \in Nat /\ x.size \in Nat /\ x.table \in 1 .. n
      BY <1>1, <2>1, <2>2 DEF EntryType
    <3>2. PICK e : e = EntryOfBase(b, x)
      OBVIOUS
    <3>3. e \in cx[n + 1].contains
      BY <3>2, ContainsNext
    <3>4. e.offset = x.offset + b.offset /\ e.size = x.size /\ e.table = x.table
      BY <3>2 DEF EntryOfBase
    <3>5. InRange(e, u.offset) /\ u.offset - e.offset = s.offset - x.offset
      BY <2>1, <2>2, <2>3, <2>6, <3>1, <3>4 DEF InRange
    <3>6. cx[e.table] = cs[x.table] /\ Lineage(cx, e.table) = Lineage(cs, x.table)
      BY <1>1, <3>1, <3>4
    <3> QED
      BY <2>3, <2>6, <3>3, <3>5, <3>6 DEF IsListed
  <2> QED
    BY <2>4, <2>5, <2>6 DEF IsListed
<1>4. ASSUME NEW f \in F, NEW i \in 0 .. f.count - 1, NEW s \in cs[f.class].inside,
             u = PartOfField(cs, f, i, s)
      PROVE  IsListed(cx, n + 1, u)
  <2>1. PICK z, m, t : z = cs[f.class].size /\ m = i * z /\ t = f.count * z
    OBVIOUS
  <2>2. /\ f.class \in 1 .. n /\ f.offset \in Nat /\ z \in Nat /\ m \in Nat
        /\ t \in Nat /\ m + z <= t
    BY <2>1, ElementsFit
  <2>3. s.offset \in Nat /\ s.offset < z /\ ClassInv(cs, f.class)
    BY <2>1, <2>2, SmallerClasses
  <2>4. u.class = s.class /\ u.offset = f.offset + m + s.offset
        /\ u.hidden = (s.hidden \/ ~f.named \/ (i > 0 /\ s.inField))
    BY <1>4, <2>1 DEF PartOfField
  <2>5. PICK e : e = EntryOfField(cs, f)
    OBVIOUS
  <2>6. f.named /\ e \in cx[n + 1].contains
    BY <2>4, <2>5, ContainsNext
  <2>7. e.offset = f.offset /\ e.size = t /\ e.table = f.class
    BY <2>1, <2>5 DEF EntryOfField
  <2>8. InRange(e, u.offset)
    BY <2>2, <2>3, <2>4, <2>7 DEF InRange
  <2>9. cx[e.table] = cs[f.class] /\ Lineage(cx, e.table) = Lineage(cs, f.class)
    BY <1>1, <2>2, <2>7
  <2>10. CASE ~s.inField
    <3>1. u.class \in Lineage(cx, e.table)
      BY <2>3, <2>4, <2>9, <2>10 DEF ClassInv, PartsFit
    <3> QED
      BY <2>6, <2>8, <3>1 DEF IsListed
  <2>11. CASE s.inField
    <3>1. i = 0 /\ ~s.hidden
      <4>1. ~s.hidden /\ ~(i > 0)
        BY <2>4, <2>11, Zenon
      <4>2. f.count \in Nat
        BY ElementsFit
      <4> QED
        BY <4>1, <4>2
    <3>2. m = 0
      BY <2>1, <2>2, <3>1
    <3>3. s.offset = u.offset - e.offset
      BY <2>2, <2>3, <2>4, <2>7, <3>2
    <3>4. s \in cx[e.table].inside /\ ~s.hidden /\ s.class = u.class
      BY <2>4, <2>9, <3>1
    <3> QED
      BY <2>6, <2>8, <3>3, <3>4 DEF IsListed
  <2> QED
    BY <2>10, <2>11
<1> QED
  BY <1>2, <1>3, <1>4, InsideNext

\* A class refers to smaller classes only, so one more class changes nothing.
LEMMA OldClassesStay ==
  ASSUME NEW cs, NEW n \in Nat, NEW cx, \A c \in 1 .. n : cx[c] = cs[c],
         NEW c \in 1 .. n, ClassInv(cs, c)
  PROVE  ClassInv(cx, c)
<1>1. cx[c] = cs[c] /\ WellFormed(cs, c)
  BY DEF ClassInv
<1>2. \A d \in 1 .. c : d \in 1 .. n /\ cx[d] = cs[d] /\ Lineage(cx, d) = Lineage(cs, d)
  BY DEF Lineage
<1>3. /\ \A s \in cs[c].inside : s.class \in 1 .. c
      /\ \A e \in cs[c].contains : e.table \in 1 .. c
      /\ \A a \in cs[c].ancestors : a \in 1 .. c
  BY <1>1 DEF WellFormed, PartType, EntryType
<1>4. c \in 1 .. c
  OBVIOUS
<1>5. WellFormed(cx, c)
  BY <1>1 DEF WellFormed
<1>6. PartsFit(cx, c)
  BY <1>1, <1>2, <1>3, <1>4 DEF ClassInv, PartsFit
<1>7. EntriesAreThere(cx, c)
  <2>1. \A s \in cs[c].inside, d \in Int : CoversAt(cx, s, d) <=> CoversAt(cs, s, d)
    BY <1>2, <1>3 DEF CoversAt
  <2>2. EntriesAreThere(cs, c)
    BY DEF ClassInv
  <2> QED
    BY <1>1, <1>2, <1>3, <2>1, <2>2 DEF EntriesAreThere
<1>8. PartsAreListed(cx, c)
  <2>1. ASSUME NEW s \in cs[c].inside, IsListed(cs, c, s) PROVE IsListed(cx, c, s)
    BY <1>1, <1>2, <1>3, <1>4, <2>1 DEF IsListed
  <2> QED
    BY <1>1, <2>1 DEF ClassInv, PartsAreListed
<1>9. HashesAreRight(cx, c)
  <2>1. \A a \in cs[c].ancestors : [type |-> a, same |-> cx[a].size = cs[c].size] =
                                   [type |-> a, same |-> cs[a].size = cs[c].size]
    BY <1>2, <1>3
  <2> DEFINE Old(a) == [type |-> a, same |-> cs[a].size = cs[c].size]
             New(a) == [type |-> a, same |-> cx[a].size = cs[c].size]
  <2>2. {New(a) : a \in cs[c].ancestors} = {Old(a) : a \in cs[c].ancestors}
    <3>1. \A a \in cs[c].ancestors : New(a) = Old(a)
      BY <2>1
    <3> HIDE DEF New, Old
    <3> QED
      BY <3>1
  <2>3. cs[c].hashes = {[type |-> c, same |-> FALSE]} \cup {Old(a) : a \in cs[c].ancestors}
    BY DEF ClassInv, HashesAreRight
  <2>4. cx[c].hashes = {[type |-> c, same |-> FALSE]} \cup {New(a) : a \in cx[c].ancestors}
    <3> HIDE DEF New, Old
    <3> QED
      BY <1>1, <2>2, <2>3
  <2>5. \A a : New(a) = [type |-> a, same |-> cx[a].size = cx[c].size]
    BY <1>1
  <2> QED
    BY <1>1, <2>4 DEF HashesAreRight
<1>10. NeedsAreClosed(cx, c)
  <2>1. NeedsAreClosed(cs, c)
    BY DEF ClassInv
  <2>2. \A t \in cs[c].needs : cx[t] = cs[t]
    BY <1>2, <2>1 DEF NeedsAreClosed
  <2> QED
    BY <1>1, <2>1, <2>2 DEF NeedsAreClosed
<1> QED
  BY <1>5, <1>6, <1>7, <1>8, <1>9, <1>10 DEF ClassInv

LEMMA NextClass ==
  ASSUME NEW cs, NEW n, NEW B, NEW F, NEW size, NEW cx,
         LaidOut(cs, n, B, F, size), IsNext(cx, cs, n, B, F, size)
  PROVE  \A c \in 1 .. n + 1 : ClassInv(cx, c)
<1>1. ClassInv(cx, n + 1)
  BY NextWellFormed, NextPartsFit, NextEntries, NextListed, NextHashes, NextNeeds
  DEF ClassInv
<1>2. n \in Nat /\ \A c \in 1 .. n : cx[c] = cs[c] /\ ClassInv(cs, c)
  BY DEF LaidOut, IsNext
<1>3. \A c \in 1 .. n : ClassInv(cx, c)
  BY <1>2, OldClassesStay
<1> QED
  BY <1>1, <1>2, <1>3

-----------------------------------------------------------------------------
(* CheckCastValidity *)

MatchBody(cs, G, g, c, d) ==
  {h.type : h \in cs[c].hashes} \cup
  UNION {g[<<e.table, Nested(e, d)>>] :
           e \in {f \in cs[c].contains : f.table \in G /\ InRange(f, d)}}

IsMatch(cs, n, G, g) ==
  g = [x \in (1 .. n) \X Int |-> MatchBody(cs, G, g, x[1], x[2])]

\* The recursion over the tables ends, as a table contains smaller classes.
LEMMA MatchExists ==
  ASSUME NEW cs, NEW n \in Nat, \A c \in 1 .. n : ClassInv(cs, c), NEW G
  PROVE  \E g : IsMatch(cs, n, G, g)
<1> DEFINE Solves(m, g) == IsMatch(cs, m, G, g)
           S == {m \in Nat : m <= n => \E g : Solves(m, g)}
<1>1. 0 \in S
  <2>1. Solves(0, [x \in (1 .. 0) \X Int |-> {}])
    BY DEF IsMatch
  <2> QED
    BY <2>1
<1>2. ASSUME NEW m \in Nat, m \in S PROVE m + 1 \in S
  <2> SUFFICES ASSUME m + 1 <= n PROVE \E g : Solves(m + 1, g)
    OBVIOUS
  <2>1. PICK g : Solves(m, g)
    <3> HIDE DEF Solves
    <3>1. m <= n
      OBVIOUS
    <3> QED
      BY <1>2, <3>1
  <2>2. PICK h : h = [x \in (1 .. m + 1) \X Int |-> MatchBody(cs, G, g, x[1], x[2])]
    OBVIOUS
  <2>3. \A c \in 1 .. m, d \in Int : h[<<c, d>>] = g[<<c, d>>]
    <3>1. ASSUME NEW c \in 1 .. m, NEW d \in Int PROVE h[<<c, d>>] = g[<<c, d>>]
      <4>1. g[<<c, d>>] = MatchBody(cs, G, g, c, d)
        BY <2>1 DEF IsMatch
      <4>2. c \in 1 .. m + 1
        OBVIOUS
      <4>3. h[<<c, d>>] = MatchBody(cs, G, g, c, d)
        BY <2>2, <4>2
      <4> QED
        BY <4>1, <4>3
    <3> QED
      BY <3>1
  <2>4. ASSUME NEW c \in 1 .. m + 1, NEW d \in Int
        PROVE  MatchBody(cs, G, h, c, d) = MatchBody(cs, G, g, c, d)
    <3>1. cs[c].contains \subseteq EntryType(c)
      BY DEF ClassInv, WellFormed
    <3>2. ASSUME NEW e \in cs[c].contains
          PROVE  h[<<e.table, Nested(e, d)>>] = g[<<e.table, Nested(e, d)>>]
      <4>1. e.table \in 1 .. m /\ Nested(e, d) \in Int
        BY <3>1 DEF EntryType, Nested
      <4> QED
        BY <2>3, <4>1
    <3> DEFINE E == {f \in cs[c].contains : f.table \in G /\ InRange(f, d)}
               H1(e) == h[<<e.table, Nested(e, d)>>]
               G1(e) == g[<<e.table, Nested(e, d)>>]
    <3>3. \A e \in E : H1(e) = G1(e)
      BY <3>2
    <3>4. {H1(e) : e \in E} = {G1(e) : e \in E}
      <4> HIDE DEF E, H1, G1
      <4> QED
        BY <3>3
    <3> QED
      BY <3>4, Zenon DEF MatchBody
  <2>5. h = [x \in (1 .. m + 1) \X Int |-> MatchBody(cs, G, h, x[1], x[2])]
    <3>1. \A x \in (1 .. m + 1) \X Int :
            MatchBody(cs, G, h, x[1], x[2]) = MatchBody(cs, G, g, x[1], x[2])
      BY <2>4
    <3> QED
      BY <2>2, <3>1
  <2> QED
    BY <2>5 DEF IsMatch
<1>3. Nat \subseteq S
  <2> HIDE DEF S
  <2> QED
    BY <1>1, <1>2, Induction
<1>4. n \in S
  BY <1>3
<1> QED
  BY <1>4

\* What CheckCastValidity answers, in terms of what it answers for the entries.
LEMMA MatchedRec ==
  ASSUME NEW cs, NEW n \in Nat, n = Len(cs), \A c \in 1 .. n : ClassInv(cs, c),
         NEW G, NEW c \in 1 .. n, NEW d \in Int, NEW t
  PROVE  t \in Matched(cs, G, c, d) <=>
           \/ t \in Lineage(cs, c)
           \/ \E e \in cs[c].contains :
                /\ e.table \in G /\ InRange(e, d)
                /\ t \in Matched(cs, G, e.table, d - e.offset)
<1>0. \E g : IsMatch(cs, n, G, g)
  BY MatchExists
<1> DEFINE match == CHOOSE g : IsMatch(cs, n, G, g)
<1>1. \A b, a : Matched(cs, G, b, a) = match[<<b, a>>]
  BY Zenon DEF Matched, MatchBody, IsMatch
<1>2. IsMatch(cs, n, G, match)
  BY <1>0, Zenon
<1> HIDE DEF match
<1>3. match[<<c, d>>] = MatchBody(cs, G, match, c, d)
  BY <1>2 DEF IsMatch
<1>4. t \in {h.type : h \in cs[c].hashes} <=> t \in Lineage(cs, c)
  <2>1. cs[c].hashes =
          {[type |-> c, same |-> FALSE]} \cup
          {[type |-> b, same |-> cs[b].size = cs[c].size] : b \in cs[c].ancestors}
    BY DEF ClassInv, HashesAreRight
  <2>2. \A h : h \in cs[c].hashes <=>
                \/ h = [type |-> c, same |-> FALSE]
                \/ \E b \in cs[c].ancestors :
                     h = [type |-> b, same |-> cs[b].size = cs[c].size]
    BY <2>1
  <2>3. t \in {h.type : h \in cs[c].hashes} <=> \E h \in cs[c].hashes : t = h.type
    OBVIOUS
  <2>4. ASSUME t \in Lineage(cs, c) PROVE \E h \in cs[c].hashes : t = h.type
    <3>1. CASE t = c
      <4>1. [type |-> c, same |-> FALSE] \in cs[c].hashes
        BY <2>2
      <4> QED
        BY <3>1, <4>1
    <3>2. CASE t \in cs[c].ancestors
      <4>1. [type |-> t, same |-> cs[t].size = cs[c].size] \in cs[c].hashes
        BY <2>2, <3>2
      <4> QED
        BY <4>1
    <3> QED
      BY <2>4, <3>1, <3>2 DEF Lineage
  <2>5. ASSUME NEW h \in cs[c].hashes PROVE h.type \in Lineage(cs, c)
    BY <2>2 DEF Lineage
  <2> QED
    BY <2>3, <2>4, <2>5
<1>5. t \in MatchBody(cs, G, match, c, d) <=>
        \/ t \in {h.type : h \in cs[c].hashes}
        \/ \E e \in cs[c].contains :
             /\ e.table \in G /\ InRange(e, d)
             /\ t \in match[<<e.table, Nested(e, d)>>]
  BY DEF MatchBody
<1> QED
  BY <1>1, <1>3, <1>4, <1>5 DEF Nested

\* What a class contains is made of smaller classes.
LEMMA EntriesAreSmaller ==
  ASSUME NEW cs, NEW c \in Nat, ClassInv(cs, c), NEW e \in cs[c].contains
  PROVE  e.table \in 1 .. c - 1 /\ e.offset \in Nat /\ e.size \in Nat
BY DEF ClassInv, WellFormed, EntryType

\* At the place of a subobject that is not hidden its class is found, if the
\* tables on the way were generated.
Finds(cs, G, c) ==
  \A s \in cs[c].inside : ~s.hidden => s.class \in Matched(cs, G, c, s.offset)

LEMMA MatchFinds ==
  ASSUME NEW cs, NEW n \in Nat, n = Len(cs), \A c \in 1 .. n : ClassInv(cs, c),
         NEW G, \A t \in G : \A e \in cs[t].contains : e.table \in G,
         NEW k \in (1 .. n) \cap G
  PROVE  Finds(cs, G, k)
<1> DEFINE S == {m \in Nat : \A c \in (1 .. n) \cap G : c <= m => Finds(cs, G, c)}
<1>1. 0 \in S
  OBVIOUS
<1>2. ASSUME NEW m \in Nat, m \in S PROVE m + 1 \in S
  <2>1. ASSUME NEW c \in (1 .. n) \cap G, c <= m PROVE Finds(cs, G, c)
    BY <1>2, <2>1
  <2>2. ASSUME NEW c \in (1 .. n) \cap G, c = m + 1 PROVE Finds(cs, G, c)
    <3> SUFFICES ASSUME NEW s \in cs[c].inside, ~s.hidden
                 PROVE  s.class \in Matched(cs, G, c, s.offset)
      BY DEF Finds
    <3>1. c \in 1 .. n /\ c \in Nat /\ ClassInv(cs, c)
      OBVIOUS
    <3>2. s.offset \in Int
      BY <3>1 DEF ClassInv, WellFormed, PartType
    <3>3. IsListed(cs, c, s)
      BY <3>1 DEF ClassInv, PartsAreListed
    <3>4. CASE s.class \in Lineage(cs, c)
      BY <3>1, <3>2, <3>4, MatchedRec
    <3>5. ASSUME NEW e \in cs[c].contains, InRange(e, s.offset),
                 \/ s.class \in Lineage(cs, e.table)
                 \/ \E t \in cs[e.table].inside :
                      ~t.hidden /\ t.class = s.class /\ t.offset = s.offset - e.offset
          PROVE  s.class \in Matched(cs, G, c, s.offset)
      <4>1. e.table \in 1 .. c - 1 /\ e.offset \in Nat
        BY <3>1, EntriesAreSmaller
      <4>2. /\ e.table \in (1 .. n) \cap G /\ e.table <= m
            /\ s.offset - e.offset \in Int
        BY <2>2, <3>1, <3>2, <4>1
      <4>3. s.class \in Matched(cs, G, e.table, s.offset - e.offset)
        <5>1. CASE s.class \in Lineage(cs, e.table)
          BY <4>2, <5>1, MatchedRec
        <5>2. ASSUME NEW t \in cs[e.table].inside, ~t.hidden, t.class = s.class,
                     t.offset = s.offset - e.offset
              PROVE  s.class \in Matched(cs, G, e.table, s.offset - e.offset)
          <6>1. Finds(cs, G, e.table)
            BY <2>1, <4>2
          <6> QED
            BY <5>2, <6>1 DEF Finds
        <5> QED
          BY <3>5, <5>1, <5>2
      <4> QED
        BY <3>1, <3>2, <3>5, <4>2, <4>3, MatchedRec
    <3> QED
      BY <3>3, <3>4, <3>5 DEF IsListed
  <2> QED
    BY <2>1, <2>2
<1>3. Nat \subseteq S
  <2> HIDE DEF S
  <2> QED
    BY <1>1, <1>2, Induction
<1>4. k \in Nat /\ k \in S
  BY <1>3
<1> QED
  BY <1>4

\* What is found somewhere is the class or a base of an object that is there.
IsThere(cs, c, d, t) ==
  \/ t \in Lineage(cs, c)
  \/ \E s \in cs[c].inside : CoversAt(cs, s, d) /\ t \in Lineage(cs, s.class)

LEMMA MatchIsThere ==
  ASSUME NEW cs, NEW n \in Nat, n = Len(cs), \A c \in 1 .. n : ClassInv(cs, c),
         NEW G, NEW k \in 1 .. n, NEW a \in Int, NEW t \in Matched(cs, G, k, a)
  PROVE  IsThere(cs, k, a, t)
<1> DEFINE Sound(c) == \A d \in Int : t \in Matched(cs, G, c, d) => IsThere(cs, c, d, t)
           S == {m \in Nat : \A c \in 1 .. n : c <= m => Sound(c)}
<1>1. 0 \in S
  OBVIOUS
<1>2. ASSUME NEW m \in Nat, m \in S PROVE m + 1 \in S
  <2>1. ASSUME NEW c \in 1 .. n, c <= m PROVE Sound(c)
    <3> HIDE DEF Sound
    <3> QED
      BY <1>2, <2>1
  <2>2. ASSUME NEW c \in 1 .. n, c = m + 1 PROVE Sound(c)
    <3> SUFFICES ASSUME NEW d \in Int, t \in Matched(cs, G, c, d)
                 PROVE  IsThere(cs, c, d, t)
      OBVIOUS
    <3>1. CASE t \in Lineage(cs, c)
      BY <3>1 DEF IsThere
    <3>2. ASSUME NEW e \in cs[c].contains, InRange(e, d),
                 t \in Matched(cs, G, e.table, d - e.offset)
          PROVE  IsThere(cs, c, d, t)
      <4>1. e.table \in 1 .. c - 1 /\ e.offset \in Nat /\ ClassInv(cs, c)
        BY EntriesAreSmaller
      <4>2. e.table \in 1 .. n /\ e.table <= m /\ d - e.offset \in Int
        BY <2>2, <4>1
      <4>3. IsThere(cs, e.table, d - e.offset, t)
        BY <2>1, <3>2, <4>2
      <4>4. EntriesAreThere(cs, c)
        BY <4>1 DEF ClassInv
      <4>5. CASE t \in Lineage(cs, e.table)
        <5>1. PICK s \in cs[c].inside : s.class = e.table /\ CoversAt(cs, s, d)
          BY <3>2, <4>4 DEF EntriesAreThere
        <5> QED
          BY <4>5, <5>1 DEF IsThere
      <4>6. ASSUME NEW s \in cs[e.table].inside, CoversAt(cs, s, d - e.offset),
                   t \in Lineage(cs, s.class)
            PROVE  IsThere(cs, c, d, t)
        <5>1. PICK u \in cs[c].inside : u.class = s.class /\ u.offset = e.offset + s.offset
          BY <4>4 DEF EntriesAreThere
        <5>2. s.offset \in Nat /\ s.class \in 1 .. n
          BY <4>2 DEF ClassInv, WellFormed, PartType
        <5>3. cs[s.class].size \in Nat
          BY <5>2 DEF ClassInv, WellFormed
        <5>4. CoversAt(cs, u, d)
          <6>1. PICK z \in Nat : z = cs[s.class].size /\ z = cs[u.class].size
            BY <5>1, <5>3
          <6>2. s.offset <= d - e.offset /\ d - e.offset < s.offset + z
            BY <4>6, <6>1 DEF CoversAt
          <6>3. u.offset <= d /\ d < u.offset + z
            BY <4>1, <5>1, <5>2, <6>2
          <6> QED
            BY <6>1, <6>3 DEF CoversAt
        <5> QED
          BY <4>6, <5>1, <5>4 DEF IsThere
      <4> QED
        BY <4>3, <4>5, <4>6 DEF IsThere
    <3>3. \/ t \in Lineage(cs, c)
          \/ \E e \in cs[c].contains :
               InRange(e, d) /\ t \in Matched(cs, G, e.table, d - e.offset)
      BY MatchedRec
    <3> QED
      BY <3>1, <3>2, <3>3
  <2> HIDE DEF Sound
  <2> QED
    BY <2>1, <2>2
<1>3. Nat \subseteq S
  <2> HIDE DEF S
  <2> QED
    BY <1>1, <1>2, Induction
<1>4. k \in Nat /\ k \in S
  BY <1>3
<1>5. Sound(k)
  <2> HIDE DEF Sound
  <2> QED
    BY <1>4
<1> QED
  BY <1>5

-----------------------------------------------------------------------------
(* The layout of a class *)

FieldType(cs) == [class : 1 .. Len(cs), count : Nat \ {0}, named : BOOLEAN]

LEMMA ClassIsLaidOut ==
  ASSUME NEW cs, Len(cs) \in Nat, \A c \in 1 .. Len(cs) : ClassInv(cs, c),
         NEW bases \in Seq(1 .. Len(cs)), NEW scalars \in Nat,
         NEW fields \in Seq(FieldType(cs)),
         Len(bases) + scalars + Len(fields) # 0
  PROVE  LaidOut(cs, Len(cs), LaidBases(cs, bases),
                 LaidFields(cs, bases, scalars, fields),
                 FieldAt(cs, bases, scalars, fields, Len(fields) + 1))
<1>1. PICK n, p, q : n = Len(cs) /\ p = Len(bases) /\ q = Len(fields)
  OBVIOUS
<1>2. /\ n \in Nat /\ p \in Nat /\ q \in Nat
      /\ DOMAIN bases = 1 .. p /\ DOMAIN fields = 1 .. q
      /\ \A i \in 1 .. p : bases[i] \in 1 .. n
      /\ \A i \in 1 .. q : fields[i] \in FieldType(cs)
  BY <1>1
<1>3. \A c \in 1 .. n : cs[c].size \in Nat \ {0}
  BY <1>1 DEF ClassInv, WellFormed
<1>4. PICK x : x = BaseSizes(cs, bases)
  OBVIOUS
<1>5. /\ x \in Seq(Nat) /\ Len(x) = p
      /\ \A i \in 1 .. p : x[i] = cs[bases[i]].size /\ x[i] \in Nat \ {0}
  <2>1. x = [i \in 1 .. p |-> cs[bases[i]].size]
    BY <1>1, <1>4 DEF BaseSizes
  <2>2. x \in [1 .. p -> Nat] /\ \A i \in 1 .. p : x[i] = cs[bases[i]].size
    BY <1>2, <1>3, <2>1
  <2> QED
    BY <1>2, <1>3, <2>2
<1>6. PICK y : y = FieldSizes(cs, fields)
  OBVIOUS
<1>7. /\ y \in Seq(Nat) /\ Len(y) = q
      /\ \A i \in 1 .. q : y[i] = fields[i].count * cs[fields[i].class].size
                           /\ y[i] \in Nat \ {0}
  <2>1. y = [i \in 1 .. q |-> fields[i].count * cs[fields[i].class].size]
    BY <1>1, <1>6 DEF FieldSizes
  <2>2. \A i \in 1 .. q : fields[i].count * cs[fields[i].class].size \in Nat \ {0}
    <3> SUFFICES ASSUME NEW i \in 1 .. q
                 PROVE  fields[i].count * cs[fields[i].class].size \in Nat \ {0}
      OBVIOUS
    <3>1. PICK a, b : a = fields[i].count /\ b = cs[fields[i].class].size
      OBVIOUS
    <3>2. a \in Nat \ {0} /\ b \in Nat \ {0}
      BY <1>1, <1>2, <1>3, <3>1 DEF FieldType
    <3>3. a * b \in Nat /\ a * b # 0
      BY <3>2
    <3> QED
      BY <3>1, <3>3
  <2>3. y \in [1 .. q -> Nat]
    BY <2>1, <2>2
  <2>4. y \in Seq(Nat) /\ Len(y) = q
    BY <1>2, <2>3
  <2>5. \A i \in 1 .. q : y[i] = fields[i].count * cs[fields[i].class].size
    BY <2>1
  <2>6. \A i \in 1 .. q : y[i] \in Nat \ {0}
    <3> SUFFICES ASSUME NEW i \in 1 .. q PROVE y[i] \in Nat \ {0}
      OBVIOUS
    <3>1. PICK v : v = fields[i].count * cs[fields[i].class].size
      OBVIOUS
    <3>2. v \in Nat \ {0}
      BY <2>2, <3>1
    <3> QED
      BY <2>5, <3>1, <3>2
  <2> QED
    BY <2>4, <2>5, <2>6
<1>8. PICK endOfBases, endOfFields :
        endOfBases = Start(x, p + 1) /\ endOfFields = Start(y, q + 1)
  OBVIOUS
<1>9. /\ endOfBases \in Nat
      /\ \A i \in 1 .. p : Start(x, i) \in Nat /\ Start(x, i) + x[i] <= endOfBases
  <2>1. /\ \A i \in 1 .. Len(x) + 1 : Start(x, i) \in Nat
        /\ \A i \in 1 .. Len(x) : Start(x, i) + x[i] <= Start(x, Len(x) + 1)
    BY <1>5, PartsAreLaidOut
  <2>2. Len(x) = p
    BY <1>5
  <2>3. /\ \A i \in 1 .. p + 1 : Start(x, i) \in Nat
        /\ \A i \in 1 .. p : Start(x, i) + x[i] <= endOfBases
    BY <1>8, <2>1, <2>2
  <2>4. p + 1 \in 1 .. p + 1 /\ \A i \in 1 .. p : i \in 1 .. p + 1
    BY <1>2
  <2> QED
    BY <1>8, <2>3, <2>4
<1>10. /\ endOfFields \in Nat
       /\ \A i \in 1 .. q : Start(y, i) \in Nat /\ Start(y, i) + y[i] <= endOfFields
  <2>1. /\ \A i \in 1 .. Len(y) + 1 : Start(y, i) \in Nat
        /\ \A i \in 1 .. Len(y) : Start(y, i) + y[i] <= Start(y, Len(y) + 1)
    BY <1>7, PartsAreLaidOut
  <2>2. Len(y) = q
    BY <1>7
  <2>3. /\ \A i \in 1 .. q + 1 : Start(y, i) \in Nat
        /\ \A i \in 1 .. q : Start(y, i) + y[i] <= endOfFields
    BY <1>8, <2>1, <2>2
  <2>4. q + 1 \in 1 .. q + 1 /\ \A i \in 1 .. q : i \in 1 .. q + 1
    BY <1>2
  <2> QED
    BY <1>8, <2>3, <2>4
<1>11. PICK size : size = FieldAt(cs, bases, scalars, fields, Len(fields) + 1)
  OBVIOUS
<1>12. PICK own : own = scalars * ScalarSize
  OBVIOUS
<1>13. own \in Nat /\ (scalars # 0 => own # 0)
  BY <1>12, ScalarAssumption
<1>14. size = endOfBases + own + endOfFields
  BY <1>1, <1>4, <1>6, <1>8, <1>11, <1>12 DEF FieldAt, BaseAt
<1>15. size \in Nat \ {0}
  <2>1. CASE p # 0
    <3>1. 1 \in 1 .. p
      BY <1>2, <2>1
    <3>2. Start(x, 1) \in Nat /\ Start(x, 1) + x[1] <= endOfBases /\ x[1] \in Nat \ {0}
      BY <1>5, <1>9, <3>1
    <3> QED
      BY <1>9, <1>10, <1>13, <1>14, <3>2
  <2>2. CASE q # 0
    <3>1. 1 \in 1 .. q
      BY <1>2, <2>2
    <3>2. Start(y, 1) \in Nat /\ Start(y, 1) + y[1] <= endOfFields /\ y[1] \in Nat \ {0}
      BY <1>7, <1>10, <3>1
    <3> QED
      BY <1>9, <1>10, <1>13, <1>14, <3>2
  <2>3. CASE scalars # 0
    BY <1>9, <1>10, <1>13, <1>14, <2>3
  <2> QED
    BY <1>1, <1>2, <2>1, <2>2, <2>3
<1>16. ASSUME NEW b \in LaidBases(cs, bases)
       PROVE  /\ b.class \in 1 .. n /\ b.offset \in Nat
              /\ b.offset + cs[b.class].size <= size
  <2>1. PICK i \in 1 .. p : b = [class |-> bases[i], offset |-> BaseAt(cs, bases, i)]
    BY <1>2 DEF LaidBases
  <2>2. b.class = bases[i] /\ b.offset = Start(x, i)
    BY <1>4, <2>1 DEF BaseAt
  <2>3. /\ Start(x, i) \in Nat /\ Start(x, i) + x[i] <= endOfBases
        /\ x[i] = cs[bases[i]].size /\ x[i] \in Nat /\ bases[i] \in 1 .. n
    BY <1>2, <1>5, <1>9
  <2>4. Start(x, i) + x[i] <= size
    <3>1. PICK v \in Nat : v = Start(x, i) + x[i]
      BY <2>3
    <3>2. v <= endOfBases
      BY <2>3, <3>1
    <3>3. v <= size
      BY <1>9, <1>10, <1>13, <1>14, <3>2
    <3> QED
      BY <3>1, <3>3
  <2> QED
    BY <2>2, <2>3, <2>4
<1>17. ASSUME NEW f \in LaidFields(cs, bases, scalars, fields)
       PROVE  /\ f.class \in 1 .. n /\ f.count \in Nat \ {0} /\ f.named \in BOOLEAN
              /\ f.offset \in Nat
              /\ f.offset + f.count * cs[f.class].size <= size
  <2>1. PICK i \in 1 .. q :
          f = [class |-> fields[i].class, count |-> fields[i].count,
               named |-> fields[i].named,
               offset |-> FieldAt(cs, bases, scalars, fields, i)]
    BY <1>2 DEF LaidFields
  <2>2. /\ f.class = fields[i].class /\ f.count = fields[i].count
        /\ f.named = fields[i].named
        /\ f.offset = endOfBases + own + Start(y, i)
    BY <1>1, <1>4, <1>6, <1>8, <1>12, <2>1 DEF FieldAt, BaseAt
  <2>3. /\ Start(y, i) \in Nat /\ Start(y, i) + y[i] <= endOfFields /\ y[i] \in Nat
        /\ y[i] = f.count * cs[f.class].size
    BY <1>7, <1>10, <2>2
  <2>4. f.offset \in Nat /\ f.offset + y[i] <= size
    BY <1>9, <1>10, <1>13, <1>14, <2>2, <2>3
  <2>5. f.class \in 1 .. n /\ f.count \in Nat \ {0} /\ f.named \in BOOLEAN
    BY <1>1, <1>2, <2>2 DEF FieldType
  <2> QED
    BY <2>3, <2>4, <2>5
<1> QED
  BY <1>1, <1>2, <1>11, <1>15, <1>16, <1>17 DEF LaidOut

\* What the definition of a class adds to the program.
LEMMA DefineAdds ==
  ASSUME NEW cs, Len(cs) \in Nat, NEW bases, NEW scalars, NEW fields, NEW cx,
         \A c \in 1 .. Len(cs) : cx[c] = cs[c],
         cx[Len(cs) + 1] = Class(cs, bases, scalars, fields)
  PROVE  IsNext(cx, cs, Len(cs), LaidBases(cs, bases),
                LaidFields(cs, bases, scalars, fields),
                FieldAt(cs, bases, scalars, fields, Len(fields) + 1))
<1>1. PICK n, B, F, size :
        /\ n = Len(cs) /\ B = LaidBases(cs, bases)
        /\ F = LaidFields(cs, bases, scalars, fields)
        /\ size = FieldAt(cs, bases, scalars, fields, Len(fields) + 1)
  OBVIOUS
<1>2. Class(cs, bases, scalars, fields) =
        [size |-> size, ancestors |-> AllBases(cs, B),
         inside |-> Subobjects(cs, n + 1, B, F), contains |-> ContainVec(cs, B, F),
         hashes |-> HashVec(cs, n + 1, B, size),
         needs |-> Needed(cs, n + 1, ContainVec(cs, B, F))]
  BY <1>1 DEF Class
<1>3. IsNext(cx, cs, n, B, F, size)
  BY <1>1, <1>2 DEF IsNext
<1> QED
  BY <1>1, <1>3

-----------------------------------------------------------------------------
(* The inductive invariant *)

ClassType ==
  [size : Nat, ancestors : SUBSET Nat,
   inside : SUBSET [class : Nat, offset : Nat, inField : BOOLEAN, hidden : BOOLEAN],
   contains : SUBSET [offset : Nat, size : Nat, table : Nat],
   hashes : SUBSET [type : Nat, same : BOOLEAN],
   needs : SUBSET Nat]

\* The program is well made,
ProgramInv ==
  /\ scope \in Scopes /\ classes \in Seq(ClassType)
  /\ \A c \in 1 .. Len(classes) : ClassInv(classes, c)

\* the runtime knows the object it has,
ObjectInv ==
  object # NoObject =>
    /\ object.class \in 1 .. Len(classes)
    /\ \/ object.num = 0 /\ object.first = 0 /\ object.length = 1
       \/ /\ object.num \in Nat \ {0} /\ object.length = object.num
          /\ object.first \in Cookies
          /\ object.requested = object.num * classes[object.class].size + object.first

\* and the verdict is the one the tables give for a pointer to a subobject.
PointerBefore ==
  object.first + cast.element * classes[object.class].size + cast.from.offset

CastInv ==
  Asked =>
    /\ object # NoObject /\ cast.element \in 0 .. object.length - 1
    /\ cast.from \in Inside /\ cast.target \in DownCasts(classes, cast.from.class)
    /\ cast.verdict =
         Verdict(tables, PointerBefore,
                 PointerBefore - BaseOffset(classes, cast.target, cast.from.class),
                 cast.target)

CheckInv == ProgramInv /\ TypeOK /\ ObjectInv /\ CastInv

LEMMA CheckInvInit == Init => CheckInv
<1> SUFFICES ASSUME Init PROVE CheckInv
  OBVIOUS
<1>1. ProgramInv
  BY DEF Init, ProgramInv
<1>2. object = NoObject /\ ~Asked
  BY DEF Init, Asked
<1>3. TypeOK
  BY <1>2 DEF Init, TypeOK
<1> QED
  BY <1>1, <1>2, <1>3 DEF CheckInv, ObjectInv, CastInv

\* A new class keeps the program well made.
LEMMA ProgramGrows ==
  ASSUME CheckInv, NEW bases \in SeqsUpTo(Classes, MaxParts), NEW scalars \in 0 .. 1,
         NEW fields \in SeqsUpTo(FieldsInScope, MaxParts - Len(bases)),
         Define(bases, scalars, fields)
  PROVE  /\ ProgramInv' /\ Len(classes') = Len(classes) + 1
         /\ \A c \in 1 .. Len(classes) : classes'[c] = classes[c]
<1>1. /\ scope \in Scopes /\ classes \in Seq(ClassType) /\ Len(classes) \in Nat
      /\ Classes = 1 .. Len(classes)
      /\ \A c \in 1 .. Len(classes) : ClassInv(classes, c)
  BY DEF CheckInv, ProgramInv, Classes
<1>2. bases \in Seq(1 .. Len(classes))
  BY <1>1, BoundsAssumption DEF SeqsUpTo
<1>3. FieldsInScope \subseteq FieldType(classes)
  BY <1>1, BoundsAssumption DEF FieldsInScope, FieldType
<1>4. fields \in Seq(FieldType(classes))
  <2>1. Len(bases) \in Nat
    BY <1>2
  <2>2. PICK k \in Nat : fields \in [1 .. k -> FieldsInScope]
    BY <2>1, BoundsAssumption DEF SeqsUpTo
  <2> QED
    BY <1>3, <2>2
<1>5. Len(bases) + scalars + Len(fields) # 0 /\ scalars \in Nat
  BY <1>2, <1>4 DEF Define
<1>6. PICK n, B, F, size, k :
        /\ n = Len(classes) /\ B = LaidBases(classes, bases)
        /\ F = LaidFields(classes, bases, scalars, fields)
        /\ size = FieldAt(classes, bases, scalars, fields, Len(fields) + 1)
        /\ k = Class(classes, bases, scalars, fields)
  OBVIOUS
<1>7. LaidOut(classes, n, B, F, size)
  BY <1>1, <1>2, <1>4, <1>5, <1>6, ClassIsLaidOut
<1>8. classes' = Append(classes, k) /\ scope' = scope
  BY <1>6 DEF Define
<1>9. /\ Len(classes') = n + 1 /\ \A c \in 1 .. n : classes'[c] = classes[c]
      /\ classes'[n + 1] = k
  BY <1>1, <1>6, <1>8
<1>10. IsNext(classes', classes, n, B, F, size)
  BY <1>1, <1>6, <1>9, DefineAdds
<1>11. \A c \in 1 .. n + 1 : ClassInv(classes', c)
  BY <1>7, <1>10, NextClass
<1>12. k \in ClassType
  <2>1. n \in Nat /\ ClassInv(classes', n + 1)
    BY <1>1, <1>6, <1>11
  <2>2. /\ k.size \in Nat /\ k.ancestors \subseteq 1 .. n + 1
        /\ k.inside \subseteq PartType(n + 1) /\ k.contains \subseteq EntryType(n + 1)
        /\ k.needs \subseteq 1 .. n + 1
    BY <1>9, <2>1 DEF ClassInv, WellFormed, NeedsAreClosed
  <2>3. 1 .. n + 1 \subseteq Nat
    BY <2>1
  <2>4. k.ancestors \subseteq Nat /\ k.needs \subseteq Nat
    BY <2>2, <2>3
  <2>5. k.inside \subseteq [class : Nat, offset : Nat, inField : BOOLEAN, hidden : BOOLEAN]
    BY <2>2, <2>3 DEF PartType
  <2>6. k.contains \subseteq [offset : Nat, size : Nat, table : Nat]
    BY <2>1, <2>2 DEF EntryType
  <2>7. k.hashes \subseteq [type : Nat, same : BOOLEAN]
    <3>1. k.hashes =
            {[type |-> n + 1, same |-> FALSE]} \cup
            {[type |-> b, same |-> classes'[b].size = k.size] : b \in k.ancestors}
      BY <1>9, <2>1 DEF ClassInv, HashesAreRight
    <3>2. \A b \in Nat, v \in BOOLEAN :
            [type |-> b, same |-> v] \in [type : Nat, same : BOOLEAN]
      OBVIOUS
    <3> DEFINE Same(b) == classes'[b].size = k.size
    <3>3. \A b : Same(b) \in BOOLEAN
      BY Zenon
    <3>4. k.hashes = {[type |-> n + 1, same |-> FALSE]} \cup
                     {[type |-> b, same |-> Same(b)] : b \in k.ancestors}
      BY <3>1
    <3>5. \A b \in k.ancestors :
            [type |-> b, same |-> Same(b)] \in [type : Nat, same : BOOLEAN]
      <4> HIDE DEF Same
      <4> QED
        BY <2>4, <3>2, <3>3
    <3>6. [type |-> n + 1, same |-> FALSE] \in [type : Nat, same : BOOLEAN]
      BY <2>1
    <3> HIDE DEF Same
    <3> QED
      BY <3>4, <3>5, <3>6
  <2>8. k = [size |-> k.size, ancestors |-> k.ancestors, inside |-> k.inside,
             contains |-> k.contains, hashes |-> k.hashes, needs |-> k.needs]
    BY <1>6 DEF Class
  <2> QED
    BY <2>2, <2>4, <2>5, <2>6, <2>7, <2>8 DEF ClassType
<1>13. classes' \in Seq(ClassType)
  BY <1>1, <1>8, <1>12
<1> QED
  BY <1>1, <1>6, <1>8, <1>9, <1>11, <1>13 DEF ProgramInv

\* An object is created, of any class that is defined.
LEMMA RecordKeeps ==
  ASSUME CheckInv, NEW c \in Classes, NEW n, NEW requested, NEW first, NEW length,
         Record(c, n, requested, first, length)
  PROVE  ProgramInv' /\ TypeOK' /\ ~Asked'
<1>1. /\ ~Asked /\ cast' = cast /\ classes' = classes /\ scope' = scope
      /\ tables' = tables \cup classes[c].needs /\ object'.class = c
  BY DEF CheckInv, CastInv, Record
<1>2. /\ Classes = 1 .. Len(classes) /\ Len(classes) \in Nat
      /\ ClassInv(classes, c)
  BY DEF CheckInv, ProgramInv, Classes
<1>3. /\ c \in classes[c].needs /\ classes[c].needs \subseteq 1 .. c
      /\ \A t \in classes[c].needs : \A e \in classes[t].contains :
           e.table \in classes[c].needs
  BY <1>2 DEF ClassInv, NeedsAreClosed
<1>4. ~Asked'
  BY <1>1 DEF Asked
<1>5. ProgramInv'
  BY <1>1 DEF CheckInv, ProgramInv
<1>6. Classes' = Classes
  BY <1>1 DEF Classes
<1>7. TypeOK'
  <2>1. tables' \subseteq Classes
    BY <1>1, <1>2, <1>3 DEF CheckInv, TypeOK
  <2>2. \A t \in tables' : \A e \in classes[t].contains : e.table \in tables'
    BY <1>1, <1>3 DEF CheckInv, TypeOK
  <2> QED
    BY <1>1, <1>3, <1>4, <1>6, <2>1, <2>2 DEF TypeOK
<1> QED
  BY <1>4, <1>5, <1>7

\* The two ways to a good verdict.
LEMMA VerdictIs ==
  ASSUME NEW tbl, NEW before, NEW after, NEW target
  PROVE  Verdict(tbl, before, after, target) =
           IF ~SizeCheckHolds THEN "check failed"
           ELSE IF \/ target \in MatchedAt(tbl, after, ElementBase(before))
                   \/ \E h \in classes[target].hashes :
                        /\ IsTried(h)
                        /\ h.type \in MatchedAt(tbl, before, ElementBase(before))
                  THEN "good" ELSE "bad"
<1> DEFINE base == ElementBase(before)
<1> DEFINE good == target \in MatchedAt(tbl, after, base)
<1> DEFINE tried == {h.type : h \in {g \in classes[target].hashes : IsTried(g)}}
<1> DEFINE other == tried \cap MatchedAt(tbl, before, base) # {}
<1>1. Verdict(tbl, before, after, target) =
        CASE ~SizeCheckHolds -> "check failed"
          [] SizeCheckHolds /\ good -> "good"
          [] SizeCheckHolds /\ ~good -> IF other THEN "good" ELSE "bad"
  BY Zenon DEF Verdict
<1>2. other <=> \E h \in classes[target].hashes :
                  IsTried(h) /\ h.type \in MatchedAt(tbl, before, base)
  OBVIOUS
<1> HIDE DEF other, good
<1>3. Verdict(tbl, before, after, target) =
        IF ~SizeCheckHolds THEN "check failed"
        ELSE IF good \/ other THEN "good" ELSE "bad"
  BY <1>1
<1> QED
  BY <1>2, <1>3 DEF good

\* A cast names the table of its target, and nothing else changes.
LEMMA CastKeeps ==
  ASSUME CheckInv, object # NoObject, NEW i \in 0 .. object.length - 1,
         NEW s \in classes[object.class].inside, NEW t \in DownCasts(classes, s.class),
         Cast(i, s, t)
  PROVE  CheckInv'
<1>1. PICK before, after :
        /\ before = object.first + i * classes[object.class].size + s.offset
        /\ after = before - BaseOffset(classes, t, s.class)
  OBVIOUS
<1>2. /\ classes' = classes /\ scope' = scope /\ object' = object
      /\ tables' = tables \cup classes[t].needs
      /\ cast' = [element |-> i, from |-> s, target |-> t,
                  verdict |-> Verdict(tables', before, after, t)]
  BY <1>1 DEF Cast
<1>3. /\ Classes = 1 .. Len(classes) /\ Len(classes) \in Nat
      /\ object.class \in 1 .. Len(classes) /\ s.class \in Nat
  BY DEF CheckInv, ProgramInv, ObjectInv, Classes, ClassInv, WellFormed, PartType
<1>4. t \in 1 .. Len(classes) /\ ClassInv(classes, t)
  BY <1>3 DEF CheckInv, ProgramInv, DownCasts
<1>5. /\ t \in classes[t].needs /\ classes[t].needs \subseteq 1 .. t
      /\ \A u \in classes[t].needs : \A e \in classes[u].contains :
           e.table \in classes[t].needs
  BY <1>4 DEF ClassInv, NeedsAreClosed
<1>6. ProgramInv'
  BY <1>2 DEF CheckInv, ProgramInv
<1>7. ObjectInv'
  BY <1>2 DEF CheckInv, ObjectInv
<1>8. Classes' = Classes
  BY <1>2 DEF Classes
<1>9. TypeOK'
  <2>1. tables' \subseteq Classes
    <3>1. 1 .. t \subseteq Classes
      BY <1>3, <1>4
    <3> QED
      BY <1>2, <1>5, <3>1 DEF CheckInv, TypeOK
  <2>2. \A u \in tables' : \A e \in classes[u].contains : e.table \in tables'
    BY <1>2, <1>5 DEF CheckInv, TypeOK
  <2>3. object.class \in tables' /\ cast'.target \in tables'
    BY <1>2, <1>5 DEF CheckInv, TypeOK
  <2> QED
    BY <1>2, <1>8, <2>1, <2>2, <2>3 DEF TypeOK
<1>10. CastInv'
  <2>1. PointerBefore' = before /\ Inside' = Inside
    BY <1>1, <1>2 DEF PointerBefore, Inside
  <2>2. ASSUME NEW tbl PROVE Verdict(tbl, before, after, t)' = Verdict(tbl, before, after, t)
    BY <1>2 DEF Verdict, MatchedAt, SizeCheckHolds, ElementBase, IsTried
  <2> QED
    BY <1>1, <1>2, <2>1, <2>2 DEF CastInv, Inside
<1> QED
  BY <1>6, <1>7, <1>9, <1>10 DEF CheckInv

LEMMA CheckInvStep == CheckInv /\ [Next]_vars => CheckInv'
<1> SUFFICES ASSUME CheckInv, [Next]_vars PROVE CheckInv'
  OBVIOUS
<1>1. ASSUME NEW bases \in SeqsUpTo(Classes, MaxParts), NEW scalars \in 0 .. 1,
             NEW fields \in SeqsUpTo(FieldsInScope, MaxParts - Len(bases)),
             Define(bases, scalars, fields)
      PROVE  CheckInv'
  <2>1. /\ object = NoObject /\ object' = object /\ cast' = cast /\ tables' = tables
        /\ ~Asked
    BY <1>1 DEF Define, CheckInv, CastInv
  <2>2. /\ ProgramInv' /\ Len(classes') = Len(classes) + 1
        /\ \A c \in 1 .. Len(classes) : classes'[c] = classes[c]
    BY <1>1, ProgramGrows
  <2>3. /\ Len(classes) \in Nat /\ Classes = 1 .. Len(classes)
        /\ Classes' = 1 .. Len(classes')
    BY <2>2 DEF CheckInv, ProgramInv, Classes
  <2>4. TypeOK'
    <3>1. tables \subseteq Classes /\ Classes \subseteq Classes'
      BY <2>2, <2>3 DEF CheckInv, TypeOK
    <3>2. \A t \in tables : \A e \in classes'[t].contains : e.table \in tables
      BY <2>2, <2>3, <3>1 DEF CheckInv, TypeOK
    <3> QED
      BY <2>1, <3>1, <3>2 DEF TypeOK, Asked
  <2>5. ObjectInv' /\ CastInv'
    BY <2>1 DEF ObjectInv, CastInv, Asked, NoObject
  <2> QED
    BY <2>2, <2>4, <2>5 DEF CheckInv
<1>2. ASSUME NEW c \in Classes, CreateOne(c) PROVE CheckInv'
  <2>1. ProgramInv' /\ TypeOK' /\ ~Asked'
    BY <1>2, RecordKeeps DEF CreateOne
  <2>2. object'.class = c /\ object'.num = 0 /\ object'.first = 0
        /\ object'.length = 1 /\ classes' = classes
    BY <1>2 DEF CreateOne, Record
  <2>3. ObjectInv'
    BY <2>2 DEF ObjectInv, Classes, CheckInv, ProgramInv
  <2> QED
    BY <2>1, <2>3 DEF CheckInv, CastInv
<1>3. ASSUME NEW c \in Classes, NEW n \in scope.lengths, NEW k \in Cookies,
             CreateArray(c, n, k)
      PROVE  CheckInv'
  <2>1. ProgramInv' /\ TypeOK' /\ ~Asked'
    BY <1>3, RecordKeeps DEF CreateArray
  <2>2. /\ object'.class = c /\ object'.num = n /\ object'.first = k
        /\ object'.length = n /\ object'.requested = n * classes[c].size + k
        /\ classes' = classes
    BY <1>3 DEF CreateArray, Record, NumElements
  <2>3. n \in Nat \ {0}
    BY BoundsAssumption DEF CheckInv, ProgramInv
  <2>4. ObjectInv'
    BY <2>2, <2>3 DEF ObjectInv, Classes, CheckInv, ProgramInv
  <2> QED
    BY <2>1, <2>4 DEF CheckInv, CastInv
<1>4. CASE \E i \in 0 .. object.length - 1, s \in classes[object.class].inside :
             \E t \in DownCasts(classes, s.class) : object # NoObject /\ Cast(i, s, t)
  BY <1>4, CastKeeps
<1>5. CASE Return
  <2>1. /\ ~Asked' /\ scope' = scope /\ classes' = classes /\ tables' = tables
        /\ object' = object
    BY <1>5 DEF Return, Asked
  <2> QED
    BY <2>1 DEF CheckInv, ProgramInv, TypeOK, ObjectInv, CastInv, Classes
<1>6. CASE UNCHANGED vars
  <2>1. /\ scope' = scope /\ classes' = classes /\ tables' = tables
        /\ object' = object /\ cast' = cast
    BY <1>6 DEF vars
  <2>2. ProgramInv' /\ TypeOK' /\ ObjectInv'
    BY <2>1 DEF CheckInv, ProgramInv, TypeOK, ObjectInv, Asked, Classes
  <2>3. CastInv'
    <3>1. PointerBefore' = PointerBefore /\ Inside' = Inside /\ Asked' = Asked
      BY <2>1 DEF PointerBefore, Inside, Asked
    <3>2. ASSUME NEW before, NEW after
          PROVE  Verdict(tables, before, after, cast.target)'
                   = Verdict(tables, before, after, cast.target)
      BY <2>1 DEF Verdict, MatchedAt, SizeCheckHolds, ElementBase, IsTried
    <3>3. CastInv
      BY DEF CheckInv
    <3>4. PICK before, after :
            /\ before = PointerBefore
            /\ after = before - BaseOffset(classes, cast.target, cast.from.class)
      OBVIOUS
    <3>5. Verdict(tables, before, after, cast.target)'
            = Verdict(tables, before, after, cast.target)
      BY <3>2
    <3> QED
      BY <2>1, <3>1, <3>3, <3>4, <3>5 DEF CastInv
  <2> QED
    BY <2>2, <2>3 DEF CheckInv
<1> QED
  BY <1>1, <1>2, <1>3, <1>4, <1>5, <1>6 DEF Next

LEMMA CheckInvAlways == Spec => []CheckInv
BY CheckInvInit, CheckInvStep, PTL DEF Spec

\* The compiler generates the tables of a class together with those of everything
\* it contains, so the runtime never misses one.
THEOREM TypeCorrect == Spec => []TypeOK
<1>1. CheckInv => TypeOK
  BY DEF CheckInv
<1> QED
  BY <1>1, CheckInvAlways, PTL

-----------------------------------------------------------------------------
(* Where the pointer is, and what is found there *)

\* The cookie of an array shifts its elements, and the check does not know.
NoCookie == object # NoObject => object.first = 0

\* Where the pointer is in the object, and what is known of the classes.
LEMMA CastFacts ==
  ASSUME CheckInv, Asked
  PROVE  /\ object.class \in 1 .. Len(classes) /\ object.class \in tables
         /\ classes[object.class].size \in Nat \ {0}
         /\ cast.from \in Inside /\ BeforeAt \in Nat
         /\ BeforeAt < classes[object.class].size
         /\ cast.from.class \in 1 .. Len(classes)
         /\ cast.target \in tables
         /\ cast.target \in 1 .. Len(classes) /\ cast.from.class # cast.target
         /\ cast.element \in Nat /\ cast.element <= object.length - 1
<1>1. object # NoObject /\ object.class \in 1 .. Len(classes)
  BY DEF CheckInv, CastInv, ObjectInv
<1>2. Len(classes) \in Nat /\ \A c \in 1 .. Len(classes) : ClassInv(classes, c)
  BY DEF CheckInv, ProgramInv
<1>3. classes[object.class].size \in Nat \ {0}
  BY <1>1, <1>2 DEF ClassInv, WellFormed
<1>4. cast.from \in classes[object.class].inside
  BY DEF CheckInv, CastInv, Inside
<1>5. /\ cast.from \in PartType(object.class)
      /\ cast.from.offset + classes[cast.from.class].size <= classes[object.class].size
  BY <1>1, <1>2, <1>4 DEF ClassInv, WellFormed, PartsFit
<1>6. cast.from.class \in 1 .. Len(classes) /\ cast.from.offset \in Nat
  BY <1>1, <1>2, <1>5 DEF PartType
<1>7. classes[cast.from.class].size \in Nat \ {0}
  BY <1>2, <1>6 DEF ClassInv, WellFormed
<1>8. BeforeAt \in Nat /\ BeforeAt < classes[object.class].size
  BY <1>3, <1>5, <1>6, <1>7 DEF BeforeAt
<1>9. cast.target \in cast.from.class + 1 .. Len(classes)
  BY DEF CheckInv, CastInv, DownCasts
<1>10. cast.target \in 1 .. Len(classes) /\ cast.from.class # cast.target
  BY <1>2, <1>6, <1>9
<1>11. object.length \in Nat /\ cast.element \in 0 .. object.length - 1
  BY <1>1 DEF CheckInv, CastInv, ObjectInv
<1>12. object.class \in tables /\ cast.target \in tables
  BY <1>1 DEF CheckInv, TypeOK
<1> QED
  BY <1>1, <1>3, <1>4, <1>6, <1>8, <1>10, <1>11, <1>12 DEF Inside

\* The base that a cast goes down from is one of the target, at some offset.
LEMMA BaseIsThere ==
  ASSUME CheckInv, Asked
  PROVE  /\ cast.from.class \in classes[cast.target].ancestors
         /\ BaseOffset(classes, cast.target, cast.from.class) \in Nat
<1>1. PICK t, b : t = cast.target /\ b = cast.from.class
  OBVIOUS
<1>2. t \in 1 .. Len(classes) /\ b # t /\ Len(classes) \in Nat
  BY <1>1, CastFacts DEF CheckInv, ProgramInv
<1>3. ClassInv(classes, t)
  BY <1>2 DEF CheckInv, ProgramInv
<1>4. Cardinality(BaseOffsets(classes, t, b)) = 1
  BY <1>1 DEF CheckInv, CastInv, DownCasts
<1>5. BaseOffsets(classes, t, b) # {}
  BY <1>4, FS_EmptySet
<1>6. BaseOffset(classes, t, b) \in BaseOffsets(classes, t, b)
  BY <1>5, Zenon DEF BaseOffset
<1>7. PICK s \in classes[t].inside :
         /\ s.class = b /\ ~s.inField /\ BaseOffset(classes, t, b) = s.offset
  BY <1>6, Zenon DEF BaseOffsets
<1>8. s.offset \in Nat /\ s.class \in Lineage(classes, t)
  BY <1>3, <1>7 DEF ClassInv, WellFormed, PartType, PartsFit
<1> QED
  BY <1>1, <1>2, <1>7, <1>8 DEF Lineage

\* Without a cookie the start of the element is found.
LEMMA ElementIsFound ==
  ASSUME CheckInv, Asked, NoCookie
  PROVE  /\ SizeCheckHolds
         /\ PointerBefore - ElementBase(PointerBefore) = BeforeAt
         /\ PointerBefore - BaseOffset(classes, cast.target, cast.from.class)
              - ElementBase(PointerBefore) = AfterAt
         /\ BeforeAt \in Int /\ AfterAt \in Int
<1>1. PICK size, d, i, n, k :
        /\ size = classes[object.class].size /\ d = BeforeAt /\ i = cast.element
        /\ n = object.num /\ k = BaseOffset(classes, cast.target, cast.from.class)
  OBVIOUS
<1>2. /\ size \in Nat \ {0} /\ d \in Nat /\ d < size /\ i \in Nat /\ k \in Nat
      /\ i <= object.length - 1
  BY <1>1, CastFacts, BaseIsThere
<1>3. object # NoObject /\ object.first = 0
  BY DEF CheckInv, CastInv, NoCookie
<1>4. PICK m \in Nat : m = i * size
  BY <1>2
<1>5. PointerBefore = m + d
  BY <1>1, <1>2, <1>3, <1>4 DEF PointerBefore, BeforeAt
<1>6. CASE n = 0 /\ object.length = 1
  <2>1. i = 0 /\ m = 0
    BY <1>2, <1>4, <1>6
  <2>2. SizeCheckHolds /\ ElementBase(PointerBefore) = 0
    BY <1>1, <1>6 DEF SizeCheckHolds, ElementBase
  <2> QED
    BY <1>1, <1>2, <1>5, <2>1, <2>2 DEF AfterAt
<1>7. CASE n \in Nat \ {0} /\ object.requested = n * size
  <2>1. (size * n + 0) \div n = size /\ (size * n + 0) % n = 0
    <3>1. size \in Nat /\ 0 \in Nat /\ n \in Nat /\ 0 < n
      BY <1>2, <1>7
    <3> QED
      BY <3>1, Division
  <2>2. object.requested = size * n + 0
    BY <1>2, <1>7
  <2>3. object.requested \div n = size /\ object.requested % n = 0
    BY <2>1, <2>2
  <2>4. (i * size + d) % size = d
    BY <1>2, Division
  <2>5. (m + d) % size = d
    BY <1>4, <2>4
  <2>6. ElementBase(PointerBefore) = (m + d) - d
    <3>1. n # 0
      BY <1>7
    <3>2. ElementBase(PointerBefore) =
            PointerBefore - (PointerBefore % (object.requested \div n))
      BY <1>1, <3>1, Zenon DEF ElementBase
    <3> QED
      BY <1>5, <2>3, <2>5, <3>2, Zenon
  <2>7. SizeCheckHolds
    BY <1>1, <2>3 DEF SizeCheckHolds
  <2> QED
    BY <1>1, <1>2, <1>5, <2>6, <2>7 DEF AfterAt
<1>8. \/ n = 0 /\ object.length = 1
      \/ n \in Nat \ {0} /\ object.requested = n * size
  <2>1. n * size + 0 = n * size \/ n \notin Nat
    BY <1>2
  <2> QED
    BY <1>1, <1>3, <2>1 DEF CheckInv, ObjectInv
<1> QED
  BY <1>6, <1>7, <1>8

\* So the verdict is about the place where the pointer is.
LEMMA VerdictAtPlace ==
  ASSUME CheckInv, Asked, NoCookie
  PROVE  cast.verdict =
           IF \/ cast.target \in Matched(classes, tables, object.class, AfterAt)
              \/ \E h \in classes[cast.target].hashes :
                   /\ h.same
                   /\ h.type \in Matched(classes, tables, object.class, BeforeAt)
             THEN "good" ELSE "bad"
<1>1. PICK before, after, base :
        /\ before = PointerBefore
        /\ after = before - BaseOffset(classes, cast.target, cast.from.class)
        /\ base = ElementBase(before)
  OBVIOUS
<1>2. SizeCheckHolds /\ before - base = BeforeAt /\ after - base = AfterAt
  BY <1>1, ElementIsFound
<1>3. cast.verdict = Verdict(tables, before, after, cast.target)
  BY <1>1 DEF CheckInv, CastInv
<1>4. /\ MatchedAt(tables, after, base) =
           Matched(classes, tables, object.class, AfterAt)
      /\ MatchedAt(tables, before, base) =
           Matched(classes, tables, object.class, BeforeAt)
  BY <1>2 DEF MatchedAt
<1>5. \A h : IsTried(h) <=> h.same = TRUE
  BY DEF IsTried
<1> QED
  BY <1>1, <1>2, <1>3, <1>4, VerdictIs, Zenon DEF IsTried

\* The hash of a base that has the layout of the target, and no other, is tried.
LEMMA TriedHashes ==
  ASSUME CheckInv, Asked, NEW b
  PROVE  (\E h \in classes[cast.target].hashes : h.same /\ h.type = b) <=>
           /\ b \in classes[cast.target].ancestors
           /\ classes[b].size = classes[cast.target].size
<1>1. HashesAreRight(classes, cast.target)
  BY CastFacts DEF CheckInv, ProgramInv, ClassInv
<1> DEFINE Same(a) == classes[a].size = classes[cast.target].size
<1>2. classes[cast.target].hashes =
        {[type |-> cast.target, same |-> FALSE]} \cup
        {[type |-> a, same |-> Same(a)] : a \in classes[cast.target].ancestors}
  BY <1>1 DEF HashesAreRight
<1>3. ASSUME NEW h \in classes[cast.target].hashes, h.same, h.type = b
      PROVE  b \in classes[cast.target].ancestors /\ Same(b)
  <2>1. CASE h = [type |-> cast.target, same |-> FALSE]
    BY <1>3, <2>1, Zenon
  <2>2. ASSUME NEW a \in classes[cast.target].ancestors,
               h = [type |-> a, same |-> Same(a)]
        PROVE  b \in classes[cast.target].ancestors /\ Same(b)
    <3> HIDE DEF Same
    <3>1. h.type = a /\ h.same = Same(a)
      BY <2>2, Zenon
    <3> QED
      BY <1>3, <3>1, Zenon
  <2>3. \/ h = [type |-> cast.target, same |-> FALSE]
        \/ \E a \in classes[cast.target].ancestors : h = [type |-> a, same |-> Same(a)]
    <3> HIDE DEF Same
    <3> QED
      BY <1>2
  <2> QED
    BY <2>1, <2>2, <2>3
<1>4. ASSUME b \in classes[cast.target].ancestors, Same(b)
      PROVE  \E h \in classes[cast.target].hashes : h.same /\ h.type = b
  <2> HIDE DEF Same
  <2>1. [type |-> b, same |-> Same(b)] \in classes[cast.target].hashes
    BY <1>2, <1>4
  <2>2. [type |-> b, same |-> Same(b)].same = Same(b)
        /\ [type |-> b, same |-> Same(b)].type = b
    BY Zenon
  <2> QED
    BY <1>4, <2>1, <2>2, Zenon
<1> QED
  BY <1>3, <1>4, Zenon

\* What the check finds is there.
LEMMA FoundIsDescribed ==
  ASSUME CheckInv, Asked, NEW d \in Int, NEW t,
         t \in Matched(classes, tables, object.class, d)
  PROVE  \E s \in Inside : Describes(s, d, t)
<1>1. /\ Len(classes) \in Nat /\ object.class \in 1 .. Len(classes)
      /\ \A c \in 1 .. Len(classes) : ClassInv(classes, c)
  BY CastFacts DEF CheckInv, ProgramInv
<1>2. IsThere(classes, object.class, d, t)
  BY <1>1, MatchIsThere
<1>3. CASE t \in Lineage(classes, object.class)
  <2>1. Whole(object.class) \in Inside
    BY <1>1 DEF Inside, ClassInv, WellFormed
  <2>2. Whole(object.class).class = object.class
    BY DEF Whole
  <2>3. Describes(Whole(object.class), d, t)
    BY <1>3, <2>2 DEF Describes, Lineage
  <2> QED
    BY <2>1, <2>3
<1>4. CASE \E s \in classes[object.class].inside :
             CoversAt(classes, s, d) /\ t \in Lineage(classes, s.class)
  BY <1>4 DEF Describes, Covers, CoversAt, Lineage, Inside
<1> QED
  BY <1>2, <1>3, <1>4 DEF IsThere

-----------------------------------------------------------------------------
(* Theorems about the verdict *)

\* A cast to a derived object that is there is never reported, whatever the
\* classes of the program are, for every object that has no array cookie.
THEOREM NoFalseReports == Spec => [](NoCookie => NoFalseReport)
<1>1. ASSUME CheckInv, NoCookie, Asked, NEW s \in Inside, IsValid(s), ~s.hidden
      PROVE  cast.verdict = "good"
  <2>1. /\ Len(classes) \in Nat /\ object.class \in (1 .. Len(classes)) \cap tables
        /\ \A c \in 1 .. Len(classes) : ClassInv(classes, c)
        /\ \A t \in tables : \A e \in classes[t].contains : e.table \in tables
    BY <1>1, CastFacts DEF CheckInv, ProgramInv, TypeOK
  <2>2. Finds(classes, tables, object.class)
    BY <2>1, MatchFinds
  <2>3. cast.target \in Matched(classes, tables, object.class, AfterAt)
    BY <1>1, <2>2 DEF Finds, Inside, IsValid
  <2> QED
    BY <1>1, <2>3, VerdictAtPlace
<1>2. CheckInv => (NoCookie => NoFalseReport)
  BY <1>1 DEF NoFalseReport
<1> QED
  BY <1>2, CheckInvAlways, PTL

\* A cast to a class that adds nothing to one whose object is there is never
\* reported (empty_inherit.cc).
THEOREM EmptyInheritance == Spec => [](NoCookie => EmptyInheritIsGood)
<1>1. ASSUME CheckInv, NoCookie, Asked, ~cast.from.hidden,
             classes[cast.target].size = classes[cast.from.class].size
      PROVE  cast.verdict = "good"
  <2>1. /\ Len(classes) \in Nat /\ object.class \in (1 .. Len(classes)) \cap tables
        /\ \A c \in 1 .. Len(classes) : ClassInv(classes, c)
        /\ \A t \in tables : \A e \in classes[t].contains : e.table \in tables
    BY <1>1, CastFacts DEF CheckInv, ProgramInv, TypeOK
  <2>2. Finds(classes, tables, object.class)
    BY <2>1, MatchFinds
  <2>3. cast.from.class \in Matched(classes, tables, object.class, BeforeAt)
    BY <1>1, <2>2, CastFacts DEF Finds, Inside, BeforeAt
  <2>4. \E h \in classes[cast.target].hashes : h.same /\ h.type = cast.from.class
    BY <1>1, BaseIsThere, TriedHashes
  <2> QED
    BY <1>1, <2>3, <2>4, VerdictAtPlace
<1>2. CheckInv => (NoCookie => EmptyInheritIsGood)
  BY <1>1 DEF EmptyInheritIsGood
<1> QED
  BY <1>2, CheckInvAlways, PTL

\* A cast that is not reported is to the class, or a base, of an object that
\* covers the pointer, or to a class of the same size as such a one.
THEOREM GoodVerdicts == Spec => [](NoCookie => GoodIsNearby)
<1>1. ASSUME CheckInv, NoCookie, Asked, cast.verdict = "good"
      PROVE  GoodIsNearby
  <2>1. AfterAt \in Int /\ BeforeAt \in Int
    BY <1>1, ElementIsFound
  <2>2. CASE cast.target \in Matched(classes, tables, object.class, AfterAt)
    <3>1. \E s \in Inside : Describes(s, AfterAt, cast.target)
      BY <1>1, <2>1, <2>2, FoundIsDescribed
    <3> QED
      BY <3>1 DEF GoodIsNearby
  <2>3. ASSUME NEW h \in classes[cast.target].hashes, h.same,
               h.type \in Matched(classes, tables, object.class, BeforeAt)
        PROVE  GoodIsNearby
    <3>1. /\ h.type \in classes[cast.target].ancestors
          /\ classes[h.type].size = classes[cast.target].size
      BY <1>1, <2>3, TriedHashes
    <3>2. \E s \in Inside : Describes(s, BeforeAt, h.type)
      BY <1>1, <2>1, <2>3, FoundIsDescribed
    <3> QED
      BY <3>1, <3>2 DEF GoodIsNearby
  <2> QED
    BY <1>1, <2>2, <2>3, VerdictAtPlace
<1>2. CheckInv => (NoCookie => GoodIsNearby)
  BY <1>1 DEF GoodIsNearby
<1> QED
  BY <1>2, CheckInvAlways, PTL

\* The assertion of __cver_handle_cast fails for exactly the arrays whose cookie
\* is not a multiple of the number of their elements: for one, every array that
\* has more elements than its cookie has bytes.
CookieIsNoMultiple == object.first % object.length # 0

CheckFailsByCookie ==
  Asked => (cast.verdict = "check failed" <=> CookieIsNoMultiple)

THEOREM CookieFailsTheCheck == Spec => []CheckFailsByCookie
<1>1. ASSUME CheckInv, Asked
      PROVE  SizeCheckHolds <=> ~CookieIsNoMultiple
  <2>1. object # NoObject
    BY <1>1 DEF CheckInv, CastInv
  <2>2. CASE object.num = 0 /\ object.first = 0 /\ object.length = 1
    BY <2>2 DEF SizeCheckHolds, CookieIsNoMultiple
  <2>3. ASSUME object.num \in Nat \ {0}, object.length = object.num,
               object.first \in Cookies,
               object.requested = object.num * classes[object.class].size + object.first
        PROVE  SizeCheckHolds <=> ~CookieIsNoMultiple
    <3>1. PICK n, s, k : /\ n = object.num /\ s = classes[object.class].size
                         /\ k = object.first
      OBVIOUS
    <3>2. n \in Nat \ {0} /\ s \in Nat /\ k \in Nat
      BY <1>1, <2>3, <3>1, CastFacts, BoundsAssumption
    <3>3. PICK q, r : q = k \div n /\ r = k % n
      OBVIOUS
    <3>4. q \in Nat /\ r \in Nat /\ r < n /\ k = q * n + r
      BY <3>2, <3>3, DivisionTheorem
    <3>5. s + q \in Nat /\ ((s + q) * n + r) % n = r
      BY <3>2, <3>4, Division
    <3>6. n * s + k = (s + q) * n + r
      BY <3>2, <3>4
    <3>7. object.requested % n = r
      BY <2>3, <3>1, <3>5, <3>6
    <3> QED
      BY <2>3, <3>1, <3>2, <3>3, <3>7 DEF SizeCheckHolds, CookieIsNoMultiple
  <2> QED
    BY <1>1, <2>1, <2>2, <2>3 DEF CheckInv, ObjectInv
<1>2. ASSUME CheckInv, Asked
      PROVE  cast.verdict = "check failed" <=> ~SizeCheckHolds
  <2>1. PICK before, after :
          cast.verdict = Verdict(tables, before, after, cast.target)
    BY <1>2 DEF CheckInv, CastInv
  <2>2. SizeCheckHolds => cast.verdict \in {"good", "bad"}
    BY <2>1, VerdictIs
  <2>3. ~SizeCheckHolds => cast.verdict = "check failed"
    BY <2>1, VerdictIs
  <2> QED
    BY <2>2, <2>3
<1>3. CheckInv => CheckFailsByCookie
  BY <1>1, <1>2 DEF CheckFailsByCookie
<1> QED
  BY <1>3, CheckInvAlways, PTL
=============================================================================
