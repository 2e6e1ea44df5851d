----------------------------- MODULE CastCheck -----------------------------
(***************************************************************************)
(* What __cver_handle_cast (cver_common.cc) decides about a static_cast to *)
(* a derived class, once it has found the object the pointer is in and     *)
(* when the answer is not in the cache.                                    *)
(*                                                                         *)
(* A program is compiled class by class; then one object is created, and   *)
(* pointers to its subobjects are cast down, rightly or wrongly.  The heap *)
(* is one chunk: addresses are relative to its start.                      *)
(***************************************************************************)
EXTENDS TypeTable

CONSTANTS
  Scopes,    \* bounds on a program: see BoundsAssumption
  MaxParts,  \* bound: direct bases and members of a class
  Cookies    \* sizes of the array cookie (0: the class needs none)

\* How many classes a program has, what shapes its fields and what lengths its
\* arrays in the heap.
ASSUME BoundsAssumption ==
  /\ MaxParts \in Nat \ {0} /\ Cookies \subseteq Nat
  /\ \A s \in Scopes :
       /\ s.classes \in Nat \ {0}
       /\ s.shapes \subseteq [count : Nat \ {0}, named : BOOLEAN]
       /\ s.lengths \subseteq Nat \ {0}

VARIABLES
  scope,     \* the bounds chosen, which never change
  classes,   \* the definitions the compiler has seen
  tables,    \* CGM's map of the tables generated so far: their classes
  object,    \* the object and what the runtime recorded of it
  cast       \* the cast being answered and its verdict

vars == << scope, classes, tables, object, cast >>

NoObject == [class |-> 0]
NoCast == [verdict |-> "none"]

Classes == DOMAIN classes

-----------------------------------------------------------------------------
Init ==
  /\ scope \in Scopes
  /\ classes = << >>
  /\ tables = {}
  /\ object = NoObject
  /\ cast = NoCast

SeqsUpTo(S, n) == UNION {[1 .. k -> S] : k \in 0 .. n}

FieldsInScope ==
  [class : Classes, count : {s.count : s \in scope.shapes}, named : BOOLEAN]

Define(bases, scalars, fields) ==
  /\ object = NoObject
  /\ Len(classes) < scope.classes
  /\ Len(bases) + scalars + Len(fields) \in 1 .. MaxParts
  /\ \A i, j \in DOMAIN bases : bases[i] = bases[j] => i = j
  /\ \A i \in DOMAIN fields :
       [count |-> fields[i].count, named |-> fields[i].named] \in scope.shapes
  /\ classes' = Append(classes, Class(classes, bases, scalars, fields))
  /\ UNCHANGED << scope, tables, object, cast >>

-----------------------------------------------------------------------------
(* Creating the object: the code that does so names its type table. *)

\* Mutant: numElements is dropped on the way to __cver_handle_new.
NumElements_Dropped(n) == 0

NumElements(n) == n

Record(c, n, requested, first, length) ==
  /\ object = NoObject
  /\ tables' = tables \cup classes[c].needs
  /\ object' = [class |-> c, num |-> n, requested |-> requested,
                first |-> first, length |-> length]
  /\ UNCHANGED << scope, classes, cast >>

\* new C, and the stack and global objects, whose size is not used.
CreateOne(c) == Record(c, 0, classes[c].size, 0, 1)

\* new C[n]: operator new[] is asked for the cookie too.
CreateArray(c, n, cookie) ==
  Record(c, NumElements(n), n * classes[c].size + cookie, cookie, n)

-----------------------------------------------------------------------------
(* __cver_handle_cast *)

\* Mutant: the start of the object is always the start of the chunk.
ElementBase_Chunk(before) == 0
\* Mutant: every hash of the target is tried.
IsTried_Any(h) == TRUE
\* Mutant: only the target's own hash is tried.
IsTried_None(h) == FALSE

\* CHECK_EQ(userRequestedSize % numElements, 0)
SizeCheckHolds == object.num > 0 => object.requested % object.num = 0

ElementBase(before) ==
  IF object.num = 0
    THEN 0
    ELSE before - (before % (object.requested \div object.num))

IsTried(h) == h.same

MatchedAt(tbl, p, base) == Matched(classes, tbl, object.class, p - base)

Verdict(tbl, before, after, target) ==
  LET base == ElementBase(before)
      tried == {h.type : h \in {g \in classes[target].hashes : IsTried(g)}}
  IN CASE ~SizeCheckHolds -> "check failed"
       [] SizeCheckHolds /\ target \in MatchedAt(tbl, after, base) -> "good"
       [] SizeCheckHolds /\ target \notin MatchedAt(tbl, after, base) ->
            IF tried \cap MatchedAt(tbl, before, base) # {}
              THEN "good" ELSE "bad"

\* A pointer to subobject s of element i is cast down to the target, whose
\* table the code names (EmitTypeCastCheck).
Cast(i, s, target) ==
  LET before == object.first + i * classes[object.class].size + s.offset
      after == before - BaseOffset(classes, target, s.class)
      tbl == tables \cup classes[target].needs
  IN /\ cast = NoCast
     /\ tables' = tbl
     /\ cast' = [element |-> i, from |-> s, target |-> target,
                 verdict |-> Verdict(tbl, before, after, target)]
     /\ UNCHANGED << scope, classes, object >>

\* The program goes on, unless the runtime stopped it.
Return ==
  /\ cast # NoCast /\ cast.verdict # "check failed"
  /\ cast' = NoCast
  /\ UNCHANGED << scope, classes, tables, object >>

-----------------------------------------------------------------------------
Next ==
  \/ \E bases \in SeqsUpTo(Classes, MaxParts), scalars \in 0 .. 1 :
       \E fields \in SeqsUpTo(FieldsInScope, MaxParts - Len(bases)) :
         Define(bases, scalars, fields)
  \/ \E c \in Classes :
       \/ CreateOne(c)
       \/ \E n \in scope.lengths, k \in Cookies : CreateArray(c, n, k)
  \/ /\ object # NoObject
     /\ \E i \in 0 .. object.length - 1, s \in classes[object.class].inside :
          \E t \in DownCasts(classes, s.class) : Cast(i, s, t)
  \/ Return

Spec == Init /\ [][Next]_vars

-----------------------------------------------------------------------------
(* Properties *)

Asked == cast # NoCast

\* Displacement of the pointer within its element, before and after the cast.
BeforeAt == cast.from.offset
AfterAt == BeforeAt - BaseOffset(classes, cast.target, cast.from.class)

Inside == classes[object.class].inside

\* The cast is to a subobject that is there.
IsValid(s) == s.class = cast.target /\ s.offset = AfterAt

\* Every table refers only to tables that were generated too, so the runtime
\* never passes over a member for want of its table.
TypeOK ==
  /\ tables \subseteq Classes
  /\ \A t \in tables : \A e \in classes[t].contains : e.table \in tables
  /\ object # NoObject => object.class \in tables
  /\ Asked => cast.target \in tables

\* No false report: a cast to a derived object that is really there is good,
\* wherever it is: in a base, in a field, in a field of a base's field, in
\* any element of a heap array.  (Except where the tables are silent, see
\* NoFalseReportAnywhere.)
NoFalseReport ==
  Asked /\ (\E s \in Inside : IsValid(s) /\ ~s.hidden) =>
    cast.verdict = "good"

\* An empty inheritance is no bad cast (empty_inherit.cc): a target that adds
\* nothing to a class whose object is really there is good.
EmptyInheritIsGood ==
  Asked /\ ~cast.from.hidden
        /\ classes[cast.target].size = classes[cast.from.class].size =>
    cast.verdict = "good"

\* What a good verdict means, as the check ignores offsets of bases: the
\* target, or a class of the same size it derives from, is the class or a
\* base of an object that covers the pointer (or of the whole object).
Covers(s, d) ==
  s.offset <= d /\ d < s.offset + classes[s.class].size

Describes(s, d, t) ==
  /\ s.class = object.class \/ Covers(s, d)
  /\ t = s.class \/ t \in classes[s.class].ancestors

GoodIsNearby ==
  Asked /\ cast.verdict = "good" =>
    \E s \in Inside :
      \/ Describes(s, AfterAt, cast.target)
      \/ \E b \in classes[cast.target].ancestors :
           /\ classes[b].size = classes[cast.target].size
           /\ Describes(s, BeforeAt, b)

\* "return 0 : Bad casting": what is not good is bad, so a valid cast must be
\* good, in every member of every element.
NoFalseReportAnywhere ==
  Asked /\ (\E s \in Inside : IsValid(s)) => cast.verdict # "bad"

\* The assertion of __cver_handle_cast: the requested size is a multiple of
\* the number of elements.
SizeIsMultipleOfElements == Asked => cast.verdict # "check failed"
=============================================================================
