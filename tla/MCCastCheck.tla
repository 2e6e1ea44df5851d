---------------------------- MODULE MCCastCheck ----------------------------
(* CastCheck on small programs. *)
EXTENDS CastCheck

Plain == {[count |-> 1, named |-> TRUE]}
PlainOrArray == {[count |-> n, named |-> TRUE] : n \in 1 .. 2}
AnyShape == PlainOrArray \cup {[count |-> 1, named |-> FALSE]}

Scope(n, shapes, lengths) ==
  [classes |-> n, shapes |-> shapes, lengths |-> lengths]

\* Three classes with every kind of field and in arrays, and four plain ones.
WideAndDeep == {Scope(3, AnyShape, {2, 3}), Scope(4, Plain, {})}
ArrayFields == {Scope(4, PlainOrArray, {})}
Arrays == {Scope(2, Plain, 1 .. 3)}
=============================================================================
