---------------------------- MODULE MCStackTrace ----------------------------
(* StackTrace for every program of three functions. *)
EXTENDS StackTrace, TLC

CONSTANTS main, f, g

Sizes == main :> 1 @@ f :> 2 @@ g :> 1

\* Nobody calls the main function.
ProgramsWith(indirect, throws) ==
  [calls : [Functions -> SUBSET (Functions \ {Main})],
   locals : SUBSET Functions, casts : SUBSET Functions,
   indirect : indirect, throws : throws]

\* f calls whatever it likes, main calls f, and some function may cast.
Throwing ==
  {p \in ProgramsWith({{f}}, {TRUE}) :
     /\ p.calls = [x \in Functions |-> IF x = Main THEN {f} ELSE {}]
     /\ p.casts \in {{f}, {g}}}

AnyDirect == ProgramsWith({{}}, {FALSE}) \cup Throwing
SomeIndirect == ProgramsWith({{f}}, {FALSE})
=============================================================================
