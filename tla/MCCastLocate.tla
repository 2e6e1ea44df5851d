---------------------------- MODULE MCCastLocate ----------------------------
(* CastLocate with two size classes that have blocks. *)
EXTENDS CastLocate, TLC

CONSTANTS T1, U

\* Regions 0 and 3 have none: class 0 does not exist, 3 is beyond the last.
MCBlockSize == 0 :> 0 @@ 1 :> 1 @@ 2 :> 2 @@ 3 :> 0
MCTypeSize == T1 :> 1 @@ U :> 2
\* The arithmetic takes these for class 0 and the first two blocks of class 1,
\* and the stack for the other two, of which the last is never carved.
MCOutside == {32, 36, 37}
MCStack == {6, 7}
=============================================================================
