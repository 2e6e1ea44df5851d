----------------------------- MODULE MCFreeList -----------------------------
(* FreeList with a region of three batches. *)
EXTENDS FreeList

CONSTANTS b1, b2, b3

MCRegion == << b1, b2, b3 >>
=============================================================================
