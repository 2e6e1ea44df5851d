----------------------------- MODULE MCCverHeap -----------------------------
(* CverHeap with two size classes and a few blocks. *)
EXTENDS CverHeap, TLC

CONSTANTS small, large, s1, s2, s3, l1, T

MCRegion == small :> << {s1}, {s2}, {s3} >> @@ large :> << {l1} >>
MCCapacity == small :> 1 @@ large :> 2
MCMaxCached == small :> 1 @@ large :> 1
=============================================================================
