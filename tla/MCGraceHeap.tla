---------------------------- MODULE MCGraceHeap ----------------------------
(* GraceHeap on a few addresses, which are interchangeable.                *)
EXTENDS GraceHeap, TLC

AddressSymmetry == Permutations(Object)
=============================================================================
