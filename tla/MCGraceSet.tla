------------------------------ MODULE MCGraceSet ------------------------------
(* GraceSet with elements named after their hashes.                        *)
EXTENDS GraceSet
CONSTANTS e0, e1, e2, e3, e4, e5, e6, e7

HashValues ==
  [x \in Element |-> CASE x = e0 -> 0 [] x = e1 -> 1 [] x = e2 -> 2 [] x = e3 -> 3
                       [] x = e4 -> 4 [] x = e5 -> 5 [] x = e6 -> 6 [] OTHER -> 7]

\* What searches depend on: states that differ in the rest have the same searches.
TableOnly == <<inner, size, rehash, bulk, status>>
=============================================================================
