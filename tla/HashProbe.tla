------------------------------ MODULE HashProbe ------------------------------
(***************************************************************************)
(* The search that stringMap.grace and the set and the dictionary of       *)
(* collectionsPrelude.grace each spell out as findPosition: five jumps     *)
(* t -> 3t + 1, then one slot at a time, all modulo the table's size.      *)
(***************************************************************************)
EXTENDS Integers

Jump(t, s) == (t * 3 + 1) % s

\* The slot inspected after n rounds of the loop, for hash h and s slots.
Probe(h, s, n) ==
  LET t0 == h % s
      t1 == Jump(t0, s)
      t2 == Jump(t1, s)
      t3 == Jump(t2, s)
      t4 == Jump(t3, s)
      t5 == Jump(t4, s)
  IN  CASE n = 0 -> t0
        [] n = 1 -> t1
        [] n = 2 -> t2
        [] n = 3 -> t3
        [] n = 4 -> t4
        [] OTHER -> (t5 + (n - 5)) % s

\* After s + 5 rounds the loop has inspected every slot and starts again.
Rounds(s) == 0 .. s + 4

(* The loop stops at the first slot of stops it inspects, if it ever does.  *)
StopsAt(h, s, stops, n) ==
  /\ n \in Rounds(s)
  /\ Probe(h, s, n) \in stops
  /\ \A m \in 0 .. n - 1 : Probe(h, s, m) \notin stops

SearchEnds(h, s, stops) == \E n \in Rounds(s) : Probe(h, s, n) \in stops

SearchResult(h, s, stops) ==
  Probe(h, s, CHOOSE n \in Rounds(s) : StopsAt(h, s, stops, n))
=============================================================================
