----------------------------- MODULE ObjectSpec -----------------------------
(***************************************************************************)
(* What references to objects promise: each sees a sequence of parts, a    *)
(* part being a class and the variables that go with it.                   *)
(***************************************************************************)
EXTENDS Naturals, Sequences

CONSTANTS Addr, DEFAULT, NULL, Class, Name, Defines

VARIABLES
  parts,   \* per reference the parts, its own first; none if it is not in use
  answer   \* the last request that had one, and the answer to it

Init == parts = [o \in Addr |-> << >>] /\ answer = <<"none">>

Others(os) == \A o \in Addr \ os : parts'[o] = parts[o]

\* A reference to a new object has one part, with variables no other part has.
Construct ==
  LET o == answer'[2]
      new == parts'[o]
  IN  /\ answer'[1] = "new" /\ parts[o] = << >>
      /\ Len(new) = 1 /\ new[1][1] = answer'[3]
      /\ \A q \in Addr : \A k \in DOMAIN parts[q] : parts[q][k][2] # new[1][2]
      /\ Others({o})

\* The object gets one more part, the last.
Inherit ==
  LET o == answer'[2]
  IN  /\ answer'[1] = "part" /\ parts[o] # << >>
      /\ Len(parts'[o]) = Len(parts[o]) + 1 /\ SubSeq(parts'[o], 1, Len(parts[o])) = parts[o]
      /\ parts'[o][Len(parts'[o])][1] = answer'[3]
      /\ Others({o})

\* The first part that has the method answers, or else what all objects inherit.
Request ==
  LET o == answer'[2]
      serves == {k \in DOMAIN parts[o] :
                   answer'[3] \in Defines[parts[o][k][1]] /\ k > answer'[4]}
      default == answer'[3] \in Defines[DEFAULT] /\ answer'[4] <= Len(parts[o])
  IN  /\ answer'[1] = "request"
      /\ IF serves # {}
         THEN \E k \in serves : answer'[5] = parts[o][k] /\ \A j \in serves : k <= j
         ELSE answer'[5] = IF default THEN <<DEFAULT, DEFAULT>> ELSE NULL
      /\ Others({})

\* What is in front of position k of s.
Before(s, k) == SubSeq(s, 1, k - 1)
From(s, k)   == SubSeq(s, k, Len(s))

\* References to sup see sub's part and then what they saw, also those that
\* inherit from sup; references to sub see what references to sup saw.
Become ==
  LET sub == answer'[2]
      sup == answer'[3]
      added == parts[sub][1]
  IN  /\ answer'[1] = "become"
      /\ Len(parts[sub]) = 1
      /\ parts'[sup] = <<added>> \o parts[sup]
      /\ parts'[sub] = parts[sup]
      /\ \A o \in Addr \ {sub, sup} :
           \/ parts'[o] = parts[o]
           \/ \E k \in DOMAIN parts[o] :
                /\ parts[o][k] = parts[sup][1]
                /\ parts'[o] = Before(parts[o], k) \o <<added>> \o From(parts[o], k)

\* The copy sees the same classes and shares the variables.
Clone ==
  /\ answer'[1] = "clone" /\ parts[answer'[3]] = << >>
  /\ parts'[answer'[3]] = parts[answer'[2]]
  /\ Others({answer'[3]})

Next == Construct \/ Inherit \/ Request \/ Become \/ Clone

Spec == Init /\ [][Next]_<<parts, answer>>
=============================================================================
