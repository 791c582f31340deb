------------------------------- MODULE SetSpec -------------------------------
(***************************************************************************)
(* What a set of the Grace libraries promises to a program that uses it    *)
(* sequentially.  answer is the last request, with its argument and        *)
(* whether that was an element when the request was made.                  *)
(***************************************************************************)
CONSTANTS Element

VARIABLES elements, answer

Init ==
  /\ elements = {}
  /\ answer = << >>

Add(x) ==
  /\ answer' = <<"add", x, x \in elements>>
  /\ elements' = elements \cup {x}

Contains(x) ==
  /\ answer' = <<"contains", x, x \in elements>>
  /\ UNCHANGED elements

Remove(x) ==
  /\ answer' = <<"remove", x, x \in elements>>
  /\ elements' = elements \ {x}

Next == \E x \in Element : Add(x) \/ Contains(x) \/ Remove(x)

Spec == Init /\ [][Next]_<<elements, answer>>
=============================================================================
