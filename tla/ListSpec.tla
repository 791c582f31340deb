------------------------------ MODULE ListSpec ------------------------------
(***************************************************************************)
(* What a list promises: it is a sequence of elements.  answer is the last *)
(* request, with its arguments and what came back; ERROR stands for the    *)
(* exception BoundsError.  A loop over a list hands out, one at a time,    *)
(* the element that is at its position when it gets there, and stops when  *)
(* its position is past the end.                                           *)
(***************************************************************************)
EXTENDS Integers, Sequences

CONSTANTS
  List, Value,
  Index,       \* the indices requests are made with
  ERROR

VARIABLES lists, answer

Indices(l) == 1 .. Len(lists[l])

Init ==
  /\ lists \in [List -> {<< >>} \cup {<<v>> : v \in Value}]
  /\ answer = << >>

Push(l, v) ==
  /\ answer' = <<"push", l, v>>
  /\ lists' = [lists EXCEPT ![l] = Append(lists[l], v)]

AddFirst(l, v) ==
  /\ answer' = <<"addFirst", l, v>>
  /\ lists' = [lists EXCEPT ![l] = <<v>> \o lists[l]]

Pop(l) ==
  LET n == Len(lists[l])
  IN  IF n = 0
      THEN answer' = <<"pop", l, ERROR>> /\ UNCHANGED lists
      ELSE /\ answer' = <<"pop", l, lists[l][n]>>
           /\ lists' = [lists EXCEPT ![l] = SubSeq(lists[l], 1, n - 1)]

At(l, i) ==
  /\ answer' = <<"at", l, i, IF i \in Indices(l) THEN lists[l][i] ELSE ERROR>>
  /\ UNCHANGED lists

AtPut(l, i, v) ==
  LET n == Len(lists[l])
  IN  /\ answer' = <<"atPut", l, i, IF i \in 1 .. n + 1 THEN v ELSE ERROR>>
      /\ lists' = IF i \in 1 .. n THEN [lists EXCEPT ![l][i] = v]
                  ELSE IF i = n + 1 THEN [lists EXCEPT ![l] = Append(lists[l], v)]
                  ELSE lists

AddAllFirst(l, s) ==
  /\ answer' = <<"addAllFirst", l, s>>
  /\ lists' = [lists EXCEPT ![l] = s \o lists[l]]

Without(l, i) == SubSeq(lists[l], 1, i - 1) \o SubSeq(lists[l], i + 1, Len(lists[l]))

RemoveAt(l, i) ==
  /\ answer' = <<"removeAt", l, i, IF i \in Indices(l) THEN lists[l][i] ELSE ERROR>>
  /\ lists' = IF i \in Indices(l) THEN [lists EXCEPT ![l] = Without(l, i)] ELSE lists

\* The first of the elements equal to v goes.
Remove(l, v) ==
  LET equal == {i \in Indices(l) : lists[l][i] = v}
  IN  /\ answer' = <<"remove", l, v, equal # {}>>
      /\ IF equal = {} THEN UNCHANGED lists
         ELSE \E i \in equal : /\ \A k \in equal : i <= k
                               /\ lists' = [lists EXCEPT ![l] = Without(l, i)]

Reverse(l) ==
  /\ answer' = <<"reverse", l>>
  /\ lists' = [lists EXCEPT ![l] = [k \in Indices(l) |-> @[Len(@) + 1 - k]]]

\* addAll, whose elements are pushed, may give up (and does when a list is added
\* to itself).
AddAllFails(l) == answer' = <<"addAll", l, ERROR>> /\ UNCHANGED lists

\* A new list, of which the program keeps no other: l ++ m, copy, reversed.
New(r, s) ==
  /\ answer' = <<"new", r>>
  /\ lists' = [lists EXCEPT ![r] = s]

Derived(r) ==
  \E l, m \in List :
    \/ New(r, lists[l] \o lists[m])
    \/ New(r, lists[l])
    \/ New(r, [k \in Indices(l) |-> lists[l][Len(lists[l]) + 1 - k]])

Each(l, i) ==
  /\ i \in Indices(l)
  /\ answer' = <<"each", l, i, lists[l][i]>>
  /\ UNCHANGED lists

Done(l, i) ==
  /\ i > Len(lists[l])
  /\ answer' = <<"done", l, i>>
  /\ UNCHANGED lists

Next ==
  \/ \E l \in List, v \in Value : Push(l, v) \/ AddFirst(l, v) \/ Remove(l, v)
  \/ \E l \in List : Pop(l) \/ Derived(l) \/ Reverse(l) \/ AddAllFails(l)
  \/ \E l \in List : \E s \in {lists[l]} \cup {<<v, w>> : v, w \in Value} : AddAllFirst(l, s)
  \/ \E l \in List, i \in Index : At(l, i) \/ RemoveAt(l, i) \/ Each(l, i) \/ Done(l, i)
  \/ \E l \in List, i \in Index, v \in Value : AtPut(l, i, v)

Spec == Init /\ [][Next]_<<lists, answer>>
=============================================================================
