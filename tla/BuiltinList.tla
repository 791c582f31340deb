----------------------------- MODULE BuiltinList -----------------------------
(***************************************************************************)
(* The built-in list of gracelib.c: an array that push doubles, and native *)
(* loops over it that request methods of the program in every round.  A    *)
(* request is one step, a round of such a loop is a step of its own, and   *)
(* between two rounds the requested code may do anything to any list.      *)
(* reduce is left out: it never hands its block the elements, see README.  *)
(***************************************************************************)
EXTENDS Integers, Sequences, FiniteSets

CONSTANTS
  List,          \* list objects
  Value,
  NULL,          \* what calloc leaves in a slot
  ERROR,         \* BoundsError
  InitialSpace,  \* lo->space of a new list (8 in the code)
  MaxSize,       \* bound on the length, per list
  MaxLoops       \* bound on the nesting of loops

ConstantsOK ==
  /\ IsFiniteSet(List) /\ {NULL, ERROR} \cap Value = {}
  /\ InitialSpace \in Nat \ {0} /\ MaxSize \in [List -> Nat] /\ MaxLoops \in Nat

VARIABLES
  store,   \* per list its size, its space and its items
  loops,   \* the native loops under way, the innermost last (see LoopStarts)
  answer   \* see ListSpec

vars == <<store, loops, answer>>

Fresh == [size |-> 0, space |-> InitialSpace, items |-> [k \in 0 .. InitialSpace - 1 |-> NULL]]

Contents(r) == [k \in 1 .. r.size |-> r.items[k - 1]]

\* A plausible slip of push: it makes room when the array has overflowed.
Pushed_Late(r, v) ==
  LET space == IF r.size > r.space THEN 2 * r.space ELSE r.space
  IN  [size |-> r.size + 1, space |-> space,
       items |-> [k \in 0 .. space - 1 |-> IF k = r.size THEN v ELSE r.items[k]]]

(* BuiltinList_push on a list in state r.                                   *)
Pushed(r, v) ==
  LET full  == r.size = r.space
      space == IF full THEN 2 * r.space ELSE r.space
  IN  [size |-> r.size + 1, space |-> space,
       items |-> [k \in 0 .. space - 1 |->
                    IF k = r.size THEN v ELSE IF k < r.space THEN r.items[k] ELSE NULL]]

\* The list that pushing the elements of s one by one makes of a fresh one.
PushedAll(s) ==
  LET grown[n \in 0 .. Len(s)] == IF n = 0 THEN Fresh ELSE Pushed(grown[n - 1], s[n])
  IN  grown[Len(s)]

----------------------------------------------------------------------------
Init ==
  /\ store = [l \in List |-> Fresh]
  /\ loops = << >>
  /\ answer = << >>

\* History only: a loop under way over l, or into l, learns that l has changed.
Disturbed(f, l) ==
  IF l \in {f.list, f.into}
  THEN [f EXCEPT !.touched = TRUE, !.given = << >>, !.made = << >>, !.onto = << >>]
  ELSE f

Changes(l, r) ==
  /\ store' = [store EXCEPT ![l] = r]
  /\ loops' = [k \in 1 .. Len(loops) |-> Disturbed(loops[k], l)]

Roomy(l) == store[l].size < MaxSize[l]

(* push, add and addLast.                                                   *)
Push(l, v) ==
  /\ Roomy(l)
  /\ Changes(l, Pushed(store[l], v))
  /\ answer' = <<"push", l, v>>

(* pop and removeLast: the vacated slot keeps its value.                    *)
Pop(l) ==
  LET r == store[l]
  IN  IF r.size = 0
      THEN answer' = <<"pop", l, ERROR>> /\ UNCHANGED <<store, loops>>
      ELSE /\ Changes(l, [r EXCEPT !.size = r.size - 1])
           /\ answer' = <<"pop", l, r.items[r.size - 1]>>

(* at, [], and with a fixed index first, second, third, fourth, fifth, last.*)
At(l, i) ==
  /\ answer' = <<"at", l, i, IF i \in 1 .. store[l].size THEN store[l].items[i - 1] ELSE ERROR>>
  /\ UNCHANGED <<store, loops>>

(* at()put and []:=, which also append.                                     *)
AtPut(l, i, v) ==
  LET r == store[l]
  IN  CASE i = r.size + 1 ->
             /\ Roomy(l)
             /\ Changes(l, Pushed(r, v))
             /\ answer' = <<"atPut", l, i, v>>
        [] i > r.size + 1 \/ i <= 0 ->
             answer' = <<"atPut", l, i, ERROR>> /\ UNCHANGED <<store, loops>>
        [] OTHER ->
             /\ Changes(l, [r EXCEPT !.items[i - 1] = v])
             /\ answer' = <<"atPut", l, i, v>>

\* A plausible slip: the elements are moved up starting with the first.
AddFirst_Smears(l, v) ==
  LET r == Pushed(store[l], v)
  IN  /\ Roomy(l)
      /\ Changes(l, [r EXCEPT !.items =
            [k \in 0 .. r.space - 1 |-> IF k = 0 THEN v
                                        ELSE IF k < r.size THEN r.items[0] ELSE r.items[k]]])
      /\ answer' = <<"addFirst", l, v>>

(* addFirst: push, then move every element up, the last one first.          *)
AddFirst(l, v) ==
  LET r == Pushed(store[l], v)
  IN  /\ Roomy(l)
      /\ Changes(l, [r EXCEPT !.items =
            [k \in 0 .. r.space - 1 |-> IF k = 0 THEN v
                                        ELSE IF k < r.size THEN r.items[k - 1] ELSE r.items[k]]])
      /\ answer' = <<"addFirst", l, v>>

(* ++, copy and reversed fill a new list, for which r is free: no loop and  *)
(* no variable of the program refers to it.                                 *)
Derive(r, s) ==
  /\ \A k \in 1 .. Len(loops) : r \notin {loops[k].list, loops[k].into}
  /\ Len(s) <= MaxSize[r]
  /\ store' = [store EXCEPT ![r] = PushedAll(s)]
  /\ answer' = <<"new", r>>
  /\ UNCHANGED loops

Concat(l, m, r) == Derive(r, Contents(store[l]) \o Contents(store[m]))
Copy(l, r)      == Derive(r, Contents(store[l]))
Reversed(l, r)  ==
  LET s == Contents(store[l]) IN Derive(r, [k \in 1 .. Len(s) |-> s[Len(s) + 1 - k]])

(* A native loop over list.  "do" stands for do, do()separatedBy,           *)
(* keysAndValuesDo, fold()startingWith and contains, which all look at size *)
(* in every round; "asString" reads size once (len); "addAll" moves         *)
(* an iterator over list and pushes onto into.  given, made, onto and       *)
(* touched are history: what the loop read, both lists when it started, and *)
(* whether a request has changed one of them since.                         *)
LoopStarts(op, l, m) ==
  /\ Len(loops) < MaxLoops
  /\ op # "addAll" => m = l
  /\ loops' = Append(loops,
       [op |-> op, list |-> l, into |-> m, index |-> 0,
        len |-> IF op = "asString" THEN store[l].size ELSE 0,
        given |-> << >>, made |-> Contents(store[l]),
        onto |-> IF op = "addAll" THEN Contents(store[m]) ELSE << >>, touched |-> FALSE])
  /\ UNCHANGED <<store, answer>>

Top == loops[Len(loops)]
Advanced(f) ==
  [f EXCEPT !.index = f.index + 1,
            !.given = IF f.touched THEN @ ELSE Append(@, store[f.list].items[f.index])]

DoRound ==
  /\ loops # << >> /\ Top.op = "do" /\ Top.index < store[Top.list].size
  /\ loops' = [loops EXCEPT ![Len(loops)] = Advanced(Top)]
  /\ answer' = <<"each", Top.list, Top.index + 1, store[Top.list].items[Top.index]>>
  /\ UNCHANGED store

AsStringRound ==
  /\ loops # << >> /\ Top.op = "asString" /\ Top.index < Top.len
  /\ loops' = [loops EXCEPT ![Len(loops)] = Advanced(Top)]
  /\ UNCHANGED <<store, answer>>

AddAllRound ==
  /\ loops # << >> /\ Top.op = "addAll" /\ Top.index < store[Top.list].size
  /\ LET v == store[Top.list].items[Top.index]
     IN  /\ Roomy(Top.into)
         /\ store' = [store EXCEPT ![Top.into] = Pushed(store[Top.into], v)]
         /\ loops' = [k \in 1 .. Len(loops) |->
                      IF k < Len(loops) THEN Disturbed(loops[k], Top.into)
                      ELSE IF Top.into = Top.list THEN Disturbed(Advanced(Top), Top.into)
                      ELSE Advanced(Top)]
         /\ answer' = <<"push", Top.into, v>>

LoopReturns ==
  /\ loops # << >>
  /\ Top.index >= IF Top.op = "asString" THEN Top.len ELSE store[Top.list].size
  /\ loops' = SubSeq(loops, 1, Len(loops) - 1)
  /\ answer' = IF Top.op = "do" THEN <<"done", Top.list, Top.index + 1>> ELSE answer
  /\ UNCHANGED store

\* A block, iterator or asString that raises leaves all loops it was applied in.
LoopsAreLeft ==
  /\ loops # << >>
  /\ \E n \in 0 .. Len(loops) - 1 : loops' = SubSeq(loops, 1, n)
  /\ UNCHANGED <<store, answer>>

\* Indices that matter: the valid ones, the one that appends, and wrong ones.
Indices(l) == 0 .. MaxSize[l] + 1

Next ==
  \/ \E l \in List, v \in Value : Push(l, v) \/ AddFirst(l, v)
  \/ \E l \in List : Pop(l)
  \/ \E l \in List : \E i \in Indices(l) : At(l, i)
  \/ \E l \in List, v \in Value : \E i \in Indices(l) : AtPut(l, i, v)
  \/ \E l, m, r \in List : Concat(l, m, r)
  \/ \E l, r \in List : Copy(l, r) \/ Reversed(l, r)
  \/ \E op \in {"do", "asString", "addAll"}, l, m \in List : LoopStarts(op, l, m)
  \/ DoRound
  \/ AsStringRound
  \/ AddAllRound
  \/ LoopReturns
  \/ LoopsAreLeft

Spec == Init /\ [][Next]_vars

----------------------------------------------------------------------------
(* The type of the state: the array has as many slots as space says, those  *)
(* below size hold elements, and push never has to write beyond it.         *)
TypeOK ==
  /\ \A l \in List :
       LET r == store[l]
       IN  /\ r.space \in Nat /\ r.size \in 0 .. r.space
           /\ r.items \in [0 .. r.space - 1 -> Value \cup {NULL}]
           /\ \A k \in 0 .. r.size - 1 : r.items[k] \in Value
  /\ Len(loops) <= MaxLoops

(* A loop that no request disturbed has visited the elements in order, each *)
(* once, and an addAll has appended exactly them.                           *)
LoopsAreCompleteStep ==
  (loops # << >> /\ ~Top.touched /\ LoopReturns) =>
    /\ Top.given = Top.made
    /\ Top.op = "addAll" => Contents(store[Top.into]) = Top.onto \o Top.made
LoopsAreComplete == [][LoopsAreCompleteStep]_vars

(* The array is a sequence: requests answer, and loops hand out, what       *)
(* ListSpec promises, whatever the blocks of the loops do to the lists.     *)
lists == [l \in List |-> Contents(store[l])]
Abstract == INSTANCE ListSpec WITH Index <- UNION {Indices(l) : l \in List}
IsList == Abstract!Spec
=============================================================================
