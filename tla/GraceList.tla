------------------------------ MODULE GraceList ------------------------------
(***************************************************************************)
(* The list of collectionsPrelude.grace that compiled C programs use: an   *)
(* array that requests expand and move elements in, a count of requests    *)
(* that change it, fail-fast iterators, and loops that apply blocks of the *)
(* program or consult another collection, perhaps the list itself.  A      *)
(* request is a step, and so is a round of such a loop.                    *)
(***************************************************************************)
EXTENDS Integers, Sequences

CONSTANTS
  LIST,         \* the list
  Value,
  NULL,         \* an undefined slot
  ERROR,        \* BoundsError
  SELF,         \* the list, as an argument of a request to itself
  MaxSize,      \* bound on the length
  MaxLoops      \* bound on the nesting of loops that apply blocks

ConstantsOK ==
  /\ {NULL, ERROR, SELF} \cap Value = {} /\ NULL # ERROR /\ SELF \notin {NULL, ERROR}
  /\ MaxSize \in Nat \ {0} /\ MaxLoops \in Nat

VARIABLES
  inner,   \* the array: its size and its slots
  size,
  iter,    \* an iterator: stale (imods # mods), idx, and the history: what it
           \* gave, and the elements when it was made
  loops,   \* the loops under way, the innermost last
  answer   \* see ListSpec

vars == <<inner, size, iter, loops, answer>>

NoIter == [stale |-> TRUE, idx |-> 1, given |-> << >>, made |-> << >>]

Contents == [k \in 1 .. size |-> inner.at[k - 1]]
Larger(a, b) == IF a > b THEN a ELSE b

(* expandTo.                                                                *)
Expanded(newSize) ==
  [size |-> newSize, at |-> [k \in 0 .. newSize - 1 |-> IF k < size THEN inner.at[k] ELSE NULL]]

\* The array with elements s, and in the slots behind them what array has there.
Filled(array, s) ==
  [array EXCEPT !.at = [k \in DOMAIN array.at |-> IF k < Len(s) THEN s[k + 1] ELSE array.at[k]]]

(* withAll of a collection that knows its size.                             *)
Init ==
  /\ \E s \in {<< >>} \cup {<<v>> : v \in Value} :
       /\ size = Len(s)
       /\ inner = Filled([size |-> 2 * Len(s) + 1, at |-> [k \in 0 .. 2 * Len(s) |-> NULL]], s)
  /\ iter = NoIter /\ loops = << >> /\ answer = << >>

----------------------------------------------------------------------------
Top     == loops[Len(loops)]
Outer   == SubSeq(loops, 1, Len(loops) - 1)
Running(op) == loops # << >> /\ Top.op = op

\* Code of the program runs: the one around all loops, or a block.
Free == loops # << >> => Top.op \in {"do", "keysAndValuesDo"}

\* mods := mods + 1, as far as the iterator can tell.
Stale == [NoIter EXCEPT !.idx = iter.idx]

\* History: loops under way learn that the list is changed.
Disturbed(frames) ==
  [k \in DOMAIN frames |-> [frames[k] EXCEPT !.touched = TRUE, !.given = << >>, !.made = << >>]]

(* A request that raises mods and makes the list one of elements s.         *)
Becomes(array, s) ==
  /\ inner' = Filled(array, s) /\ size' = Len(s)
  /\ iter' = Stale /\ loops' = Disturbed(loops)

\* A request that raises mods and then an exception.
Fails == iter' = Stale /\ UNCHANGED <<inner, size, loops>>

Full == size = inner.size
Pushed(v) == Becomes(IF Full THEN Expanded(inner.size * 2) ELSE inner, Append(Contents, v))

(* push, add and addLast.                                                   *)
Push(v) ==
  /\ Free /\ size < MaxSize
  /\ Pushed(v)
  /\ answer' = <<"push", LIST, v>>

(* at and [].                                                               *)
At(n) ==
  /\ Free
  /\ answer' = <<"at", LIST, n, IF n \in 1 .. size THEN Contents[n] ELSE ERROR>>
  /\ UNCHANGED <<inner, size, iter, loops>>

(* at()put and []:=, which also append.                                     *)
AtPut(n, v) ==
  /\ Free /\ (n = size + 1 => size < MaxSize)
  /\ CASE n = size + 1    -> Pushed(v)
       [] n \in 1 .. size -> Becomes(inner, [Contents EXCEPT ![n] = v])
       [] OTHER           -> Fails
  /\ answer' = <<"atPut", LIST, n, IF n \in 1 .. size + 1 THEN v ELSE ERROR>>

(* removeLast and pop.                                                      *)
RemoveLast ==
  /\ Free
  /\ IF size = 0 THEN Fails ELSE Becomes(inner, SubSeq(Contents, 1, size - 1))
  /\ answer' = <<"pop", LIST, IF size = 0 THEN ERROR ELSE Contents[size]>>

(* addFirst.                                                                *)
AddFirst(v) ==
  /\ Free /\ size < MaxSize
  /\ Becomes(IF size + 1 > inner.size THEN Expanded(size * 2) ELSE inner, <<v>> \o Contents)
  /\ answer' = <<"addFirst", LIST, v>>

\* The array for size and increase elements.
Roomy(increase) ==
  IF size + increase > inner.size THEN Expanded(Larger(size + increase, size * 2)) ELSE inner

Elements(arg) == IF arg = SELF THEN Contents ELSE arg

(* addAllFirst: the elements are moved up before the argument is consulted, *)
(* which finds, if it is the list, the old ones still below.                *)
AddAllFirst(arg) ==
  LET s == Elements(arg)
  IN  /\ Free /\ size + Len(s) <= MaxSize
      /\ Becomes(Roomy(Len(s)), s \o Contents)
      /\ answer' = <<"addAllFirst", LIST, s>>

Without(n) == [k \in 1 .. size - 1 |-> Contents[IF k < n THEN k ELSE k + 1]]

(* removeAt, and with n = 1 removeFirst.                                    *)
RemoveAt(n) ==
  /\ Free
  /\ IF n \in 1 .. size THEN Becomes(inner, Without(n)) ELSE Fails
  /\ answer' = <<"removeAt", LIST, n, IF n \in 1 .. size THEN Contents[n] ELSE ERROR>>

Found(v)   == \E n \in 1 .. size : Contents[n] = v
indexOf(v) == CHOOSE n \in 1 .. size : Contents[n] = v /\ v \notin {Contents[k] : k \in 1 .. n - 1}

(* remove, with an exception or with ifAbsent.                              *)
Remove(v) ==
  /\ Free
  /\ IF Found(v) THEN Becomes(inner, Without(indexOf(v))) ELSE UNCHANGED <<inner, size, iter, loops>>
  /\ answer' = <<"remove", LIST, v, Found(v)>>

(* reverse, by requests of at and at()put.                                  *)
Reverse ==
  /\ Free
  /\ Becomes(inner, [k \in 1 .. size |-> Contents[size + 1 - k]])
  /\ answer' = <<"reverse", LIST>>

----------------------------------------------------------------------------
\* A loop, over the list itself (over = SELF) or another collection; len is the
\* size that keysAndValuesDo reads first.
Loop(op, over) ==
  [op |-> op, over |-> over, index |-> 0, len |-> size,
   given |-> << >>, made |-> Contents, touched |-> FALSE]

(* do, keysAndValuesDo (and contains, reversed, indexOf with the loops).    *)
LoopStarts(op) ==
  /\ Free /\ Len(loops) < MaxLoops
  /\ loops' = Append(loops, Loop(op, SELF))
  /\ UNCHANGED <<inner, size, iter, answer>>

Advanced(frame, v) ==
  [frame EXCEPT !.index = frame.index + 1,
                !.given = IF frame.touched THEN @ ELSE Append(@, v)]

\* A loop over the list is done when it has caught up with size.
AtEnd ==
  Top.index >= IF Top.op = "keysAndValuesDo" THEN Top.len
               ELSE IF Top.over = SELF THEN size ELSE Len(Top.over)
Current == IF Top.over = SELF THEN inner.at[Top.index] ELSE Top.over[Top.index + 1]

DoRound ==
  /\ Running("do") \/ Running("keysAndValuesDo")
  /\ ~ AtEnd /\ Top.index < size
  /\ loops' = Append(Outer, Advanced(Top, Current))
  /\ answer' = <<"each", LIST, Top.index + 1, Current>>
  /\ UNCHANGED <<inner, size, iter>>

LoopReturns ==
  /\ loops # << >> /\ AtEnd
  /\ loops' = Outer
  /\ answer' = IF Top.op = "do" THEN <<"done", LIST, Top.index + 1>> ELSE answer
  /\ UNCHANGED <<inner, size, iter>>

\* An exception leaves the loops that do not catch it.
Left(frames) == \E n \in 0 .. Len(frames) : loops' = SubSeq(frames, 1, n)

(* A block raises, or returns from its method; or keysAndValuesDo finds the *)
(* list shorter than it was.                                                *)
LoopsAreLeft ==
  /\ loops # << >> /\ Free
  /\ Left(Outer)
  /\ UNCHANGED <<inner, size, iter, answer>>

\* A plausible slip of addAll: mods is not raised.
AddAllStarts_Unnoticed(arg) ==
  LET n == Len(Elements(arg))
  IN  /\ Free /\ (IF arg = SELF THEN Roomy(n).size ELSE size + n) <= MaxSize
      /\ inner' = Roomy(n)
      /\ loops' = Append(loops, Loop("addAll", arg))
      /\ UNCHANGED <<size, iter, answer>>

(* addAll.                                                                  *)
AddAllStarts(arg) ==
  LET n == Len(Elements(arg))
  IN  /\ Free /\ (IF arg = SELF THEN Roomy(n).size ELSE size + n) <= MaxSize
      /\ inner' = Roomy(n)
      /\ iter' = Stale
      /\ loops' = Append(loops, Loop("addAll", arg))
      /\ UNCHANGED <<size, answer>>

(* A round of it: if the list is added to itself there is always another    *)
(* one, until the array is full and at()put raises BoundsError.             *)
AddAllRound ==
  /\ Running("addAll") /\ ~ AtEnd
  /\ IF Full
     THEN /\ Left(Outer)
          /\ answer' = <<"addAll", LIST, ERROR>>
          /\ UNCHANGED <<inner, size>>
     ELSE /\ inner' = Filled(inner, Append(Contents, Current)) /\ size' = size + 1
          /\ loops' = Append(Disturbed(Outer), Advanced(Top, Current))
          /\ answer' = <<"push", LIST, Current>>
  /\ UNCHANGED iter

(* removeAll, with and without ifAbsent.                                    *)
RemoveAllStarts(arg) ==
  /\ Free
  /\ loops' = Append(loops, Loop("removeAll", arg))
  /\ UNCHANGED <<inner, size, iter, answer>>

RemoveAllRound ==
  LET v == Current
      n == indexOf(v)
      next == Append(Outer, Advanced(Top, v))
  IN  /\ Running("removeAll") /\ ~ AtEnd
      /\ answer' = <<"remove", LIST, v, Found(v)>>
      /\ IF Found(v)
         THEN /\ inner' = Filled(inner, Without(n)) /\ size' = size - 1
              /\ iter' = Stale /\ loops' = Disturbed(next)
         ELSE /\ loops' = next \/ Left(Outer)
              /\ UNCHANGED <<inner, size, iter>>

----------------------------------------------------------------------------
NewIterator ==
  /\ Free
  /\ iter' = [stale |-> FALSE, idx |-> 1, given |-> << >>, made |-> Contents]
  /\ UNCHANGED <<inner, size, loops, answer>>

\* next after hasNext.  A stale iterator raises ConcurrentModification.
IteratorNext ==
  /\ Free /\ ~ iter.stale /\ iter.idx <= size
  /\ iter' = [iter EXCEPT !.idx = iter.idx + 1, !.given = Append(@, Contents[iter.idx])]
  /\ UNCHANGED <<inner, size, loops, answer>>

Arguments == {SELF} \cup {<<v, w>> : v, w \in Value}
Indices   == 0 .. MaxSize + 1

Next ==
  \/ \E v \in Value : Push(v) \/ AddFirst(v) \/ Remove(v) \/ \E n \in Indices : AtPut(n, v)
  \/ \E n \in Indices : At(n) \/ RemoveAt(n)
  \/ RemoveLast \/ Reverse
  \/ \E arg \in Arguments : AddAllFirst(arg) \/ AddAllStarts(arg) \/ RemoveAllStarts(arg)
  \/ \E op \in {"do", "keysAndValuesDo"} : LoopStarts(op)
  \/ DoRound \/ AddAllRound \/ RemoveAllRound \/ LoopReturns \/ LoopsAreLeft
  \/ NewIterator \/ IteratorNext

Spec == Init /\ [][Next]_vars

----------------------------------------------------------------------------
(* The type of the state: every slot below size holds an element, and no    *)
(* request counts, or stores, beyond the array.                             *)
TypeOK ==
  /\ inner.size \in Nat \ {0}
  /\ inner.at \in [0 .. inner.size - 1 -> Value \cup {NULL}]
  /\ size \in 0 .. inner.size
  /\ \A k \in 0 .. size - 1 : inner.at[k] \in Value
  /\ iter.idx \in 1 .. size + 1 \/ iter.stale

(* Fail fast: an iterator that gives an element finds the list it was made  *)
(* for.                                                                     *)
FailFastStep == IteratorNext => Contents = iter.made
FailFast == [][FailFastStep]_vars

(* Iterators and loops that nothing disturbs give the elements in order,    *)
(* each once; addAll appends exactly those of its argument.                 *)
IteratesAllStep ==
  /\ (IteratorNext /\ iter'.idx > size) => iter'.given = iter.made
  /\ (loops # << >> /\ ~ Top.touched /\ LoopReturns) =>
       CASE Top.op = "addAll"    -> Contents = Top.made \o (IF Top.over = SELF THEN Top.made ELSE Top.over)
         [] Top.op = "removeAll" -> Contents = Top.made
         [] OTHER                -> Top.given = Top.made
IteratesAll == [][IteratesAllStep]_vars

(* The array is a sequence: requests answer, and loops hand out, what       *)
(* ListSpec promises, however elements are moved in it and whatever the     *)
(* blocks of the loops do.                                                  *)
lists == [l \in {LIST} |-> Contents]
Abstract == INSTANCE ListSpec WITH List <- {LIST}, Index <- Indices
IsList == Abstract!Spec
=============================================================================
