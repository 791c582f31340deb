----------------------------- MODULE ListProofs -----------------------------
(***************************************************************************)
(* Lists are sequences, and loops over them are complete: the list written *)
(* in Grace, which this module extends, and the built-in lists, instance   *)
(* B.  The invariant of each says that its array has an element in every   *)
(* slot below size, and of every loop under way what it may rely on unless *)
(* the list was changed under it: the list is as the loop found it, and    *)
(* what it gave is the part before its index.  An addAll has made room and *)
(* appended what it has read.  Requests are shown to do to the contents,   *)
(* slot by slot, what ListSpec says.                                       *)
(***************************************************************************)
EXTENDS GraceList, FiniteSets, SequenceTheorems, NaturalsInduction, WellFoundedInduction, TLAPS

CONSTANTS List, InitialSpace, MaxSizes   \* of the built-in lists

VARIABLE store                           \* likewise

B == INSTANCE BuiltinList WITH MaxSize <- MaxSizes

LEMMA SetInduction ==
  ASSUME NEW Good, 0 \in Good, \A n \in Nat : n \in Good => n + 1 \in Good
  PROVE  Nat \subseteq Good
<1>1. SUFFICES ASSUME Nat \ Good # {} PROVE FALSE
  OBVIOUS
<1>2. PICK x \in Nat \ Good : \A y \in Nat \ Good : <<y, x>> \notin OpToRel(<, Nat)
  BY <1>1, NatLessThanWellFounded, WFMin
<1>3. x \in Nat /\ x # 0 /\ x - 1 \in Nat /\ x = (x - 1) + 1
  OBVIOUS
<1>4. \A y \in Nat \ Good : ~ (y < x)
  BY <1>2, <1>3 DEF OpToRel
<1>5. x - 1 \in Good
  BY <1>3, <1>4
<1> QED BY <1>1, <1>2, <1>3, <1>5

LEMMA Smallest ==
  ASSUME NEW T, T \subseteq Nat, T # {}
  PROVE  \E x \in T : \A y \in T : x <= y
<1>1. PICK x \in T : \A y \in T : <<y, x>> \notin OpToRel(<, Nat)
  BY NatLessThanWellFounded, WFMin
<1>2. \A y \in T : ~ (y < x)
  BY <1>1 DEF OpToRel
<1> QED BY <1>2

LEMMA SplitAt ==
  ASSUME NEW A, NEW s \in Seq(A), NEW n \in 0 .. Len(s)
  PROVE  /\ SubSeq(s, 1, n) \in Seq(A) /\ Len(SubSeq(s, 1, n)) = n
         /\ \A k \in 1 .. n : SubSeq(s, 1, n)[k] = s[k]
<1>1. Len(s) \in Nat /\ \A k \in 1 .. Len(s) : s[k] \in A
  BY ElementOfSeq
<1> QED BY <1>1, SubSeqProperties

----------------------------------------------------------------------------
(* The list written in Grace.                                               *)

\* An array that has a value or nothing in every slot.
Array(a) ==
  /\ a = [size |-> a.size, at |-> a.at]
  /\ a.size \in Nat \ {0}
  /\ a.at \in [0 .. a.size - 1 -> Value \cup {NULL}]

\* The array's first n slots are the elements s.
Holds(a, n, s) ==
  /\ Array(a) /\ n \in 0 .. a.size /\ n <= MaxSize
  /\ s \in Seq(Value) /\ Len(s) = n
  /\ \A k \in 1 .. n : s[k] = a.at[k - 1]

\* An iterator that is not stale has given what is before its index.
Iterates(i, s) ==
  /\ i \in [stale : BOOLEAN, idx : Nat, given : Seq(Value), made : Seq(Value)]
  /\ ~i.stale => /\ i.idx \in 1 .. Len(s) + 1
                 /\ i.made = s /\ i.given = SubSeq(s, 1, i.idx - 1)

Blocks == {"do", "keysAndValuesDo"}

Frames ==
  [op : Blocks \cup {"addAll", "removeAll"}, over : Arguments, index : Nat, len : Nat,
   given : Seq(Value), made : Seq(Value), touched : BOOLEAN]

\* A loop that nothing has disturbed finds the list as it was, and has given
\* the elements before its index.
Loops(f, s) ==
  /\ f \in Frames
  /\ f.op \in Blocks => f.over = SELF /\ f.index <= MaxSize
  /\ f.op # "addAll" /\ ~f.touched => f.made = s
  /\ f.op \in Blocks /\ ~f.touched => /\ f.index <= Len(s) /\ f.given = SubSeq(s, 1, f.index)
                                      /\ f.op = "keysAndValuesDo" => f.len = Len(s)

\* addAll has made room for its argument and appended the part of it before
\* its index; if that is the list itself, there is always more of it.
Adds(f, i, a, s) ==
  /\ i.stale /\ ~f.touched
  /\ f.over = SELF => /\ a.size <= MaxSize
                      /\ Len(s) = Len(f.made) + f.index
                      /\ f.made = << >> => f.index = 0
  /\ f.over # SELF => /\ f.index <= Len(f.over)
                      /\ Len(s) + Len(f.over) - f.index <= MaxSize
                      /\ Len(s) + Len(f.over) - f.index <= a.size
                      /\ s = f.made \o SubSeq(f.over, 1, f.index)

Nested(fs, i, a, s) ==
  /\ fs \in Seq(Frames)
  /\ \A k \in 1 .. Len(fs) : Loops(fs[k], s)
  /\ \A k \in 1 .. Len(fs) - 1 : fs[k].op \in Blocks
  /\ fs # << >> /\ fs[Len(fs)].op = "addAll" => Adds(fs[Len(fs)], i, a, s)

IInv ==
  /\ Holds(inner, size, Contents)
  /\ Iterates(iter, Contents)
  /\ Nested(loops, iter, inner, Contents)

\* A state's parts, as the slots give them.
LEMMA ContentsIs ==
  ASSUME NEW a, NEW n \in Nat, Array(a), n <= a.size,
         NEW s, s = [k \in 1 .. n |-> a.at[k - 1]], \A k \in 1 .. n : a.at[k - 1] \in Value
  PROVE  s \in Seq(Value) /\ Len(s) = n /\ \A k \in 1 .. n : s[k] = a.at[k - 1]
<1>1. \A k \in 1 .. n : s[k] = a.at[k - 1]
  OBVIOUS
<1>2. s \in [1 .. n -> Value]
  OBVIOUS
<1>3. s \in Seq(Value) /\ Len(s) = n
  BY <1>2
<1> QED BY <1>1, <1>3

LEMMA FilledIs ==
  ASSUME NEW a, Array(a), NEW s \in Seq(Value), Len(s) <= a.size
  PROVE  /\ Array(Filled(a, s)) /\ Filled(a, s).size = a.size
         /\ [k \in 1 .. Len(s) |-> Filled(a, s).at[k - 1]] = s
<1> DEFINE r == Filled(a, s)
           slots == [k \in 0 .. a.size - 1 |-> IF k < Len(s) THEN s[k + 1] ELSE a.at[k]]
<1>1. Len(s) \in Nat /\ \A k \in 1 .. Len(s) : s[k] \in Value
  BY ElementOfSeq
<1>2. DOMAIN a.at = 0 .. a.size - 1 /\ a.size \in Nat \ {0}
  BY DEF Array
<1>3. r = [size |-> a.size, at |-> slots]
  <2>1. a = [size |-> a.size, at |-> a.at]
    BY DEF Array
  <2>2. r = [a EXCEPT !.at = slots]
    BY <1>2 DEF Filled
  <2> HIDE DEF r, slots
  <2> QED BY <2>1, <2>2
<1>4. slots \in [0 .. a.size - 1 -> Value \cup {NULL}]
  <2>1. ASSUME NEW k \in 0 .. a.size - 1
        PROVE  (IF k < Len(s) THEN s[k + 1] ELSE a.at[k]) \in Value \cup {NULL}
    <3>1. CASE k < Len(s)
      <4>1. k + 1 \in 1 .. Len(s)
        BY <3>1, <1>1, <1>2
      <4> QED BY <4>1, <3>1, <1>1
    <3>2. CASE ~(k < Len(s))
      <4>1. a.at[k] \in Value \cup {NULL}
        BY DEF Array
      <4> QED BY <4>1, <3>2
    <3> QED BY <3>1, <3>2
  <2> QED BY <2>1
<1>5. \A k \in 1 .. Len(s) : slots[k - 1] = s[k]
  BY <1>1, <1>2
<1> HIDE DEF r, slots
<1>6. r.size = a.size /\ r.at = slots
  BY <1>3
<1>7. Array(r)
  BY <1>2, <1>3, <1>4, <1>6 DEF Array
<1>8. [k \in 1 .. Len(s) |-> r.at[k - 1]] = s
  <2>1. s = [k \in 1 .. Len(s) |-> s[k]]
    OBVIOUS
  <2>2. \A k \in 1 .. Len(s) : r.at[k - 1] = s[k]
    BY <1>5, <1>6
  <2> QED BY <2>1, <2>2
<1> QED BY <1>6, <1>7, <1>8 DEF r

\* What the array holds, and where.
LEMMA HoldsIs ==
  ASSUME IInv
  PROVE  /\ Array(inner) /\ inner.size \in Nat \ {0}
         /\ size \in Nat /\ size <= inner.size /\ size <= MaxSize
         /\ Contents \in Seq(Value) /\ Len(Contents) = size
         /\ \A k \in 1 .. size : Contents[k] = inner.at[k - 1] /\ Contents[k] \in Value
<1>1. Holds(inner, size, Contents)
  BY DEF IInv
<1>2. Contents \in Seq(Value) /\ Len(Contents) = size /\ \A k \in 1 .. size : Contents[k] = inner.at[k - 1]
  BY <1>1 DEF Holds
<1>3. \A k \in 1 .. size : Contents[k] \in Value
  BY <1>2, ElementOfSeq
<1>4. Array(inner) /\ inner.size \in Nat \ {0} /\ size \in 0 .. inner.size /\ size <= MaxSize
  BY <1>1 DEF Holds, Array
<1>5. size \in Nat /\ size <= inner.size
  BY <1>4
<1> QED BY <1>2, <1>3, <1>4, <1>5

\* expandTo.
LEMMA ExpandedIs ==
  ASSUME IInv, NEW n \in Nat \ {0}
  PROVE  /\ Array(Expanded(n)) /\ Expanded(n).size = n
         /\ size <= n => [k \in 1 .. size |-> Expanded(n).at[k - 1]] = Contents
<1>1. /\ size \in Nat /\ size <= inner.size /\ inner.size \in Nat
      /\ inner.at \in [0 .. inner.size - 1 -> Value \cup {NULL}]
  BY HoldsIs DEF Array
<1> DEFINE slots == [k \in 0 .. n - 1 |-> IF k < size THEN inner.at[k] ELSE NULL]
<1>2. slots \in [0 .. n - 1 -> Value \cup {NULL}]
  BY <1>1
<1>3. size <= n => [k \in 1 .. size |-> slots[k - 1]] = Contents
  BY <1>1 DEF Contents
<1>4. Expanded(n) = [size |-> n, at |-> slots]
  BY DEF Expanded
<1> HIDE DEF slots
<1>5. Expanded(n).size = n /\ Expanded(n).at = slots
  BY <1>4
<1> QED BY <1>2, <1>3, <1>4, <1>5 DEF Array

LEMMA RoomyIs ==
  ASSUME IInv, NEW n \in Nat
  PROVE  /\ Array(Roomy(n)) /\ Roomy(n).size \in Nat /\ size + n <= Roomy(n).size
         /\ [k \in 1 .. size |-> Roomy(n).at[k - 1]] = Contents
<1>1. Array(inner) /\ size \in Nat /\ size <= inner.size /\ inner.size \in Nat \ {0}
  BY HoldsIs
<1>2. CASE size + n > inner.size
  <2>1. PICK m : m = Larger(size + n, size * 2)
    OBVIOUS
  <2>2. m \in Nat \ {0} /\ size + n <= m /\ size <= m
    BY <1>1, <1>2, <2>1 DEF Larger
  <2>3. Roomy(n) = Expanded(m)
    BY <1>2, <2>1 DEF Roomy
  <2>4. /\ Array(Expanded(m)) /\ Expanded(m).size = m
        /\ size <= m => [k \in 1 .. size |-> Expanded(m).at[k - 1]] = Contents
    BY <2>2, ExpandedIs
  <2>5. m \in Nat
    BY <2>2
  <2> QED BY <2>2, <2>3, <2>4, <2>5
<1>3. CASE ~(size + n > inner.size)
  <2>1. Roomy(n) = inner
    BY <1>3 DEF Roomy
  <2>2. [k \in 1 .. size |-> inner.at[k - 1]] = Contents
    BY DEF Contents
  <2> QED BY <1>1, <1>3, <2>1, <2>2
<1> QED BY <1>2, <1>3

\* Where code of the program runs, only its loops are under way.
LEMMA OnlyBlocks ==
  ASSUME IInv, Free
  PROVE  /\ loops \in Seq(Frames) /\ Len(loops) \in Nat
         /\ \A k \in 1 .. Len(loops) : loops[k].op \in Blocks /\ Loops(loops[k], Contents)
<1>1. /\ loops \in Seq(Frames) /\ \A k \in 1 .. Len(loops) : Loops(loops[k], Contents)
      /\ \A k \in 1 .. Len(loops) - 1 : loops[k].op \in Blocks
  BY DEF IInv, Nested
<1>2. Len(loops) \in Nat /\ (loops # << >> => Len(loops) # 0)
  BY <1>1, EmptySeq
<1>3. loops # << >> => loops[Len(loops)].op \in Blocks
  BY DEF Free, Top, Blocks
<1>4. ASSUME NEW k \in 1 .. Len(loops) PROVE loops[k].op \in Blocks
  <2>1. CASE k = Len(loops)
    <3>1. loops # << >>
      BY <1>2, EmptySeq
    <3> QED BY <3>1, <2>1, <1>3
  <2>2. CASE k # Len(loops)
    <3>1. k \in 1 .. Len(loops) - 1
      BY <2>2, <1>2
    <3> QED BY <3>1, <1>1
  <2> QED BY <2>1, <2>2
<1> QED BY <1>1, <1>2, <1>4

LEMMA BlocksNest ==
  ASSUME NEW fs \in Seq(Frames), NEW i, NEW a, NEW s,
         \A k \in 1 .. Len(fs) : fs[k].op \in Blocks /\ Loops(fs[k], s)
  PROVE  Nested(fs, i, a, s)
<1>1. Len(fs) \in Nat /\ (fs # << >> => Len(fs) # 0)
  BY EmptySeq
<1>2. \A k \in 1 .. Len(fs) - 1 : fs[k].op \in Blocks
  BY <1>1
<1>3. fs # << >> => fs[Len(fs)].op # "addAll"
  BY <1>1 DEF Blocks
<1> QED BY <1>2, <1>3 DEF Nested

\* What is disturbed promises nothing, whatever becomes of the list.
LEMMA DisturbedIs ==
  ASSUME NEW fs \in Seq(Frames), NEW s, NEW t, \A k \in 1 .. Len(fs) : Loops(fs[k], s)
  PROVE  /\ Disturbed(fs) \in Seq(Frames) /\ Len(Disturbed(fs)) = Len(fs)
         /\ \A k \in 1 .. Len(fs) : Disturbed(fs)[k].op = fs[k].op /\ Loops(Disturbed(fs)[k], t)
<1> DEFINE d == Disturbed(fs)
<1>1. Len(fs) \in Nat /\ DOMAIN fs = 1 .. Len(fs)
  OBVIOUS
<1>2. ASSUME NEW k \in 1 .. Len(fs)
      PROVE  /\ d[k] = [fs[k] EXCEPT !.touched = TRUE, !.given = << >>, !.made = << >>]
             /\ d[k] \in Frames /\ d[k].op = fs[k].op /\ Loops(d[k], t)
  <2>1. d[k] = [fs[k] EXCEPT !.touched = TRUE, !.given = << >>, !.made = << >>]
    BY <1>1 DEF Disturbed
  <2>2. fs[k] \in Frames
    BY ElementOfSeq
  <2>3. << >> \in Seq(Value)
    BY EmptySeq
  <2> HIDE DEF d
  <2>4. d[k] \in Frames /\ d[k].op = fs[k].op /\ d[k].over = fs[k].over
        /\ d[k].index = fs[k].index /\ d[k].touched
    BY <2>1, <2>2, <2>3 DEF Frames
  <2>5. fs[k].op \in Blocks => fs[k].over = SELF /\ fs[k].index <= MaxSize
    BY DEF Loops
  <2>6. Loops(d[k], t)
    BY <2>4, <2>5 DEF Loops
  <2> QED BY <2>1, <2>4, <2>6
<1>3. d \in [1 .. Len(fs) -> Frames]
  <2>1. d = [k \in 1 .. Len(fs) |-> d[k]]
    BY <1>1 DEF Disturbed
  <2> HIDE DEF d
  <2> QED BY <2>1, <1>2
<1> HIDE DEF d
<1>4. d \in Seq(Frames) /\ Len(d) = Len(fs)
  BY <1>1, <1>3
<1> QED BY <1>2, <1>4 DEF d

LEMMA StaleIterates ==
  ASSUME IInv, NEW s
  PROVE  Iterates(Stale, s) /\ Stale.stale
<1>1. iter.idx \in Nat
  BY DEF IInv, Iterates
<1>2. Stale = [stale |-> TRUE, idx |-> iter.idx, given |-> << >>, made |-> << >>]
  <2>1. PICK n : n = iter.idx
    OBVIOUS
  <2>2. Stale = [[stale |-> TRUE, idx |-> 1, given |-> << >>, made |-> << >>] EXCEPT !.idx = n]
    BY <2>1 DEF Stale, NoIter
  <2> QED BY <2>1, <2>2
<1>3. << >> \in Seq(Value)
  BY EmptySeq
<1> QED BY <1>1, <1>2, <1>3 DEF Iterates

\* A request that makes the list one of elements s.
LEMMA BecomesKeeps ==
  ASSUME IInv, Free, NEW a, Array(a), NEW s \in Seq(Value),
         Len(s) <= a.size, Len(s) <= MaxSize, Becomes(a, s)
  PROVE  IInv' /\ Contents' = s
<1>1. Array(inner') /\ inner'.size = a.size /\ a.size \in Nat
      /\ [k \in 1 .. Len(s) |-> inner'.at[k - 1]] = s
  BY FilledIs DEF Becomes, Array
<1>2. Contents' = s
  BY <1>1 DEF Contents, Becomes
<1>3. Holds(inner, size, Contents)'
  <2>1. Holds(inner', size', Contents')
    <3>1. Len(s) \in 0 .. a.size
      OBVIOUS
    <3>2. \A k \in 1 .. Len(s) : s[k] = inner'.at[k - 1]
      BY <1>1
    <3> QED BY <3>1, <3>2, <1>1, <1>2 DEF Holds, Becomes
  <2> QED BY <2>1
<1>4. Iterates(iter, Contents)'
  BY StaleIterates, <1>2 DEF Becomes
<1>5. Nested(loops, iter, inner, Contents)'
  <2>1. /\ loops' \in Seq(Frames) /\ Len(loops') = Len(loops)
        /\ \A k \in 1 .. Len(loops) : loops'[k].op = loops[k].op /\ Loops(loops'[k], s)
    BY OnlyBlocks, DisturbedIs DEF Becomes
  <2>2. \A k \in 1 .. Len(loops') : loops'[k].op \in Blocks /\ Loops(loops'[k], s)
    BY <2>1, OnlyBlocks
  <2>3. Nested(loops', iter', inner', s)
    BY <2>1, <2>2, BlocksNest
  <2> QED BY <2>3, <1>2
<1> QED BY <1>2, <1>3, <1>4, <1>5 DEF IInv

\* A request that raises mods and an exception.
LEMMA FailsKeeps ==
  ASSUME IInv, Free, Fails
  PROVE  IInv' /\ Contents' = Contents
<1>1. Contents' = Contents /\ inner' = inner /\ size' = size /\ loops' = loops /\ iter' = Stale
  BY DEF Fails, Contents
<1>2. Iterates(iter', Contents)
  BY <1>1, StaleIterates
<1>3. Nested(loops, iter', inner, Contents)
  BY OnlyBlocks, BlocksNest
<1> QED BY <1>1, <1>2, <1>3 DEF IInv

\* A step that reads the list.
LEMMA ReadsKeep ==
  ASSUME IInv, UNCHANGED <<inner, size, iter, loops>>
  PROVE  IInv' /\ Contents' = Contents
<1>1. Contents' = Contents
  BY DEF Contents
<1> QED BY <1>1 DEF IInv

\* The abstract list, where the list becomes s.
LEMMA ListBecomes ==
  ASSUME NEW s, Contents' = s
  PROVE  lists' = [lists EXCEPT ![LIST] = s]
BY DEF lists

LEMMA ListIs == lists[LIST] = Contents /\ (Contents' = Contents => lists' = lists)
BY DEF lists

LEMMA PushedKeeps ==
  ASSUME ConstantsOK, IInv, Free, size < MaxSize, NEW v \in Value, Pushed(v)
  PROVE  IInv' /\ Contents' = Append(Contents, v)
<1>1. /\ Array(inner) /\ inner.size \in Nat \ {0} /\ size \in Nat /\ size <= inner.size
      /\ Contents \in Seq(Value) /\ Len(Contents) = size
  BY HoldsIs
<1>2. Append(Contents, v) \in Seq(Value) /\ Len(Append(Contents, v)) = size + 1
  BY <1>1, AppendProperties
<1>3. PICK a : a = IF Full THEN Expanded(inner.size * 2) ELSE inner
  OBVIOUS
<1>4. Array(a) /\ size + 1 <= a.size
  <2>1. CASE Full
    <3>1. inner.size * 2 \in Nat \ {0} /\ size + 1 <= inner.size * 2
      BY <1>1
    <3>2. Array(Expanded(inner.size * 2)) /\ Expanded(inner.size * 2).size = inner.size * 2
      BY <3>1, ExpandedIs
    <3> QED BY <2>1, <3>1, <3>2, <1>3
  <2>2. CASE ~Full
    BY <2>2, <1>1, <1>3 DEF Full
  <2> QED BY <2>1, <2>2
<1>5. Becomes(a, Append(Contents, v))
  BY <1>3 DEF Pushed
<1>6. size + 1 <= MaxSize
  BY <1>1 DEF ConstantsOK
<1> QED BY <1>2, <1>4, <1>5, <1>6, BecomesKeeps

LEMMA PushStep ==
  ASSUME ConstantsOK, IInv, NEW v \in Value, Push(v)
  PROVE  IInv' /\ Abstract!Next
<1>1. IInv' /\ Contents' = Append(Contents, v) /\ answer' = <<"push", LIST, v>>
  BY PushedKeeps DEF Push
<1>2. Abstract!Push(LIST, v)
  BY <1>1, ListIs, ListBecomes DEF Abstract!Push
<1> QED BY <1>1, <1>2 DEF Abstract!Next

LEMMA AtStep ==
  ASSUME IInv, NEW n \in Indices, At(n)
  PROVE  IInv' /\ Abstract!Next
<1>1. IInv' /\ Contents' = Contents
  BY ReadsKeep DEF At
<1>2. Len(Contents) = size
  BY HoldsIs
<1>3. Abstract!At(LIST, n)
  BY <1>1, <1>2, ListIs DEF At, Abstract!At, Abstract!Indices
<1> QED BY <1>1, <1>3 DEF Abstract!Next

LEMMA AtPutStep ==
  ASSUME ConstantsOK, IInv, NEW n \in Indices, NEW v \in Value, AtPut(n, v)
  PROVE  IInv' /\ Abstract!Next
<1>1. /\ Array(inner) /\ size \in Nat /\ size <= inner.size /\ size <= MaxSize
      /\ Contents \in Seq(Value) /\ Len(Contents) = size
  BY HoldsIs
<1>2. answer' = <<"atPut", LIST, n, IF n \in 1 .. size + 1 THEN v ELSE ERROR>> /\ n \in Int
  BY DEF AtPut, Indices, ConstantsOK
<1>3. IInv' /\ Contents' = IF n \in 1 .. size THEN [Contents EXCEPT ![n] = v]
                           ELSE IF n = size + 1 THEN Append(Contents, v) ELSE Contents
  <2>1. CASE n = size + 1
    <3>1. size < MaxSize /\ Free
      BY <2>1 DEF AtPut
    <3>2. Pushed(v)
      BY <2>1, <1>1 DEF AtPut
    <3> QED BY <3>1, <3>2, <2>1, <1>1, PushedKeeps
  <2>2. CASE n \in 1 .. size
    <3>1. Becomes(inner, [Contents EXCEPT ![n] = v]) /\ Free
      BY <2>2, <1>1 DEF AtPut
    <3>2. [Contents EXCEPT ![n] = v] \in Seq(Value) /\ Len([Contents EXCEPT ![n] = v]) = size
      BY <2>2, <1>1, ExceptSeq
    <3> QED BY <3>1, <3>2, <2>2, <1>1, BecomesKeeps
  <2>3. CASE n # size + 1 /\ n \notin 1 .. size
    <3>1. Fails /\ Free
      BY <2>3 DEF AtPut
    <3> QED BY <3>1, <2>3, FailsKeeps
  <2> QED BY <2>1, <2>2, <2>3
<1>4. Abstract!AtPut(LIST, n, v)
  <2>1. CASE n \in 1 .. size
    <3>1. lists' = [lists EXCEPT ![LIST] = [Contents EXCEPT ![n] = v]]
      BY <2>1, <1>3, ListBecomes
    <3> QED BY <3>1, <2>1, <1>1, <1>2, ListIs DEF Abstract!AtPut
  <2>2. CASE n \notin 1 .. size /\ n = size + 1
    <3>1. lists' = [lists EXCEPT ![LIST] = Append(Contents, v)]
      BY <2>2, <1>3, ListBecomes
    <3> QED BY <3>1, <2>2, <1>1, <1>2, ListIs DEF Abstract!AtPut
  <2>3. CASE n \notin 1 .. size /\ n # size + 1
    <3>1. lists' = lists
      BY <2>3, <1>3, ListIs
    <3> QED BY <3>1, <2>3, <1>1, <1>2, ListIs DEF Abstract!AtPut
  <2> QED BY <2>1, <2>2, <2>3
<1> QED BY <1>3, <1>4 DEF Abstract!Next

LEMMA RemoveLastStep ==
  ASSUME ConstantsOK, IInv, RemoveLast
  PROVE  IInv' /\ Abstract!Next
<1>1. /\ Array(inner) /\ size \in Nat /\ size <= inner.size /\ size <= MaxSize /\ inner.size \in Nat
      /\ Contents \in Seq(Value) /\ Len(Contents) = size /\ \A k \in 1 .. size : Contents[k] \in Value
  BY HoldsIs
<1>2. CASE size = 0
  <2>1. IInv' /\ Contents' = Contents /\ answer' = <<"pop", LIST, ERROR>>
    BY <1>2, FailsKeeps DEF RemoveLast
  <2>2. Abstract!Pop(LIST)
    BY <2>1, <1>1, <1>2, ListIs DEF Abstract!Pop
  <2> QED BY <2>1, <2>2 DEF Abstract!Next
<1>3. CASE size # 0
  <2>1. Free /\ Becomes(inner, SubSeq(Contents, 1, size - 1)) /\ answer' = <<"pop", LIST, Contents[size]>>
    BY <1>3 DEF RemoveLast
  <2>2. SubSeq(Contents, 1, size - 1) \in Seq(Value) /\ Len(SubSeq(Contents, 1, size - 1)) = size - 1
    BY <1>1, <1>3, SubSeqProperties
  <2>3. size - 1 <= inner.size /\ size - 1 <= MaxSize
    BY <1>1 DEF ConstantsOK
  <2>4. IInv' /\ Contents' = SubSeq(Contents, 1, size - 1)
    BY <2>1, <2>2, <2>3, <1>1, BecomesKeeps
  <2>5. Abstract!Pop(LIST)
    BY <2>1, <2>4, <1>1, <1>3, ListIs, ListBecomes DEF Abstract!Pop
  <2> QED BY <2>4, <2>5 DEF Abstract!Next
<1> QED BY <1>2, <1>3

LEMMA AddFirstStep ==
  ASSUME ConstantsOK, IInv, NEW v \in Value, AddFirst(v)
  PROVE  IInv' /\ Abstract!Next
<1>1. /\ Array(inner) /\ size \in Nat /\ size <= inner.size /\ inner.size \in Nat \ {0}
      /\ Contents \in Seq(Value) /\ Len(Contents) = size /\ size < MaxSize
  BY HoldsIs DEF AddFirst
<1>2. <<v>> \o Contents \in Seq(Value) /\ Len(<<v>> \o Contents) = 1 + size
  BY <1>1, ConcatProperties
<1>3. PICK a : a = IF size + 1 > inner.size THEN Expanded(size * 2) ELSE inner
  OBVIOUS
<1>4. Array(a) /\ 1 + size <= a.size
  <2>1. CASE size + 1 > inner.size
    <3>1. size * 2 \in Nat \ {0} /\ 1 + size <= size * 2
      BY <2>1, <1>1
    <3>2. Array(Expanded(size * 2)) /\ Expanded(size * 2).size = size * 2
      BY <3>1, ExpandedIs
    <3> QED BY <2>1, <3>1, <3>2, <1>3
  <2>2. CASE ~(size + 1 > inner.size)
    BY <2>2, <1>1, <1>3
  <2> QED BY <2>1, <2>2
<1>5. Becomes(a, <<v>> \o Contents) /\ Free /\ answer' = <<"addFirst", LIST, v>>
  BY <1>3 DEF AddFirst
<1>6. 1 + size <= MaxSize
  BY <1>1 DEF ConstantsOK
<1>7. IInv' /\ Contents' = <<v>> \o Contents
  BY <1>2, <1>4, <1>5, <1>6, BecomesKeeps
<1>8. Abstract!AddFirst(LIST, v)
  BY <1>5, <1>7, ListIs, ListBecomes DEF Abstract!AddFirst
<1> QED BY <1>7, <1>8 DEF Abstract!Next

LEMMA WithoutIs ==
  ASSUME IInv, NEW n \in 1 .. size
  PROVE  /\ Without(n) \in Seq(Value) /\ Len(Without(n)) = size - 1
         /\ Without(n) = SubSeq(Contents, 1, n - 1) \o SubSeq(Contents, n + 1, Len(Contents))
<1>1. /\ size \in Nat /\ Contents \in Seq(Value) /\ Len(Contents) = size
      /\ \A k \in 1 .. size : Contents[k] \in Value
  BY HoldsIs
<1> DEFINE w == Without(n)
           s == SubSeq(Contents, 1, n - 1)
           t == SubSeq(Contents, n + 1, Len(Contents))
<1>2. size - 1 \in Nat /\ \A k \in 1 .. size - 1 : (IF k < n THEN k ELSE k + 1) \in 1 .. size
  BY <1>1
<1>3. w = [k \in 1 .. size - 1 |-> Contents[IF k < n THEN k ELSE k + 1]]
  BY DEF Without
<1>4. \A k \in 1 .. size - 1 : Contents[IF k < n THEN k ELSE k + 1] \in Value
  BY <1>1, <1>2
<1>5. w \in Seq(Value) /\ Len(w) = size - 1
  <2>1. w \in [1 .. size - 1 -> Value]
    BY <1>3, <1>4
  <2> HIDE DEF w
  <2> QED BY <2>1, <1>2
<1>6. s \in Seq(Value) /\ Len(s) = n - 1 /\ \A k \in 1 .. n - 1 : s[k] = Contents[k]
  <2>1. \A k \in 1 .. n - 1 : Contents[k] \in Value
    BY <1>1
  <2> QED BY <2>1, <1>1, SubSeqProperties
<1>7. t \in Seq(Value) /\ Len(t) = size - n /\ \A k \in 1 .. size - n : t[k] = Contents[n + k]
  <2>1. \A k \in n + 1 .. size : Contents[k] \in Value
    BY <1>1
  <2> QED BY <2>1, <1>1, SubSeqProperties
<1> HIDE DEF w, s, t
<1>8. /\ s \o t \in Seq(Value) /\ Len(s \o t) = size - 1
      /\ \A k \in 1 .. size - 1 : (s \o t)[k] = IF k <= n - 1 THEN s[k] ELSE t[k - (n - 1)]
  <2>1. /\ s \o t \in Seq(Value) /\ Len(s \o t) = Len(s) + Len(t)
        /\ \A k \in 1 .. Len(s) + Len(t) : (s \o t)[k] = IF k <= Len(s) THEN s[k] ELSE t[k - Len(s)]
    BY <1>6, <1>7, ConcatProperties
  <2>2. Len(s) = n - 1 /\ Len(s) + Len(t) = size - 1
    BY <1>1, <1>6, <1>7
  <2> QED BY <2>1, <2>2
<1>9. ASSUME NEW k \in 1 .. size - 1 PROVE w[k] = (s \o t)[k]
  <2>1. CASE k < n
    BY <2>1, <1>1, <1>3, <1>6, <1>8
  <2>2. CASE ~(k < n)
    <3>1. k - (n - 1) \in 1 .. size - n /\ n + (k - (n - 1)) = k + 1 /\ ~(k <= n - 1)
      BY <2>2, <1>1
    <3>2. (s \o t)[k] = Contents[k + 1]
      BY <3>1, <1>7, <1>8
    <3> QED BY <3>2, <2>2, <1>3
  <2> QED BY <2>1, <2>2
<1>10. w = s \o t
  BY <1>5, <1>8, <1>9, SeqEqual
<1> QED BY <1>5, <1>10 DEF w, s, t

\* The first of the elements equal to v.
LEMMA FirstIs ==
  ASSUME IInv, NEW v, Found(v)
  PROVE  /\ indexOf(v) \in 1 .. size /\ Contents[indexOf(v)] = v
         /\ \A k \in 1 .. size : Contents[k] = v => indexOf(v) <= k
<1>1. size \in Nat
  BY HoldsIs
<1> DEFINE places == {k \in 1 .. size : Contents[k] = v}
<1>2. places # {} /\ places \subseteq Nat
  BY <1>1 DEF Found
<1>3. PICK n \in places : \A k \in places : n <= k
  <2> HIDE DEF places
  <2> QED BY <1>2, Smallest
<1>4. n \in 1 .. size /\ Contents[n] = v /\ v \notin {Contents[k] : k \in 1 .. n - 1}
  BY <1>1, <1>3
<1>5. /\ indexOf(v) \in 1 .. size /\ Contents[indexOf(v)] = v
      /\ v \notin {Contents[k] : k \in 1 .. indexOf(v) - 1}
  BY <1>4 DEF indexOf
<1> QED BY <1>1, <1>5

LEMMA RemoveAtStep ==
  ASSUME ConstantsOK, IInv, NEW n \in Indices, RemoveAt(n)
  PROVE  IInv' /\ Abstract!Next
<1>1. /\ Array(inner) /\ size \in Nat /\ size <= inner.size /\ size <= MaxSize /\ inner.size \in Nat
      /\ Len(Contents) = size /\ MaxSize \in Nat
  BY HoldsIs DEF ConstantsOK
<1>2. answer' = <<"removeAt", LIST, n, IF n \in 1 .. size THEN Contents[n] ELSE ERROR>>
  BY DEF RemoveAt
<1>3. CASE n \in 1 .. size
  <2>1. Free /\ Becomes(inner, Without(n))
    BY <1>3 DEF RemoveAt
  <2>2. /\ Without(n) \in Seq(Value) /\ Len(Without(n)) = size - 1
        /\ Without(n) = SubSeq(Contents, 1, n - 1) \o SubSeq(Contents, n + 1, Len(Contents))
    BY <1>3, WithoutIs
  <2>3. size - 1 <= inner.size /\ size - 1 <= MaxSize
    BY <1>1
  <2>4. IInv' /\ Contents' = Without(n)
    BY <2>1, <2>2, <2>3, <1>1, BecomesKeeps
  <2>5. Abstract!RemoveAt(LIST, n)
    BY <2>2, <2>4, <1>1, <1>2, <1>3, ListIs, ListBecomes
       DEF Abstract!RemoveAt, Abstract!Indices, Abstract!Without
  <2> QED BY <2>4, <2>5 DEF Abstract!Next
<1>4. CASE n \notin 1 .. size
  <2>1. IInv' /\ Contents' = Contents
    BY <1>4, FailsKeeps DEF RemoveAt
  <2>2. Abstract!RemoveAt(LIST, n)
    BY <2>1, <1>1, <1>2, <1>4, ListIs DEF Abstract!RemoveAt, Abstract!Indices
  <2> QED BY <2>1, <2>2 DEF Abstract!Next
<1> QED BY <1>3, <1>4

\* The abstract list lets go of its first v, if it has one.
LEMMA FirstGoes ==
  ASSUME IInv, NEW v \in Value, answer' = <<"remove", LIST, v, Found(v)>>,
         Contents' = IF Found(v) THEN Without(indexOf(v)) ELSE Contents
  PROVE  Abstract!Next
<1>1. Len(Contents) = size /\ lists[LIST] = Contents
  BY HoldsIs, ListIs
<1> DEFINE equal == {i \in Abstract!Indices(LIST) : lists[LIST][i] = v}
<1>2. equal = {i \in 1 .. size : Contents[i] = v} /\ (Found(v) <=> equal # {})
  BY <1>1 DEF Abstract!Indices, Found
<1>3. Abstract!Remove(LIST, v)
  <2>1. CASE Found(v)
    <3>1. /\ indexOf(v) \in 1 .. size /\ Contents[indexOf(v)] = v
          /\ \A k \in 1 .. size : Contents[k] = v => indexOf(v) <= k
      BY <2>1, FirstIs
    <3>2. Without(indexOf(v)) = Abstract!Without(LIST, indexOf(v))
      BY <3>1, <1>1, WithoutIs DEF Abstract!Without
    <3>3. lists' = [lists EXCEPT ![LIST] = Abstract!Without(LIST, indexOf(v))]
      BY <2>1, <3>2, ListBecomes
    <3>4. indexOf(v) \in equal /\ \A k \in equal : indexOf(v) <= k
      BY <3>1, <1>2
    <3> HIDE DEF equal
    <3>5. answer' = <<"remove", LIST, v, equal # {}>> /\ equal # {}
      BY <2>1, <1>2
    <3> QED BY <3>3, <3>4, <3>5 DEF Abstract!Remove, equal
  <2>2. CASE ~Found(v)
    <3>1. lists' = lists
      BY <2>2, ListIs
    <3>0. Found(v) = FALSE /\ equal = {}
      BY <2>2, <1>2 DEF Found
    <3> HIDE DEF equal
    <3>2. answer' = <<"remove", LIST, v, equal # {}>> /\ equal = {}
      BY <3>0
    <3> QED BY <3>1, <3>2 DEF Abstract!Remove, equal
  <2> QED BY <2>1, <2>2
<1> QED BY <1>3 DEF Abstract!Next

LEMMA RemoveStep ==
  ASSUME ConstantsOK, IInv, NEW v \in Value, Remove(v)
  PROVE  IInv' /\ Abstract!Next
<1>1. IInv' /\ Contents' = IF Found(v) THEN Without(indexOf(v)) ELSE Contents
  <2>1. CASE Found(v)
    <3>1. Free /\ Becomes(inner, Without(indexOf(v)))
      BY <2>1 DEF Remove
    <3>2. Without(indexOf(v)) \in Seq(Value) /\ Len(Without(indexOf(v))) = size - 1
      BY <2>1, FirstIs, WithoutIs
    <3>3. Array(inner) /\ size - 1 <= inner.size /\ size - 1 <= MaxSize
      BY HoldsIs DEF ConstantsOK
    <3> QED BY <2>1, <3>1, <3>2, <3>3, BecomesKeeps
  <2>2. CASE ~Found(v)
    BY <2>2, ReadsKeep DEF Remove
  <2> QED BY <2>1, <2>2
<1>2. answer' = <<"remove", LIST, v, Found(v)>>
  BY DEF Remove
<1> QED BY <1>1, <1>2, FirstGoes

LEMMA ReverseStep ==
  ASSUME IInv, Reverse
  PROVE  IInv' /\ Abstract!Next
<1>1. /\ Array(inner) /\ size \in Nat /\ size <= inner.size /\ size <= MaxSize
      /\ Len(Contents) = size /\ \A k \in 1 .. size : Contents[k] \in Value
  BY HoldsIs
<1> DEFINE s == [k \in 1 .. size |-> Contents[size + 1 - k]]
<1>2. s \in Seq(Value) /\ Len(s) = size
  <2>1. s \in [1 .. size -> Value]
    BY <1>1
  <2> HIDE DEF s
  <2> QED BY <2>1, <1>1
<1>3. Free /\ Becomes(inner, s) /\ answer' = <<"reverse", LIST>>
  BY DEF Reverse
<1>4. IInv' /\ Contents' = s
  <2> HIDE DEF s
  <2> QED BY <1>1, <1>2, <1>3, BecomesKeeps
<1>5. Abstract!Reverse(LIST)
  <2>1. lists' = [lists EXCEPT ![LIST] = s]
    BY <1>4, ListBecomes
  <2>2. s = [k \in Abstract!Indices(LIST) |-> lists[LIST][Len(lists[LIST]) + 1 - k]]
    BY <1>1, ListIs DEF Abstract!Indices
  <2> HIDE DEF s
  <2> QED BY <2>1, <2>2, <1>3 DEF Abstract!Reverse
<1> QED BY <1>4, <1>5 DEF Abstract!Next

\* An argument's elements.
LEMMA ArgumentIs ==
  ASSUME IInv, NEW arg \in Arguments
  PROVE  /\ Elements(arg) \in Seq(Value) /\ Len(Elements(arg)) \in Nat
         /\ Elements(arg) \in {Contents} \cup {<<v, w>> : v, w \in Value}
         /\ arg # SELF => arg \in Seq(Value)
<1>1. Contents \in Seq(Value)
  BY HoldsIs
<1>2. \A v, w \in Value : <<v, w>> \in Seq(Value)
  OBVIOUS
<1>3. arg # SELF => \E v, w \in Value : arg = <<v, w>>
  BY DEF Arguments
<1>4. Elements(arg) \in {Contents} \cup {<<v, w>> : v, w \in Value}
  BY <1>3 DEF Elements
<1>5. Elements(arg) \in Seq(Value)
  <2>1. CASE arg = SELF
    BY <2>1, <1>1 DEF Elements
  <2>2. CASE arg # SELF
    <3>1. PICK v, w \in Value : arg = <<v, w>>
      BY <2>2, <1>3
    <3>2. Elements(arg) = <<v, w>>
      BY <2>2, <3>1 DEF Elements
    <3> QED BY <3>2, <1>2
  <2> QED BY <2>1, <2>2
<1>6. arg # SELF => arg \in Seq(Value)
  BY <1>2, <1>3
<1> QED BY <1>4, <1>5, <1>6

LEMMA AddAllFirstStep ==
  ASSUME ConstantsOK, IInv, NEW arg \in Arguments, AddAllFirst(arg)
  PROVE  IInv' /\ Abstract!Next
<1>1. PICK s : s = Elements(arg)
  OBVIOUS
<1>2. s \in Seq(Value) /\ Len(s) \in Nat /\ s \in {lists[LIST]} \cup {<<v, w>> : v, w \in Value}
  BY <1>1, ArgumentIs, ListIs
<1>3. size \in Nat /\ Contents \in Seq(Value) /\ Len(Contents) = size
  BY HoldsIs
<1>4. /\ Free /\ size + Len(s) <= MaxSize /\ Becomes(Roomy(Len(s)), s \o Contents)
      /\ answer' = <<"addAllFirst", LIST, s>>
  BY <1>1 DEF AddAllFirst
<1>5. Array(Roomy(Len(s))) /\ size + Len(s) <= Roomy(Len(s)).size
  BY <1>2, RoomyIs
<1>6. s \o Contents \in Seq(Value) /\ Len(s \o Contents) = size + Len(s)
  <2>1. s \in Seq(Value) /\ Contents \in Seq(Value)
    BY <1>2, <1>3
  <2>2. s \o Contents \in Seq(Value) /\ Len(s \o Contents) = Len(s) + Len(Contents)
    BY <2>1, ConcatProperties
  <2> QED BY <2>2, <1>2, <1>3
<1>7. IInv' /\ Contents' = s \o Contents
  BY <1>4, <1>5, <1>6, BecomesKeeps
<1>8. Abstract!AddAllFirst(LIST, s)
  BY <1>4, <1>7, ListIs, ListBecomes DEF Abstract!AddAllFirst
<1> QED BY <1>2, <1>7, <1>8 DEF Abstract!Next

----------------------------------------------------------------------------
\* The innermost loop, and those around it.
LEMMA TopIs ==
  ASSUME IInv, loops # << >>
  PROVE  /\ Top \in Frames /\ Loops(Top, Contents)
         /\ Top.op = "addAll" => Adds(Top, iter, inner, Contents)
         /\ Outer \in Seq(Frames) /\ Len(Outer) = Len(loops) - 1 /\ Len(loops) \in Nat \ {0}
         /\ \A k \in 1 .. Len(Outer) : Outer[k].op \in Blocks /\ Loops(Outer[k], Contents)
<1>1. /\ loops \in Seq(Frames) /\ \A k \in 1 .. Len(loops) : Loops(loops[k], Contents)
      /\ \A k \in 1 .. Len(loops) - 1 : loops[k].op \in Blocks
      /\ loops[Len(loops)].op = "addAll" => Adds(loops[Len(loops)], iter, inner, Contents)
  BY DEF IInv, Nested
<1>2. Len(loops) \in Nat \ {0} /\ \A k \in 1 .. Len(loops) : loops[k] \in Frames
  BY <1>1, EmptySeq, ElementOfSeq
<1>3. Len(loops) \in 1 .. Len(loops) /\ Len(loops) - 1 \in 0 .. Len(loops)
  BY <1>2
<1>4. /\ Outer \in Seq(Frames) /\ Len(Outer) = Len(loops) - 1
      /\ \A k \in 1 .. Len(loops) - 1 : Outer[k] = loops[k]
  BY <1>1, <1>3, SplitAt DEF Outer
<1>5. \A k \in 1 .. Len(Outer) : k \in 1 .. Len(loops)
  BY <1>2, <1>4
<1> QED BY <1>1, <1>2, <1>3, <1>4, <1>5 DEF Top

\* An exception cuts the loops down to blocks of the program.
LEMMA LeftNest ==
  ASSUME IInv, loops # << >>, Left(Outer), NEW i, NEW a
  PROVE  Nested(loops', i, a, Contents)
<1>1. /\ Outer \in Seq(Frames) /\ Len(Outer) \in Nat
      /\ \A k \in 1 .. Len(Outer) : Outer[k].op \in Blocks /\ Loops(Outer[k], Contents)
  BY TopIs
<1>2. PICK n \in 0 .. Len(Outer) : loops' = SubSeq(Outer, 1, n)
  BY DEF Left
<1>3. loops' \in Seq(Frames) /\ Len(loops') = n /\ \A k \in 1 .. n : loops'[k] = Outer[k]
  BY <1>1, <1>2, SplitAt
<1>4. \A k \in 1 .. Len(loops') : loops'[k].op \in Blocks /\ Loops(loops'[k], Contents)
  BY <1>1, <1>3
<1> QED BY <1>3, <1>4, BlocksNest

\* One more loop, within blocks.
LEMMA InnerNests ==
  ASSUME NEW fs \in Seq(Frames), NEW i, NEW a, NEW s,
         \A k \in 1 .. Len(fs) : fs[k].op \in Blocks /\ Loops(fs[k], s),
         NEW f, Loops(f, s), f.op = "addAll" => Adds(f, i, a, s)
  PROVE  Nested(Append(fs, f), i, a, s)
<1>1. f \in Frames /\ Len(fs) \in Nat
  BY DEF Loops
<1>2. /\ Append(fs, f) \in Seq(Frames) /\ Len(Append(fs, f)) = Len(fs) + 1
      /\ \A k \in 1 .. Len(fs) : Append(fs, f)[k] = fs[k]
      /\ Append(fs, f)[Len(fs) + 1] = f
  BY <1>1, AppendProperties
<1>3. ASSUME NEW k \in 1 .. Len(fs) + 1 PROVE Loops(Append(fs, f)[k], s)
  <2>1. k = Len(fs) + 1 \/ k \in 1 .. Len(fs)
    BY <1>1
  <2> QED BY <2>1, <1>2
<1>4. (Len(fs) + 1) - 1 = Len(fs)
  BY <1>1
<1> QED BY <1>2, <1>3, <1>4 DEF Nested

\* A loop that starts.
LEMMA LoopIs ==
  ASSUME IInv, NEW op \in Blocks \cup {"addAll", "removeAll"}, NEW arg \in Arguments,
         op \in Blocks => arg = SELF, ConstantsOK
  PROVE  /\ Loops(Loop(op, arg), Contents) /\ Loop(op, arg).op = op /\ Loop(op, arg).over = arg
         /\ Loop(op, arg).index = 0 /\ Loop(op, arg).made = Contents /\ ~Loop(op, arg).touched
<1>1. size \in Nat /\ Contents \in Seq(Value) /\ Len(Contents) = size /\ << >> \in Seq(Value)
      /\ MaxSize \in Nat
  BY HoldsIs, EmptySeq DEF ConstantsOK
<1>2. PICK f : f = Loop(op, arg)
  OBVIOUS
<1>3. f = [op |-> op, over |-> arg, index |-> 0, len |-> size,
           given |-> << >>, made |-> Contents, touched |-> FALSE]
  BY <1>2 DEF Loop
<1>4. /\ f.op = op /\ f.over = arg /\ f.index = 0 /\ f.len = size /\ f.given = << >>
      /\ f.made = Contents /\ f.touched = FALSE
  BY <1>3
<1>5. f \in Frames
  BY <1>1, <1>3 DEF Frames
<1>6. SubSeq(Contents, 1, 0) = << >>
  BY <1>1, SubSeqEmpty
<1>7. Loops(f, Contents)
  BY <1>1, <1>4, <1>5, <1>6 DEF Loops
<1> QED BY <1>2, <1>4, <1>7

LEMMA Grown ==
  ASSUME NEW A, NEW s \in Seq(A), NEW n \in Nat, n < Len(s)
  PROVE  Append(SubSeq(s, 1, n), s[n + 1]) = SubSeq(s, 1, n + 1)
<1>1. Len(s) \in Nat /\ n + 1 \in 1 .. Len(s) /\ n \in 0 .. Len(s) /\ n + 1 \in 0 .. Len(s)
  OBVIOUS
<1>2. s[n + 1] \in A
  BY <1>1, ElementOfSeq
<1>3. /\ SubSeq(s, 1, n) \in Seq(A) /\ Len(SubSeq(s, 1, n)) = n
      /\ \A k \in 1 .. n : SubSeq(s, 1, n)[k] = s[k]
  BY <1>1, SplitAt
<1>4. /\ SubSeq(s, 1, n + 1) \in Seq(A) /\ Len(SubSeq(s, 1, n + 1)) = n + 1
      /\ \A k \in 1 .. n + 1 : SubSeq(s, 1, n + 1)[k] = s[k]
  BY <1>1, SplitAt
<1> DEFINE p == SubSeq(s, 1, n)
           q == SubSeq(s, 1, n + 1)
<1> HIDE DEF p, q
<1>5. /\ Append(p, s[n + 1]) \in Seq(A) /\ Len(Append(p, s[n + 1])) = Len(p) + 1
      /\ \A k \in 1 .. Len(p) : Append(p, s[n + 1])[k] = p[k]
      /\ Append(p, s[n + 1])[Len(p) + 1] = s[n + 1]
  BY <1>2, <1>3, AppendProperties DEF p
<1>6. Len(p) = n /\ \A k \in 1 .. n : p[k] = s[k]
  BY <1>3 DEF p
<1>7. q \in Seq(A) /\ Len(q) = n + 1 /\ \A k \in 1 .. n + 1 : q[k] = s[k]
  BY <1>4 DEF q
<1>8. ASSUME NEW k \in 1 .. n + 1 PROVE Append(p, s[n + 1])[k] = q[k]
  <2>1. k \in 1 .. n \/ k = n + 1
    OBVIOUS
  <2> QED BY <2>1, <1>5, <1>6, <1>7
<1>9. Append(p, s[n + 1]) = q
  BY <1>5, <1>6, <1>7, <1>8, SeqEqual
<1> QED BY <1>9 DEF p, q

LEMMA JoinedGrown ==
  ASSUME NEW A, NEW r \in Seq(A), NEW s \in Seq(A), NEW n \in Nat, n < Len(s)
  PROVE  r \o SubSeq(s, 1, n + 1) = Append(r \o SubSeq(s, 1, n), s[n + 1])
<1>1. n \in 0 .. Len(s) /\ n + 1 \in 1 .. Len(s)
  OBVIOUS
<1>2. SubSeq(s, 1, n) \in Seq(A) /\ s[n + 1] \in A
  BY <1>1, SplitAt, ElementOfSeq
<1>3. Append(SubSeq(s, 1, n), s[n + 1]) = SubSeq(s, 1, n + 1)
  BY Grown
<1>4. PICK p, x : p = SubSeq(s, 1, n) /\ x = s[n + 1]
  OBVIOUS
<1>5. Append(p, x) = p \o <<x>> /\ Append(r \o p, x) = (r \o p) \o <<x>>
  <2>1. p \in Seq(A) /\ x \in A /\ r \o p \in Seq(A)
    BY <1>2, <1>4, ConcatProperties
  <2> QED BY <2>1, AppendIsConcat
<1>6. r \o (p \o <<x>>) = (r \o p) \o <<x>>
  <2>1. p \in Seq(A) /\ <<x>> \in Seq(A)
    BY <1>2, <1>4
  <2> QED BY <2>1, ConcatAssociative
<1> QED BY <1>3, <1>4, <1>5, <1>6

LEMMA LoopStartsStep ==
  ASSUME ConstantsOK, IInv, NEW op \in Blocks, LoopStarts(op)
  PROVE  IInv' /\ UNCHANGED <<lists, answer>>
<1>1. /\ Contents' = Contents /\ lists' = lists
      /\ inner' = inner /\ size' = size /\ iter' = iter /\ answer' = answer
      /\ loops' = Append(loops, Loop(op, SELF)) /\ Free
  BY DEF LoopStarts, Contents, lists
<1>2. Loops(Loop(op, SELF), Contents) /\ Loop(op, SELF).op # "addAll"
  <2>1. SELF \in Arguments /\ op # "addAll"
    BY DEF Arguments, Blocks
  <2> QED BY <2>1, LoopIs
<1>3. Nested(loops', iter, inner, Contents)
  BY <1>1, <1>2, OnlyBlocks, InnerNests
<1> QED BY <1>1, <1>3 DEF IInv

\* What a loop that goes on has given.
LEMMA AdvancedIs ==
  ASSUME NEW f \in Frames, NEW v \in Value
  PROVE  /\ Advanced(f, v) \in Frames
         /\ Advanced(f, v).op = f.op /\ Advanced(f, v).over = f.over
         /\ Advanced(f, v).index = f.index + 1 /\ Advanced(f, v).len = f.len
         /\ Advanced(f, v).made = f.made /\ Advanced(f, v).touched = f.touched
         /\ ~f.touched => Advanced(f, v).given = Append(f.given, v)
<1>1. PICK g : g = IF f.touched THEN f.given ELSE Append(f.given, v)
  OBVIOUS
<1>2. g \in Seq(Value)
  <2>1. f.given \in Seq(Value)
    BY DEF Frames
  <2>2. Append(f.given, v) \in Seq(Value)
    BY <2>1, AppendProperties
  <2> QED BY <1>1, <2>1, <2>2
<1>3. Advanced(f, v) = [f EXCEPT !.index = f.index + 1, !.given = g]
  BY <1>1 DEF Advanced, Frames
<1>4. f.index + 1 \in Nat
  BY DEF Frames
<1> QED BY <1>1, <1>2, <1>3, <1>4 DEF Frames

\* The element that a round of a loop is about.
LEMMA CurrentIs ==
  ASSUME IInv, loops # << >>, ~AtEnd, Top.op # "keysAndValuesDo" \/ Top.index < size
  PROVE  /\ Current \in Value /\ Top.index \in Nat
         /\ Top.over = SELF => Top.index < size /\ Current = Contents[Top.index + 1]
         /\ Top.over # SELF => /\ Top.over \in Seq(Value) /\ Top.index < Len(Top.over)
                               /\ Current = Top.over[Top.index + 1]
<1>1. /\ size \in Nat /\ \A k \in 1 .. size : Contents[k] = inner.at[k - 1] /\ Contents[k] \in Value
  BY HoldsIs
<1>2. /\ Top.index \in Nat /\ Top.over \in Arguments
      /\ Top.op \in Blocks => Top.over = SELF
  BY TopIs DEF Loops, Frames
<1>3. CASE Top.over = SELF
  <2>1. Top.index < size
    BY <1>1, <1>2, <1>3 DEF AtEnd
  <2>2. Top.index + 1 \in 1 .. size /\ (Top.index + 1) - 1 = Top.index
    BY <2>1, <1>1, <1>2
  <2>3. Current = Contents[Top.index + 1] /\ Current \in Value
    BY <2>2, <1>1, <1>3 DEF Current
  <2> QED BY <2>1, <2>3, <1>2, <1>3
<1>4. CASE Top.over # SELF
  <2>1. Top.over \in Seq(Value)
    BY <1>2, <1>4, ArgumentIs
  <2>2. Len(Top.over) \in Nat
    BY <2>1
  <2>3. Top.index < Len(Top.over)
    <3>1. Top.op # "keysAndValuesDo"
      BY <1>2, <1>4 DEF Blocks
    <3>2. ~(Top.index >= Len(Top.over))
      BY <3>1, <1>4 DEF AtEnd
    <3> QED BY <3>2, <2>2, <1>2
  <2>4. Top.index + 1 \in 1 .. Len(Top.over)
    BY <2>2, <2>3, <1>2
  <2>5. Current = Top.over[Top.index + 1] /\ Current \in Value
    BY <2>1, <2>4, <1>4, ElementOfSeq DEF Current
  <2> QED BY <2>1, <2>3, <2>5, <1>2, <1>4
<1> QED BY <1>3, <1>4

LEMMA DoRoundStep ==
  ASSUME ConstantsOK, IInv, DoRound
  PROVE  IInv' /\ Abstract!Next
<1>1. /\ Contents' = Contents /\ lists' = lists /\ inner' = inner /\ size' = size /\ iter' = iter
      /\ loops' = Append(Outer, Advanced(Top, Current)) /\ loops # << >> /\ ~AtEnd
      /\ Top.op \in Blocks /\ Top.index < size
      /\ answer' = <<"each", LIST, Top.index + 1, Current>>
  BY DEF DoRound, Running, Contents, lists, Blocks
<1>2. /\ Top \in Frames /\ Loops(Top, Contents) /\ Outer \in Seq(Frames)
      /\ \A k \in 1 .. Len(Outer) : Outer[k].op \in Blocks /\ Loops(Outer[k], Contents)
  BY <1>1, TopIs
<1>3. Top.over = SELF /\ Top.index \in Nat /\ Top.op # "addAll"
  BY <1>1, <1>2 DEF Loops, Frames, Blocks
<1>4. Current \in Value /\ Current = Contents[Top.index + 1]
  BY <1>1, <1>3, CurrentIs
<1>5. /\ size \in Nat /\ size <= MaxSize /\ MaxSize \in Nat
      /\ Contents \in Seq(Value) /\ Len(Contents) = size
  BY HoldsIs DEF ConstantsOK
<1>6. PICK f : f = Advanced(Top, Current)
  OBVIOUS
<1>7. /\ f \in Frames /\ f.op = Top.op /\ f.over = SELF /\ f.index = Top.index + 1 /\ f.len = Top.len
      /\ f.made = Top.made /\ f.touched = Top.touched
      /\ ~f.touched => f.given = Append(Top.given, Current)
  BY <1>2, <1>3, <1>4, <1>6, AdvancedIs
<1>8. f.index <= MaxSize /\ f.index <= Len(Contents) /\ Top.index < Len(Contents)
  BY <1>1, <1>3, <1>5, <1>7
<1>9. Loops(f, Contents)
  <2>1. CASE f.touched
    BY <2>1, <1>7, <1>8 DEF Loops
  <2>2. CASE ~f.touched
    <3>1. /\ Top.made = Contents /\ Top.given = SubSeq(Contents, 1, Top.index)
          /\ Top.op = "keysAndValuesDo" => Top.len = Len(Contents)
      BY <2>2, <1>1, <1>2, <1>3, <1>7 DEF Loops
    <3>2. f.given = SubSeq(Contents, 1, f.index)
      BY <3>1, <2>2, <1>3, <1>4, <1>5, <1>7, <1>8, Grown
    <3> QED BY <3>1, <3>2, <1>7, <1>8 DEF Loops
  <2> QED BY <2>1, <2>2
<1>10. Nested(loops', iter, inner, Contents)
  BY <1>1, <1>2, <1>3, <1>6, <1>7, <1>9, InnerNests
<1>11. IInv'
  BY <1>1, <1>10 DEF IInv
<1>12. Abstract!Each(LIST, Top.index + 1) /\ Top.index + 1 \in Indices
  <2>1. Top.index + 1 \in 1 .. size /\ Top.index + 1 \in Indices
    BY <1>1, <1>3, <1>5 DEF Indices
  <2> QED BY <2>1, <1>1, <1>4, <1>5, ListIs DEF Abstract!Each, Abstract!Indices
<1> QED BY <1>11, <1>12 DEF Abstract!Next

LEMMA LoopReturnsStep ==
  ASSUME ConstantsOK, IInv, LoopReturns
  PROVE  IInv' /\ (Abstract!Next \/ UNCHANGED <<lists, answer>>)
<1>1. /\ Contents' = Contents /\ lists' = lists /\ inner' = inner /\ size' = size /\ iter' = iter
      /\ loops # << >> /\ loops' = Outer /\ AtEnd
      /\ answer' = IF Top.op = "do" THEN <<"done", LIST, Top.index + 1>> ELSE answer
  BY DEF LoopReturns, Contents, lists
<1>2. /\ Loops(Top, Contents) /\ Outer \in Seq(Frames)
      /\ \A k \in 1 .. Len(Outer) : Outer[k].op \in Blocks /\ Loops(Outer[k], Contents)
  BY <1>1, TopIs
<1>3. Nested(loops', iter, inner, Contents)
  BY <1>1, <1>2, BlocksNest
<1>4. IInv'
  BY <1>1, <1>3 DEF IInv
<1>5. CASE Top.op = "do"
  <2>1. Top.over = SELF /\ Top.index <= MaxSize /\ Top.index \in Nat
    BY <1>2, <1>5 DEF Loops, Blocks, Frames
  <2>2. Top.index >= size /\ size \in Nat /\ Len(Contents) = size /\ MaxSize \in Nat
    BY <2>1, <1>1, <1>5, HoldsIs DEF AtEnd, ConstantsOK
  <2>3. Top.index + 1 > Len(Contents) /\ Top.index + 1 \in Indices
    BY <2>1, <2>2 DEF Indices
  <2>4. Abstract!Done(LIST, Top.index + 1)
    BY <2>3, <1>1, <1>5, ListIs DEF Abstract!Done
  <2> QED BY <2>3, <2>4, <1>4 DEF Abstract!Next
<1>6. CASE Top.op # "do"
  BY <1>1, <1>4, <1>6
<1> QED BY <1>5, <1>6

LEMMA LoopsAreLeftStep ==
  ASSUME IInv, LoopsAreLeft
  PROVE  IInv' /\ UNCHANGED <<lists, answer>>
<1>1. /\ Contents' = Contents /\ lists' = lists /\ inner' = inner /\ size' = size /\ iter' = iter
      /\ loops # << >> /\ Left(Outer) /\ answer' = answer
  BY DEF LoopsAreLeft, Contents, lists
<1>2. Nested(loops', iter, inner, Contents)
  BY <1>1, LeftNest
<1> QED BY <1>1, <1>2 DEF IInv

LEMMA AddAllStartsStep ==
  ASSUME ConstantsOK, IInv, NEW arg \in Arguments, AddAllStarts(arg)
  PROVE  IInv' /\ UNCHANGED <<lists, answer>>
<1>1. PICK n, a, f : n = Len(Elements(arg)) /\ a = Roomy(n) /\ f = Loop("addAll", arg)
  OBVIOUS
<1>2. /\ Free /\ (IF arg = SELF THEN a.size ELSE size + n) <= MaxSize
      /\ inner' = a /\ iter' = Stale /\ loops' = Append(loops, f)
      /\ size' = size /\ answer' = answer
  BY <1>1 DEF AddAllStarts
<1>3. n \in Nat /\ (arg # SELF => arg \in Seq(Value) /\ n = Len(arg))
  BY <1>1, ArgumentIs DEF Elements
<1>4. /\ Array(a) /\ a.size \in Nat /\ size + n <= a.size
      /\ [k \in 1 .. size |-> a.at[k - 1]] = Contents
  BY <1>1, <1>3, RoomyIs
<1>5. Contents' = Contents /\ lists' = lists
  BY <1>2, <1>4 DEF Contents, lists
<1>6. /\ size \in Nat /\ size <= MaxSize /\ Contents \in Seq(Value) /\ Len(Contents) = size
  BY HoldsIs
<1>7. Holds(inner', size, Contents)
  <2>1. size \in 0 .. a.size
    BY <1>3, <1>4, <1>6
  <2>2. \A k \in 1 .. size : Contents[k] = a.at[k - 1]
    BY <1>4
  <2> QED BY <2>1, <2>2, <1>2, <1>4, <1>6 DEF Holds
<1>8. Iterates(iter', Contents) /\ iter'.stale
  BY <1>2, StaleIterates
<1>9. /\ Loops(f, Contents) /\ f.op = "addAll" /\ f.over = arg
      /\ f.index = 0 /\ f.made = Contents /\ ~f.touched
  BY <1>1, LoopIs DEF Blocks
<1>10. Adds(f, iter', inner', Contents)
  <2>1. CASE arg = SELF
    BY <2>1, <1>2, <1>6, <1>8, <1>9 DEF Adds
  <2>2. CASE arg # SELF
    <3>1. /\ size + n <= MaxSize /\ size + n <= inner'.size /\ n = Len(arg) /\ n \in Nat
      BY <2>2, <1>2, <1>3, <1>4
    <3>2. SubSeq(arg, 1, 0) = << >>
      BY SubSeqEmpty
    <3>3. Contents = Contents \o SubSeq(arg, 1, 0)
      BY <3>2, <1>6, ConcatEmptySeq
    <3>4. /\ 0 <= n /\ Len(Contents) + n - 0 <= MaxSize
          /\ Len(Contents) + n - 0 <= inner'.size
      BY <3>1, <1>4, <1>6
    <3> QED BY <2>2, <3>1, <3>3, <3>4, <1>8, <1>9 DEF Adds
  <2> QED BY <2>1, <2>2
<1>11. Nested(loops', iter', inner', Contents)
  BY <1>2, <1>9, <1>10, OnlyBlocks, InnerNests
<1> QED BY <1>2, <1>5, <1>7, <1>8, <1>11 DEF IInv

LEMMA AddAllRoundStep ==
  ASSUME ConstantsOK, IInv, AddAllRound
  PROVE  IInv' /\ Abstract!Next
<1>1. loops # << >> /\ Top.op = "addAll" /\ ~AtEnd /\ iter' = iter
  BY DEF AddAllRound, Running
<1>2. CASE Full
  <2>1. /\ Contents' = Contents /\ lists' = lists /\ inner' = inner /\ size' = size
        /\ Left(Outer) /\ answer' = <<"addAll", LIST, ERROR>>
    BY <1>2 DEF AddAllRound, Contents, lists
  <2>2. Nested(loops', iter, inner, Contents)
    BY <1>1, <2>1, LeftNest
  <2>3. Abstract!AddAllFails(LIST)
    BY <2>1 DEF Abstract!AddAllFails
  <2> QED BY <1>1, <2>1, <2>2, <2>3 DEF IInv, Abstract!Next
<1>3. CASE ~Full
  <2>1. PICK v, s, f : v = Current /\ s = Append(Contents, v) /\ f = Advanced(Top, v)
    OBVIOUS
  <2>2. /\ inner' = Filled(inner, s) /\ size' = size + 1
        /\ loops' = Append(Disturbed(Outer), f) /\ answer' = <<"push", LIST, v>>
    BY <1>3, <2>1 DEF AddAllRound
  <2>3. /\ Array(inner) /\ inner.size \in Nat /\ size \in Nat /\ size < inner.size /\ size <= MaxSize
        /\ Contents \in Seq(Value) /\ Len(Contents) = size /\ MaxSize \in Nat
    BY <1>3, HoldsIs DEF Full, ConstantsOK
  <2>4. /\ v \in Value /\ Top.index \in Nat
        /\ Top.over = SELF => Top.index < size
        /\ Top.over # SELF => Top.over \in Seq(Value) /\ Top.index < Len(Top.over)
                              /\ v = Top.over[Top.index + 1]
    BY <1>1, <2>1, CurrentIs
  <2>5. /\ Top \in Frames /\ Adds(Top, iter, inner, Contents) /\ Outer \in Seq(Frames)
        /\ \A k \in 1 .. Len(Outer) : Outer[k].op \in Blocks /\ Loops(Outer[k], Contents)
    BY <1>1, TopIs
  <2>6. s \in Seq(Value) /\ Len(s) = size + 1
    BY <2>1, <2>3, <2>4, AppendProperties
  <2>7. /\ Array(inner') /\ inner'.size = inner.size
        /\ [k \in 1 .. Len(s) |-> inner'.at[k - 1]] = s
    <3>1. Len(s) <= inner.size
      BY <2>3, <2>6
    <3> QED BY <3>1, <2>2, <2>3, <2>6, FilledIs
  <2>8. Contents' = s
    BY <2>2, <2>6, <2>7 DEF Contents
  <2>9. /\ f \in Frames /\ f.op = "addAll" /\ f.over = Top.over /\ f.index = Top.index + 1
        /\ f.made = Top.made /\ f.touched = Top.touched
    BY <1>1, <2>1, <2>4, <2>5, AdvancedIs
  <2>10. Adds(f, iter', inner', s)
    <3>1. CASE Top.over = SELF
      <4>1. /\ inner.size <= MaxSize /\ size = Len(Top.made) + Top.index /\ Len(Top.made) \in Nat
            /\ Top.made = << >> => Top.index = 0
        BY <3>1, <2>3, <2>5 DEF Adds, Frames
      <4>2. Top.made # << >>
        <5>1. SUFFICES ASSUME Top.made = << >> PROVE FALSE
          OBVIOUS
        <5>2. Len(Top.made) = 0 /\ Top.index = 0
          BY <4>1, <5>1, EmptySeq
        <5> QED BY <5>2, <4>1, <3>1, <2>3, <2>4
      <4>3. Len(s) = Len(f.made) + f.index
        BY <4>1, <2>4, <2>6, <2>9
      <4> QED BY <3>1, <4>1, <4>2, <4>3, <2>5, <2>7, <2>9, <1>1 DEF Adds
    <3>2. CASE Top.over # SELF
      <4>1. /\ Contents = Top.made \o SubSeq(Top.over, 1, Top.index) /\ Top.made \in Seq(Value)
            /\ size + Len(Top.over) - Top.index <= MaxSize
            /\ size + Len(Top.over) - Top.index <= inner.size
        BY <3>2, <2>3, <2>5 DEF Adds, Frames
      <4>2. s = Top.made \o SubSeq(Top.over, 1, Top.index + 1)
        BY <3>2, <4>1, <2>1, <2>4, JoinedGrown
      <4>3. Len(Top.over) \in Nat
        BY <3>2, <2>4
      <4>4. /\ f.index <= Len(Top.over)
            /\ Len(s) + Len(Top.over) - f.index <= MaxSize
            /\ Len(s) + Len(Top.over) - f.index <= inner'.size
        <5>1. Len(s) = size + 1 /\ f.index = Top.index + 1 /\ inner'.size = inner.size
          BY <2>6, <2>7, <2>9
        <5>2. Top.index < Len(Top.over)
          BY <3>2, <2>4
        <5>3. Top.index \in Nat /\ size \in Nat
          BY <2>3, <2>4
        <5>4. Len(s) + Len(Top.over) - f.index = size + Len(Top.over) - Top.index
          BY <5>1, <5>3, <4>3
        <5> QED BY <5>1, <5>2, <5>3, <5>4, <4>1, <4>3
      <4> QED BY <3>2, <4>2, <4>4, <2>5, <2>9, <1>1 DEF Adds
    <3> QED BY <3>1, <3>2
  <2>11. Loops(f, s)
    BY <2>9 DEF Loops, Blocks
  <2>12. Nested(loops', iter', inner', s)
    <3>1. /\ Disturbed(Outer) \in Seq(Frames) /\ Len(Disturbed(Outer)) = Len(Outer)
          /\ \A k \in 1 .. Len(Outer) : Disturbed(Outer)[k].op = Outer[k].op
                                        /\ Loops(Disturbed(Outer)[k], s)
      BY <2>5, DisturbedIs
    <3>2. \A k \in 1 .. Len(Disturbed(Outer)) : Disturbed(Outer)[k].op \in Blocks
                                                /\ Loops(Disturbed(Outer)[k], s)
      BY <3>1, <2>5
    <3> QED BY <3>1, <3>2, <2>2, <2>10, <2>11, InnerNests
  <2>13. Iterates(iter', s)
    BY <1>1, <2>5 DEF Adds, IInv, Iterates
  <2>14. Holds(inner', size', s)
    <3>1. size + 1 <= MaxSize
      <4>1. CASE Top.over = SELF
        BY <4>1, <2>3, <2>5 DEF Adds
      <4>2. CASE Top.over # SELF
        <5>1. size + Len(Top.over) - Top.index <= MaxSize /\ Len(Top.over) \in Nat
          BY <4>2, <2>3, <2>4, <2>5 DEF Adds
        <5> QED BY <4>2, <5>1, <2>3, <2>4
      <4> QED BY <4>1, <4>2
    <3>2. size + 1 \in 0 .. inner'.size /\ size + 1 = Len(s)
      BY <2>3, <2>6, <2>7
    <3>3. \A k \in 1 .. size + 1 : s[k] = inner'.at[k - 1]
      BY <3>2, <2>7
    <3> QED BY <3>1, <3>2, <3>3, <2>2, <2>6, <2>7 DEF Holds
  <2>15. IInv'
    BY <2>8, <2>12, <2>13, <2>14 DEF IInv
  <2>16. Abstract!Push(LIST, v)
    BY <2>1, <2>2, <2>8, ListIs, ListBecomes DEF Abstract!Push
  <2> QED BY <2>4, <2>15, <2>16 DEF Abstract!Next
<1> QED BY <1>2, <1>3

LEMMA RemoveAllStartsStep ==
  ASSUME ConstantsOK, IInv, NEW arg \in Arguments, RemoveAllStarts(arg)
  PROVE  IInv' /\ UNCHANGED <<lists, answer>>
<1>1. /\ Contents' = Contents /\ lists' = lists
      /\ inner' = inner /\ size' = size /\ iter' = iter /\ answer' = answer
      /\ loops' = Append(loops, Loop("removeAll", arg)) /\ Free
  BY DEF RemoveAllStarts, Contents, lists
<1>2. Loops(Loop("removeAll", arg), Contents) /\ Loop("removeAll", arg).op = "removeAll"
  BY LoopIs DEF Blocks
<1>3. Nested(loops', iter, inner, Contents)
  BY <1>1, <1>2, OnlyBlocks, InnerNests
<1> QED BY <1>1, <1>3 DEF IInv

LEMMA RemoveAllRoundStep ==
  ASSUME ConstantsOK, IInv, RemoveAllRound
  PROVE  IInv' /\ Abstract!Next
<1>1. PICK v, f, next : v = Current /\ f = Advanced(Top, v) /\ next = Append(Outer, f)
  OBVIOUS
<1>2. /\ loops # << >> /\ Top.op = "removeAll" /\ ~AtEnd
      /\ answer' = <<"remove", LIST, v, Found(v)>>
      /\ IF Found(v)
         THEN /\ inner' = Filled(inner, Without(indexOf(v))) /\ size' = size - 1
              /\ iter' = Stale /\ loops' = Disturbed(next)
         ELSE /\ loops' = next \/ Left(Outer)
              /\ UNCHANGED <<inner, size, iter>>
  BY <1>1 DEF RemoveAllRound, Running
<1>3. v \in Value
  BY <1>1, <1>2, CurrentIs
<1>4. /\ Top \in Frames /\ Loops(Top, Contents) /\ Outer \in Seq(Frames) /\ Len(Outer) \in Nat
      /\ \A k \in 1 .. Len(Outer) : Outer[k].op \in Blocks /\ Loops(Outer[k], Contents)
  BY <1>2, TopIs
<1>5. /\ f \in Frames /\ f.op = "removeAll" /\ f.made = Top.made /\ f.touched = Top.touched
  BY <1>1, <1>2, <1>3, <1>4, AdvancedIs
<1>6. Loops(f, Contents)
  BY <1>2, <1>4, <1>5 DEF Loops, Blocks
<1>7. CASE Found(v)
  <2>1. PICK s : s = Without(indexOf(v))
    OBVIOUS
  <2>2. s \in Seq(Value) /\ Len(s) = size - 1
    BY <1>7, <2>1, FirstIs, WithoutIs
  <2>3. /\ Array(inner) /\ inner.size \in Nat /\ size \in Nat /\ size <= inner.size /\ size <= MaxSize
        /\ indexOf(v) \in 1 .. size
    BY <1>7, HoldsIs, FirstIs
  <2>4. size - 1 \in Nat /\ size - 1 <= inner.size /\ size - 1 \in 0 .. inner.size
    BY <2>3
  <2>5. /\ Array(inner') /\ inner'.size = inner.size
        /\ [k \in 1 .. Len(s) |-> inner'.at[k - 1]] = s
    BY <1>2, <1>7, <2>1, <2>2, <2>3, <2>4, FilledIs
  <2>6. Contents' = s
    BY <1>2, <1>7, <2>2, <2>5 DEF Contents
  <2>7. Holds(inner', size', s)
    <3>1. \A k \in 1 .. size - 1 : s[k] = inner'.at[k - 1]
      BY <2>2, <2>5
    <3>2. size - 1 <= MaxSize
      BY <2>3 DEF ConstantsOK
    <3> QED BY <3>1, <3>2, <1>2, <1>7, <2>2, <2>4, <2>5 DEF Holds
  <2>8. Iterates(iter', s)
    BY <1>2, <1>7, StaleIterates
  <2>9. Nested(loops', iter', inner', s)
    <3>1. /\ next \in Seq(Frames) /\ Len(next) = Len(Outer) + 1
          /\ \A k \in 1 .. Len(Outer) : next[k] = Outer[k]
          /\ next[Len(Outer) + 1] = f
      BY <1>1, <1>4, <1>5, AppendProperties
    <3>2. ASSUME NEW k \in 1 .. Len(next) PROVE Loops(next[k], Contents)
      <4>1. k \in 1 .. Len(Outer) \/ k = Len(Outer) + 1
        BY <1>4, <3>1
      <4> QED BY <4>1, <1>4, <1>6, <3>1
    <3>3. /\ loops' \in Seq(Frames) /\ Len(loops') = Len(next)
          /\ \A k \in 1 .. Len(next) : loops'[k].op = next[k].op /\ Loops(loops'[k], s)
      BY <1>2, <1>7, <3>1, <3>2, DisturbedIs
    <3>4. \A k \in 1 .. Len(loops') - 1 : loops'[k].op \in Blocks
      <4>1. ASSUME NEW k \in 1 .. Len(loops') - 1 PROVE k \in 1 .. Len(Outer) /\ k \in 1 .. Len(next)
        BY <1>4, <3>1, <3>3
      <4> QED BY <4>1, <1>4, <3>1, <3>3
    <3>5. loops'[Len(loops')].op = "removeAll"
      <4>1. Len(next) \in 1 .. Len(next)
        BY <1>4, <3>1
      <4> QED BY <4>1, <1>5, <3>1, <3>3
    <3> QED BY <3>3, <3>4, <3>5 DEF Nested
  <2>10. IInv'
    BY <2>6, <2>7, <2>8, <2>9 DEF IInv
  <2>11. Contents' = IF Found(v) THEN Without(indexOf(v)) ELSE Contents
    BY <1>7, <2>1, <2>6
  <2> QED BY <2>10, <2>11, <1>2, <1>3, FirstGoes
<1>8. CASE ~Found(v)
  <2>1. /\ Contents' = Contents /\ inner' = inner /\ size' = size /\ iter' = iter
        /\ loops' = next \/ Left(Outer)
    BY <1>2, <1>8 DEF Contents
  <2>2. Nested(loops', iter, inner, Contents)
    <3>1. CASE loops' = next
      BY <3>1, <1>1, <1>4, <1>5, <1>6, InnerNests
    <3>2. CASE Left(Outer)
      BY <3>2, <1>2, LeftNest
    <3> QED BY <3>1, <3>2, <2>1
  <2>3. IInv'
    BY <2>1, <2>2 DEF IInv
  <2>4. Contents' = IF Found(v) THEN Without(indexOf(v)) ELSE Contents
    BY <1>8, <2>1
  <2> QED BY <2>3, <2>4, <1>2, <1>3, FirstGoes
<1> QED BY <1>7, <1>8

LEMMA NewIteratorStep ==
  ASSUME IInv, NewIterator
  PROVE  IInv' /\ UNCHANGED <<lists, answer>>
<1>1. /\ Contents' = Contents /\ lists' = lists /\ inner' = inner /\ size' = size
      /\ loops' = loops /\ answer' = answer /\ Free
      /\ iter' = [stale |-> FALSE, idx |-> 1, given |-> << >>, made |-> Contents]
  BY DEF NewIterator, Contents, lists
<1>2. size \in Nat /\ Contents \in Seq(Value) /\ Len(Contents) = size /\ << >> \in Seq(Value)
  BY HoldsIs, EmptySeq
<1>3. SubSeq(Contents, 1, 1 - 1) = << >>
  BY <1>2, SubSeqEmpty
<1>4. Iterates(iter', Contents)
  <2>1. 1 \in 1 .. Len(Contents) + 1
    BY <1>2
  <2> QED BY <2>1, <1>1, <1>2, <1>3 DEF Iterates
<1>5. Nested(loops, iter', inner, Contents)
  BY <1>1, OnlyBlocks, BlocksNest
<1> QED BY <1>1, <1>4, <1>5 DEF IInv

LEMMA IteratorNextStep ==
  ASSUME IInv, IteratorNext
  PROVE  /\ IInv' /\ UNCHANGED <<lists, answer>>
         /\ Contents = iter.made /\ iter'.made = Contents
         /\ iter'.given = SubSeq(Contents, 1, iter'.idx - 1)
<1>1. /\ Contents' = Contents /\ lists' = lists /\ inner' = inner /\ size' = size
      /\ loops' = loops /\ answer' = answer /\ Free /\ ~iter.stale /\ iter.idx <= size
      /\ iter' = [iter EXCEPT !.idx = iter.idx + 1, !.given = Append(iter.given, Contents[iter.idx])]
  BY DEF IteratorNext, Contents, lists
<1>2. /\ size \in Nat /\ Contents \in Seq(Value) /\ Len(Contents) = size
  BY HoldsIs
<1>3. /\ iter \in [stale : BOOLEAN, idx : Nat, given : Seq(Value), made : Seq(Value)]
      /\ iter.idx \in 1 .. size + 1 /\ iter.made = Contents
      /\ iter.given = SubSeq(Contents, 1, iter.idx - 1)
  BY <1>1, <1>2 DEF IInv, Iterates
<1>4. PICK n \in Nat : n = iter.idx - 1
  BY <1>3
<1>5. n < Len(Contents) /\ n + 1 = iter.idx /\ n + 1 \in 1 .. Len(Contents)
  BY <1>1, <1>2, <1>3, <1>4
<1>6. Append(iter.given, Contents[iter.idx]) = SubSeq(Contents, 1, iter.idx)
  <2>1. Append(SubSeq(Contents, 1, n), Contents[n + 1]) = SubSeq(Contents, 1, n + 1)
    BY <1>2, <1>5, Grown
  <2> QED BY <2>1, <1>3, <1>4, <1>5
<1>7. SubSeq(Contents, 1, iter.idx) \in Seq(Value)
  <2>1. iter.idx \in 0 .. Len(Contents)
    BY <1>5
  <2> QED BY <2>1, <1>2, SplitAt
<1>8. /\ iter'.stale = iter.stale /\ iter'.idx = iter.idx + 1 /\ iter'.made = iter.made
      /\ iter'.given = SubSeq(Contents, 1, iter.idx)
      /\ iter' \in [stale : BOOLEAN, idx : Nat, given : Seq(Value), made : Seq(Value)]
  <2>1. PICK g : g = SubSeq(Contents, 1, iter.idx)
    OBVIOUS
  <2>2. g \in Seq(Value) /\ iter.idx + 1 \in Nat
    BY <2>1, <1>3, <1>7
  <2>3. iter' = [iter EXCEPT !.idx = iter.idx + 1, !.given = g]
    BY <2>1, <1>1, <1>6
  <2>4. iter \in [stale : BOOLEAN, idx : Nat, given : Seq(Value), made : Seq(Value)]
    BY <1>3
  <2> QED BY <2>1, <2>2, <2>3, <2>4
<1>9. (iter.idx + 1) - 1 = iter.idx /\ iter.idx + 1 \in 1 .. Len(Contents) + 1
  BY <1>2, <1>4, <1>5
<1>10. Iterates(iter', Contents)
  BY <1>3, <1>8, <1>9 DEF Iterates
<1>11. Nested(loops, iter', inner, Contents)
  BY <1>1, OnlyBlocks, BlocksNest
<1> QED BY <1>1, <1>3, <1>8, <1>9, <1>10, <1>11 DEF IInv

LEMMA InitOK ==
  ASSUME ConstantsOK, Init
  PROVE  IInv /\ Abstract!Init
<1>1. PICK s \in {<< >>} \cup {<<v>> : v \in Value} :
        /\ size = Len(s)
        /\ inner = Filled([size |-> 2 * Len(s) + 1, at |-> [k \in 0 .. 2 * Len(s) |-> NULL]], s)
  BY DEF Init
<1>2. iter = NoIter /\ loops = << >> /\ answer = << >> /\ MaxSize \in Nat \ {0} /\ << >> \in Seq(Value)
  BY EmptySeq DEF Init, ConstantsOK
<1>3. s \in Seq(Value) /\ Len(s) \in 0 .. 1
  <2>1. CASE s = << >>
    BY <2>1, <1>2, EmptySeq
  <2>2. CASE s # << >>
    <3>1. PICK v \in Value : s = <<v>>
      BY <2>2, <1>1
    <3> QED BY <3>1
  <2> QED BY <2>1, <2>2
<1>4. PICK n, a : n = Len(s) /\ a = [size |-> 2 * n + 1, at |-> [k \in 0 .. 2 * n |-> NULL]]
  OBVIOUS
<1>5. n \in 0 .. 1 /\ 2 * n + 1 \in Nat \ {0} /\ n <= 2 * n + 1 /\ n <= MaxSize /\ (2 * n + 1) - 1 = 2 * n
  BY <1>2, <1>3, <1>4
<1>6. Array(a) /\ a.size = 2 * n + 1
  BY <1>4, <1>5 DEF Array
<1>7. /\ Array(inner) /\ inner.size = a.size /\ [k \in 1 .. n |-> inner.at[k - 1]] = s
  <2>1. inner = Filled(a, s)
    BY <1>1, <1>4
  <2>2. Len(s) <= a.size
    BY <1>4, <1>5, <1>6
  <2> QED BY <2>1, <2>2, <1>3, <1>4, <1>6, FilledIs
<1>8. Contents = s /\ size = n
  BY <1>1, <1>4, <1>7 DEF Contents
<1>9. Holds(inner, n, s)
  <2>1. n \in 0 .. inner.size
    BY <1>5, <1>6, <1>7
  <2>2. \A k \in 1 .. n : s[k] = inner.at[k - 1]
    BY <1>7
  <2> QED BY <2>1, <2>2, <1>3, <1>4, <1>5, <1>7 DEF Holds
<1>10. Iterates(iter, s)
  BY <1>2 DEF Iterates, NoIter
<1>11. Nested(loops, iter, inner, s)
  <2>1. << >> \in Seq(Frames) /\ Len(<< >>) = 0
    BY EmptySeq
  <2>2. \A k \in 1 .. 0 : << >>[k].op \in Blocks /\ Loops(<< >>[k], s)
    OBVIOUS
  <2>3. Nested(<< >>, iter, inner, s)
    BY <2>1, <2>2, BlocksNest
  <2> QED BY <2>3, <1>2
<1>12. IInv
  BY <1>8, <1>9, <1>10, <1>11 DEF IInv
<1>13. Abstract!Init
  <2>1. lists \in [{LIST} -> {<< >>} \cup {<<v>> : v \in Value}]
    BY <1>8 DEF lists
  <2> QED BY <2>1, <1>2 DEF Abstract!Init
<1> QED BY <1>12, <1>13

\* Every step keeps the invariant, and is one of a sequence.
LEMMA NextStep ==
  ASSUME ConstantsOK, IInv, Next
  PROVE  IInv' /\ (Abstract!Next \/ UNCHANGED <<lists, answer>>)
<1>1. CASE \E v \in Value : Push(v) \/ AddFirst(v) \/ Remove(v) \/ \E n \in Indices : AtPut(n, v)
  BY <1>1, PushStep, AddFirstStep, RemoveStep, AtPutStep
<1>2. CASE \E n \in Indices : At(n) \/ RemoveAt(n)
  BY <1>2, AtStep, RemoveAtStep
<1>3. CASE RemoveLast \/ Reverse
  BY <1>3, RemoveLastStep, ReverseStep
<1>4. CASE \E arg \in Arguments : AddAllFirst(arg) \/ AddAllStarts(arg) \/ RemoveAllStarts(arg)
  BY <1>4, AddAllFirstStep, AddAllStartsStep, RemoveAllStartsStep
<1>5. CASE \E op \in {"do", "keysAndValuesDo"} : LoopStarts(op)
  BY <1>5, LoopStartsStep DEF Blocks
<1>6. CASE DoRound \/ AddAllRound \/ RemoveAllRound \/ LoopReturns \/ LoopsAreLeft
  BY <1>6, DoRoundStep, AddAllRoundStep, RemoveAllRoundStep, LoopReturnsStep, LoopsAreLeftStep
<1>7. CASE NewIterator \/ IteratorNext
  BY <1>7, NewIteratorStep, IteratorNextStep
<1> QED BY <1>1, <1>2, <1>3, <1>4, <1>5, <1>6, <1>7 DEF Next

LEMMA Typed ==
  ASSUME IInv
  PROVE  TypeOK
<1>1. /\ inner.size \in Nat \ {0} /\ inner.at \in [0 .. inner.size - 1 -> Value \cup {NULL}]
      /\ size \in Nat /\ size <= inner.size /\ Len(Contents) = size
      /\ \A k \in 1 .. size : Contents[k] = inner.at[k - 1] /\ Contents[k] \in Value
  BY HoldsIs DEF Array
<1>2. ASSUME NEW k \in 0 .. size - 1 PROVE inner.at[k] \in Value
  <2>1. k + 1 \in 1 .. size /\ (k + 1) - 1 = k
    BY <1>1
  <2> QED BY <2>1, <1>1
<1>3. iter.idx \in 1 .. size + 1 \/ iter.stale
  BY <1>1 DEF IInv, Iterates
<1>4. size \in 0 .. inner.size
  BY <1>1
<1> QED BY <1>1, <1>2, <1>3, <1>4 DEF TypeOK

\* A loop that returns undisturbed has done what it says.
LEMMA Returned ==
  ASSUME IInv, LoopReturns, ~Top.touched
  PROVE  CASE Top.op = "addAll"    -> Contents = Top.made \o (IF Top.over = SELF THEN Top.made ELSE Top.over)
           [] Top.op = "removeAll" -> Contents = Top.made
           [] OTHER                -> Top.given = Top.made
<1>1. loops # << >> /\ AtEnd
  BY DEF LoopReturns
<1>2. Top \in Frames /\ Loops(Top, Contents) /\ (Top.op = "addAll" => Adds(Top, iter, inner, Contents))
  BY <1>1, TopIs
<1>3. Contents \in Seq(Value) /\ Len(Contents) = size /\ size \in Nat
  BY HoldsIs
<1>4. /\ Top.made \in Seq(Value) /\ Top.index \in Nat
      /\ Top.op \in Blocks \cup {"addAll", "removeAll"} /\ Top.over \in Arguments
  BY <1>2 DEF Frames
<1>5. CASE Top.op = "addAll"
  <2>1. CASE Top.over = SELF
    <3>1. /\ Top.index >= size /\ size = Len(Top.made) + Top.index
          /\ Len(Top.made) \in Nat /\ Top.made = << >> => Top.index = 0
      BY <2>1, <1>1, <1>2, <1>3, <1>4, <1>5 DEF Adds, AtEnd
    <3>2. Len(Top.made) = 0
      BY <3>1, <1>4
    <3>3. Top.made = << >>
      BY <3>2, <1>4, EmptySeq
    <3>4. Len(Contents) = 0
      <4>1. Top.index = 0
        BY <3>1, <3>2, <3>3
      <4> QED BY <4>1, <3>1, <3>2, <1>3
    <3>5. Contents = << >>
      BY <3>4, <1>3, EmptySeq
    <3>6. Contents = Top.made \o Top.made
      BY <3>3, <3>5, <1>4, ConcatEmptySeq
    <3> QED BY <3>6, <2>1, <1>5
  <2>2. CASE Top.over # SELF
    <3>1. /\ Top.index >= Len(Top.over) /\ Top.index <= Len(Top.over)
          /\ Contents = Top.made \o SubSeq(Top.over, 1, Top.index)
      BY <2>2, <1>1, <1>2, <1>5 DEF Adds, AtEnd
    <3>2. Top.over \in Seq(Value)
      BY <2>2, <1>4, ArgumentIs
    <3>3. Top.index = Len(Top.over)
      BY <3>1, <3>2, <1>4
    <3>4. SubSeq(Top.over, 1, Top.index) = Top.over
      BY <3>2, <3>3, SubSeqFull
    <3> QED BY <3>1, <3>4, <2>2, <1>5
  <2> QED BY <2>1, <2>2
<1>6. CASE Top.op = "removeAll"
  BY <1>2, <1>6 DEF Loops
<1>7. CASE Top.op \in Blocks
  <2>1. /\ Top.over = SELF /\ Top.made = Contents /\ Top.index <= Len(Contents)
        /\ Top.given = SubSeq(Contents, 1, Top.index)
        /\ Top.op = "keysAndValuesDo" => Top.len = Len(Contents)
    BY <1>2, <1>7 DEF Loops, Blocks
  <2>2. Top.index >= Len(Contents)
    <3>1. CASE Top.op = "keysAndValuesDo"
      <4>1. Top.index >= Top.len
        BY <3>1, <1>1 DEF AtEnd
      <4> QED BY <4>1, <3>1, <2>1
    <3>2. CASE Top.op # "keysAndValuesDo"
      BY <3>2, <2>1, <1>1, <1>3 DEF AtEnd
    <3> QED BY <3>1, <3>2
  <2>3. Top.index = Len(Contents)
    BY <2>1, <2>2, <1>3, <1>4
  <2>4. Top.given = Top.made
    BY <2>1, <2>3, <1>3, SubSeqFull
  <2> QED BY <2>4, <1>7 DEF Blocks
<1> QED BY <1>4, <1>5, <1>6, <1>7

\* What iterators and loops give is in order, and complete.
LEMMA LoopsAreOK ==
  ASSUME IInv
  PROVE  FailFastStep /\ IteratesAllStep
<1>1. ASSUME IteratorNext
      PROVE  Contents = iter.made /\ (iter'.idx > size => iter'.given = iter'.made)
  <2>1. /\ Contents = iter.made /\ iter'.made = Contents
        /\ iter'.given = SubSeq(Contents, 1, iter'.idx - 1)
    BY <1>1, IteratorNextStep
  <2>2. Contents \in Seq(Value) /\ Len(Contents) = size /\ size \in Nat /\ iter.idx \in Nat
    BY HoldsIs DEF IInv, Iterates
  <2>3. iter'.idx = iter.idx + 1 /\ iter.idx <= size
    BY <1>1 DEF IteratorNext, IInv, Iterates
  <2>4. iter'.idx > size => iter'.idx - 1 = Len(Contents)
    BY <2>2, <2>3
  <2>5. iter'.idx > size => iter'.given = Contents
    BY <2>1, <2>2, <2>4, SubSeqFull
  <2> QED BY <2>1, <2>5
<1>2. iter'.idx > size /\ IteratorNext => iter'.given = iter.made
  <2>1. IteratorNext => iter'.made = iter.made
    BY IteratorNextStep
  <2> QED BY <2>1, <1>1
<1> QED BY <1>1, <1>2, Returned DEF FailFastStep, IteratesAllStep


----------------------------------------------------------------------------
(* The built-in lists.                                                      *)

\* A list's array: an element in every slot below size, and room.
BuiltArray(r) ==
  /\ r = [size |-> r.size, space |-> r.space, items |-> r.items]
  /\ r.space \in Nat \ {0} /\ r.size \in 0 .. r.space
  /\ r.items \in [0 .. r.space - 1 -> Value \cup {NULL}]
  /\ \A k \in 0 .. r.size - 1 : r.items[k] \in Value

BuiltFrames ==
  [op : {"do", "asString", "addAll"}, list : List, into : List, index : Nat, len : Nat,
   given : Seq(Value), made : Seq(Value), onto : Seq(Value), touched : BOOLEAN]

\* A loop that nothing has disturbed finds the list as it was, has read the
\* elements before its index and, if it is addAll, pushed them.
BuiltLoops(f, s) ==
  /\ f \in BuiltFrames
  /\ f.op = "do" => f.index <= MaxSizes[f.list]
  /\ ~f.touched =>
       /\ f.made = B!Contents(s[f.list]) /\ f.index <= Len(f.made)
       /\ f.given = SubSeq(f.made, 1, f.index)
       /\ f.op = "asString" => f.len = Len(f.made)
       /\ f.op = "addAll" => IF f.into = f.list THEN f.index = 0 /\ f.onto = f.made
                             ELSE B!Contents(s[f.into]) = f.onto \o f.given

Stored(s) == s = [l \in List |-> s[l]] /\ \A l \in List : BuiltArray(s[l]) /\ s[l].size <= MaxSizes[l]

BuiltNested(fs, s) ==
  /\ fs \in Seq(BuiltFrames) /\ Len(fs) <= MaxLoops
  /\ \A k \in 1 .. Len(fs) : BuiltLoops(fs[k], s)

BuiltIInv == Stored(store) /\ BuiltNested(loops, store)

LEMMA ContentsAre ==
  ASSUME NEW r, BuiltArray(r)
  PROVE  /\ r.size \in Nat /\ B!Contents(r) \in Seq(Value) /\ Len(B!Contents(r)) = r.size
         /\ \A k \in 1 .. r.size : B!Contents(r)[k] = r.items[k - 1] /\ r.items[k - 1] \in Value
<1>1. r.size \in Nat
  BY DEF BuiltArray
<1>2. ASSUME NEW k \in 1 .. r.size PROVE r.items[k - 1] \in Value
  <2>1. k - 1 \in 0 .. r.size - 1
    BY <1>1
  <2> QED BY <2>1 DEF BuiltArray
<1>3. B!Contents(r) = [k \in 1 .. r.size |-> r.items[k - 1]]
  BY DEF B!Contents
<1>4. B!Contents(r) \in [1 .. r.size -> Value]
  BY <1>2, <1>3
<1> HIDE DEF B!Contents
<1>5. B!Contents(r) \in Seq(Value) /\ Len(B!Contents(r)) = r.size
  BY <1>1, <1>4
<1> QED BY <1>1, <1>2, <1>3, <1>5

LEMMA PushedIs ==
  ASSUME NEW r, BuiltArray(r), NEW v \in Value
  PROVE  /\ BuiltArray(B!Pushed(r, v)) /\ B!Pushed(r, v).size = r.size + 1
         /\ B!Contents(B!Pushed(r, v)) = Append(B!Contents(r), v)
<1>1. /\ r.space \in Nat \ {0} /\ r.size \in Nat /\ r.size <= r.space
      /\ r.items \in [0 .. r.space - 1 -> Value \cup {NULL}]
      /\ \A k \in 0 .. r.size - 1 : r.items[k] \in Value
  BY DEF BuiltArray
<1>2. PICK space : space = IF r.size = r.space THEN 2 * r.space ELSE r.space
  OBVIOUS
<1>3. space \in Nat \ {0} /\ r.size + 1 <= space /\ r.space <= space
  BY <1>1, <1>2
<1> DEFINE items == [k \in 0 .. space - 1 |->
                       IF k = r.size THEN v ELSE IF k < r.space THEN r.items[k] ELSE NULL]
<1>4. B!Pushed(r, v) = [size |-> r.size + 1, space |-> space, items |-> items]
  BY <1>2 DEF B!Pushed
<1>5. items \in [0 .. space - 1 -> Value \cup {NULL}]
  <2>1. ASSUME NEW k \in 0 .. space - 1
        PROVE  (IF k = r.size THEN v ELSE IF k < r.space THEN r.items[k] ELSE NULL) \in Value \cup {NULL}
    <3>1. k < r.space => k \in 0 .. r.space - 1
      BY <1>1, <1>3
    <3> QED BY <3>1, <1>1
  <2> QED BY <2>1
<1>6. ASSUME NEW k \in 0 .. r.size PROVE items[k] = IF k = r.size THEN v ELSE r.items[k]
  <2>1. k \in 0 .. space - 1 /\ (k # r.size => k < r.space)
    BY <1>1, <1>3
  <2> QED BY <2>1
<1>7. ASSUME NEW k \in 0 .. r.size PROVE items[k] \in Value
  <2>1. k # r.size => k \in 0 .. r.size - 1
    BY <1>1
  <2> QED BY <2>1, <1>1, <1>6
<1> HIDE DEF items
<1>8. PICK p : p = B!Pushed(r, v)
  OBVIOUS
<1>9. p.size = r.size + 1 /\ p.space = space /\ p.items = items
  BY <1>4, <1>8
<1>10. BuiltArray(p)
  <2>1. p = [size |-> p.size, space |-> p.space, items |-> p.items]
    BY <1>4, <1>8, <1>9
  <2>2. p.size \in 0 .. p.space /\ p.space \in Nat \ {0}
    BY <1>1, <1>3, <1>9
  <2>3. (r.size + 1) - 1 = r.size
    BY <1>1
  <2> QED BY <2>1, <2>2, <2>3, <1>5, <1>7, <1>9 DEF BuiltArray
<1>11. B!Contents(p) = Append(B!Contents(r), v)
  <2>1. /\ B!Contents(p) \in Seq(Value) /\ Len(B!Contents(p)) = r.size + 1
        /\ \A k \in 1 .. r.size + 1 : B!Contents(p)[k] = items[k - 1]
    BY <1>9, <1>10, ContentsAre
  <2>2. /\ B!Contents(r) \in Seq(Value) /\ Len(B!Contents(r)) = r.size
        /\ \A k \in 1 .. r.size : B!Contents(r)[k] = r.items[k - 1]
    BY ContentsAre
  <2>3. /\ Append(B!Contents(r), v) \in Seq(Value) /\ Len(Append(B!Contents(r), v)) = r.size + 1
        /\ \A k \in 1 .. r.size : Append(B!Contents(r), v)[k] = B!Contents(r)[k]
        /\ Append(B!Contents(r), v)[r.size + 1] = v
    BY <2>2, AppendProperties
  <2>4. ASSUME NEW k \in 1 .. r.size + 1 PROVE B!Contents(p)[k] = Append(B!Contents(r), v)[k]
    <3>1. CASE k = r.size + 1
      <4>1. k - 1 = r.size /\ r.size \in 0 .. r.size
        BY <3>1, <1>1
      <4> QED BY <4>1, <3>1, <2>1, <2>3, <1>6
    <3>2. CASE k # r.size + 1
      <4>1. k \in 1 .. r.size /\ k - 1 \in 0 .. r.size /\ k - 1 # r.size
        BY <3>2, <1>1
      <4> QED BY <4>1, <2>1, <2>2, <2>3, <1>6
    <3> QED BY <3>1, <3>2
  <2> QED BY <2>1, <2>3, <2>4, SeqEqual
<1> QED BY <1>8, <1>9, <1>10, <1>11

LEMMA FreshIs ==
  ASSUME B!ConstantsOK
  PROVE  BuiltArray(B!Fresh) /\ B!Fresh.size = 0 /\ B!Contents(B!Fresh) = << >>
<1>1. InitialSpace \in Nat \ {0}
  BY DEF B!ConstantsOK
<1>2. PICK r : r = B!Fresh
  OBVIOUS
<1>3. /\ r = [size |-> 0, space |-> InitialSpace, items |-> [k \in 0 .. InitialSpace - 1 |-> NULL]]
  BY <1>2 DEF B!Fresh
<1>4. BuiltArray(r) /\ r.size = 0
  BY <1>1, <1>3 DEF BuiltArray
<1>5. B!Contents(r) \in Seq(Value) /\ Len(B!Contents(r)) = 0
  BY <1>4, ContentsAre
<1>6. B!Contents(r) = << >>
  BY <1>5, EmptySeq
<1> QED BY <1>2, <1>4, <1>6

----------------------------------------------------------------------------
\* The lists that pushing the elements of s one by one goes through.
Grows(g, s) == g = [n \in 0 .. Len(s) |-> IF n = 0 THEN B!Fresh ELSE B!Pushed(g[n - 1], s[n])]

LEMMA GrowsExists ==
  ASSUME NEW s \in Seq(Value)
  PROVE  \E g : Grows(g, s)
<1> DEFINE Upto(n, g) == g = [m \in 0 .. n |-> IF m = 0 THEN B!Fresh ELSE B!Pushed(g[m - 1], s[m])]
           T == {n \in Nat : \E g : Upto(n, g)}
<1>1. 0 \in T
  <2>1. Upto(0, [m \in 0 .. 0 |-> B!Fresh])
    OBVIOUS
  <2> QED BY <2>1
<1>2. ASSUME NEW n \in Nat, n \in T PROVE n + 1 \in T
  <2>1. PICK g : Upto(n, g)
    BY <1>2
  <2> DEFINE d == [m \in 0 .. n + 1 |-> IF m = n + 1 THEN B!Pushed(g[n], s[n + 1]) ELSE g[m]]
  <2>2. \A m \in 0 .. n + 1 : d[m] = IF m = 0 THEN B!Fresh ELSE B!Pushed(d[m - 1], s[m])
    <3>1. ASSUME NEW m \in 0 .. n + 1 PROVE d[m] = IF m = 0 THEN B!Fresh ELSE B!Pushed(d[m - 1], s[m])
      <4>1. CASE m = n + 1
        <5>1. m # 0 /\ n \in 0 .. n + 1 /\ m - 1 = n /\ n # n + 1
          BY <4>1
        <5>2. d[m] = B!Pushed(g[n], s[n + 1]) /\ d[n] = g[n]
          BY <4>1, <5>1
        <5> HIDE DEF d
        <5> QED BY <4>1, <5>1, <5>2
      <4>2. CASE m # n + 1
        <5>1. m \in 0 .. n /\ (m # 0 => m - 1 \in 0 .. n + 1 /\ m - 1 # n + 1)
          BY <4>2
        <5>2. g[m] = IF m = 0 THEN B!Fresh ELSE B!Pushed(g[m - 1], s[m])
          BY <2>1, <5>1
        <5> QED BY <4>2, <5>1, <5>2
      <4> QED BY <4>1, <4>2
    <3> QED BY <3>1
  <2>3. d = [m \in 0 .. n + 1 |-> d[m]]
    OBVIOUS
  <2> HIDE DEF d
  <2>4. Upto(n + 1, d)
    BY <2>2, <2>3
  <2> HIDE DEF Upto
  <2> QED BY <2>4
<1> HIDE DEF T
<1>3. Len(s) \in T
  BY <1>1, <1>2, SetInduction
<1> QED BY <1>3 DEF T, Grows

LEMMA PushedAllIs ==
  ASSUME B!ConstantsOK, NEW s \in Seq(Value)
  PROVE  BuiltArray(B!PushedAll(s)) /\ B!PushedAll(s).size = Len(s) /\ B!Contents(B!PushedAll(s)) = s
<1> DEFINE g == CHOOSE g : Grows(g, s)
<1>1. Grows(g, s)
  BY GrowsExists
<1>2. B!PushedAll(s) = g[Len(s)]
  BY DEF B!PushedAll, Grows
<1> HIDE DEF g
<1>3. Len(s) \in Nat /\ g[0] = B!Fresh /\ \A n \in 1 .. Len(s) : g[n] = B!Pushed(g[n - 1], s[n])
  BY <1>1 DEF Grows
<1> DEFINE Good(n) == BuiltArray(g[n]) /\ g[n].size = n /\ B!Contents(g[n]) = SubSeq(s, 1, n)
           T == {n \in Nat : n <= Len(s) => Good(n)}
<1>4. 0 \in T
  <2>1. SubSeq(s, 1, 0) = << >>
    BY SubSeqEmpty
  <2>2. BuiltArray(g[0]) /\ g[0].size = 0 /\ B!Contents(g[0]) = << >>
    BY <1>3, FreshIs
  <2> QED BY <2>1, <2>2
<1>5. ASSUME NEW n \in Nat, n \in T PROVE n + 1 \in T
  <2>1. SUFFICES ASSUME n + 1 <= Len(s) PROVE Good(n + 1)
    OBVIOUS
  <2>2. n + 1 \in 1 .. Len(s) /\ n < Len(s) /\ (n + 1) - 1 = n /\ n <= Len(s)
    BY <2>1, <1>3
  <2>3. Good(n)
    BY <1>5, <2>2
  <2>4. s[n + 1] \in Value /\ g[n + 1] = B!Pushed(g[n], s[n + 1])
    BY <2>2, <1>3, ElementOfSeq
  <2>5. /\ BuiltArray(g[n + 1]) /\ g[n + 1].size = n + 1
        /\ B!Contents(g[n + 1]) = Append(SubSeq(s, 1, n), s[n + 1])
    BY <2>3, <2>4, PushedIs
  <2> QED BY <2>2, <2>5, Grown
<1> HIDE DEF Good, T
<1>6. Len(s) \in T
  BY <1>3, <1>4, <1>5, SetInduction
<1>7. Good(Len(s))
  BY <1>3, <1>6 DEF T
<1>8. SubSeq(s, 1, Len(s)) = s
  BY SubSeqFull
<1> QED BY <1>2, <1>7, <1>8 DEF Good

----------------------------------------------------------------------------
LEMMA StoreIs ==
  ASSUME BuiltIInv, NEW l \in List
  PROVE  /\ BuiltArray(store[l]) /\ store[l].size <= MaxSizes[l] /\ store[l].size \in Nat
         /\ B!Contents(store[l]) \in Seq(Value) /\ Len(B!Contents(store[l])) = store[l].size
         /\ \A k \in 1 .. store[l].size : /\ B!Contents(store[l])[k] = store[l].items[k - 1]
                                          /\ store[l].items[k - 1] \in Value
         /\ B!lists[l] = B!Contents(store[l])
<1>1. BuiltArray(store[l]) /\ store[l].size <= MaxSizes[l]
  BY DEF BuiltIInv, Stored
<1>2. B!lists[l] = B!Contents(store[l])
  BY DEF B!lists
<1> QED BY <1>1, <1>2, ContentsAre

LEMMA TouchedIs ==
  ASSUME NEW f \in BuiltFrames, f.op = "do" => f.index <= MaxSizes[f.list],
         NEW l \in {f.list, f.into}, NEW t
  PROVE  BuiltLoops(B!Disturbed(f, l), t)
<1>1. PICK g : g = B!Disturbed(f, l)
  OBVIOUS
<1>2. g = [f EXCEPT !.touched = TRUE, !.given = << >>, !.made = << >>, !.onto = << >>]
  BY <1>1 DEF B!Disturbed
<1>3. << >> \in Seq(Value)
  BY EmptySeq
<1>4. g \in BuiltFrames /\ g.touched /\ g.op = f.op /\ g.index = f.index /\ g.list = f.list
  BY <1>2, <1>3 DEF BuiltFrames
<1> QED BY <1>1, <1>4 DEF BuiltLoops

\* A request about list l, or one that pushes on it, tells the loops.
LEMMA BuiltDisturbedIs ==
  ASSUME NEW f, NEW l \in List, NEW s, NEW t, BuiltLoops(f, s), \A m \in List : m # l => t[m] = s[m]
  PROVE  BuiltLoops(B!Disturbed(f, l), t)
<1>1. f \in BuiltFrames /\ (f.op = "do" => f.index <= MaxSizes[f.list])
  BY DEF BuiltLoops
<1>2. CASE l \in {f.list, f.into}
  BY <1>1, <1>2, TouchedIs
<1>3. CASE l \notin {f.list, f.into}
  <2>1. B!Disturbed(f, l) = f
    BY <1>3 DEF B!Disturbed
  <2>2. t[f.list] = s[f.list] /\ t[f.into] = s[f.into]
    BY <1>1, <1>3 DEF BuiltFrames
  <2> QED BY <2>1, <2>2 DEF BuiltLoops
<1> QED BY <1>2, <1>3

\* A list that changes.
LEMMA StoredIs ==
  ASSUME BuiltIInv, NEW l \in List, NEW r, BuiltArray(r), r.size <= MaxSizes[l],
         store' = [store EXCEPT ![l] = r]
  PROVE  /\ Stored(store') /\ \A m \in List : m # l => store'[m] = store[m]
         /\ store'[l] = r
         /\ B!lists' = [B!lists EXCEPT ![l] = B!Contents(r)]
<1>1. store = [m \in List |-> store[m]] /\ \A m \in List : BuiltArray(store[m]) /\ store[m].size <= MaxSizes[m]
  BY DEF BuiltIInv, Stored
<1>2. store' = [m \in List |-> IF m = l THEN r ELSE store[m]]
  BY <1>1
<1>3. B!lists' = [B!lists EXCEPT ![l] = B!Contents(r)]
  BY <1>2 DEF B!lists
<1> QED BY <1>1, <1>2, <1>3 DEF Stored

LEMMA ChangesKeeps ==
  ASSUME BuiltIInv, NEW l \in List, NEW r, BuiltArray(r), r.size <= MaxSizes[l], B!Changes(l, r)
  PROVE  BuiltIInv' /\ B!lists' = [B!lists EXCEPT ![l] = B!Contents(r)]
<1>1. /\ store' = [store EXCEPT ![l] = r]
      /\ loops' = [k \in 1 .. Len(loops) |-> B!Disturbed(loops[k], l)]
  BY DEF B!Changes
<1>2. /\ Stored(store') /\ \A m \in List : m # l => store'[m] = store[m]
      /\ B!lists' = [B!lists EXCEPT ![l] = B!Contents(r)]
  BY <1>1, StoredIs
<1>3. /\ loops \in Seq(BuiltFrames) /\ Len(loops) <= MaxLoops /\ Len(loops) \in Nat
      /\ \A k \in 1 .. Len(loops) : BuiltLoops(loops[k], store)
  BY DEF BuiltIInv, BuiltNested
<1>4. \A k \in 1 .. Len(loops) : BuiltLoops(B!Disturbed(loops[k], l), store')
  BY <1>2, <1>3, BuiltDisturbedIs
<1>5. \A k \in 1 .. Len(loops) : B!Disturbed(loops[k], l) \in BuiltFrames
  BY <1>4 DEF BuiltLoops
<1>6. loops' \in [1 .. Len(loops) -> BuiltFrames]
  BY <1>1, <1>5
<1>7. loops' \in Seq(BuiltFrames) /\ Len(loops') = Len(loops)
  BY <1>3, <1>6
<1>8. BuiltNested(loops', store')
  BY <1>1, <1>3, <1>4, <1>7 DEF BuiltNested
<1> QED BY <1>2, <1>8 DEF BuiltIInv

LEMMA BuiltReadsKeep ==
  ASSUME BuiltIInv, UNCHANGED <<store, loops>>
  PROVE  BuiltIInv' /\ B!lists' = B!lists
BY DEF BuiltIInv, B!lists

LEMMA BuiltPushStep ==
  ASSUME B!ConstantsOK, BuiltIInv, NEW l \in List, NEW v \in Value, B!Push(l, v)
  PROVE  BuiltIInv' /\ B!Abstract!Next
<1>1. B!Changes(l, B!Pushed(store[l], v)) /\ store[l].size < MaxSizes[l] /\ answer' = <<"push", l, v>>
  BY DEF B!Push, B!Roomy
<1>2. /\ BuiltArray(B!Pushed(store[l], v)) /\ B!Pushed(store[l], v).size = store[l].size + 1
      /\ B!Contents(B!Pushed(store[l], v)) = Append(B!lists[l], v)
  BY StoreIs, PushedIs
<1>3. store[l].size + 1 <= MaxSizes[l]
  <2>1. store[l].size \in Nat /\ MaxSizes[l] \in Nat
    BY StoreIs DEF B!ConstantsOK
  <2> QED BY <2>1, <1>1
<1>4. BuiltIInv' /\ B!lists' = [B!lists EXCEPT ![l] = Append(B!lists[l], v)]
  BY <1>1, <1>2, <1>3, ChangesKeeps
<1>5. B!Abstract!Push(l, v)
  BY <1>1, <1>4 DEF B!Abstract!Push
<1> QED BY <1>4, <1>5 DEF B!Abstract!Next

LEMMA PopStep ==
  ASSUME B!ConstantsOK, BuiltIInv, NEW l \in List, B!Pop(l)
  PROVE  BuiltIInv' /\ B!Abstract!Next
<1>1. PICK r : r = store[l]
  OBVIOUS
<1>2. /\ BuiltArray(r) /\ r.size \in Nat /\ r.size <= MaxSizes[l] /\ MaxSizes[l] \in Nat
      /\ B!lists[l] \in Seq(Value) /\ Len(B!lists[l]) = r.size
      /\ \A k \in 1 .. r.size : B!lists[l][k] = r.items[k - 1] /\ r.items[k - 1] \in Value
  <2>1. MaxSizes[l] \in Nat
    BY DEF B!ConstantsOK
  <2> QED BY <2>1, <1>1, StoreIs
<1>3. CASE r.size = 0
  <2>1. BuiltIInv' /\ B!lists' = B!lists /\ answer' = <<"pop", l, ERROR>>
    BY <1>1, <1>3, BuiltReadsKeep DEF B!Pop
  <2>2. B!Abstract!Pop(l)
    BY <2>1, <1>2, <1>3 DEF B!Abstract!Pop
  <2> QED BY <2>1, <2>2 DEF B!Abstract!Next
<1>4. CASE r.size # 0
  <2>1. PICK p : p = [r EXCEPT !.size = r.size - 1]
    OBVIOUS
  <2>2. B!Changes(l, p) /\ answer' = <<"pop", l, r.items[r.size - 1]>>
    BY <1>1, <1>4, <2>1 DEF B!Pop
  <2>3. p = [size |-> r.size - 1, space |-> r.space, items |-> r.items]
    <3>1. r = [size |-> r.size, space |-> r.space, items |-> r.items]
      BY <1>2 DEF BuiltArray
    <3> QED BY <2>1, <3>1
  <2>4. p.size = r.size - 1 /\ p.space = r.space /\ p.items = r.items
    BY <2>3
  <2>5. BuiltArray(p)
    <3>1. /\ r.space \in Nat \ {0} /\ r.size <= r.space /\ r.items \in [0 .. r.space - 1 -> Value \cup {NULL}]
          /\ \A k \in 0 .. r.size - 1 : r.items[k] \in Value
      BY <1>2 DEF BuiltArray
    <3>2. r.size - 1 \in 0 .. r.space /\ \A k \in 0 .. (r.size - 1) - 1 : k \in 0 .. r.size - 1
      BY <3>1, <1>2, <1>4
    <3> QED BY <3>1, <3>2, <2>3, <2>4 DEF BuiltArray
  <2>6. p.size <= MaxSizes[l]
    BY <1>2, <2>4
  <2>7. BuiltIInv' /\ B!lists' = [B!lists EXCEPT ![l] = B!Contents(p)]
    BY <2>2, <2>5, <2>6, ChangesKeeps
  <2>8. B!Contents(p) = SubSeq(B!lists[l], 1, r.size - 1)
    <3>1. /\ B!Contents(p) \in Seq(Value) /\ Len(B!Contents(p)) = r.size - 1
          /\ \A k \in 1 .. r.size - 1 : B!Contents(p)[k] = r.items[k - 1]
      BY <2>4, <2>5, ContentsAre
    <3>2. r.size - 1 \in 0 .. Len(B!lists[l]) /\ \A k \in 1 .. r.size - 1 : k \in 1 .. r.size
      BY <1>2, <1>4
    <3>3. /\ SubSeq(B!lists[l], 1, r.size - 1) \in Seq(Value) /\ Len(SubSeq(B!lists[l], 1, r.size - 1)) = r.size - 1
          /\ \A k \in 1 .. r.size - 1 : SubSeq(B!lists[l], 1, r.size - 1)[k] = B!lists[l][k]
      BY <1>2, <3>2, SplitAt
    <3>4. \A k \in 1 .. r.size - 1 : B!Contents(p)[k] = SubSeq(B!lists[l], 1, r.size - 1)[k]
      BY <3>1, <3>2, <3>3, <1>2
    <3> QED BY <3>1, <3>3, <3>4, SeqEqual
  <2>9. B!lists[l][r.size] = r.items[r.size - 1]
    <3>1. r.size \in 1 .. r.size
      BY <1>2, <1>4
    <3> QED BY <3>1, <1>2
  <2>10. B!Abstract!Pop(l)
    BY <2>2, <2>7, <2>8, <2>9, <1>2, <1>4 DEF B!Abstract!Pop
  <2> QED BY <2>7, <2>10 DEF B!Abstract!Next
<1> QED BY <1>3, <1>4

LEMMA BuiltAtStep ==
  ASSUME BuiltIInv, NEW l \in List, NEW i \in B!Indices(l), B!At(l, i)
  PROVE  BuiltIInv' /\ B!Abstract!Next
<1>1. BuiltIInv' /\ B!lists' = B!lists
  BY BuiltReadsKeep DEF B!At
<1>2. /\ Len(B!lists[l]) = store[l].size
      /\ \A k \in 1 .. store[l].size : B!lists[l][k] = store[l].items[k - 1]
  BY StoreIs
<1>3. answer' = <<"at", l, i, IF i \in 1 .. store[l].size THEN store[l].items[i - 1] ELSE ERROR>>
  BY DEF B!At
<1>4. B!Abstract!At(l, i)
  BY <1>1, <1>2, <1>3 DEF B!Abstract!At, B!Abstract!Indices
<1>5. i \in UNION {B!Indices(m) : m \in List}
  OBVIOUS
<1> QED BY <1>1, <1>4, <1>5 DEF B!Abstract!Next

LEMMA BuiltAtPutStep ==
  ASSUME B!ConstantsOK, BuiltIInv, NEW l \in List, NEW i \in B!Indices(l), NEW v \in Value, B!AtPut(l, i, v)
  PROVE  BuiltIInv' /\ B!Abstract!Next
<1>1. PICK r : r = store[l]
  OBVIOUS
<1>2. /\ BuiltArray(r) /\ r.size \in Nat /\ r.size <= MaxSizes[l]
      /\ B!lists[l] = B!Contents(r) /\ B!lists[l] \in Seq(Value) /\ Len(B!lists[l]) = r.size
      /\ \A k \in 1 .. r.size : B!lists[l][k] = r.items[k - 1]
  BY <1>1, StoreIs
<1>3. MaxSizes[l] \in Nat /\ i \in Nat /\ i \in UNION {B!Indices(m) : m \in List}
  BY DEF B!ConstantsOK, B!Indices
<1>4. CASE i = r.size + 1
  <2>1. B!Roomy(l) /\ B!Changes(l, B!Pushed(r, v)) /\ answer' = <<"atPut", l, i, v>>
    BY <1>1, <1>2, <1>4 DEF B!AtPut
  <2>2. /\ BuiltArray(B!Pushed(r, v)) /\ B!Pushed(r, v).size = r.size + 1
        /\ B!Contents(B!Pushed(r, v)) = Append(B!lists[l], v)
    BY <1>2, PushedIs
  <2>3. r.size + 1 <= MaxSizes[l]
    BY <2>1, <1>1, <1>2, <1>3 DEF B!Roomy
  <2>4. BuiltIInv' /\ B!lists' = [B!lists EXCEPT ![l] = Append(B!lists[l], v)]
    BY <2>1, <2>2, <2>3, ChangesKeeps
  <2>5. i \in 1 .. Len(B!lists[l]) + 1 /\ i \notin 1 .. Len(B!lists[l]) /\ i = Len(B!lists[l]) + 1
    BY <1>2, <1>4
  <2>6. B!Abstract!AtPut(l, i, v)
    BY <2>1, <2>4, <2>5 DEF B!Abstract!AtPut
  <2> QED BY <2>4, <2>6, <1>3 DEF B!Abstract!Next
<1>5. CASE i > r.size + 1 \/ i <= 0
  <2>1. BuiltIInv' /\ B!lists' = B!lists /\ answer' = <<"atPut", l, i, ERROR>>
    BY <1>1, <1>2, <1>3, <1>5, BuiltReadsKeep DEF B!AtPut
  <2>2. i \notin 1 .. Len(B!lists[l]) + 1 /\ i \notin 1 .. Len(B!lists[l]) /\ i # Len(B!lists[l]) + 1
    BY <1>2, <1>3, <1>5
  <2>3. B!Abstract!AtPut(l, i, v)
    BY <2>1, <2>2 DEF B!Abstract!AtPut
  <2> QED BY <2>1, <2>3, <1>3 DEF B!Abstract!Next
<1>6. CASE i \in 1 .. r.size
  <2>1. PICK p : p = [r EXCEPT !.items[i - 1] = v]
    OBVIOUS
  <2>2. B!Changes(l, p) /\ answer' = <<"atPut", l, i, v>>
    <3>1. ~(i = r.size + 1) /\ ~(i > r.size + 1 \/ i <= 0)
      BY <1>2, <1>6
    <3> QED BY <3>1, <2>1, <1>1 DEF B!AtPut
  <2>3. PICK items : items = [r.items EXCEPT ![i - 1] = v]
    OBVIOUS
  <2>4. p = [size |-> r.size, space |-> r.space, items |-> items]
    <3>1. r = [size |-> r.size, space |-> r.space, items |-> r.items]
      BY <1>2 DEF BuiltArray
    <3> QED BY <2>1, <2>3, <3>1
  <2>5. p.size = r.size /\ p.space = r.space /\ p.items = items
    BY <2>4
  <2>6. /\ r.space \in Nat \ {0} /\ r.size <= r.space /\ r.items \in [0 .. r.space - 1 -> Value \cup {NULL}]
        /\ \A k \in 0 .. r.size - 1 : r.items[k] \in Value
    BY <1>2 DEF BuiltArray
  <2>7. /\ items \in [0 .. r.space - 1 -> Value \cup {NULL}]
        /\ \A k \in 0 .. r.size - 1 : items[k] = IF k = i - 1 THEN v ELSE r.items[k]
    <3>1. \A k \in 0 .. r.size - 1 : k \in 0 .. r.space - 1
      BY <2>6, <1>2
    <3> QED BY <3>1, <2>3, <2>6
  <2>8. BuiltArray(p)
    <3>1. r.size \in 0 .. r.space
      BY <2>6, <1>2
    <3> QED BY <3>1, <2>4, <2>5, <2>6, <2>7 DEF BuiltArray
  <2>9. BuiltIInv' /\ B!lists' = [B!lists EXCEPT ![l] = B!Contents(p)]
    BY <2>2, <2>5, <2>8, <1>2, ChangesKeeps
  <2>10. B!Contents(p) = [B!lists[l] EXCEPT ![i] = v]
    <3>1. /\ B!Contents(p) \in Seq(Value) /\ Len(B!Contents(p)) = r.size
          /\ \A k \in 1 .. r.size : B!Contents(p)[k] = items[k - 1]
      BY <2>5, <2>8, ContentsAre
    <3>2. /\ [B!lists[l] EXCEPT ![i] = v] \in Seq(Value) /\ Len([B!lists[l] EXCEPT ![i] = v]) = r.size
          /\ \A k \in 1 .. r.size : [B!lists[l] EXCEPT ![i] = v][k] = IF k = i THEN v ELSE B!lists[l][k]
      BY <1>2, <1>6, ExceptSeq
    <3>3. ASSUME NEW k \in 1 .. r.size PROVE B!Contents(p)[k] = [B!lists[l] EXCEPT ![i] = v][k]
      <4>1. k - 1 \in 0 .. r.size - 1 /\ (k - 1 = i - 1 <=> k = i)
        BY <1>2, <1>6
      <4> QED BY <4>1, <3>1, <3>2, <2>7, <1>2
    <3> QED BY <3>1, <3>2, <3>3, SeqEqual
  <2>11. i \in 1 .. Len(B!lists[l]) + 1 /\ i \in 1 .. Len(B!lists[l])
    BY <1>2, <1>6
  <2>12. B!Abstract!AtPut(l, i, v)
    BY <2>2, <2>9, <2>10, <2>11 DEF B!Abstract!AtPut
  <2> QED BY <2>9, <2>12, <1>3 DEF B!Abstract!Next
<1>7. i = r.size + 1 \/ (i > r.size + 1 \/ i <= 0) \/ i \in 1 .. r.size
  BY <1>2, <1>3
<1> QED BY <1>4, <1>5, <1>6, <1>7

LEMMA BuiltAddFirstStep ==
  ASSUME B!ConstantsOK, BuiltIInv, NEW l \in List, NEW v \in Value, B!AddFirst(l, v)
  PROVE  BuiltIInv' /\ B!Abstract!Next
<1>1. PICK q, r : q = store[l] /\ r = B!Pushed(q, v)
  OBVIOUS
<1>2. /\ BuiltArray(q) /\ q.size \in Nat /\ q.size < MaxSizes[l]
      /\ B!lists[l] = B!Contents(q) /\ B!lists[l] \in Seq(Value) /\ Len(B!lists[l]) = q.size
  BY <1>1, StoreIs DEF B!AddFirst, B!Roomy
<1>3. BuiltArray(r) /\ r.size = q.size + 1 /\ B!Contents(r) = Append(B!lists[l], v)
  BY <1>1, <1>2, PushedIs
<1> DEFINE items == [k \in 0 .. r.space - 1 |->
                       IF k = 0 THEN v ELSE IF k < r.size THEN r.items[k - 1] ELSE r.items[k]]
<1>4. PICK p : p = [r EXCEPT !.items = items]
  OBVIOUS
<1>5. B!Changes(l, p) /\ answer' = <<"addFirst", l, v>>
  BY <1>1, <1>4 DEF B!AddFirst
<1>6. /\ r.space \in Nat \ {0} /\ r.size \in Nat /\ r.size <= r.space
      /\ r.items \in [0 .. r.space - 1 -> Value \cup {NULL}]
      /\ \A k \in 0 .. r.size - 1 : r.items[k] \in Value
  BY <1>3 DEF BuiltArray
<1>7. \A k \in 0 .. r.size - 1 : items[k] = IF k = 0 THEN v ELSE r.items[k - 1]
  <2>1. \A k \in 0 .. r.size - 1 : k \in 0 .. r.space - 1 /\ k < r.size
    BY <1>6
  <2> QED BY <2>1
<1>8. items \in [0 .. r.space - 1 -> Value \cup {NULL}]
  <2>1. \A k \in 0 .. r.space - 1 : k # 0 => k - 1 \in 0 .. r.space - 1
    BY <1>6
  <2> QED BY <2>1, <1>6
<1> HIDE DEF items
<1>9. p = [size |-> r.size, space |-> r.space, items |-> items]
  <2>1. r = [size |-> r.size, space |-> r.space, items |-> r.items]
    BY <1>3 DEF BuiltArray
  <2> QED BY <2>1, <1>4
<1>10. p.size = r.size /\ p.space = r.space /\ p.items = items
  BY <1>9
<1>11. BuiltArray(p)
  <2>1. r.size \in 0 .. r.space
    BY <1>6
  <2>2. ASSUME NEW k \in 0 .. r.size - 1 PROVE items[k] \in Value
    <3>1. k # 0 => k - 1 \in 0 .. r.size - 1
      BY <1>6
    <3> QED BY <3>1, <1>6, <1>7
  <2> QED BY <2>1, <2>2, <1>6, <1>8, <1>9, <1>10 DEF BuiltArray
<1>12. r.size <= MaxSizes[l]
  <2>1. MaxSizes[l] \in Nat
    BY DEF B!ConstantsOK
  <2> QED BY <2>1, <1>2, <1>3
<1>13. BuiltIInv' /\ B!lists' = [B!lists EXCEPT ![l] = B!Contents(p)]
  BY <1>5, <1>10, <1>11, <1>12, ChangesKeeps
<1>14. B!Contents(p) = <<v>> \o B!lists[l]
  <2>1. /\ B!Contents(p) \in Seq(Value) /\ Len(B!Contents(p)) = q.size + 1
        /\ \A k \in 1 .. q.size + 1 : B!Contents(p)[k] = items[k - 1]
    BY <1>3, <1>10, <1>11, ContentsAre
  <2>2. /\ <<v>> \o B!lists[l] \in Seq(Value) /\ Len(<<v>> \o B!lists[l]) = 1 + q.size
        /\ \A k \in 1 .. 1 + q.size : (<<v>> \o B!lists[l])[k] = IF k <= 1 THEN v ELSE B!lists[l][k - 1]
    <3>1. <<v>> \in Seq(Value) /\ Len(<<v>>) = 1 /\ <<v>>[1] = v
      OBVIOUS
    <3>2. /\ <<v>> \o B!lists[l] \in Seq(Value) /\ Len(<<v>> \o B!lists[l]) = Len(<<v>>) + Len(B!lists[l])
          /\ \A k \in 1 .. Len(<<v>>) + Len(B!lists[l]) :
               (<<v>> \o B!lists[l])[k] = IF k <= Len(<<v>>) THEN <<v>>[k] ELSE B!lists[l][k - Len(<<v>>)]
      BY <3>1, <1>2, ConcatProperties
    <3>3. \A k \in 1 .. 1 + q.size : k <= 1 => k = 1
      OBVIOUS
    <3> QED BY <3>1, <3>2, <3>3, <1>2
  <2>3. /\ \A k \in 1 .. q.size : B!lists[l][k] = r.items[k - 1]
    <3>1. \A k \in 1 .. q.size + 1 : Append(B!lists[l], v)[k] = r.items[k - 1]
      BY <1>3, ContentsAre
    <3>2. \A k \in 1 .. q.size : Append(B!lists[l], v)[k] = B!lists[l][k] /\ k \in 1 .. q.size + 1
      BY <1>2, AppendProperties
    <3> QED BY <3>1, <3>2
  <2>4. ASSUME NEW k \in 1 .. q.size + 1 PROVE B!Contents(p)[k] = (<<v>> \o B!lists[l])[k]
    <3>1. CASE k = 1
      <4>1. k - 1 = 0 /\ k - 1 \in 0 .. r.size - 1 /\ k <= 1 /\ k \in 1 .. 1 + q.size
        BY <3>1, <1>2, <1>3
      <4> QED BY <4>1, <2>1, <2>2, <1>7
    <3>2. CASE k # 1
      <4>1. /\ k - 1 # 0 /\ k - 1 \in 0 .. r.size - 1 /\ ~(k <= 1) /\ k - 1 \in 1 .. q.size
            /\ k \in 1 .. 1 + q.size
        BY <3>2, <1>2, <1>3
      <4>2. B!Contents(p)[k] = r.items[(k - 1) - 1]
        BY <4>1, <2>1, <1>7
      <4> QED BY <4>1, <4>2, <2>2, <2>3
    <3> QED BY <3>1, <3>2
  <2>5. Len(B!Contents(p)) = Len(<<v>> \o B!lists[l])
    BY <2>1, <2>2, <1>2
  <2> QED BY <2>1, <2>2, <2>4, <2>5, SeqEqual
<1>15. B!Abstract!AddFirst(l, v)
  BY <1>5, <1>13, <1>14 DEF B!Abstract!AddFirst
<1> QED BY <1>13, <1>15 DEF B!Abstract!Next

\* A new list is made behind the loops' back.
LEMMA DeriveStep ==
  ASSUME B!ConstantsOK, BuiltIInv, NEW r \in List, NEW s \in Seq(Value), B!Derive(r, s)
  PROVE  BuiltIInv' /\ B!Abstract!New(r, s)
<1>1. /\ \A k \in 1 .. Len(loops) : r # loops[k].list /\ r # loops[k].into
      /\ Len(s) <= MaxSizes[r] /\ store' = [store EXCEPT ![r] = B!PushedAll(s)]
      /\ answer' = <<"new", r>> /\ loops' = loops
  BY DEF B!Derive
<1>2. BuiltArray(B!PushedAll(s)) /\ B!PushedAll(s).size = Len(s) /\ B!Contents(B!PushedAll(s)) = s
  BY PushedAllIs
<1>3. /\ Stored(store') /\ \A m \in List : m # r => store'[m] = store[m]
      /\ B!lists' = [B!lists EXCEPT ![r] = s]
  <2>1. PICK p : p = B!PushedAll(s)
    OBVIOUS
  <2>2. BuiltArray(p) /\ p.size <= MaxSizes[r] /\ store' = [store EXCEPT ![r] = p] /\ B!Contents(p) = s
    BY <2>1, <1>1, <1>2
  <2> QED BY <2>2, StoredIs
<1>4. ASSUME NEW k \in 1 .. Len(loops) PROVE BuiltLoops(loops[k], store')
  <2>1. BuiltLoops(loops[k], store)
    BY DEF BuiltIInv, BuiltNested
  <2>2. store'[loops[k].list] = store[loops[k].list] /\ store'[loops[k].into] = store[loops[k].into]
    BY <2>1, <1>1, <1>3 DEF BuiltLoops, BuiltFrames
  <2> QED BY <2>1, <2>2 DEF BuiltLoops
<1>5. BuiltIInv'
  BY <1>1, <1>3, <1>4 DEF BuiltIInv, BuiltNested
<1> QED BY <1>1, <1>3, <1>5 DEF B!Abstract!New

LEMMA DerivedSteps ==
  ASSUME B!ConstantsOK, BuiltIInv, NEW l \in List, NEW m \in List, NEW r \in List,
         B!Concat(l, m, r) \/ B!Copy(l, r) \/ B!Reversed(l, r)
  PROVE  BuiltIInv' /\ B!Abstract!Next
<1>1. /\ B!lists[l] = B!Contents(store[l]) /\ B!lists[l] \in Seq(Value) /\ Len(B!lists[l]) \in Nat
      /\ B!lists[m] = B!Contents(store[m]) /\ B!lists[m] \in Seq(Value)
  BY StoreIs
<1>2. CASE B!Concat(l, m, r)
  <2>1. B!lists[l] \o B!lists[m] \in Seq(Value)
    BY <1>1, ConcatProperties
  <2>2. BuiltIInv' /\ B!Abstract!New(r, B!lists[l] \o B!lists[m])
    BY <1>1, <1>2, <2>1, DeriveStep DEF B!Concat
  <2> QED BY <2>2 DEF B!Abstract!Next, B!Abstract!Derived
<1>3. CASE B!Copy(l, r)
  <2>1. BuiltIInv' /\ B!Abstract!New(r, B!lists[l])
    BY <1>1, <1>3, DeriveStep DEF B!Copy
  <2> QED BY <2>1 DEF B!Abstract!Next, B!Abstract!Derived
<1>4. CASE B!Reversed(l, r)
  <2>1. PICK s : s = B!lists[l]
    OBVIOUS
  <2> DEFINE t == [k \in 1 .. Len(s) |-> s[Len(s) + 1 - k]]
  <2>2. t \in Seq(Value)
    <3>1. Len(s) \in Nat /\ \A k \in 1 .. Len(s) : s[k] \in Value
      BY <1>1, <2>1, ElementOfSeq
    <3>2. \A k \in 1 .. Len(s) : Len(s) + 1 - k \in 1 .. Len(s)
      BY <3>1
    <3>3. t \in [1 .. Len(s) -> Value]
      BY <3>1, <3>2
    <3> HIDE DEF t
    <3> QED BY <3>1, <3>3
  <2>3. B!Derive(r, t)
    BY <1>1, <1>4, <2>1 DEF B!Reversed
  <2>4. t = [k \in B!Abstract!Indices(l) |-> B!lists[l][Len(B!lists[l]) + 1 - k]]
    BY <2>1 DEF B!Abstract!Indices
  <2> HIDE DEF t
  <2>5. BuiltIInv' /\ B!Abstract!New(r, t)
    BY <2>2, <2>3, DeriveStep
  <2>6. B!Abstract!New(r, [k \in B!Abstract!Indices(l) |-> B!lists[l][Len(B!lists[l]) + 1 - k]])
    BY <2>4, <2>5
  <2>7. B!Abstract!Derived(r)
    BY <2>6 DEF B!Abstract!Derived
  <2> QED BY <2>5, <2>7 DEF B!Abstract!Next
<1> QED BY <1>2, <1>3, <1>4

----------------------------------------------------------------------------
LEMMA BuiltLoopStartsStep ==
  ASSUME B!ConstantsOK, BuiltIInv, NEW op \in {"do", "asString", "addAll"}, NEW l \in List, NEW m \in List,
         B!LoopStarts(op, l, m)
  PROVE  BuiltIInv' /\ UNCHANGED <<B!lists, answer>>
<1>1. PICK f : f = [op |-> op, list |-> l, into |-> m, index |-> 0,
                    len |-> IF op = "asString" THEN store[l].size ELSE 0,
                    given |-> << >>, made |-> B!Contents(store[l]),
                    onto |-> IF op = "addAll" THEN B!Contents(store[m]) ELSE << >>, touched |-> FALSE]
  OBVIOUS
<1>2. /\ Len(loops) < MaxLoops /\ (op # "addAll" => m = l) /\ loops' = Append(loops, f)
      /\ store' = store /\ answer' = answer
  BY <1>1 DEF B!LoopStarts
<1>3. /\ B!Contents(store[l]) \in Seq(Value) /\ B!Contents(store[m]) \in Seq(Value)
      /\ Len(B!Contents(store[l])) = store[l].size /\ store[l].size \in Nat /\ << >> \in Seq(Value)
  BY StoreIs, EmptySeq
<1>4. /\ f.op = op /\ f.list = l /\ f.into = m /\ f.index = 0 /\ f.given = << >>
      /\ f.made = B!Contents(store[l]) /\ f.touched = FALSE
      /\ (op = "asString" => f.len = store[l].size)
      /\ (op = "addAll" => f.onto = B!Contents(store[m]))
  BY <1>1
<1>5. f \in BuiltFrames
  BY <1>1, <1>3 DEF BuiltFrames
<1>6. SubSeq(f.made, 1, 0) = << >> /\ B!Contents(store[m]) \o << >> = B!Contents(store[m])
  BY <1>3, SubSeqEmpty, ConcatEmptySeq
<1>7. 0 <= MaxSizes[l] /\ 0 <= Len(f.made)
  <2>1. MaxSizes[l] \in Nat
    BY DEF B!ConstantsOK
  <2> QED BY <2>1, <1>3, <1>4
<1>8. BuiltLoops(f, store)
  <2>1. op = "addAll" => IF m = l THEN f.onto = f.made ELSE B!Contents(store[m]) = f.onto \o f.given
    BY <1>4, <1>6
  <2> QED BY <2>1, <1>3, <1>4, <1>5, <1>6, <1>7 DEF BuiltLoops
<1>9. /\ loops \in Seq(BuiltFrames) /\ Len(loops) \in Nat /\ \A k \in 1 .. Len(loops) : BuiltLoops(loops[k], store)
  BY DEF BuiltIInv, BuiltNested
<1>10. /\ loops' \in Seq(BuiltFrames) /\ Len(loops') = Len(loops) + 1
       /\ \A k \in 1 .. Len(loops) : loops'[k] = loops[k]
       /\ loops'[Len(loops) + 1] = f
  BY <1>2, <1>5, <1>9, AppendProperties
<1>11. ASSUME NEW k \in 1 .. Len(loops') PROVE BuiltLoops(loops'[k], store)
  <2>1. k \in 1 .. Len(loops) \/ k = Len(loops) + 1
    BY <1>9, <1>10
  <2> QED BY <2>1, <1>8, <1>9, <1>10
<1>12. Len(loops') <= MaxLoops
  <2>1. MaxLoops \in Nat
    BY DEF B!ConstantsOK
  <2> QED BY <2>1, <1>2, <1>9, <1>10
<1> QED BY <1>2, <1>10, <1>11, <1>12 DEF BuiltIInv, BuiltNested, B!lists

LEMMA BuiltTopIs ==
  ASSUME BuiltIInv, loops # << >>
  PROVE  /\ B!Top \in BuiltFrames /\ BuiltLoops(B!Top, store) /\ loops \in Seq(BuiltFrames)
         /\ Len(loops) \in 1 .. Len(loops) /\ Len(loops) \in Nat /\ Len(loops) <= MaxLoops
         /\ \A k \in 1 .. Len(loops) : BuiltLoops(loops[k], store)
<1>1. /\ loops \in Seq(BuiltFrames) /\ Len(loops) <= MaxLoops
      /\ \A k \in 1 .. Len(loops) : BuiltLoops(loops[k], store)
  BY DEF BuiltIInv, BuiltNested
<1>2. Len(loops) \in Nat /\ Len(loops) # 0
  BY <1>1, EmptySeq
<1>3. Len(loops) \in 1 .. Len(loops)
  BY <1>2
<1> QED BY <1>1, <1>2, <1>3 DEF B!Top, BuiltLoops

\* The innermost loop goes on.
LEMMA TopBecomes ==
  ASSUME BuiltIInv, loops # << >>, NEW f, BuiltLoops(f, store), loops' = [loops EXCEPT ![Len(loops)] = f],
         UNCHANGED store
  PROVE  BuiltIInv' /\ B!lists' = B!lists
<1>1. /\ loops \in Seq(BuiltFrames) /\ Len(loops) \in 1 .. Len(loops) /\ Len(loops) <= MaxLoops
      /\ \A k \in 1 .. Len(loops) : BuiltLoops(loops[k], store)
  BY BuiltTopIs
<1>2. f \in BuiltFrames
  BY DEF BuiltLoops
<1>3. /\ loops' \in Seq(BuiltFrames) /\ Len(loops') = Len(loops)
      /\ \A k \in 1 .. Len(loops) : loops'[k] = IF k = Len(loops) THEN f ELSE loops[k]
  BY <1>1, <1>2, ExceptSeq
<1>4. \A k \in 1 .. Len(loops) : BuiltLoops(loops'[k], store)
  BY <1>1, <1>3
<1> QED BY <1>1, <1>3, <1>4 DEF BuiltIInv, BuiltNested, B!lists

\* What it has read then.
LEMMA BuiltAdvancedIs ==
  ASSUME BuiltIInv, loops # << >>, ~B!Top.touched => B!Top.index < Len(B!Top.made)
  PROVE  /\ B!Advanced(B!Top) \in BuiltFrames
         /\ B!Advanced(B!Top).op = B!Top.op /\ B!Advanced(B!Top).list = B!Top.list /\ B!Advanced(B!Top).into = B!Top.into
         /\ B!Advanced(B!Top).index = B!Top.index + 1 /\ B!Advanced(B!Top).len = B!Top.len
         /\ B!Advanced(B!Top).made = B!Top.made /\ B!Advanced(B!Top).onto = B!Top.onto
         /\ B!Advanced(B!Top).touched = B!Top.touched
         /\ ~B!Top.touched => /\ B!Advanced(B!Top).given = SubSeq(B!Top.made, 1, B!Top.index + 1)
                            /\ B!Advanced(B!Top).given = Append(B!Top.given, store[B!Top.list].items[B!Top.index])
                            /\ B!Advanced(B!Top).index <= Len(B!Top.made)
<1>1. B!Top \in BuiltFrames /\ BuiltLoops(B!Top, store)
  BY BuiltTopIs
<1>2. PICK g : g = IF B!Top.touched THEN B!Top.given ELSE Append(B!Top.given, store[B!Top.list].items[B!Top.index])
  OBVIOUS
<1>3. B!Top.index \in Nat /\ B!Top.list \in List /\ B!Top.given \in Seq(Value) /\ B!Top.made \in Seq(Value)
  BY <1>1 DEF BuiltFrames
<1>4. ~B!Top.touched => /\ g = SubSeq(B!Top.made, 1, B!Top.index + 1) /\ g \in Seq(Value)
                      /\ B!Top.index + 1 <= Len(B!Top.made)
  <2>1. SUFFICES ASSUME ~B!Top.touched
                 PROVE  /\ g = SubSeq(B!Top.made, 1, B!Top.index + 1) /\ g \in Seq(Value)
                        /\ B!Top.index + 1 <= Len(B!Top.made)
    OBVIOUS
  <2>2. B!Top.made = B!Contents(store[B!Top.list]) /\ B!Top.given = SubSeq(B!Top.made, 1, B!Top.index)
    BY <2>1, <1>1 DEF BuiltLoops
  <2>3. B!Top.index < Len(B!Top.made) /\ Len(B!Top.made) \in Nat
    BY <2>1, <1>3
  <2>4. B!Top.index + 1 \in 1 .. Len(B!Top.made) /\ (B!Top.index + 1) - 1 = B!Top.index
    BY <2>3, <1>3
  <2>5. B!Top.made[B!Top.index + 1] = store[B!Top.list].items[B!Top.index]
    BY <2>2, <2>4, <1>3, StoreIs
  <2>6. g = SubSeq(B!Top.made, 1, B!Top.index + 1)
    BY <2>1, <2>2, <2>3, <2>5, <1>2, <1>3, Grown
  <2>7. SubSeq(B!Top.made, 1, B!Top.index + 1) \in Seq(Value)
    <3>1. B!Top.index + 1 \in 0 .. Len(B!Top.made)
      BY <2>4
    <3> QED BY <3>1, <1>3, SplitAt
  <2> QED BY <2>4, <2>6, <2>7
<1>5. g \in Seq(Value)
  BY <1>2, <1>3, <1>4
<1>6. B!Advanced(B!Top) = [B!Top EXCEPT !.index = B!Top.index + 1, !.given = g]
  BY <1>1, <1>2 DEF B!Advanced, BuiltFrames
<1>7. B!Top.index + 1 \in Nat
  BY <1>3
<1>8. PICK t : t = B!Top
  OBVIOUS
<1>9. PICK f : f = [t EXCEPT !.index = t.index + 1, !.given = g]
  OBVIOUS
<1>10. t \in BuiltFrames /\ t.index + 1 \in Nat
  BY <1>1, <1>7, <1>8
<1>11. /\ f \in BuiltFrames /\ f.op = t.op /\ f.list = t.list /\ f.into = t.into /\ f.index = t.index + 1
       /\ f.len = t.len /\ f.made = t.made /\ f.onto = t.onto /\ f.touched = t.touched /\ f.given = g
  BY <1>5, <1>9, <1>10 DEF BuiltFrames
<1> QED BY <1>2, <1>4, <1>6, <1>8, <1>9, <1>11

LEMMA BuiltDoRoundStep ==
  ASSUME B!ConstantsOK, BuiltIInv, B!DoRound
  PROVE  BuiltIInv' /\ B!Abstract!Next
<1>1. PICK l, n : l = B!Top.list /\ n = B!Top.index
  OBVIOUS
<1>2. /\ loops # << >> /\ B!Top.op = "do" /\ n < store[l].size
      /\ loops' = [loops EXCEPT ![Len(loops)] = B!Advanced(B!Top)]
      /\ answer' = <<"each", l, n + 1, store[l].items[n]>> /\ store' = store
  BY <1>1 DEF B!DoRound
<1>3. B!Top \in BuiltFrames /\ BuiltLoops(B!Top, store) /\ l \in List /\ n \in Nat
  BY <1>1, <1>2, BuiltTopIs DEF BuiltFrames
<1>4. /\ store[l].size <= MaxSizes[l] /\ store[l].size \in Nat /\ MaxSizes[l] \in Nat
      /\ Len(B!Contents(store[l])) = store[l].size
  <2>1. MaxSizes[l] \in Nat
    BY <1>3 DEF B!ConstantsOK
  <2> QED BY <2>1, <1>3, StoreIs
<1>5. PICK f : f = B!Advanced(B!Top)
  OBVIOUS
<1>6. ~B!Top.touched => B!Top.made = B!Contents(store[l]) /\ n < Len(B!Top.made)
  BY <1>1, <1>2, <1>3, <1>4 DEF BuiltLoops
<1>7. /\ f \in BuiltFrames /\ f.op = "do" /\ f.list = l /\ f.index = n + 1
      /\ f.made = B!Top.made /\ f.touched = B!Top.touched
      /\ ~B!Top.touched => f.given = SubSeq(B!Top.made, 1, n + 1) /\ f.index <= Len(B!Top.made)
  BY <1>1, <1>2, <1>5, <1>6, BuiltAdvancedIs
<1>8. n + 1 <= MaxSizes[l] /\ n + 1 \in 1 .. store[l].size /\ (n + 1) - 1 = n
  BY <1>2, <1>3, <1>4
<1>9. BuiltLoops(f, store)
  BY <1>6, <1>7, <1>8 DEF BuiltLoops
<1>10. BuiltIInv' /\ B!lists' = B!lists
  BY <1>2, <1>5, <1>9, TopBecomes
<1>11. B!Abstract!Each(l, n + 1)
  <2>1. /\ B!lists[l][n + 1] = store[l].items[n] /\ Len(B!lists[l]) = store[l].size
    BY <1>3, <1>8, StoreIs
  <2> QED BY <2>1, <1>2, <1>8, <1>10 DEF B!Abstract!Each, B!Abstract!Indices
<1>12. n + 1 \in UNION {B!Indices(m) : m \in List}
  <2>1. n + 1 \in B!Indices(l)
    BY <1>3, <1>4, <1>8 DEF B!Indices
  <2> QED BY <2>1, <1>3
<1> QED BY <1>3, <1>10, <1>11, <1>12 DEF B!Abstract!Next

LEMMA AsStringRoundStep ==
  ASSUME BuiltIInv, B!AsStringRound
  PROVE  BuiltIInv' /\ UNCHANGED <<B!lists, answer>>
<1>1. /\ loops # << >> /\ B!Top.op = "asString" /\ B!Top.index < B!Top.len
      /\ loops' = [loops EXCEPT ![Len(loops)] = B!Advanced(B!Top)]
      /\ answer' = answer /\ store' = store
  BY DEF B!AsStringRound
<1>2. B!Top \in BuiltFrames /\ BuiltLoops(B!Top, store)
  BY <1>1, BuiltTopIs
<1>3. PICK f : f = B!Advanced(B!Top)
  OBVIOUS
<1>4. ~B!Top.touched => /\ B!Top.made = B!Contents(store[B!Top.list]) /\ B!Top.index < Len(B!Top.made)
                      /\ B!Top.len = Len(B!Top.made)
  BY <1>1, <1>2 DEF BuiltLoops
<1>5. /\ f \in BuiltFrames /\ f.op = "asString" /\ f.list = B!Top.list /\ f.index = B!Top.index + 1
      /\ f.made = B!Top.made /\ f.touched = B!Top.touched /\ f.len = B!Top.len
      /\ ~B!Top.touched => f.given = SubSeq(B!Top.made, 1, B!Top.index + 1) /\ f.index <= Len(B!Top.made)
  BY <1>1, <1>3, <1>4, BuiltAdvancedIs
<1>6. BuiltLoops(f, store)
  BY <1>4, <1>5 DEF BuiltLoops
<1> QED BY <1>1, <1>3, <1>6, TopBecomes

LEMMA BuiltAddAllRoundStep ==
  ASSUME B!ConstantsOK, BuiltIInv, B!AddAllRound
  PROVE  BuiltIInv' /\ B!Abstract!Next
<1>1. PICK l, m, n, v : l = B!Top.list /\ m = B!Top.into /\ n = B!Top.index /\ v = store[l].items[n]
  OBVIOUS
<1>2. PICK f : f = B!Advanced(B!Top)
  OBVIOUS
<1>3. /\ loops # << >> /\ B!Top.op = "addAll" /\ n < store[l].size /\ store[m].size < MaxSizes[m]
      /\ store' = [store EXCEPT ![m] = B!Pushed(store[m], v)]
      /\ loops' = [k \in 1 .. Len(loops) |->
                      IF k < Len(loops) THEN B!Disturbed(loops[k], m)
                      ELSE IF m = l THEN B!Disturbed(f, m) ELSE f]
      /\ answer' = <<"push", m, v>>
  BY <1>1, <1>2 DEF B!AddAllRound, B!Roomy
<1>4. /\ B!Top \in BuiltFrames /\ BuiltLoops(B!Top, store) /\ l \in List /\ m \in List /\ n \in Nat
      /\ loops \in Seq(BuiltFrames) /\ Len(loops) \in Nat /\ Len(loops) <= MaxLoops
      /\ \A k \in 1 .. Len(loops) : BuiltLoops(loops[k], store)
  BY <1>1, <1>3, BuiltTopIs DEF BuiltFrames
<1>5. /\ store[l].size \in Nat /\ B!Contents(store[l]) \in Seq(Value)
      /\ Len(B!Contents(store[l])) = store[l].size
      /\ \A k \in 1 .. store[l].size : /\ B!Contents(store[l])[k] = store[l].items[k - 1]
                                       /\ store[l].items[k - 1] \in Value
  BY <1>4, StoreIs
<1>6. v \in Value /\ v = B!Contents(store[l])[n + 1]
  <2>1. n + 1 \in 1 .. store[l].size /\ (n + 1) - 1 = n
    BY <1>3, <1>4, <1>5
  <2> QED BY <2>1, <1>1, <1>5
<1>7. PICK p : p = B!Pushed(store[m], v)
  OBVIOUS
<1>8. BuiltArray(p) /\ p.size = store[m].size + 1 /\ B!Contents(p) = Append(B!lists[m], v)
      /\ B!lists[m] = B!Contents(store[m])
  <2>1. BuiltArray(store[m]) /\ B!lists[m] = B!Contents(store[m])
    BY <1>4, StoreIs
  <2>2. v \in Value
    BY <1>6
  <2> QED BY <2>1, <2>2, <1>7, PushedIs
<1>9. p.size <= MaxSizes[m]
  <2>1. MaxSizes[m] \in Nat
    BY <1>4 DEF B!ConstantsOK
  <2>2. store[m].size \in Nat
    BY <1>4, StoreIs
  <2> QED BY <2>1, <2>2, <1>3, <1>8
<1>10. /\ Stored(store') /\ \A k \in List : k # m => store'[k] = store[k]
       /\ store'[m] = p /\ B!lists' = [B!lists EXCEPT ![m] = Append(B!lists[m], v)]
  BY <1>3, <1>4, <1>7, <1>8, <1>9, StoredIs
<1>11. ~B!Top.touched => /\ B!Top.made = B!Contents(store[l]) /\ n < Len(B!Top.made)
                       /\ B!Top.given = SubSeq(B!Top.made, 1, n)
                       /\ IF m = l THEN n = 0 /\ B!Top.onto = B!Top.made
                          ELSE B!Contents(store[m]) = B!Top.onto \o B!Top.given
  BY <1>1, <1>3, <1>4, <1>5 DEF BuiltLoops
<1>12. /\ f \in BuiltFrames /\ f.op = "addAll" /\ f.list = l /\ f.into = m /\ f.index = n + 1
       /\ f.made = B!Top.made /\ f.onto = B!Top.onto /\ f.touched = B!Top.touched
       /\ ~B!Top.touched => f.given = SubSeq(B!Top.made, 1, n + 1) /\ f.index <= Len(B!Top.made)
  BY <1>1, <1>2, <1>3, <1>11, BuiltAdvancedIs
<1>13. m = l => BuiltLoops(B!Disturbed(f, m), store')
  BY <1>12, TouchedIs
<1>14. m # l => BuiltLoops(f, store')
  <2>1. SUFFICES ASSUME m # l PROVE BuiltLoops(f, store')
    OBVIOUS
  <2>2. CASE B!Top.touched
    BY <2>2, <1>12 DEF BuiltLoops
  <2>3. CASE ~B!Top.touched
    <3>1. store'[l] = store[l] /\ store'[m] = p
      BY <2>1, <1>4, <1>10
    <3>2. f.made = B!Contents(store'[l])
      BY <2>3, <3>1, <1>11, <1>12
    <3>3. B!Contents(p) = f.onto \o f.given
      <4>1. B!Top.onto \in Seq(Value) /\ B!Top.made \in Seq(Value)
        BY <1>4 DEF BuiltFrames
      <4>2. B!Top.onto \o SubSeq(B!Top.made, 1, n + 1)
              = Append(B!Top.onto \o SubSeq(B!Top.made, 1, n), B!Top.made[n + 1])
        BY <4>1, <2>3, <1>4, <1>11, JoinedGrown
      <4>3. B!Contents(p) = Append(B!Top.onto \o SubSeq(B!Top.made, 1, n), B!Top.made[n + 1])
        BY <2>1, <2>3, <1>6, <1>8, <1>11
      <4> QED BY <4>2, <4>3, <2>3, <1>12
    <3> QED BY <2>1, <3>1, <3>2, <3>3, <2>3, <1>12 DEF BuiltLoops
  <2> QED BY <2>2, <2>3
<1>15. ASSUME NEW k \in 1 .. Len(loops) PROVE BuiltLoops(loops'[k], store')
  <2>1. CASE k < Len(loops)
    <3>1. loops'[k] = B!Disturbed(loops[k], m)
      BY <2>1, <1>3
    <3> QED BY <3>1, <1>4, <1>10, BuiltDisturbedIs
  <2>2. CASE ~(k < Len(loops))
    <3>1. loops'[k] = IF m = l THEN B!Disturbed(f, m) ELSE f
      BY <2>2, <1>3
    <3> QED BY <3>1, <1>13, <1>14
  <2> QED BY <2>1, <2>2
<1>16. loops' \in Seq(BuiltFrames) /\ Len(loops') = Len(loops)
  <2>1. loops' = [k \in 1 .. Len(loops) |-> loops'[k]]
    BY <1>3
  <2>2. \A k \in 1 .. Len(loops) : loops'[k] \in BuiltFrames
    BY <1>15 DEF BuiltLoops
  <2>3. loops' \in [1 .. Len(loops) -> BuiltFrames]
    BY <2>1, <2>2
  <2> QED BY <2>3, <1>4
<1>17. BuiltIInv'
  BY <1>4, <1>10, <1>15, <1>16 DEF BuiltIInv, BuiltNested
<1>18. B!Abstract!Push(m, v)
  BY <1>3, <1>10 DEF B!Abstract!Push
<1> QED BY <1>4, <1>6, <1>17, <1>18 DEF B!Abstract!Next

\* Loops that are left: those around them stay as they are.
LEMMA CutKeeps ==
  ASSUME B!ConstantsOK, BuiltIInv, loops # << >>, NEW n \in 0 .. Len(loops) - 1,
         loops' = SubSeq(loops, 1, n), UNCHANGED store
  PROVE  BuiltIInv' /\ B!lists' = B!lists
<1>1. /\ loops \in Seq(BuiltFrames) /\ Len(loops) \in Nat /\ Len(loops) <= MaxLoops
      /\ \A k \in 1 .. Len(loops) : BuiltLoops(loops[k], store)
  BY BuiltTopIs
<1>2. n \in 0 .. Len(loops) /\ n <= Len(loops) /\ \A k \in 1 .. n : k \in 1 .. Len(loops)
  BY <1>1
<1>3. loops' \in Seq(BuiltFrames) /\ Len(loops') = n /\ \A k \in 1 .. n : loops'[k] = loops[k]
  BY <1>1, <1>2, SplitAt
<1>4. \A k \in 1 .. n : BuiltLoops(loops'[k], store)
  BY <1>1, <1>2, <1>3
<1>5. n <= MaxLoops
  <2>1. MaxLoops \in Nat
    BY DEF B!ConstantsOK
  <2> QED BY <2>1, <1>1, <1>2
<1> QED BY <1>3, <1>4, <1>5 DEF BuiltIInv, BuiltNested, B!lists

LEMMA BuiltLoopReturnsStep ==
  ASSUME B!ConstantsOK, BuiltIInv, B!LoopReturns
  PROVE  BuiltIInv' /\ (B!Abstract!Next \/ UNCHANGED <<B!lists, answer>>)
<1>1. /\ loops # << >> /\ store' = store /\ loops' = SubSeq(loops, 1, Len(loops) - 1)
      /\ B!Top.index >= IF B!Top.op = "asString" THEN B!Top.len ELSE store[B!Top.list].size
      /\ answer' = IF B!Top.op = "do" THEN <<"done", B!Top.list, B!Top.index + 1>> ELSE answer
  BY DEF B!LoopReturns
<1>2. B!Top \in BuiltFrames /\ BuiltLoops(B!Top, store) /\ Len(loops) \in Nat /\ Len(loops) \in 1 .. Len(loops)
  BY <1>1, BuiltTopIs
<1>3. Len(loops) - 1 \in 0 .. Len(loops) - 1
  BY <1>2
<1>4. BuiltIInv' /\ B!lists' = B!lists
  BY <1>1, <1>3, CutKeeps
<1>5. CASE B!Top.op = "do"
  <2>1. PICK l, n : l = B!Top.list /\ n = B!Top.index
    OBVIOUS
  <2>2. l \in List /\ n \in Nat /\ n <= MaxSizes[l] /\ n >= store[l].size
    BY <2>1, <1>1, <1>2, <1>5 DEF BuiltLoops, BuiltFrames
  <2>3. store[l].size \in Nat /\ Len(B!lists[l]) = store[l].size
    BY <2>2, StoreIs
  <2>4. MaxSizes[l] \in Nat
    BY <2>2 DEF B!ConstantsOK
  <2>5. n + 1 > Len(B!lists[l]) /\ n + 1 \in 0 .. MaxSizes[l] + 1
    BY <2>2, <2>3, <2>4
  <2>6. n + 1 \in UNION {B!Indices(m) : m \in List}
    BY <2>2, <2>5 DEF B!Indices
  <2>7. B!Abstract!Done(l, n + 1)
    BY <2>1, <2>5, <1>1, <1>4, <1>5 DEF B!Abstract!Done
  <2> QED BY <2>2, <2>6, <2>7, <1>4 DEF B!Abstract!Next
<1>6. CASE B!Top.op # "do"
  BY <1>1, <1>4, <1>6
<1> QED BY <1>5, <1>6

LEMMA BuiltLoopsAreLeftStep ==
  ASSUME B!ConstantsOK, BuiltIInv, B!LoopsAreLeft
  PROVE  BuiltIInv' /\ UNCHANGED <<B!lists, answer>>
<1>1. PICK n \in 0 .. Len(loops) - 1 : loops' = SubSeq(loops, 1, n)
  BY DEF B!LoopsAreLeft
<1>2. loops # << >> /\ store' = store /\ answer' = answer
  BY DEF B!LoopsAreLeft
<1> QED BY <1>1, <1>2, CutKeeps

LEMMA BuiltInitOK ==
  ASSUME B!ConstantsOK, B!Init
  PROVE  BuiltIInv /\ B!Abstract!Init
<1>1. store = [l \in List |-> B!Fresh] /\ loops = << >> /\ answer = << >>
  BY DEF B!Init
<1>2. BuiltArray(B!Fresh) /\ B!Fresh.size = 0 /\ B!Contents(B!Fresh) = << >>
  BY FreshIs
<1>3. /\ \A l \in List : MaxSizes[l] \in Nat /\ 0 <= MaxSizes[l]
      /\ MaxLoops \in Nat /\ 0 <= MaxLoops
  BY DEF B!ConstantsOK
<1>4. Stored(store)
  BY <1>1, <1>2, <1>3 DEF Stored
<1>5. BuiltNested(loops, store)
  <2>1. << >> \in Seq(BuiltFrames) /\ Len(<< >>) = 0
    BY EmptySeq
  <2>2. \A k \in 1 .. 0 : BuiltLoops(<< >>[k], store)
    OBVIOUS
  <2> QED BY <2>1, <2>2, <1>1, <1>3 DEF BuiltNested
<1>6. B!lists \in [List -> {<< >>} \cup {<<v>> : v \in Value}]
  BY <1>1, <1>2 DEF B!lists
<1> QED BY <1>1, <1>4, <1>5, <1>6 DEF BuiltIInv, B!Abstract!Init

\* Every step keeps the invariant, and is one of sequences.
LEMMA BuiltNextStep ==
  ASSUME B!ConstantsOK, BuiltIInv, B!Next
  PROVE  BuiltIInv' /\ (B!Abstract!Next \/ UNCHANGED <<B!lists, answer>>)
<1>1. CASE \E l \in List, v \in Value : B!Push(l, v) \/ B!AddFirst(l, v)
  BY <1>1, BuiltPushStep, BuiltAddFirstStep
<1>2. CASE \E l \in List : B!Pop(l)
  BY <1>2, PopStep
<1>3. CASE \E l \in List : \E i \in B!Indices(l) : B!At(l, i)
  BY <1>3, BuiltAtStep
<1>4. CASE \E l \in List, v \in Value : \E i \in B!Indices(l) : B!AtPut(l, i, v)
  BY <1>4, BuiltAtPutStep
<1>5. CASE \E l, m, r \in List : B!Concat(l, m, r)
  BY <1>5, DerivedSteps
<1>6. CASE \E l, r \in List : B!Copy(l, r) \/ B!Reversed(l, r)
  BY <1>6, DerivedSteps
<1>7. CASE \E op \in {"do", "asString", "addAll"}, l, m \in List : B!LoopStarts(op, l, m)
  BY <1>7, BuiltLoopStartsStep
<1>8. CASE B!DoRound \/ B!AsStringRound \/ B!AddAllRound
  BY <1>8, BuiltDoRoundStep, AsStringRoundStep, BuiltAddAllRoundStep
<1>9. CASE B!LoopReturns \/ B!LoopsAreLeft
  BY <1>9, BuiltLoopReturnsStep, BuiltLoopsAreLeftStep
<1> QED BY <1>1, <1>2, <1>3, <1>4, <1>5, <1>6, <1>7, <1>8, <1>9 DEF B!Next

LEMMA BuiltTyped ==
  ASSUME BuiltIInv
  PROVE  B!TypeOK
<1>1. ASSUME NEW l \in List PROVE BuiltArray(store[l])
  BY DEF BuiltIInv, Stored
<1>2. Len(loops) <= MaxLoops
  BY DEF BuiltIInv, BuiltNested
<1> QED BY <1>1, <1>2 DEF B!TypeOK, BuiltArray

\* A loop that returns undisturbed has read everything.
LEMMA BuiltLoopsAreOK ==
  ASSUME BuiltIInv
  PROVE  B!LoopsAreCompleteStep
<1>1. SUFFICES ASSUME loops # << >>, ~B!Top.touched, B!LoopReturns
               PROVE  /\ B!Top.given = B!Top.made
                      /\ B!Top.op = "addAll" => B!Contents(store[B!Top.into]) = B!Top.onto \o B!Top.made
  BY DEF B!LoopsAreCompleteStep
<1>2. B!Top \in BuiltFrames /\ BuiltLoops(B!Top, store)
  BY <1>1, BuiltTopIs
<1>3. /\ B!Top.made \in Seq(Value) /\ B!Top.onto \in Seq(Value) /\ B!Top.index \in Nat
      /\ B!Top.list \in List /\ B!Top.into \in List
  BY <1>2 DEF BuiltFrames
<1>4. /\ B!Top.made = B!Contents(store[B!Top.list]) /\ B!Top.index <= Len(B!Top.made)
      /\ B!Top.given = SubSeq(B!Top.made, 1, B!Top.index)
      /\ B!Top.op = "asString" => B!Top.len = Len(B!Top.made)
  BY <1>1, <1>2 DEF BuiltLoops
<1>5. Len(B!Top.made) = store[B!Top.list].size /\ Len(B!Top.made) \in Nat
  BY <1>3, <1>4, StoreIs
<1>6. B!Top.index >= Len(B!Top.made)
  BY <1>1, <1>4, <1>5 DEF B!LoopReturns
<1>7. B!Top.index = Len(B!Top.made)
  BY <1>3, <1>4, <1>5, <1>6
<1>8. B!Top.given = B!Top.made
  BY <1>3, <1>4, <1>7, SubSeqFull
<1>9. ASSUME B!Top.op = "addAll" PROVE B!Contents(store[B!Top.into]) = B!Top.onto \o B!Top.made
  <2>1. CASE B!Top.into = B!Top.list
    <3>1. B!Top.index = 0 /\ B!Top.onto = B!Top.made
      BY <2>1, <1>1, <1>2, <1>9 DEF BuiltLoops
    <3>2. B!Top.made = << >>
      BY <3>1, <1>3, <1>7, EmptySeq
    <3>3. B!Top.made \o B!Top.made = B!Top.made
      BY <3>2, <1>3, ConcatEmptySeq
    <3> QED BY <2>1, <3>1, <3>3, <1>4
  <2>2. CASE B!Top.into # B!Top.list
    BY <2>2, <1>1, <1>2, <1>8, <1>9 DEF BuiltLoops
  <2> QED BY <2>1, <2>2
<1> QED BY <1>8, <1>9

----------------------------------------------------------------------------
LEMMA GraceListKeeps ==
  ASSUME ConstantsOK, IInv, [Next]_vars
  PROVE  IInv' /\ [Abstract!Next]_<<lists, answer>>
<1>1. CASE Next
  BY <1>1, NextStep
<1>2. CASE UNCHANGED vars
  <2>1. inner' = inner /\ size' = size /\ iter' = iter /\ loops' = loops /\ answer' = answer
    BY <1>2 DEF vars
  <2>2. Contents' = Contents
    BY <2>1 DEF Contents
  <2>3. IInv'
    BY <2>1, <2>2 DEF IInv
  <2> QED BY <2>1, <2>2, <2>3, ListIs
<1> QED BY <1>1, <1>2

(* The list written in Grace keeps its array and its loops in order, for    *)
(* every set of values and every bound.                                     *)
THEOREM GraceListInvariance ==
  ASSUME ConstantsOK
  PROVE  Spec => []IInv
<1>1. Init => IInv
  BY InitOK
<1>2. IInv /\ [Next]_vars => IInv'
  BY GraceListKeeps
<1> QED BY <1>1, <1>2, PTL DEF Spec

(* Every slot below size holds an element, and no request counts or stores  *)
(* beyond the array.                                                        *)
THEOREM GraceListTyped ==
  ASSUME ConstantsOK
  PROVE  Spec => []TypeOK
<1>1. IInv => TypeOK
  BY Typed
<1> QED BY <1>1, GraceListInvariance, PTL

(* A stale iterator gives nothing more.                                     *)
THEOREM GraceListFailsFast ==
  ASSUME ConstantsOK
  PROVE  Spec => FailFast
<1>1. IInv => [FailFastStep]_vars
  BY LoopsAreOK
<1> QED BY <1>1, GraceListInvariance, PTL DEF FailFast

(* Iterators and loops that nothing disturbs give everything once, in order,*)
(* and addAll appends exactly the elements of its argument.                 *)
THEOREM GraceListIterates ==
  ASSUME ConstantsOK
  PROVE  Spec => IteratesAll
<1>1. IInv => [IteratesAllStep]_vars
  BY LoopsAreOK
<1> QED BY <1>1, GraceListInvariance, PTL DEF IteratesAll

(* The array is a sequence: the list implements ListSpec.                   *)
THEOREM GraceListIsSequence ==
  ASSUME ConstantsOK
  PROVE  Spec => IsList
<1>1. Init => Abstract!Init
  BY InitOK
<1>2. IInv /\ [Next]_vars => [Abstract!Next]_<<lists, answer>>
  BY GraceListKeeps
<1> QED BY <1>1, <1>2, GraceListInvariance, PTL DEF Spec, IsList, Abstract!Spec

LEMMA BuiltListKeeps ==
  ASSUME B!ConstantsOK, BuiltIInv, [B!Next]_B!vars
  PROVE  BuiltIInv' /\ [B!Abstract!Next]_<<B!lists, answer>>
<1>1. CASE B!Next
  BY <1>1, BuiltNextStep
<1>2. CASE UNCHANGED B!vars
  <2>1. store' = store /\ loops' = loops /\ answer' = answer
    BY <1>2 DEF B!vars
  <2>2. B!lists' = B!lists
    BY <2>1 DEF B!lists
  <2>3. BuiltIInv'
    BY <2>1 DEF BuiltIInv
  <2> QED BY <2>1, <2>2, <2>3
<1> QED BY <1>1, <1>2

(* Built-in lists likewise, for every number of lists.                      *)
THEOREM BuiltListInvariance ==
  ASSUME B!ConstantsOK
  PROVE  B!Spec => []BuiltIInv
<1>1. B!Init => BuiltIInv
  BY BuiltInitOK
<1>2. BuiltIInv /\ [B!Next]_B!vars => BuiltIInv'
  BY BuiltListKeeps
<1> QED BY <1>1, <1>2, PTL DEF B!Spec

(* push makes room before it stores: the array has as many slots as space   *)
(* says, and those below size hold elements.                                *)
THEOREM BuiltListTyped ==
  ASSUME B!ConstantsOK
  PROVE  B!Spec => []B!TypeOK
<1>1. BuiltIInv => B!TypeOK
  BY BuiltTyped
<1> QED BY <1>1, BuiltListInvariance, PTL

(* Native loops that nothing disturbs have read the elements in order, and  *)
(* addAll has pushed exactly those.                                         *)
THEOREM BuiltListIterates ==
  ASSUME B!ConstantsOK
  PROVE  B!Spec => B!LoopsAreComplete
<1>1. BuiltIInv => [B!LoopsAreCompleteStep]_B!vars
  BY BuiltLoopsAreOK
<1> QED BY <1>1, BuiltListInvariance, PTL DEF B!LoopsAreComplete

(* Arrays are sequences: built-in lists implement ListSpec.                 *)
THEOREM BuiltListIsSequence ==
  ASSUME B!ConstantsOK
  PROVE  B!Spec => B!IsList
<1>1. B!Init => B!Abstract!Init
  BY BuiltInitOK
<1>2. BuiltIInv /\ [B!Next]_B!vars => [B!Abstract!Next]_<<B!lists, answer>>
  BY BuiltListKeeps
<1> QED BY <1>1, <1>2, BuiltListInvariance, PTL DEF B!Spec, B!IsList, B!Abstract!Spec
=============================================================================
