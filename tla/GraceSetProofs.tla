--------------------------- MODULE GraceSetProofs ---------------------------
(***************************************************************************)
(* Proofs about GraceSet for every set of elements, every hash and every   *)
(* size of the first array.  The argument: a search passes no slot at which*)
(* it could stop, so an array in which every element is where findPosition *)
(* looks for it stays one when an element is put in the first slot that    *)
(* findPositionForAdd stops at, and when a slot is marked REMOVED, at which*)
(* findPosition never stops.  expand moves elements only, and finds room.  *)
(* Whether searches end is another matter: in general they do not.         *)
(***************************************************************************)
EXTENDS GraceSet, FiniteSetTheorems, SequenceTheorems, NaturalsInduction, WellFoundedInduction, TLAPS

Cells  == Element \cup Marks
Tables == UNION {[0 .. s - 1 -> Cells] : s \in Nat}
Arrays == [size : Nat \ {0}, at : Tables]

Typed(a) == a \in Arrays /\ a.at \in [0 .. a.size - 1 -> Cells]

Used(a)         == {t \in 0 .. a.size - 1 : a.at[t] \notin Marks}
StopsIn(a, x)   == {t \in 0 .. a.size - 1 : a.at[t] \in {x, UNUSED}}
FreeIn(a, x)    == {t \in 0 .. a.size - 1 : a.at[t] \in {x, UNUSED, REMOVED}}
EndsIn(a, x)    == SearchEnds(HashOf[x], a.size, StopsIn(a, x))
PlaceIn(a, x)   == SearchResult(HashOf[x], a.size, StopsIn(a, x))
NewPlace(a, x)  == SearchResult(HashOf[x], a.size, FreeIn(a, x))

\* Every element of a is where findPosition looks for it.
Located(a) == \A t \in Used(a) : EndsIn(a, a.at[t]) /\ PlaceIn(a, a.at[t]) = t

\* a when c has been put in slot p; when add has stored x, and when remove has
\* removed it.
Changed(a, p, c) == [a EXCEPT !.at[p] = c]
With(a, x)       == Changed(a, NewPlace(a, x), x)
Without(a, x)    == Changed(a, PlaceIn(a, x), REMOVED)

\* The call of expand under way copies from half as large an array, and what it has
\* stored so far came from the slots it has passed.
Expanding(call) ==
  /\ call \in [old : Arrays, next : Nat] /\ Typed(call.old)
  /\ call.next <= call.old.size /\ size <= call.next
  /\ inner.size = 2 * call.old.size

Passed == {t \in Used(inner) : t <= iter.idx}

\* An iterator that is not stale, when no argument of a bulk request iterates.
Iterating ==
  /\ rehash = << >> /\ bulk = "none" /\ In(inner) = iter.made
  /\ iter.given = {inner.at[t] : t \in Passed}
  /\ iter.count = 1 + Cardinality(Passed)

Iterator == [stale : BOOLEAN, count : Nat, idx : Int, given : SUBSET Element, made : SUBSET Element]

Table ==
  /\ Typed(inner) /\ Located(inner)
  /\ size = Cardinality(Used(inner)) /\ 2 * size <= inner.size
  /\ rehash = << >> \/ \E call : rehash = <<call>> /\ Expanding(call)

Iteration ==
  /\ iter \in Iterator /\ -1 <= iter.idx /\ iter.idx <= inner.size
  /\ ~ iter.stale /\ ~ LazySource => Iterating

IInv ==
  /\ Table /\ Iteration
  /\ bulk \in {"none", "addAll", "removeAll"} /\ status \in {"running", "looping"}

----------------------------------------------------------------------------
(* The search of HashProbe, for every hash, size of the array and set of    *)
(* slots that stop it.                                                      *)
LEMMA Modulo ==
  ASSUME NEW s \in Nat \ {0}
  PROVE  /\ \A a \in Nat : a % s \in 0 .. s - 1
         /\ \A a \in 0 .. s - 1 : a % s = a
         /\ \A a \in 0 .. s - 1 : (a + s) % s = a
<1>1. \A a \in Nat : a % s \in 0 .. s - 1
  OBVIOUS
<1>2. \A a \in 0 .. s - 1 : a % s = a
  OBVIOUS
<1>3. \A a \in 0 .. s - 1 : (a + s) % s = a
  OBVIOUS
<1> QED BY <1>1, <1>2, <1>3

LEMMA ProbeType ==
  ASSUME NEW h \in Nat, NEW s \in Nat \ {0}, NEW n \in Nat
  PROVE  Probe(h, s, n) \in 0 .. s - 1
<1>1. \A a \in Nat : a % s \in 0 .. s - 1
  BY Modulo
<1>2. h % s \in Nat /\ \A t \in Nat : t * 3 + 1 \in Nat /\ Jump(t, s) \in 0 .. s - 1
  BY <1>1 DEF Jump
<1>3. \A t \in Nat : Jump(t, s) \in Nat
  BY <1>2
<1> DEFINE t1 == Jump(h % s, s)
           t2 == Jump(t1, s)
           t3 == Jump(t2, s)
           t4 == Jump(t3, s)
           t5 == Jump(t4, s)
<1>4. t1 \in Nat /\ t2 \in Nat /\ t3 \in Nat /\ t4 \in Nat /\ t5 \in Nat
  BY <1>2, <1>3
<1>5. \A i \in Nat : (t5 + i) % s \in 0 .. s - 1
  BY <1>1, <1>4
<1>6. /\ h % s \in 0 .. s - 1 /\ t1 \in 0 .. s - 1 /\ t2 \in 0 .. s - 1
      /\ t3 \in 0 .. s - 1 /\ t4 \in 0 .. s - 1
  BY <1>1, <1>2, <1>3, <1>4
<1> HIDE DEF t1, t2, t3, t4, t5
<1> QED BY <1>5, <1>6 DEF Probe, t1, t2, t3, t4, t5

\* The loop inspects every slot.
LEMMA ProbesAll ==
  ASSUME NEW h \in Nat, NEW s \in Nat \ {0}, NEW t \in 0 .. s - 1
  PROVE  \E n \in Rounds(s) : Probe(h, s, n) = t
<1>1. PICK t5 \in 0 .. s - 1 : \A n \in Nat : n >= 5 => Probe(h, s, n) = (t5 + (n - 5)) % s
  <2> DEFINE t1 == Jump(h % s, s)
             t2 == Jump(t1, s)
             t3 == Jump(t2, s)
             t4 == Jump(t3, s)
             t5 == Jump(t4, s)
  <2>1. \A a \in Nat : a * 3 + 1 \in Nat /\ Jump(a, s) \in 0 .. s - 1 /\ Jump(a, s) \in Nat
    BY Modulo DEF Jump
  <2>2. h % s \in Nat
    BY Modulo
  <2>3. t5 \in 0 .. s - 1
    BY <2>1, <2>2
  <2>4. \A n \in Nat : n >= 5 => Probe(h, s, n) = (t5 + (n - 5)) % s
    <3> HIDE DEF t1, t2, t3, t4, t5
    <3>1. TAKE n \in Nat
    <3>2. HAVE n >= 5
    <3>3. n # 0 /\ n # 1 /\ n # 2 /\ n # 3 /\ n # 4
      BY <3>2
    <3> QED BY <3>3 DEF Probe, t1, t2, t3, t4, t5
  <2> QED BY <2>3, <2>4
<1>2. CASE t5 <= t
  <2>1. 5 + (t - t5) \in Rounds(s) /\ 5 + (t - t5) \in Nat /\ 5 + (t - t5) >= 5
    BY <1>2 DEF Rounds
  <2>2. t5 + ((5 + (t - t5)) - 5) = t
    OBVIOUS
  <2>3. t % s = t
    BY Modulo
  <2> QED BY <2>1, <2>2, <2>3, <1>1
<1>3. CASE t < t5
  <2>1. 5 + (t + s - t5) \in Rounds(s) /\ 5 + (t + s - t5) \in Nat /\ 5 + (t + s - t5) >= 5
    BY <1>3 DEF Rounds
  <2>2. t5 + ((5 + (t + s - t5)) - 5) = t + s
    OBVIOUS
  <2>3. (t + s) % s = t
    BY Modulo
  <2> QED BY <2>1, <2>2, <2>3, <1>1
<1> QED BY <1>2, <1>3

LEMMA Least ==
  ASSUME NEW T, T \subseteq Nat, T # {}
  PROVE  \E x \in T : \A y \in T : x <= y
<1>1. PICK x \in T : \A y \in T : <<y, x>> \notin OpToRel(<, Nat)
  BY NatLessThanWellFounded, WFMin
<1>2. \A y \in T : ~ (y < x) /\ y \in Nat /\ x \in Nat
  BY <1>1 DEF OpToRel
<1>3. \A y \in T : x <= y
  BY <1>2
<1> QED BY <1>1, <1>3

\* The loop stops at one slot only.
LEMMA StopsOnce ==
  ASSUME NEW h \in Nat, NEW s \in Nat \ {0}, NEW stops,
         NEW n, StopsAt(h, s, stops, n), NEW m, StopsAt(h, s, stops, m)
  PROVE  n = m
<1>1. n \in Nat /\ m \in Nat
  BY DEF StopsAt, Rounds
<1>2. ~ (n < m) /\ ~ (m < n)
  BY <1>1 DEF StopsAt
<1> QED BY <1>1, <1>2

\* The slot it stops at is the result of the search.
LEMMA StopIsFound ==
  ASSUME NEW h \in Nat, NEW s \in Nat \ {0}, NEW stops, NEW n, StopsAt(h, s, stops, n)
  PROVE  SearchEnds(h, s, stops) /\ SearchResult(h, s, stops) = Probe(h, s, n)
<1>1. n \in Rounds(s)
  BY DEF StopsAt
<1>2. \A m \in Rounds(s) : StopsAt(h, s, stops, m) => m = n
  BY StopsOnce
<1>3. (CHOOSE m \in Rounds(s) : StopsAt(h, s, stops, m)) = n
  BY <1>1, <1>2
<1> QED BY <1>1, <1>3 DEF SearchResult, SearchEnds, StopsAt

\* If there is a slot to stop at, the loop stops, and at one of them.
LEMMA SearchStops ==
  ASSUME NEW h \in Nat, NEW s \in Nat \ {0}, NEW stops, NEW t \in stops, t \in 0 .. s - 1
  PROVE  /\ \E n : StopsAt(h, s, stops, n) /\ SearchResult(h, s, stops) = Probe(h, s, n)
         /\ SearchEnds(h, s, stops) /\ SearchResult(h, s, stops) \in stops
         /\ SearchResult(h, s, stops) \in 0 .. s - 1
<1> DEFINE N == {n \in Rounds(s) : Probe(h, s, n) \in stops}
<1>1. N \subseteq Nat /\ N # {}
  <2>1. PICK n \in Rounds(s) : Probe(h, s, n) = t
    BY ProbesAll
  <2> QED BY <2>1 DEF Rounds
<1>2. PICK n \in N : \A m \in N : n <= m
  BY <1>1, Least
<1>3. StopsAt(h, s, stops, n)
  <2>1. n \in Rounds(s) /\ Probe(h, s, n) \in stops /\ n \in Nat /\ n <= s + 4
    BY <1>2 DEF Rounds
  <2>2. \A m \in 0 .. n - 1 : m \in Rounds(s) /\ ~ (n <= m)
    BY <2>1 DEF Rounds
  <2>3. \A m \in 0 .. n - 1 : Probe(h, s, m) \notin stops
    BY <2>2, <1>2
  <2> QED BY <2>1, <2>3 DEF StopsAt
<1>4. n \in Nat /\ Probe(h, s, n) \in stops
  BY <1>3 DEF StopsAt, Rounds
<1> QED BY <1>3, <1>4, StopIsFound, ProbeType

\* A search still finds its slot when there are fewer others to stop at.
LEMMA StopsFewer ==
  ASSUME NEW h \in Nat, NEW s \in Nat \ {0}, NEW stops, NEW fewer, fewer \subseteq stops,
         SearchEnds(h, s, stops), SearchResult(h, s, stops) \in fewer
  PROVE  SearchEnds(h, s, fewer) /\ SearchResult(h, s, fewer) = SearchResult(h, s, stops)
<1>1. PICK t \in 0 .. s - 1 : t \in stops
  <2>1. PICK n \in Rounds(s) : Probe(h, s, n) \in stops
    BY DEF SearchEnds
  <2> QED BY <2>1, ProbeType DEF Rounds
<1>2. PICK n : StopsAt(h, s, stops, n) /\ SearchResult(h, s, stops) = Probe(h, s, n)
  BY <1>1, SearchStops
<1>3. StopsAt(h, s, fewer, n)
  BY <1>2 DEF StopsAt
<1> QED BY <1>2, <1>3, StopIsFound

----------------------------------------------------------------------------
(* One array.                                                               *)

\* What an array has where searches stop.
LEMMA PlaceType ==
  ASSUME ConstantsOK, NEW a, Typed(a), NEW x \in Element, EndsIn(a, x)
  PROVE  /\ PlaceIn(a, x) \in 0 .. a.size - 1 /\ a.at[PlaceIn(a, x)] \in {x, UNUSED}
         /\ SearchEnds(HashOf[x], a.size, FreeIn(a, x))
         /\ NewPlace(a, x) \in 0 .. a.size - 1 /\ a.at[NewPlace(a, x)] \in {x, UNUSED, REMOVED}
<1>1. HashOf[x] \in Nat /\ a.size \in Nat \ {0}
  BY DEF ConstantsOK, Typed, Arrays
<1>2. PICK n \in Rounds(a.size) : Probe(HashOf[x], a.size, n) \in StopsIn(a, x)
  BY DEF EndsIn, SearchEnds
<1>3. PICK t \in StopsIn(a, x) : t \in 0 .. a.size - 1
  BY <1>2 DEF StopsIn
<1>4. PlaceIn(a, x) \in StopsIn(a, x)
  BY <1>1, <1>3, SearchStops DEF PlaceIn
<1>5. t \in FreeIn(a, x)
  BY <1>3 DEF StopsIn, FreeIn
<1>6. NewPlace(a, x) \in FreeIn(a, x) /\ SearchEnds(HashOf[x], a.size, FreeIn(a, x))
  BY <1>1, <1>3, <1>5, SearchStops DEF NewPlace
<1> QED BY <1>4, <1>6 DEF StopsIn, FreeIn

\* No element is in an array twice, and none that a search has not found.
LEMMA ElementsAreUnique ==
  ASSUME ConstantsOK, NEW a, Typed(a), Located(a)
  PROVE  /\ \A t, u \in Used(a) : a.at[t] = a.at[u] => t = u
         /\ \A x \in Element : EndsIn(a, x) =>
              /\ a.at[PlaceIn(a, x)] = x <=> x \in In(a)
              /\ a.at[PlaceIn(a, x)] # x => a.at[NewPlace(a, x)] \in Marks
<1>1. \A t, u \in Used(a) : a.at[t] = a.at[u] => t = u
  BY DEF Located
<1>2. ASSUME NEW x \in Element, EndsIn(a, x)
      PROVE  /\ a.at[PlaceIn(a, x)] = x <=> x \in In(a)
             /\ a.at[PlaceIn(a, x)] # x => a.at[NewPlace(a, x)] \in Marks
  <2>1. x \notin Marks
    BY DEF ConstantsOK, Marks
  <2>2. PlaceIn(a, x) \in 0 .. a.size - 1 /\ NewPlace(a, x) \in 0 .. a.size - 1
        /\ a.at[NewPlace(a, x)] \in {x, UNUSED, REMOVED}
    BY <1>2, PlaceType
  <2>3. a.at[PlaceIn(a, x)] = x => x \in In(a)
    BY <2>1, <2>2 DEF In
  <2>4. ASSUME NEW t \in 0 .. a.size - 1, a.at[t] = x PROVE a.at[PlaceIn(a, x)] = x
    BY <2>1, <2>4 DEF Located, Used
  <2>5. x \in In(a) => a.at[PlaceIn(a, x)] = x
    BY <2>4 DEF In
  <2>6. a.at[PlaceIn(a, x)] # x => a.at[NewPlace(a, x)] \in Marks
    BY <2>2, <2>4 DEF Marks
  <2> QED BY <2>3, <2>5, <2>6
<1> QED BY <1>1, <1>2

\* An array in which one slot has changed.
LEMMA SlotChanged ==
  ASSUME NEW a, Typed(a), NEW p \in 0 .. a.size - 1, NEW c \in Cells,
         NEW w, w = Changed(a, p, c)
  PROVE  /\ Typed(w) /\ w.size = a.size /\ w.at[p] = c
         /\ \A t \in 0 .. a.size - 1 : t # p => w.at[t] = a.at[t]
<1>1. a = [size |-> a.size, at |-> a.at] /\ a.size \in Nat \ {0}
  BY DEF Typed, Arrays
<1>2. w = [size |-> a.size, at |-> [a.at EXCEPT ![p] = c]]
  BY <1>1 DEF Changed
<1>3. w.size = a.size /\ w.at = [a.at EXCEPT ![p] = c]
  BY <1>2
<1>4. /\ w.at \in [0 .. a.size - 1 -> Cells] /\ w.at[p] = c
      /\ \A t \in 0 .. a.size - 1 : t # p => w.at[t] = a.at[t]
  BY <1>3 DEF Typed
<1>5. w.at \in Tables
  BY <1>1, <1>4 DEF Tables
<1>6. w \in Arrays
  BY <1>1, <1>2, <1>3, <1>5 DEF Arrays
<1> QED BY <1>3, <1>4, <1>6 DEF Typed

\* If the slot holds x or no element now, the other elements are where they were.
LEMMA OthersStay ==
  ASSUME ConstantsOK, NEW a, Typed(a), Located(a), NEW p \in 0 .. a.size - 1,
         NEW w, w.size = a.size, w.at[p] # UNUSED,
         \A t \in 0 .. a.size - 1 : t # p => w.at[t] = a.at[t],
         NEW t \in Used(w), t # p, w.at[t] # w.at[p]
  PROVE  EndsIn(w, w.at[t]) /\ PlaceIn(w, w.at[t]) = t
<1>1. t \in Used(a) /\ t \in 0 .. a.size - 1 /\ w.at[t] = a.at[t]
  BY DEF Used
<1>2. PICK y : y = a.at[t]
  OBVIOUS
<1>3. y \in Element /\ HashOf[y] \in Nat /\ a.size \in Nat \ {0}
  BY <1>1, <1>2 DEF Typed, Arrays, Cells, Used, ConstantsOK
<1>4. StopsIn(w, y) \subseteq StopsIn(a, y)
  <2>1. p \notin StopsIn(w, y)
    BY <1>1, <1>2 DEF StopsIn
  <2> QED BY <2>1 DEF StopsIn
<1>5. t \in StopsIn(w, y)
  BY <1>1, <1>2 DEF StopsIn
<1>6. SearchEnds(HashOf[y], a.size, StopsIn(a, y)) /\ SearchResult(HashOf[y], a.size, StopsIn(a, y)) = t
  BY <1>1, <1>2 DEF Located, EndsIn, PlaceIn
<1>7. /\ SearchEnds(HashOf[y], a.size, StopsIn(w, y))
      /\ SearchResult(HashOf[y], a.size, StopsIn(w, y)) = t
  BY <1>3, <1>4, <1>5, <1>6, StopsFewer
<1> QED BY <1>1, <1>2, <1>7 DEF EndsIn, PlaceIn

LEMMA UsedIsFinite ==
  ASSUME NEW a, Typed(a)
  PROVE  IsFiniteSet(Used(a)) /\ Cardinality(Used(a)) \in Nat
<1>1. a.size \in Nat \ {0} /\ IsFiniteSet(0 .. a.size - 1)
  BY FS_Interval DEF Typed, Arrays
<1>2. Used(a) \subseteq 0 .. a.size - 1
  BY DEF Used
<1> QED BY <1>1, <1>2, FS_Subset, FS_CardinalityType

\* What add stores.
LEMMA WithIsSound ==
  ASSUME ConstantsOK, NEW a, Typed(a), Located(a), NEW x \in Element, EndsIn(a, x),
         a.at[PlaceIn(a, x)] # x, NEW w, w = With(a, x)
  PROVE  /\ Typed(w) /\ w.size = a.size /\ Located(w) /\ In(w) = In(a) \cup {x}
         /\ Cardinality(Used(w)) = Cardinality(Used(a)) + 1
<1>1. PICK p : p = NewPlace(a, x)
  OBVIOUS
<1>2. /\ p \in 0 .. a.size - 1 /\ a.at[p] \in Marks /\ x \notin In(a)
      /\ SearchEnds(HashOf[x], a.size, FreeIn(a, x))
  BY <1>1, PlaceType, ElementsAreUnique
<1>3. x \in Cells /\ x \notin Marks /\ UNUSED \in Marks
  BY DEF Cells, Marks, ConstantsOK
<1>4. w = Changed(a, p, x)
  BY <1>1 DEF With
<1>5. /\ Typed(w) /\ w.size = a.size /\ w.at[p] = x
      /\ \A t \in 0 .. a.size - 1 : t # p => w.at[t] = a.at[t]
  BY <1>2, <1>3, <1>4, SlotChanged
<1>6. \A t \in 0 .. a.size - 1 : a.at[t] # x
  BY <1>2, <1>3 DEF In
<1>7. Used(w) = Used(a) \cup {p} /\ p \notin Used(a)
  BY <1>2, <1>3, <1>5 DEF Used
<1>8. In(w) = In(a) \cup {x}
  <2>1. ASSUME NEW c \in In(w) PROVE c \in In(a) \cup {x}
    BY <2>1, <1>5 DEF In
  <2>2. ASSUME NEW c \in In(a) PROVE c \in In(w)
    <3>1. PICK t \in 0 .. a.size - 1 : c = a.at[t] /\ c \notin Marks
      BY DEF In
    <3>2. t # p
      BY <3>1, <1>2
    <3> QED BY <3>1, <3>2, <1>5 DEF In
  <2>3. x \in In(w)
    BY <1>2, <1>3, <1>5 DEF In
  <2> QED BY <2>1, <2>2, <2>3
<1>9. EndsIn(w, x) /\ PlaceIn(w, x) = p
  <2>1. StopsIn(w, x) \subseteq FreeIn(a, x)
    BY <1>2, <1>5 DEF StopsIn, FreeIn, Marks
  <2>2. p \in StopsIn(w, x)
    BY <1>2, <1>5 DEF StopsIn
  <2>3. HashOf[x] \in Nat /\ a.size \in Nat \ {0}
    BY DEF ConstantsOK, Typed, Arrays
  <2>4. SearchResult(HashOf[x], a.size, FreeIn(a, x)) = p
    BY <1>1 DEF NewPlace
  <2>5. /\ SearchEnds(HashOf[x], a.size, StopsIn(w, x))
        /\ SearchResult(HashOf[x], a.size, StopsIn(w, x)) = p
    BY <2>1, <2>2, <2>3, <2>4, <1>2, StopsFewer
  <2> QED BY <2>5, <1>5 DEF EndsIn, PlaceIn
<1>10. Located(w)
  <2>1. ASSUME NEW t \in Used(w) PROVE EndsIn(w, w.at[t]) /\ PlaceIn(w, w.at[t]) = t
    <3>1. CASE t = p
      BY <3>1, <1>5, <1>9
    <3>2. CASE t # p
      <4>1. w.at[t] # x
        BY <3>2, <1>5, <1>6 DEF Used
      <4>2. w.at[p] # UNUSED /\ w.at[t] # w.at[p]
        BY <4>1, <1>3, <1>5
      <4> QED BY <4>2, <3>2, <1>2, <1>5, OthersStay
    <3> QED BY <3>1, <3>2
  <2> QED BY <2>1 DEF Located
<1>11. Cardinality(Used(w)) = Cardinality(Used(a)) + 1
  BY <1>7, UsedIsFinite, FS_AddElement
<1> QED BY <1>5, <1>8, <1>10, <1>11

\* What remove leaves.
LEMMA WithoutIsSound ==
  ASSUME ConstantsOK, NEW a, Typed(a), Located(a), NEW x \in Element, EndsIn(a, x),
         a.at[PlaceIn(a, x)] = x, NEW w, w = Without(a, x)
  PROVE  /\ Typed(w) /\ w.size = a.size /\ Located(w) /\ In(w) = In(a) \ {x}
         /\ Cardinality(Used(w)) = Cardinality(Used(a)) - 1
<1>1. PICK p : p = PlaceIn(a, x)
  OBVIOUS
<1>2. p \in 0 .. a.size - 1 /\ a.at[p] = x
  BY <1>1, PlaceType
<1>3. REMOVED \in Cells /\ x \notin Marks /\ REMOVED \in Marks /\ REMOVED # UNUSED
  BY DEF Cells, Marks, ConstantsOK
<1>4. w = Changed(a, p, REMOVED)
  BY <1>1 DEF Without
<1>5. /\ Typed(w) /\ w.size = a.size /\ w.at[p] = REMOVED
      /\ \A t \in 0 .. a.size - 1 : t # p => w.at[t] = a.at[t]
  BY <1>2, <1>3, <1>4, SlotChanged
<1>6. Used(w) = Used(a) \ {p} /\ p \in Used(a)
  BY <1>2, <1>3, <1>5 DEF Used
<1>7. \A t \in 0 .. a.size - 1 : t # p => a.at[t] # x
  <2>1. \A t, u \in Used(a) : a.at[t] = a.at[u] => t = u
    BY ElementsAreUnique
  <2> QED BY <2>1, <1>2, <1>3, <1>6 DEF Used
<1>8. In(w) = In(a) \ {x}
  <2>1. ASSUME NEW c \in In(w) PROVE c \in In(a) /\ c # x
    <3>1. PICK t \in 0 .. a.size - 1 : c = w.at[t] /\ c \notin Marks
      BY <1>5 DEF In
    <3>2. t # p
      BY <3>1, <1>3, <1>5
    <3> QED BY <3>1, <3>2, <1>5, <1>7 DEF In
  <2>2. ASSUME NEW c \in In(a), c # x PROVE c \in In(w)
    <3>1. PICK t \in 0 .. a.size - 1 : c = a.at[t] /\ c \notin Marks
      BY DEF In
    <3>2. t # p
      BY <3>1, <2>2, <1>2
    <3> QED BY <3>1, <3>2, <1>5 DEF In
  <2> QED BY <2>1, <2>2
<1>9. Located(w)
  <2>1. ASSUME NEW t \in Used(w) PROVE EndsIn(w, w.at[t]) /\ PlaceIn(w, w.at[t]) = t
    <3>1. w.at[t] # w.at[p] /\ t # p /\ w.at[p] # UNUSED
      BY <1>3, <1>5, <1>6 DEF Used
    <3> QED BY <3>1, <1>2, <1>5, OthersStay
  <2> QED BY <2>1 DEF Located
<1>10. Cardinality(Used(w)) = Cardinality(Used(a)) - 1
  BY <1>6, UsedIsFinite, FS_RemoveElement
<1> QED BY <1>5, <1>8, <1>9, <1>10

LEMMA BlankIsSound ==
  ASSUME ConstantsOK, NEW s \in Nat \ {0}
  PROVE  /\ Typed(Blank(s)) /\ Blank(s).size = s /\ In(Blank(s)) = {}
         /\ Located(Blank(s)) /\ Cardinality(Used(Blank(s))) = 0
<1>1. /\ Blank(s).size = s /\ Blank(s).at \in [0 .. s - 1 -> Cells]
      /\ \A t \in 0 .. s - 1 : Blank(s).at[t] = UNUSED
  BY DEF Blank, Cells, Marks
<1>2. Typed(Blank(s))
  <2>1. Blank(s).at \in Tables
    BY <1>1 DEF Tables
  <2>2. Blank(s) \in Arrays
    BY <2>1 DEF Blank, Arrays
  <2> QED BY <2>2, <1>1 DEF Typed
<1>3. Used(Blank(s)) = {} /\ In(Blank(s)) = {}
  BY <1>1 DEF Used, In, Marks
<1> QED BY <1>1, <1>2, <1>3, FS_EmptySet DEF Located

\* The elements in an array are as many as the slots in use.
LEMMA ElementsCounted ==
  ASSUME ConstantsOK, NEW a, Typed(a), Located(a)
  PROVE  Cardinality(In(a)) = Cardinality(Used(a))
<1> DEFINE f == [t \in Used(a) |-> a.at[t]]
<1>1. \A t \in Used(a) : a.at[t] \in In(a)
  BY DEF Used, In
<1>2. f \in [Used(a) -> In(a)]
  BY <1>1
<1>3. \A t, u \in Used(a) : f[t] = f[u] => t = u
  BY ElementsAreUnique
<1>4. \A c \in In(a) : \E t \in Used(a) : f[t] = c
  <2>1. TAKE c \in In(a)
  <2>2. PICK t \in 0 .. a.size - 1 : c = a.at[t] /\ c \notin Marks
    BY DEF In
  <2> QED BY <2>2 DEF Used
<1>5. f \in Bijection(Used(a), In(a))
  <2> HIDE DEF f
  <2> QED BY <1>2, <1>3, <1>4 DEF Bijection, Injection, Surjection, IsInjective
<1>6. ExistsBijection(Used(a), In(a))
  BY <1>5 DEF ExistsBijection
<1> QED BY <1>6, UsedIsFinite, FS_Bijection

----------------------------------------------------------------------------
(* What the calls of expand leave to be carried over.                       *)
LEMMA NothingPending ==
  ASSUME rehash = << >>
  PROVE  All = In(inner)
BY DEF All, Pending

LEMMA PendingOf ==
  ASSUME NEW call, rehash = <<call>>
  PROVE  /\ All = In(inner) \cup Left(call)
         /\ rehash # << >> /\ Len(rehash) = 1 /\ rehash[Len(rehash)] = call
         /\ SubSeq(rehash, 1, Len(rehash) - 1) = << >>
<1>1. Len(rehash) = 1 /\ rehash[1] = call /\ rehash # << >>
  OBVIOUS
<1>2. Pending = Left(call)
  <2>1. \A i \in 1 .. Len(rehash) : i = 1
    BY <1>1
  <2>2. {Left(rehash[i]) : i \in 1 .. Len(rehash)} = {Left(call)}
    BY <1>1, <2>1
  <2> QED BY <2>2 DEF Pending
<1> QED BY <1>1, <1>2 DEF All

LEMMA PendingNext ==
  ASSUME NEW call, rehash' = <<call>>
  PROVE  All' = In(inner') \cup Left(call)
<1>1. \A i \in 1 .. Len(rehash') : i = 1 /\ rehash'[i] = call
  OBVIOUS
<1>2. {Left(rehash'[i]) : i \in 1 .. Len(rehash')} = {Left(call)}
  BY <1>1
<1>3. Pending' = Left(call)
  <2>1. Pending' = UNION {Left(rehash'[i]) : i \in 1 .. Len(rehash')}
    BY DEF Pending, Left
  <2> QED BY <2>1, <1>2
<1> QED BY <1>3 DEF All, In

\* A round of the loop carries one element over, or skips a mark.
LEMMA LeftNext ==
  ASSUME NEW call \in [old : Arrays, next : Nat], Typed(call.old), call.next < call.old.size,
         NEW after, after = [call EXCEPT !.next = call.next + 1]
  PROVE  /\ after \in [old : Arrays, next : Nat] /\ after.old = call.old
         /\ after.next = call.next + 1 /\ call.next + 1 <= call.old.size
         /\ call.old.at[call.next] \in Cells
         /\ Left(call) = Left(after) \cup ({call.old.at[call.next]} \ Marks)
<1>1. call.next \in Nat /\ call.old.size \in Nat
  BY DEF Typed, Arrays
<1>2. /\ after \in [old : Arrays, next : Nat] /\ after.old = call.old
      /\ after.next = call.next + 1 /\ call.next + 1 <= call.old.size
  BY <1>1
<1>3. call.old.at[call.next] \in Cells
  BY <1>1 DEF Typed
<1>4. \A t : t \in call.next .. call.old.size - 1
            <=> t = call.next \/ t \in call.next + 1 .. call.old.size - 1
  BY <1>1
<1>5. Left(call) = Left(after) \cup ({call.old.at[call.next]} \ Marks)
  BY <1>2, <1>4 DEF Left
<1> QED BY <1>2, <1>3, <1>5

----------------------------------------------------------------------------
(* The table in a step.                                                     *)
LEMMA StateIsSound ==
  ASSUME ConstantsOK, Table
  PROVE  /\ inner.size \in Nat \ {0} /\ size \in Nat
         /\ \A x : /\ FindEnds(x) = EndsIn(inner, x) /\ findPosition(x) = PlaceIn(inner, x)
                   /\ findPositionForAdd(x) = NewPlace(inner, x)
         /\ \A x \in Element : FindEnds(x) => (Present(x) <=> x \in In(inner))
<1>1. inner.size \in Nat \ {0} /\ size \in Nat
  BY UsedIsFinite DEF Table, Typed, Arrays
<1>2. \A x : FindStops(x) = StopsIn(inner, x) /\ AddStops(x) = FreeIn(inner, x)
  BY DEF FindStops, AddStops, StopsIn, FreeIn, SlotsOf, Slots
<1>3. \A x : /\ FindEnds(x) = EndsIn(inner, x) /\ findPosition(x) = PlaceIn(inner, x)
             /\ findPositionForAdd(x) = NewPlace(inner, x)
  BY <1>2 DEF FindEnds, findPosition, findPositionForAdd, EndsIn, PlaceIn, NewPlace
<1>4. \A x \in Element : FindEnds(x) => (Present(x) <=> x \in In(inner))
  BY <1>3, ElementsAreUnique DEF Table, Present
<1> QED BY <1>1, <1>3, <1>4

LEMMA TableStays ==
  ASSUME Table, UNCHANGED <<inner, size, rehash>>
  PROVE  Table' /\ All' = All
<1>1. All' = All
  BY DEF All, Pending, In, Left
<1>2. \A c : Expanding(c)' <=> Expanding(c)
  BY DEF Expanding
<1>3. (rehash = << >> \/ \E call : rehash = <<call>> /\ Expanding(call))'
  BY <1>2 DEF Table
<1> QED BY <1>1, <1>3 DEF Table

\* add, and each round of the loop of addAll and of expand.
LEMMA InsertStep ==
  ASSUME ConstantsOK, Table, NEW x \in Element, FindEnds(x), NEW calls, Insert(x, calls)
  PROVE  /\ status' = status
         /\ Present(x) => inner' = inner /\ size' = size /\ rehash' = calls
         /\ ~ Present(x) =>
              \E w : /\ Typed(w) /\ w.size = inner.size /\ Located(w) /\ In(w) = In(inner) \cup {x}
                     /\ Cardinality(Used(w)) = size + 1
                     /\ IF 2 * (size + 1) > inner.size
                        THEN /\ inner' = Blank(inner.size * 2) /\ size' = 0
                             /\ rehash' = Append(calls, [old |-> w, next |-> 0])
                        ELSE inner' = w /\ size' = size + 1 /\ rehash' = calls
<1>1. status' = status /\ (Present(x) => inner' = inner /\ size' = size /\ rehash' = calls)
  BY DEF Insert
<1>2. ASSUME ~ Present(x)
      PROVE  \E w : /\ Typed(w) /\ w.size = inner.size /\ Located(w) /\ In(w) = In(inner) \cup {x}
                    /\ Cardinality(Used(w)) = size + 1
                    /\ IF 2 * (size + 1) > inner.size
                       THEN /\ inner' = Blank(inner.size * 2) /\ size' = 0
                            /\ rehash' = Append(calls, [old |-> w, next |-> 0])
                       ELSE inner' = w /\ size' = size + 1 /\ rehash' = calls
  <2>1. PICK a : a = inner
    OBVIOUS
  <2>2. PICK w : w = With(a, x)
    OBVIOUS
  <2>3. /\ Typed(a) /\ Located(a) /\ EndsIn(a, x) /\ a.at[PlaceIn(a, x)] # x
        /\ size = Cardinality(Used(a)) /\ NewPlace(a, x) = findPositionForAdd(x)
    BY <2>1, <1>2, StateIsSound DEF Table, Present
  <2>4. /\ Typed(w) /\ w.size = a.size /\ Located(w) /\ In(w) = In(a) \cup {x}
        /\ Cardinality(Used(w)) = Cardinality(Used(a)) + 1
    BY <2>2, <2>3, WithIsSound
  <2>5. w = [inner EXCEPT !.at[findPositionForAdd(x)] = x]
    BY <2>1, <2>2, <2>3 DEF With, Changed
  <2>6. IF 2 * (size + 1) > inner.size
        THEN /\ inner' = Blank(inner.size * 2) /\ size' = 0
             /\ rehash' = Append(calls, [old |-> w, next |-> 0])
        ELSE inner' = w /\ size' = size + 1 /\ rehash' = calls
    BY <2>5, <1>2 DEF Insert
  <2>7. /\ Typed(w) /\ w.size = inner.size /\ Located(w) /\ In(w) = In(inner) \cup {x}
        /\ Cardinality(Used(w)) = size + 1
    BY <2>1, <2>3, <2>4
  <2> QED BY <2>6, <2>7
<1> QED BY <1>1, <1>2

LEMMA AddTable ==
  ASSUME ConstantsOK, Table, rehash = << >>, NEW x \in Element, FindEnds(x), Insert(x, << >>)
  PROVE  /\ Table' /\ All' = All \cup {x} /\ (Present(x) <=> x \in All) /\ status' = status
         /\ inner'.size >= inner.size
         /\ Present(x) => UNCHANGED <<inner, size, rehash>>
<1>1. All = In(inner) /\ (Present(x) <=> x \in All) /\ inner.size \in Nat \ {0} /\ size \in Nat
  BY NothingPending, StateIsSound
<1>2. status' = status /\ (Present(x) => inner' = inner /\ size' = size /\ rehash' = << >>)
  BY InsertStep
<1>3. CASE Present(x)
  BY <1>1, <1>2, <1>3, TableStays
<1>4. CASE ~ Present(x)
  <2>1. PICK w : /\ Typed(w) /\ w.size = inner.size /\ Located(w) /\ In(w) = In(inner) \cup {x}
                 /\ Cardinality(Used(w)) = size + 1
                 /\ IF 2 * (size + 1) > inner.size
                    THEN /\ inner' = Blank(inner.size * 2) /\ size' = 0
                         /\ rehash' = Append(<< >>, [old |-> w, next |-> 0])
                    ELSE inner' = w /\ size' = size + 1 /\ rehash' = << >>
    BY <1>4, InsertStep
  <2>2. CASE 2 * (size + 1) > inner.size
    <3>1. PICK call : call = [old |-> w, next |-> 0]
      OBVIOUS
    <3>2. inner' = Blank(inner.size * 2) /\ size' = 0 /\ rehash' = <<call>>
      BY <2>1, <2>2, <3>1
    <3>3. /\ Typed(inner)' /\ inner'.size = inner.size * 2 /\ In(inner)' = {} /\ Located(inner)'
          /\ Cardinality(Used(inner)') = 0
      <4>1. inner.size * 2 \in Nat \ {0}
        BY <1>1
      <4> QED BY <3>2, <4>1, BlankIsSound
    <3>4. call.old = w /\ call.next = 0
      BY <3>1
    <3>5. All' = All \cup {x}
      <4>1. Left(call) = In(w)
        BY <3>4 DEF Left, In
      <4>2. All' = In(inner') \cup Left(call)
        BY <3>2, PendingNext
      <4> QED BY <4>1, <4>2, <3>3, <1>1, <2>1
    <3>6. Expanding(call)'
      <4>1. call \in [old : Arrays, next : Nat] /\ Typed(w) /\ w.size \in Nat
        BY <3>1, <2>1 DEF Typed, Arrays
      <4> QED BY <4>1, <3>2, <3>3, <3>4, <2>1, <1>1 DEF Expanding
    <3>7. (rehash = << >> \/ \E c : rehash = <<c>> /\ Expanding(c))'
      BY <3>2, <3>6
    <3>8. Table'
      BY <3>2, <3>3, <3>7, <1>1 DEF Table
    <3> QED BY <3>3, <3>5, <3>8, <1>1, <1>2, <1>4
  <2>3. CASE ~ (2 * (size + 1) > inner.size)
    <3>1. inner' = w /\ size' = size + 1 /\ rehash' = << >>
      BY <2>1, <2>3
    <3>2. All' = In(w)
      BY <3>1 DEF All, Pending
    <3>3. Table'
      BY <3>1, <2>1, <2>3, <1>1 DEF Table
    <3> QED BY <3>1, <3>2, <3>3, <2>1, <1>1, <1>2, <1>4
  <2> QED BY <2>2, <2>3
<1> QED BY <1>3, <1>4

LEMMA RemoveTable ==
  ASSUME ConstantsOK, Table, rehash = << >>, NEW x \in Element, FindEnds(x), Vacate(x)
  PROVE  /\ Table' /\ All' = All \ {x} /\ (Present(x) <=> x \in All) /\ status' = status
         /\ inner'.size = inner.size
         /\ UNCHANGED <<rehash, bulk>>
         /\ ~ Present(x) => UNCHANGED <<inner, size, rehash>>
<1>1. All = In(inner) /\ (Present(x) <=> x \in All) /\ inner.size \in Nat \ {0} /\ size \in Nat
  BY NothingPending, StateIsSound
<1>2. status' = status /\ UNCHANGED <<rehash, bulk>>
      /\ (~ Present(x) => UNCHANGED <<inner, size, rehash>>)
  BY DEF Vacate
<1>3. CASE ~ Present(x)
  BY <1>1, <1>2, <1>3, TableStays
<1>4. CASE Present(x)
  <2>1. PICK a : a = inner
    OBVIOUS
  <2>2. PICK w : w = Without(a, x)
    OBVIOUS
  <2>3. /\ Typed(a) /\ Located(a) /\ EndsIn(a, x) /\ a.at[PlaceIn(a, x)] = x
        /\ size = Cardinality(Used(a)) /\ PlaceIn(a, x) = findPosition(x)
    BY <2>1, <1>4, StateIsSound DEF Table, Present
  <2>4. /\ Typed(w) /\ w.size = a.size /\ Located(w) /\ In(w) = In(a) \ {x}
        /\ Cardinality(Used(w)) = Cardinality(Used(a)) - 1
    BY <2>2, <2>3, WithoutIsSound
  <2>5. w = [inner EXCEPT !.at[findPosition(x)] = REMOVED]
    BY <2>1, <2>2, <2>3 DEF Without, Changed
  <2>6. inner' = w /\ size' = size - 1 /\ rehash' = << >>
    BY <2>5, <1>4 DEF Vacate
  <2>7. All' = In(w)
    BY <2>6 DEF All, Pending
  <2>8. Table'
    <3>1. 2 * size <= inner.size
      BY DEF Table
    <3> QED BY <3>1, <2>1, <2>3, <2>4, <2>6, <1>1 DEF Table
  <2> QED BY <2>1, <2>4, <2>6, <2>7, <2>8, <1>1, <1>2, <1>4
<1> QED BY <1>3, <1>4

\* A round of the loop of expand, which finds room in the new array.
LEMMA RoundTable ==
  ASSUME ConstantsOK, Table, ExpandRound
  PROVE  /\ Table' /\ All' = All /\ inner'.size = inner.size
         /\ status' \in {status, "looping"} /\ UNCHANGED <<bulk, answer>> /\ iter' \in {iter, Stale}
<1>1. PICK call : rehash = <<call>> /\ Expanding(call)
  BY DEF Table, ExpandRound
<1>2. /\ call \in [old : Arrays, next : Nat] /\ Typed(call.old)
      /\ call.next <= call.old.size /\ size <= call.next /\ inner.size = 2 * call.old.size
      /\ call.next \in Nat /\ call.old.size \in Nat /\ size \in Nat
  BY <1>1, StateIsSound DEF Expanding, Typed, Arrays
<1>3. PICK after : after = [call EXCEPT !.next = call.next + 1]
  OBVIOUS
<1>4. PICK x : x = IF call.next < call.old.size THEN call.old.at[call.next] ELSE UNUSED
  OBVIOUS
<1>5. IF x \in Marks
      THEN /\ rehash' = IF call.next < call.old.size THEN <<after>> ELSE << >>
           /\ UNCHANGED <<inner, size, bulk, iter, status, answer>>
      ELSE IF FindEnds(x)
           THEN /\ Insert(x, <<after>>)
                /\ iter' = IF Present(x) THEN iter ELSE Stale
                /\ UNCHANGED <<bulk, answer>>
           ELSE Hang /\ UNCHANGED iter
  <2>1. Append(<< >>, after) = <<after>>
    OBVIOUS
  <2>2. /\ rehash # << >> /\ rehash[Len(rehash)] = call
        /\ SubSeq(rehash, 1, Len(rehash) - 1) = << >>
    BY <1>1, PendingOf
  <2> QED BY <2>1, <2>2, <1>3, <1>4 DEF ExpandRound
<1>6. All = In(inner) \cup Left(call)
  BY <1>1, PendingOf
<1>7. CASE ~ (call.next < call.old.size)
  <2>1. x \in Marks
    BY <1>4, <1>7 DEF Marks
  <2>2. rehash' = << >> /\ UNCHANGED <<inner, size, bulk, iter, status, answer>>
    BY <2>1, <1>5, <1>7
  <2>3. Left(call) = {}
    BY <1>2, <1>7 DEF Left
  <2>4. All' = All
    BY <2>2, <2>3, <1>6 DEF All, Pending, In
  <2>5. Table'
    BY <2>2 DEF Table
  <2> QED BY <2>2, <2>4, <2>5
<1>8. CASE call.next < call.old.size
  <2>1. /\ after \in [old : Arrays, next : Nat] /\ after.old = call.old
        /\ after.next = call.next + 1 /\ call.next + 1 <= call.old.size
        /\ x \in Cells /\ Left(call) = Left(after) \cup ({x} \ Marks)
    BY <1>2, <1>3, <1>4, <1>8, LeftNext
  <2>2. CASE x \in Marks
    <3>1. rehash' = <<after>> /\ UNCHANGED <<inner, size, bulk, iter, status, answer>>
      BY <2>2, <1>5, <1>8
    <3>2. Expanding(after)'
      BY <3>1, <2>1, <1>2 DEF Expanding
    <3>3. All' = All
      <4>1. All' = In(inner') \cup Left(after)
        BY <3>1, PendingNext
      <4> QED BY <4>1, <3>1, <2>1, <2>2, <1>6
    <3>4. (rehash = << >> \/ \E c : rehash = <<c>> /\ Expanding(c))'
      BY <3>1, <3>2
    <3>5. Table'
      BY <3>1, <3>4 DEF Table
    <3> QED BY <3>1, <3>3, <3>5
  <2>3. CASE x \notin Marks /\ FindEnds(x)
    <3>1. x \in Element /\ Left(call) = Left(after) \cup {x}
      BY <2>1, <2>3 DEF Cells
    <3>2. /\ Insert(x, <<after>>) /\ iter' = IF Present(x) THEN iter ELSE Stale
          /\ UNCHANGED <<bulk, answer>>
      BY <2>3, <1>5
    <3>3. status' = status
      BY <3>1, <3>2, <2>3, InsertStep
    <3>4. CASE Present(x)
      <4>1. inner' = inner /\ size' = size /\ rehash' = <<after>>
        BY <3>1, <3>2, <3>4, <2>3, InsertStep
      <4>2. Expanding(after)'
        BY <4>1, <2>1, <1>2 DEF Expanding
      <4>3. x \in In(inner)
        BY <3>1, <3>4, <2>3, StateIsSound
      <4>4. All' = All
        <5>1. All' = In(inner') \cup Left(after)
          BY <4>1, PendingNext
        <5> QED BY <5>1, <4>1, <4>3, <3>1, <1>6
      <4>5. (rehash = << >> \/ \E c : rehash = <<c>> /\ Expanding(c))'
        BY <4>1, <4>2
      <4>6. Table'
        BY <4>1, <4>5 DEF Table
      <4> QED BY <4>1, <4>4, <4>6, <3>2, <3>3, <3>4
    <3>5. CASE ~ Present(x)
      <4>1. PICK w : /\ Typed(w) /\ w.size = inner.size /\ Located(w) /\ In(w) = In(inner) \cup {x}
                     /\ Cardinality(Used(w)) = size + 1
                     /\ IF 2 * (size + 1) > inner.size
                        THEN /\ inner' = Blank(inner.size * 2) /\ size' = 0
                             /\ rehash' = Append(<<after>>, [old |-> w, next |-> 0])
                        ELSE inner' = w /\ size' = size + 1 /\ rehash' = <<after>>
        BY <3>1, <3>2, <3>5, <2>3, InsertStep
      <4>2. 2 * (size + 1) <= inner.size /\ size + 1 <= after.next
        BY <2>1, <1>2
      <4>3. inner' = w /\ size' = size + 1 /\ rehash' = <<after>>
        BY <4>1, <4>2, <1>2
      <4>4. Expanding(after)'
        BY <4>1, <4>2, <4>3, <2>1, <1>2 DEF Expanding
      <4>5. All' = All
        <5>1. All' = In(inner') \cup Left(after)
          BY <4>3, PendingNext
        <5> QED BY <5>1, <4>1, <4>3, <3>1, <1>6
      <4>6. (rehash = << >> \/ \E c : rehash = <<c>> /\ Expanding(c))'
        BY <4>3, <4>4
      <4>7. Table'
        BY <4>1, <4>2, <4>3, <4>6 DEF Table
      <4> QED BY <4>1, <4>3, <4>5, <4>7, <3>2, <3>3, <3>5
    <3> QED BY <3>4, <3>5
  <2>4. CASE x \notin Marks /\ ~ FindEnds(x)
    <3>1. Hang /\ UNCHANGED iter
      BY <2>4, <1>5
    <3>2. status' = "looping" /\ UNCHANGED <<inner, size, rehash, bulk, answer>>
      BY <3>1 DEF Hang
    <3>3. Table' /\ All' = All
      BY <3>2, TableStays
    <3> QED BY <3>1, <3>2, <3>3
  <2> QED BY <2>2, <2>3, <2>4
<1> QED BY <1>7, <1>8

----------------------------------------------------------------------------
(* The iterator in a step.                                                  *)
LEMMA IterationStays ==
  ASSUME Iteration, UNCHANGED <<inner, rehash, bulk, iter>>
  PROVE  Iteration'
<1>1. Iterating' <=> Iterating
  BY DEF Iterating, Passed, Used, In
<1> QED BY <1>1 DEF Iteration

LEMMA StaleType ==
  ASSUME Iteration
  PROVE  /\ Stale \in Iterator /\ Stale.stale = TRUE /\ Stale.idx = iter.idx
         /\ Stale.given = iter.given /\ Stale.made = iter.made /\ Stale.count = iter.count
BY DEF Iteration, Iterator, Stale

\* The table has changed: the iterator is stale, or no iterator is meant to notice.
LEMMA IterationLoses ==
  ASSUME ConstantsOK, Table, Table', Iteration, inner'.size >= inner.size,
         iter' \in {iter, Stale}, iter' = Stale \/ iter.stale \/ LazySource
  PROVE  Iteration'
<1>1. inner.size \in Nat /\ inner'.size \in Nat
  BY DEF Table, Typed, Arrays
<1>2. iter' \in Iterator /\ iter'.idx = iter.idx /\ (iter'.stale \/ LazySource)
  BY StaleType DEF Iteration
<1>3. iter.idx \in Int
  BY DEF Iteration, Iterator
<1>4. -1 <= iter'.idx /\ iter'.idx <= inner'.size
  BY <1>1, <1>2, <1>3 DEF Iteration
<1> QED BY <1>2, <1>4 DEF Iteration

\* Where the table changes in a bulk request, or while expand runs, the iterator is stale.
LEMMA NobodyIterates ==
  ASSUME IInv, bulk # "none" \/ rehash # << >>
  PROVE  iter.stale \/ LazySource
BY DEF IInv, Iteration, Iterating

LEMMA InitInv ==
  ASSUME ConstantsOK, Init
  PROVE  IInv /\ All = {}
<1>1. Capacity \in Nat \ {0}
  BY DEF ConstantsOK
<1>2. /\ inner = Blank(Capacity) /\ size = 0 /\ rehash = << >> /\ bulk = "none" /\ iter = NoIter
      /\ status = "running"
  BY DEF Init
<1>3. /\ Typed(inner) /\ Located(inner) /\ size = Cardinality(Used(inner))
      /\ 2 * size <= inner.size /\ In(inner) = {} /\ inner.size = Capacity
  BY <1>1, <1>2, BlankIsSound
<1>4. All = {}
  BY <1>2, <1>3, NothingPending
<1>5. Table
  BY <1>2, <1>3 DEF Table
<1>6. /\ NoIter.stale = TRUE /\ NoIter.count = 1 /\ NoIter.idx = -1
      /\ NoIter.given = {} /\ NoIter.made = {} /\ NoIter \in Iterator
  BY DEF NoIter, Iterator
<1>7. Iteration
  BY <1>1, <1>2, <1>3, <1>6 DEF Iteration
<1> QED BY <1>2, <1>4, <1>5, <1>7 DEF IInv

LEMMA HangStep ==
  ASSUME IInv, Hang, UNCHANGED iter
  PROVE  IInv' /\ All' = All /\ answer' = answer
<1>1. status' = "looping" /\ UNCHANGED <<inner, size, rehash, bulk, answer>>
  BY DEF Hang
<1>2. Table' /\ All' = All
  BY <1>1, TableStays DEF IInv
<1>3. Iteration'
  BY <1>1, IterationStays DEF IInv
<1> QED BY <1>1, <1>2, <1>3 DEF IInv

LEMMA AddStep ==
  ASSUME ConstantsOK, IInv, NEW x \in Element, Add(x) \/ AddAllRound(x)
  PROVE  /\ IInv'
         /\ FindEnds(x) => /\ All' = All \cup {x}
                           /\ \E was \in BOOLEAN : was = (x \in All) /\ answer' = <<"add", x, was>>
         /\ ~ FindEnds(x) => UNCHANGED <<All, answer>>
<1>1. rehash = << >> /\ status = "running"
  BY DEF Add, AddAllRound, Idle, Quiet
<1>2. CASE ~ FindEnds(x)
  <2>1. Hang /\ UNCHANGED iter
    BY <1>2 DEF Add, AddAllRound
  <2> QED BY <2>1, <1>2, HangStep
<1>3. CASE FindEnds(x)
  <2>1. /\ Insert(x, << >>) /\ answer' = <<"add", x, Present(x)>> /\ UNCHANGED bulk
        /\ iter' \in {iter, Stale}
        /\ bulk = "none" => iter' = IF Present(x) THEN iter ELSE Stale
        /\ bulk # "none" => iter' = iter
    BY <1>3 DEF Add, AddAllRound, Idle, Quiet
  <2>2. /\ Table' /\ All' = All \cup {x} /\ (Present(x) <=> x \in All) /\ status' = status
        /\ inner'.size >= inner.size
        /\ Present(x) => UNCHANGED <<inner, size, rehash>>
    BY <2>1, <1>1, <1>3, AddTable DEF IInv
  <2>3. Iteration'
    <3>1. CASE iter' = iter /\ Present(x)
      BY <3>1, <2>1, <2>2, IterationStays DEF IInv
    <3>2. CASE iter' = Stale \/ bulk # "none"
      BY <3>2, <2>1, <2>2, IterationLoses, NobodyIterates DEF IInv
    <3> QED BY <3>1, <3>2, <2>1
  <2>4. IInv'
    BY <2>1, <2>2, <2>3 DEF IInv
  <2>5. Present(x) \in BOOLEAN /\ Present(x) = (x \in All)
    BY <2>2 DEF Present
  <2> QED BY <2>1, <2>2, <2>4, <2>5, <1>3
<1> QED BY <1>2, <1>3

LEMMA RemoveStep ==
  ASSUME ConstantsOK, IInv, NEW x \in Element, Remove(x) \/ RemoveAllRound(x)
  PROVE  /\ IInv'
         /\ FindEnds(x) => /\ All' = All \ {x}
                           /\ \E was \in BOOLEAN : was = (x \in All) /\ answer' = <<"remove", x, was>>
         /\ ~ FindEnds(x) => UNCHANGED <<All, answer>>
<1>1. rehash = << >> /\ status = "running"
  BY DEF Remove, RemoveAllRound, Idle, Quiet
<1>2. CASE ~ FindEnds(x)
  <2>1. Hang /\ UNCHANGED iter
    BY <1>2 DEF Remove, RemoveAllRound
  <2> QED BY <2>1, <1>2, HangStep
<1>3. CASE FindEnds(x)
  <2>1. /\ Vacate(x) /\ iter' \in {iter, Stale}
        /\ bulk = "none" => iter' = IF Present(x) THEN Stale ELSE iter
        /\ bulk # "none" => iter' = iter
    BY <1>3 DEF Remove, RemoveAllRound, Idle, Quiet
  <2>2. /\ Table' /\ All' = All \ {x} /\ (Present(x) <=> x \in All) /\ status' = status
        /\ inner'.size = inner.size /\ UNCHANGED <<rehash, bulk>>
        /\ ~ Present(x) => UNCHANGED <<inner, size, rehash>>
    BY <2>1, <1>1, <1>3, RemoveTable DEF IInv
  <2>3. Iteration'
    <3>1. CASE iter' = iter /\ ~ Present(x)
      BY <3>1, <2>1, <2>2, IterationStays DEF IInv
    <3>2. CASE iter' = Stale \/ bulk # "none"
      <4>1. inner'.size >= inner.size
        BY <2>2 DEF IInv, Table, Typed, Arrays
      <4> QED BY <4>1, <3>2, <2>1, <2>2, IterationLoses, NobodyIterates DEF IInv
    <3> QED BY <3>1, <3>2, <2>1
  <2>4. IInv'
    BY <2>1, <2>2, <2>3 DEF IInv
  <2>5. Present(x) \in BOOLEAN /\ Present(x) = (x \in All)
    BY <2>2 DEF Present
  <2>6. answer' = <<"remove", x, Present(x)>>
    BY <2>1 DEF Vacate
  <2> QED BY <2>2, <2>4, <2>5, <2>6, <1>3
<1> QED BY <1>2, <1>3

LEMMA ContainsStep ==
  ASSUME ConstantsOK, IInv, NEW x \in Element, Contains(x)
  PROVE  /\ IInv' /\ All' = All
         /\ FindEnds(x) => \E is \in BOOLEAN : is = (x \in All) /\ answer' = <<"contains", x, is>>
         /\ ~ FindEnds(x) => answer' = answer
<1>1. rehash = << >> /\ status = "running"
  BY DEF Contains, Idle, Quiet
<1>2. CASE ~ FindEnds(x)
  <2>1. Hang /\ UNCHANGED iter
    BY <1>2 DEF Contains
  <2> QED BY <2>1, <1>2, HangStep
<1>3. CASE FindEnds(x)
  <2>1. answer' = <<"contains", x, Present(x)>> /\ UNCHANGED <<inner, size, rehash, bulk, status, iter>>
    BY <1>3 DEF Contains
  <2>2. Table' /\ All' = All
    BY <2>1, TableStays DEF IInv
  <2>3. Iteration'
    BY <2>1, IterationStays DEF IInv
  <2>4. Present(x) \in BOOLEAN /\ Present(x) = (x \in All)
    <3>1. Present(x) <=> x \in All
      BY <1>1, <1>3, StateIsSound, NothingPending DEF IInv
    <3> QED BY <3>1 DEF Present
  <2>5. IInv'
    BY <2>1, <2>2, <2>3 DEF IInv
  <2> QED BY <2>1, <2>2, <2>4, <2>5, <1>3
<1> QED BY <1>2, <1>3

LEMMA RoundStep ==
  ASSUME ConstantsOK, IInv, ExpandRound
  PROVE  IInv' /\ UNCHANGED <<All, answer>>
<1>1. /\ Table' /\ All' = All /\ inner'.size = inner.size
      /\ status' \in {status, "looping"} /\ UNCHANGED <<bulk, answer>> /\ iter' \in {iter, Stale}
  BY RoundTable DEF IInv
<1>2. rehash # << >>
  BY DEF ExpandRound
<1>3. inner'.size >= inner.size
  BY <1>1 DEF IInv, Table, Typed, Arrays
<1>4. Iteration'
  BY <1>1, <1>2, <1>3, IterationLoses, NobodyIterates DEF IInv
<1> QED BY <1>1, <1>4 DEF IInv

LEMMA BulkStep ==
  ASSUME ConstantsOK, IInv, BulkEnds \/ \E request \in {"addAll", "removeAll"} : BulkStarts(request)
  PROVE  IInv' /\ UNCHANGED <<All, answer>>
<1>1. /\ UNCHANGED <<inner, size, rehash, status, answer>>
      /\ bulk' \in {"none", "addAll", "removeAll"} /\ iter' \in {iter, Stale}
      /\ iter' = Stale \/ bulk # "none"
  BY DEF BulkEnds, BulkStarts
<1>2. Table' /\ All' = All
  BY <1>1, TableStays DEF IInv
<1>3. inner'.size >= inner.size
  BY <1>1 DEF IInv, Table, Typed, Arrays
<1>4. Iteration'
  BY <1>1, <1>2, <1>3, IterationLoses, NobodyIterates DEF IInv
<1> QED BY <1>1, <1>2, <1>4 DEF IInv

LEMMA NewIteratorStep ==
  ASSUME ConstantsOK, IInv, NewIterator
  PROVE  IInv' /\ UNCHANGED <<All, answer>>
<1>1. /\ UNCHANGED <<inner, size, rehash, bulk, status, answer>>
      /\ rehash = << >> /\ (bulk # "none" => LazySource)
      /\ iter' = [stale |-> FALSE, count |-> 1, idx |-> -1, given |-> {}, made |-> In(inner)]
  BY DEF NewIterator, MayIterate, Quiet
<1>2. Table' /\ All' = All
  BY <1>1, TableStays DEF IInv
<1>3. In(inner) \subseteq Element
  BY DEF IInv, Table, Typed, In, Cells
<1>4. /\ iter' \in Iterator /\ iter'.idx = -1 /\ iter'.count = 1 /\ iter'.given = {}
      /\ iter'.made = In(inner) /\ iter'.stale = FALSE
  BY <1>1, <1>3 DEF Iterator
<1>5. inner'.size \in Nat
  BY <1>1 DEF IInv, Table, Typed, Arrays
<1>6. Passed' = {} /\ In(inner)' = In(inner)
  <2>1. Passed' = {t \in Used(inner) : t <= -1}
    BY <1>1, <1>4 DEF Passed, Used
  <2>2. \A t \in Used(inner) : t \in Nat
    BY <1>1, <1>5 DEF Used
  <2> QED BY <2>1, <2>2, <1>1 DEF In
<1>7. Cardinality(Passed') = 0
  BY <1>6, FS_EmptySet
<1>8. ~ LazySource => Iterating'
  BY <1>1, <1>4, <1>6, <1>7 DEF Iterating, IInv
<1>9. Iteration'
  BY <1>4, <1>5, <1>8 DEF Iteration
<1> QED BY <1>1, <1>2, <1>9 DEF IInv

LEMMA IteratorNextStep ==
  ASSUME ConstantsOK, IInv, IteratorNext
  PROVE  /\ IInv' /\ UNCHANGED <<All, answer>>
         /\ ~ LazySource => /\ In(inner) = iter.made
                            /\ iter'.given # iter.given
                            /\ iter'.count > size => iter'.given = iter.made
<1>1. /\ UNCHANGED <<inner, size, rehash, bulk, status, answer>>
      /\ rehash = << >> /\ (bulk # "none" => LazySource)
      /\ ~ iter.stale /\ size >= iter.count
  BY DEF IteratorNext, MayIterate, Quiet
<1>2. Table' /\ All' = All
  BY <1>1, TableStays DEF IInv
<1> DEFINE ahead == {t \in iter.idx + 1 .. inner.size - 1 : inner.at[t] \notin Marks}
<1>3. /\ inner.size \in Nat \ {0} /\ iter.idx \in Int /\ -1 <= iter.idx /\ iter.idx <= inner.size
      /\ iter.count \in Nat /\ iter.given \in SUBSET Element /\ iter.made \in SUBSET Element
      /\ size = Cardinality(Used(inner)) /\ size \in Nat /\ IsFiniteSet(Used(inner))
      /\ iter \in Iterator /\ Typed(inner) /\ Located(inner)
  BY StateIsSound, UsedIsFinite DEF IInv, Iteration, Iterator, Table
<1>4. \A t : t \in ahead <=> t \in Used(inner) /\ t \notin Passed
  BY <1>3 DEF Used, Passed
<1>5. Passed \subseteq Used(inner) /\ IsFiniteSet(Passed) /\ Cardinality(Passed) \in Nat
  <2>1. Passed \subseteq Used(inner)
    BY DEF Passed
  <2> QED BY <2>1, <1>3, FS_Subset, FS_CardinalityType
<1>6. ~ LazySource =>
        /\ In(inner) = iter.made /\ iter.given = {inner.at[t] : t \in Passed}
        /\ iter.count = 1 + Cardinality(Passed) /\ ahead # {}
  <2>1. SUFFICES ASSUME ~ LazySource
                 PROVE  /\ In(inner) = iter.made /\ iter.given = {inner.at[t] : t \in Passed}
                        /\ iter.count = 1 + Cardinality(Passed) /\ ahead # {}
    OBVIOUS
  <2>2. /\ In(inner) = iter.made /\ iter.given = {inner.at[t] : t \in Passed}
        /\ iter.count = 1 + Cardinality(Passed)
    BY <2>1, <1>1 DEF IInv, Iteration, Iterating
  <2>3. ahead # {}
    <3>1. SUFFICES ASSUME ahead = {} PROVE FALSE
      OBVIOUS
    <3>2. Passed = Used(inner)
      BY <3>1, <1>4, <1>5
    <3> QED BY <3>2, <2>2, <1>1, <1>3
  <2> QED BY <2>2, <2>3
<1>7. CASE ahead = {}
  <2>1. iter' = [iter EXCEPT !.idx = inner.size]
    BY <1>7 DEF IteratorNext
  <2>2. iter' \in Iterator /\ iter'.idx = inner.size
    BY <2>1, <1>3 DEF Iterator
  <2>3. LazySource
    BY <1>6, <1>7 DEF ConstantsOK
  <2>4. Iteration'
    BY <2>2, <2>3, <1>1, <1>3 DEF Iteration
  <2> QED BY <2>3, <2>4, <1>1, <1>2 DEF IInv
<1>8. CASE ahead # {}
  <2>1. \A t \in ahead : t \in Nat /\ t \in 0 .. inner.size - 1 /\ iter.idx < t
    BY <1>3
  <2>2. ahead \subseteq Nat
    BY <2>1
  <2>3. PICK t \in ahead : (\A u \in ahead : t <= u) /\ t = CHOOSE y \in ahead : \A u \in ahead : y <= u
    BY <2>2, <1>8, Least
  <2>4. iter' = [iter EXCEPT !.count = iter.count + 1, !.idx = t, !.given = iter.given \cup {inner.at[t]}]
    BY <2>3, <1>8 DEF IteratorNext
  <2>5. /\ t \in Nat /\ t \in 0 .. inner.size - 1 /\ t \in Used(inner) /\ t \notin Passed
        /\ inner.at[t] \in Element
    BY <2>1, <1>3, <1>4 DEF Typed, Cells, Used
  <2> HIDE DEF ahead
  <2>6. /\ iter' \in Iterator /\ iter'.idx = t /\ iter'.count = iter.count + 1
        /\ iter'.given = iter.given \cup {inner.at[t]} /\ iter'.made = iter.made
        /\ iter'.stale = iter.stale
    <3>1. PICK i \in Iterator : i = iter
      BY <1>3
    <3>2. PICK e \in Element : e = inner.at[t]
      BY <2>5
    <3>3. PICK c \in Nat, g \in SUBSET Element : c = i.count + 1 /\ g = i.given \cup {e}
      <4>1. i.count + 1 \in Nat /\ i.given \cup {e} \in SUBSET Element
        BY <3>1, <1>3
      <4> QED BY <4>1
    <3>4. /\ iter' \in Iterator /\ iter'.idx = t /\ iter'.count = i.count + 1
          /\ iter'.given = i.given \cup {e} /\ iter'.made = i.made /\ iter'.stale = i.stale
      <4>1. iter' = [i EXCEPT !.count = c, !.idx = t, !.given = g]
        BY <2>4, <3>1, <3>2, <3>3
      <4>2. t \in Int
        BY <2>5
      <4>3. /\ iter' \in Iterator /\ iter'.idx = t /\ iter'.count = c
            /\ iter'.given = g /\ iter'.made = i.made /\ iter'.stale = i.stale
        BY <4>1, <4>2 DEF Iterator
      <4> QED BY <4>3, <3>3
    <3> QED BY <3>1, <3>2, <3>4
  <2>7. Passed' = Passed \cup {t}
    <3>1. \A u \in Used(inner) : u <= t <=> u <= iter.idx \/ u = t
      <4>1. TAKE u \in Used(inner)
      <4>2. u \in Nat /\ iter.idx < t
        BY <2>1, <2>3, <1>3 DEF Used
      <4>3. u \notin Passed => t <= u
        BY <2>3, <1>4
      <4> QED BY <4>2, <4>3, <2>5, <1>3 DEF Passed
    <3>2. Passed' = {u \in Used(inner) : u <= t}
      BY <2>6, <1>1 DEF Passed, Used
    <3> QED BY <3>1, <3>2, <2>5 DEF Passed
  <2>8. Cardinality(Passed') = Cardinality(Passed) + 1
    BY <2>5, <2>7, <1>5, FS_AddElement
  <2>9. ~ LazySource => Iterating' /\ iter'.given # iter.given
                        /\ (iter'.count > size => iter'.given = iter.made)
    <3>1. SUFFICES ASSUME ~ LazySource
                   PROVE  Iterating' /\ iter'.given # iter.given
                          /\ (iter'.count > size => iter'.given = iter.made)
      OBVIOUS
    <3>2. iter'.given = {inner'.at[u] : u \in Passed'}
      BY <3>1, <2>6, <2>7, <1>1, <1>6
    <3>3. iter'.count = 1 + Cardinality(Passed')
      BY <3>1, <2>6, <2>8, <1>5, <1>6
    <3>4. In(inner)' = iter'.made
      BY <3>1, <2>6, <1>1, <1>6 DEF In
    <3>5. Iterating'
      BY <3>1, <3>2, <3>3, <3>4, <1>1 DEF Iterating, IInv
    <3>6. inner.at[t] \notin iter.given
      <4>1. \A u \in Used(inner) : inner.at[t] = inner.at[u] => t = u
        BY <2>5, <1>3, ElementsAreUnique
      <4>2. \A u \in Passed : inner.at[t] # inner.at[u]
        BY <4>1, <2>5, <1>5
      <4> QED BY <4>2, <3>1, <1>6
    <3>7. ASSUME iter'.count > size PROVE iter'.given = iter.made
      <4>1. Passed' \subseteq Used(inner) /\ Cardinality(Passed') = Cardinality(Used(inner))
        <5>1. Passed' \subseteq Used(inner)
          BY <2>5, <2>7, <1>5
        <5>2. Cardinality(Passed') <= Cardinality(Used(inner))
          BY <5>1, <1>3, FS_Subset
        <5> QED BY <5>1, <5>2, <3>1, <3>7, <2>6, <2>8, <1>3, <1>5, <1>6
      <4>2. Passed' = Used(inner)
        BY <4>1, <1>3, FS_Subset
      <4>3. In(inner) = {inner.at[u] : u \in Used(inner)}
        <5>1. \A c : c \in In(inner) <=> \E u \in Used(inner) : c = inner.at[u]
          BY DEF In, Used
        <5> QED BY <5>1
      <4> QED BY <4>2, <4>3, <3>1, <3>2, <1>1, <1>6
    <3> QED BY <3>5, <3>6, <3>7, <2>6
  <2>10. Iteration'
    BY <2>5, <2>6, <2>9, <1>1, <1>3 DEF Iteration
  <2> QED BY <2>9, <2>10, <1>1, <1>2, <1>6 DEF IInv
<1> QED BY <1>7, <1>8

LEMMA NextInv ==
  ASSUME ConstantsOK, IInv, [Next]_vars
  PROVE  IInv'
<1>1. CASE UNCHANGED vars
  <2>1. UNCHANGED <<inner, size, rehash, bulk, iter, status>>
    BY <1>1 DEF vars
  <2>2. Table' /\ Iteration'
    BY <2>1, TableStays, IterationStays DEF IInv
  <2> QED BY <2>1, <2>2 DEF IInv
<1>2. ASSUME NEW x \in Element, Add(x) \/ Contains(x) \/ Remove(x) PROVE IInv'
  BY <1>2, AddStep, ContainsStep, RemoveStep
<1>3. ASSUME NEW x \in Element, AddAllRound(x) \/ RemoveAllRound(x) PROVE IInv'
  BY <1>3, AddStep, RemoveStep
<1>4. CASE ExpandRound
  BY <1>4, RoundStep
<1>5. CASE BulkEnds \/ \E request \in {"addAll", "removeAll"} : BulkStarts(request)
  BY <1>5, BulkStep
<1>6. CASE NewIterator
  BY <1>6, NewIteratorStep
<1>7. CASE IteratorNext
  BY <1>7, IteratorNextStep
<1> QED BY <1>1, <1>2, <1>3, <1>4, <1>5, <1>6, <1>7 DEF Next

LEMMA InvImplies ==
  ASSUME ConstantsOK, IInv
  PROVE  TypeOK /\ SizeIsExact /\ Findable
<1>1. /\ Typed(inner) /\ Located(inner) /\ size = Cardinality(Used(inner)) /\ size \in Nat
      /\ 2 * size <= inner.size /\ inner.size \in Nat \ {0}
  BY StateIsSound DEF IInv, Table
<1>2. /\ \A i \in 1 .. Len(rehash) :
           /\ rehash[i].old.at \in [0 .. rehash[i].old.size - 1 -> Element \cup Marks]
           /\ rehash[i].next \in 0 .. rehash[i].old.size
      /\ Len(rehash) <= 1
  <2>1. CASE rehash = << >>
    <3>1. Len(rehash) = 0
      BY <2>1
    <3> QED BY <3>1
  <2>2. CASE rehash # << >>
    <3>1. PICK call : rehash = <<call>> /\ Expanding(call)
      BY <2>2 DEF IInv, Table
    <3>2. Len(rehash) = 1 /\ \A i \in 1 .. Len(rehash) : rehash[i] = call
      BY <3>1
    <3>3. /\ call.old.at \in [0 .. call.old.size - 1 -> Element \cup Marks]
          /\ call.next \in 0 .. call.old.size
      BY <3>1 DEF Expanding, Typed, Arrays, Cells
    <3> QED BY <3>2, <3>3
  <2> QED BY <2>1, <2>2
<1>3. TypeOK
  <2>1. inner.at \in [Slots -> Element \cup Marks]
    BY <1>1 DEF Typed, Cells, Slots
  <2>2. /\ iter.count \in Nat /\ iter.idx \in -1 .. inner.size /\ iter.given \subseteq Element
        /\ bulk \in {"none", "addAll", "removeAll"} /\ status \in {"running", "looping"}
    BY <1>1 DEF IInv, Iteration, Iterator
  <2> QED BY <2>1, <2>2, <1>1, <1>2 DEF TypeOK
<1>4. SizeIsExact
  <2>1. size = Cardinality(In(inner))
    BY <1>1, ElementsCounted
  <2> QED BY <2>1, <1>1, <1>2 DEF SizeIsExact, Used, Slots
<1>5. Findable
  <2>1. \A t \in Slots : inner.at[t] \notin Marks
          => EndsIn(inner, inner.at[t]) /\ PlaceIn(inner, inner.at[t]) = t
    BY <1>1 DEF Located, Used, Slots
  <2> QED BY <2>1, StateIsSound DEF Findable, IInv
<1> QED BY <1>3, <1>4, <1>5

----------------------------------------------------------------------------
(* The theorems.                                                            *)

(* The invariant holds for every set of elements, every hash and every size *)
(* of the first array of two or more, also when a search never ends.        *)
THEOREM Invariance ==
  ASSUME ConstantsOK
  PROVE  Spec => []IInv
<1>1. Init => IInv
  BY InitInv
<1>2. IInv /\ [Next]_vars => IInv'
  BY NextInv
<1> QED BY <1>1, <1>2, PTL DEF Spec

(* The array, and the one that expand copies from, have an element or a mark*)
(* in each of their slots, and no index leaves them.                        *)
THEOREM TypeCorrect ==
  ASSUME ConstantsOK
  PROVE  Spec => []TypeOK
<1>1. IInv => TypeOK
  BY InvImplies
<1> QED BY <1>1, Invariance, PTL

(* size is the number of elements, each of which is in the array once, also *)
(* when a vacated slot was filled again; and expand never nests.            *)
THEOREM SizeCounts ==
  ASSUME ConstantsOK
  PROVE  Spec => []SizeIsExact
<1>1. IInv => SizeIsExact
  BY InvImplies
<1> QED BY <1>1, Invariance, PTL

(* findPosition finds every element that is in the array, across the marks  *)
(* that remove has left in its way.                                         *)
THEOREM ElementsAreFound ==
  ASSUME ConstantsOK
  PROVE  Spec => []Findable
<1>1. IInv => Findable
  BY InvImplies
<1> QED BY <1>1, Invariance, PTL

(* If the argument of no bulk request iterates over the set, an iterator    *)
(* gives elements only while the set is the one that it was made for.       *)
THEOREM IteratorsFailFast ==
  ASSUME ConstantsOK, ~ LazySource
  PROVE  Spec => FailFast
<1>1. IInv /\ [Next]_vars => [FailFastStep]_vars
  BY IteratorNextStep DEF FailFastStep
<1> QED BY <1>1, Invariance, PTL DEF Spec, FailFast

(* Then it gives an element that it has not given yet whenever hasNext says *)
(* so, and has given all of them when hasNext says that it is done.         *)
THEOREM IteratorsGiveAll ==
  ASSUME ConstantsOK, ~ LazySource
  PROVE  Spec => IteratesAll
<1>1. IInv /\ [Next]_vars => [IteratesAllStep]_vars
  <2>1. SUFFICES ASSUME IInv, IteratorNext
                 PROVE  iter'.given # iter.given /\ (iter'.count > size => iter'.given = iter.made)
    BY DEF IteratesAllStep
  <2> QED BY <2>1, IteratorNextStep
<1> QED BY <1>1, Invariance, PTL DEF Spec, IteratesAll

LEMMA SetStep ==
  ASSUME ConstantsOK, IInv, [Next]_vars
  PROVE  [Set!Next]_<<All, answer>>
<1>1. ASSUME NEW x \in Element, Add(x) \/ AddAllRound(x) PROVE [Set!Next]_<<All, answer>>
  <2>1. CASE FindEnds(x)
    <3>1. All' = All \cup {x} /\ answer' = <<"add", x, x \in All>>
      BY <1>1, <2>1, AddStep
    <3> QED BY <3>1 DEF Set!Next, Set!Add
  <2>2. CASE ~ FindEnds(x)
    BY <1>1, <2>2, AddStep
  <2> QED BY <2>1, <2>2
<1>2. ASSUME NEW x \in Element, Remove(x) \/ RemoveAllRound(x) PROVE [Set!Next]_<<All, answer>>
  <2>1. CASE FindEnds(x)
    <3>1. All' = All \ {x} /\ answer' = <<"remove", x, x \in All>>
      BY <1>2, <2>1, RemoveStep
    <3> QED BY <3>1 DEF Set!Next, Set!Remove
  <2>2. CASE ~ FindEnds(x)
    BY <1>2, <2>2, RemoveStep
  <2> QED BY <2>1, <2>2
<1>3. ASSUME NEW x \in Element, Contains(x) PROVE [Set!Next]_<<All, answer>>
  <2>1. All' = All
    BY <1>3, ContainsStep
  <2>2. CASE FindEnds(x)
    <3>1. answer' = <<"contains", x, x \in All>>
      BY <1>3, <2>2, ContainsStep
    <3> QED BY <2>1, <3>1 DEF Set!Next, Set!Contains
  <2>3. CASE ~ FindEnds(x)
    BY <1>3, <2>1, <2>3, ContainsStep
  <2> QED BY <2>2, <2>3
<1>4. CASE ExpandRound \/ BulkEnds \/ (\E request \in {"addAll", "removeAll"} : BulkStarts(request))
           \/ NewIterator \/ IteratorNext
  <2>1. UNCHANGED <<All, answer>>
    BY <1>4, RoundStep, BulkStep, NewIteratorStep, IteratorNextStep
  <2> QED BY <2>1
<1>5. CASE UNCHANGED vars
  <2>1. UNCHANGED <<inner, size, rehash, answer>>
    BY <1>5 DEF vars
  <2>2. All' = All
    BY <2>1, TableStays DEF IInv
  <2> QED BY <2>1, <2>2
<1> QED BY <1>1, <1>2, <1>3, <1>4, <1>5 DEF Next

(* The table is a set: it implements SetSpec, between the rounds of expand  *)
(* and of bulk requests too, whatever collides and is removed and put back; *)
(* a request whose search never ends is one that is never answered.         *)
THEOREM TableIsSet ==
  ASSUME ConstantsOK
  PROVE  Spec => IsSet
<1>1. Init => Set!Init
  <2>1. SUFFICES ASSUME Init PROVE Set!Init
    OBVIOUS
  <2>2. All = {} /\ answer = << >>
    BY <2>1, InitInv DEF Init
  <2> QED BY <2>2 DEF Set!Init
<1>2. IInv /\ [Next]_vars => [Set!Next]_<<All, answer>>
  BY SetStep
<1> QED BY <1>1, <1>2, Invariance, PTL DEF Spec, IsSet, Set!Spec
=============================================================================
