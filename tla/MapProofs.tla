--------------------------- MODULE MapProofs ---------------------------
(***************************************************************************)
(* Proofs about the two maps, StringMap and, as the instance D that shares *)
(* its array, GraceDictionary, for every set of keys and values, every hash*)
(* function and every size of the first array.                             *)
(*                                                                         *)
(* The stringMap: an array in which every key is where findPosition looks  *)
(* for it stays one when a binding is stored, because a search never passes*)
(* the slot it stops at; the array is at most half full, so that searches  *)
(* stop; and expand only moves bindings from the old array to the new one, *)
(* which has room for all of them.                                         *)
(*                                                                         *)
(* The dictionary vacates slots, at which findPositionForAdd stops, so that*)
(* this holds for two kinds of programs, RegularPrograms: those that remove*)
(* nothing, whose arrays are like the stringMap's, and those whose keys    *)
(* start their searches apart, whose keys are in the first slot of their   *)
(* searches.                                                               *)
(***************************************************************************)
EXTENDS StringMap, FiniteSetTheorems, SequenceTheorems, NaturalsInduction, WellFoundedInduction, TLAPS

CONSTANTS
  DictKey, DictCapacity,  \* of the dictionary, as Key and Capacity
  REMOVED, Programs       \* see GraceDictionary

VARIABLES numBindings, removing, iter, program

D == INSTANCE GraceDictionary WITH Key <- DictKey, Capacity <- DictCapacity

Cells  == Binding \cup {UNUSED}
Tables == UNION {[0 .. s - 1 -> Cells] : s \in Nat}
Arrays == [size : Nat \ {0}, at : Tables]

Typed(a) == a \in Arrays /\ a.at \in [0 .. a.size - 1 -> Cells]

Used(a)        == {t \in 0 .. a.size - 1 : a.at[t] # UNUSED}
StopsIn(a, k)  == {t \in 0 .. a.size - 1 : a.at[t] = UNUSED \/ a.at[t].key = k}
EndsIn(a, k)   == SearchEnds(HashOf[k], a.size, StopsIn(a, k))
PlaceIn(a, k)  == SearchResult(HashOf[k], a.size, StopsIn(a, k))
HasRoom(a)     == \E t \in 0 .. a.size - 1 : a.at[t] = UNUSED

\* Every key of a is where findPosition looks for it.
Located(a) == \A t \in Used(a) : EndsIn(a, a.at[t].key) /\ PlaceIn(a, a.at[t].key) = t

\* a when put has stored v at k.
With(a, k, v) == [a EXCEPT !.at[PlaceIn(a, k)] = [key |-> k, value |-> v]]

\* The call of expand under way copies from half as large an array, and what it has
\* stored so far came from the slots it has passed.
Expanding(call) ==
  /\ call \in [old : Arrays, next : Nat] /\ Typed(call.old)
  /\ call.next <= call.old.size /\ elems <= call.next
  /\ inner.size = 2 * call.old.size

Passed == {t \in Used(inner) : t < visit.idx}

\* The loop of keysAndValuesDo, when its block does not put.
Visiting ==
  /\ rehash = << >>
  /\ visit.seen = {inner.at[t].key : t \in Passed}
  /\ visit.count = 1 + Cardinality(Passed)

IInv ==
  /\ Typed(inner) /\ Located(inner)
  /\ elems = Cardinality(Used(inner)) /\ 2 * elems <= inner.size
  /\ rehash = << >> \/ \E call : rehash = <<call>> /\ Expanding(call)
  /\ \A b, c \in All : b.key = c.key => b = c
  /\ visit \in [count : Nat, idx : Nat, seen : SUBSET Key] /\ visit.idx <= inner.size
  /\ visit # NoVisit /\ ~ PutInVisit => Visiting
  /\ status \in {"running", "outOfBounds"} /\ (~ PutInVisit => status = "running")

----------------------------------------------------------------------------
(* The search of HashProbe, for every hash, size of the array and set of    *)
(* slots that stop it.                                                      *)
LEMMA Modulo ==
  ASSUME NEW s \in Nat \ {0}
  PROVE  /\ \A a \in Nat : a % s \in 0 .. s - 1
         /\ \A a \in 0 .. s - 1 : a % s = a
         /\ \A a \in 0 .. s - 1 : (a + s) % s = a
<1>1. \A a \in Nat : a % s \in 0 .. s - 1
  OBVIOUS
<1>2. \A a \in 0 .. s - 1 : a % s = a
  OBVIOUS
<1>3. \A a \in 0 .. s - 1 : (a + s) % s = a
  OBVIOUS
<1> QED BY <1>1, <1>2, <1>3

LEMMA ProbeType ==
  ASSUME NEW h \in Nat, NEW s \in Nat \ {0}, NEW n \in Nat
  PROVE  Probe(h, s, n) \in 0 .. s - 1
<1>1. \A a \in Nat : a % s \in 0 .. s - 1
  BY Modulo
<1>2. h % s \in Nat /\ \A t \in Nat : t * 3 + 1 \in Nat /\ Jump(t, s) \in 0 .. s - 1
  BY <1>1 DEF Jump
<1>3. \A t \in Nat : Jump(t, s) \in Nat
  BY <1>2
<1> DEFINE t1 == Jump(h % s, s)
           t2 == Jump(t1, s)
           t3 == Jump(t2, s)
           t4 == Jump(t3, s)
           t5 == Jump(t4, s)
<1>4. t1 \in Nat /\ t2 \in Nat /\ t3 \in Nat /\ t4 \in Nat /\ t5 \in Nat
  BY <1>2, <1>3
<1>5. \A i \in Nat : (t5 + i) % s \in 0 .. s - 1
  BY <1>1, <1>4
<1>6. /\ h % s \in 0 .. s - 1 /\ t1 \in 0 .. s - 1 /\ t2 \in 0 .. s - 1
      /\ t3 \in 0 .. s - 1 /\ t4 \in 0 .. s - 1
  BY <1>1, <1>2, <1>3, <1>4
<1> HIDE DEF t1, t2, t3, t4, t5
<1> QED BY <1>5, <1>6 DEF Probe, t1, t2, t3, t4, t5

\* The loop inspects every slot.
LEMMA ProbesAll ==
  ASSUME NEW h \in Nat, NEW s \in Nat \ {0}, NEW t \in 0 .. s - 1
  PROVE  \E n \in Rounds(s) : Probe(h, s, n) = t
<1>1. PICK t5 \in 0 .. s - 1 : \A n \in Nat : n >= 5 => Probe(h, s, n) = (t5 + (n - 5)) % s
  <2> DEFINE t1 == Jump(h % s, s)
             t2 == Jump(t1, s)
             t3 == Jump(t2, s)
             t4 == Jump(t3, s)
             t5 == Jump(t4, s)
  <2>1. \A a \in Nat : a * 3 + 1 \in Nat /\ Jump(a, s) \in 0 .. s - 1 /\ Jump(a, s) \in Nat
    BY Modulo DEF Jump
  <2>2. h % s \in Nat
    BY Modulo
  <2>3. t5 \in 0 .. s - 1
    BY <2>1, <2>2
  <2>4. \A n \in Nat : n >= 5 => Probe(h, s, n) = (t5 + (n - 5)) % s
    <3> HIDE DEF t1, t2, t3, t4, t5
    <3>1. TAKE n \in Nat
    <3>2. HAVE n >= 5
    <3>3. n # 0 /\ n # 1 /\ n # 2 /\ n # 3 /\ n # 4
      BY <3>2
    <3> QED BY <3>3 DEF Probe, t1, t2, t3, t4, t5
  <2> QED BY <2>3, <2>4
<1>2. CASE t5 <= t
  <2>1. 5 + (t - t5) \in Rounds(s) /\ 5 + (t - t5) \in Nat /\ 5 + (t - t5) >= 5
    BY <1>2 DEF Rounds
  <2>2. t5 + ((5 + (t - t5)) - 5) = t
    OBVIOUS
  <2>3. t % s = t
    BY Modulo
  <2> QED BY <2>1, <2>2, <2>3, <1>1
<1>3. CASE t < t5
  <2>1. 5 + (t + s - t5) \in Rounds(s) /\ 5 + (t + s - t5) \in Nat /\ 5 + (t + s - t5) >= 5
    BY <1>3 DEF Rounds
  <2>2. t5 + ((5 + (t + s - t5)) - 5) = t + s
    OBVIOUS
  <2>3. (t + s) % s = t
    BY Modulo
  <2> QED BY <2>1, <2>2, <2>3, <1>1
<1> QED BY <1>2, <1>3

LEMMA Least ==
  ASSUME NEW T, T \subseteq Nat, T # {}
  PROVE  \E x \in T : \A y \in T : x <= y
<1>1. PICK x \in T : \A y \in T : <<y, x>> \notin OpToRel(<, Nat)
  BY NatLessThanWellFounded, WFMin
<1>2. \A y \in T : ~ (y < x) /\ y \in Nat /\ x \in Nat
  BY <1>1 DEF OpToRel
<1>3. \A y \in T : x <= y
  BY <1>2
<1> QED BY <1>1, <1>3

\* The loop stops at one slot only.
LEMMA StopsOnce ==
  ASSUME NEW h \in Nat, NEW s \in Nat \ {0}, NEW stops,
         NEW n, StopsAt(h, s, stops, n), NEW m, StopsAt(h, s, stops, m)
  PROVE  n = m
<1>1. n \in Nat /\ m \in Nat
  BY DEF StopsAt, Rounds
<1>2. ~ (n < m) /\ ~ (m < n)
  BY <1>1 DEF StopsAt
<1> QED BY <1>1, <1>2

\* The slot it stops at is the result of the search.
LEMMA StopIsFound ==
  ASSUME NEW h \in Nat, NEW s \in Nat \ {0}, NEW stops, NEW n, StopsAt(h, s, stops, n)
  PROVE  SearchEnds(h, s, stops) /\ SearchResult(h, s, stops) = Probe(h, s, n)
<1>1. n \in Rounds(s)
  BY DEF StopsAt
<1>2. \A m \in Rounds(s) : StopsAt(h, s, stops, m) => m = n
  BY StopsOnce
<1>3. (CHOOSE m \in Rounds(s) : StopsAt(h, s, stops, m)) = n
  BY <1>1, <1>2
<1> QED BY <1>1, <1>3 DEF SearchResult, SearchEnds, StopsAt

\* If there is a slot to stop at, the loop stops, and at one of them.
LEMMA SearchStops ==
  ASSUME NEW h \in Nat, NEW s \in Nat \ {0}, NEW stops, NEW t \in stops, t \in 0 .. s - 1
  PROVE  /\ \E n : StopsAt(h, s, stops, n) /\ SearchResult(h, s, stops) = Probe(h, s, n)
         /\ SearchEnds(h, s, stops) /\ SearchResult(h, s, stops) \in stops
         /\ SearchResult(h, s, stops) \in 0 .. s - 1
<1> DEFINE N == {n \in Rounds(s) : Probe(h, s, n) \in stops}
<1>1. N \subseteq Nat /\ N # {}
  <2>1. PICK n \in Rounds(s) : Probe(h, s, n) = t
    BY ProbesAll
  <2> QED BY <2>1 DEF Rounds
<1>2. PICK n \in N : \A m \in N : n <= m
  BY <1>1, Least
<1>3. StopsAt(h, s, stops, n)
  <2>1. n \in Rounds(s) /\ Probe(h, s, n) \in stops /\ n \in Nat /\ n <= s + 4
    BY <1>2 DEF Rounds
  <2>2. \A m \in 0 .. n - 1 : m \in Rounds(s) /\ ~ (n <= m)
    BY <2>1 DEF Rounds
  <2>3. \A m \in 0 .. n - 1 : Probe(h, s, m) \notin stops
    BY <2>2, <1>2
  <2> QED BY <2>1, <2>3 DEF StopsAt
<1>4. n \in Nat /\ Probe(h, s, n) \in stops
  BY <1>3 DEF StopsAt, Rounds
<1> QED BY <1>3, <1>4, StopIsFound, ProbeType

\* A search still finds its slot when there are fewer others to stop at.
LEMMA StopsFewer ==
  ASSUME NEW h \in Nat, NEW s \in Nat \ {0}, NEW stops, NEW fewer, fewer \subseteq stops,
         SearchEnds(h, s, stops), SearchResult(h, s, stops) \in fewer
  PROVE  SearchEnds(h, s, fewer) /\ SearchResult(h, s, fewer) = SearchResult(h, s, stops)
<1>1. PICK t \in 0 .. s - 1 : t \in stops
  <2>1. PICK n \in Rounds(s) : Probe(h, s, n) \in stops
    BY DEF SearchEnds
  <2> QED BY <2>1, ProbeType DEF Rounds
<1>2. PICK n : StopsAt(h, s, stops, n) /\ SearchResult(h, s, stops) = Probe(h, s, n)
  BY <1>1, SearchStops
<1>3. StopsAt(h, s, fewer, n)
  BY <1>2 DEF StopsAt
<1> QED BY <1>2, <1>3, StopIsFound

----------------------------------------------------------------------------
(* One array.                                                               *)
LEMMA PlaceType ==
  ASSUME ConstantsOK, NEW a, Typed(a), HasRoom(a), NEW k \in Key
  PROVE  /\ EndsIn(a, k) /\ PlaceIn(a, k) \in 0 .. a.size - 1
         /\ a.at[PlaceIn(a, k)] = UNUSED \/ a.at[PlaceIn(a, k)].key = k
<1>1. HashOf[k] \in Nat /\ a.size \in Nat \ {0}
  BY DEF ConstantsOK, Typed, Arrays
<1>2. PICK t \in StopsIn(a, k) : t \in 0 .. a.size - 1
  BY DEF HasRoom, StopsIn
<1>3. EndsIn(a, k) /\ PlaceIn(a, k) \in StopsIn(a, k)
  BY <1>1, <1>2, SearchStops DEF EndsIn, PlaceIn
<1> QED BY <1>3 DEF StopsIn

\* No key is in an array twice, and none that a search has not found.
LEMMA KeysAreUnique ==
  ASSUME NEW a, Located(a)
  PROVE  /\ \A t, u \in Used(a) : a.at[t].key = a.at[u].key => t = u
         /\ \A k : a.at[PlaceIn(a, k)] = UNUSED => \A t \in Used(a) : a.at[t].key # k
BY DEF Located, Used

LEMMA WithType ==
  ASSUME ConstantsOK, NEW a, Typed(a), HasRoom(a), NEW k \in Key, NEW v \in Value
  PROVE  /\ Typed(With(a, k, v)) /\ With(a, k, v).size = a.size
         /\ \E p \in 0 .. a.size - 1 :
              /\ p = PlaceIn(a, k) /\ With(a, k, v).at[p] = [key |-> k, value |-> v]
              /\ \A t \in 0 .. a.size - 1 : t # p => With(a, k, v).at[t] = a.at[t]
              /\ Used(With(a, k, v)) = Used(a) \cup {p}
<1> DEFINE w == With(a, k, v)
           b == [key |-> k, value |-> v]
<1>1. b \in Cells /\ b # UNUSED
  BY DEF Cells, Binding, ConstantsOK
<1>2. PICK p \in 0 .. a.size - 1 : p = PlaceIn(a, k)
  BY PlaceType
<1>3. /\ w.size = a.size /\ w.at = [a.at EXCEPT ![p] = b] /\ w = [size |-> w.size, at |-> w.at]
      /\ a.size \in Nat \ {0}
  <2>1. a = [size |-> a.size, at |-> a.at] /\ a.size \in Nat \ {0}
    BY DEF Typed, Arrays
  <2>2. w = [size |-> a.size, at |-> [a.at EXCEPT ![p] = b]]
    BY <2>1, <1>2 DEF With
  <2> QED BY <2>1, <2>2
<1>4. w.at \in [0 .. a.size - 1 -> Cells] /\ w.at[p] = b
      /\ \A t \in 0 .. a.size - 1 : t # p => w.at[t] = a.at[t]
  BY <1>1, <1>2, <1>3 DEF Typed
<1>5. Typed(w)
  <2>1. w.at \in Tables
    BY <1>3, <1>4 DEF Tables
  <2>2. w.size \in Nat \ {0}
    BY <1>3
  <2> HIDE DEF w
  <2>3. w \in Arrays
    BY <1>3, <2>1, <2>2 DEF Arrays
  <2> QED BY <2>3, <1>3, <1>4 DEF Typed
<1>6. Used(w) = Used(a) \cup {p}
  <2> HIDE DEF w
  <2> QED BY <1>1, <1>2, <1>3, <1>4 DEF Used
<1> QED BY <1>2, <1>3, <1>4, <1>5, <1>6

\* The keys of an array are where they were when another has been stored, and the
\* new one is where it has been stored.
LEMMA WithLocates ==
  ASSUME ConstantsOK, NEW a, Typed(a), Located(a), HasRoom(a), NEW k \in Key, NEW v \in Value
  PROVE  Located(With(a, k, v))
<1> DEFINE w == With(a, k, v)
<1>1. PICK p \in 0 .. a.size - 1 :
        /\ p = PlaceIn(a, k) /\ w.at[p] = [key |-> k, value |-> v]
        /\ \A t \in 0 .. a.size - 1 : t # p => w.at[t] = a.at[t]
        /\ Used(w) = Used(a) \cup {p}
  BY WithType
<1>2. /\ Typed(w) /\ w.size = a.size /\ w.at[p] = [key |-> k, value |-> v]
      /\ \A t \in 0 .. a.size - 1 : t # p => w.at[t] = a.at[t]
      /\ Used(w) = Used(a) \cup {p} /\ p \in 0 .. a.size - 1
  BY <1>1, WithType
<1>3. a.at[p] = UNUSED \/ a.at[p].key = k
  BY <1>1, PlaceType
<1>4. a.size \in Nat \ {0} /\ \A q \in Key : HashOf[q] \in Nat
  BY DEF Typed, Arrays, ConstantsOK
<1>5. w.at[p] # UNUSED /\ w.at[p].key = k
  BY <1>2 DEF ConstantsOK, Binding
<1> HIDE DEF w
<1>6. StopsIn(w, k) = StopsIn(a, k)
  BY <1>2, <1>3, <1>5 DEF StopsIn
<1>7. EndsIn(w, k) /\ PlaceIn(w, k) = p
  <2>1. EndsIn(a, k)
    BY PlaceType
  <2> QED BY <2>1, <1>1, <1>2, <1>6 DEF EndsIn, PlaceIn
<1>8. ASSUME NEW t \in Used(w), t # p
      PROVE  EndsIn(w, w.at[t].key) /\ PlaceIn(w, w.at[t].key) = t
  <2>1. t \in Used(a) /\ t \in 0 .. a.size - 1 /\ w.at[t] = a.at[t]
    BY <1>2, <1>8 DEF Used
  <2>2. PICK q : q = a.at[t].key
    OBVIOUS
  <2>3. q \in Key
    BY <2>1, <2>2 DEF Typed, Cells, Binding, Used
  <2>4. EndsIn(a, q) /\ PlaceIn(a, q) = t
    BY <2>1, <2>2 DEF Located
  <2>5. q # k
    BY <2>4, <1>1, <1>8
  <2>6. StopsIn(w, q) \subseteq StopsIn(a, q)
    <3>1. \A u \in 0 .. a.size - 1 : u # p => (u \in StopsIn(w, q) <=> u \in StopsIn(a, q))
      BY <1>2 DEF StopsIn
    <3>2. p \notin StopsIn(w, q)
      BY <1>5, <2>5 DEF StopsIn
    <3>3. StopsIn(w, q) \subseteq 0 .. a.size - 1
      BY <1>2 DEF StopsIn
    <3> QED BY <3>1, <3>2, <3>3
  <2>7. t \in StopsIn(w, q)
    BY <2>1, <2>2, <1>2 DEF StopsIn
  <2>8. /\ SearchEnds(HashOf[q], a.size, StopsIn(w, q))
        /\ SearchResult(HashOf[q], a.size, StopsIn(w, q)) = t
    <3>1. SearchEnds(HashOf[q], a.size, StopsIn(a, q)) /\ SearchResult(HashOf[q], a.size, StopsIn(a, q)) = t
      BY <2>4 DEF EndsIn, PlaceIn
    <3> QED BY <3>1, <2>3, <2>6, <2>7, <1>4, StopsFewer
  <2> QED BY <2>1, <2>2, <2>8, <1>2 DEF EndsIn, PlaceIn
<1>9. \A t \in Used(w) : EndsIn(w, w.at[t].key) /\ PlaceIn(w, w.at[t].key) = t
  BY <1>5, <1>7, <1>8
<1> QED BY <1>9 DEF Located, w

LEMMA UsedIsFinite ==
  ASSUME NEW a, Typed(a)
  PROVE  /\ IsFiniteSet(Used(a)) /\ Cardinality(Used(a)) \in Nat
         /\ 2 * Cardinality(Used(a)) <= a.size => HasRoom(a)
<1>1. /\ a.size \in Nat \ {0} /\ IsFiniteSet(0 .. a.size - 1)
      /\ Cardinality(0 .. a.size - 1) = a.size
  BY FS_Interval DEF Typed, Arrays
<1>2. Used(a) \subseteq 0 .. a.size - 1
  BY DEF Used
<1>3. IsFiniteSet(Used(a)) /\ Cardinality(Used(a)) \in Nat
  BY <1>1, <1>2, FS_Subset, FS_CardinalityType
<1>4. ASSUME 2 * Cardinality(Used(a)) <= a.size PROVE HasRoom(a)
  <2>1. Cardinality(Used(a)) # a.size
    BY <1>1, <1>3, <1>4
  <2>2. Used(a) # 0 .. a.size - 1
    BY <2>1, <1>1
  <2>3. \E t \in 0 .. a.size - 1 : t \notin Used(a)
    BY <2>2, <1>2
  <2> QED BY <2>3 DEF HasRoom, Used
<1> QED BY <1>3, <1>4

\* What put adds to the bindings of an array, and to their number.
LEMMA WithBinds ==
  ASSUME ConstantsOK, NEW a, Typed(a), Located(a), HasRoom(a), NEW k \in Key, NEW v \in Value
  PROVE  /\ Bound(With(a, k, v)) = {b \in Bound(a) : b.key # k} \cup {[key |-> k, value |-> v]}
         /\ Cardinality(Used(With(a, k, v)))
            = IF a.at[PlaceIn(a, k)] = UNUSED THEN Cardinality(Used(a)) + 1
              ELSE Cardinality(Used(a))
<1> DEFINE w == With(a, k, v)
           b == [key |-> k, value |-> v]
<1>1. PICK p \in 0 .. a.size - 1 :
        /\ p = PlaceIn(a, k) /\ w.at[p] = b
        /\ \A t \in 0 .. a.size - 1 : t # p => w.at[t] = a.at[t]
        /\ Used(w) = Used(a) \cup {p}
  BY WithType
<1>2. /\ w.size = a.size /\ w.at[p] = b
      /\ \A t \in 0 .. a.size - 1 : t # p => w.at[t] = a.at[t]
      /\ Used(w) = Used(a) \cup {p} /\ p \in 0 .. a.size - 1
  BY <1>1, WithType
<1>3. a.at[p] = UNUSED \/ a.at[p].key = k
  BY <1>1, PlaceType
<1>4. b.key = k /\ b # UNUSED
  BY DEF ConstantsOK, Binding
<1>5. \A t \in 0 .. a.size - 1 : t # p /\ a.at[t] # UNUSED => a.at[t].key # k
  BY <1>1 DEF Located, Used
<1> HIDE DEF w, b
<1>6. \A c : c \in Bound(w) <=> (c \in Bound(a) /\ c.key # k) \/ c = b
  <2>1. ASSUME NEW c \in Bound(w) PROVE (c \in Bound(a) /\ c.key # k) \/ c = b
    <3>1. PICK t \in 0 .. a.size - 1 : c = w.at[t] /\ c # UNUSED
      BY <1>2 DEF Bound
    <3> QED BY <3>1, <1>2, <1>5 DEF Bound
  <2>2. ASSUME NEW c \in Bound(a), c.key # k PROVE c \in Bound(w)
    <3>1. PICK t \in 0 .. a.size - 1 : c = a.at[t] /\ c # UNUSED
      BY DEF Bound
    <3>2. t # p
      BY <3>1, <2>2, <1>3
    <3> QED BY <3>1, <3>2, <1>2 DEF Bound
  <2>3. b \in Bound(w)
    BY <1>2, <1>4 DEF Bound
  <2> QED BY <2>1, <2>2, <2>3
<1>7. Cardinality(Used(w)) = IF p \in Used(a) THEN Cardinality(Used(a)) ELSE Cardinality(Used(a)) + 1
  BY <1>2, UsedIsFinite, FS_AddElement
<1>8. p \in Used(a) <=> a.at[p] # UNUSED
  BY <1>2 DEF Used
<1>9. Bound(w) = {c \in Bound(a) : c.key # k} \cup {b}
  BY <1>6
<1> QED BY <1>1, <1>7, <1>8, <1>9 DEF w, b

LEMMA BlankIsSound ==
  ASSUME ConstantsOK, NEW s \in Nat \ {0}
  PROVE  /\ Typed(Blank(s)) /\ Blank(s).size = s /\ Used(Blank(s)) = {} /\ Bound(Blank(s)) = {}
         /\ Located(Blank(s)) /\ Cardinality(Used(Blank(s))) = 0
<1>1. /\ Blank(s).size = s /\ Blank(s).at \in [0 .. s - 1 -> Cells]
      /\ \A t \in 0 .. s - 1 : Blank(s).at[t] = UNUSED
  BY DEF Blank, Cells
<1>2. Typed(Blank(s))
  <2>1. Blank(s).at \in Tables
    BY <1>1 DEF Tables
  <2>2. Blank(s) \in Arrays
    BY <2>1 DEF Blank, Arrays
  <2> QED BY <2>2, <1>1 DEF Typed
<1>3. Used(Blank(s)) = {} /\ Bound(Blank(s)) = {}
  BY <1>1 DEF Used, Bound
<1> QED BY <1>1, <1>2, <1>3, FS_EmptySet DEF Located

\* The keys in an array are as many as the slots in use.
LEMMA KeysCounted ==
  ASSUME NEW a, Typed(a), Located(a)
  PROVE  Cardinality({b.key : b \in Bound(a)}) = Cardinality(Used(a))
<1> DEFINE keys == {b.key : b \in Bound(a)}
           f == [t \in Used(a) |-> a.at[t].key]
<1>1. \A t \in Used(a) : a.at[t] \in Bound(a)
  BY DEF Used, Bound
<1>2. f \in [Used(a) -> keys]
  BY <1>1
<1>3. \A t, u \in Used(a) : f[t] = f[u] => t = u
  BY KeysAreUnique
<1>4. \A q \in keys : \E t \in Used(a) : f[t] = q
  <2>1. TAKE q \in keys
  <2>2. PICK b \in Bound(a) : q = b.key
    OBVIOUS
  <2>3. PICK t \in 0 .. a.size - 1 : b = a.at[t] /\ b # UNUSED
    BY DEF Bound
  <2> QED BY <2>2, <2>3 DEF Used
<1>5. f \in Bijection(Used(a), keys)
  <2> HIDE DEF f, keys
  <2> QED BY <1>2, <1>3, <1>4 DEF Bijection, Injection, Surjection, IsInjective
<1>6. ExistsBijection(Used(a), keys)
  BY <1>5 DEF ExistsBijection
<1> QED BY <1>6, UsedIsFinite, FS_Bijection

----------------------------------------------------------------------------
(* What the calls of expand leave to be carried over.                       *)
LEMMA NothingPending ==
  ASSUME rehash = << >>
  PROVE  All = Bound(inner)
BY DEF All, Pending

LEMMA PendingOf ==
  ASSUME NEW call, rehash = <<call>>
  PROVE  /\ All = Bound(inner) \cup Left(call)
         /\ rehash # << >> /\ Len(rehash) = 1 /\ rehash[Len(rehash)] = call
         /\ SubSeq(rehash, 1, Len(rehash) - 1) = << >>
<1>1. Len(rehash) = 1 /\ rehash[1] = call /\ rehash # << >>
  OBVIOUS
<1>2. Pending = Left(call)
  <2>1. \A i \in 1 .. Len(rehash) : i = 1
    BY <1>1
  <2>2. {Left(rehash[i]) : i \in 1 .. Len(rehash)} = {Left(call)}
    BY <1>1, <2>1
  <2> QED BY <2>2 DEF Pending
<1> QED BY <1>1, <1>2 DEF All

LEMMA PendingNext ==
  ASSUME NEW call, rehash' = <<call>>
  PROVE  All' = Bound(inner') \cup Left(call)
<1>1. \A i \in 1 .. Len(rehash') : i = 1 /\ rehash'[i] = call
  OBVIOUS
<1>2. {Left(rehash'[i]) : i \in 1 .. Len(rehash')} = {Left(call)}
  BY <1>1
<1>3. Pending' = Left(call)
  <2>1. Pending' = UNION {Left(rehash'[i]) : i \in 1 .. Len(rehash')}
    BY DEF Pending, Left
  <2> QED BY <2>1, <1>2
<1> QED BY <1>3 DEF All, Bound

\* A round of the loop carries one binding over, or skips a free slot.
LEMMA LeftNext ==
  ASSUME NEW call \in [old : Arrays, next : Nat], Typed(call.old), call.next < call.old.size,
         NEW after, after = [call EXCEPT !.next = call.next + 1]
  PROVE  /\ after \in [old : Arrays, next : Nat] /\ after.old = call.old
         /\ after.next = call.next + 1 /\ call.next + 1 <= call.old.size
         /\ call.old.at[call.next] \in Cells
         /\ Left(call) = Left(after) \cup ({call.old.at[call.next]} \ {UNUSED})
<1>1. call.next \in Nat /\ call.old.size \in Nat
  BY DEF Typed, Arrays
<1>2. /\ after \in [old : Arrays, next : Nat] /\ after.old = call.old
      /\ after.next = call.next + 1 /\ call.next + 1 <= call.old.size
  BY <1>1
<1>3. call.old.at[call.next] \in Cells
  BY <1>1 DEF Typed
<1>4. \A t : t \in call.next .. call.old.size - 1
            <=> t = call.next \/ t \in call.next + 1 .. call.old.size - 1
  BY <1>1
<1>5. Left(call) = Left(after) \cup ({call.old.at[call.next]} \ {UNUSED})
  BY <1>2, <1>4 DEF Left
<1> QED BY <1>2, <1>3, <1>5

\* A state of the map in which a key may be stored.
LEMMA StateIsSound ==
  ASSUME ConstantsOK, IInv
  PROVE  /\ HasRoom(inner) /\ inner.size \in Nat \ {0} /\ elems \in Nat
         /\ \A k \in Key : FindEnds(k) /\ findPosition(k) \in 0 .. inner.size - 1
         /\ \A k : FindEnds(k) = EndsIn(inner, k) /\ findPosition(k) = PlaceIn(inner, k)
         /\ All \subseteq Binding
<1>1. HasRoom(inner) /\ inner.size \in Nat \ {0} /\ elems \in Nat
  BY UsedIsFinite DEF IInv, Typed, Arrays
<1>2. \A k : FindEnds(k) = EndsIn(inner, k) /\ findPosition(k) = PlaceIn(inner, k)
  BY DEF FindEnds, findPosition, EndsIn, PlaceIn, Stops, StopsIn
<1>3. \A k \in Key : FindEnds(k) /\ findPosition(k) \in 0 .. inner.size - 1
  BY <1>1, <1>2, PlaceType DEF IInv
<1>4. Bound(inner) \subseteq Binding
  BY DEF IInv, Typed, Cells, Bound
<1>5. All \subseteq Binding
  <2>1. CASE rehash = << >>
    BY <2>1, <1>4, NothingPending
  <2>2. CASE rehash # << >>
    <3>1. PICK call : rehash = <<call>> /\ Expanding(call)
      BY <2>2 DEF IInv
    <3>2. Left(call) \subseteq Binding
      <4>1. call.next \in Nat /\ call.old.size \in Nat /\ call.old.at \in [0 .. call.old.size - 1 -> Cells]
        BY <3>1 DEF Expanding, Typed, Arrays
      <4>2. \A t \in call.next .. call.old.size - 1 : t \in 0 .. call.old.size - 1
        BY <4>1
      <4> QED BY <4>1, <4>2 DEF Left, Cells
    <3> QED BY <3>1, <3>2, <1>4, PendingOf
  <2> QED BY <2>1, <2>2
<1> QED BY <1>1, <1>2, <1>3, <1>5

----------------------------------------------------------------------------
(* The steps.                                                               *)
LEMMA StoreStep ==
  ASSUME ConstantsOK, IInv, NEW k \in Key, NEW v \in Value, NEW calls, Store(k, v, calls)
  PROVE  \E w, count :
           /\ Typed(w) /\ Located(w) /\ w.size = inner.size /\ count = Cardinality(Used(w))
           /\ Bound(w) = {b \in Bound(inner) : b.key # k} \cup {[key |-> k, value |-> v]}
           /\ count \in Nat /\ count <= elems + 1
           /\ IF 2 * count > inner.size
              THEN /\ inner' = Blank(inner.size * 2) /\ elems' = 0
                   /\ rehash' = Append(calls, [old |-> w, next |-> 0])
              ELSE inner' = w /\ elems' = count /\ rehash' = calls
           /\ visit' = visit /\ status' = status
<1>1. /\ Typed(inner) /\ Located(inner) /\ HasRoom(inner) /\ findPosition(k) = PlaceIn(inner, k)
      /\ elems = Cardinality(Used(inner)) /\ elems \in Nat
  BY StateIsSound DEF IInv
<1>2. PICK w : w = With(inner, k, v)
  OBVIOUS
<1>3. PICK count : count = IF inner.at[findPosition(k)] = UNUSED THEN elems + 1 ELSE elems
  OBVIOUS
<1>4. /\ Typed(w) /\ Located(w) /\ w.size = inner.size /\ count = Cardinality(Used(w))
      /\ Bound(w) = {b \in Bound(inner) : b.key # k} \cup {[key |-> k, value |-> v]}
  <2>1. Typed(w) /\ w.size = inner.size
    <3>1. Typed(inner) /\ HasRoom(inner)
      BY <1>1
    <3>2. Typed(With(inner, k, v)) /\ With(inner, k, v).size = inner.size
      BY <3>1, WithType, ZenonT(40)
    <3> QED BY <3>2, <1>2
  <2>2. Located(w)
    <3>1. Located(With(inner, k, v))
      BY <1>1, WithLocates
    <3> QED BY <3>1, <1>2
  <2>3. /\ Bound(w) = {b \in Bound(inner) : b.key # k} \cup {[key |-> k, value |-> v]}
        /\ Cardinality(Used(w)) = IF inner.at[PlaceIn(inner, k)] = UNUSED
                                  THEN Cardinality(Used(inner)) + 1 ELSE Cardinality(Used(inner))
    BY <1>1, <1>2, WithBinds
  <2>4. count = Cardinality(Used(w))
    BY <2>3, <1>1, <1>3
  <2> QED BY <2>1, <2>2, <2>3, <2>4
<1>5. w = [inner EXCEPT !.at[findPosition(k)] = [key |-> k, value |-> v]]
  BY <1>1, <1>2 DEF With
<1>6. count \in Nat /\ count <= elems + 1
  BY <1>1, <1>3
<1>7. /\ IF 2 * count > inner.size
         THEN /\ inner' = Blank(inner.size * 2) /\ elems' = 0
              /\ rehash' = Append(calls, [old |-> w, next |-> 0])
         ELSE inner' = w /\ elems' = count /\ rehash' = calls
      /\ visit' = visit /\ status' = status
  BY <1>3, <1>5 DEF Store
<1> QED BY <1>4, <1>6, <1>7

LEMMA PutStep ==
  ASSUME ConstantsOK, IInv, NEW k \in Key, NEW v \in Value, Put(k, v)
  PROVE  IInv' /\ All' = {b \in All : b.key # k} \cup {[key |-> k, value |-> v]}
<1>1. /\ Store(k, v, << >>) /\ rehash = << >> /\ status = "running"
      /\ visit # NoVisit => PutInVisit
  BY StateIsSound DEF Put, Idle
<1>2. PICK w, count :
        /\ Typed(w) /\ Located(w) /\ w.size = inner.size /\ count = Cardinality(Used(w))
        /\ Bound(w) = {b \in Bound(inner) : b.key # k} \cup {[key |-> k, value |-> v]}
        /\ count \in Nat /\ count <= elems + 1
        /\ IF 2 * count > inner.size
           THEN /\ inner' = Blank(inner.size * 2) /\ elems' = 0
                /\ rehash' = Append(<< >>, [old |-> w, next |-> 0])
           ELSE inner' = w /\ elems' = count /\ rehash' = << >>
        /\ visit' = visit /\ status' = status
  BY <1>1, StoreStep
<1>3. All = Bound(inner) /\ inner.size \in Nat \ {0}
  BY <1>1, NothingPending, StateIsSound
<1>4. /\ Typed(inner)' /\ Located(inner)' /\ elems' = Cardinality(Used(inner')) /\ inner'.size >= inner.size
      /\ 2 * elems' <= inner'.size
      /\ All' = Bound(w)
      /\ rehash' = << >> \/ \E call : rehash' = <<call>> /\ Expanding(call)'
  <2>1. CASE 2 * count > inner.size
    <3>1. PICK call : call = [old |-> w, next |-> 0]
      OBVIOUS
    <3>2. inner' = Blank(inner.size * 2) /\ elems' = 0 /\ rehash' = <<call>>
      BY <2>1, <3>1, <1>2
    <3>3. inner.size * 2 \in Nat \ {0}
      BY <1>3
    <3>4. /\ Typed(inner)' /\ Located(inner)' /\ elems' = Cardinality(Used(inner'))
          /\ inner'.size = inner.size * 2 /\ Bound(inner)' = {}
      BY <3>2, <3>3, BlankIsSound
    <3>5. call.old = w /\ call.next = 0
      BY <3>1
    <3>6. Left(call) = Bound(w)
      BY <3>5 DEF Left, Bound
    <3>7. All' = Bound(inner') \cup Left(call)
      BY <3>2, PendingNext
    <3>8. All' = Bound(w)
      BY <3>4, <3>6, <3>7
    <3>9. Expanding(call)'
      <4>1. call \in [old : Arrays, next : Nat] /\ Typed(w) /\ w.size \in Nat
        BY <3>1, <1>2 DEF Typed, Arrays
      <4> QED BY <4>1, <3>2, <3>4, <3>5, <1>2, <1>3 DEF Expanding
    <3> QED BY <3>2, <3>4, <3>8, <3>9, <1>3
  <2>2. CASE ~ (2 * count > inner.size)
    <3>1. inner' = w /\ elems' = count /\ rehash' = << >>
      BY <2>2, <1>2
    <3>2. All' = Bound(w)
      BY <3>1 DEF All, Pending
    <3> QED BY <2>2, <3>1, <3>2, <1>2, <1>3
  <2> QED BY <2>1, <2>2
<1>5. All' = {b \in All : b.key # k} \cup {[key |-> k, value |-> v]}
  BY <1>2, <1>3, <1>4
<1>6. (\A b, c \in All : b.key = c.key => b = c)'
  BY <1>5 DEF IInv
<1>7. /\ visit' \in [count : Nat, idx : Nat, seen : SUBSET Key] /\ visit'.idx <= inner'.size
      /\ status' \in {"running", "outOfBounds"} /\ (~ PutInVisit => status' = "running")
  <2>1. inner'.size \in Nat /\ inner'.size >= inner.size
    BY <1>4 DEF Typed, Arrays
  <2>2. /\ visit \in [count : Nat, idx : Nat, seen : SUBSET Key] /\ visit.idx <= inner.size
        /\ visit.idx \in Nat
        /\ ~ PutInVisit => status = "running"
    BY DEF IInv
  <2>3. visit' = visit /\ status' = "running"
    BY <1>1, <1>2
  <2> QED BY <2>1, <2>2, <2>3, <1>3
<1>8. visit' = NoVisit \/ PutInVisit
  BY <1>1, <1>2
<1>9. IInv'
  <2>1. (visit # NoVisit /\ ~ PutInVisit => Visiting)'
    BY <1>8
  <2> QED BY <2>1, <1>4, <1>6, <1>7 DEF IInv
<1> QED BY <1>5, <1>9

LEMMA RoundStep ==
  ASSUME ConstantsOK, IInv, ExpandRound
  PROVE  IInv' /\ All' = All
<1>1. PICK call : rehash = <<call>> /\ Expanding(call)
  BY DEF IInv, ExpandRound
<1>2. /\ call \in [old : Arrays, next : Nat] /\ Typed(call.old)
      /\ call.next <= call.old.size /\ elems <= call.next /\ inner.size = 2 * call.old.size
      /\ call.next \in Nat /\ call.old.size \in Nat /\ elems \in Nat
  BY <1>1, StateIsSound DEF Expanding, Typed, Arrays
<1>3. PICK after : after = [call EXCEPT !.next = call.next + 1]
  OBVIOUS
<1>4. /\ status = "running" /\ rehash # << >>
      /\ IF call.next = call.old.size
         THEN rehash' = << >> /\ UNCHANGED <<inner, elems, visit, status>>
         ELSE LET a == call.old.at[call.next]
              IN  IF a = UNUSED
                  THEN rehash' = <<after>> /\ UNCHANGED <<inner, elems, visit, status>>
                  ELSE IF FindEnds(a.key) THEN Store(a.key, a.value, <<after>>)
                                          ELSE Hang
  <2>1. Append(<< >>, after) = <<after>>
    OBVIOUS
  <2>2. /\ rehash # << >> /\ rehash[Len(rehash)] = call
        /\ SubSeq(rehash, 1, Len(rehash) - 1) = << >>
    BY <1>1, PendingOf
  <2> QED BY <2>1, <2>2, <1>3 DEF ExpandRound
<1>5. /\ Typed(inner) /\ Located(inner) /\ elems = Cardinality(Used(inner))
      /\ 2 * elems <= inner.size /\ All = Bound(inner) \cup Left(call)
      /\ \A b, c \in All : b.key = c.key => b = c
      /\ visit \in [count : Nat, idx : Nat, seen : SUBSET Key] /\ visit.idx <= inner.size
      /\ visit # NoVisit => PutInVisit
  BY <1>1, <1>4, PendingOf DEF IInv, Visiting
<1>6. CASE call.next = call.old.size
  <2>1. rehash' = << >> /\ UNCHANGED <<inner, elems, visit, status>>
    BY <1>4, <1>6
  <2>2. Left(call) = {}
    BY <1>2, <1>6 DEF Left
  <2>3. All' = All
    BY <2>1, <2>2, <1>5 DEF All, Pending
  <2>4. (\A b, c \in All : b.key = c.key => b = c)'
    BY <2>3, <1>5
  <2>5. (visit # NoVisit /\ ~ PutInVisit => Visiting)'
    BY <2>1, <1>5
  <2> QED BY <2>1, <2>3, <2>4, <2>5, <1>4, <1>5 DEF IInv
<1>7. CASE call.next # call.old.size /\ call.old.at[call.next] = UNUSED
  <2>1. rehash' = <<after>> /\ UNCHANGED <<inner, elems, visit, status>>
    BY <1>4, <1>7
  <2>2. /\ after \in [old : Arrays, next : Nat] /\ after.old = call.old
        /\ after.next = call.next + 1 /\ after.next <= call.old.size /\ Left(call) = Left(after)
    <3>1. call.next < call.old.size
      BY <1>2, <1>7
    <3>2. /\ after \in [old : Arrays, next : Nat] /\ after.old = call.old
          /\ after.next = call.next + 1 /\ call.next + 1 <= call.old.size
          /\ Left(call) = Left(after) \cup ({call.old.at[call.next]} \ {UNUSED})
      BY <3>1, <1>2, <1>3, LeftNext
    <3> QED BY <3>2, <1>7
  <2>3. Expanding(after)'
    BY <2>1, <2>2, <1>2 DEF Expanding
  <2>4. All' = All
    BY <2>1, <2>2, <1>5, PendingNext
  <2>5. (\A b, c \in All : b.key = c.key => b = c)'
    BY <2>4, <1>5
  <2>6. (visit # NoVisit /\ ~ PutInVisit => Visiting)'
    BY <2>1, <1>5
  <2>7. rehash' = << >> \/ \E c : rehash' = <<c>> /\ Expanding(c)'
    BY <2>1, <2>3
  <2> QED BY <2>1, <2>4, <2>5, <2>6, <2>7, <1>4, <1>5 DEF IInv
<1>8. CASE call.next # call.old.size /\ call.old.at[call.next] # UNUSED
  <2>1. PICK a : a = call.old.at[call.next]
    OBVIOUS
  <2>2. /\ after \in [old : Arrays, next : Nat] /\ after.old = call.old
        /\ after.next = call.next + 1 /\ after.next <= call.old.size
        /\ a \in Binding /\ Left(call) = Left(after) \cup {a}
    <3>1. call.next < call.old.size
      BY <1>2, <1>8
    <3>2. /\ after \in [old : Arrays, next : Nat] /\ after.old = call.old
          /\ after.next = call.next + 1 /\ call.next + 1 <= call.old.size
          /\ a \in Cells /\ Left(call) = Left(after) \cup ({a} \ {UNUSED})
      BY <3>1, <2>1, <1>2, <1>3, LeftNext
    <3>3. a # UNUSED
      BY <2>1, <1>8
    <3> QED BY <3>2, <3>3 DEF Cells
  <2>3. a.key \in Key /\ a.value \in Value /\ a = [key |-> a.key, value |-> a.value]
    BY <2>2 DEF Binding
  <2>4. Store(a.key, a.value, <<after>>)
    BY <2>1, <2>3, <1>4, <1>8, StateIsSound
  <2>5. PICK w, count :
          /\ Typed(w) /\ Located(w) /\ w.size = inner.size /\ count = Cardinality(Used(w))
          /\ Bound(w) = {b \in Bound(inner) : b.key # a.key} \cup {a}
          /\ count \in Nat /\ count <= elems + 1
          /\ 2 * count > inner.size \/ (inner' = w /\ elems' = count /\ rehash' = <<after>>)
          /\ visit' = visit /\ status' = status
    <3>1. PICK w, count :
            /\ Typed(w) /\ Located(w) /\ w.size = inner.size /\ count = Cardinality(Used(w))
            /\ Bound(w) = {b \in Bound(inner) : b.key # a.key}
                          \cup {[key |-> a.key, value |-> a.value]}
            /\ count \in Nat /\ count <= elems + 1
            /\ IF 2 * count > inner.size
               THEN /\ inner' = Blank(inner.size * 2) /\ elems' = 0
                    /\ rehash' = Append(<<after>>, [old |-> w, next |-> 0])
               ELSE inner' = w /\ elems' = count /\ rehash' = <<after>>
            /\ visit' = visit /\ status' = status
      BY <2>3, <2>4, StoreStep
    <3> QED BY <3>1, <2>3
  <2>6. /\ inner' = w /\ elems' = count /\ rehash' = <<after>>
        /\ count <= after.next /\ 2 * count <= inner.size
    <3>1. count <= after.next /\ 2 * count <= inner.size
      BY <2>2, <2>5, <1>2
    <3> QED BY <3>1, <2>5, <1>2
  <2>7. Bound(w) = Bound(inner) \cup {a}
    BY <2>2, <2>5, <1>5
  <2>8. All' = All
    BY <2>2, <2>6, <2>7, <1>5, PendingNext
  <2>9. (\A b, c \in All : b.key = c.key => b = c)'
    BY <2>8, <1>5
  <2>10. Expanding(after)'
    BY <2>2, <2>5, <2>6, <1>2 DEF Expanding
  <2>11. (visit # NoVisit /\ ~ PutInVisit => Visiting)'
    BY <2>5, <1>5
  <2>12. rehash' = << >> \/ \E c : rehash' = <<c>> /\ Expanding(c)'
    BY <2>6, <2>10
  <2>13. /\ (Typed(inner) /\ Located(inner) /\ elems = Cardinality(Used(inner)))'
         /\ (2 * elems <= inner.size /\ visit.idx <= inner.size)'
    BY <2>5, <2>6, <1>5
  <2> QED BY <2>5, <2>8, <2>9, <2>11, <2>12, <2>13, <1>4, <1>5 DEF IInv
<1> QED BY <1>6, <1>7, <1>8

LEMMA VisitStartsStep ==
  ASSUME ConstantsOK, IInv, VisitStarts
  PROVE  IInv' /\ All' = All
<1>1. /\ rehash = << >> /\ status = "running" /\ visit' = [count |-> 1, idx |-> 0, seen |-> {}]
      /\ UNCHANGED <<inner, elems, rehash, status>>
  BY DEF VisitStarts, Idle
<1>2. All' = All
  BY <1>1 DEF All, Pending, Bound, Left
<1>3. Passed' = {}
  BY <1>1 DEF Passed, Used
<1>4. Visiting'
  <2>1. visit'.count = 1 + 0 /\ visit'.seen = {}
    BY <1>1
  <2> QED BY <2>1, <1>1, <1>3, FS_EmptySet DEF Visiting
<1>5. visit' \in [count : Nat, idx : Nat, seen : SUBSET Key] /\ visit'.idx <= inner'.size
  BY <1>1 DEF IInv, Typed, Arrays
<1>6. rehash' = << >> /\ status' = "running"
  BY <1>1
<1>7. /\ (Typed(inner) /\ Located(inner) /\ elems = Cardinality(Used(inner)))'
      /\ (2 * elems <= inner.size)' /\ (\A b, c \in All : b.key = c.key => b = c)'
  BY <1>1, <1>2 DEF IInv
<1> QED BY <1>2, <1>4, <1>5, <1>6, <1>7 DEF IInv

LEMMA VisitEndsStep ==
  ASSUME ConstantsOK, IInv, VisitEnds
  PROVE  /\ IInv' /\ All' = All
         /\ ~ PutInVisit => visit.seen = {b.key : b \in Bound(inner)}
<1>1. /\ rehash = << >> /\ status = "running" /\ visit # NoVisit /\ visit.count > elems
      /\ visit' = NoVisit /\ UNCHANGED <<inner, elems, rehash, status>>
  BY DEF VisitEnds, Idle
<1>2. All' = All
  BY <1>1 DEF All, Pending, Bound, Left
<1>3. visit' \in [count : Nat, idx : Nat, seen : SUBSET Key] /\ visit'.idx <= inner'.size
  BY <1>1 DEF IInv, Typed, Arrays, NoVisit
<1>4. /\ (Typed(inner) /\ Located(inner) /\ elems = Cardinality(Used(inner)))'
      /\ (2 * elems <= inner.size)' /\ (\A b, c \in All : b.key = c.key => b = c)'
  BY <1>1, <1>2 DEF IInv
<1>5. IInv'
  <2>1. rehash' = << >> /\ status' = "running" /\ visit' = NoVisit
    BY <1>1
  <2> QED BY <2>1, <1>3, <1>4 DEF IInv
<1>6. ASSUME ~ PutInVisit PROVE visit.seen = {b.key : b \in Bound(inner)}
  <2>1. /\ visit.seen = {inner.at[t].key : t \in Passed}
        /\ visit.count = 1 + Cardinality(Passed) /\ Typed(inner)
        /\ elems = Cardinality(Used(inner)) /\ visit.count \in Nat
    BY <1>1, <1>6 DEF IInv, Visiting
  <2>2. /\ Passed \subseteq Used(inner) /\ IsFiniteSet(Used(inner)) /\ IsFiniteSet(Passed)
        /\ Cardinality(Passed) \in Nat /\ Cardinality(Used(inner)) \in Nat
        /\ Cardinality(Passed) <= Cardinality(Used(inner))
        /\ Cardinality(Used(inner)) = Cardinality(Passed) => Used(inner) = Passed
    <3>1. Passed \subseteq Used(inner)
      BY DEF Passed
    <3> QED BY <3>1, <2>1, UsedIsFinite, FS_Subset, FS_CardinalityType
  <2>3. Passed = Used(inner)
    BY <2>1, <2>2, <1>1
  <2>4. {inner.at[t].key : t \in Used(inner)} = {b.key : b \in Bound(inner)}
    BY DEF Used, Bound
  <2> QED BY <2>1, <2>3, <2>4
<1> QED BY <1>2, <1>5, <1>6

LEMMA VisitNextStep ==
  ASSUME ConstantsOK, IInv, VisitNext
  PROVE  /\ IInv' /\ All' = All
         /\ ~ PutInVisit => status' = "running" /\ visit'.seen # visit.seen
<1> DEFINE ahead == {t \in visit.idx .. inner.size - 1 : inner.at[t] # UNUSED}
<1>1. /\ rehash = << >> /\ status = "running" /\ visit # NoVisit /\ visit.count <= elems
      /\ UNCHANGED <<inner, elems, rehash>>
  BY DEF VisitNext, Idle
<1>2. /\ visit \in [count : Nat, idx : Nat, seen : SUBSET Key] /\ Typed(inner) /\ Located(inner)
      /\ visit.idx \in Nat /\ visit.idx <= inner.size /\ inner.size \in Nat
      /\ elems = Cardinality(Used(inner)) /\ elems \in Nat /\ visit.count \in Nat
  BY StateIsSound DEF IInv, Typed, Arrays
<1>3. All' = All
  BY <1>1 DEF All, Pending, Bound, Left
<1>4. /\ (Typed(inner) /\ Located(inner) /\ elems = Cardinality(Used(inner)))' /\ rehash' = << >>
      /\ (2 * elems <= inner.size)' /\ (\A b, c \in All : b.key = c.key => b = c)'
  BY <1>1, <1>3 DEF IInv
<1>5. \A t : t \in ahead <=> t \in Used(inner) /\ t \notin Passed
  BY <1>2 DEF Used, Passed
<1>6. CASE ahead = {}
  <2>1. status' = "outOfBounds" /\ visit' = visit
    BY <1>6 DEF VisitNext
  <2>2. PutInVisit
    <3>1. SUFFICES ASSUME ~ PutInVisit PROVE FALSE
      BY DEF ConstantsOK
    <3>2. visit.count = 1 + Cardinality(Passed)
      BY <3>1, <1>1 DEF IInv, Visiting
    <3>3. Passed = Used(inner)
      BY <1>5, <1>6 DEF Passed
    <3> QED BY <3>2, <3>3, <1>1, <1>2
  <2> QED BY <2>1, <2>2, <1>1, <1>2, <1>3, <1>4 DEF IInv
<1>7. CASE ahead # {}
  <2>1. ahead \subseteq Nat
    BY <1>2
  <2>2. PICK t \in ahead : (\A u \in ahead : t <= u) /\ t = CHOOSE x \in ahead : \A u \in ahead : x <= u
    BY <2>1, <1>7, Least
  <2>3. /\ visit' = [count |-> visit.count + 1, idx |-> t + 1,
                     seen |-> visit.seen \cup {inner.at[t].key}]
        /\ status' = status
    BY <2>2, <1>7 DEF VisitNext
  <2>4. /\ t \in Used(inner) /\ t \notin Passed /\ t \in 0 .. inner.size - 1 /\ t \in Nat
        /\ inner.at[t].key \in Key
    BY <2>1, <1>2, <1>5 DEF Used, Typed, Cells, Binding
  <2>5. visit' \in [count : Nat, idx : Nat, seen : SUBSET Key] /\ visit'.idx <= inner'.size
    BY <2>3, <2>4, <1>1, <1>2
  <2>6. Passed' = Passed \cup {t}
    <3>1. \A u \in Used(inner) : u < t + 1 <=> u < visit.idx \/ u = t
      <4>1. TAKE u \in Used(inner)
      <4>2. u \in Nat /\ visit.idx <= t
        BY <2>4, <1>2 DEF Used
      <4>3. u \notin Passed => t <= u
        BY <2>2, <1>5
      <4> QED BY <4>2, <4>3, <2>4, <1>2 DEF Passed
    <3>2. Passed' = {u \in Used(inner) : u < t + 1}
      BY <2>3, <1>1 DEF Passed, Used
    <3> QED BY <3>1, <3>2, <2>4 DEF Passed
  <2>7. ASSUME ~ PutInVisit PROVE Visiting' /\ visit'.seen # visit.seen
    <3>1. /\ visit.seen = {inner.at[u].key : u \in Passed}
          /\ visit.count = 1 + Cardinality(Passed)
      BY <2>7, <1>1 DEF IInv, Visiting
    <3>2. IsFiniteSet(Passed) /\ Cardinality(Passed) \in Nat /\ Passed \subseteq Used(inner)
      <4>1. Passed \subseteq Used(inner)
        BY DEF Passed
      <4> QED BY <4>1, <1>2, UsedIsFinite, FS_Subset, FS_CardinalityType
    <3>3. Cardinality(Passed') = Cardinality(Passed) + 1
      BY <3>2, <2>4, <2>6, FS_AddElement
    <3>4. visit'.count = 1 + Cardinality(Passed')
      BY <3>1, <3>2, <3>3, <2>3
    <3>5. visit'.seen = {inner'.at[u].key : u \in Passed'}
      BY <3>1, <2>3, <2>6, <1>1
    <3>6. inner.at[t].key \notin visit.seen
      <4>1. \A u \in Used(inner) : inner.at[t].key = inner.at[u].key => t = u
        BY <2>4, <1>2, KeysAreUnique
      <4>2. \A u \in Passed : inner.at[t].key # inner.at[u].key
        BY <4>1, <3>2, <2>4
      <4> QED BY <4>2, <3>1
    <3> QED BY <3>4, <3>5, <3>6, <2>3, <1>1 DEF Visiting
  <2>8. status' = "running"
    BY <2>3, <1>1
  <2> QED BY <2>5, <2>7, <2>8, <1>3, <1>4 DEF IInv
<1> QED BY <1>6, <1>7

\* Get and Contains change nothing but the answer, which is what the map says.
LEMMA BoundAt ==
  ASSUME ConstantsOK, IInv, rehash = << >>, NEW k \in Key
  PROVE  /\ inner.at[findPosition(k)] = UNUSED => \A b \in All : b.key # k
         /\ inner.at[findPosition(k)] # UNUSED
            => inner.at[findPosition(k)] \in All /\ inner.at[findPosition(k)].key = k
<1>1. PICK p : p = findPosition(k)
  OBVIOUS
<1>2. /\ p = PlaceIn(inner, k) /\ Typed(inner) /\ Located(inner) /\ HasRoom(inner)
      /\ All = Bound(inner) /\ p \in 0 .. inner.size - 1
  BY <1>1, StateIsSound, NothingPending DEF IInv
<1>3. inner.at[p] = UNUSED \/ inner.at[p].key = k
  BY <1>2, PlaceType
<1>4. inner.at[p] = UNUSED => \A t \in Used(inner) : inner.at[t].key # k
  BY <1>2, KeysAreUnique
<1>5. inner.at[p] = UNUSED => \A b \in All : b.key # k
  BY <1>2, <1>4 DEF Bound, Used
<1>6. inner.at[p] # UNUSED => inner.at[p] \in All
  BY <1>2 DEF Bound
<1> QED BY <1>1, <1>3, <1>5, <1>6

LEMMA Unchanged ==
  ASSUME ConstantsOK, IInv, UNCHANGED <<inner, elems, rehash, visit, status>>
  PROVE  IInv' /\ All' = All
<1>1. All' = All
  BY DEF All, Pending, Bound, Left
<1>2. \A c : Expanding(c)' <=> Expanding(c)
  BY DEF Expanding
<1>3. Visiting' <=> Visiting
  BY DEF Visiting, Passed, Used
<1>4. /\ (Typed(inner) /\ Located(inner) /\ elems = Cardinality(Used(inner)))'
      /\ (2 * elems <= inner.size)' /\ (\A b, c \in All : b.key = c.key => b = c)'
  BY <1>1 DEF IInv
<1>5. (rehash = << >> \/ \E call : rehash = <<call>> /\ Expanding(call))'
  BY <1>2 DEF IInv
<1> QED BY <1>1, <1>3, <1>4, <1>5 DEF IInv

LEMMA AskStep ==
  ASSUME ConstantsOK, IInv, NEW k \in Key, Get(k) \/ Contains(k)
  PROVE  UNCHANGED <<inner, elems, rehash, visit, status>>
BY StateIsSound DEF Get, Contains

LEMMA InitInv ==
  ASSUME ConstantsOK, Init
  PROVE  IInv /\ All = {}
<1>1. Capacity \in Nat \ {0}
  BY DEF ConstantsOK
<1>2. /\ inner = Blank(Capacity) /\ elems = 0 /\ rehash = << >> /\ visit = NoVisit
      /\ status = "running"
  BY DEF Init
<1>3. /\ Typed(inner) /\ Located(inner) /\ elems = Cardinality(Used(inner))
      /\ 2 * elems <= inner.size /\ Bound(inner) = {}
  BY <1>1, <1>2, BlankIsSound
<1>4. All = {}
  BY <1>2, <1>3, NothingPending
<1>5. visit \in [count : Nat, idx : Nat, seen : SUBSET Key] /\ visit.idx <= inner.size
  BY <1>2, <1>3 DEF NoVisit, Typed, Arrays
<1> QED BY <1>2, <1>3, <1>4, <1>5 DEF IInv

LEMMA NextInv ==
  ASSUME ConstantsOK, IInv, [Next]_vars
  PROVE  IInv'
<1>1. CASE UNCHANGED vars
  BY <1>1, Unchanged DEF vars
<1>2. ASSUME NEW k \in Key, NEW v \in Value, Put(k, v) PROVE IInv'
  BY <1>2, PutStep
<1>3. ASSUME NEW k \in Key, Get(k) \/ Contains(k) PROVE IInv'
  BY <1>3, AskStep, Unchanged
<1>4. CASE ExpandRound
  BY <1>4, RoundStep
<1>5. CASE VisitStarts
  BY <1>5, VisitStartsStep
<1>6. CASE VisitNext
  BY <1>6, VisitNextStep
<1>7. CASE VisitEnds
  BY <1>7, VisitEndsStep
<1> QED BY <1>1, <1>2, <1>3, <1>4, <1>5, <1>6, <1>7 DEF Next

----------------------------------------------------------------------------
(* The map.                                                                 *)
MapOf(K, S) ==
  [k \in K |-> IF \E b \in S : b.key = k
                 THEN (CHOOSE b \in S : b.key = k).value ELSE ABSENT]

LEMMA MapOfIs ==
  ASSUME NEW K, NEW S \in SUBSET [key : K, value : Value], \A b, c \in S : b.key = c.key => b = c
  PROVE  /\ \A b \in S : b.key \in K /\ b.value \in Value /\ MapOf(K, S)[b.key] = b.value
         /\ \A k \in K : (\A b \in S : b.key # k) => MapOf(K, S)[k] = ABSENT
<1>1. \A b \in S : b.key \in K /\ b.value \in Value
  OBVIOUS
<1>2. ASSUME NEW b \in S PROVE MapOf(K, S)[b.key] = b.value
  <2>1. \A c \in S : c.key = b.key => c = b
    OBVIOUS
  <2>2. (CHOOSE c \in S : c.key = b.key) = b
    BY <2>1
  <2> QED BY <2>2, <1>1 DEF MapOf
<1>3. \A k \in K : (\A b \in S : b.key # k) => MapOf(K, S)[k] = ABSENT
  BY DEF MapOf
<1> QED BY <1>1, <1>2, <1>3

LEMMA MapOfPut ==
  ASSUME NEW K, NEW S \in SUBSET [key : K, value : Value], \A b, c \in S : b.key = c.key => b = c,
         NEW k \in K, NEW v \in Value,
         NEW T, T = {b \in S : b.key # k} \cup {[key |-> k, value |-> v]}
  PROVE  MapOf(K, T) = [MapOf(K, S) EXCEPT ![k] = v]
<1>1. PICK new \in [key : K, value : Value] : new = [key |-> k, value |-> v] /\ new.key = k /\ new.value = v
  <2>1. [key |-> k, value |-> v] \in [key : K, value : Value]
    OBVIOUS
  <2> QED BY <2>1
<1>2. T \in SUBSET [key : K, value : Value] /\ \A b, c \in T : b.key = c.key => b = c
  BY <1>1
<1>3. MapOf(K, T)[k] = v
  BY <1>1, <1>2, MapOfIs
<1>4. ASSUME NEW q \in K, q # k PROVE MapOf(K, T)[q] = MapOf(K, S)[q]
  <2>1. CASE \E b \in S : b.key = q
    <3>1. PICK b \in S : b.key = q
      BY <2>1
    <3>2. b \in T
      BY <3>1, <1>4
    <3> QED BY <3>1, <3>2, <1>2, MapOfIs
  <2>2. CASE \A b \in S : b.key # q
    <3>1. \A b \in T : b.key # q
      BY <2>2, <1>1, <1>4
    <3> QED BY <3>1, <2>2, <1>2, MapOfIs
  <2> QED BY <2>1, <2>2
<1>5. DOMAIN MapOf(K, T) = K /\ DOMAIN MapOf(K, S) = K
  BY DEF MapOf
<1>6. MapOf(K, T) = [q \in K |-> MapOf(K, T)[q]] /\ MapOf(K, S) = [q \in K |-> MapOf(K, S)[q]]
  BY DEF MapOf
<1> HIDE DEF MapOf
<1> QED BY <1>3, <1>4, <1>5, <1>6

LEMMA MapStep ==
  ASSUME ConstantsOK, IInv, [Next]_vars
  PROVE  [Map!Next]_<<mapped, answer>>
<1>1. /\ All \in SUBSET [key : Key, value : Value] /\ \A b, c \in All : b.key = c.key => b = c
      /\ mapped = MapOf(Key, All) /\ mapped' = MapOf(Key, All')
  <2>1. mapped = MapOf(Key, All) /\ mapped' = MapOf(Key, All')
    BY DEF mapped, MapOf
  <2> QED BY <2>1, StateIsSound DEF IInv, Binding
<1>2. ASSUME NEW k \in Key, NEW v \in Value, Put(k, v) PROVE Map!Next
  <2>1. All' = {b \in All : b.key # k} \cup {[key |-> k, value |-> v]}
    BY <1>2, PutStep
  <2>2. mapped' = [mapped EXCEPT ![k] = v]
    BY <2>1, <1>1, MapOfPut
  <2>3. answer' = <<"put", k, v>>
    BY <1>2, StateIsSound DEF Put
  <2>4. Map!Put(k, v)
    BY <2>2, <2>3 DEF Map!Put
  <2> QED BY <2>4 DEF Map!Next
<1>3. ASSUME NEW k \in Key, Get(k) PROVE Map!Next
  <2>1. mapped' = mapped
    BY <1>1, <1>3, AskStep, Unchanged
  <2>2. PICK c : c = inner.at[findPosition(k)]
    OBVIOUS
  <2>3. rehash = << >> /\ answer' = <<"get", k, IF c = UNUSED THEN ABSENT ELSE c.value>>
    BY <2>2, <1>3, StateIsSound DEF Get, Idle
  <2>4. mapped[k] = IF c = UNUSED THEN ABSENT ELSE c.value
    <3>1. /\ c = UNUSED => \A b \in All : b.key # k
          /\ c # UNUSED => c \in All /\ c.key = k
      BY <2>2, <2>3, BoundAt
    <3> QED BY <3>1, <1>1, MapOfIs
  <2>5. Map!Get(k)
    BY <2>1, <2>3, <2>4 DEF Map!Get
  <2> QED BY <2>5 DEF Map!Next
<1>4. ASSUME NEW k \in Key, Contains(k) PROVE Map!Next
  <2>1. mapped' = mapped
    BY <1>1, <1>4, AskStep, Unchanged
  <2>2. PICK c : c = inner.at[findPosition(k)]
    OBVIOUS
  <2>3. rehash = << >> /\ answer' = <<"contains", k, c # UNUSED>>
    BY <2>2, <1>4, StateIsSound DEF Contains, Idle
  <2>4. (c # UNUSED) = (mapped[k] # ABSENT)
    <3>1. /\ c = UNUSED => \A b \in All : b.key # k
          /\ c # UNUSED => c \in All /\ c.key = k
      BY <2>2, <2>3, BoundAt
    <3>2. c = UNUSED => mapped[k] = ABSENT
      BY <3>1, <1>1, MapOfIs
    <3>3. c # UNUSED => mapped[k] \in Value
      BY <3>1, <1>1, MapOfIs
    <3> QED BY <3>2, <3>3 DEF ConstantsOK
  <2>5. Map!Contains(k)
    BY <2>1, <2>3, <2>4 DEF Map!Contains
  <2> QED BY <2>5 DEF Map!Next
<1>5. ASSUME ExpandRound \/ VisitStarts \/ VisitNext \/ VisitEnds \/ UNCHANGED vars
      PROVE  UNCHANGED <<mapped, answer>>
  <2>1. answer' = answer
    BY <1>5 DEF ExpandRound, VisitStarts, VisitNext, VisitEnds, vars
  <2>2. All' = All
    BY <1>5, RoundStep, VisitStartsStep, VisitNextStep, VisitEndsStep, Unchanged DEF vars
  <2> QED BY <2>1, <2>2, <1>1
<1> QED BY <1>2, <1>3, <1>4, <1>5 DEF Next

LEMMA InvImplies ==
  ASSUME ConstantsOK, IInv
  PROVE  TypeOK /\ SearchesEnd /\ SizeIsExact /\ Findable
<1>1. /\ Typed(inner) /\ Located(inner) /\ elems = Cardinality(Used(inner)) /\ elems \in Nat
      /\ 2 * elems <= inner.size /\ inner.size \in Nat \ {0}
  BY StateIsSound DEF IInv
<1>2. \A i \in 1 .. Len(rehash) :
         /\ rehash[i].old.at \in [0 .. rehash[i].old.size - 1 -> Binding \cup {UNUSED}]
         /\ rehash[i].next \in 0 .. rehash[i].old.size
  <2>1. CASE rehash = << >>
    BY <2>1
  <2>2. CASE rehash # << >>
    <3>1. PICK call : rehash = <<call>> /\ Expanding(call)
      BY <2>2 DEF IInv
    <3>2. \A i \in 1 .. Len(rehash) : rehash[i] = call
      BY <3>1
    <3>3. /\ call.old.at \in [0 .. call.old.size - 1 -> Binding \cup {UNUSED}]
          /\ call.next \in 0 .. call.old.size
      BY <3>1 DEF Expanding, Typed, Arrays, Cells
    <3> QED BY <3>2, <3>3
  <2> QED BY <2>1, <2>2
<1>3. TypeOK
  <2>1. inner.at \in [0 .. inner.size - 1 -> Binding \cup {UNUSED}]
    BY <1>1 DEF Typed, Cells
  <2>2. /\ visit.count \in Nat /\ visit.idx \in 0 .. inner.size /\ visit.seen \subseteq Key
        /\ status \in {"running", "looping", "outOfBounds"}
    BY <1>1 DEF IInv
  <2> QED BY <2>1, <2>2, <1>1, <1>2 DEF TypeOK
<1>4. SizeIsExact
  <2>1. elems = Cardinality({b.key : b \in Bound(inner)})
    BY <1>1, KeysCounted
  <2>2. Len(rehash) <= 1
    <3>1. CASE rehash = << >>
      <4>1. Len(rehash) = 0
        BY <3>1
      <4> QED BY <4>1
    <3>2. CASE rehash # << >>
      <4>1. PICK call : rehash = <<call>>
        BY <3>2 DEF IInv
      <4>2. Len(rehash) = 1
        BY <4>1
      <4> QED BY <4>2
    <3> QED BY <3>1, <3>2
  <2> QED BY <2>1, <2>2, <1>1 DEF SizeIsExact, Used
<1>5. Findable
  <2>1. \A t \in 0 .. inner.size - 1 : inner.at[t] # UNUSED
          => EndsIn(inner, inner.at[t].key) /\ PlaceIn(inner, inner.at[t].key) = t
    BY <1>1 DEF Located, Used
  <2> QED BY <2>1, StateIsSound DEF Findable
<1>6. SearchesEnd
  BY DEF IInv, SearchesEnd
<1> QED BY <1>3, <1>4, <1>5, <1>6

----------------------------------------------------------------------------
(* The invariant holds for every set of keys and values, every hash and     *)
(* every size of the first array.                                           *)
THEOREM Invariance ==
  ASSUME ConstantsOK
  PROVE  Spec => []IInv
<1>1. Init => IInv
  BY InitInv
<1>2. IInv /\ [Next]_vars => IInv'
  BY NextInv
<1> QED BY <1>1, <1>2, PTL DEF Spec

(* The array, and the one that expand copies from, have a binding or the    *)
(* mark in each of their slots, and no index leaves them.                   *)
THEOREM TypeCorrect ==
  ASSUME ConstantsOK
  PROVE  Spec => []TypeOK
<1>1. IInv => TypeOK
  BY InvImplies
<1> QED BY <1>1, Invariance, PTL

(* findPosition always returns: five jumps and a walk inspect every slot,   *)
(* and half of the array is free, also while expand fills it.               *)
THEOREM SearchesAlwaysEnd ==
  ASSUME ConstantsOK
  PROVE  Spec => []SearchesEnd
<1>1. IInv => SearchesEnd
  BY InvImplies
<1> QED BY <1>1, Invariance, PTL

(* size is the number of the keys, each of which is in the array once, and  *)
(* an expansion never needs another.                                        *)
THEOREM SizeCounts ==
  ASSUME ConstantsOK
  PROVE  Spec => []SizeIsExact
<1>1. IInv => SizeIsExact
  BY InvImplies
<1> QED BY <1>1, Invariance, PTL

(* findPosition finds every key that is in the array.                       *)
THEOREM KeysAreFound ==
  ASSUME ConstantsOK
  PROVE  Spec => []Findable
<1>1. IInv => Findable
  BY InvImplies
<1> QED BY <1>1, Invariance, PTL

(* If the block given to keysAndValuesDo does not put, it gets every key    *)
(* once, and the loop never leaves the array.                               *)
THEOREM LoopVisitsAll ==
  ASSUME ConstantsOK, ~ PutInVisit
  PROVE  Spec => IteratesAll
<1>1. IInv /\ [Next]_vars => [VisitsAllStep]_vars
  BY VisitNextStep, VisitEndsStep DEF VisitsAllStep
<1> QED BY <1>1, Invariance, PTL DEF Spec, IteratesAll

(* The array is a map: it implements MapSpec, also between the rounds of    *)
(* expand and whatever the block of a loop puts.                            *)
THEOREM TableIsMap ==
  ASSUME ConstantsOK
  PROVE  Spec => IsMap
<1>1. Init => Map!Init
  <2>1. SUFFICES ASSUME Init PROVE Map!Init
    OBVIOUS
  <2>2. All = {} /\ answer = << >>
    BY <2>1, InitInv DEF Init
  <2>3. mapped = [k \in Key |-> ABSENT]
    BY <2>2 DEF mapped
  <2> QED BY <2>2, <2>3 DEF Map!Init
<1>2. IInv /\ [Next]_vars => [Map!Next]_<<mapped, answer>>
  BY MapStep
<1> QED BY <1>1, <1>2, Invariance, PTL DEF Spec, IsMap, Map!Spec
----------------------------------------------------------------------------
(* The dictionary, which runs the same search in an array of its own kind:  *)
(* slots may be vacated, and findPositionForAdd stops at those as well.     *)
\* Programs that remove keys have keys whose searches start apart, and do not let
\* removeAllKeys consult an iterator over the dictionary that it changes.
RegularPrograms ==
  \A p \in Programs :
    /\ "lazySource" \notin p.uses
    /\ "removal" \in p.uses =>
         \A j, k \in DictKey : p.hash[j] % DictCapacity = p.hash[k] % DictCapacity => j = k

Removes(p) == "removal" \in p.uses
HomesDiffer(p, s) == \A j, k \in DictKey : p.hash[j] % s = p.hash[k] % s => j = k

DictCells  == D!Binding \cup D!Marks
DictTables == UNION {[0 .. s - 1 -> DictCells] : s \in Nat}
DictArrays == [size : Nat \ {0}, at : DictTables]

DictTyped(a) == a \in DictArrays /\ a.at \in [0 .. a.size - 1 -> DictCells]

Taken(a) == {t \in 0 .. a.size - 1 : a.at[t] \notin D!Marks}

\* Slots of a at which findPosition stops, and findPositionForAdd.
FindsAt(a, k) ==
  {t \in 0 .. a.size - 1 : a.at[t] = UNUSED \/ (a.at[t] \notin D!Marks /\ a.at[t].key = k)}
AddsAt(a, k) ==
  {t \in 0 .. a.size - 1 : a.at[t] \in D!Marks \/ (a.at[t] \notin D!Marks /\ a.at[t].key = k)}

CanFind(p, a, k) == SearchEnds(p.hash[k], a.size, FindsAt(a, k))
FoundIn(p, a, k) == SearchResult(p.hash[k], a.size, FindsAt(a, k))
CanAdd(p, a, k)  == SearchEnds(p.hash[k], a.size, AddsAt(a, k))
NewIn(p, a, k)   == SearchResult(p.hash[k], a.size, AddsAt(a, k))

\* Every key of a is where findPosition looks for it: in the first slot of its search,
\* if the program removes keys, and otherwise behind slots that are all in use.
InPlace(p, a)   == \A t \in Taken(a) : CanFind(p, a, a.at[t].key) /\ FoundIn(p, a, a.at[t].key) = t
AtHome(p, a)    == \A t \in Taken(a) : t = p.hash[a.at[t].key] % a.size
NeverVacated(a) == \A t \in 0 .. a.size - 1 : a.at[t] # REMOVED
DictSound(p, a) ==
  /\ InPlace(p, a)
  /\ Removes(p) => AtHome(p, a) /\ HomesDiffer(p, a.size)
  /\ ~ Removes(p) => NeverVacated(a)

\* a when c has been put in slot t, and when the slots in gone have been vacated.
DictChanged(a, t, c) == [a EXCEPT !.at[t] = c]
Vacated(a, gone) ==
  [a EXCEPT !.at = [t \in 0 .. a.size - 1 |-> IF t \in gone THEN REMOVED ELSE a.at[t]]]

----------------------------------------------------------------------------
(* The operators that the dictionary has from HashProbe and FiniteSets are  *)
(* those that the stringMap has.                                            *)
LEMMA SameSearch ==
  /\ \A h, s, stops : D!SearchEnds(h, s, stops) = SearchEnds(h, s, stops)
  /\ \A h, s, stops : D!SearchResult(h, s, stops) = SearchResult(h, s, stops)
<1>1. \A h, s, n : D!Probe(h, s, n) = Probe(h, s, n)
  BY DEF D!Probe, Probe, D!Jump, Jump
<1>2. \A s : D!Rounds(s) = Rounds(s)
  BY DEF D!Rounds, Rounds
<1>3. \A h, s, stops, n : D!StopsAt(h, s, stops, n) = StopsAt(h, s, stops, n)
  BY <1>1, <1>2 DEF D!StopsAt, StopsAt
<1> QED BY <1>1, <1>2, <1>3 DEF D!SearchEnds, SearchEnds, D!SearchResult, SearchResult

LEMMA SameCount ==
  /\ \A X : D!Cardinality(X) = Cardinality(X)
  /\ \A X : D!IsFiniteSet(X) = IsFiniteSet(X)
<1>1. \A X : D!Cardinality(X) = Cardinality(X)
  BY DEF D!Cardinality, Cardinality
<1>2. \A X : D!IsFiniteSet(X) = IsFiniteSet(X)
  BY DEF D!IsFiniteSet, IsFiniteSet
<1> QED BY <1>1, <1>2

\* Searches that start apart in an array still do when it is twice as large.
LEMMA Divides ==
  ASSUME NEW s \in Nat \ {0}, NEW x \in Nat
  PROVE  \E q \in Nat : x = s * q + (x % s)
<1>1. x = s * (x \div s) + (x % s) /\ x \div s \in Nat
  OBVIOUS
<1> QED BY <1>1

LEMMA Remainder ==
  ASSUME NEW s \in Nat \ {0}, NEW q \in Nat, NEW r \in 0 .. s - 1
  PROVE  (s * q + r) % s = r
OBVIOUS

LEMMA Halved ==
  ASSUME NEW s \in Nat \ {0}, NEW x \in Nat
  PROVE  (x % (s * 2)) % s = x % s
<1>1. PICK d \in Nat \ {0} : d = s * 2
  OBVIOUS
<1>2. PICK r \in Nat : r = x % d
  BY Modulo
<1>3. PICK c \in 0 .. s - 1 : c = r % s
  BY Modulo
<1>4. PICK q \in Nat : x = d * q + r
  BY <1>2, Divides
<1>5. PICK b \in Nat : r = s * b + c
  BY <1>3, Divides
<1>6. x = s * (2 * q + b) + c
  BY <1>1, <1>4, <1>5
<1>7. PICK e \in Nat : e = 2 * q + b
  OBVIOUS
<1>8. x % s = c
  BY <1>6, <1>7, Remainder
<1> QED BY <1>1, <1>2, <1>3, <1>8

LEMMA HomesStayApart ==
  ASSUME D!ConstantsOK, NEW p \in Programs, NEW s \in Nat \ {0}, HomesDiffer(p, s)
  PROVE  HomesDiffer(p, s * 2)
<1>1. \A k \in DictKey : p.hash[k] \in Nat
  BY DEF D!ConstantsOK
<1>2. ASSUME NEW j \in DictKey, NEW k \in DictKey, p.hash[j] % (s * 2) = p.hash[k] % (s * 2)
      PROVE  j = k
  <2>1. p.hash[j] % s = p.hash[k] % s
    BY <1>1, <1>2, Halved
  <2> QED BY <2>1 DEF HomesDiffer
<1> QED BY <1>2 DEF HomesDiffer

----------------------------------------------------------------------------
(* One array of the dictionary.                                             *)
LEMMA MarksApart ==
  ASSUME D!ConstantsOK
  PROVE  /\ UNUSED # REMOVED /\ UNUSED \in D!Marks /\ REMOVED \in D!Marks /\ ABSENT \notin Value
         /\ \A m \in D!Marks : m = UNUSED \/ m = REMOVED
         /\ \A b \in D!Binding : b \notin D!Marks
         /\ \A k \in DictKey, v \in Value : [key |-> k, value |-> v] \in D!Binding
         /\ \A p \in Programs : \A k \in DictKey : p.hash[k] \in Nat
BY DEF D!ConstantsOK, D!Marks, D!Binding

LEMMA DictCell ==
  ASSUME NEW a, DictTyped(a)
  PROVE  /\ a.size \in Nat \ {0}
         /\ \A t \in 0 .. a.size - 1 : a.at[t] \in DictCells
         /\ \A t \in Taken(a) : /\ t \in 0 .. a.size - 1 /\ t \in Nat /\ a.at[t] \in D!Binding
                                /\ a.at[t].key \in DictKey /\ a.at[t].value \in Value
BY DEF DictTyped, DictArrays, DictCells, Taken, D!Binding

LEMMA TakenIsFinite ==
  ASSUME NEW a, DictTyped(a)
  PROVE  IsFiniteSet(Taken(a)) /\ Cardinality(Taken(a)) \in Nat
<1>1. a.size \in Nat \ {0} /\ IsFiniteSet(0 .. a.size - 1)
  BY DictCell, FS_Interval
<1>2. Taken(a) \subseteq 0 .. a.size - 1
  BY DEF Taken
<1> QED BY <1>1, <1>2, FS_Subset, FS_CardinalityType

LEMMA BoundIs == \A a : D!Bound(a) = {a.at[t] : t \in Taken(a)}
BY DEF D!Bound, Taken

LEMMA FindPlace ==
  ASSUME D!ConstantsOK, NEW p \in Programs, NEW a, DictTyped(a), InPlace(p, a),
         NEW k \in DictKey, CanFind(p, a, k)
  PROVE  /\ FoundIn(p, a, k) \in 0 .. a.size - 1
         /\ \/ /\ a.at[FoundIn(p, a, k)] = UNUSED
               /\ \A t \in Taken(a) : a.at[t].key # k
            \/ /\ FoundIn(p, a, k) \in Taken(a) /\ a.at[FoundIn(p, a, k)].key = k
               /\ \A t \in Taken(a) : a.at[t].key = k => t = FoundIn(p, a, k)
<1>1. p.hash[k] \in Nat /\ a.size \in Nat \ {0} /\ UNUSED \in D!Marks
  BY MarksApart, DictCell
<1>2. PICK n \in Rounds(a.size) : Probe(p.hash[k], a.size, n) \in FindsAt(a, k)
  BY DEF CanFind, SearchEnds
<1>3. PICK t \in FindsAt(a, k) : t \in 0 .. a.size - 1
  BY <1>2 DEF FindsAt
<1>4. FoundIn(p, a, k) \in FindsAt(a, k)
  BY <1>1, <1>3, SearchStops DEF FoundIn
<1>5. \A u \in Taken(a) : a.at[u].key = k => u = FoundIn(p, a, k)
  BY DEF InPlace
<1>6. PICK f : f = FoundIn(p, a, k)
  OBVIOUS
<1>7. /\ f \in 0 .. a.size - 1
      /\ a.at[f] = UNUSED \/ (f \in Taken(a) /\ a.at[f].key = k)
  BY <1>4, <1>6 DEF FindsAt, Taken
<1>8. a.at[f] = UNUSED => \A u \in Taken(a) : a.at[u].key # k
  BY <1>1, <1>5, <1>6 DEF Taken
<1> QED BY <1>5, <1>6, <1>7, <1>8

LEMMA HomeIsPlace ==
  ASSUME D!ConstantsOK, NEW p \in Programs, NEW a, DictTyped(a), AtHome(p, a)
  PROVE  InPlace(p, a)
<1>1. ASSUME NEW t \in Taken(a), NEW k, k = a.at[t].key
      PROVE  CanFind(p, a, k) /\ FoundIn(p, a, k) = t
  <2>1. PICK h \in Nat : h = p.hash[k]
    BY <1>1, DictCell, MarksApart
  <2>2. a.size \in Nat \ {0} /\ t = h % a.size
    BY <2>1, <1>1, DictCell DEF AtHome
  <2>3. t \in FindsAt(a, k)
    BY <1>1 DEF Taken, FindsAt
  <2>4. Probe(h, a.size, 0) = t
    BY <2>2 DEF Probe
  <2>5. StopsAt(h, a.size, FindsAt(a, k), 0)
    BY <2>2, <2>3, <2>4 DEF StopsAt, Rounds
  <2>6. SearchEnds(h, a.size, FindsAt(a, k)) /\ SearchResult(h, a.size, FindsAt(a, k)) = t
    BY <2>2, <2>4, <2>5, StopIsFound
  <2> QED BY <2>1, <2>6 DEF CanFind, FoundIn
<1> QED BY <1>1 DEF InPlace

LEMMA AddPlace ==
  ASSUME D!ConstantsOK, NEW p \in Programs, NEW a, DictTyped(a), DictSound(p, a),
         NEW k \in DictKey, CanAdd(p, a, k)
  PROVE  /\ NewIn(p, a, k) \in 0 .. a.size - 1
         /\ a.at[NewIn(p, a, k)] \in D!Marks \/ a.at[NewIn(p, a, k)].key = k
         /\ \A t \in Taken(a) : a.at[t].key = k => t = NewIn(p, a, k)
         /\ Removes(p) => NewIn(p, a, k) = p.hash[k] % a.size
<1>1. PICK h \in Nat : h = p.hash[k]
  BY MarksApart
<1>2. PICK s \in Nat \ {0} : s = a.size
  BY DictCell
<1>3. PICK q : q = NewIn(p, a, k) /\ q = SearchResult(h, s, AddsAt(a, k))
  BY <1>1, <1>2 DEF NewIn
<1>4. q \in AddsAt(a, k)
  <2>1. PICK n \in Rounds(s) : Probe(h, s, n) \in AddsAt(a, k)
    BY <1>1, <1>2 DEF CanAdd, SearchEnds
  <2>2. PICK t \in AddsAt(a, k) : t \in 0 .. s - 1
    BY <2>1, <1>2 DEF AddsAt
  <2> QED BY <2>2, <1>3, SearchStops
<1>5. q \in 0 .. a.size - 1 /\ (a.at[q] \in D!Marks \/ a.at[q].key = k)
  BY <1>4 DEF AddsAt
<1>6. CASE Removes(p)
  <2>1. AtHome(p, a) /\ HomesDiffer(p, s)
    BY <1>2, <1>6 DEF DictSound
  <2>2. PICK t \in 0 .. s - 1 : t = h % s
    BY Modulo
  <2>3. t \in AddsAt(a, k)
    <3>1. CASE a.at[t] \in D!Marks
      BY <3>1, <1>2 DEF AddsAt
    <3>2. CASE a.at[t] \notin D!Marks
      <4>1. t \in Taken(a) /\ a.at[t].key \in DictKey
        BY <3>2, <1>2, DictCell DEF Taken
      <4>2. t = p.hash[a.at[t].key] % s
        BY <4>1, <2>1, <1>2 DEF AtHome
      <4>3. a.at[t].key = k
        BY <4>1, <4>2, <2>1, <2>2, <1>1 DEF HomesDiffer
      <4> QED BY <4>3, <3>2, <1>2 DEF AddsAt
    <3> QED BY <3>1, <3>2
  <2>4. Probe(h, s, 0) = t
    BY <2>2 DEF Probe
  <2>5. StopsAt(h, s, AddsAt(a, k), 0)
    BY <2>3, <2>4 DEF StopsAt, Rounds
  <2>6. q = t
    BY <2>4, <2>5, <1>3, StopIsFound
  <2>7. \A u \in Taken(a) : a.at[u].key = k => u = q
    BY <2>1, <2>2, <2>6, <1>1, <1>2 DEF AtHome
  <2> QED BY <2>2, <2>6, <2>7, <1>1, <1>2, <1>3, <1>5
<1>7. CASE ~ Removes(p)
  <2>1. NeverVacated(a) /\ InPlace(p, a)
    BY <1>7 DEF DictSound
  <2>2. AddsAt(a, k) = FindsAt(a, k)
    <3>1. \A t \in 0 .. a.size - 1 : a.at[t] \in D!Marks <=> a.at[t] = UNUSED
      BY <2>1, MarksApart DEF NeverVacated
    <3> QED BY <3>1 DEF AddsAt, FindsAt
  <2>3. q = FoundIn(p, a, k)
    BY <2>2, <1>3 DEF NewIn, FoundIn
  <2>4. \A u \in Taken(a) : a.at[u].key = k => u = q
    BY <2>1, <2>3 DEF InPlace
  <2> QED BY <2>4, <1>3, <1>5, <1>7
<1> QED BY <1>6, <1>7

\* An array in which one slot has changed.
LEMMA DictSlotChanged ==
  ASSUME NEW a, DictTyped(a), NEW q \in 0 .. a.size - 1, NEW c \in DictCells,
         NEW w, w = DictChanged(a, q, c)
  PROVE  /\ DictTyped(w) /\ w.size = a.size /\ w.at[q] = c
         /\ \A t \in 0 .. a.size - 1 : t # q => w.at[t] = a.at[t]
<1>1. a = [size |-> a.size, at |-> a.at] /\ a.size \in Nat \ {0}
  BY DEF DictTyped, DictArrays
<1>2. w = [size |-> a.size, at |-> [a.at EXCEPT ![q] = c]]
  BY <1>1 DEF DictChanged
<1>3. w.size = a.size /\ w.at = [a.at EXCEPT ![q] = c]
  BY <1>2
<1>4. /\ w.at \in [0 .. a.size - 1 -> DictCells] /\ w.at[q] = c
      /\ \A t \in 0 .. a.size - 1 : t # q => w.at[t] = a.at[t]
  BY <1>3 DEF DictTyped
<1>5. w.at \in DictTables
  BY <1>1, <1>4 DEF DictTables
<1>6. w \in DictArrays
  BY <1>1, <1>2, <1>3, <1>5 DEF DictArrays
<1> QED BY <1>3, <1>4, <1>6 DEF DictTyped

\* What at()put stores.
LEMMA StoredIsSound ==
  ASSUME D!ConstantsOK, NEW p \in Programs, NEW a, DictTyped(a), DictSound(p, a),
         NEW k \in DictKey, NEW v \in Value, CanAdd(p, a, k),
         NEW b, b = [key |-> k, value |-> v], NEW w, w = DictChanged(a, NewIn(p, a, k), b)
  PROVE  /\ DictTyped(w) /\ w.size = a.size /\ DictSound(p, w)
         /\ D!Bound(w) = {c \in D!Bound(a) : c.key # k} \cup {b}
         /\ Cardinality(Taken(w)) = IF a.at[NewIn(p, a, k)] \in D!Marks
                                    THEN Cardinality(Taken(a)) + 1 ELSE Cardinality(Taken(a))
<1>1. PICK q \in 0 .. a.size - 1 :
        /\ q = NewIn(p, a, k) /\ (a.at[q] \in D!Marks \/ a.at[q].key = k)
        /\ \A t \in Taken(a) : a.at[t].key = k => t = q
        /\ Removes(p) => q = p.hash[k] % a.size
  <2>1. PICK q : q = NewIn(p, a, k)
    OBVIOUS
  <2>2. /\ q \in 0 .. a.size - 1 /\ (a.at[q] \in D!Marks \/ a.at[q].key = k)
        /\ \A t \in Taken(a) : a.at[t].key = k => t = q
        /\ Removes(p) => q = p.hash[k] % a.size
    BY <2>1, AddPlace
  <2> QED BY <2>1, <2>2
<1>2. q = NewIn(p, a, k)
  BY <1>1
<1>3. b.key = k /\ b \in D!Binding /\ b \in DictCells /\ b \notin D!Marks
  BY MarksApart DEF DictCells
<1>4. /\ DictTyped(w) /\ w.size = a.size /\ w.at[q] = b
      /\ \A t \in 0 .. a.size - 1 : t # q => w.at[t] = a.at[t]
  BY <1>2, <1>3, DictSlotChanged
<1>5. a.size \in Nat \ {0} /\ \A j \in DictKey : p.hash[j] \in Nat
  BY DictCell, MarksApart
<1>6. Taken(w) = Taken(a) \cup {q}
  BY <1>3, <1>4 DEF Taken
<1>7. \A t \in Taken(a) : t # q => w.at[t] = a.at[t] /\ a.at[t].key # k
  BY <1>1, <1>4 DEF Taken
<1>8. ASSUME Removes(p) PROVE DictSound(p, w)
  <2>1. AtHome(p, a) /\ HomesDiffer(p, a.size) /\ q = p.hash[k] % a.size
    BY <1>1, <1>8 DEF DictSound
  <2>2. AtHome(p, w)
    <3>1. ASSUME NEW t \in Taken(w) PROVE t = p.hash[w.at[t].key] % w.size
      <4>1. CASE t = q
        BY <4>1, <2>1, <1>3, <1>4
      <4>2. CASE t # q
        BY <4>2, <2>1, <1>4, <1>6, <1>7 DEF AtHome
      <4> QED BY <4>1, <4>2
    <3> QED BY <3>1 DEF AtHome
  <2>3. InPlace(p, w)
    BY <2>2, <1>4, HomeIsPlace
  <2> QED BY <2>1, <2>2, <2>3, <1>4, <1>8 DEF DictSound
<1>9. ASSUME ~ Removes(p) PROVE DictSound(p, w)
  <2>1. NeverVacated(a) /\ InPlace(p, a)
    BY <1>9 DEF DictSound
  <2>2. NeverVacated(w)
    BY <2>1, <1>3, <1>4, MarksApart DEF NeverVacated
  <2>3. CanFind(p, w, k) /\ FoundIn(p, w, k) = q
    <3>1. FindsAt(w, k) \subseteq AddsAt(a, k)
      <4>1. \A t \in FindsAt(w, k) : t = q \/ t \in AddsAt(a, k)
        BY <1>4, MarksApart DEF FindsAt, AddsAt
      <4>2. q \in AddsAt(a, k)
        BY <1>1 DEF AddsAt
      <4> QED BY <4>1, <4>2
    <3>2. q \in FindsAt(w, k)
      BY <1>3, <1>4 DEF FindsAt
    <3>3. /\ SearchEnds(p.hash[k], a.size, AddsAt(a, k))
          /\ SearchResult(p.hash[k], a.size, AddsAt(a, k)) = q
      BY <1>2 DEF CanAdd, NewIn
    <3>4. /\ SearchEnds(p.hash[k], a.size, FindsAt(w, k))
          /\ SearchResult(p.hash[k], a.size, FindsAt(w, k)) = q
      BY <3>1, <3>2, <3>3, <1>5, StopsFewer
    <3> QED BY <3>4, <1>4 DEF CanFind, FoundIn
  <2>4. ASSUME NEW t \in Taken(a), t # q, NEW y \in DictKey, y = a.at[t].key
        PROVE  CanFind(p, w, y) /\ FoundIn(p, w, y) = t
    <3>1. y # k /\ w.at[t] = a.at[t] /\ t \in 0 .. a.size - 1
      BY <2>4, <1>7 DEF Taken
    <3>2. FindsAt(w, y) \subseteq FindsAt(a, y)
      <4>1. q \notin FindsAt(w, y)
        BY <3>1, <1>3, <1>4, MarksApart DEF FindsAt
      <4> QED BY <4>1, <1>4 DEF FindsAt
    <3>3. t \in FindsAt(w, y)
      BY <2>4, <3>1, <1>4 DEF FindsAt, Taken
    <3>4. /\ SearchEnds(p.hash[y], a.size, FindsAt(a, y))
          /\ SearchResult(p.hash[y], a.size, FindsAt(a, y)) = t
      BY <2>1, <2>4 DEF InPlace, CanFind, FoundIn
    <3>5. /\ SearchEnds(p.hash[y], a.size, FindsAt(w, y))
          /\ SearchResult(p.hash[y], a.size, FindsAt(w, y)) = t
      BY <3>2, <3>3, <3>4, <1>5, StopsFewer
    <3> QED BY <3>5, <1>4 DEF CanFind, FoundIn
  <2>5. InPlace(p, w)
    <3>1. ASSUME NEW t \in Taken(w)
          PROVE  CanFind(p, w, w.at[t].key) /\ FoundIn(p, w, w.at[t].key) = t
      <4>1. CASE t = q
        BY <4>1, <2>3, <1>3, <1>4
      <4>2. CASE t # q
        <5>1. t \in Taken(a) /\ w.at[t] = a.at[t] /\ a.at[t].key \in DictKey
          BY <4>2, <1>6, <1>7, DictCell
        <5> QED BY <5>1, <4>2, <2>4
      <4> QED BY <4>1, <4>2
    <3> QED BY <3>1 DEF InPlace
  <2> QED BY <2>2, <2>5, <1>9 DEF DictSound
<1>10. D!Bound(w) = {c \in D!Bound(a) : c.key # k} \cup {b}
  <2>1. ASSUME NEW c \in D!Bound(w) PROVE (c \in D!Bound(a) /\ c.key # k) \/ c = b
    <3>1. PICK t \in Taken(w) : c = w.at[t]
      BY BoundIs
    <3> QED BY <3>1, <1>4, <1>6, <1>7, BoundIs
  <2>2. ASSUME NEW c \in D!Bound(a), c.key # k PROVE c \in D!Bound(w)
    <3>1. PICK t \in Taken(a) : c = a.at[t]
      BY BoundIs
    <3>2. t # q
      <4>1. a.at[t] \notin D!Marks
        BY DEF Taken
      <4> QED BY <4>1, <3>1, <2>2, <1>1
    <3> QED BY <3>1, <3>2, <1>6, <1>7, BoundIs
  <2>3. b \in D!Bound(w)
    BY <1>4, <1>6, BoundIs
  <2> QED BY <2>1, <2>2, <2>3
<1>11. Cardinality(Taken(w)) = IF a.at[NewIn(p, a, k)] \in D!Marks
                               THEN Cardinality(Taken(a)) + 1 ELSE Cardinality(Taken(a))
  <2>1. q \in Taken(a) <=> a.at[q] \notin D!Marks
    BY DEF Taken
  <2>2. Cardinality(Taken(w)) = IF q \in Taken(a) THEN Cardinality(Taken(a))
                                ELSE Cardinality(Taken(a)) + 1
    BY <1>6, TakenIsFinite, FS_AddElement
  <2> QED BY <2>1, <2>2, <1>2
<1> QED BY <1>4, <1>8, <1>9, <1>10, <1>11

\* What removals leave.
LEMMA VacatedIsSound ==
  ASSUME D!ConstantsOK, NEW p \in Programs, Removes(p), NEW a, DictTyped(a), DictSound(p, a),
         NEW gone \in SUBSET Taken(a), NEW w, w = Vacated(a, gone)
  PROVE  /\ DictTyped(w) /\ w.size = a.size /\ DictSound(p, w)
         /\ Taken(w) = Taken(a) \ gone /\ \A t \in Taken(w) : w.at[t] = a.at[t]
         /\ Cardinality(Taken(w)) = Cardinality(Taken(a)) - Cardinality(gone)
<1> DEFINE at == [t \in 0 .. a.size - 1 |-> IF t \in gone THEN REMOVED ELSE a.at[t]]
<1>1. a = [size |-> a.size, at |-> a.at] /\ a.size \in Nat \ {0}
  BY DEF DictTyped, DictArrays
<1>2. w = [size |-> a.size, at |-> at]
  BY <1>1 DEF Vacated
<1>3. w.size = a.size /\ w.at = at
  BY <1>2
<1>4. REMOVED \in DictCells /\ REMOVED \in D!Marks /\ \A t \in 0 .. a.size - 1 : a.at[t] \in DictCells
  BY MarksApart, DictCell DEF DictCells
<1>5. at \in [0 .. a.size - 1 -> DictCells]
  BY <1>4
<1>6. DictTyped(w)
  <2>1. at \in DictTables
    BY <1>1, <1>5 DEF DictTables
  <2> HIDE DEF at
  <2>2. w \in DictArrays
    BY <2>1, <1>1, <1>2 DEF DictArrays
  <2> QED BY <2>2, <1>3, <1>5 DEF DictTyped
<1>7. Taken(w) = Taken(a) \ gone /\ \A t \in Taken(w) : w.at[t] = a.at[t]
  BY <1>3, <1>4 DEF Taken
<1>8. DictSound(p, w)
  <2>1. AtHome(p, a) /\ HomesDiffer(p, a.size)
    BY DEF DictSound
  <2>2. AtHome(p, w)
    BY <2>1, <1>3, <1>7 DEF AtHome
  <2>3. InPlace(p, w)
    BY <2>2, <1>6, HomeIsPlace
  <2> QED BY <2>1, <2>2, <2>3, <1>3 DEF DictSound
<1>9. Cardinality(Taken(w)) = Cardinality(Taken(a)) - Cardinality(gone)
  <2>1. IsFiniteSet(Taken(a)) /\ IsFiniteSet(gone) /\ Taken(a) \cap gone = gone
    BY TakenIsFinite, FS_Subset
  <2>2. Cardinality(Taken(a) \ gone) = Cardinality(Taken(a)) - Cardinality(Taken(a) \cap gone)
    BY <2>1, FS_Difference
  <2> QED BY <2>1, <2>2, <1>7
<1> QED BY <1>3, <1>6, <1>7, <1>8, <1>9

LEMMA DictBlank ==
  ASSUME D!ConstantsOK, NEW p \in Programs, NEW s \in Nat \ {0}, Removes(p) => HomesDiffer(p, s),
         NEW a, a = D!Blank(s)
  PROVE  /\ DictTyped(a) /\ a.size = s /\ DictSound(p, a) /\ D!Bound(a) = {}
         /\ Cardinality(Taken(a)) = 0
<1>1. /\ a = [size |-> s, at |-> [t \in 0 .. s - 1 |-> UNUSED]] /\ a.size = s
      /\ a.at = [t \in 0 .. s - 1 |-> UNUSED] /\ \A t \in 0 .. s - 1 : a.at[t] = UNUSED
  BY DEF D!Blank
<1>2. a.at \in [0 .. s - 1 -> DictCells]
  BY <1>1, MarksApart DEF DictCells
<1>3. DictTyped(a)
  <2>1. a.at \in DictTables
    BY <1>2 DEF DictTables
  <2>2. a \in DictArrays
    BY <2>1, <1>1 DEF DictArrays
  <2> QED BY <2>2, <1>1, <1>2 DEF DictTyped
<1>4. Taken(a) = {}
  BY <1>1, MarksApart DEF Taken
<1>5. D!Bound(a) = {}
  BY <1>4, BoundIs
<1>6. DictSound(p, a)
  BY <1>1, <1>4, MarksApart DEF DictSound, InPlace, AtHome, NeverVacated
<1> QED BY <1>1, <1>3, <1>4, <1>5, <1>6, FS_EmptySet

\* The keys in an array are as many as the slots in use.
LEMMA DictKeysCounted ==
  ASSUME NEW p, NEW a, DictTyped(a), InPlace(p, a)
  PROVE  Cardinality({b.key : b \in D!Bound(a)}) = Cardinality(Taken(a))
<1> DEFINE keys == {b.key : b \in D!Bound(a)}
           f == [t \in Taken(a) |-> a.at[t].key]
<1>1. f \in [Taken(a) -> keys]
  BY BoundIs
<1>2. \A t, u \in Taken(a) : f[t] = f[u] => t = u
  BY DEF InPlace
<1>3. \A q \in keys : \E t \in Taken(a) : f[t] = q
  BY BoundIs
<1>4. f \in Bijection(Taken(a), keys)
  <2> HIDE DEF f, keys
  <2> QED BY <1>1, <1>2, <1>3 DEF Bijection, Injection, Surjection, IsInjective
<1>5. ExistsBijection(Taken(a), keys)
  BY <1>4 DEF ExistsBijection
<1> QED BY <1>5, TakenIsFinite, FS_Bijection

----------------------------------------------------------------------------
(* The dictionary's state.                                                  *)

\* As Expanding, of the dictionary.
DictExpanding(call) ==
  /\ call \in [old : DictArrays, next : Nat] /\ DictTyped(call.old)
  /\ call.next <= call.old.size /\ numBindings <= call.next
  /\ inner.size = 2 * call.old.size

DictTable ==
  /\ program \in Programs
  /\ DictTyped(inner) /\ DictSound(program, inner)
  /\ numBindings = Cardinality(Taken(inner))
  /\ rehash = << >> \/ \E call : rehash = <<call>> /\ DictExpanding(call)
  /\ \A b, c \in D!All : b.key = c.key => b = c

DictIterator ==
  [stale : BOOLEAN, count : Nat, idx : Nat, given : SUBSET DictKey, made : SUBSET D!Binding]

DictPassed == {t \in Taken(inner) : t < iter.idx}

\* An iterator that is not stale.
DictIterating ==
  /\ rehash = << >> /\ ~ removing /\ D!Bound(inner) = iter.made
  /\ iter.given = {inner.at[t].key : t \in DictPassed}
  /\ iter.count = 1 + Cardinality(DictPassed)

DictIteration == iter \in DictIterator /\ (~ iter.stale => DictIterating)

DictInv ==
  /\ DictTable /\ DictIteration
  /\ removing \in BOOLEAN
  /\ removing => Removes(program) /\ rehash = << >> /\ iter.stale
  /\ status \in {"running", "looping"}

DictAssumptions == D!ConstantsOK /\ RegularPrograms

LEMMA DictNothingPending ==
  ASSUME rehash = << >>
  PROVE  D!All = D!Bound(inner)
BY DEF D!All, D!Pending

LEMMA DictPendingOf ==
  ASSUME NEW call, rehash = <<call>>
  PROVE  /\ D!All = D!Bound(inner) \cup D!Left(call)
         /\ rehash # << >> /\ Len(rehash) = 1 /\ rehash[Len(rehash)] = call
         /\ SubSeq(rehash, 1, Len(rehash) - 1) = << >>
<1>1. Len(rehash) = 1 /\ rehash[1] = call /\ rehash # << >>
  OBVIOUS
<1>2. D!Pending = D!Left(call)
  <2>1. \A i \in 1 .. Len(rehash) : i = 1
    BY <1>1
  <2>2. {D!Left(rehash[i]) : i \in 1 .. Len(rehash)} = {D!Left(call)}
    BY <1>1, <2>1
  <2> QED BY <2>2 DEF D!Pending
<1> QED BY <1>1, <1>2 DEF D!All

LEMMA DictPendingNext ==
  ASSUME NEW call, rehash' = <<call>>
  PROVE  D!All' = D!Bound(inner') \cup D!Left(call)
<1>1. \A i \in 1 .. Len(rehash') : i = 1 /\ rehash'[i] = call
  OBVIOUS
<1>2. {D!Left(rehash'[i]) : i \in 1 .. Len(rehash')} = {D!Left(call)}
  BY <1>1
<1>3. D!Pending' = D!Left(call)
  <2>1. D!Pending' = UNION {D!Left(rehash'[i]) : i \in 1 .. Len(rehash')}
    BY DEF D!Pending, D!Left
  <2> QED BY <2>1, <1>2
<1> QED BY <1>3 DEF D!All, D!Bound

LEMMA DictLeftNext ==
  ASSUME NEW call \in [old : DictArrays, next : Nat], DictTyped(call.old),
         call.next < call.old.size, NEW after, after = [call EXCEPT !.next = call.next + 1]
  PROVE  /\ after \in [old : DictArrays, next : Nat] /\ after.old = call.old
         /\ after.next = call.next + 1 /\ call.next + 1 <= call.old.size
         /\ call.old.at[call.next] \in DictCells
         /\ D!Left(call) = D!Left(after) \cup ({call.old.at[call.next]} \ D!Marks)
<1>1. call.next \in Nat /\ call.old.size \in Nat
  BY DEF DictTyped, DictArrays
<1>2. /\ after \in [old : DictArrays, next : Nat] /\ after.old = call.old
      /\ after.next = call.next + 1 /\ call.next + 1 <= call.old.size
  BY <1>1
<1>3. call.old.at[call.next] \in DictCells
  BY <1>1 DEF DictTyped
<1>4. \A t : t \in call.next .. call.old.size - 1
            <=> t = call.next \/ t \in call.next + 1 .. call.old.size - 1
  BY <1>1
<1>5. D!Left(call) = D!Left(after) \cup ({call.old.at[call.next]} \ D!Marks)
  BY <1>2, <1>4 DEF D!Left
<1> QED BY <1>2, <1>3, <1>5

LEMMA DictStateIsSound ==
  ASSUME D!ConstantsOK, DictTable
  PROVE  /\ inner.size \in Nat \ {0} /\ numBindings \in Nat
         /\ \A k : /\ D!FindEnds(k) = CanFind(program, inner, k)
                   /\ D!findPosition(k) = FoundIn(program, inner, k)
                   /\ D!AddEnds(k) = CanAdd(program, inner, k)
                   /\ D!findPositionForAdd(k) = NewIn(program, inner, k)
         /\ D!All \subseteq D!Binding /\ D!Bound(inner) \subseteq D!Binding
<1>1. inner.size \in Nat \ {0} /\ numBindings \in Nat
  BY DictCell, TakenIsFinite DEF DictTable
<1>2. \A k : D!FindStops(k) = FindsAt(inner, k) /\ D!AddStops(k) = AddsAt(inner, k)
  <2>1. TAKE k
  <2>2. D!FindStops(k) = FindsAt(inner, k)
    BY DEF D!FindStops, D!HasKey, D!Free, D!Slots, FindsAt
  <2>3. D!AddStops(k) = AddsAt(inner, k)
    BY DEF D!AddStops, D!HasKey, D!Free, D!Slots, D!Marks, AddsAt
  <2> QED BY <2>2, <2>3
<1>3. \A k : /\ D!FindEnds(k) = CanFind(program, inner, k)
             /\ D!findPosition(k) = FoundIn(program, inner, k)
             /\ D!AddEnds(k) = CanAdd(program, inner, k)
             /\ D!findPositionForAdd(k) = NewIn(program, inner, k)
  BY <1>2, SameSearch DEF D!FindEnds, D!findPosition, D!AddEnds, D!findPositionForAdd,
                          CanFind, FoundIn, CanAdd, NewIn
<1>4. D!Bound(inner) \subseteq D!Binding
  BY BoundIs, DictCell DEF DictTable
<1>5. D!All \subseteq D!Binding
  <2>1. CASE rehash = << >>
    BY <2>1, <1>4, DictNothingPending
  <2>2. CASE rehash # << >>
    <3>1. PICK call : rehash = <<call>> /\ DictExpanding(call)
      BY <2>2 DEF DictTable
    <3>2. D!Left(call) \subseteq D!Binding
      <4>1. /\ call.next \in Nat /\ call.old.size \in Nat
            /\ call.old.at \in [0 .. call.old.size - 1 -> DictCells]
        BY <3>1 DEF DictExpanding, DictTyped, DictArrays
      <4>2. \A t \in call.next .. call.old.size - 1 : t \in 0 .. call.old.size - 1
        BY <4>1
      <4> QED BY <4>1, <4>2 DEF D!Left, DictCells
    <3> QED BY <3>1, <3>2, <1>4, DictPendingOf
  <2> QED BY <2>1, <2>2
<1> QED BY <1>1, <1>3, <1>4, <1>5

LEMMA DictTableStays ==
  ASSUME DictTable, UNCHANGED <<inner, numBindings, rehash, program>>
  PROVE  DictTable' /\ D!All' = D!All
<1>1. D!All' = D!All
  BY DEF D!All, D!Pending, D!Bound, D!Left
<1>2. \A c : DictExpanding(c)' <=> DictExpanding(c)
  BY DEF DictExpanding
<1>3. (rehash = << >> \/ \E call : rehash = <<call>> /\ DictExpanding(call))'
  BY <1>2 DEF DictTable
<1>4. (\A b, c \in D!All : b.key = c.key => b = c)'
  BY <1>1 DEF DictTable
<1> QED BY <1>1, <1>3, <1>4 DEF DictTable

LEMMA DictIterationStays ==
  ASSUME DictIteration, UNCHANGED <<inner, rehash, removing, iter>>
  PROVE  DictIteration'
<1>1. DictIterating' <=> DictIterating
  BY DEF DictIterating, DictPassed, Taken, D!Bound
<1> QED BY <1>1 DEF DictIteration

LEMMA DictStaleType ==
  ASSUME DictIteration
  PROVE  D!Stale \in DictIterator /\ D!Stale.stale = TRUE
BY DEF DictIteration, DictIterator, D!Stale

LEMMA DictIterationLoses ==
  ASSUME DictIteration, iter' = D!Stale \/ (iter' = iter /\ iter.stale)
  PROVE  DictIteration' /\ iter'.stale
<1>1. iter' \in DictIterator /\ iter'.stale
  BY DictStaleType DEF DictIteration, DictIterator
<1> QED BY <1>1 DEF DictIteration

----------------------------------------------------------------------------
(* The dictionary's steps.                                                  *)
LEMMA DictStoreStep ==
  ASSUME D!ConstantsOK, DictTable, NEW k \in DictKey, NEW v \in Value, NEW calls,
         D!AddEnds(k), D!Store(k, v, calls)
  PROVE  \E w, count :
           /\ DictTyped(w) /\ DictSound(program, w) /\ w.size = inner.size
           /\ count = Cardinality(Taken(w))
           /\ D!Bound(w) = {b \in D!Bound(inner) : b.key # k} \cup {[key |-> k, value |-> v]}
           /\ count \in Nat /\ count <= numBindings + 1
           /\ IF count * 2 > inner.size
              THEN /\ inner' = D!Blank(inner.size * 2) /\ numBindings' = 0
                   /\ rehash' = Append(calls, [old |-> w, next |-> 0])
              ELSE inner' = w /\ numBindings' = count /\ rehash' = calls
           /\ UNCHANGED <<removing, status, program>>
<1>1. PICK a : a = inner
  OBVIOUS
<1>2. PICK p \in Programs : p = program
  BY DEF DictTable
<1>3. PICK q : q = NewIn(p, a, k)
  OBVIOUS
<1>4. PICK b : b = [key |-> k, value |-> v]
  OBVIOUS
<1>5. PICK w : w = DictChanged(a, q, b)
  OBVIOUS
<1>6. PICK count : count = IF a.at[q] \in D!Marks THEN numBindings + 1 ELSE numBindings
  OBVIOUS
<1>7. /\ DictTyped(a) /\ DictSound(p, a) /\ numBindings = Cardinality(Taken(a))
      /\ numBindings \in Nat /\ CanAdd(p, a, k) /\ D!findPositionForAdd(k) = q
  BY <1>1, <1>2, <1>3, DictStateIsSound DEF DictTable
<1>8. /\ DictTyped(w) /\ w.size = a.size /\ DictSound(p, w)
      /\ D!Bound(w) = {c \in D!Bound(a) : c.key # k} \cup {b}
      /\ Cardinality(Taken(w)) = IF a.at[NewIn(p, a, k)] \in D!Marks
                                 THEN Cardinality(Taken(a)) + 1 ELSE Cardinality(Taken(a))
  BY <1>3, <1>4, <1>5, <1>7, StoredIsSound
<1>9. count = Cardinality(Taken(w)) /\ count \in Nat /\ count <= numBindings + 1
  BY <1>3, <1>6, <1>7, <1>8
<1>10. w = [inner EXCEPT !.at[D!findPositionForAdd(k)] = [key |-> k, value |-> v]]
  BY <1>1, <1>4, <1>5, <1>7 DEF DictChanged
<1>11. count = IF inner.at[D!findPositionForAdd(k)] \in D!Marks THEN numBindings + 1 ELSE numBindings
  BY <1>1, <1>6, <1>7
<1>12. /\ IF count * 2 > inner.size
          THEN /\ inner' = D!Blank(inner.size * 2) /\ numBindings' = 0
               /\ rehash' = Append(calls, [old |-> w, next |-> 0])
          ELSE inner' = w /\ numBindings' = count /\ rehash' = calls
       /\ UNCHANGED <<removing, status, program>>
  BY <1>10, <1>11 DEF D!Store
<1> QED BY <1>1, <1>2, <1>4, <1>8, <1>9, <1>12

LEMMA DictPutTable ==
  ASSUME D!ConstantsOK, DictTable, rehash = << >>, NEW k \in DictKey, NEW v \in Value,
         D!AddEnds(k), D!Store(k, v, << >>)
  PROVE  /\ DictTable' /\ UNCHANGED <<removing, status, program>>
         /\ D!All' = {b \in D!All : b.key # k} \cup {[key |-> k, value |-> v]}
<1>1. PICK w, count :
        /\ DictTyped(w) /\ DictSound(program, w) /\ w.size = inner.size
        /\ count = Cardinality(Taken(w))
        /\ D!Bound(w) = {b \in D!Bound(inner) : b.key # k} \cup {[key |-> k, value |-> v]}
        /\ count \in Nat /\ count <= numBindings + 1
        /\ IF count * 2 > inner.size
           THEN /\ inner' = D!Blank(inner.size * 2) /\ numBindings' = 0
                /\ rehash' = Append(<< >>, [old |-> w, next |-> 0])
           ELSE inner' = w /\ numBindings' = count /\ rehash' = << >>
        /\ UNCHANGED <<removing, status, program>>
  BY DictStoreStep
<1>2. D!All = D!Bound(inner) /\ inner.size \in Nat \ {0} /\ program \in Programs
  BY DictNothingPending, DictStateIsSound DEF DictTable
<1>3. /\ DictTyped(inner') /\ DictSound(program, inner') /\ numBindings' = Cardinality(Taken(inner'))
      /\ D!All' = D!Bound(w)
      /\ rehash' = << >> \/ \E call : rehash' = <<call>> /\ DictExpanding(call)'
  <2>1. CASE count * 2 > inner.size
    <3>1. PICK call : call = [old |-> w, next |-> 0]
      OBVIOUS
    <3>2. inner' = D!Blank(inner.size * 2) /\ numBindings' = 0 /\ rehash' = <<call>>
      BY <2>1, <3>1, <1>1
    <3>3. /\ DictTyped(inner') /\ DictSound(program, inner') /\ inner'.size = inner.size * 2
          /\ D!Bound(inner') = {} /\ Cardinality(Taken(inner')) = 0
      <4>1. inner.size * 2 \in Nat \ {0}
        BY <1>2
      <4>2. Removes(program) => HomesDiffer(program, inner.size * 2)
        BY <1>2, HomesStayApart DEF DictTable, DictSound
      <4> QED BY <4>1, <4>2, <3>2, <1>2, DictBlank
    <3>4. call.old = w /\ call.next = 0
      BY <3>1
    <3>5. D!Left(call) = D!Bound(w)
      BY <3>4 DEF D!Left, D!Bound
    <3>6. D!All' = D!Bound(w)
      <4>1. D!All' = D!Bound(inner') \cup D!Left(call)
        BY <3>2, DictPendingNext
      <4> QED BY <4>1, <3>3, <3>5
    <3>7. DictExpanding(call)'
      <4>1. call \in [old : DictArrays, next : Nat] /\ DictTyped(w) /\ w.size \in Nat
        BY <3>1, <1>1 DEF DictTyped, DictArrays
      <4> QED BY <4>1, <3>2, <3>3, <3>4, <1>1, <1>2 DEF DictExpanding
    <3> QED BY <3>2, <3>3, <3>6, <3>7
  <2>2. CASE ~ (count * 2 > inner.size)
    <3>1. inner' = w /\ numBindings' = count /\ rehash' = << >>
      BY <2>2, <1>1
    <3>2. D!All' = D!Bound(w)
      BY <3>1 DEF D!All, D!Pending, D!Bound
    <3> QED BY <3>1, <3>2, <1>1
  <2> QED BY <2>1, <2>2
<1>4. D!All' = {b \in D!All : b.key # k} \cup {[key |-> k, value |-> v]}
  BY <1>1, <1>2, <1>3
<1>5. (\A b, c \in D!All : b.key = c.key => b = c)'
  BY <1>4 DEF DictTable
<1>6. (rehash = << >> \/ \E call : rehash = <<call>> /\ DictExpanding(call))'
  BY <1>3
<1>7. DictTable'
  BY <1>1, <1>2, <1>3, <1>5, <1>6 DEF DictTable
<1> QED BY <1>1, <1>4, <1>7

\* A round of the loop of expand, which finds room in the new array if its search ends.
LEMMA DictRoundTable ==
  ASSUME D!ConstantsOK, DictTable, D!ExpandRound
  PROVE  /\ DictTable' /\ UNCHANGED <<D!All, removing, answer, program>>
         /\ status' \in {status, "looping"} /\ iter' \in {iter, D!Stale}
<1>1. PICK call : rehash = <<call>> /\ DictExpanding(call)
  BY DEF DictTable, D!ExpandRound
<1>2. /\ call \in [old : DictArrays, next : Nat] /\ DictTyped(call.old)
      /\ call.next <= call.old.size /\ numBindings <= call.next /\ inner.size = 2 * call.old.size
      /\ call.next \in Nat /\ call.old.size \in Nat /\ numBindings \in Nat
  BY <1>1, DictStateIsSound DEF DictExpanding, DictTyped, DictArrays
<1>3. PICK after : after = [call EXCEPT !.next = call.next + 1]
  OBVIOUS
<1>4. PICK a : a = IF call.next < call.old.size THEN call.old.at[call.next] ELSE UNUSED
  OBVIOUS
<1>5. IF a \in D!Marks
      THEN /\ rehash' = IF call.next < call.old.size THEN <<after>> ELSE << >>
           /\ UNCHANGED <<inner, numBindings, removing, iter, status, answer, program>>
      ELSE /\ iter' = D!Stale
           /\ IF D!AddEnds(a.key)
              THEN D!Store(a.key, a.value, <<after>>) /\ UNCHANGED answer
              ELSE D!Hang
  <2>1. Append(<< >>, after) = <<after>>
    OBVIOUS
  <2>2. /\ rehash # << >> /\ rehash[Len(rehash)] = call
        /\ SubSeq(rehash, 1, Len(rehash) - 1) = << >>
    BY <1>1, DictPendingOf
  <2> QED BY <2>1, <2>2, <1>3, <1>4 DEF D!ExpandRound
<1>6. /\ D!All = D!Bound(inner) \cup D!Left(call) /\ program \in Programs
      /\ \A b, c \in D!All : b.key = c.key => b = c
  BY <1>1, DictPendingOf DEF DictTable
<1>7. CASE ~ (call.next < call.old.size)
  <2>1. a \in D!Marks
    BY <1>4, <1>7 DEF D!Marks
  <2>2. rehash' = << >> /\ UNCHANGED <<inner, numBindings, removing, iter, status, answer, program>>
    BY <2>1, <1>5, <1>7
  <2>3. D!Left(call) = {}
    BY <1>2, <1>7 DEF D!Left
  <2>4. D!All' = D!All
    <3>1. D!All' = D!Bound(inner)
      BY <2>2 DEF D!All, D!Pending, D!Bound
    <3> QED BY <3>1, <2>3, <1>6
  <2>5. (\A b, c \in D!All : b.key = c.key => b = c)'
    BY <2>4, <1>6
  <2>6. DictTable'
    BY <2>2, <2>5 DEF DictTable
  <2> QED BY <2>2, <2>4, <2>6
<1>8. CASE call.next < call.old.size /\ a \in D!Marks
  <2>1. rehash' = <<after>> /\ UNCHANGED <<inner, numBindings, removing, iter, status, answer, program>>
    BY <1>5, <1>8
  <2>2. /\ after \in [old : DictArrays, next : Nat] /\ after.old = call.old
        /\ after.next = call.next + 1 /\ call.next + 1 <= call.old.size
        /\ D!Left(call) = D!Left(after) \cup ({a} \ D!Marks)
    BY <1>2, <1>3, <1>4, <1>8, DictLeftNext
  <2>3. DictExpanding(after)'
    BY <2>1, <2>2, <1>2 DEF DictExpanding
  <2>4. D!All' = D!All
    <3>1. D!All' = D!Bound(inner') \cup D!Left(after)
      BY <2>1, DictPendingNext
    <3> QED BY <3>1, <2>1, <2>2, <1>6, <1>8
  <2>5. (\A b, c \in D!All : b.key = c.key => b = c)'
    BY <2>4, <1>6
  <2>6. (rehash = << >> \/ \E c : rehash = <<c>> /\ DictExpanding(c))'
    BY <2>1, <2>3
  <2>7. DictTable'
    BY <2>1, <2>5, <2>6 DEF DictTable
  <2> QED BY <2>1, <2>4, <2>7
<1>9. CASE call.next < call.old.size /\ a \notin D!Marks
  <2>1. /\ after \in [old : DictArrays, next : Nat] /\ after.old = call.old
        /\ after.next = call.next + 1 /\ call.next + 1 <= call.old.size
        /\ a \in D!Binding /\ D!Left(call) = D!Left(after) \cup {a}
    <3>1. /\ after \in [old : DictArrays, next : Nat] /\ after.old = call.old
          /\ after.next = call.next + 1 /\ call.next + 1 <= call.old.size
          /\ a \in DictCells /\ D!Left(call) = D!Left(after) \cup ({a} \ D!Marks)
      BY <1>2, <1>3, <1>4, <1>9, DictLeftNext
    <3> QED BY <3>1, <1>9 DEF DictCells
  <2>2. a.key \in DictKey /\ a.value \in Value /\ a = [key |-> a.key, value |-> a.value]
    BY <2>1 DEF D!Binding
  <2>3. iter' = D!Stale
    BY <1>5, <1>9
  <2>4. CASE ~ D!AddEnds(a.key)
    <3>1. status' = "looping" /\ UNCHANGED <<inner, numBindings, rehash, removing, answer, program>>
      BY <2>4, <1>5, <1>9 DEF D!Hang
    <3> QED BY <3>1, <2>3, DictTableStays
  <2>5. CASE D!AddEnds(a.key)
    <3>1. D!Store(a.key, a.value, <<after>>) /\ answer' = answer
      BY <2>5, <1>5, <1>9
    <3>2. PICK w, count :
            /\ DictTyped(w) /\ DictSound(program, w) /\ w.size = inner.size
            /\ count = Cardinality(Taken(w))
            /\ D!Bound(w) = {b \in D!Bound(inner) : b.key # a.key} \cup {a}
            /\ count \in Nat /\ count <= numBindings + 1
            /\ count * 2 > inner.size \/ (inner' = w /\ numBindings' = count /\ rehash' = <<after>>)
            /\ UNCHANGED <<removing, status, program>>
      <4>1. PICK w, count :
              /\ DictTyped(w) /\ DictSound(program, w) /\ w.size = inner.size
              /\ count = Cardinality(Taken(w))
              /\ D!Bound(w) = {b \in D!Bound(inner) : b.key # a.key}
                              \cup {[key |-> a.key, value |-> a.value]}
              /\ count \in Nat /\ count <= numBindings + 1
              /\ IF count * 2 > inner.size
                 THEN /\ inner' = D!Blank(inner.size * 2) /\ numBindings' = 0
                      /\ rehash' = Append(<<after>>, [old |-> w, next |-> 0])
                 ELSE inner' = w /\ numBindings' = count /\ rehash' = <<after>>
              /\ UNCHANGED <<removing, status, program>>
        BY <2>2, <2>5, <3>1, DictStoreStep
      <4> QED BY <4>1, <2>2
    <3>3. /\ inner' = w /\ numBindings' = count /\ rehash' = <<after>> /\ count <= after.next
      <4>1. count <= after.next /\ ~ (count * 2 > inner.size)
        BY <2>1, <3>2, <1>2
      <4> QED BY <4>1, <3>2
    <3>4. D!Bound(w) = D!Bound(inner) \cup {a}
      BY <2>1, <3>2, <1>6
    <3>5. D!All' = D!All
      <4>1. D!All' = D!Bound(inner') \cup D!Left(after)
        BY <3>3, DictPendingNext
      <4> QED BY <4>1, <3>3, <3>4, <2>1, <1>6
    <3>6. (\A b, c \in D!All : b.key = c.key => b = c)'
      BY <3>5, <1>6
    <3>7. DictExpanding(after)'
      BY <2>1, <3>2, <3>3, <1>2 DEF DictExpanding
    <3>8. (rehash = << >> \/ \E c : rehash = <<c>> /\ DictExpanding(c))'
      BY <3>3, <3>7
    <3>9. DictTable'
      BY <3>2, <3>3, <3>6, <3>8, <1>6 DEF DictTable
    <3> QED BY <3>1, <3>2, <3>5, <3>9, <2>3
  <2> QED BY <2>4, <2>5
<1> QED BY <1>7, <1>8, <1>9

\* The slots in gone are vacated.
LEMMA DictVacates ==
  ASSUME D!ConstantsOK, DictTable, rehash = << >>, Removes(program),
         NEW gone \in SUBSET Taken(inner), inner' = Vacated(inner, gone),
         numBindings' = numBindings - Cardinality(gone), UNCHANGED <<rehash, program>>
  PROVE  /\ DictTable'
         /\ D!All' = {inner.at[t] : t \in Taken(inner) \ gone}
<1>1. PICK a : a = inner
  OBVIOUS
<1>2. PICK w : w = Vacated(a, gone)
  OBVIOUS
<1>3. PICK p \in Programs : p = program
  BY DEF DictTable
<1>4. /\ DictTyped(w) /\ w.size = a.size /\ DictSound(p, w)
      /\ Taken(w) = Taken(a) \ gone /\ \A t \in Taken(w) : w.at[t] = a.at[t]
      /\ Cardinality(Taken(w)) = Cardinality(Taken(a)) - Cardinality(gone)
  <2>1. DictTyped(a) /\ DictSound(p, a) /\ Removes(p)
    BY <1>1, <1>3 DEF DictTable
  <2> QED BY <2>1, <1>1, <1>2, VacatedIsSound
<1>5. inner' = w /\ rehash' = << >> /\ program' = p
  BY <1>1, <1>2, <1>3
<1>6. D!All' = {a.at[t] : t \in Taken(a) \ gone}
  <2>1. D!All' = D!Bound(w)
    BY <1>5 DEF D!All, D!Pending, D!Bound
  <2>2. D!Bound(w) = {w.at[t] : t \in Taken(w)}
    BY BoundIs
  <2> QED BY <2>1, <2>2, <1>4
<1>7. \A b, c \in D!All' : b.key = c.key => b = c
  <2>1. \A b \in D!All' : b \in D!Bound(a)
    BY <1>6, BoundIs
  <2> QED BY <2>1, <1>1, DictNothingPending DEF DictTable
<1>8. numBindings' = Cardinality(Taken(w))
  BY <1>1, <1>4 DEF DictTable
<1>9. DictTable'
  <2>1. (\A b, c \in D!All : b.key = c.key => b = c)'
    BY <1>7
  <2> QED BY <2>1, <1>3, <1>4, <1>5, <1>8 DEF DictTable
<1> QED BY <1>1, <1>6, <1>9

LEMMA DictVacateTable ==
  ASSUME D!ConstantsOK, DictTable, rehash = << >>, Removes(program),
         NEW k \in DictKey, D!FindEnds(k), D!Vacate(k)
  PROVE  /\ DictTable' /\ UNCHANGED <<rehash, status, program>>
         /\ D!All' = {b \in D!All : b.key # k}
         /\ answer' = <<"removeKey", k, IF \E b \in D!All : b.key = k THEN k ELSE ABSENT>>
         /\ removing' \in {removing, FALSE}
<1>1. PICK q : q = D!findPosition(k)
  OBVIOUS
<1>2. PICK p \in Programs : p = program
  BY DEF DictTable
<1>3. /\ q \in 0 .. inner.size - 1
      /\ \/ inner.at[q] = UNUSED /\ \A t \in Taken(inner) : inner.at[t].key # k
         \/ /\ q \in Taken(inner) /\ inner.at[q].key = k
            /\ \A t \in Taken(inner) : inner.at[t].key = k => t = q
  <2>1. CanFind(p, inner, k) /\ q = FoundIn(p, inner, k) /\ DictTyped(inner) /\ InPlace(p, inner)
    BY <1>1, <1>2, DictStateIsSound DEF DictTable, DictSound
  <2> QED BY <2>1, FindPlace
<1>4. /\ inner' = IF inner.at[q] # UNUSED THEN DictChanged(inner, q, REMOVED) ELSE inner
      /\ numBindings' = IF inner.at[q] # UNUSED THEN numBindings - 1 ELSE numBindings
      /\ removing' = (removing /\ inner.at[q] # UNUSED)
      /\ answer' = <<"removeKey", k, IF inner.at[q] # UNUSED THEN k ELSE ABSENT>>
      /\ UNCHANGED <<rehash, status, program>>
  BY <1>1 DEF D!Vacate, DictChanged
<1>5. D!All = {inner.at[t] : t \in Taken(inner)}
  BY DictNothingPending, BoundIs
<1>6. CASE inner.at[q] = UNUSED
  <2>1. \A b \in D!All : b.key # k
    BY <1>3, <1>5, <1>6, MarksApart DEF Taken
  <2>2. DictTable' /\ D!All' = D!All
    BY <1>4, <1>6, DictTableStays
  <2>3. removing' = FALSE
    BY <1>4, <1>6
  <2> QED BY <2>1, <2>2, <2>3, <1>4, <1>6
<1>7. CASE inner.at[q] # UNUSED
  <2>1. q \in Taken(inner) /\ inner.at[q].key = k /\ \A t \in Taken(inner) : inner.at[t].key = k => t = q
    BY <1>3, <1>7
  <2>2. inner' = Vacated(inner, {q})
    <3>1. PICK a : a = inner
      OBVIOUS
    <3>2. a.at = [t \in 0 .. a.size - 1 |-> a.at[t]]
      BY <3>1 DEF DictTable, DictTyped
    <3>3. [a.at EXCEPT ![q] = REMOVED] = [t \in 0 .. a.size - 1 |-> IF t \in {q} THEN REMOVED ELSE a.at[t]]
      BY <3>2
    <3>4. DictChanged(a, q, REMOVED) = Vacated(a, {q})
      BY <3>3 DEF DictChanged, Vacated
    <3> QED BY <3>1, <3>4, <1>4, <1>7
  <2>3. numBindings' = numBindings - Cardinality({q})
    BY <1>4, <1>7, FS_Singleton
  <2>4. DictTable' /\ D!All' = {inner.at[t] : t \in Taken(inner) \ {q}}
    BY <2>1, <2>2, <2>3, <1>4, DictVacates
  <2>5. D!All' = {b \in D!All : b.key # k}
    BY <2>1, <2>4, <1>5
  <2>6. \E b \in D!All : b.key = k
    BY <2>1, <1>5
  <2>7. removing' = removing \/ removing' = FALSE
    BY <1>4, <1>7
  <2> QED BY <2>4, <2>5, <2>6, <2>7, <1>4, <1>7
<1> QED BY <1>6, <1>7

LEMMA DictRemoveValueTable ==
  ASSUME D!ConstantsOK, DictTable, rehash = << >>, NEW v \in Value, D!RemoveValue(v)
  PROVE  /\ DictTable' /\ UNCHANGED <<rehash, removing, status, program>>
         /\ D!All' = {b \in D!All : b.value # v}
         /\ answer' = <<"removeValue", v, IF \E b \in D!All : b.value = v THEN v ELSE ABSENT>>
<1>1. PICK gone : gone = {t \in Taken(inner) : inner.at[t].value = v}
  OBVIOUS
<1>2. gone = {t \in D!Slots : inner.at[t] \notin D!Marks /\ inner.at[t].value = v}
  BY <1>1 DEF Taken, D!Slots
<1>3. /\ inner' = Vacated(inner, gone) /\ numBindings' = numBindings - Cardinality(gone)
      /\ answer' = <<"removeValue", v, IF gone = {} THEN ABSENT ELSE v>>
      /\ Removes(program) /\ UNCHANGED <<rehash, removing, status, program>>
  <2>1. /\ inner' = [inner EXCEPT !.at =
                       [t \in D!Slots |-> IF t \in gone THEN REMOVED ELSE inner.at[t]]]
        /\ numBindings' = numBindings - D!Cardinality(gone)
        /\ answer' = <<"removeValue", v, IF gone = {} THEN ABSENT ELSE v>>
        /\ Removes(program) /\ UNCHANGED <<rehash, removing, status, program>>
    BY <1>2 DEF D!RemoveValue, Removes
  <2> QED BY <2>1, SameCount DEF Vacated, D!Slots
<1>4. D!All = {inner.at[t] : t \in Taken(inner)}
  BY DictNothingPending, BoundIs
<1>5. DictTable' /\ D!All' = {inner.at[t] : t \in Taken(inner) \ gone}
  <2>1. gone \in SUBSET Taken(inner)
    BY <1>1
  <2> QED BY <2>1, <1>3, DictVacates
<1>6. D!All' = {b \in D!All : b.value # v}
  BY <1>1, <1>4, <1>5
<1>7. (gone = {}) <=> ~ (\E b \in D!All : b.value = v)
  BY <1>1, <1>4
<1> QED BY <1>3, <1>5, <1>6, <1>7

LEMMA DictHangStep ==
  ASSUME DictInv, D!Hang, iter' \in {iter, D!Stale}
  PROVE  DictInv' /\ UNCHANGED <<D!All, answer>>
<1>1. status' = "looping" /\ UNCHANGED <<inner, numBindings, rehash, removing, answer, program>>
  BY DEF D!Hang
<1>2. DictTable' /\ D!All' = D!All
  BY <1>1, DictTableStays DEF DictInv
<1>3. DictIteration' /\ (iter'.stale \/ iter' = iter)
  BY <1>1, DictIterationStays, DictIterationLoses DEF DictInv
<1> QED BY <1>1, <1>2, <1>3 DEF DictInv

LEMMA DictPutStep ==
  ASSUME D!ConstantsOK, DictInv, NEW k \in DictKey, NEW v \in Value, D!Put(k, v)
  PROVE  /\ DictInv'
         /\ \/ /\ D!All' = {b \in D!All : b.key # k} \cup {[key |-> k, value |-> v]}
               /\ answer' = <<"put", k, v>>
            \/ UNCHANGED <<D!All, answer>>
<1>1. rehash = << >> /\ status = "running" /\ removing = FALSE /\ iter' = D!Stale
  BY DEF D!Put, D!Idle, DictInv
<1>2. CASE ~ D!AddEnds(k)
  <2>1. D!Hang
    BY <1>2 DEF D!Put
  <2> QED BY <2>1, <1>1, DictHangStep
<1>3. CASE D!AddEnds(k)
  <2>1. D!Store(k, v, << >>) /\ answer' = <<"put", k, v>>
    BY <1>3 DEF D!Put
  <2>2. /\ DictTable' /\ UNCHANGED <<removing, status, program>>
        /\ D!All' = {b \in D!All : b.key # k} \cup {[key |-> k, value |-> v]}
    BY <2>1, <1>1, <1>3, DictPutTable DEF DictInv
  <2>3. DictIteration'
    BY <1>1, DictIterationLoses DEF DictInv
  <2> QED BY <2>1, <2>2, <2>3, <1>1 DEF DictInv
<1> QED BY <1>2, <1>3

LEMMA DictRoundStep ==
  ASSUME D!ConstantsOK, DictInv, D!ExpandRound
  PROVE  DictInv' /\ UNCHANGED <<D!All, answer>>
<1>1. /\ DictTable' /\ UNCHANGED <<D!All, removing, answer, program>>
      /\ status' \in {status, "looping"} /\ iter' \in {iter, D!Stale}
  BY DictRoundTable DEF DictInv
<1>2. rehash # << >>
  BY DEF D!ExpandRound
<1>3. iter.stale /\ removing = FALSE
  BY <1>2 DEF DictInv, DictIteration, DictIterating
<1>4. DictIteration'
  BY <1>1, <1>3, DictIterationLoses DEF DictInv
<1> QED BY <1>1, <1>3, <1>4 DEF DictInv

\* Where a request finds its key.
LEMMA DictBoundAt ==
  ASSUME D!ConstantsOK, DictTable, rehash = << >>, NEW k \in DictKey, D!FindEnds(k)
  PROVE  \/ inner.at[D!findPosition(k)] = UNUSED /\ \A b \in D!All : b.key # k
         \/ /\ inner.at[D!findPosition(k)] # UNUSED /\ inner.at[D!findPosition(k)] \in D!All
            /\ inner.at[D!findPosition(k)].key = k
<1>1. PICK q : q = D!findPosition(k)
  OBVIOUS
<1>2. PICK p \in Programs : p = program
  BY DEF DictTable
<1>3. \/ inner.at[q] = UNUSED /\ \A t \in Taken(inner) : inner.at[t].key # k
      \/ q \in Taken(inner) /\ inner.at[q].key = k
  <2>1. CanFind(p, inner, k) /\ q = FoundIn(p, inner, k) /\ DictTyped(inner) /\ InPlace(p, inner)
    BY <1>1, <1>2, DictStateIsSound DEF DictTable, DictSound
  <2> QED BY <2>1, FindPlace
<1>4. D!All = {inner.at[t] : t \in Taken(inner)}
  BY DictNothingPending, BoundIs
<1> QED BY <1>1, <1>3, <1>4, MarksApart DEF Taken

LEMMA DictAskStep ==
  ASSUME D!ConstantsOK, DictInv, NEW k \in DictKey, D!Get(k) \/ D!ContainsKey(k)
  PROVE  DictInv' /\ D!All' = D!All /\ (~ D!FindEnds(k) => answer' = answer) /\ rehash = << >>
<1>1. rehash = << >> /\ iter' = iter
  BY DEF D!Get, D!ContainsKey, D!Idle
<1>2. CASE ~ D!FindEnds(k)
  <2>1. D!Hang
    BY <1>2 DEF D!Get, D!ContainsKey
  <2> QED BY <2>1, <1>1, DictHangStep
<1>3. CASE D!FindEnds(k)
  <2>1. UNCHANGED <<inner, numBindings, rehash, removing, status, program>>
    BY <1>3 DEF D!Get, D!ContainsKey
  <2>2. DictTable' /\ D!All' = D!All /\ DictIteration'
    BY <2>1, <1>1, DictTableStays, DictIterationStays DEF DictInv
  <2> QED BY <2>1, <2>2, <1>1, <1>3 DEF DictInv
<1> QED BY <1>2, <1>3

LEMMA DictRemoveStep ==
  ASSUME D!ConstantsOK, DictInv, NEW k \in DictKey, D!RemoveKey(k) \/ D!RemoveAllKeysRound(k)
  PROVE  /\ DictInv'
         /\ \/ /\ D!All' = {b \in D!All : b.key # k}
               /\ answer' = <<"removeKey", k, IF \E b \in D!All : b.key = k THEN k ELSE ABSENT>>
            \/ UNCHANGED <<D!All, answer>>
<1>1. /\ rehash = << >> /\ status = "running" /\ Removes(program)
      /\ iter' = D!Stale \/ (iter' = iter /\ iter.stale)
  BY DEF D!RemoveKey, D!RemoveAllKeysRound, D!Idle, DictInv, Removes
<1>2. CASE ~ D!FindEnds(k)
  <2>1. D!Hang
    BY <1>2 DEF D!RemoveKey, D!RemoveAllKeysRound
  <2> QED BY <2>1, <1>1, DictHangStep
<1>3. CASE D!FindEnds(k)
  <2>1. D!Vacate(k)
    BY <1>3 DEF D!RemoveKey, D!RemoveAllKeysRound
  <2>2. /\ DictTable' /\ UNCHANGED <<rehash, status, program>>
        /\ D!All' = {b \in D!All : b.key # k}
        /\ answer' = <<"removeKey", k, IF \E b \in D!All : b.key = k THEN k ELSE ABSENT>>
        /\ removing' \in {removing, FALSE}
    BY <2>1, <1>1, <1>3, DictVacateTable DEF DictInv
  <2>3. DictIteration' /\ iter'.stale
    BY <1>1, DictIterationLoses DEF DictInv
  <2> QED BY <2>2, <2>3, <1>1 DEF DictInv
<1> QED BY <1>2, <1>3

LEMMA DictBulkStep ==
  ASSUME D!ConstantsOK, DictInv, D!RemoveAllKeysStarts \/ D!RemoveAllKeysEnds
  PROVE  DictInv' /\ UNCHANGED <<D!All, answer>>
<1>1. /\ UNCHANGED <<inner, numBindings, rehash, status, answer, program>>
      /\ rehash = << >> /\ removing' \in BOOLEAN /\ Removes(program)
      /\ iter' = D!Stale \/ (iter' = iter /\ iter.stale)
  BY DEF D!RemoveAllKeysStarts, D!RemoveAllKeysEnds, D!Idle, DictInv, Removes
<1>2. DictTable' /\ D!All' = D!All
  BY <1>1, DictTableStays DEF DictInv
<1>3. DictIteration' /\ iter'.stale
  BY <1>1, DictIterationLoses DEF DictInv
<1> QED BY <1>1, <1>2, <1>3 DEF DictInv

LEMMA DictRemoveValueStep ==
  ASSUME D!ConstantsOK, DictInv, NEW v \in Value, D!RemoveValue(v)
  PROVE  /\ DictInv'
         /\ D!All' = {b \in D!All : b.value # v}
         /\ answer' = <<"removeValue", v, IF \E b \in D!All : b.value = v THEN v ELSE ABSENT>>
<1>1. rehash = << >> /\ removing = FALSE /\ iter' = D!Stale
  BY DEF D!RemoveValue, D!Idle, DictInv
<1>2. /\ DictTable' /\ UNCHANGED <<rehash, removing, status, program>>
      /\ D!All' = {b \in D!All : b.value # v}
      /\ answer' = <<"removeValue", v, IF \E b \in D!All : b.value = v THEN v ELSE ABSENT>>
  BY <1>1, DictRemoveValueTable DEF DictInv
<1>3. DictIteration'
  BY <1>1, DictIterationLoses DEF DictInv
<1> QED BY <1>1, <1>2, <1>3 DEF DictInv

LEMMA DictNewIteratorStep ==
  ASSUME DictAssumptions, DictInv, D!NewIterator
  PROVE  DictInv' /\ UNCHANGED <<D!All, answer>>
<1>1. /\ UNCHANGED <<inner, numBindings, rehash, removing, status, answer, program>>
      /\ rehash = << >>
      /\ iter' = [stale |-> FALSE, count |-> 1, idx |-> 0, given |-> {}, made |-> D!Bound(inner)]
  BY DEF D!NewIterator, D!MayIterate
<1>2. removing = FALSE
  BY DEF D!NewIterator, D!MayIterate, DictInv, DictTable, DictAssumptions, RegularPrograms
<1>3. DictTable' /\ D!All' = D!All /\ D!Bound(inner) \subseteq D!Binding
  BY <1>1, DictTableStays, DictStateIsSound DEF DictInv, DictAssumptions
<1>4. /\ iter' \in DictIterator /\ iter'.idx = 0 /\ iter'.count = 1 /\ iter'.given = {}
      /\ iter'.made = D!Bound(inner) /\ iter'.stale = FALSE
  BY <1>1, <1>3 DEF DictIterator
<1>5. DictPassed' = {} /\ D!Bound(inner)' = D!Bound(inner)
  <2>1. DictPassed' = {t \in Taken(inner) : t < 0}
    BY <1>1, <1>4 DEF DictPassed
  <2>2. \A t \in Taken(inner) : t \in Nat
    BY DictCell DEF DictInv, DictTable
  <2> QED BY <2>1, <2>2, <1>1
<1>6. DictIterating'
  <2>1. Cardinality(DictPassed') = 0
    BY <1>5, FS_EmptySet
  <2> QED BY <2>1, <1>1, <1>2, <1>4, <1>5 DEF DictIterating
<1>7. DictIteration'
  BY <1>4, <1>6 DEF DictIteration
<1> QED BY <1>1, <1>2, <1>3, <1>7 DEF DictInv

LEMMA DictIteratorNextStep ==
  ASSUME D!ConstantsOK, DictInv, D!IteratorNext
  PROVE  /\ DictInv' /\ UNCHANGED <<D!All, answer>>
         /\ D!Bound(inner) = iter.made /\ status' = "running" /\ iter'.given # iter.given
         /\ iter'.count > numBindings => iter'.given = {b.key : b \in iter.made}
<1>1. /\ UNCHANGED <<inner, numBindings, rehash, removing, answer, program>>
      /\ status = "running" /\ ~ iter.stale /\ iter.count <= numBindings
  BY DEF D!IteratorNext, D!MayIterate
<1>2. DictTable' /\ D!All' = D!All
  BY <1>1, DictTableStays DEF DictInv
<1>3. PICK i \in DictIterator : i = iter
  BY DEF DictInv, DictIteration
<1>4. PICK a : a = inner
  OBVIOUS
<1> DEFINE ahead == {t \in i.idx .. a.size - 1 : a.at[t] \notin D!Marks}
           passed == {t \in Taken(a) : t < i.idx}
<1>5. /\ DictTyped(a) /\ InPlace(program, a) /\ a.size \in Nat \ {0}
      /\ i.idx \in Nat /\ i.count \in Nat /\ i.given \in SUBSET DictKey
      /\ numBindings = Cardinality(Taken(a)) /\ numBindings \in Nat /\ IsFiniteSet(Taken(a))
  BY <1>3, <1>4, DictStateIsSound, TakenIsFinite DEF DictInv, DictTable, DictSound, DictIterator
<1>6. /\ rehash = << >> /\ ~ removing /\ D!Bound(a) = i.made
      /\ i.given = {a.at[t].key : t \in passed} /\ i.count = 1 + Cardinality(passed)
  BY <1>1, <1>3, <1>4 DEF DictInv, DictIteration, DictIterating, DictPassed
<1>7. \A t : t \in ahead <=> t \in Taken(a) /\ t \notin passed
  BY <1>5 DEF Taken
<1>8. passed \subseteq Taken(a) /\ IsFiniteSet(passed) /\ Cardinality(passed) \in Nat
  BY <1>5, FS_Subset, FS_CardinalityType
<1>9. ahead # {}
  <2>1. SUFFICES ASSUME ahead = {} PROVE FALSE
    OBVIOUS
  <2>2. passed = Taken(a)
    BY <2>1, <1>7
  <2>3. Cardinality(passed) = numBindings
    BY <2>2, <1>5
  <2> HIDE DEF passed
  <2> QED BY <2>3, <1>1, <1>3, <1>5, <1>6
<1>10. \A t \in ahead : t \in Nat /\ t \in 0 .. a.size - 1 /\ i.idx <= t
  BY <1>5
<1>11. PICK t \in ahead : (\A u \in ahead : t <= u) /\ t = CHOOSE y \in ahead : \A u \in ahead : y <= u
  <2>1. ahead \subseteq Nat
    BY <1>10
  <2> QED BY <2>1, <1>9, Least
<1>12. /\ iter' = [i EXCEPT !.count = i.count + 1, !.idx = t + 1, !.given = i.given \cup {a.at[t].key}]
       /\ status' = status
  BY <1>3, <1>4, <1>9, <1>11 DEF D!IteratorNext
<1>13. /\ t \in Nat /\ t \in 0 .. a.size - 1 /\ t \in Taken(a) /\ t \notin passed
       /\ a.at[t].key \in DictKey
  BY <1>5, <1>7, <1>10, DictCell
<1> HIDE DEF ahead, passed
<1>14. /\ iter' \in DictIterator /\ iter'.idx = t + 1 /\ iter'.count = i.count + 1
       /\ iter'.given = i.given \cup {a.at[t].key} /\ iter'.made = i.made /\ iter'.stale = i.stale
  <2>1. PICK c \in Nat, g \in SUBSET DictKey, j \in Nat :
          c = i.count + 1 /\ g = i.given \cup {a.at[t].key} /\ j = t + 1
    <3>1. i.count + 1 \in Nat /\ i.given \cup {a.at[t].key} \in SUBSET DictKey /\ t + 1 \in Nat
      BY <1>5, <1>13
    <3> QED BY <3>1
  <2>2. iter' = [i EXCEPT !.count = c, !.idx = j, !.given = g]
    BY <2>1, <1>12
  <2>3. /\ iter' \in DictIterator /\ iter'.idx = j /\ iter'.count = c
        /\ iter'.given = g /\ iter'.made = i.made /\ iter'.stale = i.stale
    BY <2>2 DEF DictIterator
  <2> QED BY <2>1, <2>3
<1>15. PICK now : now = {u \in Taken(a) : u < t + 1}
  OBVIOUS
<1>16. now = passed \cup {t}
  <2>1. \A u \in Taken(a) : u < t + 1 <=> u < i.idx \/ u = t
    <3>1. TAKE u \in Taken(a)
    <3>2. u \in Nat /\ i.idx <= t
      BY <1>5, <1>10, DictCell
    <3>3. u < i.idx \/ t <= u
      BY <1>7, <1>11 DEF passed
    <3> QED BY <3>2, <3>3, <1>5, <1>13
  <2> QED BY <2>1, <1>13, <1>15 DEF passed
<1>17. Cardinality(now) = Cardinality(passed) + 1
  BY <1>8, <1>13, <1>16, FS_AddElement
<1>18. DictIteration'
  <2>1. DictPassed' = now /\ inner' = a
    BY <1>1, <1>4, <1>14, <1>15 DEF DictPassed
  <2>2. iter'.given = {a.at[u].key : u \in now} /\ iter'.count = 1 + Cardinality(now)
    BY <1>6, <1>8, <1>14, <1>16, <1>17
  <2>3. rehash' = << >> /\ ~ removing' /\ D!Bound(inner') = iter'.made
    BY <2>1, <1>1, <1>6, <1>14
  <2>4. DictIterating'
    BY <2>1, <2>2, <2>3 DEF DictIterating
  <2> QED BY <2>4, <1>14 DEF DictIteration
<1>19. a.at[t].key \notin i.given
  <2>1. \A u \in Taken(a) : a.at[t].key = a.at[u].key => t = u
    BY <1>5, <1>13 DEF InPlace
  <2> QED BY <2>1, <1>6, <1>8, <1>13
<1>20. ASSUME i.count + 1 > numBindings PROVE i.given \cup {a.at[t].key} = {b.key : b \in i.made}
  <2>1. now \subseteq Taken(a) /\ Cardinality(now) = Cardinality(Taken(a))
    <3>1. now \subseteq Taken(a)
      BY <1>15
    <3>2. Cardinality(now) <= Cardinality(Taken(a))
      BY <3>1, <1>5, FS_Subset
    <3> QED BY <3>1, <3>2, <1>5, <1>6, <1>8, <1>17, <1>20
  <2>2. now = Taken(a)
    BY <2>1, <1>5, FS_Subset
  <2>3. i.given \cup {a.at[t].key} = {a.at[u].key : u \in now}
    BY <1>6, <1>16
  <2>4. i.made = {a.at[u] : u \in Taken(a)}
    BY <1>6, BoundIs
  <2>5. {b.key : b \in i.made} = {a.at[u].key : u \in Taken(a)}
    BY <2>4
  <2> QED BY <2>2, <2>3, <2>5
<1>21. DictInv'
  BY <1>1, <1>2, <1>6, <1>12, <1>18 DEF DictInv
<1> QED BY <1>1, <1>2, <1>3, <1>4, <1>6, <1>12, <1>14, <1>19, <1>20, <1>21

LEMMA DictInitInv ==
  ASSUME DictAssumptions, D!Init
  PROVE  DictInv /\ D!All = {}
<1>1. /\ inner = D!Blank(DictCapacity) /\ numBindings = 0 /\ rehash = << >> /\ removing = FALSE
      /\ iter = D!NoIter /\ status = "running" /\ program \in Programs
  BY DEF D!Init
<1>2. D!ConstantsOK /\ DictCapacity \in Nat \ {0}
  BY DEF DictAssumptions, D!ConstantsOK
<1>3. Removes(program) => HomesDiffer(program, DictCapacity)
  BY <1>1 DEF DictAssumptions, RegularPrograms, Removes, HomesDiffer
<1>4. /\ DictTyped(inner) /\ DictSound(program, inner) /\ D!Bound(inner) = {}
      /\ Cardinality(Taken(inner)) = 0
  BY <1>1, <1>2, <1>3, DictBlank
<1>5. D!All = {}
  BY <1>1, <1>4, DictNothingPending
<1>6. DictTable
  BY <1>1, <1>4, <1>5 DEF DictTable
<1>7. iter \in DictIterator /\ iter.stale
  BY <1>1 DEF D!NoIter, DictIterator
<1> QED BY <1>1, <1>5, <1>6, <1>7 DEF DictInv, DictIteration

LEMMA DictNextInv ==
  ASSUME DictAssumptions, DictInv, [D!Next]_D!vars
  PROVE  DictInv'
<1> USE DEF DictAssumptions
<1>1. CASE UNCHANGED D!vars
  <2>1. UNCHANGED <<inner, numBindings, rehash, removing, iter, status, program>>
    BY <1>1 DEF D!vars
  <2>2. DictTable' /\ DictIteration'
    BY <2>1, DictTableStays, DictIterationStays DEF DictInv
  <2> QED BY <2>1, <2>2 DEF DictInv
<1>2. ASSUME NEW k \in DictKey, NEW v \in Value, D!Put(k, v) PROVE DictInv'
  BY <1>2, DictPutStep
<1>3. ASSUME NEW k \in DictKey, D!Get(k) \/ D!ContainsKey(k) PROVE DictInv'
  BY <1>3, DictAskStep
<1>4. ASSUME NEW k \in DictKey, D!RemoveKey(k) \/ D!RemoveAllKeysRound(k) PROVE DictInv'
  BY <1>4, DictRemoveStep
<1>5. CASE D!ExpandRound
  BY <1>5, DictRoundStep
<1>6. CASE D!RemoveAllKeysStarts \/ D!RemoveAllKeysEnds
  BY <1>6, DictBulkStep
<1>7. ASSUME NEW v \in Value, D!RemoveValue(v) PROVE DictInv'
  BY <1>7, DictRemoveValueStep
<1>8. CASE D!NewIterator
  BY <1>8, DictNewIteratorStep
<1>9. CASE D!IteratorNext
  BY <1>9, DictIteratorNextStep
<1> QED BY <1>1, <1>2, <1>3, <1>4, <1>5, <1>6, <1>7, <1>8, <1>9 DEF D!Next

LEMMA DictInvImplies ==
  ASSUME D!ConstantsOK, DictInv
  PROVE  D!TypeOK /\ D!SizeIsExact /\ D!Findable
<1>1. /\ DictTyped(inner) /\ InPlace(program, inner) /\ numBindings = Cardinality(Taken(inner))
      /\ inner.size \in Nat \ {0} /\ numBindings \in Nat /\ program \in Programs
  BY DictStateIsSound DEF DictInv, DictTable, DictSound
<1>2. /\ Len(rehash) <= 1
      /\ \A i \in 1 .. Len(rehash) :
           /\ rehash[i].old.at \in [0 .. rehash[i].old.size - 1 -> D!Binding \cup D!Marks]
           /\ rehash[i].next \in 0 .. rehash[i].old.size
  <2>1. CASE rehash = << >>
    BY <2>1
  <2>2. CASE rehash # << >>
    <3>1. PICK call : rehash = <<call>> /\ DictExpanding(call)
      BY <2>2 DEF DictInv, DictTable
    <3>2. Len(rehash) = 1 /\ \A i \in 1 .. Len(rehash) : rehash[i] = call
      BY <3>1
    <3>3. /\ call.old.at \in [0 .. call.old.size - 1 -> D!Binding \cup D!Marks]
          /\ call.next \in 0 .. call.old.size
      BY <3>1 DEF DictExpanding, DictTyped, DictArrays, DictCells
    <3> QED BY <3>2, <3>3
  <2> QED BY <2>1, <2>2
<1>3. D!TypeOK
  <2>1. inner.at \in [D!Slots -> D!Binding \cup D!Marks]
    BY <1>1 DEF DictTyped, DictCells, D!Slots
  <2>2. /\ iter.count \in Nat /\ iter.given \subseteq DictKey /\ removing \in BOOLEAN
        /\ status \in {"running", "looping", "outOfBounds"}
    BY DEF DictInv, DictIteration, DictIterator
  <2> QED BY <2>1, <2>2, <1>1, <1>2 DEF D!TypeOK
<1>4. D!SizeIsExact
  <2>1. D!Cardinality({b.key : b \in D!Bound(inner)}) = numBindings
    BY <1>1, DictKeysCounted, SameCount
  <2>2. {t \in D!Slots : inner.at[t] \notin D!Marks} = Taken(inner)
    BY DEF Taken, D!Slots
  <2>3. D!Cardinality(Taken(inner)) = numBindings
    BY <1>1, SameCount
  <2> QED BY <2>1, <2>2, <2>3, <1>2 DEF D!SizeIsExact
<1>5. D!Findable
  <2>1. \A t \in D!Slots : inner.at[t] \notin D!Marks
          => CanFind(program, inner, inner.at[t].key) /\ FoundIn(program, inner, inner.at[t].key) = t
    BY <1>1 DEF InPlace, Taken, D!Slots
  <2> QED BY <2>1, DictStateIsSound DEF D!Findable, DictInv
<1> QED BY <1>3, <1>4, <1>5

----------------------------------------------------------------------------
(* The dictionary is a map.                                                 *)
LEMMA MapOfLess ==
  ASSUME NEW K, NEW S \in SUBSET [key : K, value : Value], \A b, c \in S : b.key = c.key => b = c,
         NEW T \in SUBSET S
  PROVE  MapOf(K, T) = [k \in K |-> IF \E b \in T : b.key = k THEN MapOf(K, S)[k] ELSE ABSENT]
<1>1. T \in SUBSET [key : K, value : Value] /\ \A b, c \in T : b.key = c.key => b = c
  OBVIOUS
<1>2. ASSUME NEW k \in K, NEW b \in T, b.key = k PROVE MapOf(K, T)[k] = MapOf(K, S)[k]
  BY <1>1, <1>2, MapOfIs
<1>3. \A k \in K : (\A b \in T : b.key # k) => MapOf(K, T)[k] = ABSENT
  BY <1>1, MapOfIs
<1>4. MapOf(K, T) = [k \in K |-> MapOf(K, T)[k]]
  BY DEF MapOf
<1> HIDE DEF MapOf
<1> QED BY <1>2, <1>3, <1>4

LEMMA DictMapStep ==
  ASSUME DictAssumptions, DictInv, [D!Next]_D!vars
  PROVE  [D!Map!Next]_<<D!mapped, answer>>
<1>1. D!ConstantsOK /\ ABSENT \notin Value
  BY DEF DictAssumptions, D!ConstantsOK
<1>2. /\ D!All \in SUBSET [key : DictKey, value : Value]
      /\ \A b, c \in D!All : b.key = c.key => b = c
  BY <1>1, DictStateIsSound DEF DictInv, DictTable, D!Binding
<1>3. D!mapped = MapOf(DictKey, D!All) /\ D!mapped' = MapOf(DictKey, D!All')
  BY DEF D!mapped, MapOf
<1>4. ASSUME NEW k \in DictKey, NEW v \in Value, D!Put(k, v)
      PROVE  D!Map!Next \/ UNCHANGED <<D!mapped, answer>>
  <2>1. CASE UNCHANGED <<D!All, answer>>
    BY <2>1, <1>3
  <2>2. CASE /\ D!All' = {b \in D!All : b.key # k} \cup {[key |-> k, value |-> v]}
             /\ answer' = <<"put", k, v>>
    <3>1. D!mapped' = [D!mapped EXCEPT ![k] = v]
      BY <2>2, <1>2, <1>3, MapOfPut
    <3>2. D!Map!Put(k, v)
      BY <2>2, <3>1 DEF D!Map!Put
    <3> QED BY <3>2 DEF D!Map!Next
  <2> QED BY <2>1, <2>2, <1>1, <1>4, DictPutStep
<1>5. ASSUME NEW k \in DictKey, D!Get(k) \/ D!ContainsKey(k)
      PROVE  D!Map!Next \/ UNCHANGED <<D!mapped, answer>>
  <2>1. D!mapped' = D!mapped /\ rehash = << >> /\ (~ D!FindEnds(k) => answer' = answer)
    BY <1>1, <1>3, <1>5, DictAskStep
  <2>2. CASE D!FindEnds(k)
    <3>1. PICK c : c = inner.at[D!findPosition(k)]
      OBVIOUS
    <3>2. /\ c = UNUSED => \A b \in D!All : b.key # k
          /\ c # UNUSED => c \in D!All /\ c.key = k
      BY <3>1, <2>1, <2>2, <1>1, DictBoundAt DEF DictInv
    <3>3. c = UNUSED => D!mapped[k] = ABSENT
      BY <3>2, <1>2, <1>3, MapOfIs
    <3>4. c # UNUSED => D!mapped[k] = c.value /\ c.value \in Value
      BY <3>2, <1>2, <1>3, MapOfIs
    <3>5. CASE D!Get(k)
      <4>1. answer' = <<"get", k, IF c = UNUSED THEN ABSENT ELSE c.value>>
        BY <3>1, <3>5, <2>2 DEF D!Get
      <4>2. D!Map!Get(k)
        BY <4>1, <3>3, <3>4, <2>1 DEF D!Map!Get
      <4> QED BY <4>2 DEF D!Map!Next
    <3>6. CASE D!ContainsKey(k)
      <4>1. answer' = <<"contains", k, c # UNUSED>>
        BY <3>1, <3>6, <2>2 DEF D!ContainsKey
      <4>2. (c # UNUSED) = (D!mapped[k] # ABSENT)
        BY <3>3, <3>4, <1>1
      <4>3. D!Map!Contains(k)
        BY <4>1, <4>2, <2>1 DEF D!Map!Contains
      <4> QED BY <4>3 DEF D!Map!Next
    <3> QED BY <1>5, <3>5, <3>6
  <2> QED BY <2>1, <2>2
<1>6. ASSUME NEW k \in DictKey, D!RemoveKey(k) \/ D!RemoveAllKeysRound(k)
      PROVE  D!Map!Next \/ UNCHANGED <<D!mapped, answer>>
  <2>1. CASE UNCHANGED <<D!All, answer>>
    BY <2>1, <1>3
  <2>2. CASE /\ D!All' = {b \in D!All : b.key # k}
             /\ answer' = <<"removeKey", k, IF \E b \in D!All : b.key = k THEN k ELSE ABSENT>>
    <3>1. (\E b \in D!All : b.key = k) <=> D!mapped[k] # ABSENT
      <4>1. (\E b \in D!All : b.key = k) => D!mapped[k] # ABSENT
        BY <1>1, <1>2, <1>3, MapOfIs
      <4>2. ~ (\E b \in D!All : b.key = k) => D!mapped[k] = ABSENT
        BY <1>2, <1>3, MapOfIs
      <4> QED BY <4>1, <4>2
    <3>2. D!mapped' = [D!mapped EXCEPT ![k] = ABSENT]
      <4>1. PICK m : m = D!mapped
        OBVIOUS
      <4>2. m = [q \in DictKey |-> m[q]] /\ \A q \in DictKey : (\A b \in D!All : b.key # q) => m[q] = ABSENT
        BY <4>1, <1>2, <1>3, MapOfIs DEF MapOf
      <4>3. D!mapped' = [q \in DictKey |-> IF \E b \in D!All' : b.key = q THEN m[q] ELSE ABSENT]
        <5>1. D!All' \in SUBSET D!All
          BY <2>2
        <5> QED BY <5>1, <4>1, <1>2, <1>3, MapOfLess
      <4>4. \A q \in DictKey : (\E b \in D!All' : b.key = q) <=> q # k /\ \E b \in D!All : b.key = q
        BY <2>2
      <4> QED BY <4>1, <4>2, <4>3, <4>4
    <3>3. D!Map!RemoveKey(k)
      BY <2>2, <3>1, <3>2 DEF D!Map!RemoveKey
    <3> QED BY <3>3 DEF D!Map!Next
  <2> QED BY <2>1, <2>2, <1>1, <1>6, DictRemoveStep
<1>7. ASSUME NEW v \in Value, D!RemoveValue(v)
      PROVE  D!Map!Next
  <2>1. /\ D!All' = {b \in D!All : b.value # v}
        /\ answer' = <<"removeValue", v, IF \E b \in D!All : b.value = v THEN v ELSE ABSENT>>
    BY <1>1, <1>7, DictRemoveValueStep
  <2>2. PICK m : m = D!mapped
    OBVIOUS
  <2>3. /\ \A q \in DictKey : (\A b \in D!All : b.key # q) => m[q] = ABSENT
        /\ \A b \in D!All : b.key \in DictKey /\ m[b.key] = b.value
    BY <2>2, <1>2, <1>3, MapOfIs
  <2>4. (\E b \in D!All : b.value = v) <=> ~ (\A k \in DictKey : m[k] # v)
    BY <2>3, <1>1
  <2>5. D!mapped' = [q \in DictKey |-> IF m[q] = v THEN ABSENT ELSE m[q]]
    <3>1. D!mapped' = [q \in DictKey |-> IF \E b \in D!All' : b.key = q THEN m[q] ELSE ABSENT]
      <4>1. D!All' \in SUBSET D!All
        BY <2>1
      <4> QED BY <4>1, <2>2, <1>2, <1>3, MapOfLess
    <3>2. \A q \in DictKey : (\E b \in D!All' : b.key = q) => m[q] # v
      BY <2>1, <2>3
    <3>3. \A q \in DictKey : ~ (\E b \in D!All' : b.key = q) => m[q] = v \/ m[q] = ABSENT
      BY <2>1, <2>3
    <3> QED BY <3>1, <3>2, <3>3
  <2>6. D!Map!RemoveValue(v)
    BY <2>1, <2>2, <2>4, <2>5 DEF D!Map!RemoveValue
  <2> QED BY <2>6 DEF D!Map!Next
<1>8. ASSUME \/ D!ExpandRound \/ D!RemoveAllKeysStarts \/ D!RemoveAllKeysEnds
             \/ D!NewIterator \/ D!IteratorNext \/ UNCHANGED D!vars
      PROVE  UNCHANGED <<D!mapped, answer>>
  <2>1. CASE UNCHANGED D!vars
    <3>1. UNCHANGED <<inner, numBindings, rehash, program, answer>>
      BY <2>1 DEF D!vars
    <3> QED BY <3>1, <1>3, DictTableStays DEF DictInv
  <2>2. CASE ~ UNCHANGED D!vars
    BY <2>2, <1>1, <1>3, <1>8, DictRoundStep, DictBulkStep, DictNewIteratorStep, DictIteratorNextStep
  <2> QED BY <2>1, <2>2
<1> QED BY <1>4, <1>5, <1>6, <1>7, <1>8 DEF D!Next

----------------------------------------------------------------------------
(* The dictionary's invariant holds for all regular programs, every set of  *)
(* keys and values and every size of the first array.                       *)
THEOREM DictionaryInvariance ==
  ASSUME DictAssumptions
  PROVE  D!Spec => []DictInv
<1>1. D!Init => DictInv
  BY DictInitInv
<1>2. DictInv /\ [D!Next]_D!vars => DictInv'
  BY DictNextInv
<1> QED BY <1>1, <1>2, PTL DEF D!Spec

(* The dictionary's array has a binding or a mark in every slot, its size   *)
(* is the number of its keys, and findPosition finds each of them, across   *)
(* the marks that removed keys have left.                                   *)
THEOREM DictionaryTable ==
  ASSUME DictAssumptions
  PROVE  D!Spec => [](D!TypeOK /\ D!SizeIsExact /\ D!Findable)
<1>1. DictInv => D!TypeOK /\ D!SizeIsExact /\ D!Findable
  BY DictInvImplies DEF DictAssumptions
<1> QED BY <1>1, DictionaryInvariance, PTL

(* An iterator over a dictionary gives every key once, never leaves the     *)
(* array, and gives nothing more once the dictionary has changed.           *)
THEOREM DictionaryIterates ==
  ASSUME DictAssumptions
  PROVE  D!Spec => D!FailFast /\ D!IteratesAll
<1>1. DictInv /\ [D!Next]_D!vars => [D!FailFastStep]_D!vars /\ [D!IteratesAllStep]_D!vars
  BY DictIteratorNextStep DEF D!FailFastStep, D!IteratesAllStep, DictAssumptions
<1> QED BY <1>1, DictionaryInvariance, PTL DEF D!Spec, D!FailFast, D!IteratesAll

(* A dictionary is a map: it implements MapSpec, between the rounds of      *)
(* expand and of removeAllKeys too.                                         *)
THEOREM DictionaryIsMap ==
  ASSUME DictAssumptions
  PROVE  D!Spec => D!IsMap
<1>1. D!Init => D!Map!Init
  <2>1. SUFFICES ASSUME D!Init PROVE D!Map!Init
    OBVIOUS
  <2>2. D!All = {} /\ answer = << >>
    BY <2>1, DictInitInv DEF D!Init
  <2>3. D!mapped = [k \in DictKey |-> ABSENT]
    BY <2>2 DEF D!mapped
  <2> QED BY <2>2, <2>3 DEF D!Map!Init
<1>2. DictInv /\ [D!Next]_D!vars => [D!Map!Next]_<<D!mapped, answer>>
  BY DictMapStep
<1> QED BY <1>1, <1>2, DictionaryInvariance, PTL DEF D!Spec, D!IsMap, D!Map!Spec
=============================================================================
