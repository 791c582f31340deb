-------------------------- MODULE GraceHeapProofs --------------------------
(***************************************************************************)
(* Proofs about GraceHeap for every number of addresses, every initial     *)
(* table size, collection period and mode.  The argument: a heap record is *)
(* Sound; marking computes the least closed set; a sweep, an expansion and *)
(* a registration each keep a record sound; so AllocObj does, and every    *)
(* other action can only shrink what the program reaches.                  *)
(***************************************************************************)
EXTENDS GraceHeap, FiniteSetTheorems, SequenceTheorems, TLAPS

Cells == Object \cup {NULL}

Tables == UNION {[0 .. n - 1 -> Cells] : n \in Nat}
HeapType == [living : Tables,
             size   : Nat \ {0},
             next   : Nat,
             max    : Nat,
             fse    : Int,
             marked : SUBSET Object,
             live   : SUBSET Object,
             dead   : SUBSET Object]

HolesOf(h) == {i \in 0 .. h.max - 1 : h.living[i] = NULL}
OnTable(h) == {h.living[i] : i \in 0 .. h.max - 1} \ {NULL}
Injective(living) ==
  \A i, j \in DOMAIN living : (living[i] = living[j] /\ living[i] # NULL) => i = j

Sound(h) ==
  /\ h \in HeapType
  /\ h.living \in [0 .. h.size - 1 -> Cells]
  /\ h.next = h.max
  /\ h.max <= h.size
  /\ \A i \in h.max .. h.size - 1 : h.living[i] = NULL
  /\ Injective(h.living)
  /\ h.fse = Cardinality(HolesOf(h))
  /\ gc_enabled => h.live = OnTable(h) /\ h.marked \subseteq h.live
  /\ h.dead \subseteq h.live
  /\ gc_dofree => h.dead = {}
  /\ h.size <= InitialSize \/ h.size <= 3 * Cardinality(Object)

----------------------------------------------------------------------------
(* Marking from seeds without flags reaches the seeds and is closed ...     *)
LEMMA MarkCloses ==
  ASSUME NEW edges \in [Object -> SUBSET Object], NEW seeds \in SUBSET Object
  PROVE  /\ gc_mark(edges, seeds, {}) \in SUBSET Object
         /\ seeds \subseteq gc_mark(edges, seeds, {})
         /\ \A o \in gc_mark(edges, seeds, {}) : edges[o] \subseteq gc_mark(edges, seeds, {})
BY DEF gc_mark, Traced, ClosedUnder

(* ... and nothing more: it stays inside every closed set with the seeds.   *)
LEMMA MarkIsLeast ==
  ASSUME NEW edges, NEW seeds, NEW C \in SUBSET Object,
         seeds \subseteq C, \A o \in C : edges[o] \subseteq C
  PROVE  gc_mark(edges, seeds, {}) \subseteq C
<1>1. seeds \ {} \subseteq C /\ ClosedUnder(C, edges, {})
  BY DEF ClosedUnder
<1> QED BY <1>1 DEF gc_mark, Traced

----------------------------------------------------------------------------
(* The rank of an element of a finite set of numbers, the number of smaller *)
(* elements, is a bijection onto an initial segment of the numbers.         *)
LEMMA RankIsBijective ==
  ASSUME NEW S \in SUBSET Nat, IsFiniteSet(S)
  PROVE  /\ Cardinality(S) \in Nat
         /\ \A i \in S : Cardinality({h \in S : h < i}) \in 0 .. Cardinality(S) - 1
         /\ \A i, j \in S : Cardinality({h \in S : h < i}) = Cardinality({h \in S : h < j}) => i = j
         /\ \A k \in 0 .. Cardinality(S) - 1 :
              \E i \in S : Cardinality({h \in S : h < i}) = k
<1> DEFINE below(i) == {h \in S : h < i}
           rank == [i \in S |-> Cardinality(below(i))]
           n == Cardinality(S)
<1>1. n \in Nat
  BY FS_CardinalityType
<1>2. ASSUME NEW i \in S
      PROVE  IsFiniteSet(below(i)) /\ Cardinality(below(i)) \in 0 .. n - 1
  <2>1. IsFiniteSet(S \ {i}) /\ Cardinality(S \ {i}) = n - 1
    BY FS_RemoveElement
  <2>2. below(i) \in SUBSET (S \ {i})
    OBVIOUS
  <2>3. IsFiniteSet(below(i)) /\ Cardinality(below(i)) <= n - 1
    BY <2>1, <2>2, FS_Subset
  <2>4. Cardinality(below(i)) \in Nat
    BY <2>3, FS_CardinalityType
  <2> QED BY <2>3, <2>4, <1>1
<1>3. ASSUME NEW i \in S, NEW j \in S, i < j
      PROVE  Cardinality(below(i)) < Cardinality(below(j))
  <2>1. below(i) \cup {i} \in SUBSET below(j)
    <3>1. i \in below(j)
      BY <1>3
    <3>2. ASSUME NEW h \in below(i) PROVE h \in below(j)
      <4>1. h \in S /\ h < i /\ h \in Nat /\ i \in Nat /\ j \in Nat
        BY <3>2
      <4> QED BY <4>1, <1>3
    <3> QED BY <3>1, <3>2
  <2>2. Cardinality(below(i) \cup {i}) = Cardinality(below(i)) + 1
    BY <1>2, FS_AddElement
  <2>3. Cardinality(below(i) \cup {i}) <= Cardinality(below(j))
    BY <2>1, <1>2, FS_Subset
  <2> QED BY <2>2, <2>3, <1>2, <1>1
<1>4. \A i, j \in S : Cardinality(below(i)) = Cardinality(below(j)) => i = j
  <2> SUFFICES ASSUME NEW i \in S, NEW j \in S,
                      Cardinality(below(i)) = Cardinality(below(j)), i # j
               PROVE  FALSE
    OBVIOUS
  <2>1. i < j \/ j < i
    OBVIOUS
  <2>2. Cardinality(below(i)) \in Int /\ Cardinality(below(j)) \in Int
    BY <1>2, <1>1
  <2> HIDE DEF below
  <2> QED BY <2>1, <2>2, <1>3
<1>5. rank \in Injection(S, 0 .. n - 1)
  <2>1. rank \in [S -> 0 .. n - 1]
    BY <1>2
  <2> QED BY <2>1, <1>4 DEF Injection, IsInjective
<1>6. IsFiniteSet(0 .. n - 1) /\ Cardinality(0 .. n - 1) = n
  <2> HIDE DEF n
  <2>1. n - 1 \in Int /\ 0 \in Int
    BY <1>1
  <2>2. Cardinality(0 .. n - 1) = (IF 0 > n - 1 THEN 0 ELSE (n - 1) - 0 + 1)
    BY <2>1, FS_Interval
  <2>3. IsFiniteSet(0 .. n - 1)
    BY <2>1, FS_Interval
  <2> QED BY <1>1, <2>2, <2>3
<1>7. rank \in Surjection(S, 0 .. n - 1)
  BY <1>5, <1>6, FS_Injection
<1>8. \A k \in 0 .. n - 1 : \E i \in S : Cardinality(below(i)) = k
  BY <1>7 DEF Surjection
<1> QED BY <1>1, <1>2, <1>4, <1>8

----------------------------------------------------------------------------
(* A set of table slots is finite.                                          *)
LEMMA SlotSetsAreFinite ==
  ASSUME NEW n \in Nat, NEW S \in SUBSET (0 .. n - 1)
  PROVE  IsFiniteSet(S) /\ Cardinality(S) \in Nat /\ Cardinality(S) <= n
<1>1. n - 1 \in Int /\ 0 \in Int
  OBVIOUS
<1>2. IsFiniteSet(0 .. n - 1)
      /\ Cardinality(0 .. n - 1) = (IF 0 > n - 1 THEN 0 ELSE (n - 1) - 0 + 1)
  BY <1>1, FS_Interval
<1>3. IsFiniteSet(S) /\ Cardinality(S) <= Cardinality(0 .. n - 1)
  BY <1>2, FS_Subset
<1>4. Cardinality(S) \in Nat
  BY <1>3, FS_CardinalityType
<1> QED BY <1>2, <1>3, <1>4

(* A sweep that keeps the marked objects keeps a heap record sound, leaves  *)
(* the length and the cursor of the table alone, frees exactly the unmarked *)
(* objects, and touches no marked one.                                      *)
LEMMA SweepIsSound ==
  ASSUME NEW h, Sound(h), gc_enabled,
         NEW mk, mk \subseteq h.live, mk \cap h.dead = {}
  PROVE  LET g == Sweep(h, mk)
         IN  /\ Sound(g)
             /\ g.size = h.size /\ g.next = h.next /\ g.max = h.max
             /\ g.live \subseteq h.live
             /\ mk \subseteq g.live \ g.dead
             /\ gc_dofree => g.live = mk
<1> DEFINE reaped == {i \in 0 .. h.max - 1 : h.living[i] # NULL /\ h.living[i] \notin mk}
           gone == {h.living[i] : i \in reaped}
           swept == [i \in DOMAIN h.living |-> IF i \in reaped THEN NULL ELSE h.living[i]]
           g == Sweep(h, mk)
<1>1. /\ h \in HeapType
      /\ h.living \in [0 .. h.size - 1 -> Cells]
      /\ h.next = h.max /\ h.max <= h.size
      /\ \A i \in h.max .. h.size - 1 : h.living[i] = NULL
      /\ Injective(h.living)
      /\ h.fse = Cardinality(HolesOf(h))
      /\ h.live = OnTable(h) /\ h.marked \subseteq h.live
      /\ h.dead \subseteq h.live
      /\ gc_dofree => h.dead = {}
      /\ h.size <= InitialSize \/ h.size <= 3 * Cardinality(Object)
  BY DEF Sound
<1>2. /\ h.size \in Nat \ {0} /\ h.next \in Nat /\ h.max \in Nat /\ h.fse \in Int
      /\ h.live \in SUBSET Object /\ h.dead \in SUBSET Object
      /\ DOMAIN h.living = 0 .. h.size - 1
  BY <1>1 DEF HeapType
<1>3. gone \subseteq h.live
  BY <1>1, <1>2 DEF OnTable
<1>4. gone \cap mk = {} /\ h.live \ gone = mk
  BY <1>1, <1>2 DEF OnTable
<1>5. CASE gc_dofree
  <2>1. g = [h EXCEPT !.living = swept, !.fse = h.fse + Cardinality(reaped),
                      !.marked = mk, !.live = h.live \ gone]
    BY <1>5 DEF Sweep
  <2> HIDE DEF g
  <2>2. swept \in [0 .. h.size - 1 -> Cells]
    BY <1>1, <1>2 DEF Cells
  <2>3. Cardinality(reaped) \in Nat /\ IsFiniteSet(reaped)
    <3>1. reaped \in SUBSET (0 .. h.max - 1)
      OBVIOUS
    <3> QED BY <3>1, <1>2, SlotSetsAreFinite
  <2>4. swept \in Tables
    BY <2>2, <1>2 DEF Tables
  <2>5. mk \in SUBSET Object /\ h.live \ gone \in SUBSET Object
    BY <1>2
  <2>6. /\ g \in HeapType
        /\ g.living = swept /\ g.size = h.size /\ g.next = h.next /\ g.max = h.max
        /\ g.fse = h.fse + Cardinality(reaped)
        /\ g.marked = mk /\ g.live = mk /\ g.dead = h.dead
    <3> HIDE DEF swept, reaped, gone
    <3>1. h.fse + Cardinality(reaped) \in Int
      BY <2>3, <1>2
    <3>2. /\ g.living = swept /\ g.size = h.size /\ g.next = h.next /\ g.max = h.max
          /\ g.fse = h.fse + Cardinality(reaped)
          /\ g.marked = mk /\ g.live = h.live \ gone /\ g.dead = h.dead
      BY <2>1, <1>1 DEF HeapType
    <3>3. g \in HeapType
      BY <2>1, <2>4, <2>5, <3>1, <1>1 DEF HeapType
    <3> QED BY <3>2, <3>3, <1>4
  <2>7. Injective(swept)
    BY <1>1, <1>2 DEF Injective
  <2>8. OnTable(g) = mk
    BY <2>6, <1>1, <1>2, <1>4 DEF OnTable
  <2>9. g.fse = Cardinality(HolesOf(g))
    <3>1. HolesOf(g) = HolesOf(h) \cup reaped /\ HolesOf(h) \cap reaped = {}
      BY <2>6, <1>1, <1>2 DEF HolesOf
    <3>2. IsFiniteSet(HolesOf(h)) /\ Cardinality(HolesOf(h)) \in Nat
      <4>1. HolesOf(h) \in SUBSET (0 .. h.max - 1)
        BY DEF HolesOf
      <4> QED BY <4>1, <1>2, SlotSetsAreFinite
    <3>3. Cardinality(HolesOf(h) \cup reaped)
            = Cardinality(HolesOf(h)) + Cardinality(reaped) - Cardinality({})
      BY <3>1, <3>2, <2>3, FS_Union
    <3> HIDE DEF reaped
    <3> QED BY <3>1, <3>2, <3>3, <2>3, <2>6, <1>1, FS_EmptySet
  <2>10. \A i \in g.max .. g.size - 1 : g.living[i] = NULL
    BY <2>6, <1>1, <1>2
  <2>11. Sound(g)
    <3> HIDE DEF swept, reaped, gone
    <3> QED BY <2>2, <2>6, <2>7, <2>8, <2>9, <2>10, <1>1, <1>5 DEF Sound
  <2> QED BY <2>6, <2>11, <1>1, <1>5 DEF g
<1>6. CASE ~gc_dofree
  <2>1. g = [h EXCEPT !.marked = mk, !.dead = h.dead \cup gone]
    BY <1>6 DEF Sweep
  <2> HIDE DEF g
  <2>2. mk \in SUBSET Object /\ h.dead \cup gone \in SUBSET Object
    BY <1>2, <1>3
  <2>3. /\ g \in HeapType
        /\ g.living = h.living /\ g.size = h.size /\ g.next = h.next /\ g.max = h.max
        /\ g.fse = h.fse /\ g.live = h.live
        /\ g.marked = mk /\ g.dead = h.dead \cup gone
    <3> HIDE DEF gone
    <3> QED BY <2>1, <2>2, <1>1 DEF HeapType
  <2>4. OnTable(g) = OnTable(h) /\ HolesOf(g) = HolesOf(h)
    BY <2>3 DEF OnTable, HolesOf
  <2>5. Sound(g)
    <3> HIDE DEF gone
    <3> QED BY <2>3, <2>4, <1>1, <1>3, <1>6 DEF Sound
  <2> QED BY <2>3, <2>5, <1>4, <1>6 DEF g
<1> QED BY <1>5, <1>6

(* What an operation that may collect asks and owes: mk, what the roots and *)
(* the shadow stack lead to, and K, what the program uses, are allocated    *)
(* and not flagged dead before it and after it; it allocates nothing; and   *)
(* unless the collector is paused it frees all but mk.                      *)
CanCollect(h, mk, pz, K) ==
  /\ mk \subseteq h.live \ h.dead
  /\ K \subseteq h.live \ h.dead
  /\ pz > 0 \/ K \subseteq mk

Keeps(h, g, mk, pz, K) ==
  /\ Sound(g)
  /\ g.live \subseteq h.live
  /\ CanCollect(g, mk, pz, K)
  /\ gc_dofree /\ ~(pz > 0) => g.live = mk

LEMMA RungcIsSound ==
  ASSUME NEW h, Sound(h), gc_enabled,
         NEW edges, NEW rts, NEW slots, NEW pz, NEW K,
         CanCollect(h, gc_mark(edges, rts \cup slots, {}), pz, K)
  PROVE  LET g == rungc(h, edges, rts, slots, pz)
         IN  /\ g.size = h.size /\ g.next = h.next /\ g.max = h.max
             /\ Keeps(h, g, gc_mark(edges, rts \cup slots, {}), pz, K)
<1> DEFINE mk == gc_mark(edges, rts \cup slots, {})
           g == rungc(h, edges, rts, slots, pz)
<1>1. CASE pz > 0
  <2>1. g = h
    BY <1>1 DEF rungc
  <2> QED BY <1>1, <2>1 DEF Keeps
<1>2. CASE ~(pz > 0)
  <2>1. Unflagged(h) = {}
    <3>1. h.marked \subseteq OnTable(h)
      BY DEF Sound
    <3> QED BY <3>1 DEF Unflagged, OnTable
  <2>2. g = Sweep(h, mk)
    BY <1>2, <2>1 DEF rungc
  <2> HIDE DEF g, mk
  <2>3. mk \subseteq h.live /\ mk \cap h.dead = {} /\ K \subseteq mk
    BY <1>2 DEF mk, CanCollect
  <2>4. /\ Sound(g)
        /\ g.size = h.size /\ g.next = h.next /\ g.max = h.max
        /\ g.live \subseteq h.live
        /\ mk \subseteq g.live \ g.dead
        /\ gc_dofree => g.live = mk
    BY <2>2, <2>3, SweepIsSound
  <2>5. Keeps(h, g, mk, pz, K)
    BY <2>3, <2>4 DEF Keeps, CanCollect
  <2> QED BY <2>4, <2>5 DEF g, mk
<1> QED BY <1>1, <1>2

----------------------------------------------------------------------------
(* Copying the occupied slots to the front of an array that has room loses  *)
(* no object, duplicates none, and leaves no hole below the new mark.       *)
DenseCopy(c, living, j, size) ==
  /\ c \in [0 .. size - 1 -> Cells]
  /\ \A k \in 0 .. j - 1 : c[k] # NULL
  /\ \A k \in j .. size - 1 : c[k] = NULL
  /\ Injective(c)
  /\ {c[k] : k \in 0 .. j - 1} = {living[i] : i \in Occupied(living)}

LEMMA CompactedIsDense ==
  ASSUME NEW n \in Nat, NEW living \in [0 .. n - 1 -> Cells], Injective(living),
         NEW size \in Nat, Cardinality(Occupied(living)) <= size
  PROVE  DenseCopy(Compacted(living, size), living, Cardinality(Occupied(living)), size)
<1> DEFINE S == Occupied(living)
           j == Cardinality(S)
           c == Compacted(living, size)
           nth(k) == NthOccupied(living, k)
<1>1. S \in SUBSET (0 .. n - 1) /\ S \in SUBSET Nat /\ IsFiniteSet(S)
  <2>1. S \in SUBSET (0 .. n - 1)
    BY DEF Occupied
  <2>2. S \in SUBSET Nat
    BY <2>1
  <2> HIDE DEF S
  <2> QED BY <2>1, <2>2, SlotSetsAreFinite
<1>2. /\ j \in Nat
      /\ \A i \in S : Cardinality({h \in S : h < i}) \in 0 .. j - 1
      /\ \A i1, i2 \in S :
           Cardinality({h \in S : h < i1}) = Cardinality({h \in S : h < i2}) => i1 = i2
      /\ \A k \in 0 .. j - 1 : \E i \in S : Cardinality({h \in S : h < i}) = k
  <2> HIDE DEF S
  <2> QED BY <1>1, RankIsBijective
<1>3. \A k \in 0 .. j - 1 : nth(k) \in S /\ Cardinality({h \in S : h < nth(k)}) = k
  BY <1>2 DEF NthOccupied
<1>4. \A i \in S : \E k \in 0 .. j - 1 : nth(k) = i
  <2> SUFFICES ASSUME NEW i \in S PROVE \E k \in 0 .. j - 1 : nth(k) = i
    OBVIOUS
  <2>1. PICK k \in 0 .. j - 1 : Cardinality({h \in S : h < i}) = k
    BY <1>2
  <2>2. nth(k) \in S /\ Cardinality({h \in S : h < nth(k)}) = k
    BY <1>3
  <2>3. nth(k) = i
    <3> HIDE DEF S, nth
    <3> QED BY <1>2, <2>1, <2>2
  <2> QED BY <2>3
<1>5. \A k1, k2 \in 0 .. j - 1 : nth(k1) = nth(k2) => k1 = k2
  <2> HIDE DEF S, nth
  <2> QED BY <1>3
<1>6. \A i \in S : i \in 0 .. n - 1 /\ living[i] \in Object /\ living[i] # NULL
  BY <1>1, ObjectAssumption DEF Occupied, Cells
<1>7. c = [k \in 0 .. size - 1 |-> IF k < j THEN living[nth(k)] ELSE NULL]
  BY DEF Compacted
<1>8. j <= size
  OBVIOUS
<1> HIDE DEF S, j, c, nth
<1>9. c \in [0 .. size - 1 -> Cells]
  <2>1. ASSUME NEW k \in 0 .. size - 1
        PROVE  (IF k < j THEN living[nth(k)] ELSE NULL) \in Cells
    <3>1. CASE k < j
      <4>1. k \in 0 .. j - 1
        BY <3>1, <1>2
      <4>2. nth(k) \in S
        BY <4>1, <1>3
      <4> QED BY <4>2, <3>1, <1>6 DEF Cells
    <3>2. CASE ~(k < j)
      BY <3>2 DEF Cells
    <3> QED BY <3>1, <3>2
  <2> QED BY <2>1, <1>7
<1>10. \A k \in 0 .. j - 1 : c[k] = living[nth(k)] /\ c[k] # NULL
  <2> SUFFICES ASSUME NEW k \in 0 .. j - 1
               PROVE  c[k] = living[nth(k)] /\ c[k] # NULL
    OBVIOUS
  <2>1. k \in 0 .. size - 1 /\ k < j
    BY <1>2, <1>8
  <2>2. nth(k) \in S
    BY <1>3
  <2>3. c[k] = living[nth(k)]
    BY <2>1, <1>7
  <2> QED BY <2>2, <2>3, <1>6
<1>11. \A k \in j .. size - 1 : c[k] = NULL
  BY <1>2, <1>7
<1>12. Injective(c)
  <2> SUFFICES ASSUME NEW k1 \in 0 .. size - 1, NEW k2 \in 0 .. size - 1,
                      c[k1] = c[k2], c[k1] # NULL
               PROVE  k1 = k2
    BY <1>9 DEF Injective
  <2>1. k1 \in 0 .. j - 1 /\ k2 \in 0 .. j - 1
    BY <1>2, <1>11
  <2>2. living[nth(k1)] = living[nth(k2)] /\ nth(k1) \in S /\ nth(k2) \in S
    BY <2>1, <1>3, <1>10
  <2>3. nth(k1) = nth(k2)
    BY <2>2, <1>6 DEF Injective
  <2> QED BY <2>1, <2>3, <1>5
<1>13. {c[k] : k \in 0 .. j - 1} = {living[i] : i \in S}
  <2>1. ASSUME NEW k \in 0 .. j - 1 PROVE \E i \in S : c[k] = living[i]
    BY <1>3, <1>10
  <2>2. ASSUME NEW i \in S PROVE \E k \in 0 .. j - 1 : living[i] = c[k]
    <3>1. PICK k \in 0 .. j - 1 : nth(k) = i
      BY <1>4
    <3> QED BY <3>1, <1>10
  <2> QED BY <2>1, <2>2
<1> QED BY <1>9, <1>10, <1>11, <1>12, <1>13 DEF S, j, c, DenseCopy

(* Expanding a full table keeps the record sound and leaves room for one    *)
(* object, whichever of the two branches was taken.                         *)
LEMMA ExpandIsSound ==
  ASSUME NEW h, Sound(h), gc_enabled, h.next = h.size,
         NEW edges, NEW rts, NEW slots, NEW pz, NEW K,
         CanCollect(h, gc_mark(edges, rts \cup slots, {}), pz, K)
  PROVE  LET g == expand_living(h, edges, rts, slots, pz)
         IN  /\ g.max < g.size
             /\ Keeps(h, g, gc_mark(edges, rts \cup slots, {}), pz, K)
<1> DEFINE mk == gc_mark(edges, rts \cup slots, {})
           r == rungc(h, edges, rts, slots, pz)
           S == Occupied(r.living)
           j == Cardinality(S)
           N == r.size
           g == expand_living(h, edges, rts, slots, pz)
<1>1. /\ r.size = h.size /\ r.next = h.next /\ r.max = h.max
      /\ Keeps(h, r, mk, pz, K)
  BY RungcIsSound
<1>2. g = LET mul == IF r.fse * 3 > r.size THEN 1 ELSE 2
          IN  [r EXCEPT !.living = Compacted(r.living, r.size * mul),
                        !.fse = IF mul = 1 THEN r.fse - (r.max - j) ELSE 0,
                        !.max = j,
                        !.next = j,
                        !.size = r.size * mul]
  BY DEF expand_living
<1> HIDE DEF mk, r, g
<1>3. /\ r \in HeapType
      /\ N \in Nat /\ N > 0 /\ r.max = N /\ r.next = N /\ r.fse \in Int
      /\ r.living \in [0 .. N - 1 -> Cells]
      /\ Injective(r.living)
      /\ r.fse = Cardinality(HolesOf(r))
      /\ r.live = OnTable(r) /\ r.marked \subseteq r.live
      /\ r.dead \subseteq r.live
      /\ gc_dofree => r.dead = {}
      /\ N <= InitialSize \/ N <= 3 * Cardinality(Object)
  <2>1. Sound(r) /\ r.max = r.size
    BY <1>1 DEF Sound, Keeps
  <2> QED BY <2>1 DEF Sound, HeapType
<1>4. S \in SUBSET (0 .. N - 1)
  BY <1>3 DEF Occupied
<1> HIDE DEF N
<1>5. IsFiniteSet(S) /\ j \in Nat /\ j <= N
  <2> HIDE DEF S
  <2> QED BY <1>3, <1>4, SlotSetsAreFinite
<1>6. r.fse = N - j
  <2>1. HolesOf(r) = (0 .. N - 1) \ S
    BY <1>3 DEF HolesOf, Occupied, N
  <2>2. (0 .. N - 1) \cap S = S
    BY <1>4
  <2>3. N - 1 \in Int /\ 0 \in Int
    BY <1>3
  <2>4. IsFiniteSet(0 .. N - 1) /\ Cardinality(0 .. N - 1) = IF 0 > N - 1 THEN 0 ELSE (N - 1) - 0 + 1
    BY <2>3, FS_Interval
  <2>5. Cardinality(0 .. N - 1) = N
    BY <2>4, <1>3
  <2>6. Cardinality((0 .. N - 1) \ S) = Cardinality(0 .. N - 1) - Cardinality((0 .. N - 1) \cap S)
    BY <2>4, FS_Difference
  <2> QED BY <2>1, <2>2, <2>5, <2>6, <1>3
<1>7. j <= Cardinality(Object) /\ Cardinality(Object) \in Nat
  <2> DEFINE f == [i \in S |-> r.living[i]]
  <2>1. f \in Injection(S, Object)
    <3>1. \A i \in S : r.living[i] \in Object /\ r.living[i] # NULL /\ i \in 0 .. N - 1
      BY <1>3, <1>4, ObjectAssumption DEF Occupied, Cells
    <3>2. \A i1, i2 \in S : r.living[i1] = r.living[i2] => i1 = i2
      BY <3>1, <1>3 DEF Injective
    <3> QED BY <3>1, <3>2 DEF Injection, IsInjective
  <2> HIDE DEF f, S
  <2> QED BY <2>1, ObjectAssumption, FS_Injection, FS_CardinalityType
<1>8. ASSUME NEW size \in Nat, size > 0, j < size,
             size <= InitialSize \/ size <= 3 * Cardinality(Object),
             g = [r EXCEPT !.living = Compacted(r.living, size),
                           !.fse = 0, !.max = j, !.next = j, !.size = size]
      PROVE  g.max < g.size /\ Keeps(h, g, mk, pz, K)
  <2> DEFINE c == Compacted(r.living, size)
  <2>1. /\ c \in [0 .. size - 1 -> Cells]
        /\ \A k \in 0 .. j - 1 : c[k] # NULL
        /\ \A k \in j .. size - 1 : c[k] = NULL
        /\ Injective(c)
        /\ {c[k] : k \in 0 .. j - 1} = {r.living[i] : i \in S}
    <3>1. Cardinality(Occupied(r.living)) <= size /\ r.living \in [0 .. N - 1 -> Cells]
          /\ N \in Nat /\ Injective(r.living)
      BY <1>3, <1>5, <1>8
    <3>2. DenseCopy(c, r.living, j, size)
      BY <3>1, CompactedIsDense
    <3> QED BY <3>2 DEF DenseCopy
  <2> HIDE DEF c
  <2>2. c \in Tables
    BY <2>1 DEF Tables
  <2>3. /\ g.living = c /\ g.fse = 0 /\ g.max = j /\ g.next = j /\ g.size = size
        /\ g.live = r.live /\ g.dead = r.dead /\ g.marked = r.marked
    <3> HIDE DEF j
    <3> QED BY <1>8, <1>3 DEF HeapType, c
  <2>4. g \in HeapType
    <3> HIDE DEF j
    <3>1. g = [r EXCEPT !.living = c, !.fse = 0, !.max = j, !.next = j, !.size = size]
      BY <1>8 DEF c
    <3>2. j \in Nat /\ size \in Nat \ {0} /\ 0 \in Int
      BY <1>5, <1>8
    <3> QED BY <3>1, <3>2, <2>2, <1>3 DEF HeapType
  <2>5. HolesOf(g) = {} /\ Cardinality(HolesOf(g)) = 0
    <3>1. HolesOf(g) = {}
      BY <2>1, <2>3 DEF HolesOf
    <3> QED BY <3>1, FS_EmptySet
  <2>6. OnTable(g) = r.live
    <3>1. OnTable(g) = {c[k] : k \in 0 .. j - 1} \ {NULL}
      BY <2>3 DEF OnTable
    <3>2. OnTable(r) = {r.living[i] : i \in S}
      BY <1>3, <1>4 DEF OnTable, Occupied
    <3>3. NULL \notin {r.living[i] : i \in S}
      BY DEF Occupied
    <3> QED BY <3>1, <3>2, <3>3, <2>1, <1>3
  <2>7. Sound(g)
    <3> HIDE DEF j, S
    <3> QED BY <2>1, <2>3, <2>4, <2>5, <2>6, <1>3, <1>5, <1>8 DEF Sound
  <2> QED BY <2>3, <2>7, <1>1, <1>8 DEF Keeps, CanCollect
<1>9. ASSUME r.fse * 3 > N PROVE g.max < g.size /\ Keeps(h, g, mk, pz, K)
  <2>1. j < N /\ r.fse - (r.max - j) = 0 /\ N * 1 = N
    BY <1>9, <1>3, <1>5, <1>6
  <2>2. g = [r EXCEPT !.living = Compacted(r.living, N),
                      !.fse = 0, !.max = j, !.next = j, !.size = N]
    <3> HIDE DEF j
    <3> QED BY <2>1, <1>2, <1>9 DEF N
  <2> QED BY <2>1, <2>2, <1>3, <1>8
<1>10. ASSUME ~(r.fse * 3 > N) PROVE g.max < g.size /\ Keeps(h, g, mk, pz, K)
  <2>1. j < N * 2 /\ N * 2 <= 3 * Cardinality(Object) /\ N * 2 \in Nat /\ N * 2 > 0
    <3> HIDE DEF j
    <3> QED BY <1>10, <1>3, <1>5, <1>6, <1>7
  <2>2. g = [r EXCEPT !.living = Compacted(r.living, N * 2),
                      !.fse = 0, !.max = j, !.next = j, !.size = N * 2]
    <3> HIDE DEF j
    <3> QED BY <1>2, <1>10 DEF N
  <2> QED BY <2>1, <2>2, <1>8
<1> QED BY <1>9, <1>10 DEF g, mk

(* Storing a new object in the next slot of a table with room.              *)
LEMMA RegisterIsSound ==
  ASSUME NEW h, Sound(h), gc_enabled, h.max < h.size,
         NEW o \in Object, o \notin h.live
  PROVE  LET g == Register(h, o)
         IN  Sound(g) /\ g.live = h.live \cup {o} /\ g.dead = h.dead
<1> DEFINE tbl == [h.living EXCEPT ![h.next] = o]
           g == Register(h, o)
<1>1. /\ h \in HeapType
      /\ h.living \in [0 .. h.size - 1 -> Cells]
      /\ h.next = h.max /\ h.max <= h.size
      /\ \A i \in h.max .. h.size - 1 : h.living[i] = NULL
      /\ Injective(h.living)
      /\ h.fse = Cardinality(HolesOf(h))
      /\ gc_enabled => h.live = OnTable(h) /\ h.marked \subseteq h.live
      /\ h.dead \subseteq h.live
      /\ gc_dofree => h.dead = {}
      /\ h.size <= InitialSize \/ h.size <= 3 * Cardinality(Object)
  BY DEF Sound
<1>2. h.size \in Nat /\ h.max \in Nat /\ h.max \in 0 .. h.size - 1 /\ o # NULL
  BY <1>1, ObjectAssumption DEF HeapType
<1>3. g = [h EXCEPT !.living = tbl, !.next = h.next + 1, !.max = h.next + 1,
                    !.live = h.live \cup {o}]
  <2>1. (IF h.next + 1 > h.max THEN h.next + 1 ELSE h.max) = h.next + 1
    BY <1>1, <1>2
  <2> HIDE DEF tbl
  <2> QED BY <2>1 DEF Register, tbl
<1>4. tbl \in [0 .. h.size - 1 -> Cells]
  BY <1>1, <1>2 DEF Cells
<1>5. tbl[h.max] = o /\ \A i \in 0 .. h.size - 1 : i # h.max => tbl[i] = h.living[i]
  BY <1>1, <1>2
<1>6. tbl \in Tables
  BY <1>2, <1>4 DEF Tables
<1> HIDE DEF g, tbl
<1>7. /\ g.living = tbl /\ g.next = h.max + 1 /\ g.max = h.max + 1
      /\ g.size = h.size /\ g.fse = h.fse /\ g.marked = h.marked
      /\ g.live = h.live \cup {o} /\ g.dead = h.dead
  BY <1>1, <1>3 DEF HeapType
<1>8. g \in HeapType
  <2>1. h.live \cup {o} \in SUBSET Object /\ h.next + 1 \in Nat
    BY <1>1 DEF HeapType
  <2> QED BY <2>1, <1>1, <1>3, <1>6 DEF HeapType
<1>9. HolesOf(g) = HolesOf(h)
  BY <1>2, <1>5, <1>7 DEF HolesOf
<1>10. \A i \in g.max .. g.size - 1 : g.living[i] = NULL
  BY <1>1, <1>2, <1>5, <1>7
<1>11. gc_enabled => g.live = OnTable(g) /\ g.marked \subseteq g.live
  <2>1. OnTable(g) = OnTable(h) \cup {o}
    <3>1. ASSUME NEW x \in OnTable(h) PROVE x \in OnTable(g)
      <4>1. PICK i \in 0 .. h.max - 1 : x = h.living[i]
        BY DEF OnTable
      <4>2. i \in 0 .. g.max - 1 /\ g.living[i] = x
        BY <4>1, <1>2, <1>5, <1>7
      <4> QED BY <4>2 DEF OnTable
    <3>2. o \in OnTable(g)
      <4>1. h.max \in 0 .. g.max - 1 /\ g.living[h.max] = o
        BY <1>2, <1>5, <1>7
      <4> QED BY <4>1, <1>2 DEF OnTable
    <3>3. ASSUME NEW x \in OnTable(g) PROVE x \in OnTable(h) \cup {o}
      <4>1. PICK i \in 0 .. g.max - 1 : x = g.living[i] /\ x # NULL
        BY DEF OnTable
      <4>2. CASE i = h.max
        BY <4>1, <4>2, <1>5, <1>7
      <4>3. CASE i # h.max
        <5>1. i \in 0 .. h.max - 1 /\ x = h.living[i]
          BY <4>1, <4>3, <1>2, <1>5, <1>7
        <5> QED BY <5>1, <4>1 DEF OnTable
      <4> QED BY <4>2, <4>3
    <3> QED BY <3>1, <3>2, <3>3
  <2> QED BY <2>1, <1>1, <1>7
<1>12. Injective(tbl)
  <2>1. ASSUME NEW i \in 0 .. h.size - 1, i # h.max PROVE h.living[i] # o
    <3>1. CASE i \in 0 .. h.max - 1
      BY <2>1, <3>1, <1>1, <1>2 DEF OnTable
    <3>2. CASE i \in h.max .. h.size - 1
      BY <3>2, <1>1, <1>2
    <3> QED BY <3>1, <3>2, <1>2
  <2> QED BY <2>1, <1>1, <1>2, <1>4, <1>5 DEF Injective
<1>13. Sound(g)
  BY <1>1, <1>2, <1>4, <1>7, <1>8, <1>9, <1>10, <1>11, <1>12 DEF Sound
<1> QED BY <1>7, <1>13 DEF g

----------------------------------------------------------------------------
(* The inductive invariant.  NoDangling speaks of what the locals lead to   *)
(* as well as the roots, which is what makes it inductive: between two      *)
(* allocations the code moves pointers only among objects in use.           *)
Typed ==
  /\ refs \in [Object -> SUBSET Object]
  /\ roots \in SUBSET Object
  /\ stack \in Seq(Cells)
  /\ paused \in Nat
  /\ ticks \in 0 .. Period - 1
  /\ held \in SUBSET Object
  /\ running \in BOOLEAN

IInv == Typed /\ Sound(heap) /\ NoDangling

(* What the invariant says of the properties GraceHeap states.              *)
LEMMA InvImplies == IInv => /\ TypeOK /\ TableConsistent /\ HolesCounted
                            /\ Registered /\ TableBounded /\ NoDangling
<1> SUFFICES ASSUME IInv
             PROVE  /\ TypeOK /\ TableConsistent /\ HolesCounted
                    /\ Registered /\ TableBounded /\ NoDangling
  OBVIOUS
<1>1. /\ heap \in HeapType
      /\ heap.living \in [0 .. heap.size - 1 -> Cells]
      /\ heap.next = heap.max /\ heap.max <= heap.size
      /\ \A i \in heap.max .. heap.size - 1 : heap.living[i] = NULL
      /\ Injective(heap.living)
      /\ heap.fse = Cardinality(HolesOf(heap))
      /\ gc_enabled => heap.live = OnTable(heap) /\ heap.marked \subseteq heap.live
      /\ heap.dead \subseteq heap.live
      /\ heap.size <= InitialSize \/ heap.size <= 3 * Cardinality(Object)
  BY DEF IInv, Sound
<1>2. /\ heap.size \in Nat \ {0} /\ heap.next \in Nat /\ heap.max \in Nat
      /\ heap.fse \in Int /\ heap.marked \in SUBSET Object
      /\ heap.live \in SUBSET Object /\ heap.dead \in SUBSET Object
  BY <1>1 DEF HeapType
<1>3. TypeOK
  BY <1>1, <1>2 DEF IInv, Typed, TypeOK, Cells
<1>4. TableConsistent
  BY <1>1, <1>2 DEF TableConsistent, Injective
<1>5. HolesCounted
  BY <1>1 DEF HolesCounted, Holes, HolesOf
<1>6. Registered
  BY <1>1 DEF Registered, OnTable
<1> QED BY <1>1, <1>3, <1>4, <1>5, <1>6 DEF TableBounded, IInv

LEMMA SeedsTyped == Typed => Slots \in SUBSET Object /\ Seeds \in SUBSET Object
<1> SUFFICES ASSUME Typed PROVE Slots \in SUBSET Object
  BY DEF Typed, Seeds
<1>1. \A k \in 1 .. Len(stack) : stack[k] \in Cells
  BY DEF Typed
<1> QED BY <1>1 DEF Slots, Cells

LEMMA InitIsSound == Init => IInv
<1> SUFFICES ASSUME Init PROVE IInv
  OBVIOUS
<1> DEFINE empty == [i \in 0 .. InitialSize - 1 |-> NULL]
<1>1. heap = [living |-> empty, size |-> InitialSize, next |-> 0, max |-> 0, fse |-> 0,
              marked |-> {}, live |-> {}, dead |-> {}]
  BY DEF Init
<1>2. InitialSize \in Nat \ {0} /\ Period \in Nat \ {0}
  BY SizeAssumption
<1>3. empty \in [0 .. InitialSize - 1 -> Cells] /\ empty \in Tables
  BY <1>2 DEF Cells, Tables
<1>4. Injective(empty) /\ \A i \in 0 .. InitialSize - 1 : empty[i] = NULL
  BY DEF Injective
<1> HIDE DEF empty
<1>5. /\ heap.living = empty /\ heap.size = InitialSize /\ heap.next = 0 /\ heap.max = 0
      /\ heap.fse = 0 /\ heap.marked = {} /\ heap.live = {} /\ heap.dead = {}
  BY <1>1
<1>6. heap \in HeapType
  BY <1>1, <1>2, <1>3 DEF HeapType
<1>7. HolesOf(heap) = {} /\ OnTable(heap) = {}
  BY <1>5 DEF HolesOf, OnTable
<1>8. Sound(heap)
  BY <1>2, <1>3, <1>4, <1>5, <1>6, <1>7, FS_EmptySet DEF Sound
<1>9. Typed
  BY <1>2 DEF Init, Typed
<1>10. NoDangling
  <2>1. Seeds \cup held = {}
    BY DEF Init, Seeds, Slots
  <2>2. InUse \subseteq {}
    BY <2>1, MarkIsLeast DEF InUse
  <2> QED BY <2>2 DEF NoDangling
<1> QED BY <1>8, <1>9, <1>10 DEF IInv

----------------------------------------------------------------------------
(* A step that leaves the heap record alone and moves pointers only among   *)
(* objects in use keeps the invariant.                                      *)
LEMMA UseShrinks ==
  ASSUME IInv, Typed', heap' = heap,
         (Seeds \cup held)' \subseteq InUse,
         \A o \in InUse : refs'[o] \subseteq InUse
  PROVE  IInv'
<1>1. InUse \in SUBSET Object
  <2>1. refs \in [Object -> SUBSET Object] /\ Seeds \cup held \in SUBSET Object
    BY SeedsTyped DEF IInv, Typed
  <2> QED BY <2>1, MarkCloses DEF InUse
<1>2. gc_mark(refs', (Seeds \cup held)', {}) \subseteq InUse
  BY <1>1, MarkIsLeast
<1>3. NoDangling'
  BY <1>2 DEF IInv, NoDangling, InUse
<1>4. Sound(heap)'
  BY DEF IInv
<1> QED BY <1>3, <1>4 DEF IInv

(* What is in use contains the locals, the seeds and all they lead to.      *)
LEMMA UseCloses ==
  ASSUME IInv
  PROVE  /\ InUse \in SUBSET Object
         /\ Seeds \cup held \subseteq InUse
         /\ \A o \in InUse : refs[o] \subseteq InUse
         /\ Protected \in SUBSET Object
         /\ Protected \subseteq InUse
         /\ held \subseteq Protected => InUse \subseteq Protected
<1>1. /\ refs \in [Object -> SUBSET Object]
      /\ Seeds \in SUBSET Object /\ held \in SUBSET Object
      /\ Seeds \cup held \in SUBSET Object
  BY SeedsTyped DEF IInv, Typed
<1>2. /\ InUse \in SUBSET Object
      /\ Seeds \cup held \subseteq InUse
      /\ \A o \in InUse : refs[o] \subseteq InUse
  BY <1>1, MarkCloses DEF InUse
<1>3. /\ Protected \in SUBSET Object
      /\ Seeds \subseteq Protected
      /\ \A o \in Protected : refs[o] \subseteq Protected
  BY <1>1, MarkCloses DEF Protected
<1>4. Protected \subseteq InUse
  <2>1. Seeds \subseteq InUse
    BY <1>2
  <2> QED BY <1>2, <2>1, MarkIsLeast DEF Protected
<1>5. ASSUME held \subseteq Protected PROVE InUse \subseteq Protected
  <2>1. Seeds \cup held \subseteq Protected
    BY <1>3, <1>5
  <2> QED BY <1>3, <2>1, MarkIsLeast DEF InUse
<1> QED BY <1>2, <1>3, <1>4, <1>5

(* AllocObj: the expansion, the periodic collection and the registration    *)
(* in the order alloc_obj runs them.                                        *)
LEMMA AllocKeepsInv ==
  ASSUME IInv, NEW o \in Object, AllocObj(o)
  PROVE  /\ IInv'
         /\ CollectionDue(o) => heap'.live = Protected \cup {o}
<1> DEFINE full == heap.next >= heap.size
           count == (ticks + 1) % Period
           grown == IF full THEN expand_living(heap, refs, roots, Slots, paused) ELSE heap
           cleaned == IF count = 0 THEN rungc(grown, refs, roots, Slots, paused) ELSE grown
           mk == gc_mark(refs, roots \cup Slots, {})
<1>1. /\ o \notin heap.live
      /\ paused > 0 \/ held \subseteq Protected
      /\ heap' = IF gc_enabled THEN Register(cleaned, o)
                 ELSE [heap EXCEPT !.live = heap.live \cup {o}]
      /\ ticks' = count
      /\ refs' = [p \in Object |-> IF p \in heap'.live \ {o} THEN refs[p] ELSE {}]
      /\ held' = held \cup {o}
      /\ roots' = roots /\ stack' = stack /\ paused' = paused /\ running' = running
  BY Zenon DEF AllocObj, Disciplined
<1>2. mk = Protected
  BY DEF Protected, Seeds
<1>3. /\ InUse \in SUBSET Object /\ Seeds \cup held \subseteq InUse
      /\ \A p \in InUse : refs[p] \subseteq InUse
      /\ Protected \subseteq InUse
      /\ held \subseteq Protected => InUse \subseteq Protected
  BY UseCloses
<1>4. Sound(heap) /\ InUse \subseteq heap.live \ heap.dead /\ Typed
  BY DEF IInv, NoDangling
<1>5. heap \in HeapType /\ heap.next = heap.max /\ heap.max <= heap.size
      /\ heap.size \in Nat /\ heap.max \in Nat
  BY <1>4 DEF Sound, HeapType
<1>6. CanCollect(heap, mk, paused, InUse)
  BY <1>1, <1>2, <1>3, <1>4 DEF CanCollect
<1> HIDE DEF full, count, grown, cleaned, mk
<1>7. ASSUME gc_enabled
      PROVE  /\ Keeps(heap, grown, mk, paused, InUse) \/ grown = heap
             /\ grown.max < grown.size
             /\ full => Keeps(heap, grown, mk, paused, InUse)
  <2>1. CASE full
    <3>1. heap.next = heap.size
      BY <2>1, <1>5 DEF full
    <3>2. grown = expand_living(heap, refs, roots, Slots, paused)
      BY <2>1 DEF grown
    <3> QED BY <3>1, <3>2, <1>4, <1>6, <1>7, ExpandIsSound DEF mk
  <2>2. CASE ~full
    BY <2>2, <1>5 DEF full, grown
  <2> QED BY <2>1, <2>2
<1>8. ASSUME gc_enabled
      PROVE  /\ Sound(grown) /\ grown.live \subseteq heap.live
             /\ CanCollect(grown, mk, paused, InUse)
  BY <1>7, <1>8, <1>4, <1>6 DEF Keeps
<1>9. ASSUME gc_enabled
      PROVE  /\ Sound(cleaned) /\ cleaned.live \subseteq heap.live
             /\ cleaned.max < cleaned.size
             /\ CanCollect(cleaned, mk, paused, InUse)
             /\ (count = 0 \/ full) /\ gc_dofree /\ ~(paused > 0) => cleaned.live = mk
  <2>1. CASE count = 0
    <3>1. cleaned = rungc(grown, refs, roots, Slots, paused)
      BY <2>1 DEF cleaned
    <3>2. /\ cleaned.size = grown.size /\ cleaned.max = grown.max
          /\ Keeps(grown, cleaned, mk, paused, InUse)
      BY <3>1, <1>8, <1>9, RungcIsSound DEF mk
    <3> QED BY <3>2, <1>7, <1>8, <1>9 DEF Keeps
  <2>2. CASE count # 0
    <3>1. cleaned = grown
      BY <2>2 DEF cleaned
    <3> QED BY <2>2, <3>1, <1>7, <1>8, <1>9 DEF Keeps
  <2> QED BY <2>1, <2>2
<1>10. /\ Sound(heap') /\ o \in heap'.live \ heap'.dead
       /\ InUse \subseteq heap'.live \ heap'.dead
       /\ gc_enabled => heap'.live = cleaned.live \cup {o}
  <2>1. CASE gc_enabled
    <3>1. heap' = Register(cleaned, o)
      BY <1>1, <2>1
    <3>2. o \notin cleaned.live
      BY <1>1, <1>9, <2>1
    <3>3. Sound(heap') /\ heap'.live = cleaned.live \cup {o} /\ heap'.dead = cleaned.dead
      BY <3>1, <3>2, <1>9, <2>1, RegisterIsSound
    <3>4. cleaned.dead \subseteq cleaned.live
      BY <1>9, <2>1 DEF Sound
    <3> QED BY <3>2, <3>3, <3>4, <1>9, <2>1 DEF CanCollect
  <2>2. CASE ~gc_enabled
    <3>1. heap' = [heap EXCEPT !.live = heap.live \cup {o}]
      BY <1>1, <2>2
    <3>2. heap.live \cup {o} \in SUBSET Object
      BY <1>5 DEF HeapType
    <3>3. /\ heap'.living = heap.living /\ heap'.size = heap.size /\ heap'.next = heap.next
          /\ heap'.max = heap.max /\ heap'.fse = heap.fse /\ heap'.dead = heap.dead
          /\ heap'.live = heap.live \cup {o}
      BY <3>1, <1>5 DEF HeapType
    <3>4. heap' \in HeapType
      BY <3>1, <3>2, <1>5 DEF HeapType
    <3>5. HolesOf(heap') = HolesOf(heap)
      BY <3>3 DEF HolesOf
    <3>6. Sound(heap')
      BY <3>3, <3>4, <3>5, <1>4, <2>2 DEF Sound
    <3>7. heap.dead \subseteq heap.live
      BY <1>4 DEF Sound
    <3> QED BY <3>3, <3>6, <3>7, <1>1, <1>4, <2>2
  <2> QED BY <2>1, <2>2
<1>11. Typed'
  <2>1. ticks' \in 0 .. Period - 1
    BY <1>1, <1>4, SizeAssumption DEF Typed, count
  <2>2. refs' \in [Object -> SUBSET Object]
    BY <1>1, <1>4 DEF Typed
  <2> QED BY <2>1, <2>2, <1>1, <1>4 DEF Typed
<1>12. NoDangling'
  <2> DEFINE C == InUse \cup {o}
  <2>1. C \in SUBSET Object
    BY <1>3
  <2>2. (Seeds \cup held)' \subseteq C
    <3>1. Seeds' = Seeds
      BY <1>1 DEF Seeds, Slots
    <3> QED BY <3>1, <1>1, <1>3
  <2>3. \A p \in C : refs'[p] \subseteq C
    BY <1>1, <1>3
  <2>4. gc_mark(refs', (Seeds \cup held)', {}) \subseteq C
    <3> HIDE DEF C
    <3> QED BY <2>1, <2>2, <2>3, MarkIsLeast
  <2> QED BY <2>4, <1>10 DEF NoDangling, InUse
<1>13. CollectionDue(o) => heap'.live = Protected \cup {o}
  <2> SUFFICES ASSUME CollectionDue(o) PROVE heap'.live = Protected \cup {o}
    OBVIOUS
  <2>1. gc_dofree /\ gc_enabled /\ ~(paused > 0)
    BY DEF CollectionDue, gc_dofree, gc_enabled
  <2>2. count = 0 \/ full
    BY <1>1, <1>5 DEF CollectionDue, full
  <2>3. cleaned.live = mk
    BY <2>1, <2>2, <1>9
  <2> QED BY <2>1, <2>3, <1>2, <1>10
<1> QED BY <1>10, <1>11, <1>12, <1>13 DEF IInv

(* Every step keeps the invariant.                                          *)
LEMMA StepKeepsInv == IInv /\ [Next]_vars => IInv'
<1> SUFFICES ASSUME IInv, [Next]_vars PROVE IInv'
  OBVIOUS
<1>1. /\ InUse \in SUBSET Object /\ Seeds \subseteq InUse /\ held \subseteq InUse
      /\ \A p \in InUse : refs[p] \subseteq InUse
      /\ Protected \subseteq InUse
  BY UseCloses
<1>2. Typed /\ NULL \notin Object
  BY ObjectAssumption DEF IInv
<1>3. ASSUME NEW o \in Object, AllocObj(o) PROVE IInv'
  BY <1>3, AllocKeepsInv
<1>4. ASSUME NEW o \in Object, GcRoot(o) PROVE IInv'
  <2>1. heap' = heap /\ refs' = refs /\ Typed'
    BY <1>2, <1>4 DEF GcRoot, Typed
  <2>2. (Seeds \cup held)' \subseteq InUse
    BY <1>1, <1>4 DEF GcRoot, Seeds, Slots
  <2> QED BY <2>1, <2>2, <1>1, UseShrinks
<1>5. ASSUME NEW o \in Object \cup {NULL}, GcFrameNewSlot(o) PROVE IInv'
  <2>1. heap' = heap /\ refs' = refs /\ held' = held /\ roots' = roots
        /\ (stack' = stack \/ stack' = Append(stack, o)) /\ o \in held \cup {NULL}
    BY <1>5 DEF GcFrameNewSlot
  <2>2. Typed'
    <3>1. stack' \in Seq(Cells)
      BY <2>1, <1>2 DEF Typed, Cells
    <3>2. roots' = roots /\ paused' = paused /\ ticks' = ticks /\ running' \in BOOLEAN
      BY <1>2, <1>5 DEF GcFrameNewSlot, Typed
    <3> QED BY <2>1, <3>1, <3>2, <1>2 DEF Typed
  <2>3. Slots' \subseteq Slots \cup held
    <3>1. stack \in Seq(Cells)
      BY <1>2 DEF Typed
    <3>2. CASE stack' = Append(stack, o)
      <4>1. \A k \in 1 .. Len(stack') : (k \in 1 .. Len(stack) /\ stack'[k] = stack[k])
                                        \/ stack'[k] = o
        BY <3>1, <3>2
      <4> QED BY <4>1, <2>1 DEF Slots
    <3> QED BY <3>2, <2>1 DEF Slots
  <2>4. (Seeds \cup held)' \subseteq InUse
    BY <2>1, <2>3, <1>1 DEF Seeds
  <2> QED BY <2>1, <2>2, <2>4, <1>1, UseShrinks
<1>6. ASSUME NEW k \in 1 .. Len(stack), NEW o \in Object, GcFrameSetSlot(k, o) PROVE IInv'
  <2>1. heap' = heap /\ refs' = refs /\ held' = held /\ roots' = roots
        /\ stack' = [stack EXCEPT ![k] = o] /\ o \in held
    BY <1>6 DEF GcFrameSetSlot
  <2>2. Typed'
    BY <1>2, <1>6 DEF GcFrameSetSlot, Typed, Cells
  <2>3. Slots' \subseteq Slots \cup held
    <3>1. stack \in Seq(Cells)
      BY <1>2 DEF Typed
    <3>2. \A i \in 1 .. Len(stack') : i \in 1 .. Len(stack) /\ (stack'[i] = stack[i] \/ stack'[i] = o)
      BY <3>1, <2>1
    <3> QED BY <3>2, <2>1 DEF Slots
  <2>4. (Seeds \cup held)' \subseteq InUse
    BY <2>1, <2>3, <1>1 DEF Seeds
  <2> QED BY <2>1, <2>2, <2>4, <1>1, UseShrinks
<1>7. ASSUME NEW pos \in 0 .. Len(stack), GcFrameEnd(pos) PROVE IInv'
  <2>1. heap' = heap /\ refs' = refs /\ held' = held /\ roots' = roots
        /\ stack' = SubSeq(stack, 1, pos)
    BY <1>7 DEF GcFrameEnd
  <2>2. stack \in Seq(Cells) /\ Len(stack) \in Nat /\ pos \in Nat /\ pos <= Len(stack)
    BY <1>2 DEF Typed
  <2>3. /\ stack' \in Seq(Cells) /\ Len(stack') = pos
        /\ \A i \in 1 .. pos : i \in 1 .. Len(stack) /\ stack'[i] = stack[i]
    BY <2>1, <2>2
  <2>4. Typed'
    BY <2>3, <1>2, <1>7 DEF GcFrameEnd, Typed
  <2>5. (Seeds \cup held)' \subseteq InUse
    BY <2>1, <2>3, <1>1 DEF Seeds, Slots
  <2> QED BY <2>1, <2>4, <2>5, <1>1, UseShrinks
<1>8. ASSUME GcPause \/ GcUnpause \/ UNCHANGED vars PROVE IInv'
  <2>1. heap' = heap /\ refs' = refs /\ held' = held /\ roots' = roots /\ stack' = stack
    BY <1>8 DEF GcPause, GcUnpause, vars
  <2>2. Typed'
    BY <1>2, <1>8 DEF GcPause, GcUnpause, vars, Typed
  <2>3. (Seeds \cup held)' \subseteq InUse
    BY <2>1, <1>1 DEF Seeds, Slots
  <2> QED BY <2>1, <2>2, <2>3, <1>1, UseShrinks
<1>9. ASSUME NEW o \in Object, Load(o) \/ Forget(o) PROVE IInv'
  <2>1. heap' = heap /\ refs' = refs /\ roots' = roots /\ stack' = stack
        /\ held' \subseteq held \cup Protected
    BY <1>9 DEF Load, Forget
  <2>2. Typed'
    BY <1>2, <1>9 DEF Load, Forget, Typed
  <2>3. (Seeds \cup held)' \subseteq InUse
    BY <2>1, <1>1 DEF Seeds, Slots
  <2> QED BY <2>1, <2>2, <2>3, <1>1, UseShrinks
<1>10. ASSUME NEW p \in Object, NEW new \in SUBSET Object, SetField(p, new) PROVE IInv'
  <2>1. heap' = heap /\ roots' = roots /\ stack' = stack /\ held' = held
        /\ refs' = [refs EXCEPT ![p] = new] /\ p \in held /\ new \subseteq refs[p] \cup held
    BY <1>10 DEF SetField
  <2>2. Typed'
    <3>1. refs' \in [Object -> SUBSET Object]
      BY <2>1, <1>2 DEF Typed
    <3>2. paused' = paused /\ ticks' = ticks /\ running' = running
      BY <1>10 DEF SetField
    <3> QED BY <2>1, <3>1, <3>2, <1>2 DEF Typed
  <2>3. (Seeds \cup held)' \subseteq InUse
    BY <2>1, <1>1 DEF Seeds, Slots
  <2>4. \A x \in InUse : refs'[x] \subseteq InUse
    BY <2>1, <1>1, <1>2 DEF Typed
  <2> QED BY <2>1, <2>2, <2>3, <2>4, UseShrinks
<1> QED BY <1>3, <1>4, <1>5, <1>6, <1>7, <1>8, <1>9, <1>10 DEF Next

----------------------------------------------------------------------------
LEMMA InvHolds == Spec => []IInv
<1> QED BY InitIsSound, StepKeepsInv, PTL DEF Spec

(* Every variable of the heap keeps its type; in particular the cursor of   *)
(* the table never leaves it, in any mode and for any table size.           *)
THEOREM TypesAreKept == Spec => []TypeOK
<1> QED BY InvHolds, InvImplies, PTL

(* expand_living and rungc keep every object once in the table, in a slot   *)
(* that it is found in, whatever holes the sweeps leave.                    *)
THEOREM TableIsSound == Spec => []TableConsistent
<1> QED BY InvHolds, InvImplies, PTL

(* The count of holes that decides between compaction and growth is exact.  *)
THEOREM HolesAreCounted == Spec => []HolesCounted
<1> QED BY InvHolds, InvImplies, PTL

(* Every allocated object is in the table, so that the next sweep sees it.  *)
THEOREM ObjectsAreRegistered == Spec => []Registered
<1> QED BY InvHolds, InvImplies, PTL

(* The table never outgrows three times the objects that fit in memory.     *)
THEOREM TableStaysBounded == Spec => []TableBounded
<1> QED BY InvHolds, InvImplies, PTL

(* Under the allocation protocol no collection ever frees or flags an       *)
(* object the program can still get at.                                     *)
THEOREM NothingDangles == Spec => []NoDangling
<1> QED BY InvHolds, InvImplies, PTL

(* A collection that is not paused frees all garbage, cycles included.      *)
THEOREM CollectionIsExact == Spec => CollectsExactly
<1>1. IInv /\ [Next]_vars =>
        [\A o \in Object : CollectionDue(o) => heap'.live = Protected \cup {o}]_vars
  <2> SUFFICES ASSUME IInv, NEW o \in Object, CollectionDue(o)
               PROVE  heap'.live = Protected \cup {o}
    OBVIOUS
  <2> QED BY AllocKeepsInv DEF CollectionDue
<1> QED BY <1>1, InvHolds, PTL DEF Spec, CollectsExactly
=============================================================================
