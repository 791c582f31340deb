----------------------------- MODULE GraceHeap -----------------------------
(***************************************************************************)
(* The object heap of the native run-time library (gracelib.c): alloc_obj, *)
(* the table objects_living with its growth and compaction, the mark and   *)
(* sweep collector rungc, the root list, the shadow stack of frame slots,  *)
(* and gc_pause / gc_unpause.                                              *)
(*                                                                         *)
(* The C locals of the running code are the set held.  The collector does  *)
(* not see them: the code keeps them alive with gc_frame_newslot, gc_root  *)
(* or gc_pause.  AllocObj is guarded by that protocol (Disciplined), the   *)
(* one assumption this module makes about the callers of the allocator.    *)
(***************************************************************************)
EXTENDS Integers, Sequences, FiniteSets

CONSTANTS
  Object,       \* addresses an object can be allocated at
  NULL,         \* the null pointer
  InitialSize,  \* objects_living_size at start (2048 in gracelib_argv)
  Period,       \* gc_period
  StackSize,    \* gc_stack_size, the capacity of the shadow stack
  Mode,         \* "free" (default), "warn" (GRACE_GC_WARN), "off" (GRACE_GC_DISABLE)
  MaxPaused,    \* bound on the nesting of gc_pause
  MaxRefs       \* bound on the pointers one object holds

ASSUME ObjectAssumption == IsFiniteSet(Object) /\ NULL \notin Object
ASSUME SizeAssumption == InitialSize \in Nat \ {0} /\ Period \in Nat \ {0}
ASSUME StackAssumption == StackSize \in Nat
ASSUME ModeAssumption == Mode \in {"free", "warn", "off"}
ASSUME BoundsAssumption == MaxPaused \in Nat /\ MaxRefs \in Nat

VARIABLES
  heap,     \* the allocator's own state, a record (see TypeOK)
  refs,     \* the pointers an object's mark function follows
  roots,    \* GC_roots
  stack,    \* gc_stack[0 .. gc_framepos - 1]
  paused,   \* gc_paused
  ticks,    \* objectcount % gc_period
  held,     \* objects that locals of the running C code point to
  running   \* FALSE once gracedie has ended the program

vars == <<heap, refs, roots, stack, paused, ticks, held, running>>

gc_dofree  == Mode = "free"
gc_enabled == Mode # "off"

Slots == {stack[k] : k \in 1..Len(stack)} \ {NULL}
Seeds == roots \cup Slots

(* The type of the state.  heap holds objects_living and its size, next and *)
(* max (its cursor and high-water mark), fse (freed_since_expansion), the   *)
(* objects whose REACHABLE flag is set (marked), the allocated ones (live)  *)
(* and those GRACE_GC_WARN flagged dead.                                    *)
TypeOK ==
  /\ heap.size \in Nat \ {0}
  /\ heap.living \in [0 .. heap.size - 1 -> Object \cup {NULL}]
  /\ heap.next \in 0 .. heap.size
  /\ heap.max \in 0 .. heap.size
  /\ heap.fse \in Int
  /\ heap.marked \subseteq Object
  /\ heap.live \subseteq Object
  /\ heap.dead \subseteq Object
  /\ refs \in [Object -> SUBSET Object]
  /\ roots \subseteq Object
  /\ stack \in Seq(Object \cup {NULL})
  /\ paused \in Nat
  /\ ticks \in 0 .. Period - 1
  /\ held \subseteq Object
  /\ running \in BOOLEAN

----------------------------------------------------------------------------
(* Marking.  gc_mark returns at once on an object whose REACHABLE flag is   *)
(* set, so it traverses the objects outside pre that seeds lead to without  *)
(* crossing pre.                                                            *)

ClosedUnder(C, edges, pre) == \A o \in C : edges[o] \ pre \subseteq C

Traced(edges, seeds, pre) ==
  {o \in Object : \A C \in SUBSET Object :
      (seeds \ pre \subseteq C /\ ClosedUnder(C, edges, pre)) => o \in C}

gc_mark(edges, seeds, pre) == pre \cup Traced(edges, seeds, pre)

(* One collection: clear the flag of every object in the first max slots,   *)
(* mark from the roots and the shadow stack, and reap the unmarked slots:   *)
(* free them, or under GRACE_GC_WARN leave them and flag them dead.         *)
(* gc_wouldHaveRun is left out: no caller of gc_unpause uses its value.     *)
Sweep(h, mk) ==
  LET reaped == {i \in 0 .. h.max - 1 : h.living[i] # NULL /\ h.living[i] \notin mk}
      gone   == {h.living[i] : i \in reaped}
  IN  IF gc_dofree
      THEN [h EXCEPT !.living = [i \in DOMAIN h.living |->
                                   IF i \in reaped THEN NULL ELSE h.living[i]],
                     !.fse = h.fse + Cardinality(reaped),
                     !.marked = mk,
                     !.live = h.live \ gone]
      ELSE [h EXCEPT !.marked = mk,
                     !.dead = h.dead \cup gone]

Unflagged(h) == h.marked \ {h.living[i] : i \in 0 .. h.max - 1}

\* Plausible slips of rungc.
rungc_RootsOnly(h, edges, rts, slots, pz) ==
  IF pz > 0 THEN h
  ELSE Sweep(h, gc_mark(edges, rts, Unflagged(h)))

rungc_IgnoresPause(h, edges, rts, slots, pz) ==
  Sweep(h, gc_mark(edges, rts \cup slots, Unflagged(h)))

rungc_KeepsFlags(h, edges, rts, slots, pz) ==
  IF pz > 0 THEN h
  ELSE Sweep(h, gc_mark(edges, rts \cup slots, h.marked))

rungc(h, edges, rts, slots, pz) ==
  IF pz > 0 THEN h
  ELSE Sweep(h, gc_mark(edges, rts \cup slots, Unflagged(h)))

----------------------------------------------------------------------------
(* Growth.  The occupied slots are copied in order to the front of a new    *)
(* array, twice as long unless a third of the old one is holes.             *)

Occupied(living) == {i \in DOMAIN living : living[i] # NULL}

NthOccupied(living, k) ==
  CHOOSE i \in Occupied(living) :
    Cardinality({h \in Occupied(living) : h < i}) = k

Compacted(living, size) ==
  [k \in 0 .. size - 1 |->
     IF k < Cardinality(Occupied(living)) THEN living[NthOccupied(living, k)]
                                          ELSE NULL]

\* Plausible slips of expand_living, each broken by a property below.
expand_living_NeverDoubles(h, edges, rts, slots, pz) ==
  LET g == rungc(h, edges, rts, slots, pz)
      j == Cardinality(Occupied(g.living))
  IN  [g EXCEPT !.living = Compacted(g.living, g.size),
                !.fse = 0, !.max = j, !.next = j]

expand_living_KeepsMax(h, edges, rts, slots, pz) ==
  LET g   == rungc(h, edges, rts, slots, pz)
      mul == IF g.fse * 3 > g.size THEN 1 ELSE 2
      j   == Cardinality(Occupied(g.living))
  IN  [g EXCEPT !.living = Compacted(g.living, g.size * mul),
                !.fse = IF mul = 1 THEN g.fse - (g.max - j) ELSE g.fse,
                !.max = j, !.next = j, !.size = g.size * mul]

expand_living_AlwaysDoubles(h, edges, rts, slots, pz) ==
  LET g == rungc(h, edges, rts, slots, pz)
      j == Cardinality(Occupied(g.living))
  IN  [g EXCEPT !.living = Compacted(g.living, g.size * 2),
                !.fse = 0, !.max = j, !.next = j, !.size = g.size * 2]

expand_living(h, edges, rts, slots, pz) ==
  LET g   == rungc(h, edges, rts, slots, pz)
      mul == IF g.fse * 3 > g.size THEN 1 ELSE 2
      j   == Cardinality(Occupied(g.living))
  IN  [g EXCEPT !.living = Compacted(g.living, g.size * mul),
                !.fse = IF mul = 1 THEN g.fse - (g.max - j) ELSE 0,
                !.max = j,
                !.next = j,
                !.size = g.size * mul]

(* The last lines of alloc_obj: the new object takes the next slot.         *)
Register_Forgets(h, o) ==
  [h EXCEPT !.living = [h.living EXCEPT ![h.next] = o],
            !.next = h.next + 1,
            !.live = h.live \cup {o}]

Register(h, o) ==
  [h EXCEPT !.living = [h.living EXCEPT ![h.next] = o],
            !.next = h.next + 1,
            !.max = IF h.next + 1 > h.max THEN h.next + 1 ELSE h.max,
            !.live = h.live \cup {o}]

----------------------------------------------------------------------------
Init ==
  /\ heap = [living |-> [i \in 0 .. InitialSize - 1 |-> NULL],
             size |-> InitialSize, next |-> 0, max |-> 0, fse |-> 0,
             marked |-> {}, live |-> {}, dead |-> {}]
  /\ refs = [o \in Object |-> {}]
  /\ roots = {}
  /\ stack = << >>
  /\ paused = 0
  /\ ticks = 0
  /\ held = {}
  /\ running = TRUE

Protected == gc_mark(refs, Seeds, {})
Disciplined == paused > 0 \/ held \subseteq Protected

(* alloc_obj.  glmalloc runs first, so the new address differs from that of *)
(* every object allocated before the collection; calloc and the memset of   *)
(* glfree leave a fresh or freed block without pointers.                    *)
AllocObj(o) ==
  /\ running
  /\ Disciplined
  /\ o \notin heap.live
  /\ LET full    == heap.next >= heap.size
         grown   == IF full THEN expand_living(heap, refs, roots, Slots, paused)
                            ELSE heap
         count   == (ticks + 1) % Period
         cleaned == IF count = 0 THEN rungc(grown, refs, roots, Slots, paused)
                                 ELSE grown
     IN  /\ heap' = IF gc_enabled THEN Register(cleaned, o)
                    ELSE [heap EXCEPT !.live = heap.live \cup {o}]
         /\ ticks' = count
  /\ refs' = [p \in Object |-> IF p \in heap'.live \ {o} THEN refs[p] ELSE {}]
  /\ held' = held \cup {o}
  /\ UNCHANGED <<roots, stack, paused, running>>

GcRoot(o) ==
  /\ running
  /\ o \in held
  /\ roots' = roots \cup {o}
  /\ UNCHANGED <<heap, refs, stack, paused, ticks, held, running>>

(* gc_frame_newslot; when the shadow stack is full gracedie ends a program  *)
(* that has no handler.                                                     *)
GcFrameNewSlot(o) ==
  /\ running
  /\ o \in held \cup {NULL}
  /\ IF Len(stack) = StackSize
     THEN running' = FALSE /\ stack' = stack
     ELSE running' = running /\ stack' = Append(stack, o)
  /\ UNCHANGED <<heap, refs, roots, paused, ticks, held>>

GcFrameSetSlot(k, o) ==
  /\ running
  /\ k \in 1 .. Len(stack)
  /\ o \in held
  /\ stack' = [stack EXCEPT ![k] = o]
  /\ UNCHANGED <<heap, refs, roots, paused, ticks, held, running>>

(* gc_frame_end(pos), pos being a position an earlier gc_frame_new gave.    *)
GcFrameEnd(pos) ==
  /\ running
  /\ pos \in 0 .. Len(stack)
  /\ stack' = SubSeq(stack, 1, pos)
  /\ UNCHANGED <<heap, refs, roots, paused, ticks, held, running>>

GcPause ==
  /\ running
  /\ paused < MaxPaused
  /\ paused' = paused + 1
  /\ UNCHANGED <<heap, refs, roots, stack, ticks, held, running>>

GcUnpause ==
  /\ running
  /\ paused > 0
  /\ paused' = paused - 1
  /\ UNCHANGED <<heap, refs, roots, stack, ticks, held, running>>

(* The running code: fetch an object it can reach into a local, let a local *)
(* go (return, reassignment, or a longjmp past the frame that had it), and  *)
(* write or overwrite a field (adddatum2, setsuperobj, setclosureframe).    *)
Load(o) ==
  /\ running
  /\ o \in Protected \ held
  /\ held' = held \cup {o}
  /\ UNCHANGED <<heap, refs, roots, stack, paused, ticks, running>>

Forget(o) ==
  /\ running
  /\ o \in held
  /\ held' = held \ {o}
  /\ UNCHANGED <<heap, refs, roots, stack, paused, ticks, running>>

SetField(p, new) ==
  /\ running
  /\ p \in held
  /\ new \subseteq refs[p] \cup held /\ Cardinality(new) <= MaxRefs
  /\ refs' = [refs EXCEPT ![p] = new]
  /\ UNCHANGED <<heap, roots, stack, paused, ticks, held, running>>

Next ==
  \/ \E o \in Object : AllocObj(o)
  \/ \E o \in Object : GcRoot(o)
  \/ \E o \in Object \cup {NULL} : GcFrameNewSlot(o)
  \/ \E k \in 1 .. Len(stack), o \in Object : GcFrameSetSlot(k, o)
  \/ \E pos \in 0 .. Len(stack) : GcFrameEnd(pos)
  \/ GcPause
  \/ GcUnpause
  \/ \E o \in Object : Load(o)
  \/ \E o \in Object : Forget(o)
  \/ \E p \in Object, new \in SUBSET Object : SetField(p, new)

Spec == Init /\ [][Next]_vars

----------------------------------------------------------------------------
(* The table's cursor and high-water mark agree, nothing lies beyond them,  *)
(* and no object is registered twice (it would be freed twice).             *)
TableConsistent ==
  /\ heap.next = heap.max
  /\ heap.max <= heap.size
  /\ \A i \in heap.max .. heap.size - 1 : heap.living[i] = NULL
  /\ \A i, j \in 0 .. heap.size - 1 :
        (heap.living[i] = heap.living[j] /\ heap.living[i] # NULL) => i = j

(* freed_since_expansion counts the holes of the table exactly.  This is    *)
(* what makes expand_living safe: it keeps the array's length only if more  *)
(* than a third of it is holes, and the store objects_living[next++] that   *)
(* follows in alloc_obj has no bounds check of its own.                     *)
Holes == {i \in 0 .. heap.max - 1 : heap.living[i] = NULL}
HolesCounted == heap.fse = Cardinality(Holes)

(* Every allocated object is registered, so that a sweep can reap it, and   *)
(* every set REACHABLE flag is one the next collection will clear.          *)
Registered ==
  gc_enabled => /\ heap.live = {heap.living[i] : i \in 0 .. heap.max - 1} \ {NULL}
                /\ heap.marked \subseteq heap.live

(* The running code never reaches a freed object, nor one that              *)
(* GRACE_GC_WARN reports: every object that a root, a shadow-stack slot or  *)
(* a local leads to is allocated and not flagged dead.                      *)
InUse == gc_mark(refs, Seeds \cup held, {})
NoDangling == InUse \subseteq heap.live \ heap.dead

(* The table stays proportional to the objects that can exist at once: a    *)
(* table three times as large has more than a third holes when it fills,    *)
(* and is compacted in place.                                               *)
TableBounded ==
  heap.size <= InitialSize \/ heap.size <= 3 * Cardinality(Object)

(* A collection that runs is exact: what is allocated after it is what the  *)
(* roots and the shadow stack lead to, and the new object.                  *)
CollectionDue(o) ==
  AllocObj(o) /\ gc_dofree /\ paused = 0 /\ (ticks' = 0 \/ heap.next = heap.size)
CollectsExactly ==
  [][\A o \in Object : CollectionDue(o) => heap'.live = Protected \cup {o}]_vars

(* If the program keeps allocating and is not paused for ever, an object it *)
(* can no longer reach is freed, or comes back into reach.                  *)
GarbageIsReclaimed ==
  \A g \in Object :
    (<>[](paused = 0) /\ []<><<\E o \in Object : AllocObj(o)>>_vars)
      => [](g \in heap.live => <>(g \notin heap.live \/ g \in Protected))
=============================================================================
