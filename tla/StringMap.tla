------------------------------ MODULE StringMap ------------------------------
(***************************************************************************)
(* stringMap.grace as the C back end runs it: open addressing without      *)
(* removal.  put is one step, and each round of expand's loop over the old *)
(* array, which calls put again, is a step of its own: rehash holds the    *)
(* calls of expand under way, the innermost last.                          *)
(***************************************************************************)
EXTENDS HashProbe, Sequences, FiniteSets

CONSTANTS
  Key, Value,
  UNUSED,      \* the object that marks a free slot
  ABSENT,      \* see MapSpec
  HashOf,      \* k.hash
  Capacity,    \* the length of the first array (4 in the code)
  PutInVisit   \* may the block given to keysAndValuesDo put?

Binding == [key : Key, value : Value]

ConstantsOK ==
  /\ IsFiniteSet(Key) /\ HashOf \in [Key -> Nat]
  /\ UNUSED \notin Binding /\ ABSENT \notin Value
  /\ Capacity \in Nat /\ Capacity >= 4
  /\ PutInVisit \in BOOLEAN

VARIABLES
  inner,    \* the array: its size and its slots
  elems,
  rehash,   \* per call of expand under way: oldInner and the loop's next index
  visit,    \* a call of keysAndValuesDo: count, idx, and (history) the keys visited
  status,   \* "running", "looping" (findPosition never returns) or "outOfBounds"
  answer    \* see MapSpec

vars == <<inner, elems, rehash, visit, status, answer>>

Blank(s) == [size |-> s, at |-> [t \in 0 .. s - 1 |-> UNUSED]]
NoVisit  == [count |-> 0, idx |-> 0, seen |-> {}]

\* Slots at which the loop of findPosition stops.
Stops(k) == {t \in 0 .. inner.size - 1 : inner.at[t] = UNUSED \/ inner.at[t].key = k}

FindEnds(k)     == SearchEnds(HashOf[k], inner.size, Stops(k))
findPosition(k) == SearchResult(HashOf[k], inner.size, Stops(k))

Bound(array) == {array.at[t] : t \in 0 .. array.size - 1} \ {UNUSED}

Idle == status = "running" /\ rehash = << >>

----------------------------------------------------------------------------
Init ==
  /\ inner = Blank(Capacity)
  /\ elems = 0
  /\ rehash = << >>
  /\ visit = NoVisit
  /\ status = "running"
  /\ answer = << >>

Hang == status' = "looping" /\ UNCHANGED <<inner, elems, rehash, visit>>

\* A plausible slip of put: it never expands.
Store_NeverExpands(k, v, calls) ==
  LET t == findPosition(k)
  IN  /\ inner' = [inner EXCEPT !.at[t] = [key |-> k, value |-> v]]
      /\ elems' = IF inner.at[t] = UNUSED THEN elems + 1 ELSE elems
      /\ rehash' = calls
      /\ UNCHANGED <<visit, status>>

(* put, when the calls of expand in calls are under way.  If the table is   *)
(* more than half full, expand starts.                                      *)
Store(k, v, calls) ==
  LET t      == findPosition(k)
      stored == [inner EXCEPT !.at[t] = [key |-> k, value |-> v]]
      count  == IF inner.at[t] = UNUSED THEN elems + 1 ELSE elems
      full   == 2 * count > inner.size
  IN  /\ inner' = IF full THEN Blank(inner.size * 2) ELSE stored
      /\ elems' = IF full THEN 0 ELSE count
      /\ rehash' = IF full THEN Append(calls, [old |-> stored, next |-> 0]) ELSE calls
      /\ UNCHANGED <<visit, status>>

Put(k, v) ==
  /\ Idle
  /\ visit # NoVisit => PutInVisit
  /\ IF FindEnds(k) THEN Store(k, v, << >>) /\ answer' = <<"put", k, v>>
                    ELSE Hang /\ UNCHANGED answer

\* Plausible slips of expand: it copies slot for slot, or misses the last.
ExpandRound_KeepsPlaces ==
  /\ status = "running" /\ rehash # << >>
  /\ LET call == rehash[Len(rehash)]
     IN  /\ inner' = [inner EXCEPT !.at = [t \in DOMAIN inner.at |->
                        IF t \in DOMAIN call.old.at THEN call.old.at[t] ELSE UNUSED]]
         /\ elems' = Cardinality({t \in DOMAIN call.old.at : call.old.at[t] # UNUSED})
         /\ rehash' = << >>
  /\ UNCHANGED <<visit, status, answer>>

ExpandRound_MissesLast ==
  /\ status = "running" /\ rehash # << >>
  /\ LET call  == rehash[Len(rehash)]
         outer == SubSeq(rehash, 1, Len(rehash) - 1)
         after == Append(outer, [call EXCEPT !.next = call.next + 1])
         a     == call.old.at[call.next]
     IN  IF call.next = call.old.size - 1
         THEN rehash' = outer /\ UNCHANGED <<inner, elems, visit, status>>
         ELSE IF a = UNUSED
              THEN rehash' = after /\ UNCHANGED <<inner, elems, visit, status>>
              ELSE Store(a.key, a.value, after)
  /\ UNCHANGED answer

(* One round of the loop of the innermost expand.                           *)
ExpandRound ==
  /\ status = "running" /\ rehash # << >>
  /\ LET call  == rehash[Len(rehash)]
         outer == SubSeq(rehash, 1, Len(rehash) - 1)
         after == Append(outer, [call EXCEPT !.next = call.next + 1])
     IN  IF call.next = call.old.size
         THEN rehash' = outer /\ UNCHANGED <<inner, elems, visit, status>>
         ELSE LET a == call.old.at[call.next]
              IN  IF a = UNUSED
                  THEN rehash' = after /\ UNCHANGED <<inner, elems, visit, status>>
                  ELSE IF FindEnds(a.key) THEN Store(a.key, a.value, after)
                                          ELSE Hang
  /\ UNCHANGED answer

(* get, and get()ifAbsent.                                                  *)
Get(k) ==
  /\ Idle
  /\ IF FindEnds(k)
     THEN /\ LET c == inner.at[findPosition(k)]
             IN  answer' = <<"get", k, IF c = UNUSED THEN ABSENT ELSE c.value>>
          /\ UNCHANGED <<inner, elems, rehash, visit, status>>
     ELSE Hang /\ UNCHANGED answer

Contains(k) ==
  /\ Idle
  /\ IF FindEnds(k)
     THEN /\ answer' = <<"contains", k, inner.at[findPosition(k)] # UNUSED>>
          /\ UNCHANGED <<inner, elems, rehash, visit, status>>
     ELSE Hang /\ UNCHANGED answer

(* keysAndValuesDo, do, keysDo, valuesDo and asList share one loop.  A step *)
(* takes it to the next application of the block, which may make requests   *)
(* of its own, or to the loop's end.                                        *)
VisitStarts ==
  /\ Idle
  /\ visit = NoVisit
  /\ visit' = [count |-> 1, idx |-> 0, seen |-> {}]
  /\ UNCHANGED <<inner, elems, rehash, status, answer>>

\* A plausible slip: the next round starts at the slot just visited.
VisitNext_Stays ==
  /\ Idle
  /\ visit # NoVisit /\ visit.count <= elems
  /\ LET ahead == {t \in visit.idx .. inner.size - 1 : inner.at[t] # UNUSED}
         t     == CHOOSE t \in ahead : \A u \in ahead : t <= u
     IN  visit' = [count |-> visit.count + 1, idx |-> t,
                   seen |-> visit.seen \cup {inner.at[t].key}]
  /\ UNCHANGED <<inner, elems, rehash, status, answer>>

VisitNext ==
  /\ Idle
  /\ visit # NoVisit /\ visit.count <= elems
  /\ LET ahead == {t \in visit.idx .. inner.size - 1 : inner.at[t] # UNUSED}
     IN  IF ahead = {}
         THEN status' = "outOfBounds" /\ visit' = visit
         ELSE LET t == CHOOSE t \in ahead : \A u \in ahead : t <= u
              IN  /\ visit' = [count |-> visit.count + 1, idx |-> t + 1,
                               seen |-> visit.seen \cup {inner.at[t].key}]
                  /\ status' = status
  /\ UNCHANGED <<inner, elems, rehash, answer>>

VisitEnds ==
  /\ Idle
  /\ visit # NoVisit /\ visit.count > elems
  /\ visit' = NoVisit
  /\ UNCHANGED <<inner, elems, rehash, status, answer>>

Next ==
  \/ \E k \in Key, v \in Value : Put(k, v)
  \/ \E k \in Key : Get(k) \/ Contains(k)
  \/ ExpandRound
  \/ VisitStarts
  \/ VisitNext
  \/ VisitEnds

Spec == Init /\ [][Next]_vars

----------------------------------------------------------------------------
\* Bindings not yet carried over by the calls of expand, and all bindings.
Left(call) == {call.old.at[t] : t \in call.next .. call.old.size - 1} \ {UNUSED}
Pending == UNION {Left(rehash[i]) : i \in 1 .. Len(rehash)}
All     == Bound(inner) \cup Pending

(* The type of the state: the array and the arrays expand copies from have  *)
(* a binding or the mark in every slot of theirs.                           *)
TypeOK ==
  /\ inner.size \in Nat \ {0}
  /\ inner.at \in [0 .. inner.size - 1 -> Binding \cup {UNUSED}]
  /\ elems \in Nat
  /\ \A i \in 1 .. Len(rehash) :
       /\ rehash[i].old.at \in [0 .. rehash[i].old.size - 1 -> Binding \cup {UNUSED}]
       /\ rehash[i].next \in 0 .. rehash[i].old.size
  /\ visit.count \in Nat /\ visit.idx \in 0 .. inner.size /\ visit.seen \subseteq Key
  /\ status \in {"running", "looping", "outOfBounds"}

(* Every search of findPosition ends: at all times, expand's loop included, *)
(* the array has a free slot.                                               *)
SearchesEnd == status # "looping"

(* size, which counts insertions, is the number of keys in the array, and   *)
(* at most half of the array is in use; expand never nests.                 *)
SizeIsExact ==
  /\ elems = Cardinality({b.key : b \in Bound(inner)})
  /\ elems = Cardinality({t \in 0 .. inner.size - 1 : inner.at[t] # UNUSED})
  /\ 2 * elems <= inner.size
  /\ Len(rehash) <= 1

(* A key is where findPosition looks for it, whatever keys were put before  *)
(* and after it and however often the array was expanded.                   *)
Findable ==
  \A t \in 0 .. inner.size - 1 :
    inner.at[t] # UNUSED =>
      FindEnds(inner.at[t].key) /\ findPosition(inner.at[t].key) = t

(* Iteration applies its block to every key once and never leaves the array.*)
VisitsAllStep ==
  /\ VisitEnds => visit.seen = {b.key : b \in Bound(inner)}
  /\ VisitNext => status' = "running" /\ visit'.seen # visit.seen
IteratesAll == [][VisitsAllStep]_vars

(* The table is a map: every request answers what MapSpec promises.         *)
mapped ==
  [k \in Key |-> IF \E b \in All : b.key = k
                 THEN (CHOOSE b \in All : b.key = k).value ELSE ABSENT]
Map == INSTANCE MapSpec WITH map <- mapped
IsMap == Map!Spec
=============================================================================
