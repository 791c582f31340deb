--------------------------- MODULE GraceDictionary ---------------------------
(***************************************************************************)
(* The dictionary of collectionsPrelude.grace: open addressing with the    *)
(* mark REMOVED left where a binding was, expansion, bulk removal, and the *)
(* fail-fast iterator over the bindings.  Requests are one step, except    *)
(* the loops of expand and of removeAllKeys, which make requests of their  *)
(* own: a round of those is a step.                                        *)
(***************************************************************************)
EXTENDS HashProbe, Sequences, FiniteSets

CONSTANTS
  Key, Value,
  UNUSED, REMOVED,  \* the objects that mark a free slot and a vacated one
  ABSENT,           \* see MapSpec
  Capacity,         \* the length of the first array (8 in the code)
  Programs          \* kinds of programs: the hashes of their keys, what they do

Features ==
  {"removal",     \* it removes keys or values
   "lazySource"}  \* the keys given to removeAllKeys come from an iterator over the dictionary

Binding == [key : Key, value : Value]

ConstantsOK ==
  /\ IsFiniteSet(Key)
  /\ UNUSED # REMOVED /\ {UNUSED, REMOVED} \cap Binding = {} /\ ABSENT \notin Value
  /\ Capacity \in Nat \ {0}
  /\ Programs \subseteq [hash : [Key -> Nat], uses : SUBSET Features]

VARIABLES
  inner,        \* the array: its size and its slots
  numBindings,
  rehash,       \* per call of expand under way: oldInner and the loop's next index
  removing,     \* TRUE inside removeAllKeys
  iter,         \* a bindingsIterator: stale (imods # mods), count, idx, and the
                \* history: the keys it gave, the bindings when it was made
  status,       \* "running", "looping" (a search never returns) or "outOfBounds"
  answer,       \* see MapSpec
  program       \* the kind of program that runs

vars == <<inner, numBindings, rehash, removing, iter, status, answer, program>>

Blank(s) == [size |-> s, at |-> [t \in 0 .. s - 1 |-> UNUSED]]
NoIter   == [stale |-> TRUE, count |-> 0, idx |-> 0, given |-> {}, made |-> {}]

Marks      == {UNUSED, REMOVED}
Slots      == 0 .. inner.size - 1
HasKey(k)  == {t \in Slots : inner.at[t] \notin Marks /\ inner.at[t].key = k}
Free(mark) == {t \in Slots : inner.at[t] = mark}

FindStops(k) == HasKey(k) \cup Free(UNUSED)
\* A plausible slip of findPositionForAdd: it does not look for the key.
AddStops_AnyFree(k) == Free(UNUSED) \cup Free(REMOVED)
AddStops(k)  == HasKey(k) \cup Free(UNUSED) \cup Free(REMOVED)

FindEnds(k)           == SearchEnds(program.hash[k], inner.size, FindStops(k))
findPosition(k)       == SearchResult(program.hash[k], inner.size, FindStops(k))
AddEnds(k)            == SearchEnds(program.hash[k], inner.size, AddStops(k))
findPositionForAdd(k) == SearchResult(program.hash[k], inner.size, AddStops(k))

Bound(array) == {array.at[t] : t \in 0 .. array.size - 1} \ Marks

Idle == status = "running" /\ rehash = << >> /\ ~removing

\* mods := mods + 1: only whether mods differs from imods matters.
Stale == [iter EXCEPT !.stale = TRUE]

----------------------------------------------------------------------------
Init ==
  /\ inner = Blank(Capacity)
  /\ numBindings = 0
  /\ rehash = << >>
  /\ removing = FALSE
  /\ iter = NoIter
  /\ status = "running"
  /\ answer = << >>
  /\ program \in Programs

Hang ==
  /\ status' = "looping"
  /\ UNCHANGED <<inner, numBindings, rehash, removing, answer, program>>

(* at()put, add and []:=, when the calls of expand in calls are under way.  *)
Store(k, v, calls) ==
  LET t      == findPositionForAdd(k)
      stored == [inner EXCEPT !.at[t] = [key |-> k, value |-> v]]
      count  == IF inner.at[t] \in Marks THEN numBindings + 1 ELSE numBindings
      full   == count * 2 > inner.size
  IN  /\ inner' = IF full THEN Blank(inner.size * 2) ELSE stored
      /\ numBindings' = IF full THEN 0 ELSE count
      /\ rehash' = IF full THEN Append(calls, [old |-> stored, next |-> 0]) ELSE calls
      /\ UNCHANGED <<removing, status, program>>

Put(k, v) ==
  /\ Idle
  /\ iter' = Stale
  /\ IF AddEnds(k) THEN Store(k, v, << >>) /\ answer' = <<"put", k, v>>
                   ELSE Hang

(* One round of the loop of the innermost expand.                           *)
ExpandRound ==
  /\ status = "running" /\ rehash # << >>
  /\ LET call  == rehash[Len(rehash)]
         outer == SubSeq(rehash, 1, Len(rehash) - 1)
         after == Append(outer, [call EXCEPT !.next = call.next + 1])
         a     == IF call.next < call.old.size THEN call.old.at[call.next] ELSE UNUSED
     IN  IF a \in Marks
         THEN /\ rehash' = IF call.next < call.old.size THEN after ELSE outer
              /\ UNCHANGED <<inner, numBindings, removing, iter, status, answer, program>>
         ELSE /\ iter' = Stale
              /\ IF AddEnds(a.key) THEN Store(a.key, a.value, after) /\ UNCHANGED answer
                                   ELSE Hang

(* at, at()ifAbsent and [].                                                 *)
Get(k) ==
  /\ Idle
  /\ IF FindEnds(k)
     THEN /\ LET b == inner.at[findPosition(k)]
             IN  answer' = <<"get", k, IF b = UNUSED THEN ABSENT ELSE b.value>>
          /\ UNCHANGED <<inner, numBindings, rehash, removing, status, program>>
     ELSE Hang
  /\ UNCHANGED iter

ContainsKey(k) ==
  /\ Idle
  /\ IF FindEnds(k)
     THEN /\ answer' = <<"contains", k, inner.at[findPosition(k)] # UNUSED>>
          /\ UNCHANGED <<inner, numBindings, rehash, removing, status, program>>
     ELSE Hang
  /\ UNCHANGED iter

\* A plausible slip: a key that is not there is counted.
Vacate_CountsAlways(k) ==
  LET t == findPosition(k)
      present == inner.at[t] # UNUSED
  IN  /\ inner' = IF present THEN [inner EXCEPT !.at[t] = REMOVED] ELSE inner
      /\ numBindings' = numBindings - 1
      /\ removing' = (removing /\ present)
      /\ answer' = <<"removeKey", k, IF present THEN k ELSE ABSENT>>
      /\ UNCHANGED <<rehash, status, program>>

(* The removal of one key, in removeKey and in the loop of removeAllKeys;   *)
(* NoSuchObject ends both.                                                  *)
Vacate(k) ==
  LET t == findPosition(k)
      present == inner.at[t] # UNUSED
  IN  /\ inner' = IF present THEN [inner EXCEPT !.at[t] = REMOVED] ELSE inner
      /\ numBindings' = IF present THEN numBindings - 1 ELSE numBindings
      /\ removing' = (removing /\ present)
      /\ answer' = <<"removeKey", k, IF present THEN k ELSE ABSENT>>
      /\ UNCHANGED <<rehash, status, program>>

RemoveKey(k) ==
  /\ Idle
  /\ "removal" \in program.uses
  /\ iter' = Stale
  /\ IF FindEnds(k) THEN Vacate(k) ELSE Hang

RemoveAllKeysStarts ==
  /\ Idle
  /\ "removal" \in program.uses
  /\ removing' = TRUE
  /\ iter' = Stale
  /\ UNCHANGED <<inner, numBindings, rehash, status, answer, program>>

RemoveAllKeysRound(k) ==
  /\ status = "running" /\ removing
  /\ IF FindEnds(k) THEN Vacate(k) ELSE Hang
  /\ UNCHANGED iter

RemoveAllKeysEnds ==
  /\ status = "running" /\ removing
  /\ removing' = FALSE
  /\ UNCHANGED <<inner, numBindings, rehash, iter, status, answer, program>>

(* removeValue and removeValue()ifAbsent; removeAllValues does the same for *)
(* every slot whose value is in a collection.                               *)
RemoveValue(v) ==
  /\ Idle
  /\ "removal" \in program.uses
  /\ LET gone == {t \in Slots : inner.at[t] \notin Marks /\ inner.at[t].value = v}
     IN  /\ inner' = [inner EXCEPT !.at =
                        [t \in Slots |-> IF t \in gone THEN REMOVED ELSE inner.at[t]]]
         /\ numBindings' = numBindings - Cardinality(gone)
         /\ answer' = <<"removeValue", v, IF gone = {} THEN ABSENT ELSE v>>
  /\ iter' = Stale
  /\ UNCHANGED <<rehash, removing, status, program>>

(* The iterator.  The source of the keys given to removeAllKeys is consulted*)
(* during its loop.                                                         *)
MayIterate ==
  /\ status = "running" /\ rehash = << >>
  /\ removing => "lazySource" \in program.uses

NewIterator ==
  /\ MayIterate
  /\ iter' = [stale |-> FALSE, count |-> 1, idx |-> 0, given |-> {}, made |-> Bound(inner)]
  /\ UNCHANGED <<inner, numBindings, rehash, removing, status, answer, program>>

\* A stale iterator raises ConcurrentModification, one at its end
\* IteratorExhausted, and nothing changes.
IteratorNext ==
  /\ MayIterate
  /\ ~iter.stale /\ iter.count <= numBindings
  /\ LET ahead == {t \in iter.idx .. inner.size - 1 : inner.at[t] \notin Marks}
     IN  IF ahead = {}
         THEN status' = "outOfBounds" /\ iter' = iter
         ELSE LET t == CHOOSE t \in ahead : \A u \in ahead : t <= u
              IN  /\ iter' = [iter EXCEPT !.count = iter.count + 1, !.idx = t + 1,
                                !.given = iter.given \cup {inner.at[t].key}]
                  /\ status' = status
  /\ UNCHANGED <<inner, numBindings, rehash, removing, answer, program>>

Next ==
  \/ \E k \in Key, v \in Value : Put(k, v)
  \/ ExpandRound
  \/ \E k \in Key : Get(k) \/ ContainsKey(k) \/ RemoveKey(k) \/ RemoveAllKeysRound(k)
  \/ RemoveAllKeysStarts
  \/ RemoveAllKeysEnds
  \/ \E v \in Value : RemoveValue(v)
  \/ NewIterator
  \/ IteratorNext

Spec == Init /\ [][Next]_vars

----------------------------------------------------------------------------
\* Bindings not yet carried over by the calls of expand, and all bindings.
Left(call) == {call.old.at[t] : t \in call.next .. call.old.size - 1} \ Marks
Pending == UNION {Left(rehash[i]) : i \in 1 .. Len(rehash)}
All     == Bound(inner) \cup Pending

(* The type of the state: the array and the arrays expand copies from have  *)
(* a binding or a mark in every slot of theirs.                             *)
TypeOK ==
  /\ inner.size \in Nat \ {0}
  /\ inner.at \in [Slots -> Binding \cup Marks]
  /\ numBindings \in Nat
  /\ \A i \in 1 .. Len(rehash) :
       /\ rehash[i].old.at \in [0 .. rehash[i].old.size - 1 -> Binding \cup Marks]
       /\ rehash[i].next \in 0 .. rehash[i].old.size
  /\ removing \in BOOLEAN
  /\ iter.count \in Nat /\ iter.given \subseteq Key
  /\ program \in Programs
  /\ status \in {"running", "looping", "outOfBounds"}

(* size is the number of keys in the array, no key has two bindings, and    *)
(* expand never nests.                                                      *)
SizeIsExact ==
  /\ numBindings = Cardinality({b.key : b \in Bound(inner)})
  /\ numBindings = Cardinality({t \in Slots : inner.at[t] \notin Marks})
  /\ Len(rehash) <= 1

(* A key is where findPosition looks for it, across the marks that removed  *)
(* keys left in its way.                                                    *)
Findable ==
  \A t \in Slots : inner.at[t] \notin Marks =>
    FindEnds(inner.at[t].key) /\ findPosition(inner.at[t].key) = t

(* After removeKey(k), which succeeds, containsKey(k) is false.             *)
RemovedIsGoneStep ==
  \A k \in Key : answer' = <<"removeKey", k, k>> /\ RemoveKey(k) => HasKey(k)' = {}
RemovedIsGone == [][RemovedIsGoneStep]_vars

(* Fail fast: an iterator that yields finds the bindings it was made for.   *)
FailFastStep == IteratorNext => Bound(inner) = iter.made
FailFast == [][FailFastStep]_vars

(* An iterator gives every key once: next never runs off the array, never   *)
(* repeats a key, and hasNext is false only when all have been given.       *)
IteratesAllStep ==
  /\ IteratorNext => status' = "running" /\ iter'.given # iter.given
  /\ (IteratorNext /\ iter'.count > numBindings)
       => iter'.given = {b.key : b \in iter.made}
IteratesAll == [][IteratesAllStep]_vars

(* The dictionary is a map: every request answers what MapSpec promises.    *)
mapped ==
  [k \in Key |-> IF \E b \in All : b.key = k
                 THEN (CHOOSE b \in All : b.key = k).value ELSE ABSENT]
Map == INSTANCE MapSpec WITH map <- mapped
IsMap == Map!Spec
=============================================================================
