------------------------------- MODULE GraceSet -------------------------------
(***************************************************************************)
(* The set of collectionsPrelude.grace: open addressing with the mark      *)
(* REMOVED left where an element was, expansion, bulk requests, and the    *)
(* fail-fast iterator.  Requests are one step, except the loops of expand, *)
(* of addAll and of removeAll()ifAbsent, which consult objects of the      *)
(* program or the set itself: a round of those is a step.                  *)
(***************************************************************************)
EXTENDS HashProbe, Sequences, FiniteSets

CONSTANTS
  Element,
  UNUSED, REMOVED,  \* the objects that mark a free slot and a vacated one
  HashOf,           \* x.hash
  Capacity,         \* the length of the first array (8 or more in the code)
  LazySource        \* may the argument of a bulk request iterate over the set?

ConstantsOK ==
  /\ IsFiniteSet(Element) /\ HashOf \in [Element -> Nat]
  /\ UNUSED # REMOVED /\ {UNUSED, REMOVED} \cap Element = {}
  /\ Capacity \in Nat /\ Capacity >= 2
  /\ LazySource \in BOOLEAN

VARIABLES
  inner,    \* the array: its size and its slots
  size,
  rehash,   \* per call of expand under way: oldInner and the loop's next index
  bulk,     \* the bulk request under way: "none", "addAll" or "removeAll"
  iter,     \* an iterator: stale (imods # mods), count, idx (the slot it gave
            \* last), and the history: what it gave, the elements at its start
  status,   \* "running" or "looping" (a search never returns)
  answer    \* see SetSpec

vars == <<inner, size, rehash, bulk, iter, status, answer>>

Blank(s) == [size |-> s, at |-> [t \in 0 .. s - 1 |-> UNUSED]]
NoIter   == [stale |-> TRUE, count |-> 1, idx |-> -1, given |-> {}, made |-> {}]

Marks       == {UNUSED, REMOVED}
Slots       == 0 .. inner.size - 1
SlotsOf(x)  == {t \in Slots : inner.at[t] = x}
In(array)   == {array.at[t] : t \in 0 .. array.size - 1} \ Marks

FindStops(x) == SlotsOf(x) \cup SlotsOf(UNUSED)
AddStops(x)  == SlotsOf(x) \cup SlotsOf(UNUSED) \cup SlotsOf(REMOVED)

FindEnds(x)           == SearchEnds(HashOf[x], inner.size, FindStops(x))
findPosition(x)       == SearchResult(HashOf[x], inner.size, FindStops(x))
findPositionForAdd(x) == SearchResult(HashOf[x], inner.size, AddStops(x))
Present(x)            == inner.at[findPosition(x)] = x

Quiet == status = "running" /\ rehash = << >>
Idle  == Quiet /\ bulk = "none"

\* mods := mods + 1: only whether mods differs from imods matters.
Stale == [iter EXCEPT !.stale = TRUE]

----------------------------------------------------------------------------
Init ==
  /\ inner = Blank(Capacity)
  /\ size = 0
  /\ rehash = << >>
  /\ bulk = "none"
  /\ iter = NoIter
  /\ status = "running"
  /\ answer = << >>

Hang ==
  /\ status' = "looping"
  /\ UNCHANGED <<inner, size, rehash, bulk, answer>>

\* Plausible slips of add: no look whether x is there, size not counted up.
Insert_Unguarded(x, calls) ==
  /\ inner' = [inner EXCEPT !.at[findPositionForAdd(x)] = x]
  /\ size' = size + 1
  /\ rehash' = calls
  /\ UNCHANGED status

Insert_KeepsSize(x, calls) ==
  LET stored == [inner EXCEPT !.at[findPositionForAdd(x)] = x]
      full   == 2 * (size + 1) > inner.size
  IN  /\ inner' = IF Present(x) THEN inner
                  ELSE IF full THEN Blank(inner.size * 2) ELSE stored
      /\ size' = IF Present(x) THEN size ELSE size + 1
      /\ rehash' = IF ~Present(x) /\ full
                   THEN Append(calls, [old |-> stored, next |-> 0]) ELSE calls
      /\ UNCHANGED status

(* The body of add and of addAll's loop, when the calls of expand in calls  *)
(* are under way.                                                           *)
Insert(x, calls) ==
  LET stored == [inner EXCEPT !.at[findPositionForAdd(x)] = x]
      full   == 2 * (size + 1) > inner.size
  IN  /\ inner' = IF Present(x) THEN inner
                  ELSE IF full THEN Blank(inner.size * 2) ELSE stored
      /\ size' = IF Present(x) THEN size ELSE IF full THEN 0 ELSE size + 1
      /\ rehash' = IF ~Present(x) /\ full
                   THEN Append(calls, [old |-> stored, next |-> 0]) ELSE calls
      /\ UNCHANGED status

Add(x) ==
  /\ Idle
  /\ IF FindEnds(x)
     THEN /\ Insert(x, << >>)
          /\ iter' = IF Present(x) THEN iter ELSE Stale
          /\ answer' = <<"add", x, Present(x)>>
          /\ UNCHANGED bulk
     ELSE Hang /\ UNCHANGED iter

(* One round of the loop of the innermost expand, which requests add.       *)
ExpandRound ==
  /\ status = "running" /\ rehash # << >>
  /\ LET call  == rehash[Len(rehash)]
         outer == SubSeq(rehash, 1, Len(rehash) - 1)
         after == Append(outer, [call EXCEPT !.next = call.next + 1])
         x     == IF call.next < call.old.size THEN call.old.at[call.next] ELSE UNUSED
     IN  IF x \in Marks
         THEN /\ rehash' = IF call.next < call.old.size THEN after ELSE outer
              /\ UNCHANGED <<inner, size, bulk, iter, status, answer>>
         ELSE IF FindEnds(x)
              THEN /\ Insert(x, after)
                   /\ iter' = IF Present(x) THEN iter ELSE Stale
                   /\ UNCHANGED <<bulk, answer>>
              ELSE Hang /\ UNCHANGED iter

(* contains, and the searches isSubset, isSuperset, == and -- make.         *)
Contains(x) ==
  /\ Idle
  /\ IF FindEnds(x)
     THEN /\ answer' = <<"contains", x, Present(x)>>
          /\ UNCHANGED <<inner, size, rehash, bulk, status>>
     ELSE Hang
  /\ UNCHANGED iter

(* The removal of an element, in remove and in the loop of removeAll.       *)
Vacate(x) ==
  /\ inner' = IF Present(x) THEN [inner EXCEPT !.at[findPosition(x)] = REMOVED] ELSE inner
  /\ size' = IF Present(x) THEN size - 1 ELSE size
  /\ answer' = <<"remove", x, Present(x)>>
  /\ UNCHANGED <<rehash, bulk, status>>

\* A plausible slip of remove: mods is not raised.
Remove_Unnoticed(x) ==
  /\ Idle
  /\ IF FindEnds(x) THEN Vacate(x) ELSE Hang
  /\ iter' = iter

\* remove; removeAll without ifAbsent requests it for each element.
Remove(x) ==
  /\ Idle
  /\ IF FindEnds(x)
     THEN Vacate(x) /\ iter' = IF Present(x) THEN Stale ELSE iter
     ELSE Hang /\ UNCHANGED iter

BulkStarts(request) ==
  /\ Idle
  /\ bulk' = request
  /\ iter' = Stale
  /\ UNCHANGED <<inner, size, rehash, status, answer>>

AddAllRound(x) ==
  /\ Quiet /\ bulk = "addAll"
  /\ IF FindEnds(x)
     THEN Insert(x, << >>) /\ answer' = <<"add", x, Present(x)>> /\ UNCHANGED bulk
     ELSE Hang
  /\ UNCHANGED iter

RemoveAllRound(x) ==
  /\ Quiet /\ bulk = "removeAll"
  /\ IF FindEnds(x) THEN Vacate(x) ELSE Hang
  /\ UNCHANGED iter

BulkEnds ==
  /\ Quiet /\ bulk # "none"
  /\ bulk' = "none"
  /\ UNCHANGED <<inner, size, rehash, iter, status, answer>>

(* The iterator.  The argument of a bulk request is consulted in its loop.  *)
MayIterate == Quiet /\ (bulk # "none" => LazySource)

NewIterator ==
  /\ MayIterate
  /\ iter' = [stale |-> FALSE, count |-> 1, idx |-> -1, given |-> {}, made |-> In(inner)]
  /\ UNCHANGED <<inner, size, rehash, bulk, status, answer>>

\* next after hasNext.  A stale iterator raises ConcurrentModification, one past
\* the last slot IteratorExhausted: no element is given.
IteratorNext ==
  /\ MayIterate
  /\ ~iter.stale /\ size >= iter.count
  /\ LET ahead == {t \in iter.idx + 1 .. inner.size - 1 : inner.at[t] \notin Marks}
     IN  iter' = IF ahead = {}
                 THEN [iter EXCEPT !.idx = inner.size]
                 ELSE LET t == CHOOSE t \in ahead : \A u \in ahead : t <= u
                      IN  [iter EXCEPT !.count = iter.count + 1, !.idx = t,
                             !.given = iter.given \cup {inner.at[t]}]
  /\ UNCHANGED <<inner, size, rehash, bulk, status, answer>>

Next ==
  \/ \E x \in Element : Add(x) \/ Contains(x) \/ Remove(x)
  \/ ExpandRound
  \/ \E request \in {"addAll", "removeAll"} : BulkStarts(request)
  \/ \E x \in Element : AddAllRound(x) \/ RemoveAllRound(x)
  \/ BulkEnds
  \/ NewIterator
  \/ IteratorNext

Spec == Init /\ [][Next]_vars

----------------------------------------------------------------------------
\* Elements not yet carried over by the calls of expand, and all elements.
Left(call) == {call.old.at[t] : t \in call.next .. call.old.size - 1} \ Marks
Pending    == UNION {Left(rehash[i]) : i \in 1 .. Len(rehash)}
All        == In(inner) \cup Pending

(* The type of the state: the array and the arrays expand copies from have  *)
(* an element or a mark in every slot of theirs.                            *)
TypeOK ==
  /\ inner.size \in Nat \ {0}
  /\ inner.at \in [Slots -> Element \cup Marks]
  /\ size \in Nat
  /\ \A i \in 1 .. Len(rehash) :
       /\ rehash[i].old.at \in [0 .. rehash[i].old.size - 1 -> Element \cup Marks]
       /\ rehash[i].next \in 0 .. rehash[i].old.size
  /\ bulk \in {"none", "addAll", "removeAll"}
  /\ iter.count \in Nat /\ iter.idx \in -1 .. inner.size /\ iter.given \subseteq Element
  /\ status \in {"running", "looping"}

(* findPosition returns, also for an element that is not there: what add,   *)
(* contains and remove all start with.                                      *)
SearchesEnd == status # "looping"

(* size is the number of elements, none is stored twice, at most half of the*)
(* array holds elements, and expand never nests.                            *)
SizeIsExact ==
  /\ size = Cardinality(In(inner))
  /\ size = Cardinality({t \in Slots : inner.at[t] \notin Marks})
  /\ 2 * size <= inner.size
  /\ Len(rehash) <= 1

(* An element is where findPosition looks for it, across the marks that     *)
(* removed elements left in its way.                                        *)
Findable ==
  \A t \in Slots : inner.at[t] \notin Marks =>
    FindEnds(inner.at[t]) /\ findPosition(inner.at[t]) = t

(* Fail fast: an iterator that gives an element finds the set it was made   *)
(* for.                                                                     *)
FailFastStep == (IteratorNext /\ iter'.given # iter.given) => In(inner) = iter.made
FailFast == [][FailFastStep]_vars

(* An iterator gives every element once: while hasNext answers true next    *)
(* gives one it has not given, and then all have been given.                *)
IteratesAllStep ==
  IteratorNext => /\ iter'.given # iter.given
                  /\ iter'.count > size => iter'.given = iter.made
IteratesAll == [][IteratesAllStep]_vars

(* The table is a set: every request answers what SetSpec promises, however *)
(* elements collide, are removed and put back.                              *)
Set == INSTANCE SetSpec WITH elements <- All
IsSet == Set!Spec
=============================================================================
