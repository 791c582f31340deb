------------------------------- MODULE MapSpec -------------------------------
(***************************************************************************)
(* What a map of the Grace libraries promises to a program that uses it    *)
(* sequentially: at most one value per key, the last one put there.        *)
(* answer is the last request, with its argument and what was put (put) or *)
(* came back: a value, TRUE or FALSE, or ABSENT if NoSuchObject was raised.*)
(***************************************************************************)
CONSTANTS
  Key, Value,
  ABSENT       \* what a key is bound to that has no value

VARIABLES map, answer

Init ==
  /\ map = [k \in Key |-> ABSENT]
  /\ answer = << >>

Put(k, v) ==
  /\ answer' = <<"put", k, v>>
  /\ map' = [map EXCEPT ![k] = v]

Get(k) ==
  /\ answer' = <<"get", k, map[k]>>
  /\ UNCHANGED map

Contains(k) ==
  /\ answer' = <<"contains", k, map[k] # ABSENT>>
  /\ UNCHANGED map

RemoveKey(k) ==
  /\ answer' = <<"removeKey", k, IF map[k] = ABSENT THEN ABSENT ELSE k>>
  /\ map' = [map EXCEPT ![k] = ABSENT]

RemoveValue(v) ==
  /\ answer' = <<"removeValue", v, IF \A k \in Key : map[k] # v THEN ABSENT ELSE v>>
  /\ map' = [k \in Key |-> IF map[k] = v THEN ABSENT ELSE map[k]]

Next ==
  \/ \E k \in Key, v \in Value : Put(k, v)
  \/ \E k \in Key : Get(k) \/ Contains(k) \/ RemoveKey(k)
  \/ \E v \in Value : RemoveValue(v)

Spec == Init /\ [][Next]_<<map, answer>>
=============================================================================
