--------------------------- MODULE MCControlStack ---------------------------
(* ControlStack for a few kinds of programs: those with fewer features, or *)
(* that soon go wrong, nest deeper.                                        *)
EXTENDS ControlStack

CompleteTries == [uses |-> {"blocks"}, frames |-> 5]
ReturnsEarly  == [uses |-> {"blocks", "returnOverTry"}, frames |-> 4]
NestedTries   == [uses |-> {"returnOverTry"}, frames |-> 6]

AsksSuper     == [uses |-> {"blocks", "superRequests"}, frames |-> 4]

AllKinds  == {CompleteTries, ReturnsEarly, NestedTries, AsksSuper}
JustTries == {NestedTries}
Supers    == {[uses |-> {"blocks", "superRequests", "returnInSuper"}, frames |-> 4]}
Escapes   == {[uses |-> {"escapeCleanup"}, frames |-> 5]}
=============================================================================
