---------------------------- MODULE MCLibraries ----------------------------
(***************************************************************************)
(* The programs of Libraries on small instances.                           *)
(***************************************************************************)
EXTENDS Libraries, TLC

CONSTANTS
  v1, v2,                  \* values
  ka, kb, kc,              \* keys of the dictionary
  k0, k1, k4, k5, k7,      \* keys of the stringMap, named after their hashes
  e0, e1, e4,              \* elements of the set, likewise
  la, lb,                  \* lists
  s1, s2, s3,              \* addresses of strings
  p1, p2, p3, p4, p5,      \* addresses of objects
  c1, c2, c3,              \* object constructors
  ma, mb,                  \* names of methods
  jmod, jobj, jsup         \* JavaScript: a module, an object and its inherited part

\* A character of one byte and one of two.
Chars == {<<97>>, <<195, 169>>}

MapHash == k0 :> 0 @@ k1 :> 1 @@ k4 :> 4 @@ k5 :> 5 @@ k7 :> 7
SetHash == e0 :> 0 @@ e1 :> 1 @@ e4 :> 4

\* The object and the part that it inherits both define ma; mb is confidential.
JsSuper   == jmod :> NULL @@ jobj :> jsup @@ jsup :> NULL
JsMethods == jmod :> {ma} @@ jobj :> {ma} @@ jsup :> {ma, mb}

\* c1 inherits c2, which inherits c3.
Parents == c1 :> c2 @@ c2 :> c3 @@ c3 :> NULL
Methods == c1 :> {ma} @@ c2 :> {mb} @@ c3 :> {ma, mb} @@ DEFAULT :> {mb}

\* Programs that remove keys with home slots of their own, and programs whose
\* keys collide but are not removed.
Spread    == ka :> 0 @@ kb :> 1 @@ kc :> 7
Colliding == ka :> 0 @@ kb :> 8 @@ kc :> 16
Regular == {[hash |-> Spread, uses |-> {"removal"}], [hash |-> Colliding, uses |-> {}]}

\* What the theorems about the dictionary assume of them.
ASSUME DictionaryAssumption == M!RegularPrograms

MaxSizeOf == la :> 3 @@ lb :> 1

----------------------------------------------------------------------------
\* answer is written and never read, nor is a slot behind a list's last element;
\* which value is which does not matter, nor which address of a string.
StateView ==
  <<kind, IF kind = "grace list" THEN <<inner.size, L!Contents, iter>> ELSE tableVars,
    listVars, objectVars, ropeVars, jsVars>>
Symmetry  == Permutations(Value) \cup Permutations({s1, s2, s3})
=============================================================================
