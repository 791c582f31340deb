-------------------------- MODULE MCModuleLoading --------------------------
(* Three modules whose imports may be reordered, dropped and made cyclic.  *)
EXTENDS ModuleLoading, TLC

CONSTANTS a, b, c

Modules == {a, b, c}
MCVariants == a :> {<<b, c>>, <<c>>} @@ b :> {<<c>>, <<a>>} @@ c :> {<< >>, <<b>>}

\* c is a program too, and b may stop importing it before it imports a.
CycleVariants == a :> {<<b>>} @@ b :> {<<c>>, << >>} @@ c :> {<< >>, <<a>>}
=============================================================================
