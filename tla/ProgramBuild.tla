---------------------------- MODULE ProgramBuild ----------------------------
(***************************************************************************)
(* What compiling a program promises, whatever is left over from earlier   *)
(* compilations: an executable made of the sources as they are.            *)
(***************************************************************************)
CONSTANTS Module, NONE

VARIABLES
  sources,  \* per module the modules it imports and its version
  dirty,    \* modules edited while a compilation was under way
  torn,     \* modules whose list of imports was left half written
  exe       \* the program the last compilation made, if it did: its module and
            \* the version of each part

Imports(m) == {sources[m].imports[k] : k \in DOMAIN sources[m].imports}

\* The modules that m needs, directly or not: the least set closed under imports.
Closed(S) == \A k \in S : Imports(k) \subseteq S
Reach(m)  == {k \in Module : \A S \in SUBSET Module :
                               Imports(m) \subseteq S /\ Closed(S) => k \in S}

Init == dirty = {} /\ torn = {} /\ exe = NONE

\* Editing, starting a compilation, failing.
Other == exe' \in {exe, NONE}

Build(m) ==
  /\ exe' # NONE
  /\ UNCHANGED <<sources, dirty, torn>>
  /\ exe'.main = m
  /\ \A k \in DOMAIN exe'.parts \ dirty : exe'.parts[k] = sources[k].version
  /\ dirty = {} => Reach(m) \cup {m} \subseteq DOMAIN exe'.parts
  /\ dirty \cup (torn \cap Reach(m)) = {} => m \notin Reach(m)

Next == Other \/ \E m \in Module : Build(m)

Spec == Init /\ [][Next]_<<sources, dirty, torn, exe>>
=============================================================================
