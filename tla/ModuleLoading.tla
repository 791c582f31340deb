---------------------------- MODULE ModuleLoading ----------------------------
(***************************************************************************)
(* How the compiler, generating C, finds the modules a program imports and *)
(* decides which of them to compile first (xmodule.grace, genc.grace).     *)
(* A module that must be compiled is compiled by another process, for which*)
(* the importing one waits, so that the processes form a stack.  Sources   *)
(* are edited, compilations fail and are killed, and time stamps are whole *)
(* seconds.                                                                *)
(***************************************************************************)
EXTENDS Naturals, Sequences, FiniteSets

CONSTANTS
  Module,
  Programs,   \* the modules that somebody compiles as programs
  Variants,   \* per module the lists of imports its source may have
  NONE,       \* a file that does not exist
  MaxEdits,   \* bound on the number of edits
  MaxClock,   \* bound on time
  MaxDepth    \* bound on the number of processes

ASSUME VariantsAssumption ==
  /\ IsFiniteSet(Module) /\ Programs \subseteq Module
  /\ \A m \in Module : Variants[m] \subseteq Seq(Module \ {m})
ASSUME NoneAssumption == \A S \in SUBSET Module : NONE # S
ASSUME BoundAssumption == {MaxEdits, MaxClock, MaxDepth} \subseteq Nat

VARIABLES
  clock,   \* in seconds
  src,     \* the .grace files: imports, version and time stamp
  gct,     \* the .gct files: the modules they list, direct imports or not
  gcn,     \* the .gcn files: the version compiled, the modules it calls, time stamp
  procs,   \* the compilers running, the one that is not waiting last
  status,  \* the exit status of the one a waiting process waited for
  exe,     \* see ProgramBuild
  dirty,   \* history: modules edited while a compilation was under way
  torn     \* history: modules whose .gct file was left half written, though they
           \* are taken to be up to date

files == <<src, gct, gcn, exe>>
history == <<dirty, torn>>
vars  == <<clock, files, procs, status, history>>

Elements(s) == {s[k] : k \in DOMAIN s}

Top       == procs[Len(procs)]
Parents   == SubSeq(procs, 1, Len(procs) - 1)
Is(phase) == procs # << >> /\ Top.phase = phase
Becomes(p) == procs' = Append(Parents, p)

\* A plausible slip of io_newer: it lets equal time stamps pass.
Newer_OrEqual(s, t) == s >= t

(* io_newer: seconds are compared.                                          *)
Newer(s, t) == s > t

\* Whether checkimport takes m's files as they are.
UpToDate(m) == gct[m] # NONE /\ gcn[m] # NONE /\ Newer(gcn[m].mtime, src[m].mtime)

\* What remains to be checked, in order: the module imported, or what it imports.
Import(m)     == [item |-> "import", of |-> m]
Transitive(m) == [item |-> "transitive", of |-> m]
Checks(s)     == [k \in 1 .. Len(s) |-> Import(s[k])]

\* A compilation of m as it starts.
Process(m) == [mod |-> m, phase |-> "read", version |-> 0, calls |-> {},
               agenda |-> << >>, imports |-> {}]

----------------------------------------------------------------------------
Init ==
  /\ clock = 0
  /\ src \in [Module -> {[imports |-> s, version |-> 0, mtime |-> 0] :
                         s \in UNION {Variants[m] : m \in Module}}]
  /\ \A m \in Module : src[m].imports \in Variants[m]
  /\ gct = [m \in Module |-> NONE]
  /\ gcn = [m \in Module |-> NONE]
  /\ procs = << >>
  /\ status = "ok"
  /\ exe = NONE
  /\ dirty = {}
  /\ torn = {}

Tick ==
  /\ clock < MaxClock
  /\ clock' = clock + 1
  /\ UNCHANGED <<files, procs, status, history>>

Versions == {src[m].version : m \in Module}

\* Somebody edits m; v is the next version.
Edit(m, s) ==
  /\ \E v \in 1 .. MaxEdits :
       /\ v - 1 \in Versions /\ \A w \in Versions : w < v
       /\ src' = [src EXCEPT ![m] = [imports |-> s, version |-> v, mtime |-> clock]]
  /\ dirty' = IF procs = << >> THEN dirty \ {m} ELSE dirty \cup {m}
  /\ torn' = torn \ {m}
  /\ UNCHANGED <<clock, gct, gcn, exe, procs, status>>

\* Somebody compiles the program m.
Start(m) ==
  /\ procs = << >>
  /\ procs' = <<Process(m)>>
  /\ exe' = NONE
  /\ UNCHANGED <<clock, src, gct, gcn, status, history>>

(* The compiler reads and parses the source.                                *)
ReadSource ==
  /\ Is("read")
  /\ Becomes([Top EXCEPT !.phase = "check", !.version = src[Top.mod].version,
                         !.calls = Elements(src[Top.mod].imports),
                         !.agenda = Checks(src[Top.mod].imports)])
  /\ UNCHANGED <<clock, files, status, history>>

\* A plausible slip: the name of the module that imports is put on the list.
Imported_Self(p, m) ==
  [p EXCEPT !.phase = "check", !.imports = @ \cup {p.mod},
            !.agenda = <<Transitive(m)>> \o Tail(@)]

\* The process p, done with importing m, goes on to what m imports.
Imported(p, m) ==
  [p EXCEPT !.phase = "check", !.imports = @ \cup {m},
            !.agenda = <<Transitive(m)>> \o Tail(@)]

(* checkimport, up to compileModule, whose process it waits for.            *)
CheckImport ==
  /\ Is("check") /\ Top.agenda # << >> /\ Head(Top.agenda).item = "import"
  /\ LET m == Head(Top.agenda).of
     IN  CASE m \in Top.imports -> Becomes([Top EXCEPT !.agenda = Tail(@)])
           [] m \notin Top.imports /\ UpToDate(m) -> Becomes(Imported(Top, m))
           [] OTHER ->
                /\ Len(procs) < MaxDepth
                /\ procs' = Parents \o <<[Top EXCEPT !.phase = "wait"], Process(m)>>
  /\ UNCHANGED <<clock, files, status, history>>

\* The process ends; that of the program has nobody to tell its status.
Exit(s) ==
  /\ procs' = Parents
  /\ status' = IF Len(procs) = 1 THEN "ok" ELSE s

\* A plausible slip of compileModule: a compilation that failed is tried again.
Resume_Retries ==
  /\ Is("wait")
  /\ IF status = "ok" THEN Becomes(Imported(Top, Head(Top.agenda).of)) /\ UNCHANGED status
     ELSE Becomes([Top EXCEPT !.phase = "check"]) /\ status' = "ok"
  /\ UNCHANGED <<clock, files, history>>

(* The end of compileModule: the importing process fails if the other did.  *)
Resume ==
  /\ Is("wait")
  /\ IF status = "ok" THEN Becomes(Imported(Top, Head(Top.agenda).of)) /\ UNCHANGED status
     ELSE Exit("failed")
  /\ UNCHANGED <<clock, files, history>>

(* addTransitiveImports.  A .gct file lists modules in alphabetical order,  *)
(* here any order.                                                          *)
AddTransitiveImports ==
  /\ Is("check") /\ Top.agenda # << >> /\ Head(Top.agenda).item = "transitive"
  /\ LET listed == gct[Head(Top.agenda).of]
     IN  IF Top.mod \in listed THEN Exit("failed")
         ELSE \E order \in [1 .. Cardinality(listed) -> listed] :
                /\ Elements(order) = listed
                /\ Becomes([Top EXCEPT !.agenda = Checks(order) \o Tail(@)])
                /\ UNCHANGED status
  /\ UNCHANGED <<clock, files, history>>

\* A plausible slip: a .gct file that is there is not written again.
OpenGct_Once ==
  /\ Is("check") /\ Top.agenda = << >>
  /\ \E lines \in SUBSET Top.imports :
       gct' = IF gct[Top.mod] # NONE THEN gct ELSE [gct EXCEPT ![Top.mod] = lines]
  /\ Becomes([Top EXCEPT !.phase = IF gct[Top.mod] # NONE THEN "compile" ELSE "write"])
  /\ torn' = IF UpToDate(Top.mod) THEN torn \cup {Top.mod} ELSE torn
  /\ UNCHANGED <<clock, src, gcn, exe, status, dirty>>

(* genc's compile has writeGCT open the .gct file, which empties it, and    *)
(* write it: until it is closed, any part of it may be on the disk.         *)
OpenGct ==
  /\ Is("check") /\ Top.agenda = << >>
  /\ \E lines \in SUBSET Top.imports : gct' = [gct EXCEPT ![Top.mod] = lines]
  /\ Becomes([Top EXCEPT !.phase = "write"])
  /\ torn' = IF UpToDate(Top.mod) THEN torn \cup {Top.mod} ELSE torn
  /\ UNCHANGED <<clock, src, gcn, exe, status, dirty>>

(* The end of writeGCT.  Only a program is compiled while it is up to date. *)
CloseGct ==
  /\ Is("write")
  /\ gct' = [gct EXCEPT ![Top.mod] = Top.imports]
  /\ Becomes([Top EXCEPT !.phase = "compile"])
  /\ torn' = IF Len(procs) = 1 THEN torn \ {Top.mod} ELSE torn
  /\ UNCHANGED <<clock, src, gcn, exe, status, dirty>>

(* genc has gcc make the .gcn file, which is all for an imported module.    *)
CompileC ==
  /\ Is("compile")
  /\ gcn' = [gcn EXCEPT ![Top.mod] =
       [version |-> Top.version, calls |-> Top.calls, mtime |-> clock]]
  /\ IF Len(procs) > 1 THEN Exit("ok")
     ELSE Becomes([Top EXCEPT !.phase = "link"]) /\ UNCHANGED status
  /\ UNCHANGED <<clock, src, gct, exe, history>>

(* linkExecutable: the linker fails if a module is called that is not among *)
(* the link files.                                                          *)
Link ==
  /\ Is("link")
  /\ LET parts == Top.imports \cup {Top.mod}
     IN  IF \A m \in parts : gcn[m] # NONE /\ gcn[m].calls \subseteq parts
         THEN /\ exe' = [main |-> Top.mod, parts |-> [m \in parts |-> gcn[m].version]]
              /\ Exit("ok")
         ELSE Exit("failed") /\ UNCHANGED exe
  /\ UNCHANGED <<clock, src, gct, gcn, history>>

\* An error in the source, or of gcc, or a signal ends the compiler.
Fail ==
  /\ procs # << >> /\ Top.phase # "wait"
  /\ Exit("failed")
  /\ UNCHANGED <<clock, files, history>>

\* All the processes are killed.
Kill ==
  /\ procs # << >>
  /\ procs' = << >>
  /\ status' = "ok"
  /\ UNCHANGED <<clock, files, history>>

Step == \/ ReadSource \/ CheckImport \/ Resume \/ AddTransitiveImports
        \/ OpenGct \/ CloseGct \/ CompileC \/ Link

Next ==
  \/ Tick
  \/ \E m \in Programs : Start(m)
  \/ \E m \in Module : \E s \in Variants[m] : Edit(m, s)
  \/ ReadSource \/ CheckImport \/ Resume \/ AddTransitiveImports
  \/ OpenGct \/ CloseGct \/ CompileC \/ Link
  \/ Fail \/ Kill

(* A process that can go on does: the operating system runs it, and the     *)
(* programs it starts end.                                                  *)
Spec == Init /\ [][Next]_vars /\ WF_vars(Step)

----------------------------------------------------------------------------
Item    == [item : {"import", "transitive"}, of : Module]
Source  == [imports : Seq(Module), version : 0 .. MaxEdits, mtime : 0 .. clock]
Object  == [version : 0 .. MaxEdits, calls : SUBSET Module, mtime : 0 .. clock]
Program == [main : Module, parts : UNION {[S -> 0 .. MaxEdits] : S \in SUBSET Module}]
Compiler == [mod     : Module,
             phase   : {"read", "check", "wait", "write", "compile", "link"},
             version : 0 .. MaxEdits,
             calls   : SUBSET Module,
             agenda  : Seq(Item),
             imports : SUBSET Module]

(* No file is younger than the clock; no module is on the list of what it   *)
(* needs itself.                                                            *)
TypeOK ==
  /\ clock \in 0 .. MaxClock
  /\ src \in [Module -> Source]
  /\ gct \in [Module -> (SUBSET Module) \cup {NONE}]
  /\ gcn \in [Module -> Object \cup {NONE}]
  /\ exe \in Program \cup {NONE}
  /\ procs \in Seq(Compiler) /\ \A k \in DOMAIN procs : procs[k].mod \notin procs[k].imports
  /\ status \in {"ok", "failed"}
  /\ dirty \subseteq Module /\ torn \subseteq Module

Build == INSTANCE ProgramBuild WITH sources <- src

Cyclic == \E m \in Module : m \in Build!Reach(m)

(* Compiling a program links the sources as they are, whatever files       *)
(* earlier compilations have left, finished or not: the time stamps are     *)
(* enough, unless a source is edited meanwhile.  It never links a cycle of  *)
(* imports, unless a compilation of a module in it was killed while it      *)
(* wrote the .gct file (torn): nothing tells that lines are missing.        *)
IsBuild == Build!Spec

(* The .gct file of a module that is taken to be up to date lists all that  *)
(* its .gcn file calls, also if a compilation was killed between the two or,*)
(* where the .gcn file was out of date, while it wrote the first; unless the*)
(* source was edited in between, or the .gct file of an up-to-date module   *)
(* was left half written (torn).                                            *)
GctMatches == \A m \in Module \ (dirty \cup torn) :
                UpToDate(m) => gcn[m].calls \subseteq gct[m]

(* Every compilation ends, if the imports are not cyclic: each process      *)
(* waits for one that does not wait for it.                                 *)
CompilationsEnd == procs # << >> ~> procs = << >> \/ Cyclic \/ dirty # {}

(* What the message says: "Cyclic import detected: 'm' is imported by 'x',  *)
(* which is imported by 'm' (and so on)".                                   *)
CyclesAreReal ==
  [][AddTransitiveImports /\ procs' = Parents /\ dirty = {} =>
       Top.mod \in Build!Reach(Head(Top.agenda).of)]_vars
=============================================================================
