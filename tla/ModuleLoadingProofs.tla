------------------------ MODULE ModuleLoadingProofs ------------------------
(***************************************************************************)
(* Proofs about ModuleLoading for every set of modules, of programs and of *)
(* lists of imports, and every bound.  The argument: a module whose files  *)
(* are taken as they are, and each module that a compilation is done with, *)
(* has Complete files, made from its source as it is (unless it is dirty); *)
(* so a linked program has its parts from the sources as they are, and the *)
(* parts are closed under imports and, where no .gct file was left half    *)
(* written, do not lead back to the program.  A .gct file is looked at only*)
(* right after its module was imported, so that a process that waits needs *)
(* of the modules it has imported no more than their .gcn files.           *)
(***************************************************************************)
EXTENDS ModuleLoading, SequenceTheorems, FiniteSetTheorems, TLAPS

Direct(m) == Elements(src[m].imports)

\* The .gcn file of m has been made from its source, as far as one can tell.
Made(m) ==
  /\ gct[m] # NONE
  /\ m \notin dirty => gcn[m].version = src[m].version /\ gcn[m].calls = Direct(m)

\* The .gct file of m lists what its source imports, likewise.
Listed(m) == m \notin dirty \cup torn => Direct(m) \subseteq gct[m]

Complete(m) == Made(m) /\ Listed(m)

FilesSound ==
  \A m \in Module : /\ gcn[m] # NONE => gct[m] # NONE
                    /\ UpToDate(m) => Complete(m)

\* The modules that a process still has to import.
Pending(p) == {m \in Module : Import(m) \in Elements(p.agenda)}

\* Those whose imports it still has to look at; at most the one it has just
\* imported, whose .gct file nobody has touched since.
Unseen(p) == {m \in Module : Transitive(m) \in Elements(p.agenda)}

Checking(p) ==
  /\ p.calls \subseteq p.imports \cup Pending(p)
  /\ \A k \in p.imports \ (dirty \cup torn) : p.mod \in Direct(k) => k \in Unseen(p)
  /\ \A k \in Unseen(p) : k \in p.imports /\ Listed(k)
  /\ p.agenda # << >> =>
       \A k \in Module : Transitive(k) \notin Elements(Tail(p.agenda))

Checked(p) ==
  /\ p.calls \subseteq p.imports
  /\ \A k \in p.imports \ (dirty \cup torn) : p.mod \notin Direct(k)

Waiting(p) == p.agenda # << >> /\ Head(p.agenda).item = "import"

\* One process, whatever the other ones do.
Sound(p) ==
  /\ p \in Compiler
  /\ p.mod \notin p.imports \cup p.calls \cup Pending(p)
  /\ \A k \in p.imports : Made(k)
  /\ p.phase # "read" /\ p.mod \notin dirty =>
       p.version = src[p.mod].version /\ p.calls = Direct(p.mod)
  /\ p.phase = "read" => p = Process(p.mod)
  /\ p.phase \in {"check", "wait"} => Checking(p)
  /\ p.phase = "wait" => Waiting(p)
  /\ p.phase = "write" => gct[p.mod] # NONE
  /\ p.phase \in {"write", "compile", "link"} => Checked(p)
  /\ p.phase \in {"compile", "link"} => gct[p.mod] = p.imports
  /\ p.phase = "link" => Made(p.mod)

\* Each process but the last waits for the next one; the last may have been
\* told that the one it waited for is done.
Stacked ==
  /\ \A k \in 1 .. Len(procs) - 1 :
       procs[k].phase = "wait" /\ Head(procs[k].agenda).of = procs[k + 1].mod
  /\ Is("wait") /\ status = "ok" => Complete(Head(Top.agenda).of)
  /\ Is("link") => Len(procs) = 1

ProcsSound == procs \in Seq(Compiler) /\ \A k \in 1 .. Len(procs) : Sound(procs[k])

FilesOK ==
  /\ clock \in 0 .. MaxClock
  /\ src \in [Module -> Source] /\ \A m \in Module : m \notin Direct(m)
  /\ gct \in [Module -> (SUBSET Module) \cup {NONE}]
  /\ gcn \in [Module -> Object \cup {NONE}]
  /\ exe \in Program \cup {NONE}
  /\ status \in {"ok", "failed"}
  /\ dirty \subseteq Module /\ torn \subseteq Module

Inv == FilesOK /\ FilesSound /\ ProcsSound /\ Stacked

----------------------------------------------------------------------------
(* The elements of a sequence, of its tail and of two sequences together.   *)
LEMMA ElementsType ==
  ASSUME NEW S, NEW s \in Seq(S)
  PROVE  Elements(s) \subseteq S /\ (s = << >> => Elements(s) = {})
BY DEF Elements

LEMMA ElementsOfTail ==
  ASSUME NEW S, NEW s \in Seq(S), s # << >>
  PROVE  /\ Head(s) \in S /\ Tail(s) \in Seq(S)
         /\ Elements(s) = {Head(s)} \cup Elements(Tail(s))
<1>1. Head(s) \in S /\ Tail(s) \in Seq(S) /\ Len(Tail(s)) = Len(s) - 1 /\ Head(s) = s[1]
  BY HeadTailProperties
<1>2. \A i \in 1 .. Len(Tail(s)) : Tail(s)[i] = s[i + 1]
  BY HeadTailProperties
<1>3. Len(s) \in Nat \ {0} /\ DOMAIN s = 1 .. Len(s) /\ DOMAIN Tail(s) = 1 .. Len(s) - 1
  BY <1>1, EmptySeq, LenProperties
<1>4. ASSUME NEW i \in 1 .. Len(s), i # 1 PROVE s[i] = Tail(s)[i - 1] /\ i - 1 \in DOMAIN Tail(s)
  <2>1. i - 1 \in 1 .. Len(Tail(s)) /\ (i - 1) + 1 = i
    BY <1>1, <1>3, <1>4
  <2> QED BY <2>1, <1>1, <1>2, <1>3
<1>5. ASSUME NEW i \in DOMAIN Tail(s) PROVE Tail(s)[i] = s[i + 1] /\ i + 1 \in DOMAIN s
  BY <1>1, <1>2, <1>3
<1>6. 1 \in DOMAIN s
  BY <1>3
<1>7. ASSUME NEW x \in Elements(s) PROVE x \in {Head(s)} \cup Elements(Tail(s))
  <2>1. PICK i \in 1 .. Len(s) : x = s[i]
    BY <1>3 DEF Elements
  <2> QED BY <2>1, <1>1, <1>4 DEF Elements
<1>8. ASSUME NEW x \in {Head(s)} \cup Elements(Tail(s)) PROVE x \in Elements(s)
  BY <1>1, <1>5, <1>6 DEF Elements
<1> QED BY <1>1, <1>7, <1>8

LEMMA ElementsOfConcat ==
  ASSUME NEW S, NEW s \in Seq(S), NEW t \in Seq(S)
  PROVE  s \o t \in Seq(S) /\ Elements(s \o t) = Elements(s) \cup Elements(t)
<1>1. /\ s \o t \in Seq(S) /\ Len(s \o t) = Len(s) + Len(t)
      /\ \A i \in 1 .. Len(s) + Len(t) :
           (s \o t)[i] = IF i <= Len(s) THEN s[i] ELSE t[i - Len(s)]
  BY ConcatProperties
<1>2. /\ DOMAIN (s \o t) = 1 .. Len(s) + Len(t)
      /\ DOMAIN s = 1 .. Len(s) /\ DOMAIN t = 1 .. Len(t)
      /\ Len(s) \in Nat /\ Len(t) \in Nat
  BY <1>1, LenProperties
<1>3. ASSUME NEW i \in DOMAIN s PROVE s[i] = (s \o t)[i] /\ i \in DOMAIN (s \o t)
  BY <1>1, <1>2
<1>4. ASSUME NEW i \in DOMAIN t
      PROVE  t[i] = (s \o t)[i + Len(s)] /\ i + Len(s) \in DOMAIN (s \o t)
  BY <1>1, <1>2
<1>5. ASSUME NEW i \in DOMAIN (s \o t)
      PROVE  \/ i \in DOMAIN s /\ (s \o t)[i] = s[i]
             \/ i - Len(s) \in DOMAIN t /\ (s \o t)[i] = t[i - Len(s)]
  BY <1>1, <1>2
<1>6. ASSUME NEW x \in Elements(s \o t) PROVE x \in Elements(s) \cup Elements(t)
  BY <1>5 DEF Elements
<1>7. ASSUME NEW x \in Elements(s) \cup Elements(t) PROVE x \in Elements(s \o t)
  BY <1>3, <1>4 DEF Elements
<1> QED BY <1>1, <1>6, <1>7

LEMMA TailOfConcat ==
  ASSUME NEW S, NEW x \in S, NEW t \in Seq(S)
  PROVE  Tail(<<x>> \o t) = t
<1> DEFINE s == <<x>> \o t
<1>1. /\ s \in Seq(S) /\ Len(s) = 1 + Len(t) /\ Len(t) \in Nat
      /\ \A i \in 1 .. 1 + Len(t) : s[i] = IF i <= 1 THEN <<x>>[i] ELSE t[i - 1]
  <2>1. <<x>> \in Seq(S) /\ Len(<<x>>) = 1
    OBVIOUS
  <2> QED BY <2>1, ConcatProperties, LenProperties
<1> HIDE DEF s
<1>2. s # << >>
  BY <1>1, EmptySeq
<1>3. /\ Tail(s) \in Seq(S) /\ Len(Tail(s)) = Len(s) - 1
      /\ \A i \in 1 .. Len(Tail(s)) : Tail(s)[i] = s[i + 1]
  BY <1>1, <1>2, HeadTailProperties
<1>4. Len(Tail(s)) = Len(t)
  BY <1>1, <1>3
<1>5. ASSUME NEW i \in 1 .. Len(t) PROVE Tail(s)[i] = t[i]
  <2>1. i + 1 \in 1 .. 1 + Len(t) /\ ~ (i + 1 <= 1) /\ (i + 1) - 1 = i
    BY <1>1
  <2> QED BY <2>1, <1>1, <1>3, <1>4
<1> QED BY <1>1, <1>3, <1>4, <1>5, SeqEqual DEF s

(* What Checks puts on an agenda.                                           *)
LEMMA ElementsOfChecks ==
  ASSUME NEW n \in Nat, NEW s \in [1 .. n -> Module]
  PROVE  /\ Checks(s) \in Seq(Item)
         /\ \A m \in Module : /\ Import(m) \in Elements(Checks(s)) <=> m \in Elements(s)
                              /\ Transitive(m) \notin Elements(Checks(s))
<1>1. s \in Seq(Module) /\ Len(s) = n /\ DOMAIN s = 1 .. n
  OBVIOUS
<1>2. Checks(s) = [k \in 1 .. n |-> Import(s[k])]
  BY <1>1 DEF Checks
<1>3. \A k \in 1 .. n : s[k] \in Module /\ Import(s[k]) \in Item
  BY DEF Import, Item
<1>4. Checks(s) \in Seq(Item)
  BY <1>2, <1>3
<1>5. \A m, k : Import(m) = Import(k) => m = k
  BY DEF Import
<1>6. \A m, k : Transitive(m) # Import(k)
  BY DEF Transitive, Import
<1>7. DOMAIN Checks(s) = 1 .. n /\ \A k \in 1 .. n : Checks(s)[k] = Import(s[k])
  BY <1>2
<1>8. Elements(Checks(s)) = {Import(s[k]) : k \in 1 .. n} /\ Elements(s) = {s[k] : k \in 1 .. n}
  BY <1>1, <1>7 DEF Elements
<1> QED BY <1>4, <1>5, <1>6, <1>8

----------------------------------------------------------------------------
(* The stack of processes.                                                  *)
LEMMA StackType ==
  ASSUME procs \in Seq(Compiler), procs # << >>
  PROVE  /\ Len(procs) \in Nat \ {0} /\ Top \in Compiler
         /\ Parents \in Seq(Compiler) /\ Len(Parents) = Len(procs) - 1
         /\ \A k \in 1 .. Len(procs) - 1 : Parents[k] = procs[k]
<1>1. Len(procs) \in Nat \ {0}
  BY EmptySeq
<1>2. \A k \in 1 .. Len(procs) : procs[k] \in Compiler
  BY ElementOfSeq
<1>3. /\ Parents \in Seq(Compiler) /\ Len(Parents) = Len(procs) - 1
      /\ \A k \in 1 .. Len(procs) - 1 : Parents[k] = procs[k]
  <2> DEFINE n == Len(procs) - 1
  <2>1. n \in Int /\ 1 \in Int /\ \A i \in 1 .. n : procs[i] \in Compiler
    BY <1>1, <1>2
  <2>2. /\ SubSeq(procs, 1, n) \in Seq(Compiler)
        /\ Len(SubSeq(procs, 1, n)) = IF 1 <= n THEN n - 1 + 1 ELSE 0
        /\ \A i \in 1 .. n - 1 + 1 : SubSeq(procs, 1, n)[i] = procs[1 + i - 1]
    <3> HIDE DEF n
    <3> QED BY <2>1, SubSeqProperties
  <2>3. Parents = SubSeq(procs, 1, n)
    BY DEF Parents
  <2> HIDE DEF n
  <2>4. \A i \in 1 .. n : 1 + i - 1 = i
    BY <2>1
  <2>0. n \in Nat
    BY <1>1 DEF n
  <2>5. n - 1 + 1 = n /\ (1 <= n \/ n = 0)
    BY <2>0
  <2>6. \A i \in 1 .. n : SubSeq(procs, 1, n)[i] = procs[i]
    BY <2>2, <2>4, <2>5
  <2> QED BY <2>0, <2>2, <2>3, <2>5, <2>6 DEF n
<1> QED BY <1>1, <1>2, <1>3 DEF Top

\* What the other processes, which wait, need of a step.
OthersStay ==
  Len(procs) > 1 => \A p \in Compiler : p.phase = "wait" /\ Sound(p) => Sound(p)'

(* The last process goes on.                                                *)
LEMMA TopGoesOn ==
  ASSUME ProcsSound, Stacked, procs # << >>, OthersStay,
         NEW q \in Compiler, Becomes(q), Sound(q)', q.mod = Top.mod,
         q.phase = "wait" /\ status' = "ok" => Complete(Head(q.agenda).of)',
         q.phase = "link" => Len(procs) = 1
  PROVE  ProcsSound' /\ Stacked'
<1> DEFINE n == Len(procs)
<1>1. /\ n \in Nat \ {0} /\ Top = procs[n]
      /\ Parents \in Seq(Compiler) /\ Len(Parents) = n - 1
      /\ \A k \in 1 .. n - 1 : Parents[k] = procs[k]
  BY StackType DEF ProcsSound, Top
<1>2. /\ procs' \in Seq(Compiler) /\ Len(procs') = n /\ procs'[n] = q
      /\ \A k \in 1 .. n - 1 : procs'[k] = procs[k]
  <2>1. /\ procs' \in Seq(Compiler) /\ Len(procs') = (n - 1) + 1
        /\ procs'[(n - 1) + 1] = q /\ \A k \in 1 .. n - 1 : procs'[k] = Parents[k]
    BY <1>1, AppendProperties DEF Becomes
  <2> QED BY <1>1, <2>1
<1>3. \A k \in 1 .. n - 1 : /\ procs[k] \in Compiler /\ Sound(procs[k])
                            /\ procs[k].phase = "wait"
  BY <1>1, ElementOfSeq DEF ProcsSound, Stacked
<1>4. ASSUME NEW k \in 1 .. n PROVE Sound(procs[k])'
  <2>1. PICK p : p = procs'[k]
    OBVIOUS
  <2>2. CASE k = n
    BY <2>1, <2>2, <1>2
  <2>3. CASE k # n
    <3>1. k \in 1 .. n - 1 /\ n > 1
      BY <2>3, <1>1
    <3> QED BY <3>1, <2>1, <1>2, <1>3 DEF OthersStay
  <2> QED BY <2>2, <2>3
<1>5. ProcsSound'
  BY <1>2, <1>4 DEF ProcsSound
<1>6. ASSUME NEW k \in 1 .. n - 1
      PROVE  procs'[k].phase = "wait" /\ Head(procs'[k].agenda).of = procs'[k + 1].mod
  <2>1. procs'[k + 1].mod = procs[k + 1].mod
    <3>1. CASE k + 1 = n
      BY <3>1, <1>1, <1>2
    <3>2. CASE k + 1 # n
      <4>1. k + 1 \in 1 .. n - 1
        BY <3>2, <1>1
      <4> QED BY <4>1, <1>2
    <3> QED BY <3>1, <3>2
  <2>2. Head(procs[k].agenda).of = procs[k + 1].mod
    BY DEF Stacked
  <2> QED BY <2>1, <2>2, <1>2, <1>3
<1>7. procs' # << >> /\ Top' = q
  <2>1. procs' # << >>
    BY <1>1, <1>2, EmptySeq
  <2> QED BY <2>1, <1>2 DEF Top
<1>8. /\ Is("wait")' /\ status' = "ok" => Complete(Head(Top.agenda).of)'
      /\ Is("link")' => Len(procs') = 1
  BY <1>2, <1>7 DEF Is
<1> QED BY <1>2, <1>5, <1>6, <1>8 DEF Stacked

(* The last process ends, and the one before it is told how.                *)
LEMMA TopLeaves ==
  ASSUME ProcsSound, Stacked, procs # << >>, OthersStay,
         NEW s \in {"ok", "failed"}, Exit(s),
         \A m \in Module : s = "ok" /\ m = Top.mod /\ Len(procs) # 1 => Complete(m)'
  PROVE  ProcsSound' /\ Stacked' /\ status' \in {"ok", "failed"}
<1> DEFINE n == Len(procs)
<1>1. /\ n \in Nat \ {0} /\ Top = procs[n] /\ Top \in Compiler
      /\ Parents \in Seq(Compiler) /\ Len(Parents) = n - 1
      /\ \A k \in 1 .. n - 1 : Parents[k] = procs[k]
  BY StackType DEF ProcsSound, Top
<1>2. /\ procs' \in Seq(Compiler) /\ Len(procs') = n - 1
      /\ \A k \in 1 .. n - 1 : procs'[k] = procs[k]
  BY <1>1 DEF Exit
<1>3. \A k \in 1 .. n - 1 : /\ procs[k] \in Compiler /\ Sound(procs[k])
                            /\ procs[k].phase = "wait"
                            /\ Head(procs[k].agenda).of = procs[k + 1].mod
  BY <1>1, ElementOfSeq DEF ProcsSound, Stacked
<1>4. ProcsSound'
  <2>1. ASSUME NEW k \in 1 .. n - 1 PROVE Sound(procs[k])'
    <3>1. PICK p : p = procs'[k]
      OBVIOUS
    <3>2. n > 1
      BY <1>1
    <3> QED BY <3>1, <3>2, <1>2, <1>3 DEF OthersStay
  <2> QED BY <2>1, <1>2 DEF ProcsSound
<1>5. ASSUME NEW k \in 1 .. n - 2
      PROVE  procs'[k].phase = "wait" /\ Head(procs'[k].agenda).of = procs'[k + 1].mod
  <2>1. k \in 1 .. n - 1 /\ k + 1 \in 1 .. n - 1
    BY <1>1
  <2> QED BY <2>1, <1>2, <1>3
<1>6. status' \in {"ok", "failed"}
  BY DEF Exit
<1>7. CASE n = 1
  <2>1. procs' = << >>
    BY <1>2, <1>7, EmptySeq
  <2>2. ~ Is("wait")' /\ ~ Is("link")'
    BY <2>1 DEF Is
  <2> QED BY <2>2, <1>1, <1>2, <1>4, <1>5, <1>6 DEF Stacked
<1>8. CASE n # 1
  <2>1. n - 1 \in 1 .. n - 1 /\ (n - 1) + 1 = n
    BY <1>1, <1>8
  <2>2. Top' = procs[n - 1]
    BY <2>1, <1>2 DEF Top
  <2>3. Top'.phase = "wait" /\ Head(Top'.agenda).of = Top.mod
    BY <2>1, <2>2, <1>1, <1>3
  <2>4. Top.mod \in Module /\ status' = s
    BY <1>1, <1>8 DEF Compiler, Exit
  <2>5. PICK m \in Module : m = Top.mod
    BY <2>4
  <2>6. status' = "ok" => Complete(Head(Top.agenda).of)'
    BY <2>3, <2>4, <2>5, <1>8
  <2>7. ~ Is("link")'
    BY <2>3 DEF Is
  <2>8. Len(procs') - 1 = n - 2
    BY <1>1, <1>2
  <2> QED BY <2>6, <2>7, <2>8, <1>4, <1>5, <1>6 DEF Stacked
<1> QED BY <1>7, <1>8

(* The last process starts another one and waits for it.                    *)
LEMMA TopCalls ==
  ASSUME ProcsSound, Stacked, procs # << >>, OthersStay,
         NEW q \in Compiler, Sound(q)', q.mod = Top.mod, q.phase = "wait",
         NEW c \in Compiler, Sound(c)', c.phase = "read", c.mod = Head(q.agenda).of,
         procs' = Parents \o <<q, c>>
  PROVE  ProcsSound' /\ Stacked'
<1> DEFINE n == Len(procs)
<1>1. /\ n \in Nat \ {0} /\ Top = procs[n]
      /\ Parents \in Seq(Compiler) /\ Len(Parents) = n - 1
      /\ \A k \in 1 .. n - 1 : Parents[k] = procs[k]
  BY StackType DEF ProcsSound, Top
<1>2. /\ procs' \in Seq(Compiler) /\ Len(procs') = n + 1
      /\ procs'[n] = q /\ procs'[n + 1] = c
      /\ \A k \in 1 .. n - 1 : procs'[k] = procs[k]
  <2>1. <<q, c>> \in Seq(Compiler) /\ Len(<<q, c>>) = 2 /\ <<q, c>>[1] = q /\ <<q, c>>[2] = c
    OBVIOUS
  <2>2. /\ procs' \in Seq(Compiler) /\ Len(procs') = (n - 1) + 2
        /\ \A i \in 1 .. (n - 1) + 2 :
             procs'[i] = IF i <= n - 1 THEN Parents[i] ELSE <<q, c>>[i - (n - 1)]
    BY <1>1, <2>1, ConcatProperties
  <2>3. n - (n - 1) = 1 /\ (n + 1) - (n - 1) = 2 /\ (n - 1) + 2 = n + 1
    BY <1>1
  <2>4. procs'[n] = q /\ procs'[n + 1] = c
    <3>1. n \in 1 .. (n - 1) + 2 /\ ~ (n <= n - 1)
      BY <1>1
    <3>2. n + 1 \in 1 .. (n - 1) + 2 /\ ~ (n + 1 <= n - 1)
      BY <1>1
    <3> QED BY <2>1, <2>2, <2>3, <3>1, <3>2
  <2>5. ASSUME NEW k \in 1 .. n - 1 PROVE procs'[k] = procs[k]
    <3>1. k \in 1 .. (n - 1) + 2 /\ k <= n - 1
      BY <1>1
    <3> QED BY <3>1, <2>2, <1>1
  <2> QED BY <2>2, <2>3, <2>4, <2>5
<1>3. \A k \in 1 .. n - 1 : /\ procs[k] \in Compiler /\ Sound(procs[k])
                            /\ procs[k].phase = "wait"
                            /\ Head(procs[k].agenda).of = procs[k + 1].mod
  BY <1>1, ElementOfSeq DEF ProcsSound, Stacked
<1>4. ASSUME NEW k \in 1 .. n + 1 PROVE Sound(procs[k])'
  <2>1. PICK p : p = procs'[k]
    OBVIOUS
  <2>2. CASE k \in 1 .. n - 1
    <3>1. n > 1
      BY <2>2, <1>1
    <3> QED BY <3>1, <2>1, <2>2, <1>2, <1>3 DEF OthersStay
  <2>3. CASE k = n \/ k = n + 1
    BY <2>3, <1>2
  <2> QED BY <2>2, <2>3, <1>1
<1>5. ASSUME NEW k \in 1 .. n
      PROVE  procs'[k].phase = "wait" /\ Head(procs'[k].agenda).of = procs'[k + 1].mod
  <2>1. CASE k = n
    BY <2>1, <1>2
  <2>2. CASE k = n - 1
    <3>1. k \in 1 .. n - 1 /\ k + 1 = n
      BY <2>2, <1>1
    <3> QED BY <3>1, <1>1, <1>2, <1>3
  <2>3. CASE k # n /\ k # n - 1
    <3>1. k \in 1 .. n - 1 /\ k + 1 \in 1 .. n - 1
      BY <2>3, <1>1
    <3> QED BY <3>1, <1>2, <1>3
  <2> QED BY <2>1, <2>2, <2>3
<1>6. ~ Is("wait")' /\ ~ Is("link")'
  BY <1>2 DEF Is, Top
<1>7. Len(procs') - 1 = n
  BY <1>1, <1>2
<1> QED BY <1>2, <1>4, <1>5, <1>6, <1>7 DEF Stacked, ProcsSound

----------------------------------------------------------------------------
(* What a step that leaves the files alone keeps.                           *)
LEMMA FilesStay ==
  ASSUME UNCHANGED <<clock, src, gct, gcn, dirty, torn>>
  PROVE  /\ FilesSound => FilesSound'
         /\ \A m : Complete(m) => Complete(m)'
         /\ \A p : Sound(p) => Sound(p)'
         /\ FilesOK /\ exe' = exe /\ status' \in {"ok", "failed"} => FilesOK'
<1>1. \A m : /\ (Direct(m) = Direct(m)') /\ (Made(m) <=> Made(m)')
             /\ (Listed(m) <=> Listed(m)') /\ (Complete(m) <=> Complete(m)')
             /\ (UpToDate(m) <=> UpToDate(m)')
  BY DEF Direct, Made, Listed, Complete, UpToDate
<1>2. FilesSound => FilesSound'
  BY <1>1 DEF FilesSound
<1>3. \A p : Checking(p) => Checking(p)'
  BY <1>1 DEF Checking
<1>4. \A p : Checked(p) => Checked(p)'
  BY <1>1 DEF Checked
<1>5. \A p : Sound(p) => Sound(p)'
  BY <1>1, <1>3, <1>4 DEF Sound
<1>6. Source' = Source /\ Object' = Object
  BY DEF Source, Object
<1>7. FilesOK /\ exe' = exe /\ status' \in {"ok", "failed"} => FilesOK'
  BY <1>1, <1>6 DEF FilesOK
<1> QED BY <1>1, <1>2, <1>5, <1>7

(* The last process, done with importing what it was to import next.        *)
LEMMA ImportedSound ==
  ASSUME NEW p \in Compiler, Sound(p), p.phase \in {"check", "wait"}, Waiting(p),
         Complete(Head(p.agenda).of)
  PROVE  LET m == Head(p.agenda).of
         IN  /\ m \in Module /\ Import(m) = Head(p.agenda)
             /\ Imported(p, m) \in Compiler /\ Sound(Imported(p, m))
             /\ Imported(p, m).mod = p.mod /\ Imported(p, m).phase = "check"
<1> DEFINE m == Head(p.agenda).of
           q == Imported(p, m)
<1>1. p.agenda \in Seq(Item) /\ p.agenda # << >> /\ Head(p.agenda).item = "import"
  BY DEF Compiler, Waiting
<1>2. /\ Head(p.agenda) \in Item /\ Tail(p.agenda) \in Seq(Item)
      /\ Elements(p.agenda) = {Head(p.agenda)} \cup Elements(Tail(p.agenda))
  BY <1>1, ElementsOfTail
<1>3. m \in Module /\ Import(m) = Head(p.agenda) /\ Transitive(m) \in Item
  BY <1>1, <1>2 DEF Item, Import, Transitive
<1>4. /\ <<Transitive(m)>> \in Seq(Item) /\ Elements(<<Transitive(m)>>) = {Transitive(m)}
  BY <1>3 DEF Elements
<1>5. /\ q.agenda \in Seq(Item)
      /\ Elements(q.agenda) = {Transitive(m)} \cup Elements(Tail(p.agenda))
      /\ q.imports = p.imports \cup {m} /\ q.mod = p.mod /\ q.phase = "check"
      /\ q.version = p.version /\ q.calls = p.calls
  <2>1. /\ q.agenda = <<Transitive(m)>> \o Tail(p.agenda)
        /\ q.imports = p.imports \cup {m} /\ q.mod = p.mod /\ q.phase = "check"
        /\ q.version = p.version /\ q.calls = p.calls
    BY DEF Imported, Compiler
  <2>2. /\ <<Transitive(m)>> \o Tail(p.agenda) \in Seq(Item)
        /\ Elements(<<Transitive(m)>> \o Tail(p.agenda))
             = {Transitive(m)} \cup Elements(Tail(p.agenda))
    <3> DEFINE s == <<Transitive(m)>>
               t == Tail(p.agenda)
    <3>1. s \in Seq(Item) /\ t \in Seq(Item) /\ Elements(s) = {Transitive(m)}
      BY <1>2, <1>4
    <3> HIDE DEF s, t
    <3>2. s \o t \in Seq(Item) /\ Elements(s \o t) = Elements(s) \cup Elements(t)
      BY <3>1, ElementsOfConcat
    <3> QED BY <3>1, <3>2 DEF s, t
  <2> HIDE DEF q
  <2> QED BY <2>1, <2>2
<1>6. q \in Compiler
  BY <1>2, <1>3, <1>4, <1>5, ElementsOfConcat DEF Imported, Compiler
<1>7. \A j, k : Import(j) # Transitive(k) /\ (Import(j) = Import(k) => j = k)
               /\ (Transitive(j) = Transitive(k) => j = k)
  BY DEF Import, Transitive
<1>9. Checking(p) /\ Listed(m)
  BY DEF Sound, Complete
<1>8. /\ Pending(q) \subseteq Pending(p) /\ m \in Pending(p)
      /\ Pending(p) \subseteq Pending(q) \cup {m}
      /\ Unseen(p) = {} /\ Unseen(q) = {m}
  <2>1. Unseen(p) = {}
    BY <1>1, <1>2, <1>3, <1>7, <1>9 DEF Checking, Unseen
  <2> QED BY <2>1, <1>2, <1>3, <1>5, <1>7 DEF Pending, Unseen
<1>10. Checking(q)
  <2>1. q.calls \subseteq q.imports \cup Pending(q)
    BY <1>5, <1>8, <1>9 DEF Checking
  <2>2. ASSUME NEW k \in q.imports \ (dirty \cup torn), q.mod \in Direct(k)
        PROVE  k \in Unseen(q)
    BY <2>2, <1>5, <1>8, <1>9 DEF Checking
  <2>3. \A k \in Unseen(q) : k \in q.imports /\ Listed(k)
    BY <1>5, <1>8, <1>9
  <2>4. \A k \in Module : Transitive(k) \notin Elements(Tail(q.agenda))
    <3>1. Tail(q.agenda) = Tail(p.agenda)
      BY <1>2, <1>3, TailOfConcat DEF Imported, Compiler
    <3> QED BY <3>1, <1>1, <1>9 DEF Checking
  <2> QED BY <2>1, <2>2, <2>3, <2>4 DEF Checking
<1>11. /\ q.mod \notin q.imports \cup q.calls \cup Pending(q)
       /\ \A k \in q.imports : Made(k)
       /\ q.mod \notin dirty => q.version = src[q.mod].version /\ q.calls = Direct(q.mod)
  BY <1>5, <1>8 DEF Sound, Complete
<1>12. Sound(q)
  BY <1>5, <1>6, <1>10, <1>11 DEF Sound
<1> QED BY <1>3, <1>5, <1>6, <1>12

----------------------------------------------------------------------------
LEMMA InitInv == Init => Inv
<1> SUFFICES ASSUME Init PROVE Inv
  OBVIOUS
<1>0. /\ gct = [m \in Module |-> NONE] /\ gcn = [m \in Module |-> NONE]
      /\ clock = 0 /\ procs = << >> /\ exe = NONE /\ status = "ok" /\ dirty = {}
      /\ torn = {}
  BY DEF Init
<1>1. \A m \in Module : /\ src[m].imports \in Seq(Module) /\ m \notin Direct(m)
                        /\ src[m].version = 0 /\ src[m].mtime = 0
  <2> TAKE m \in Module
  <2>1. src[m].imports \in Seq(Module \ {m})
    BY VariantsAssumption DEF Init
  <2>2. Elements(src[m].imports) \subseteq Module \ {m}
    BY <2>1, ElementsType
  <2>3. src[m].imports \in Seq(Module)
    BY <2>1, SeqMonotonic
  <2> QED BY <2>2, <2>3 DEF Direct, Init
<1>2. src \in [Module -> Source]
  <2>1. ASSUME NEW m \in Module PROVE src[m] \in Source
    <3>1. src[m] \in [imports : Seq(Module), version : {0}, mtime : {0}]
      <4>1. PICK i : src[m] = [imports |-> i, version |-> 0, mtime |-> 0]
        BY DEF Init
      <4> QED BY <4>1, <1>1
    <3>2. 0 \in 0 .. MaxEdits /\ 0 \in 0 .. clock
      BY <1>0, BoundAssumption
    <3> QED BY <3>1, <3>2 DEF Source
  <2> QED BY <2>1 DEF Init
<1>3. FilesOK
  <2>1. clock \in 0 .. MaxClock
    BY <1>0, BoundAssumption
  <2>0. \A S : [m \in Module |-> NONE] \in [Module -> S \cup {NONE}]
    OBVIOUS
  <2>2. gct \in [Module -> (SUBSET Module) \cup {NONE}]
    BY <2>0, <1>0, Zenon
  <2>3. gcn \in [Module -> Object \cup {NONE}]
    BY <2>0, <1>0, Zenon
  <2>4. exe \in Program \cup {NONE} /\ status \in {"ok", "failed"} /\ dirty \subseteq Module
       /\ torn \subseteq Module
    BY <1>0
  <2> QED BY <2>1, <2>2, <2>3, <2>4, <1>0, <1>1, <1>2 DEF FilesOK
<1>4. FilesSound
  BY <1>0 DEF FilesSound, UpToDate
<1>5. ProcsSound /\ Stacked
  BY <1>0, EmptySeq DEF ProcsSound, Stacked, Is
<1> QED BY <1>3, <1>4, <1>5 DEF Inv

LEMMA TickInv == Inv /\ Tick => Inv'
<1> SUFFICES ASSUME Inv, Tick PROVE Inv'
  OBVIOUS
<1>1. /\ clock' = clock + 1 /\ clock \in 0 .. MaxClock /\ clock' \in 0 .. MaxClock
      /\ UNCHANGED <<src, gct, gcn, exe, procs, status, dirty, torn>>
  BY BoundAssumption DEF history, Inv, FilesOK, Tick, files
<1>2. 0 .. clock \subseteq 0 .. clock'
  BY <1>1
<1>3. FilesOK'
  <2>1. Source \subseteq Source' /\ Object \subseteq Object'
    BY <1>2 DEF Source, Object
  <2>2. src \in [Module -> Source'] /\ gcn \in [Module -> Object' \cup {NONE}]
    BY <2>1 DEF Inv, FilesOK
  <2> QED BY <1>1, <2>2 DEF Inv, FilesOK, Direct
<1>4. FilesSound' /\ ProcsSound' /\ Stacked'
  BY <1>1 DEF Inv, FilesSound, UpToDate, ProcsSound, Stacked, Is, Top, Sound, Complete,
    Made, Listed, Checking, Checked, Unseen, Direct
<1> QED BY <1>3, <1>4 DEF Inv

(* A source that has just been edited is not older than its .gcn file.      *)
LEMMA EditInv ==
  ASSUME Inv, NEW m \in Module, NEW s \in Variants[m], Edit(m, s)
  PROVE  Inv'
<1>1. PICK v \in 1 .. MaxEdits :
        src' = [src EXCEPT ![m] = [imports |-> s, version |-> v, mtime |-> clock]]
  BY DEF Edit
<1>2. UNCHANGED <<clock, gct, gcn, exe, procs, status>>
  BY DEF Edit
<1>3. FilesOK
  BY DEF Inv
<1>4. s \in Seq(Module) /\ m \notin Elements(s)
  <2>1. s \in Seq(Module \ {m})
    BY VariantsAssumption
  <2> QED BY <2>1, SeqMonotonic, ElementsType
<1>5. /\ src' \in [Module -> Source] /\ src'[m].imports = s /\ src'[m].mtime = clock
      /\ \A k \in Module \ {m} : src'[k] = src[k]
  <2>1. [imports |-> s, version |-> v, mtime |-> clock] \in Source
    <3>1. clock \in 0 .. clock /\ v \in 0 .. MaxEdits
      BY <1>3, BoundAssumption DEF FilesOK
    <3> QED BY <3>1, <1>4 DEF Source
  <2> QED BY <2>1, <1>1, <1>3 DEF FilesOK
<1>6. /\ dirty' \subseteq Module /\ torn' \subseteq Module
      /\ \A k \in Module \ {m} : (k \in dirty' <=> k \in dirty) /\ (k \in torn' <=> k \in torn)
  BY <1>3 DEF Edit, FilesOK
<1>7. FilesOK'
  <2>1. Source' = Source /\ Object' = Object
    BY <1>2 DEF Source, Object
  <2>2. \A k \in Module : k \notin Direct(k)'
    BY <1>3, <1>4, <1>5 DEF FilesOK, Direct
  <2> QED BY <2>1, <2>2, <1>2, <1>3, <1>5, <1>6 DEF FilesOK
<1>8. \A k \in Module \ {m} : /\ (Direct(k) = Direct(k)')
                              /\ (Made(k) <=> Made(k)') /\ (Listed(k) <=> Listed(k)')
                              /\ (Complete(k) <=> Complete(k)')
                              /\ (UpToDate(k) <=> UpToDate(k)')
  BY <1>2, <1>5, <1>6 DEF Direct, Made, Listed, Complete, UpToDate
<1>9. FilesSound'
  <2>1. ~ UpToDate(m)'
    <3>1. gcn[m] # NONE => gcn[m].mtime \in 0 .. clock
      BY <1>3 DEF FilesOK, Object
    <3> QED BY <3>1, <1>2, <1>3, <1>5 DEF UpToDate, Newer, FilesOK
  <2> QED BY <2>1, <1>2, <1>8 DEF Inv, FilesSound
<1>10. CASE procs = << >>
  BY <1>2, <1>7, <1>9, <1>10, EmptySeq DEF Inv, ProcsSound, Stacked, Is
<1>11. CASE procs # << >>
  <2>1. dirty' = dirty \cup {m}
    BY <1>11 DEF Edit
  <2>2. \A k \in Module : /\ Complete(k) => Complete(k)'
                          /\ Made(k) => Made(k)'
                          /\ Listed(k) => Listed(k)'
    BY <2>1, <1>2, <1>8 DEF Complete, Made, Listed
  <2>3. ASSUME NEW p, Sound(p) PROVE Sound(p)'
    <3>1. p \in Compiler /\ p.mod \in Module /\ p.imports \subseteq Module
      BY <2>3 DEF Sound, Compiler
    <3>2. Checking(p) => Checking(p)'
      <4> SUFFICES ASSUME Checking(p) PROVE Checking(p)'
        OBVIOUS
      <4>1. Unseen(p)' = Unseen(p) /\ Unseen(p) \subseteq Module
        BY DEF Unseen
      <4>2. \A k \in p.imports \ (dirty \cup torn)' :
              k \in p.imports \ (dirty \cup torn) /\ (Direct(k) = Direct(k)')
        BY <3>1, <2>1, <1>6, <1>8
      <4>3. \A k \in Unseen(p) : k \in p.imports /\ Listed(k)'
        BY <4>1, <2>2 DEF Checking
      <4> QED BY <4>1, <4>2, <4>3 DEF Checking
    <3>3. Checked(p) => Checked(p)'
      BY <3>1, <2>1, <1>2, <1>6, <1>8 DEF Checked
    <3>4. p.mod \notin dirty' => p.mod \notin dirty /\ (Direct(p.mod) = Direct(p.mod)')
                               /\ src'[p.mod] = src[p.mod]
      BY <3>1, <2>1, <1>5, <1>8
    <3>5. \A k \in p.imports : Made(k)'
      BY <2>2, <2>3, <3>1 DEF Sound
    <3>6. p.phase = "link" => Made(p.mod)'
      BY <2>2, <2>3, <3>1 DEF Sound
    <3> QED BY <2>3, <3>1, <3>2, <3>3, <3>4, <3>5, <3>6, <1>2 DEF Sound
  <2>4. ProcsSound'
    BY <2>3, <1>2 DEF Inv, ProcsSound
  <2>5. Stacked'
    <3>1. Is("wait") => Head(Top.agenda).of \in Module
      <4> SUFFICES ASSUME Is("wait") PROVE Head(Top.agenda).of \in Module
        OBVIOUS
      <4>1. Top \in Compiler /\ Sound(Top)
        <5>1. procs \in Seq(Compiler) /\ \A k \in 1 .. Len(procs) : Sound(procs[k])
          BY DEF Inv, ProcsSound
        <5>2. Len(procs) \in Nat \ {0} /\ Top \in Compiler
          BY <5>1, <1>11, StackType
        <5>3. Len(procs) \in 1 .. Len(procs)
          BY <5>2
        <5> QED BY <5>1, <5>2, <5>3 DEF Top
      <4>2. Top.agenda \in Seq(Item) /\ Top.agenda # << >>
        BY <4>1 DEF Is, Sound, Waiting, Compiler
      <4>3. Head(Top.agenda) \in Item
        BY <4>2, HeadTailProperties
      <4> QED BY <4>3 DEF Item
    <3> QED BY <3>1, <2>2, <1>2 DEF Inv, Stacked, Is, Top
  <2> QED BY <2>4, <2>5, <1>7, <1>9 DEF Inv
<1> QED BY <1>10, <1>11

LEMMA StartInv ==
  ASSUME Inv, NEW m \in Programs, Start(m)
  PROVE  Inv'
<1>1. /\ procs' = <<Process(m)>> /\ exe' = NONE
      /\ UNCHANGED <<clock, src, gct, gcn, status, dirty, torn>>
  BY DEF history, Start
<1>2. FilesOK' /\ FilesSound'
  <2>1. (Source' = Source) /\ (Object' = Object) /\ (\A k : Direct(k)' = Direct(k))
    BY <1>1 DEF Source, Object, Direct
  <2> QED BY <1>1, <2>1, FilesStay DEF Inv, FilesOK
<1>3. PICK q : q = Process(m)
  OBVIOUS
<1>4. m \in Module
  BY VariantsAssumption
<1>5. q \in Compiler /\ Sound(q)' /\ q.phase = "read"
  <2>1. q \in Compiler
    <3>1. << >> \in Seq(Item) /\ 0 \in 0 .. MaxEdits
      BY BoundAssumption
    <3> QED BY <3>1, <1>3, <1>4 DEF Process, Compiler
  <2>2. q.mod = m /\ q.phase = "read" /\ q.calls = {} /\ q.imports = {} /\ q.agenda = << >>
    BY <1>3 DEF Process
  <2>3. Pending(q) = {}
    BY <2>2 DEF Pending, Elements
  <2> QED BY <2>1, <2>2, <2>3, <1>3 DEF Sound
<1>6. /\ procs' \in Seq(Compiler) /\ Len(procs') = 1 /\ procs'[1] = q
  BY <1>1, <1>3, <1>5
<1>7. ProcsSound'
  BY <1>5, <1>6 DEF ProcsSound
<1>8. Stacked'
  BY <1>5, <1>6 DEF Stacked, Is, Top
<1> QED BY <1>2, <1>7, <1>8 DEF Inv

(* What every step of the last process may use.                             *)
LEMMA TopSound ==
  ASSUME Inv, procs # << >>
  PROVE  /\ Top \in Compiler /\ Sound(Top) /\ Top.mod \in Module
         /\ Top.agenda \in Seq(Item) /\ Len(procs) \in Nat \ {0}
         /\ Top.agenda # << >> =>
              /\ Head(Top.agenda) \in Item /\ Tail(Top.agenda) \in Seq(Item)
              /\ Elements(Top.agenda) = {Head(Top.agenda)} \cup Elements(Tail(Top.agenda))
<1>1. procs \in Seq(Compiler) /\ \A k \in 1 .. Len(procs) : Sound(procs[k])
  BY DEF Inv, ProcsSound
<1>2. Len(procs) \in Nat \ {0} /\ Top \in Compiler
  BY <1>1, StackType
<1>3. Len(procs) \in 1 .. Len(procs)
  BY <1>2
<1>4. Top.mod \in Module /\ Top.agenda \in Seq(Item)
  BY <1>2 DEF Compiler
<1> QED BY <1>1, <1>2, <1>3, <1>4, ElementsOfTail DEF Top

LEMMA ReadSourceInv == Inv /\ ReadSource => Inv'
<1> SUFFICES ASSUME Inv, ReadSource PROVE Inv'
  OBVIOUS
<1>1. /\ procs # << >> /\ Top.phase = "read"
      /\ UNCHANGED <<clock, src, gct, gcn, exe, status, dirty, torn>>
  BY DEF history, ReadSource, Is, files
<1>2. PICK t : t = Top
  OBVIOUS
<1>3. t \in Compiler /\ Sound(t) /\ t.mod \in Module /\ t.phase = "read" /\ t = Process(t.mod)
  BY <1>1, <1>2, TopSound DEF Sound
<1>4. PICK i : i = src[t.mod].imports
  OBVIOUS
<1>5. /\ i \in Seq(Module) /\ Elements(i) = Direct(t.mod) /\ Elements(i) \subseteq Module
      /\ t.mod \notin Elements(i) /\ src[t.mod].version \in 0 .. MaxEdits
  BY <1>3, <1>4, ElementsType DEF Inv, FilesOK, Source, Direct
<1>6. PICK q : q = [t EXCEPT !.phase = "check", !.version = src[t.mod].version,
                             !.calls = Elements(i), !.agenda = Checks(i)]
  OBVIOUS
<1>7. Becomes(q)
  BY <1>2, <1>4, <1>6 DEF history, ReadSource
<1>8. /\ Checks(i) \in Seq(Item)
      /\ \A m \in Module : /\ Import(m) \in Elements(Checks(i)) <=> m \in Elements(i)
                           /\ Transitive(m) \notin Elements(Checks(i))
  <2>1. PICK n \in Nat : n = Len(i) /\ i \in [1 .. n -> Module]
    BY <1>5, LenProperties
  <2> QED BY <2>1, ElementsOfChecks
<1>9. /\ q \in Compiler /\ q.phase = "check" /\ q.version = src[t.mod].version
      /\ q.calls = Elements(i) /\ q.agenda = Checks(i) /\ q.imports = {} /\ q.mod = t.mod
  <2>1. t.imports = {}
    BY <1>3 DEF Process
  <2>2. /\ src[t.mod].version \in 0 .. MaxEdits
        /\ Elements(i) \in SUBSET Module /\ Checks(i) \in Seq(Item)
    BY <1>5, <1>8
  <2>3. /\ q.phase = "check" /\ q.version = src[t.mod].version
        /\ q.calls = Elements(i) /\ q.agenda = Checks(i) /\ q.imports = t.imports /\ q.mod = t.mod
    BY <1>3, <1>6 DEF Compiler
  <2>4. q \in Compiler
    BY <1>3, <1>6, <2>2 DEF Compiler
  <2> QED BY <2>1, <2>3, <2>4
<1>10. Sound(q)
  <2>1. Pending(q) = Elements(i)
    BY <1>5, <1>8, <1>9 DEF Pending
  <2>2. Checking(q)
    <3>1. Unseen(q) = {}
      BY <1>8, <1>9 DEF Unseen
    <3>2. q.agenda # << >> => Elements(Tail(q.agenda)) \subseteq Elements(q.agenda)
      BY <1>8, <1>9, ElementsOfTail
    <3> QED BY <3>1, <3>2, <2>1, <1>8, <1>9 DEF Checking
  <2> QED BY <2>1, <2>2, <1>5, <1>9 DEF Sound
<1>11. FilesOK' /\ FilesSound' /\ OthersStay /\ Sound(q)'
  BY <1>1, <1>10, FilesStay DEF Inv, FilesOK, OthersStay
<1> QED BY <1>1, <1>2, <1>7, <1>9, <1>11, TopGoesOn DEF Inv

LEMMA CheckImportInv == Inv /\ CheckImport => Inv'
<1> SUFFICES ASSUME Inv, CheckImport PROVE Inv'
  OBVIOUS
<1>1. /\ procs # << >> /\ Top.phase = "check" /\ Top.agenda # << >>
      /\ Head(Top.agenda).item = "import"
      /\ UNCHANGED <<clock, src, gct, gcn, exe, status, dirty, torn>>
  BY DEF history, CheckImport, Is, files
<1>2. PICK t : t = Top
  OBVIOUS
<1>3. /\ t \in Compiler /\ Sound(t) /\ t.mod \in Module /\ t.phase = "check" /\ Waiting(t)
      /\ Head(t.agenda) \in Item /\ Tail(t.agenda) \in Seq(Item)
      /\ Elements(t.agenda) = {Head(t.agenda)} \cup Elements(Tail(t.agenda))
  BY <1>1, <1>2, TopSound DEF Waiting
<1>4. PICK m : m = Head(t.agenda).of
  OBVIOUS
<1>5. m \in Module /\ Import(m) = Head(t.agenda)
  BY <1>1, <1>2, <1>3, <1>4 DEF Item, Import
<1>6. FilesOK' /\ FilesSound' /\ OthersStay
  BY <1>1, FilesStay DEF Inv, FilesOK, OthersStay
<1>7. CASE m \in t.imports
  <2>1. PICK q : q = [t EXCEPT !.agenda = Tail(t.agenda)]
    OBVIOUS
  <2>2. Becomes(q)
    BY <1>2, <1>4, <1>7, <2>1 DEF history, CheckImport
  <2>3. /\ q.agenda = Tail(t.agenda) /\ q.imports = t.imports /\ q.mod = t.mod
        /\ q.phase = "check" /\ q.version = t.version /\ q.calls = t.calls
    BY <1>3, <2>1 DEF Compiler
  <2>4. q \in Compiler
    BY <1>3, <2>1 DEF Compiler
  <2>5. \A j : Transitive(j) # Import(m) /\ (Import(j) = Import(m) => j = m)
    BY DEF Import, Transitive
  <2>6. Pending(q) \subseteq Pending(t) /\ Pending(t) \subseteq Pending(q) \cup {m}
    BY <1>3, <1>5, <2>3, <2>5 DEF Pending
  <2>8. Checking(t)
    BY <1>3 DEF Sound
  <2>7. Unseen(q) = {} /\ Unseen(t) = {}
    <3>1. \A k \in Module : Transitive(k) \notin Elements(Tail(t.agenda))
      BY <1>1, <1>2, <2>8 DEF Checking
    <3> QED BY <3>1, <1>3, <1>5, <2>3, <2>5 DEF Unseen
  <2>9. Checking(q)
    <3>1. q.agenda # << >> => Elements(Tail(q.agenda)) \subseteq Elements(q.agenda)
      BY <1>3, <2>3, ElementsOfTail
    <3>2. \A k \in Module : Transitive(k) \notin Elements(q.agenda)
      BY <2>7 DEF Unseen
    <3> QED BY <3>1, <3>2, <1>7, <2>3, <2>6, <2>7, <2>8 DEF Checking
  <2>10. Sound(q)
    BY <1>3, <2>3, <2>4, <2>6, <2>9 DEF Sound
  <2>11. Sound(q)'
    BY <2>10, <1>1, FilesStay
  <2> QED BY <1>1, <1>2, <1>6, <2>2, <2>3, <2>4, <2>11, TopGoesOn DEF Inv
<1>8. CASE m \notin t.imports /\ UpToDate(m)
  <2>1. PICK q : q = Imported(t, m)
    OBVIOUS
  <2>2. Becomes(q)
    BY <1>2, <1>4, <1>8, <2>1 DEF history, CheckImport
  <2>3. Complete(m)
    BY <1>5, <1>8 DEF Inv, FilesSound
  <2>4. q \in Compiler /\ Sound(q) /\ q.mod = t.mod /\ q.phase = "check"
    BY <1>3, <1>4, <2>1, <2>3, ImportedSound
  <2>5. Sound(q)'
    BY <2>4, <1>1, FilesStay
  <2> QED BY <1>1, <1>2, <1>6, <2>2, <2>4, <2>5, TopGoesOn DEF Inv
<1>9. CASE m \notin t.imports /\ ~ UpToDate(m)
  <2>1. PICK q : q = [t EXCEPT !.phase = "wait"]
    OBVIOUS
  <2>2. PICK c : c = Process(m)
    OBVIOUS
  <2>3. procs' = Parents \o <<q, c>>
    BY <1>2, <1>4, <1>9, <2>1, <2>2 DEF history, CheckImport
  <2>4. /\ q.agenda = t.agenda /\ q.imports = t.imports /\ q.mod = t.mod
        /\ q.phase = "wait" /\ q.version = t.version /\ q.calls = t.calls
    BY <1>3, <2>1 DEF Compiler
  <2>5. q \in Compiler
    BY <1>3, <2>1 DEF Compiler
  <2>6. Sound(q)
    BY <1>3, <2>4, <2>5 DEF Sound, Checking, Waiting, Pending, Unseen
  <2>7. c \in Compiler
    <3>1. << >> \in Seq(Item) /\ 0 \in 0 .. MaxEdits
      BY BoundAssumption
    <3> QED BY <3>1, <1>5, <2>2 DEF Process, Compiler
  <2>8. c.mod = m /\ c.phase = "read" /\ c.calls = {} /\ c.imports = {} /\ c.agenda = << >>
    BY <2>2 DEF Process
  <2>9. Sound(c)
    BY <2>2, <2>7, <2>8 DEF Sound, Pending, Elements
  <2>10. Sound(q)' /\ Sound(c)'
    BY <2>6, <2>9, <1>1, FilesStay
  <2>11. c.mod = Head(q.agenda).of /\ q.mod = Top.mod
    BY <1>2, <1>4, <2>4, <2>8
  <2>12. ProcsSound' /\ Stacked'
    BY <1>1, <1>6, <2>3, <2>4, <2>5, <2>7, <2>8, <2>10, <2>11, TopCalls DEF Inv
  <2> QED BY <1>6, <2>12 DEF Inv
<1> QED BY <1>7, <1>8, <1>9

LEMMA ResumeInv == Inv /\ Resume => Inv'
<1> SUFFICES ASSUME Inv, Resume PROVE Inv'
  OBVIOUS
<1>1. /\ procs # << >> /\ Top.phase = "wait"
      /\ UNCHANGED <<clock, src, gct, gcn, exe, dirty, torn>>
  BY DEF history, Resume, Is, files
<1>2. PICK t : t = Top
  OBVIOUS
<1>3. t \in Compiler /\ Sound(t) /\ t.phase = "wait" /\ Waiting(t)
  BY <1>1, <1>2, TopSound DEF Sound
<1>4. FilesSound' /\ OthersStay /\ (status' \in {"ok", "failed"} => FilesOK')
  BY <1>1, FilesStay DEF Inv, OthersStay
<1>5. CASE status = "ok"
  <2>1. PICK q : q = Imported(t, Head(t.agenda).of)
    OBVIOUS
  <2>2. Becomes(q) /\ status' = status
    BY <1>2, <1>5, <2>1 DEF history, Resume
  <2>3. Complete(Head(t.agenda).of)
    BY <1>1, <1>2, <1>5 DEF Inv, Stacked, Is
  <2>4. q \in Compiler /\ Sound(q) /\ q.mod = t.mod /\ q.phase = "check"
    BY <1>3, <2>1, <2>3, ImportedSound
  <2>5. Sound(q)'
    BY <2>4, <1>1, FilesStay
  <2>6. ProcsSound' /\ Stacked'
    BY <1>1, <1>2, <1>4, <2>2, <2>4, <2>5, TopGoesOn DEF Inv
  <2> QED BY <1>4, <1>5, <2>2, <2>6 DEF Inv
<1>6. CASE status # "ok"
  <2>1. Exit("failed")
    BY <1>6 DEF history, Resume
  <2>2. ProcsSound' /\ Stacked' /\ status' \in {"ok", "failed"}
    BY <1>1, <1>4, <2>1, TopLeaves DEF Inv
  <2> QED BY <1>4, <2>2 DEF Inv
<1> QED BY <1>5, <1>6

(* A module that leads back to the one being compiled is refused here.      *)
LEMMA AddTransitiveInv == Inv /\ AddTransitiveImports => Inv'
<1> SUFFICES ASSUME Inv, AddTransitiveImports PROVE Inv'
  OBVIOUS
<1>1. /\ procs # << >> /\ Top.phase = "check" /\ Top.agenda # << >>
      /\ Head(Top.agenda).item = "transitive"
      /\ UNCHANGED <<clock, src, gct, gcn, exe, dirty, torn>>
  BY DEF history, AddTransitiveImports, Is, files
<1>2. PICK t : t = Top
  OBVIOUS
<1>3. /\ t \in Compiler /\ Sound(t) /\ t.mod \in Module /\ t.phase = "check"
      /\ Head(t.agenda) \in Item /\ Tail(t.agenda) \in Seq(Item)
      /\ Elements(t.agenda) = {Head(t.agenda)} \cup Elements(Tail(t.agenda))
  BY <1>1, <1>2, TopSound
<1>4. PICK h : h = Head(t.agenda).of
  OBVIOUS
<1>5. h \in Module /\ Transitive(h) = Head(t.agenda)
  BY <1>1, <1>2, <1>3, <1>4 DEF Item, Transitive
<1>6. FilesSound' /\ OthersStay /\ (status' \in {"ok", "failed"} => FilesOK')
  BY <1>1, FilesStay DEF Inv, OthersStay
<1>7. Checking(t)
  BY <1>3 DEF Sound
<1>8. PICK listed : listed = gct[h]
  OBVIOUS
<1>9. h \in t.imports /\ Listed(h) /\ listed \subseteq Module
  <2>1. h \in t.imports /\ Listed(h)
    BY <1>3, <1>5, <1>7 DEF Checking, Unseen
  <2>2. Made(h)
    BY <2>1, <1>3 DEF Sound
  <2> QED BY <2>1, <2>2, <1>5, <1>8 DEF Inv, FilesOK, Made
<1>10. CASE t.mod \in listed
  <2>1. Exit("failed")
    BY <1>2, <1>4, <1>8, <1>10 DEF history, AddTransitiveImports
  <2>2. ProcsSound' /\ Stacked' /\ status' \in {"ok", "failed"}
    BY <1>1, <1>6, <2>1, TopLeaves DEF Inv
  <2> QED BY <1>6, <2>2 DEF Inv
<1>11. CASE t.mod \notin listed
  <2>1. PICK order \in [1 .. Cardinality(listed) -> listed] :
          /\ Elements(order) = listed
          /\ Becomes([t EXCEPT !.agenda = Checks(order) \o Tail(t.agenda)])
          /\ UNCHANGED status
    BY <1>2, <1>4, <1>8, <1>11 DEF history, AddTransitiveImports
  <2>2. PICK n \in Nat : n = Cardinality(listed)
    BY <1>9, VariantsAssumption, FS_Subset, FS_CardinalityType
  <2>3. order \in [1 .. n -> Module]
    BY <2>1, <2>2, <1>9
  <2>4. /\ Checks(order) \in Seq(Item)
        /\ \A m \in Module : /\ Import(m) \in Elements(Checks(order)) <=> m \in listed
                             /\ Transitive(m) \notin Elements(Checks(order))
    <3>1. order \in [1 .. n -> Module] /\ Elements(order) = listed
      BY <2>1, <2>3
    <3> QED BY <3>1, ElementsOfChecks
  <2>5. PICK new : new = Checks(order) \o Tail(t.agenda)
    OBVIOUS
  <2>6. /\ new \in Seq(Item)
        /\ Elements(new) = Elements(Checks(order)) \cup Elements(Tail(t.agenda))
    <3>1. PICK c, d : c = Checks(order) /\ d = Tail(t.agenda)
      OBVIOUS
    <3>2. c \in Seq(Item) /\ d \in Seq(Item)
      BY <1>3, <2>4, <3>1
    <3>3. c \o d \in Seq(Item) /\ Elements(c \o d) = Elements(c) \cup Elements(d)
      BY <3>2, ElementsOfConcat
    <3> QED BY <2>5, <3>1, <3>3
  <2>7. PICK q : q = [t EXCEPT !.agenda = new]
    OBVIOUS
  <2>8. Becomes(q)
    BY <2>1, <2>5, <2>7
  <2>9. /\ q.agenda = new /\ q.imports = t.imports /\ q.mod = t.mod
        /\ q.phase = "check" /\ q.version = t.version /\ q.calls = t.calls
    BY <1>3, <2>7 DEF Compiler
  <2>10. q \in Compiler
    BY <1>3, <2>6, <2>7 DEF Compiler
  <2>11. \A j : Import(j) # Transitive(h) /\ (Transitive(j) = Transitive(h) => j = h)
    BY DEF Import, Transitive
  <2>12. Pending(q) \subseteq Pending(t) \cup listed /\ Pending(t) \subseteq Pending(q)
    BY <1>3, <1>5, <2>4, <2>6, <2>9, <2>11 DEF Pending
  <2>13. Checking(q)
    <3>1. q.calls \subseteq q.imports \cup Pending(q)
      BY <1>7, <2>9, <2>12 DEF Checking
    <3>2. \A k \in Module : Transitive(k) \notin Elements(q.agenda)
      BY <1>1, <1>2, <1>7, <2>4, <2>6, <2>9 DEF Checking
    <3>3. Unseen(q) = {} /\ Unseen(t) \subseteq {h}
      <4>1. \A k \in Module : Transitive(k) \notin Elements(Tail(t.agenda))
        BY <1>1, <1>2, <1>7 DEF Checking
      <4> QED BY <4>1, <3>2, <1>3, <1>5, <2>11 DEF Unseen
    <3>4. ASSUME NEW k \in q.imports \ (dirty \cup torn) PROVE q.mod \notin Direct(k)
      <4>1. CASE k = h
        BY <4>1, <3>4, <1>8, <1>9, <1>11, <2>9 DEF Listed
      <4>2. CASE k # h
        BY <4>2, <3>3, <3>4, <1>7, <2>9 DEF Checking
      <4> QED BY <4>1, <4>2
    <3>5. q.agenda # << >> => Elements(Tail(q.agenda)) \subseteq Elements(q.agenda)
      BY <2>6, <2>9, ElementsOfTail
    <3> QED BY <3>1, <3>2, <3>3, <3>4, <3>5 DEF Checking
  <2>14. Sound(q)
    BY <1>3, <1>11, <2>9, <2>10, <2>12, <2>13 DEF Sound
  <2>15. Sound(q)'
    BY <2>14, <1>1, FilesStay
  <2>16. ProcsSound' /\ Stacked'
    BY <1>1, <1>2, <1>6, <2>8, <2>9, <2>10, <2>15, TopGoesOn DEF Inv
  <2> QED BY <1>6, <2>1, <2>16 DEF Inv, FilesOK
<1> QED BY <1>10, <1>11

(* What the processes that do not look at a .gct file keep of a step.       *)
LEMMA SoundKept ==
  ASSUME UNCHANGED <<src, dirty>>, torn \subseteq torn', NEW p, Sound(p),
         p.phase \in {"wait", "compile"},
         \A k \in Module : Made(k) => Made(k)',
         p.phase = "compile" => gct'[p.mod] = gct[p.mod]
  PROVE  Sound(p)'
<1>1. \A k : Direct(k) = Direct(k)'
  BY DEF Direct
<1>2. p \in Compiler /\ p.mod \in Module /\ p.imports \subseteq Module
  BY DEF Sound, Compiler
<1>3. p.phase = "wait" => Checking(p)'
  <2> SUFFICES ASSUME p.phase = "wait" PROVE Checking(p)'
    OBVIOUS
  <2>1. Checking(p) /\ Waiting(p)
    BY DEF Sound
  <2>2. Unseen(p) = {}
    <3>1. p.agenda \in Seq(Item) /\ p.agenda # << >>
      BY <1>2, <2>1 DEF Compiler, Waiting
    <3>2. Elements(p.agenda) = {Head(p.agenda)} \cup Elements(Tail(p.agenda))
      BY <3>1, ElementsOfTail
    <3>3. \A k : Transitive(k) # Head(p.agenda)
      BY <2>1 DEF Waiting, Transitive
    <3> QED BY <3>1, <3>2, <3>3, <2>1 DEF Unseen, Checking
  <2> QED BY <2>1, <2>2, <1>1 DEF Checking
<1>4. p.phase = "compile" => Checked(p)'
  BY <1>1 DEF Sound, Checked
<1> QED BY <1>1, <1>2, <1>3, <1>4 DEF Sound

(* What a step that writes the .gct file of the last process's module keeps.*)
LEMMA GctWritten ==
  ASSUME Inv, procs # << >>, NEW lines \in SUBSET Top.imports,
         gct' = [gct EXCEPT ![Top.mod] = lines],
         UNCHANGED <<clock, src, gcn, exe, status, dirty>>, torn' \subseteq Module
  PROVE  /\ FilesOK' /\ gct'[Top.mod] = lines /\ gct'[Top.mod] # NONE
         /\ \A k \in Module \ {Top.mod} : gct'[k] = gct[k]
         /\ \A k \in Module : /\ Direct(k) = Direct(k)' /\ (Made(k) => Made(k)')
                              /\ gcn'[k] # NONE => gct'[k] # NONE
                              /\ (UpToDate(k)' => UpToDate(k))
<1>1. Top \in Compiler /\ Top.mod \in Module /\ FilesOK
  BY TopSound DEF Inv
<1>2. lines \subseteq Module /\ lines # NONE
  BY <1>1, NoneAssumption DEF Compiler
<1>3. /\ gct' \in [Module -> (SUBSET Module) \cup {NONE}] /\ gct'[Top.mod] = lines
      /\ \A k \in Module \ {Top.mod} : gct'[k] = gct[k]
  BY <1>1, <1>2 DEF FilesOK
<1>4. \A k : Direct(k) = Direct(k)'
  BY DEF Direct
<1>5. FilesOK'
  <2>1. Source' = Source /\ Object' = Object
    BY DEF Source, Object
  <2> QED BY <2>1, <1>1, <1>3, <1>4 DEF FilesOK
<1>6. ASSUME NEW k \in Module, Made(k) PROVE Made(k)'
  <2>1. gct'[k] # NONE
    BY <1>2, <1>3, <1>6 DEF Made
  <2> QED BY <2>1, <1>4, <1>6 DEF Made
<1>7. ASSUME NEW k \in Module
      PROVE  (gcn'[k] # NONE => gct'[k] # NONE) /\ (UpToDate(k)' => UpToDate(k))
  <2>1. gcn[k] # NONE => gct[k] # NONE /\ gct'[k] # NONE
    BY <1>2, <1>3 DEF Inv, FilesSound
  <2> QED BY <2>1 DEF UpToDate
<1> QED BY <1>2, <1>3, <1>4, <1>5, <1>6, <1>7

LEMMA OpenGctInv == Inv /\ OpenGct => Inv'
<1> SUFFICES ASSUME Inv, OpenGct PROVE Inv'
  OBVIOUS
<1>1. /\ procs # << >> /\ Top.phase = "check" /\ Top.agenda = << >>
      /\ UNCHANGED <<clock, src, gcn, exe, status, dirty>>
      /\ torn' = IF UpToDate(Top.mod) THEN torn \cup {Top.mod} ELSE torn
  BY DEF OpenGct, Is
<1>2. PICK t : t = Top
  OBVIOUS
<1>3. t \in Compiler /\ Sound(t) /\ t.mod \in Module /\ t.phase = "check" /\ t.agenda = << >>
  BY <1>1, <1>2, TopSound
<1>4. PICK lines \in SUBSET t.imports : gct' = [gct EXCEPT ![t.mod] = lines]
  BY <1>2 DEF OpenGct
<1>5. torn' \subseteq Module /\ torn \subseteq torn'
  BY <1>1, <1>2, <1>3 DEF Inv, FilesOK
<1>6. /\ FilesOK' /\ gct'[t.mod] # NONE
      /\ \A k \in Module \ {t.mod} : gct'[k] = gct[k]
      /\ \A k \in Module : /\ Direct(k) = Direct(k)' /\ (Made(k) => Made(k)')
                           /\ gcn'[k] # NONE => gct'[k] # NONE
                           /\ (UpToDate(k)' => UpToDate(k))
  BY <1>1, <1>2, <1>4, <1>5, GctWritten
<1>7. Pending(t) = {} /\ Unseen(t) = {}
  BY <1>3 DEF Pending, Unseen, Elements
<1>8. FilesSound'
  <2> SUFFICES ASSUME NEW k \in Module, UpToDate(k)' PROVE Complete(k)'
    BY <1>6 DEF FilesSound
  <2>1. UpToDate(k) /\ Made(k)' /\ Listed(k)
    BY <1>6 DEF Inv, FilesSound, Complete
  <2>2. CASE k = t.mod
    BY <2>1, <2>2, <1>1, <1>2 DEF Complete, Listed
  <2>3. CASE k # t.mod
    BY <2>1, <2>3, <1>1, <1>5, <1>6 DEF Complete, Listed
  <2> QED BY <2>2, <2>3
<1>9. OthersStay
  BY <1>1, <1>5, <1>6, SoundKept DEF OthersStay
<1>10. PICK q : q = [t EXCEPT !.phase = "write"]
  OBVIOUS
<1>11. /\ Becomes(q) /\ q \in Compiler
       /\ q.agenda = << >> /\ q.imports = t.imports /\ q.mod = t.mod
       /\ q.phase = "write" /\ q.version = t.version /\ q.calls = t.calls
  <2>1. Becomes(q)
    BY <1>2, <1>10 DEF OpenGct
  <2>2. q \in Compiler
    BY <1>3, <1>10 DEF Compiler
  <2> QED BY <2>1, <2>2, <1>3, <1>10 DEF Compiler
<1>12. Sound(q)'
  <2>1. Checked(q)'
    <3>1. q.imports \subseteq Module
      BY <1>11 DEF Compiler
    <3> QED BY <3>1, <1>1, <1>3, <1>5, <1>6, <1>7, <1>11 DEF Checked, Sound, Checking
  <2>2. Pending(q) = {}
    BY <1>11 DEF Pending, Elements
  <2>3. \A k \in q.imports : Made(k)'
    BY <1>3, <1>6, <1>11 DEF Sound, Compiler
  <2> QED BY <2>1, <2>2, <2>3, <1>1, <1>3, <1>6, <1>11 DEF Sound
<1> QED BY <1>1, <1>2, <1>6, <1>8, <1>9, <1>11, <1>12, TopGoesOn DEF Inv

LEMMA CloseGctInv == Inv /\ CloseGct => Inv'
<1> SUFFICES ASSUME Inv, CloseGct PROVE Inv'
  OBVIOUS
<1>1. /\ procs # << >> /\ Top.phase = "write"
      /\ UNCHANGED <<clock, src, gcn, exe, status, dirty>>
      /\ torn' = IF Len(procs) = 1 THEN torn \ {Top.mod} ELSE torn
  BY DEF CloseGct, Is
<1>2. PICK t : t = Top
  OBVIOUS
<1>3. t \in Compiler /\ Sound(t) /\ t.mod \in Module /\ t.phase = "write" /\ Checked(t)
  BY <1>1, <1>2, TopSound DEF Sound
<1>4. gct' = [gct EXCEPT ![t.mod] = t.imports]
  BY <1>2 DEF CloseGct
<1>5. torn' \subseteq Module /\ torn \ {t.mod} \subseteq torn'
  BY <1>1, <1>2, <1>3 DEF Inv, FilesOK
<1>6. /\ FilesOK' /\ gct'[t.mod] = t.imports /\ gct'[t.mod] # NONE
      /\ \A k \in Module \ {t.mod} : gct'[k] = gct[k]
      /\ \A k \in Module : /\ Direct(k) = Direct(k)' /\ (Made(k) => Made(k)')
                           /\ gcn'[k] # NONE => gct'[k] # NONE
                           /\ (UpToDate(k)' => UpToDate(k))
  BY <1>1, <1>2, <1>4, <1>5, GctWritten
<1>7. FilesSound'
  <2> SUFFICES ASSUME NEW k \in Module, UpToDate(k)' PROVE Complete(k)'
    BY <1>6 DEF FilesSound
  <2>1. Made(k)' /\ Listed(k)
    BY <1>6 DEF Inv, FilesSound, Complete
  <2>2. CASE k = t.mod
    <3>1. t.mod \notin dirty => Direct(t.mod) \subseteq t.imports
      BY <1>3 DEF Sound, Checked
    <3> QED BY <2>1, <2>2, <3>1, <1>1, <1>6 DEF Complete, Listed
  <2>3. CASE k # t.mod
    BY <2>1, <2>3, <1>1, <1>5, <1>6 DEF Complete, Listed
  <2> QED BY <2>2, <2>3
<1>8. OthersStay
  <2> SUFFICES ASSUME Len(procs) > 1 PROVE OthersStay
    BY DEF OthersStay
  <2>1. torn' = torn
    <3>1. PICK n : n = Len(procs) /\ n > 1
      OBVIOUS
    <3>2. n \in Nat \ {0}
      BY <3>1, <1>1, TopSound
    <3>3. n # 1
      BY <3>1, <3>2
    <3> QED BY <3>1, <3>3, <1>1
  <2> QED BY <2>1, <1>1, <1>6, SoundKept DEF OthersStay
<1>9. PICK q : q = [t EXCEPT !.phase = "compile"]
  OBVIOUS
<1>10. /\ Becomes(q) /\ q \in Compiler
       /\ q.agenda = t.agenda /\ q.imports = t.imports /\ q.mod = t.mod
       /\ q.phase = "compile" /\ q.version = t.version /\ q.calls = t.calls
  <2>1. Becomes(q)
    BY <1>2, <1>9 DEF CloseGct
  <2>2. q \in Compiler
    BY <1>3, <1>9 DEF Compiler
  <2> QED BY <2>1, <2>2, <1>3, <1>9 DEF Compiler
<1>11. Sound(q)'
  <2>1. t.mod \notin t.imports /\ q.imports \subseteq Module
    BY <1>3, <1>10 DEF Sound, Compiler
  <2>2. Checked(q)'
    BY <2>1, <1>1, <1>3, <1>5, <1>6, <1>10 DEF Checked
  <2>3. Pending(q) = Pending(t)
    BY <1>10 DEF Pending
  <2>4. \A k \in q.imports : Made(k)'
    BY <2>1, <1>3, <1>6, <1>10 DEF Sound
  <2> QED BY <2>2, <2>3, <2>4, <1>1, <1>3, <1>6, <1>10 DEF Sound
<1> QED BY <1>1, <1>2, <1>6, <1>7, <1>8, <1>10, <1>11, TopGoesOn DEF Inv

LEMMA CompileCInv == Inv /\ CompileC => Inv'
<1> SUFFICES ASSUME Inv, CompileC PROVE Inv'
  OBVIOUS
<1>1. /\ procs # << >> /\ Top.phase = "compile"
      /\ UNCHANGED <<clock, src, gct, exe, dirty, torn>>
  BY DEF history, CompileC, Is
<1>2. PICK t : t = Top
  OBVIOUS
<1>3. t \in Compiler /\ Sound(t) /\ t.mod \in Module /\ t.phase = "compile" /\ Checked(t)
  BY <1>1, <1>2, TopSound DEF Sound
<1>4. FilesOK
  BY DEF Inv
<1>5. PICK made : made = [version |-> t.version, calls |-> t.calls, mtime |-> clock]
  OBVIOUS
<1>6. made \in Object
  <2>1. clock \in 0 .. clock
    BY <1>4 DEF FilesOK
  <2> QED BY <2>1, <1>3, <1>5 DEF Compiler, Object
<1>7. /\ gcn' \in [Module -> Object \cup {NONE}] /\ gcn'[t.mod] = made
      /\ \A k \in Module \ {t.mod} : gcn'[k] = gcn[k]
  BY <1>2, <1>3, <1>4, <1>5, <1>6 DEF history, CompileC, FilesOK
<1>8. \A k : Direct(k) = Direct(k)'
  BY <1>1 DEF Direct
<1>9. status' \in {"ok", "failed"} => FilesOK'
  <2>1. Source' = Source /\ Object' = Object
    BY <1>1 DEF Source, Object
  <2> QED BY <2>1, <1>1, <1>4, <1>7, <1>8 DEF FilesOK
<1>10. Made(t.mod)' /\ Listed(t.mod)'
  <2>1. gct[t.mod] = t.imports /\ t.imports # NONE
    BY <1>3, NoneAssumption DEF Sound, Compiler
  <2>2. t.mod \notin dirty => /\ t.version = src[t.mod].version /\ t.calls = Direct(t.mod)
                             /\ t.calls \subseteq t.imports
    BY <1>3 DEF Sound, Checked
  <2> QED BY <2>1, <2>2, <1>1, <1>5, <1>7, <1>8 DEF Made, Listed
<1>11. \A k \in Module : (Made(k) => Made(k)') /\ (Listed(k) => Listed(k)')
  <2> SUFFICES ASSUME NEW k \in Module, k # t.mod
               PROVE  (Made(k) => Made(k)') /\ (Listed(k) => Listed(k)')
    BY <1>10
  <2> QED BY <1>1, <1>7, <1>8 DEF Made, Listed
<1>12. FilesSound'
  <2> SUFFICES ASSUME NEW k \in Module
               PROVE  /\ gcn'[k] # NONE => gct'[k] # NONE
                      /\ UpToDate(k)' => Complete(k)'
    BY DEF FilesSound
  <2>1. CASE k = t.mod
    BY <2>1, <1>10 DEF Complete, Made
  <2>2. CASE k # t.mod
    <3>1. UpToDate(k)' => UpToDate(k)
      BY <2>2, <1>1, <1>7 DEF UpToDate
    <3> QED BY <2>2, <3>1, <1>1, <1>7, <1>11 DEF Inv, FilesSound, Complete
  <2> QED BY <2>1, <2>2
<1>13. OthersStay
  BY <1>1, <1>11, SoundKept DEF OthersStay
<1>14. CASE Len(procs) > 1
  <2>1. Exit("ok")
    BY <1>14 DEF history, CompileC
  <2>2. ProcsSound' /\ Stacked' /\ status' \in {"ok", "failed"}
    BY <1>1, <1>2, <1>10, <1>13, <2>1, TopLeaves DEF Inv, Complete
  <2> QED BY <1>9, <1>12, <2>2 DEF Inv
<1>15. CASE ~ (Len(procs) > 1)
  <2>1. Len(procs) = 1
    <3>1. PICK n \in Nat \ {0} : n = Len(procs)
      BY <1>1, TopSound
    <3>2. ~ (n > 1)
      BY <3>1, <1>15
    <3>3. n = 1
      BY <3>2
    <3> QED BY <3>1, <3>3
  <2>2. PICK q : q = [t EXCEPT !.phase = "link"]
    OBVIOUS
  <2>3. Becomes(q) /\ status' = status
    BY <1>2, <1>15, <2>2 DEF history, CompileC
  <2>4. /\ q \in Compiler /\ q.agenda = t.agenda /\ q.imports = t.imports /\ q.mod = t.mod
        /\ q.phase = "link" /\ q.version = t.version /\ q.calls = t.calls
    <3>1. q \in Compiler
      BY <1>3, <2>2 DEF Compiler
    <3> QED BY <3>1, <1>3, <2>2 DEF Compiler
  <2>5. Sound(t)'
    BY <1>1, <1>3, <1>11, SoundKept
  <2>6. Sound(q)'
    BY <2>4, <2>5, <1>3, <1>10 DEF Sound, Checked, Pending
  <2>7. ProcsSound' /\ Stacked'
    BY <1>1, <1>2, <1>13, <2>1, <2>3, <2>4, <2>6, TopGoesOn DEF Inv
  <2> QED BY <1>4, <1>9, <1>12, <2>3, <2>7 DEF Inv, FilesOK
<1> QED BY <1>14, <1>15

(* What a module needs is closed under imports.                             *)
LEMMA ReachClosed ==
  ASSUME FilesOK, NEW m \in Module
  PROVE  /\ Build!Reach(m) \subseteq Module /\ Build!Imports(m) \subseteq Build!Reach(m)
         /\ \A k \in Build!Reach(m) : Build!Imports(k) \subseteq Build!Reach(m)
<1>1. \A k \in Module : Build!Imports(k) \subseteq Module
  <2> TAKE k \in Module
  <2>1. src[k].imports \in Seq(Module)
    BY DEF FilesOK, Source
  <2> QED BY <2>1, ElementsType DEF Build!Imports, Elements
<1>2. Build!Imports(m) \subseteq Build!Reach(m)
  BY <1>1 DEF Build!Reach
<1>3. ASSUME NEW k \in Build!Reach(m) PROVE Build!Imports(k) \subseteq Build!Reach(m)
  BY <1>1, <1>3 DEF Build!Reach, Build!Closed
<1> QED BY <1>2, <1>3 DEF Build!Reach

(* The program that Link makes has its parts from the sources as they are,  *)
(* all that it needs, and is no part of what it needs.                      *)
LEMMA LinkBuilds ==
  ASSUME Inv, Link
  PROVE  Inv' /\ (exe' \in {exe, NONE} \/ \E m \in Module : Build!Build(m))
<1>1. /\ procs # << >> /\ Top.phase = "link"
      /\ UNCHANGED <<clock, src, gct, gcn, dirty, torn>>
  BY DEF history, Link, Is
<1>2. PICK t : t = Top
  OBVIOUS
<1>3. /\ t \in Compiler /\ Sound(t) /\ t.mod \in Module /\ t.imports \subseteq Module
      /\ Checked(t) /\ Made(t.mod) /\ Len(procs) = 1
  BY <1>1, <1>2, TopSound DEF Sound, Compiler, Inv, Stacked, Is
<1>4. FilesOK
  BY DEF Inv
<1>5. PICK s \in {"ok", "failed"} : Exit(s)
  BY DEF history, Link
<1>6. FilesSound' /\ OthersStay
  BY <1>1, FilesStay DEF Inv, OthersStay
<1>7. ProcsSound' /\ Stacked' /\ status' \in {"ok", "failed"}
  BY <1>1, <1>3, <1>5, <1>6, TopLeaves DEF Inv
<1>8. exe' \in Program \cup {NONE} => FilesOK'
  <2>1. (Source' = Source) /\ (Object' = Object) /\ \A k : Direct(k)' = Direct(k)
    BY <1>1 DEF Source, Object, Direct
  <2> QED BY <2>1, <1>1, <1>4, <1>7 DEF FilesOK
<1> DEFINE parts == t.imports \cup {t.mod}
<1>9. CASE \A m \in parts : gcn[m] # NONE /\ gcn[m].calls \subseteq parts
  <2>1. exe' = [main |-> t.mod, parts |-> [m \in parts |-> gcn[m].version]]
    BY <1>2, <1>9 DEF history, Link
  <2>2. parts \subseteq Module /\ \A m \in parts : gcn[m].version \in 0 .. MaxEdits
    <3>1. \A m \in parts : gcn[m] \in Object
      BY <1>3, <1>4, <1>9 DEF FilesOK
    <3> QED BY <3>1, <1>3 DEF Object
  <2>3. exe' \in Program
    <3>1. [m \in parts |-> gcn[m].version] \in [parts -> 0 .. MaxEdits]
      BY <2>2
    <3> HIDE DEF parts
    <3>2. [m \in parts |-> gcn[m].version] \in UNION {[S -> 0 .. MaxEdits] : S \in SUBSET Module}
      BY <3>1, <2>2
    <3> QED BY <3>2, <2>1, <1>3 DEF Program
  <2>4. /\ exe'.main = t.mod /\ DOMAIN exe'.parts = parts
        /\ \A k \in parts : exe'.parts[k] = gcn[k].version
    BY <2>1
  <2>5. \A k \in parts : Made(k)
    BY <1>3 DEF Sound
  <2>6. \A k \in DOMAIN exe'.parts \ dirty : exe'.parts[k] = src[k].version
    BY <2>4, <2>5 DEF Made
  <2>7. ASSUME dirty = {}
        PROVE  /\ Build!Reach(t.mod) \subseteq parts
               /\ torn \cap Build!Reach(t.mod) = {} => t.mod \notin Build!Reach(t.mod)
    <3>1. \A k : Build!Imports(k) = Direct(k)
      BY DEF Build!Imports, Direct, Elements
    <3>2. \A k \in parts : Build!Imports(k) \subseteq parts
      BY <3>1, <2>5, <2>7, <1>9 DEF Made
    <3>3. Build!Reach(t.mod) \subseteq parts
      <4>1. parts \in SUBSET Module /\ t.mod \in parts
        BY <1>3
      <4> HIDE DEF parts
      <4> QED BY <3>2, <4>1 DEF Build!Reach, Build!Closed
    <3>4. ASSUME torn \cap Build!Reach(t.mod) = {}, t.mod \in Build!Reach(t.mod) PROVE FALSE
      <4> DEFINE others == Build!Reach(t.mod) \ {t.mod}
      <4>1. /\ Build!Reach(t.mod) \subseteq Module
            /\ Build!Imports(t.mod) \subseteq Build!Reach(t.mod)
            /\ \A k \in Build!Reach(t.mod) : Build!Imports(k) \subseteq Build!Reach(t.mod)
        BY <3>1, ReachClosed, <1>3, <1>4
      <4>2. t.mod \notin Build!Imports(t.mod)
        BY <3>1, <1>3, <1>4 DEF FilesOK
      <4>3. ASSUME NEW k \in others PROVE t.mod \notin Build!Imports(k)
        <5>1. k \in t.imports \ (dirty \cup torn)
          BY <3>3, <3>4, <2>7
        <5> QED BY <5>1, <3>1, <1>3 DEF Checked
      <4>4. Build!Imports(t.mod) \subseteq others /\ Build!Closed(others)
        BY <4>1, <4>2, <4>3 DEF Build!Closed
      <4>5. others \in SUBSET Module
        BY <4>1
      <4>6. t.mod \in others
        BY <3>4, <4>4, <4>5 DEF Build!Reach
      <4> QED BY <4>6
    <3> QED BY <3>3, <3>4
  <2>8. exe' # NONE => Build!Build(t.mod)
    BY <2>4, <2>6, <2>7, <1>1 DEF Build!Build
  <2> QED BY <2>3, <2>8, <1>3, <1>6, <1>7, <1>8 DEF Inv
<1>10. CASE ~ \A m \in parts : gcn[m] # NONE /\ gcn[m].calls \subseteq parts
  <2>1. exe' = exe
    BY <1>2, <1>10 DEF history, Link
  <2> QED BY <2>1, <1>4, <1>6, <1>7, <1>8 DEF Inv, FilesOK
<1> QED BY <1>9, <1>10

LEMMA FailInv == Inv /\ Fail => Inv'
<1> SUFFICES ASSUME Inv, Fail PROVE Inv'
  OBVIOUS
<1>1. /\ procs # << >> /\ Exit("failed")
      /\ UNCHANGED <<clock, src, gct, gcn, exe, dirty, torn>>
  BY DEF history, Fail, files
<1>2. FilesSound' /\ OthersStay /\ (status' \in {"ok", "failed"} => FilesOK')
  BY <1>1, FilesStay DEF Inv, OthersStay
<1>3. ProcsSound' /\ Stacked' /\ status' \in {"ok", "failed"}
  BY <1>1, <1>2, TopLeaves DEF Inv
<1> QED BY <1>2, <1>3 DEF Inv

LEMMA KillInv == Inv /\ Kill => Inv'
<1> SUFFICES ASSUME Inv, Kill PROVE Inv'
  OBVIOUS
<1>1. /\ procs' = << >> /\ status' = "ok"
      /\ UNCHANGED <<clock, src, gct, gcn, exe, dirty, torn>>
  BY DEF history, Kill, files
<1>2. FilesSound' /\ FilesOK'
  BY <1>1, FilesStay DEF Inv
<1>3. ProcsSound' /\ Stacked'
  BY <1>1, EmptySeq DEF ProcsSound, Stacked, Is
<1> QED BY <1>2, <1>3 DEF Inv

----------------------------------------------------------------------------
(* Every step keeps the invariant and is one of ProgramBuild or none.       *)
LEMMA StepInv == Inv /\ [Next]_vars => Inv' /\ [Build!Next]_<<src, dirty, torn, exe>>
<1> SUFFICES ASSUME Inv, [Next]_vars PROVE Inv' /\ [Build!Next]_<<src, dirty, torn, exe>>
  OBVIOUS
<1>1. CASE Tick
  BY <1>1, TickInv DEF history, Tick, files
<1>2. CASE \E m \in Programs : Start(m)
  BY <1>2, StartInv DEF history, Start, Build!Next, Build!Other
<1>3. CASE \E m \in Module : \E s \in Variants[m] : Edit(m, s)
  BY <1>3, EditInv DEF Edit, Build!Next, Build!Other
<1>4. CASE ReadSource
  BY <1>4, ReadSourceInv DEF history, ReadSource, files
<1>5. CASE CheckImport
  BY <1>5, CheckImportInv DEF history, CheckImport, files
<1>6. CASE Resume
  BY <1>6, ResumeInv DEF history, Resume, files
<1>7. CASE AddTransitiveImports
  BY <1>7, AddTransitiveInv DEF history, AddTransitiveImports, files
<1>8. CASE OpenGct \/ CloseGct
  BY <1>8, OpenGctInv, CloseGctInv DEF OpenGct, CloseGct, Build!Next, Build!Other
<1>9. CASE CompileC
  BY <1>9, CompileCInv DEF history, CompileC
<1>10. CASE Link
  BY <1>10, LinkBuilds DEF Build!Next, Build!Other
<1>11. CASE Fail
  BY <1>11, FailInv DEF history, Fail, files
<1>12. CASE Kill
  BY <1>12, KillInv DEF history, Kill, files
<1>13. CASE UNCHANGED vars
  <2>1. FilesOK' /\ FilesSound' /\ OthersStay
    BY <1>13, FilesStay DEF history, Inv, vars, files, FilesOK, OthersStay
  <2>2. ProcsSound' /\ Stacked'
    BY <1>13 DEF history, Inv, vars, files, ProcsSound, Stacked, Sound, Complete, Made,
      Listed, Checking, Checked, Unseen, Direct, Is, Top
  <2> QED BY <2>1, <2>2, <1>13 DEF history, Inv, vars, files
<1> QED BY <1>1, <1>2, <1>3, <1>4, <1>5, <1>6, <1>7, <1>8, <1>9, <1>10, <1>11, <1>12, <1>13
     DEF Next

THEOREM SpecInv == Spec => []Inv
<1>1. Inv /\ [Next]_vars => Inv'
  BY StepInv
<1> QED BY <1>1, InitInv, PTL DEF Spec

(* No file is from the future, and no compilation puts the module itself on *)
(* the list of what it needs.                                               *)
THEOREM TypesHold == Spec => []TypeOK
<1>1. Inv => TypeOK
  <2> SUFFICES ASSUME Inv PROVE TypeOK
    OBVIOUS
  <2>1. \A k \in DOMAIN procs : procs[k].mod \notin procs[k].imports
    BY LenProperties DEF Inv, ProcsSound, Sound
  <2> QED BY <2>1 DEF Inv, FilesOK, ProcsSound, TypeOK
<1> QED BY <1>1, SpecInv, PTL

(* Old and new files do not mix: what the code of an up-to-date module      *)
(* calls is on its list, whenever compilations were killed, unless one was  *)
(* killed while it wrote that list of a module that was up to date (torn).  *)
THEOREM GctMatchesHolds == Spec => []GctMatches
<1>1. Inv => GctMatches
  BY DEF Inv, FilesSound, Complete, Made, Listed, GctMatches
<1> QED BY <1>1, SpecInv, PTL

(* The time stamps are enough: compiling links the sources as they are, and *)
(* no cycle of imports unless the .gct file of a module in it is torn.      *)
THEOREM BuildsAreRight == Spec => IsBuild
<1>1. Init => Build!Init
  BY DEF Init, Build!Init
<1>2. Inv /\ [Next]_vars => [Build!Next]_<<src, dirty, torn, exe>>
  BY StepInv
<1> QED BY <1>1, <1>2, SpecInv, PTL DEF Spec, IsBuild, Build!Spec
=============================================================================
