---------------------------- MODULE ObjectProofs ----------------------------
(***************************************************************************)
(* Objects that inherit behave as wholes: those of JavaScript, in every    *)
(* program that JsRequests runs, which this module extends, and native     *)
(* ones, instance O.  In JavaScript each activation has saved the          *)
(* superDepth of what it stands on, so that whatever is left of the stack  *)
(* finds its own again, unless an exception goes on to unwind it; and the  *)
(* globals that redirect a request are only ever left behind by an         *)
(* exception, whose handler clears them.  The invariant of native objects  *)
(* says that chains end, that every part has the data array of its class,  *)
(* that an object under construction shares no part with another one, and  *)
(* that the constructors under way have saved what they replaced in        *)
(* data[0]; what requests do to chains is shown, part by part, to be what  *)
(* ObjectSpec says.                                                        *)
(***************************************************************************)
EXTENDS JsRequests, SequenceTheorems, NaturalsInduction, WellFoundedInduction, TLAPS

CONSTANTS
  Addr, DEFAULT, NULL, Class, Parent, NativeDefines, MaxNesting   \* of native objects

VARIABLES obj, data, building, known, answer                      \* likewise

O == INSTANCE ObjectChain WITH Defines <- NativeDefines

----------------------------------------------------------------------------
(* Programs in JavaScript.                                                  *)

\* What super leads to was there before what inherits it.
InheritanceEnds ==
  \E age \in [Part -> Nat] : \A p \in Part : Super[p] # NONE => age[Super[p]] < age[p]

Depth  == Part \cup {BLOCK, NONE}
Number == Nat \cup {NONE}

Exception ==
  {e \in [exctype : {"return"}, target : Number, home : Number] : e.target = e.home} \cup {Error}

Block ==
  {b \in [receiver : Object, target : Number, home : Number, typed : BOOLEAN] :
     b.target = b.home}

Active ==
  {f \in [kind : Code \cup {"match"}, self : Object \cup {BLOCK}, depth : Depth, orig : Depth,
          target : Number, home : Number, asked : Object \cup {BLOCK},
          name : Name \cup {NONE}, inside : BOOLEAN] :
     /\ f.target = f.home
     /\ f.kind # "match" => f.self \in Object
     /\ f.kind = "method" => f.self = f.asked /\ (f.name \in Confidential => f.inside)}

Trial ==
  [kind : {"try"}, stage : {"body", "case", "finally"}, case : Block,
   fin : Block \cup {NONE}, pending : Exception \cup {NONE}]

Frame == Active \cup Trial

\* What superDepth should be when frame k of s is the last one.
DepthAt(s, k) == IF s[k].kind = "try" THEN s[k - 1].depth ELSE s[k].depth

StandsOn(f, s, k) ==
  /\ f.kind \in FrameKind
  /\ f.kind \in {"try", "init"} => s[k].kind \in Code
  /\ f.kind # "try" => f.orig = DepthAt(s, k)

Piled(s) ==
  /\ s \in Seq(Frame) /\ Len(s) >= 1 /\ s[1] = Main
  /\ \A k \in 2 .. Len(s) : StandsOn(s[k], s, k - 1)

Handling ==
  (flying = NONE \/ Top.kind = "try") => superDepth = DepthAt(stack, Len(stack))

Types ==
  /\ superDepth \in Depth /\ overrideReceiver \in Object \cup {BLOCK, NONE}
  /\ onSelf \in BOOLEAN /\ serial \in Nat /\ invocationCount = serial
  /\ flying \in Exception \cup {NONE} /\ blocks \subseteq Block

IInv ==
  /\ Piled(stack) /\ Types /\ Handling
  /\ overrideReceiver # NONE \/ onSelf => flying = Error

----------------------------------------------------------------------------
(* Which method a request finds.                                            *)
Finds(m, f) ==
  f = [p \in Part |-> IF m \in Defines[p] THEN p
                      ELSE IF Super[p] = NONE THEN NONE ELSE f[Super[p]]]

LEMMA YoungestFirst ==
  ASSUME NEW age \in [Part -> Nat], NEW T, T \subseteq Part, T # {}
  PROVE  \E p \in T : \A q \in T : age[p] <= age[q]
<1> DEFINE ages == {age[p] : p \in T}
<1>1. ages \subseteq Nat /\ ages # {}
  OBVIOUS
<1>2. PICK x \in ages : \A y \in ages : <<y, x>> \notin OpToRel(<, Nat)
  BY <1>1, NatLessThanWellFounded, WFMin
<1>3. \A y \in ages : ~ (y < x) /\ y \in Nat /\ x \in Nat
  BY <1>1, <1>2 DEF OpToRel
<1>4. PICK p \in T : x = age[p]
  OBVIOUS
<1>5. \A q \in T : age[q] \in ages
  OBVIOUS
<1> HIDE DEF ages
<1>6. \A q \in T : x <= age[q]
  BY <1>3, <1>5
<1> QED BY <1>4, <1>6

\* The recursion of Found is well founded: the first of the ancestors that define m.
LEMMA SearchExists ==
  ASSUME ConstantsOK, InheritanceEnds, NEW m
  PROVE  \E f : Finds(m, f)
<1>1. PICK age \in [Part -> Nat] : \A p \in Part : Super[p] # NONE => age[Super[p]] < age[p]
  BY DEF InheritanceEnds
<1>2. \A p \in Part : Super[p] \in Part \cup {NONE}
  BY DEF ConstantsOK
<1> DEFINE Closed(S) == \A q \in S : Super[q] # NONE => Super[q] \in S
           Up(p) == {q \in Part : \A S \in SUBSET Part : p \in S /\ Closed(S) => q \in S}
           Has(p) == {q \in Up(p) : m \in Defines[q]}
           First(p) == CHOOSE q \in Has(p) : \A r \in Has(p) : age[r] <= age[q]
           f == [p \in Part |-> IF Has(p) = {} THEN NONE ELSE First(p)]
<1>3. ASSUME NEW p \in Part
      PROVE  p \in Up(p) /\ \A q \in Up(p) : q \in Part /\ age[q] <= age[p]
  <2>1. p \in Up(p)
    OBVIOUS
  <2> DEFINE S == {q \in Part : age[q] <= age[p]}
  <2>2. S \in SUBSET Part /\ p \in S
    OBVIOUS
  <2>3. Closed(S)
    <3>1. ASSUME NEW q \in S, Super[q] # NONE PROVE Super[q] \in S
      <4>1. Super[q] \in Part /\ age[Super[q]] < age[q] /\ age[q] <= age[p]
        BY <3>1, <1>1, <1>2
      <4>2. age[Super[q]] \in Nat /\ age[q] \in Nat /\ age[p] \in Nat
        BY <4>1
      <4> QED BY <4>1, <4>2
    <3> QED BY <3>1
  <2>4. Up(p) \subseteq S
    <3> HIDE DEF S, Closed
    <3> QED BY <2>2, <2>3
  <2> QED BY <2>1, <2>4
<1>4. ASSUME NEW p \in Part, Super[p] # NONE
      PROVE  \A q : q \in Up(p) <=> q = p \/ q \in Up(Super[p])
  <2>1. Super[p] \in Part
    BY <1>2, <1>4
  <2>2. ASSUME NEW q \in Up(Super[p]) PROVE q \in Up(p)
    <3>1. ASSUME NEW S \in SUBSET Part, p \in S, Closed(S) PROVE Super[p] \in S
      BY <3>1, <1>4
    <3> QED BY <3>1, <2>2
  <2>3. ASSUME NEW q \in Up(p), q # p PROVE q \in Up(Super[p])
    <3>1. ASSUME NEW S \in SUBSET Part, Super[p] \in S, Closed(S) PROVE q \in S
      <4>1. S \cup {p} \in SUBSET Part /\ p \in S \cup {p} /\ Closed(S \cup {p})
        BY <3>1
      <4>2. q \in S \cup {p}
        <5> HIDE DEF Closed
        <5> QED BY <4>1, <2>3
      <4> QED BY <4>2, <2>3
    <3> QED BY <3>1, <2>3
  <2>4. p \in Up(p)
    BY <1>3
  <2> QED BY <2>2, <2>3, <2>4
<1>5. ASSUME NEW p \in Part, Super[p] = NONE
      PROVE  \A q : q \in Up(p) <=> q = p
  <2>1. {p} \in SUBSET Part /\ Closed({p})
    BY <1>5
  <2> QED BY <2>1, <1>3
<1> HIDE DEF Up, Closed
<1>6. ASSUME NEW p \in Part
      PROVE  f[p] = IF m \in Defines[p] THEN p
                    ELSE IF Super[p] = NONE THEN NONE ELSE f[Super[p]]
  <2>1. CASE m \in Defines[p]
    <3>1. p \in Has(p) /\ \A r \in Has(p) : r \in Part /\ age[r] <= age[p]
      BY <2>1, <1>3
    <3>2. \A q \in Has(p) : (\A r \in Has(p) : age[r] <= age[q]) => q = p
      <4>1. ASSUME NEW q \in Has(p), \A r \in Has(p) : age[r] <= age[q] PROVE q = p
        <5>1. age[p] <= age[q] /\ q \in Up(p) /\ q \in Part /\ age[p] \in Nat /\ age[q] \in Nat
          BY <4>1, <3>1
        <5>2. CASE Super[p] = NONE
          BY <5>1, <5>2, <1>5
        <5>3. CASE Super[p] # NONE /\ q # p
          <6>1. q \in Up(Super[p]) /\ Super[p] \in Part
            BY <5>1, <5>3, <1>2, <1>4
          <6>2. age[q] <= age[Super[p]] /\ age[Super[p]] < age[p] /\ age[Super[p]] \in Nat
            BY <6>1, <5>3, <1>1, <1>3
          <6> QED BY <6>2, <5>1
        <5> QED BY <5>2, <5>3
      <4> QED BY <4>1
    <3>3. First(p) = p
      <4> HIDE DEF Has
      <4> QED BY <3>1, <3>2
    <3>4. Has(p) # {}
      BY <3>1
    <3> HIDE DEF First, Has
    <3> QED BY <3>3, <3>4, <2>1
  <2>2. CASE m \notin Defines[p] /\ Super[p] = NONE
    <3>1. Has(p) = {}
      BY <2>2, <1>5
    <3> HIDE DEF First, Has
    <3> QED BY <3>1, <2>2
  <2>3. CASE m \notin Defines[p] /\ Super[p] # NONE
    <3>1. Has(p) = Has(Super[p]) /\ Super[p] \in Part
      BY <2>3, <1>2, <1>4
    <3>2. First(p) = First(Super[p])
      BY <3>1
    <3> HIDE DEF First, Has
    <3> QED BY <3>1, <3>2, <2>3
  <2> QED BY <2>1, <2>2, <2>3
<1>7. f = [p \in Part |-> f[p]]
  OBVIOUS
<1> HIDE DEF f
<1>8. Finds(m, f)
  BY <1>6, <1>7 DEF Finds
<1> QED BY <1>8

LEMMA FoundType ==
  ASSUME ConstantsOK, InheritanceEnds, NEW o, NEW m
  PROVE  Found(o, m) \in Part \cup {NONE}
<1>1. PICK age \in [Part -> Nat] : \A p \in Part : Super[p] # NONE => age[Super[p]] < age[p]
  BY DEF InheritanceEnds
<1> DEFINE from == CHOOSE f : Finds(m, f)
<1>2. Finds(m, from)
  BY SearchExists
<1>3. from = [p \in Part |-> IF m \in Defines[p] THEN p
                             ELSE IF Super[p] = NONE THEN NONE ELSE from[Super[p]]]
  <2> HIDE DEF from
  <2> QED BY <1>2 DEF Finds
<1>4. Found(o, m) = IF o \in Part THEN from[o] ELSE NONE
  BY DEF Found, Finds
<1> HIDE DEF from
<1> DEFINE wrong == {p \in Part : from[p] \notin Part \cup {NONE}}
<1>5. wrong = {}
  <2>1. SUFFICES ASSUME wrong # {} PROVE FALSE
    OBVIOUS
  <2>2. PICK p \in wrong : \A q \in wrong : age[p] <= age[q]
    BY <2>1, YoungestFirst
  <2>3. from[p] = IF m \in Defines[p] THEN p ELSE IF Super[p] = NONE THEN NONE ELSE from[Super[p]]
    BY <1>3
  <2>4. Super[p] # NONE /\ from[Super[p]] \notin Part \cup {NONE} /\ Super[p] \in Part
    BY <2>3 DEF ConstantsOK
  <2>5. age[Super[p]] < age[p] /\ age[Super[p]] \in Nat /\ age[p] \in Nat /\ age[p] <= age[Super[p]]
    BY <2>2, <2>4, <1>1
  <2> QED BY <2>5
<1> QED BY <1>4, <1>5

----------------------------------------------------------------------------
(* Stacks: pushing and popping activations.                                 *)

\* What stands on a frame depends only on that frame and those below it.
LEMMA BelowAgrees ==
  ASSUME NEW s, NEW t, NEW k \in Nat \ {0}, s[1] = Main, \A j \in 1 .. k : t[j] = s[j]
  PROVE  /\ DepthAt(t, k) = DepthAt(s, k)
         /\ \A f : StandsOn(f, s, k) => StandsOn(f, t, k)
<1>1. t[k] = s[k]
  OBVIOUS
<1>2. DepthAt(t, k) = DepthAt(s, k)
  <2>1. CASE s[k].kind = "try"
    <3>1. Main.kind = "module"
      BY DEF Main, Activation
    <3>2. k # 1
      BY <2>1, <3>1
    <3>3. t[k - 1] = s[k - 1]
      BY <3>2
    <3> QED BY <1>1, <3>3 DEF DepthAt
  <2>2. CASE s[k].kind # "try"
    BY <1>1, <2>2 DEF DepthAt
  <2> QED BY <2>1, <2>2
<1> QED BY <1>1, <1>2 DEF StandsOn

LEMMA Pushed ==
  ASSUME NEW s, Piled(s), NEW f \in Frame, StandsOn(f, s, Len(s))
  PROVE  LET t == Append(s, f)
         IN  /\ Piled(t) /\ Len(t) = Len(s) + 1 /\ t[Len(t)] = f
             /\ \A k \in 1 .. Len(s) : t[k] = s[k]
<1> DEFINE t == Append(s, f)
<1>1. s \in Seq(Frame) /\ Len(s) \in Nat \ {0} /\ s[1] = Main
  BY DEF Piled
<1>2. t \in Seq(Frame) /\ Len(t) = Len(s) + 1 /\ t[Len(s) + 1] = f
      /\ \A k \in 1 .. Len(s) : t[k] = s[k]
  BY <1>1, AppendProperties
<1> HIDE DEF t
<1>3. ASSUME NEW k \in 2 .. Len(t) PROVE StandsOn(t[k], t, k - 1)
  <2>1. k - 1 \in Nat \ {0} /\ k - 1 <= Len(s) /\ \A j \in 1 .. k - 1 : t[j] = s[j]
    BY <1>1, <1>2
  <2>2. StandsOn(t[k], s, k - 1)
    <3>1. CASE k = Len(s) + 1
      BY <3>1, <1>2, <1>1
    <3>2. CASE k <= Len(s)
      <4>1. t[k] = s[k]
        BY <3>2, <1>2
      <4> QED BY <3>2, <4>1 DEF Piled
    <3> QED BY <3>1, <3>2, <1>1, <1>2
  <2> QED BY <2>1, <2>2, <1>1, BelowAgrees
<1>4. t[1] = Main
  BY <1>1, <1>2
<1>5. Piled(t)
  BY <1>1, <1>2, <1>3, <1>4 DEF Piled
<1> QED BY <1>2, <1>5 DEF t

LEMMA Popped ==
  ASSUME NEW s, Piled(s), Len(s) > 1
  PROVE  LET t == SubSeq(s, 1, Len(s) - 1)
         IN  /\ Piled(t) /\ Len(t) = Len(s) - 1
             /\ \A k \in 1 .. Len(t) : t[k] = s[k]
             /\ DepthAt(t, Len(t)) = DepthAt(s, Len(s) - 1)
             /\ \A f : StandsOn(f, s, Len(s) - 1) => StandsOn(f, t, Len(t))
<1> DEFINE t == SubSeq(s, 1, Len(s) - 1)
<1>1. s \in Seq(Frame) /\ Len(s) \in Nat \ {0} /\ s[1] = Main
  BY DEF Piled
<1>2. t \in Seq(Frame) /\ Len(t) = Len(s) - 1 /\ \A k \in 1 .. Len(t) : t[k] = s[k]
  BY <1>1, SubSeqProperties
<1> HIDE DEF t
<1>3. ASSUME NEW k \in 2 .. Len(t) PROVE StandsOn(t[k], t, k - 1)
  <2>1. k - 1 \in Nat \ {0} /\ \A j \in 1 .. k - 1 : t[j] = s[j]
    BY <1>1, <1>2
  <2>2. t[k] = s[k] /\ k \in 2 .. Len(s)
    BY <1>1, <1>2
  <2>3. StandsOn(t[k], s, k - 1)
    BY <2>2 DEF Piled
  <2> QED BY <2>1, <2>3, <1>1, BelowAgrees
<1>4. t[1] = Main
  BY <1>1, <1>2
<1>5. Piled(t)
  BY <1>1, <1>2, <1>3, <1>4 DEF Piled
<1>6. Len(t) \in Nat \ {0} /\ \A k \in 1 .. Len(t) : t[k] = s[k]
  BY <1>1, <1>2
<1>7. DepthAt(t, Len(t)) = DepthAt(s, Len(t)) /\ \A f : StandsOn(f, s, Len(t)) => StandsOn(f, t, Len(t))
  BY <1>6, <1>1, BelowAgrees
<1> QED BY <1>2, <1>5, <1>7 DEF t

\* The frames of a stack, and what the last of them stands on.
LEMMA LastFrame ==
  ASSUME NEW s, Piled(s)
  PROVE  /\ Len(s) \in Nat \ {0} /\ \A k \in 1 .. Len(s) : s[k] \in Frame
         /\ s[Len(s)] \in Frame
         /\ s[Len(s)].kind \in Code \cup {"match"} => s[Len(s)] \in Active
         /\ s[Len(s)].kind = "try" => Len(s) > 1 /\ s[Len(s)] \in Trial
         /\ Len(s) > 1 => StandsOn(s[Len(s)], s, Len(s) - 1)
<1>1. s \in Seq(Frame) /\ Len(s) \in Nat \ {0} /\ s[1] = Main
  BY DEF Piled
<1>2. \A k \in 1 .. Len(s) : s[k] \in Frame
  BY <1>1
<1>3. s[Len(s)] \in Frame
  BY <1>1, <1>2
<1>4. \A f \in Trial : f.kind = "try"
  BY DEF Trial
<1>5. \A f \in Active : f.kind \in Code \cup {"match"}
  BY DEF Active
<1>6. "try" \notin Code \cup {"match"}
  BY DEF Code
<1>7. s[Len(s)].kind \in Code \cup {"match"} => s[Len(s)] \in Active
  BY <1>3, <1>4, <1>6 DEF Frame
<1>8. s[Len(s)].kind = "try" => s[Len(s)] \in Trial
  BY <1>3, <1>5, <1>6 DEF Frame
<1>9. s[Len(s)].kind = "try" => Len(s) > 1
  <2>1. Main.kind = "module"
    BY DEF Main, Activation
  <2> QED BY <1>1, <2>1
<1>10. Len(s) > 1 => StandsOn(s[Len(s)], s, Len(s) - 1)
  BY <1>1 DEF Piled
<1> QED BY <1>1, <1>2, <1>3, <1>7, <1>8, <1>9, <1>10

\* Fields of the activations of code.
LEMMA ActiveFields ==
  ASSUME NEW f \in Active
  PROVE  /\ f.kind \in Code \cup {"match"} /\ f.self \in Object \cup {BLOCK}
         /\ f.depth \in Depth /\ f.orig \in Depth /\ f.target \in Number /\ f.target = f.home
         /\ f.kind # "match" => f.self \in Object
         /\ f.kind = "method" => f.self = f.asked /\ (f.name \in Confidential => f.inside)
BY DEF Active

\* Activations that are not methods.
LEMMA ActivationType ==
  ASSUME ConstantsOK, NEW kind \in (Code \cup {"match"}) \ {"method"}, NEW self \in Object \cup {BLOCK},
         kind # "match" => self \in Object,
         NEW depth \in Depth, NEW orig \in Depth, NEW n \in Number
  PROVE  LET f == Activation(kind, self, depth, orig, n, n)
         IN  f \in Active /\ f.kind = kind /\ f.depth = depth /\ f.orig = orig
BY DEF Activation, Active

----------------------------------------------------------------------------
(* The invariant, one lemma for each thing that steps do.                   *)
USE DEF globals

\* Main, the frame of a program.
LEMMA MainIsActive ==
  ASSUME ConstantsOK
  PROVE  /\ Main \in Frame /\ Main.kind = "module" /\ Main.depth = Module /\ Main.target = NONE
         /\ Piled(<<Main>>) /\ Len(<<Main>>) = 1 /\ <<Main>>[1] = Main
<1>1. Module \in Object /\ Module \in Depth /\ NONE \in Number
  BY DEF ConstantsOK, Depth, Number
<1>2. "module" \in (Code \cup {"match"}) \ {"method"}
  BY DEF Code
<1>3. Main \in Active /\ Main.kind = "module" /\ Main.depth = Module
  BY <1>1, <1>2, ActivationType DEF Main
<1>4. Main.target = NONE
  BY DEF Main, Activation
<1>5. <<Main>> \in Seq(Frame) /\ <<Main>>[1] = Main
  BY <1>3 DEF Frame
<1>6. Len(<<Main>>) = 1
  OBVIOUS
<1>7. Piled(<<Main>>)
  BY <1>5, <1>6 DEF Piled
<1> QED BY <1>3, <1>4, <1>5, <1>6, <1>7 DEF Frame

LEMMA InitHolds ==
  ASSUME ConstantsOK, Init
  PROVE  IInv
<1>1. Piled(stack) /\ Len(stack) = 1 /\ Top = Main
  BY MainIsActive DEF Init, Top
<1>2. Types
  BY DEF Init, Types, Depth, ConstantsOK
<1>3. Handling
  BY <1>1, MainIsActive DEF Init, Handling, DepthAt, Top
<1> QED BY <1>1, <1>2, <1>3 DEF IInv, Init

\* A step of code, or of the native function on top.
LEMMA AtTop ==
  ASSUME ConstantsOK, IInv
  PROVE  /\ Len(stack) \in Nat \ {0}
         /\ Runs => /\ Top \in Active /\ Top.kind \in Code /\ Top.self \in Object
                    /\ Top.depth = superDepth /\ Top.target = Top.home /\ Top.target \in Number
                    /\ DepthAt(stack, Len(stack)) = superDepth
                    /\ flying = NONE /\ overrideReceiver = NONE /\ onSelf = FALSE
         /\ Top.kind = "try" => Top \in Trial /\ Len(stack) > 1
<1>1. Piled(stack) /\ Types /\ Handling /\ (overrideReceiver # NONE \/ onSelf => flying = Error)
  BY DEF IInv
<1>2. Len(stack) \in Nat \ {0} /\ (Top.kind = "try" => Top \in Trial /\ Len(stack) > 1)
      /\ (Top.kind \in Code => Top \in Active)
  BY <1>1, LastFrame DEF Top
<1>3. ASSUME Runs
      PROVE  /\ Top \in Active /\ Top.kind \in Code /\ Top.self \in Object
             /\ Top.depth = superDepth /\ Top.target = Top.home /\ Top.target \in Number
             /\ DepthAt(stack, Len(stack)) = superDepth
             /\ flying = NONE /\ overrideReceiver = NONE /\ onSelf = FALSE
  <2>1. Top.kind \in Code /\ flying = NONE
    BY <1>3 DEF Runs
  <2>2. "match" \notin Code /\ "try" \notin Code
    BY DEF Code
  <2>3. Top \in Active /\ Top.self \in Object /\ Top.target = Top.home /\ Top.target \in Number
    BY <1>2, <2>1, <2>2, ActiveFields
  <2>4. DepthAt(stack, Len(stack)) = Top.depth
    BY <2>1, <2>2 DEF DepthAt, Top
  <2>5. superDepth = DepthAt(stack, Len(stack))
    BY <2>1, <1>1 DEF Handling
  <2>6. onSelf \in BOOLEAN /\ Error # NONE
    BY <1>1 DEF Types, ConstantsOK
  <2>7. overrideReceiver = NONE /\ onSelf = FALSE
    BY <2>1, <2>6, <1>1
  <2> QED BY <2>1, <2>3, <2>4, <2>5, <2>7
<1> QED BY <1>2, <1>3

\* A block written in the code that runs.
LEMMA LiteralType ==
  ASSUME ConstantsOK, IInv, Runs, NEW typed \in BOOLEAN
  PROVE  Literal(typed) \in Block
BY AtTop DEF Literal, Block

\* A request that finds its method, and one that does not.
LEMMA RequestStep ==
  ASSUME ConstantsOK, InheritanceEnds, IInv, Runs, NEW o \in Part \cup {NONE}, NEW m \in Name,
         NEW override \in Object \cup {NONE}, NEW self \in BOOLEAN, NEW asked \in Object,
         NEW inside \in BOOLEAN,
         (IF override = NONE THEN o ELSE override) = asked, self => inside,
         callmethod(o, m, override, self, asked, inside)
  PROVE  IInv'
<1> DEFINE part  == Found(o, m)
           entry == Activation("method", asked, part, superDepth, invocationCount, serial)
           f     == [entry EXCEPT !.asked = asked, !.name = m, !.inside = inside]
<1>1. part \in Part \cup {NONE}
  BY FoundType
<1>2. Piled(stack) /\ Types /\ Handling
  BY DEF IInv
<1>3. /\ Len(stack) \in Nat \ {0} /\ Top.kind \in Code /\ Top.depth = superDepth
      /\ DepthAt(stack, Len(stack)) = superDepth /\ flying = NONE
  BY AtTop
<1> HIDE DEF part
<1>4. CASE part = NONE \/ (m \in Confidential /\ ~ self)
  <2>1. /\ superDepth' \in Depth /\ overrideReceiver' = override /\ onSelf' = self
        /\ flying' = Error /\ UNCHANGED <<stack, invocationCount, blocks, serial>>
    BY <1>1, <1>4 DEF callmethod, part, Depth
  <2>2. Types'
    <3>1. Types
      BY <1>2
    <3> QED BY <2>1, <3>1 DEF Types, Exception
  <2>3. Handling'
    <3>1. flying' # NONE /\ Top' = Top
      BY <2>1 DEF ConstantsOK, Top
    <3>2. Top.kind # "try"
      BY <1>3 DEF Code
    <3> QED BY <3>1, <3>2 DEF Handling
  <2> QED BY <2>1, <2>2, <2>3, <1>2 DEF IInv
<1>5. CASE part # NONE /\ (m \in Confidential => self)
  <2>1. /\ superDepth' = part /\ overrideReceiver' = NONE /\ onSelf' = FALSE
        /\ stack' = Append(stack, f) /\ invocationCount' = invocationCount + 1
        /\ serial' = serial + 1 /\ UNCHANGED <<flying, blocks>>
    <3>1. ~ (Found(o, m) = NONE \/ (m \in Confidential /\ ~ self))
      BY <1>5 DEF part
    <3>2. Activation("method", IF override = NONE THEN o ELSE override, Found(o, m),
                     superDepth, invocationCount, serial) = entry
      BY DEF part
    <3>3. f = [Activation("method", IF override = NONE THEN o ELSE override, Found(o, m),
                     superDepth, invocationCount, serial)
                EXCEPT !.asked = asked, !.name = m, !.inside = inside]
      BY <3>2
    <3> HIDE DEF f
    <3> QED BY <3>1, <3>3 DEF callmethod, part
  <2>2. /\ part \in Depth /\ superDepth \in Depth /\ invocationCount \in Number
        /\ serial \in Number /\ invocationCount = serial /\ "method" \in Code /\ serial \in Nat
    BY <1>1, <1>2 DEF Types, Depth, Number, Code
  <2>3. f = [kind |-> "method", self |-> asked, depth |-> part, orig |-> superDepth,
             target |-> invocationCount, home |-> serial, asked |-> asked, name |-> m,
             inside |-> inside]
    <3>1. entry = [kind |-> "method", self |-> asked, depth |-> part, orig |-> superDepth,
                   target |-> invocationCount, home |-> serial, asked |-> asked, name |-> NONE,
                   inside |-> TRUE]
      BY DEF Activation
    <3>2. f = [entry EXCEPT !.asked = asked, !.name = m, !.inside = inside]
      OBVIOUS
    <3> HIDE DEF f, entry
    <3> QED BY <3>1, <3>2
  <2>4. f \in Active /\ f.kind = "method" /\ f.depth = part /\ f.orig = superDepth
    <3> HIDE DEF f
    <3>1. f.kind = "method" /\ f.self = asked /\ f.asked = asked /\ f.name = m
          /\ f.inside = inside /\ f.target = f.home /\ f.depth = part /\ f.orig = superDepth
      BY <2>3, <2>2
    <3>2. f \in [kind : Code \cup {"match"}, self : Object \cup {BLOCK}, depth : Depth, orig : Depth,
          target : Number, home : Number, asked : Object \cup {BLOCK},
          name : Name \cup {NONE}, inside : BOOLEAN]
      BY <2>2, <2>3
    <3>3. f.name \in Confidential => f.inside
      BY <3>1, <1>5
    <3> QED BY <3>1, <3>2, <3>3 DEF Active
  <2> HIDE DEF f
  <2>5. StandsOn(f, stack, Len(stack))
    BY <2>4, <1>3 DEF StandsOn, FrameKind
  <2>6. Piled(stack') /\ Len(stack') = Len(stack) + 1 /\ stack'[Len(stack')] = f
    <3>1. f \in Frame
      BY <2>4 DEF Frame
    <3>2. PICK s : s = stack
      OBVIOUS
    <3>3. PICK g : g = f
      OBVIOUS
    <3>4. Piled(s) /\ g \in Frame /\ StandsOn(g, s, Len(s))
      BY <3>1, <3>2, <3>3, <2>5, <1>2
    <3>5. stack' = Append(s, g)
      BY <3>2, <3>3, <2>1
    <3>6. Piled(Append(s, g)) /\ Len(Append(s, g)) = Len(s) + 1 /\ Append(s, g)[Len(Append(s, g))] = g
      BY <3>4, Pushed
    <3> QED BY <3>2, <3>3, <3>5, <3>6
  <2>7. Types'
    <3>1. Types
      BY <1>2
    <3>2. serial' \in Nat /\ invocationCount' = serial'
      BY <2>1, <2>2
    <3> QED BY <2>1, <2>2, <3>1, <3>2 DEF Types
  <2>8. Handling'
    BY <2>1, <2>4, <2>6 DEF Handling, DepthAt
  <2> QED BY <2>1, <2>6, <2>7, <2>8 DEF IInv
<1> QED BY <1>4, <1>5

\* A block is applied on callers, which find their superDepth again when it is done.
LEMMA BodyType ==
  ASSUME ConstantsOK, NEW b \in Block, NEW orig \in Depth, NEW depth \in Depth
  PROVE  LET f == Body(b, orig, depth)
         IN  f \in Frame /\ f.kind = "block" /\ f.depth = depth /\ f.orig = orig
<1>1. b.receiver \in Object /\ b.target \in Number /\ b.home = b.target
  BY DEF Block
<1>2. "block" \in (Code \cup {"match"}) \ {"method"} /\ "block" # "match"
  BY DEF Code
<1> QED BY <1>1, <1>2, ActivationType DEF Body, Frame

LEMMA Misdirects ==
  ASSUME ConstantsOK, NEW callers, Piled(callers), superDepth = DepthAt(callers, Len(callers)),
         Types, UNCHANGED <<invocationCount, blocks, serial>>,
         stack' = callers, overrideReceiver' = NONE, onSelf' = FALSE, UNCHANGED superDepth,
         flying' \in {NONE, Error}
  PROVE  IInv'
<1>1. Types'
  BY DEF Types, Exception
<1>2. Piled(stack)' /\ Handling'
  BY DEF Handling
<1> QED BY <1>1, <1>2 DEF IInv

LEMMA ApplyStep ==
  ASSUME ConstantsOK, NEW callers, Piled(callers), superDepth = DepthAt(callers, Len(callers)),
         Types, NEW b \in Block, callapply(callers, b)
  PROVE  IInv'
<1>1. UNCHANGED <<invocationCount, blocks, serial>>
  BY DEF callapply
<1>2. CASE overrideReceiver # NONE
  BY <1>1, <1>2, Misdirects DEF callapply, Misdirected
<1>3. CASE overrideReceiver = NONE /\ stack' = callers
  <2>1. Len(callers) \in Nat
    BY DEF Piled
  <2>2. b \in Block /\ callers \in Seq(Frame)
    BY DEF Piled
  <2>3. \A f : Append(callers, f) # callers
    BY <2>1, <2>2
  <2>4. flying' = Error /\ UNCHANGED superDepth /\ onSelf' = FALSE /\ overrideReceiver' = NONE
    BY <1>3, <2>3 DEF callapply
  <2> QED BY <1>1, <1>3, <2>4, Misdirects
<1>4. CASE overrideReceiver = NONE /\ stack' # callers
  <2>1. /\ stack' = Append(callers, Body(b, superDepth, b.receiver))
        /\ superDepth' = b.receiver /\ flying' = NONE /\ onSelf' = FALSE /\ overrideReceiver' = NONE
    BY <1>4 DEF callapply
  <2>2. PICK f : f = Body(b, superDepth, b.receiver)
    OBVIOUS
  <2>3. superDepth \in Depth /\ b.receiver \in Depth
    BY DEF Types, Block, Depth, ConstantsOK
  <2>4. f \in Frame /\ f.kind = "block" /\ f.depth = b.receiver /\ f.orig = superDepth
    BY <2>2, <2>3, BodyType
  <2>5. StandsOn(f, callers, Len(callers))
    BY <2>4 DEF StandsOn, FrameKind
  <2>6. Piled(stack)' /\ stack'[Len(stack')] = f
    <3>1. stack' = Append(callers, f)
      BY <2>1, <2>2
    <3>2. Piled(Append(callers, f)) /\ Append(callers, f)[Len(Append(callers, f))] = f
      BY <2>4, <2>5, Pushed
    <3> QED BY <3>1, <3>2
  <2>7. Types'
    BY <1>1, <2>1, <2>3 DEF Types
  <2>8. Handling'
    BY <2>1, <2>4, <2>6 DEF Handling, DepthAt
  <2> QED BY <2>1, <2>6, <2>7, <2>8 DEF IInv
<1> QED BY <1>2, <1>3, <1>4

LEMMA MatchStep ==
  ASSUME ConstantsOK, NEW callers, Piled(callers), superDepth = DepthAt(callers, Len(callers)),
         Types, NEW b \in Block, NEW otherwise \in {NONE, Error},
         callmatch(callers, b, otherwise)
  PROVE  IInv'
<1> DEFINE depth == IF b.typed THEN BLOCK ELSE b.receiver
           matching == Activation("match", BLOCK, BLOCK, superDepth, NONE, NONE)
<1>1. UNCHANGED <<invocationCount, blocks, serial>>
  BY DEF callmatch
<1>2. CASE overrideReceiver # NONE
  BY <1>1, <1>2, Misdirects DEF callmatch, Misdirected
<1>3. CASE /\ overrideReceiver = NONE
           /\ stack' = callers /\ flying' = otherwise /\ UNCHANGED superDepth
           /\ onSelf' = FALSE /\ overrideReceiver' = NONE
  BY <1>1, <1>3, Misdirects
<1>4. CASE /\ overrideReceiver = NONE
           /\ stack' = callers \o <<matching, Body(b, BLOCK, depth)>>
           /\ superDepth' = depth /\ flying' = NONE
           /\ onSelf' = FALSE /\ overrideReceiver' = NONE
  <2>1. superDepth \in Depth /\ depth \in Depth /\ BLOCK \in Depth /\ NONE \in Number
    BY DEF Types, Block, Depth, ConstantsOK, Number
  <2>2. PICK f : f = matching
    OBVIOUS
  <2>3. PICK g : g = Body(b, BLOCK, depth)
    OBVIOUS
  <2>4. f \in Frame /\ f.kind = "match" /\ f.depth = BLOCK /\ f.orig = superDepth
    <3>1. "match" \in (Code \cup {"match"}) \ {"method"}
      OBVIOUS
    <3>2. BLOCK \in Object \cup {BLOCK}
      OBVIOUS
    <3>3. matching \in Active /\ matching.kind = "match" /\ matching.depth = BLOCK
          /\ matching.orig = superDepth
      BY ONLY <2>1, <3>1, <3>2, ConstantsOK, ActivationType
    <3> HIDE DEF matching
    <3> QED BY <2>2, <3>3 DEF Frame
  <2>5. g \in Frame /\ g.kind = "block" /\ g.depth = depth /\ g.orig = BLOCK
    <3> HIDE DEF depth
    <3> QED BY <2>1, <2>3, BodyType
  <2> HIDE DEF depth, matching
  <2>6. StandsOn(f, callers, Len(callers))
    BY <2>4 DEF StandsOn, FrameKind
  <2> DEFINE half == Append(callers, f)
  <2>7. Piled(half) /\ half[Len(half)] = f
    BY <2>4, <2>6, Pushed
  <2>8. StandsOn(g, half, Len(half))
    BY <2>4, <2>5, <2>7 DEF StandsOn, FrameKind, DepthAt
  <2>9. Piled(Append(half, g)) /\ Append(half, g)[Len(Append(half, g))] = g
    <3> HIDE DEF half
    <3> QED BY <2>5, <2>7, <2>8, Pushed
  <2>10. stack' = Append(half, g)
    <3>1. callers \in Seq(Frame)
      BY DEF Piled
    <3>2. callers \o <<f, g>> = Append(Append(callers, f), g)
      BY <3>1, <2>4, <2>5
    <3> QED BY <3>2, <1>4, <2>2, <2>3
  <2>11. Piled(stack)' /\ stack'[Len(stack')] = g
    BY <2>9, <2>10
  <2>12. Types'
    BY <1>1, <1>4, <2>1 DEF Types
  <2>13. Handling'
    BY <1>4, <2>5, <2>11 DEF Handling, DepthAt
  <2> QED BY <1>4, <2>11, <2>12, <2>13 DEF IInv
<1> HIDE DEF depth, matching
<1>5. CASE overrideReceiver = NONE
  <2>1. \/ stack' = callers \o <<matching, Body(b, BLOCK, depth)>> /\ superDepth' = depth /\ flying' = NONE
        \/ stack' = callers /\ flying' = otherwise /\ UNCHANGED superDepth
    BY <1>5 DEF callmatch, depth, matching
  <2>2. onSelf' = FALSE /\ overrideReceiver' = NONE
    BY <1>5 DEF callmatch
  <2> QED BY <1>3, <1>4, <1>5, <2>1, <2>2
<1> QED BY <1>2, <1>5

\* What the last activation stands on.
LEMMA AtPop ==
  ASSUME ConstantsOK, IInv, Len(stack) > 1
  PROVE  /\ Piled(Callers) /\ Len(Callers) = Len(stack) - 1 /\ Len(Callers) \in Nat \ {0}
         /\ Top.kind \in FrameKind
         /\ Top.kind # "try" => Top.orig = DepthAt(Callers, Len(Callers)) /\ Top.orig \in Depth
         /\ Top.kind \in {"try", "init"} => Callers[Len(Callers)].kind \in Code
         /\ Top.kind = "try" => superDepth = DepthAt(Callers, Len(Callers))
<1>1. Piled(stack)
  BY DEF IInv
<1>2. PICK s : s = stack
  OBVIOUS
<1>3. PICK t : t = Callers
  OBVIOUS
<1>4. Piled(s) /\ Len(s) > 1 /\ t = SubSeq(s, 1, Len(s) - 1)
  BY <1>1, <1>2, <1>3 DEF Callers
<1>5. /\ Piled(t) /\ Len(t) = Len(s) - 1 /\ \A k \in 1 .. Len(t) : t[k] = s[k]
      /\ DepthAt(t, Len(t)) = DepthAt(s, Len(s) - 1)
  BY <1>4, Popped
<1>6. Len(t) \in Nat \ {0} /\ Len(s) \in Nat \ {0}
  BY <1>4, <1>5 DEF Piled
<1>7. StandsOn(s[Len(s)], s, Len(s) - 1) /\ s[Len(s)] \in Frame
  BY <1>4, LastFrame
<1>8. Top = s[Len(s)]
  BY <1>2 DEF Top
<1>9. t[Len(t)] = s[Len(s) - 1]
  BY <1>5, <1>6
<1>10. Top.kind \in {"try", "init"} => t[Len(t)].kind \in Code
  BY <1>7, <1>8, <1>9 DEF StandsOn
<1>11. Top.kind # "try" => Top.orig = DepthAt(t, Len(t)) /\ Top.orig \in Depth
  <2>1. ASSUME Top.kind # "try" PROVE Top.orig = DepthAt(t, Len(t)) /\ Top.orig \in Depth
    <3>1. Top \in Active
      BY <2>1, <1>7, <1>8 DEF Frame, Trial
    <3>2. Top.orig \in Depth
      BY <3>1, ActiveFields
    <3>3. Top.orig = DepthAt(s, Len(s) - 1)
      BY <2>1, <1>7, <1>8 DEF StandsOn
    <3> QED BY <3>2, <3>3, <1>5
  <2> QED BY <2>1
<1>12. Top.kind = "try" => superDepth = DepthAt(t, Len(t))
  <2>1. ASSUME Top.kind = "try" PROVE superDepth = DepthAt(t, Len(t))
    <3>1. superDepth = DepthAt(s, Len(s))
      BY <2>1, <1>2 DEF IInv, Handling
    <3>2. superDepth = t[Len(t)].depth
      BY <3>1, <2>1, <1>8, <1>9 DEF DepthAt
    <3>3. t[Len(t)].kind # "try"
      BY <2>1, <1>10 DEF Code
    <3> QED BY <3>2, <3>3 DEF DepthAt
  <2> QED BY <2>1
<1>13. Top.kind \in FrameKind
  BY <1>7, <1>8 DEF StandsOn
<1> QED BY <1>2, <1>3, <1>5, <1>6, <1>10, <1>11, <1>12, <1>13

\* Activations of code end, by returning or by an exception.
LEMMA PopStep ==
  ASSUME ConstantsOK, IInv, Len(stack) > 1, stack' = Callers,
         superDepth' \in Depth,
         flying' = NONE \/ Callers[Len(Callers)].kind = "try"
           => superDepth' = DepthAt(Callers, Len(Callers)),
         flying' \in Exception \cup {NONE}, flying' # flying => flying # Error,
         UNCHANGED <<overrideReceiver, onSelf, invocationCount, blocks, serial>>
  PROVE  IInv'
<1>1. Piled(Callers)
  BY AtPop
<1>2. Types /\ (overrideReceiver # NONE \/ onSelf => flying = Error)
  BY DEF IInv
<1>3. Piled(stack)' /\ Top' = Callers[Len(Callers)]
  BY <1>1 DEF Top
<1>4. Handling'
  BY <1>3 DEF Handling
<1>5. Types'
  BY <1>2 DEF Types
<1>6. overrideReceiver' # NONE \/ onSelf' => flying' = Error
  BY <1>2
<1> QED BY <1>3, <1>4, <1>5, <1>6 DEF IInv

LEMMA ReturnsStep ==
  ASSUME ConstantsOK, IInv, Return \/ CatchReturn \/ Unwind
  PROVE  IInv'
<1> USE DEF Return, CatchReturn, Unwind
<1>1. Len(stack) > 1 /\ stack' = Callers
      /\ UNCHANGED <<overrideReceiver, onSelf, invocationCount, blocks, serial>>
  OBVIOUS
<1>2. Types /\ Error # NONE /\ Error.exctype # "return" /\ NONE \in Depth
  BY DEF IInv, ConstantsOK, Error, Depth
<1>3. CASE Return \/ CatchReturn
  <2>1. Top.kind # "try" /\ superDepth' = Top.orig /\ flying' = NONE /\ flying # Error
    BY <1>2, <1>3 DEF Runs, Native, Caught, Code
  <2>2. superDepth' = DepthAt(Callers, Len(Callers)) /\ superDepth' \in Depth
    BY <2>1, <1>1, AtPop
  <2> QED BY <1>1, <2>1, <2>2, PopStep
<1>4. CASE Unwind
  <2>1. Top.kind # "try" /\ flying' = flying /\ flying # NONE
        /\ superDepth' = IF Top.kind = "init" THEN superDepth ELSE Top.orig
    BY <1>4
  <2>2. superDepth' \in Depth
    <3>1. superDepth \in Depth
      BY <1>2 DEF Types
    <3> QED BY <3>1, <2>1, <1>1, AtPop
  <2>3. Callers[Len(Callers)].kind = "try" => superDepth' = DepthAt(Callers, Len(Callers))
    <3>1. CASE Top.kind = "init"
      <4>1. Callers[Len(Callers)].kind \in Code
        BY <3>1, <1>1, AtPop
      <4> QED BY <4>1 DEF Code
    <3>2. CASE Top.kind # "init"
      BY <3>2, <2>1, <1>1, AtPop
    <3> QED BY <3>1, <3>2
  <2>4. flying' \in Exception \cup {NONE}
    BY <1>2, <2>1 DEF Types
  <2> QED BY <1>1, <2>1, <2>2, <2>3, <2>4, PopStep
<1> QED BY <1>3, <1>4

LEMMA ThrowStep ==
  ASSUME ConstantsOK, IInv, Raise \/ ReturnFromBlock
  PROVE  IInv'
<1>1. Runs
  BY DEF Raise, ReturnFromBlock
<1>2. superDepth = DepthAt(stack, Len(stack)) /\ Top.target = Top.home /\ Top.target \in Number
      /\ overrideReceiver = NONE /\ onSelf = FALSE
  BY <1>1, AtTop
<1>3. flying' \in Exception
  <2>1. CASE Raise
    BY <2>1 DEF Raise, Throw, Exception
  <2>2. CASE ReturnFromBlock
    <3>1. flying' = [exctype |-> "return", target |-> Top.target, home |-> Top.home]
      BY <2>2 DEF ReturnFromBlock, Throw
    <3> QED BY <3>1, <1>2 DEF Exception
  <2> QED BY <2>1, <2>2
<1>4. UNCHANGED <<stack, superDepth, overrideReceiver, onSelf, invocationCount, blocks, serial>>
  BY DEF Raise, ReturnFromBlock, Throw
<1>5. Handling'
  BY <1>2, <1>4 DEF Handling
<1>6. Types'
  BY <1>3, <1>4 DEF IInv, Types
<1> QED BY <1>2, <1>4, <1>5, <1>6 DEF IInv

LEMMA ConstructStep ==
  ASSUME ConstantsOK, IInv, NEW o \in Object, Construct(o)
  PROVE  IInv'
<1>1. Runs /\ superDepth' = o
      /\ UNCHANGED <<overrideReceiver, onSelf, invocationCount, flying, blocks, serial>>
  BY DEF Construct
<1>2. PICK f : f = Activation("init", o, o, superDepth, Top.target, Top.home)
  OBVIOUS
<1>3. PICK s : s = stack
  OBVIOUS
<1>4. Piled(s) /\ s[Len(s)].kind \in Code /\ DepthAt(s, Len(s)) = superDepth
      /\ Top.target = Top.home /\ Top.target \in Number /\ superDepth \in Depth
  BY <1>1, <1>3, AtTop DEF IInv, Top, Types
<1>5. f \in Frame /\ f.kind = "init" /\ f.depth = o /\ f.orig = superDepth
  <2>1. "init" \in (Code \cup {"match"}) \ {"method"} /\ o \in Depth
    BY DEF Code, Depth, ConstantsOK
  <2> QED BY <2>1, <1>2, <1>4, ActivationType DEF Frame
<1>6. StandsOn(f, s, Len(s))
  BY <1>4, <1>5 DEF StandsOn, FrameKind
<1>7. Piled(Append(s, f)) /\ Append(s, f)[Len(Append(s, f))] = f
  BY <1>4, <1>5, <1>6, Pushed
<1>8. stack' = Append(s, f)
  BY <1>2, <1>3 DEF Construct
<1>9. Piled(stack)' /\ stack'[Len(stack')] = f
  BY <1>7, <1>8
<1>10. Types'
  BY <1>1 DEF IInv, Types, Depth, ConstantsOK
<1>11. Handling'
  BY <1>1, <1>5, <1>9 DEF Handling, DepthAt
<1> QED BY <1>1, <1>9, <1>10, <1>11 DEF IInv

LEMMA KeepStep ==
  ASSUME ConstantsOK, IInv, NEW typed \in BOOLEAN, Keep(typed)
  PROVE  IInv'
<1>1. Literal(typed) \in Block
  BY LiteralType DEF Keep
<1>2. UNCHANGED <<stack, globals, serial>> /\ blocks' = blocks \cup {Literal(typed)}
  BY DEF Keep
<1>3. Types'
  BY <1>1, <1>2 DEF IInv, Types
<1>4. Handling'
  BY <1>2 DEF IInv, Handling, Top
<1> QED BY <1>2, <1>3, <1>4 DEF IInv

LEMMA RequestsStep ==
  ASSUME ConstantsOK, InheritanceEnds, IInv, NEW m \in Name,
         RequestSelf(m) \/ RequestSuper(m) \/ \E o \in Object : RequestOther(o, m)
  PROVE  IInv'
<1>1. Runs
  BY DEF RequestSelf, RequestSuper, RequestOther
<1>2. Top.self \in Object /\ overrideReceiver = NONE /\ onSelf = FALSE
  BY <1>1, AtTop
<1>3. Object \subseteq Part /\ NONE \notin Object
  BY DEF ConstantsOK
<1>4. PICK top : top = Top.self
  OBVIOUS
<1>5. PICK over : over = overrideReceiver
  OBVIOUS
<1>6. PICK on : on = onSelf
  OBVIOUS
<1>7. CASE RequestSelf(m)
  <2>1. callmethod(top, m, over, TRUE, top, TRUE)
    BY <1>7, <1>4, <1>5 DEF RequestSelf
  <2> QED BY <2>1, <1>1, <1>2, <1>3, <1>4, <1>5, RequestStep
<1>8. CASE RequestSuper(m)
  <2>1. PICK o : o = IF superDepth \in Part THEN Super[superDepth] ELSE NONE
    OBVIOUS
  <2>2. o \in Part \cup {NONE}
    BY <2>1 DEF ConstantsOK
  <2>3. callmethod(o, m, top, TRUE, top, TRUE)
    BY <1>8, <2>1, <1>4 DEF RequestSuper
  <2> QED BY <2>2, <2>3, <1>1, <1>2, <1>3, <1>4, RequestStep
<1>9. CASE \E o \in Object : RequestOther(o, m)
  <2>1. PICK o \in Object : RequestOther(o, m)
    BY <1>9
  <2>2. callmethod(o, m, over, on, o, FALSE)
    BY <2>1, <1>5, <1>6 DEF RequestOther
  <2> QED BY <2>2, <1>1, <1>2, <1>3, <1>5, <1>6, RequestStep
<1> QED BY <1>7, <1>8, <1>9

LEMMA BlocksStep ==
  ASSUME ConstantsOK, IInv, NEW b \in Block, Apply(b) \/ Match(b)
  PROVE  IInv'
<1>1. Runs
  BY DEF Apply, Match
<1>2. PICK s : s = stack
  OBVIOUS
<1>3. Piled(s) /\ superDepth = DepthAt(s, Len(s)) /\ Types
  BY <1>1, <1>2, AtTop DEF IInv
<1>4. CASE Apply(b)
  <2>1. callapply(s, b)
    BY <1>4, <1>2 DEF Apply
  <2> QED BY <2>1, <1>3, ApplyStep
<1>5. CASE Match(b)
  <2>1. callmatch(s, b, NONE)
    BY <1>5, <1>2 DEF Match
  <2> QED BY <2>1, <1>3, MatchStep
<1> QED BY <1>4, <1>5

\* A try on a stack whose last frame is code that runs, or on which one stood.
LEMMA TrialPushed ==
  ASSUME ConstantsOK, NEW s, Piled(s), s[Len(s)].kind \in Code, NEW f \in Trial
  PROVE  LET t == Append(s, f)
         IN  Piled(t) /\ t[Len(t)] = f /\ DepthAt(t, Len(t)) = DepthAt(s, Len(s))
<1>1. f \in Frame /\ f.kind = "try"
  BY DEF Frame, Trial
<1>2. StandsOn(f, s, Len(s))
  BY <1>1 DEF StandsOn, FrameKind
<1> DEFINE t == Append(s, f)
<1>3. Piled(t) /\ Len(t) = Len(s) + 1 /\ t[Len(t)] = f /\ \A k \in 1 .. Len(s) : t[k] = s[k]
  BY <1>1, <1>2, Pushed
<1> HIDE DEF t
<1>4. Len(s) \in Nat \ {0}
  BY DEF Piled
<1>5. t[Len(t) - 1] = s[Len(s)]
  BY <1>3, <1>4
<1>6. DepthAt(s, Len(s)) = s[Len(s)].depth
  BY DEF DepthAt, Code
<1>7. DepthAt(t, Len(t)) = DepthAt(s, Len(s))
  BY <1>1, <1>3, <1>5, <1>6 DEF DepthAt
<1> QED BY <1>3, <1>7 DEF t

LEMMA TryStep ==
  ASSUME ConstantsOK, IInv, NEW typed \in BOOLEAN, NEW fin \in BOOLEAN, Try(typed, fin)
  PROVE  IInv'
<1>1. Runs
  BY DEF Try
<1>2. PICK s : s = stack
  OBVIOUS
<1>3. Piled(s) /\ superDepth = DepthAt(s, Len(s)) /\ Types /\ s[Len(s)].kind \in Code
  BY <1>1, <1>2, AtTop DEF IInv, Top
<1>4. PICK f : f = [kind |-> "try", stage |-> "body", case |-> Literal(typed),
                    fin |-> IF fin THEN Literal(FALSE) ELSE NONE, pending |-> NONE]
  OBVIOUS
<1>5. PICK b : b = Literal(FALSE)
  OBVIOUS
<1>6. f \in Trial /\ b \in Block
  BY <1>1, <1>4, <1>5, LiteralType DEF Trial
<1>7. callapply(Append(s, f), b)
  BY <1>2, <1>4, <1>5 DEF Try
<1>8. Piled(Append(s, f)) /\ superDepth = DepthAt(Append(s, f), Len(Append(s, f)))
  BY <1>3, <1>6, TrialPushed
<1> QED BY <1>3, <1>6, <1>7, <1>8, ApplyStep

\* The stages of a try.
LEMMA TrialStep ==
  ASSUME ConstantsOK, IInv, TryCase \/ TryFinally \/ TryEnds
  PROVE  IInv'
<1>1. Top.kind = "try" /\ Top \in Trial /\ Len(stack) > 1
  <2>1. Top.kind = "try"
    BY DEF TryCase, TryFinally, TryEnds, Trying
  <2> QED BY <2>1, AtTop
<1>2. PICK s : s = Callers
  OBVIOUS
<1>3. Piled(s) /\ s[Len(s)].kind \in Code /\ superDepth = DepthAt(s, Len(s))
  BY <1>1, <1>2, AtPop
<1>4. Types /\ superDepth \in Depth /\ flying \in Exception \cup {NONE}
  BY DEF IInv, Types
<1>5. CASE TryCase
  <2>1. PICK f : f = [Top EXCEPT !.stage = "case"]
    OBVIOUS
  <2>2. PICK b : b = Top.case
    OBVIOUS
  <2>3. f \in Trial /\ b \in Block
    BY <1>1, <2>1, <2>2 DEF Trial
  <2>4. callmatch(Append(s, f), b, Error)
    BY <1>5, <1>2, <2>1, <2>2 DEF TryCase
  <2>5. Piled(Append(s, f)) /\ superDepth = DepthAt(Append(s, f), Len(Append(s, f)))
    BY <1>3, <2>3, TrialPushed
  <2> QED BY <1>4, <2>3, <2>4, <2>5, MatchStep
<1>6. CASE TryFinally /\ Top.fin # NONE
  <2>1. PICK f : f = [Top EXCEPT !.stage = "finally", !.pending = flying]
    OBVIOUS
  <2>2. PICK b : b = Top.fin
    OBVIOUS
  <2>3. f \in Trial /\ b \in Block
    <3>1. Top.fin \in Block \cup {NONE}
      BY <1>1 DEF Trial
    <3>2. f \in Trial
      BY <1>1, <1>4, <2>1 DEF Trial
    <3> QED BY <3>1, <3>2, <2>2, <1>6
  <2>4. callapply(Append(s, f), b)
    BY <1>6, <1>2, <2>1, <2>2 DEF TryFinally
  <2>5. Piled(Append(s, f)) /\ superDepth = DepthAt(Append(s, f), Len(Append(s, f)))
    BY <1>3, <2>3, TrialPushed
  <2> QED BY <1>4, <2>3, <2>4, <2>5, ApplyStep
<1>7. CASE TryFinally /\ Top.fin = NONE
  <2>1. stack' = Callers /\ UNCHANGED <<globals, blocks, serial>>
    BY <1>7 DEF TryFinally
  <2>2. superDepth' = DepthAt(Callers, Len(Callers))
    BY <1>2, <1>3, <2>1
  <2> QED BY <1>1, <1>4, <2>1, <2>2, PopStep
<1>8. CASE TryEnds
  <2>1. stack' = Callers /\ flying' = (IF flying = NONE THEN Top.pending ELSE flying)
        /\ UNCHANGED <<superDepth, overrideReceiver, onSelf, invocationCount, blocks, serial>>
    BY <1>8 DEF TryEnds
  <2>2. superDepth' = DepthAt(Callers, Len(Callers))
    BY <1>2, <1>3, <2>1
  <2>3. flying' \in Exception \cup {NONE}
    BY <1>1, <1>4, <2>1 DEF Trial
  <2>4. flying' # flying => flying # Error
    BY <2>1 DEF ConstantsOK
  <2> QED BY <1>1, <1>4, <2>1, <2>2, <2>3, <2>4, PopStep
<1> QED BY <1>5, <1>6, <1>7, <1>8

LEMMA NextProgramStep ==
  ASSUME ConstantsOK, IInv, NextProgram
  PROVE  IInv'
<1>1. Piled(stack') /\ Len(stack') = 1 /\ Top' = Main
  BY MainIsActive DEF NextProgram, Top
<1>2. Types'
  BY DEF NextProgram, Types, Depth, ConstantsOK
<1>3. Handling'
  BY <1>1, MainIsActive DEF NextProgram, Handling, DepthAt, Top
<1> QED BY <1>1, <1>2, <1>3 DEF IInv, NextProgram

LEMMA NextHolds ==
  ASSUME ConstantsOK, InheritanceEnds, IInv, [Next]_vars
  PROVE  IInv'
<1>1. CASE UNCHANGED vars
  <2>1. Types' /\ Handling'
    BY <1>1 DEF vars, IInv, Types, Handling, Top
  <2> QED BY <1>1, <2>1 DEF vars, IInv
<1>2. ASSUME NEW m \in Name, RequestSelf(m) \/ RequestSuper(m) \/ \E o \in Object : RequestOther(o, m)
      PROVE  IInv'
  BY <1>2, RequestsStep
<1>3. ASSUME NEW b \in blocks, Apply(b) \/ Match(b) PROVE IInv'
  <2>1. b \in Block
    BY DEF IInv, Types
  <2> QED BY <1>3, <2>1, BlocksStep
<1>4. ASSUME NEW typed \in BOOLEAN, Keep(typed) \/ Match(Literal(typed)) PROVE IInv'
  <2>1. CASE Keep(typed)
    BY <2>1, KeepStep
  <2>2. CASE Match(Literal(typed))
    <3>1. PICK b : b = Literal(typed)
      OBVIOUS
    <3>2. Literal(typed) \in Block
      BY <2>2, LiteralType DEF Match
    <3>3. Match(b)
      BY <2>2, <3>1
    <3> QED BY <3>1, <3>2, <3>3, BlocksStep
  <2> QED BY <1>4, <2>1, <2>2
<1>5. ASSUME NEW o \in Object \ {Module}, Construct(o) PROVE IInv'
  BY <1>5, ConstructStep
<1>6. ASSUME NEW typed \in BOOLEAN, NEW fin \in BOOLEAN, Try(typed, fin) PROVE IInv'
  BY <1>6, TryStep
<1> QED BY <1>1, <1>2, <1>3, <1>4, <1>5, <1>6,
           ReturnsStep, ThrowStep, TrialStep, NextProgramStep DEF Next

----------------------------------------------------------------------------
(* The theorems.                                                            *)

\* In every state each activation has saved what it stands on, and the globals
\* that redirect a request are set only while an error unwinds the stack.
THEOREM Invariance ==
  ASSUME ConstantsOK, InheritanceEnds
  PROVE  Spec => []IInv
<1>1. Init => IInv
  BY InitHolds
<1>2. IInv /\ [Next]_vars => IInv'
  BY NextHolds
<1> QED BY <1>1, <1>2, PTL DEF Spec

\* The globals that pass a request's meaning beside JavaScript's stack (superDepth,
\* overrideReceiver, onSelf, invocationCount) have values of their types.
THEOREM TypeCorrect ==
  ASSUME ConstantsOK, InheritanceEnds
  PROVE  Spec => []TypeOK
<1>1. IInv => TypeOK
  <2>1. SUFFICES ASSUME IInv PROVE TypeOK
    OBVIOUS
  <2>2. Piled(stack) /\ Types
    BY <2>1 DEF IInv
  <2>3. \A k \in 2 .. Len(stack) : stack[k].kind \in FrameKind
    BY <2>2 DEF Piled, StandsOn
  <2>4. \A e \in Exception : e.exctype \in {"graceexception", "return"}
    BY DEF Exception, Error
  <2> QED BY <2>2, <2>3, <2>4 DEF TypeOK, Types, Piled, Depth
<1> QED BY <1>1, Invariance, PTL

\* Whatever exceptions were thrown and caught below it, a method or constructor that
\* runs finds its own part of the object in superDepth; and self of every method is who
\* was asked, by self or super if the method is confidential.
THEOREM SelfIsAsked ==
  ASSUME ConstantsOK, InheritanceEnds
  PROVE  Spec => []SelfAndSuper
<1>1. IInv => SelfAndSuper
  <2>1. SUFFICES ASSUME IInv PROVE SelfAndSuper
    OBVIOUS
  <2>2. Runs => superDepth = Top.depth
    BY <2>1, AtTop
  <2>3. ASSUME NEW k \in DOMAIN stack, stack[k].kind = "method"
        PROVE  stack[k].self = stack[k].asked /\ (stack[k].name \in Confidential => stack[k].inside)
    <3>1. stack[k] \in Frame
      BY <2>1 DEF IInv, Piled
    <3>2. stack[k] \in Active
      BY <3>1, <2>3 DEF Frame, Trial
    <3>3. PICK f : f = stack[k]
      OBVIOUS
    <3>4. f.self = f.asked /\ (f.name \in Confidential => f.inside)
      BY <3>2, <3>3, <2>3, ActiveFields
    <3> QED BY <3>3, <3>4
  <2> QED BY <2>2, <2>3 DEF SelfAndSuper
<1> QED BY <1>1, Invariance, PTL

\* A return in a block is caught by the activation of the method that the block was
\* written in, never by another one, not even of the same method: the number that the
\* exception carries (invocationCount) names one activation.
THEOREM ReturnsGoHome ==
  ASSUME ConstantsOK, InheritanceEnds
  PROVE  Spec => ReturnGoesHome
<1>1. IInv /\ [Next]_vars => [ReturnGoesHomeStep]_vars
  <2>1. SUFFICES ASSUME IInv, CatchReturn PROVE flying.home = Top.home
    BY DEF ReturnGoesHomeStep
  <2>2. flying # NONE /\ flying.exctype = "return" /\ Top.kind = "method" /\ Top.target = flying.target
    BY <2>1 DEF CatchReturn, Caught
  <2>3. flying \in Exception /\ flying # Error
    BY <2>1, <2>2 DEF IInv, Types, Error
  <2>4. flying.target = flying.home
    BY <2>3 DEF Exception
  <2>5. Piled(stack)
    BY <2>1 DEF IInv
  <2>6. PICK f : f = Top
    OBVIOUS
  <2>7. f \in Active
    BY <2>2, <2>5, <2>6, LastFrame DEF Top, Code
  <2>8. f.target = f.home
    BY <2>7, ActiveFields
  <2> QED BY <2>2, <2>4, <2>6, <2>8
<1> QED BY <1>1, Invariance, PTL DEF Spec, ReturnGoesHome

LEMMA SetInduction ==
  ASSUME NEW Good, 0 \in Good, \A n \in Nat : n \in Good => n + 1 \in Good
  PROVE  Nat \subseteq Good
<1>1. SUFFICES ASSUME Nat \ Good # {} PROVE FALSE
  OBVIOUS
<1>2. PICK x \in Nat \ Good : \A y \in Nat \ Good : <<y, x>> \notin OpToRel(<, Nat)
  BY <1>1, NatLessThanWellFounded, WFMin
<1>3. x \in Nat /\ x # 0 /\ x - 1 \in Nat /\ x = (x - 1) + 1
  OBVIOUS
<1>4. \A y \in Nat \ Good : ~ (y < x)
  BY <1>2, <1>3 DEF OpToRel
<1>5. x - 1 \in Good
  BY <1>3, <1>4
<1> QED BY <1>1, <1>2, <1>3, <1>5

----------------------------------------------------------------------------
(* Native objects.  One that is under construction has its own data array,  *)
(* and the frames of the constructors that initialise it are one upon the   *)
(* other, so that data[0] is that of the last: each has kept what it        *)
(* replaced.                                                                *)

(* A frame of a constructor whose code runs.                                *)
Constructors ==
  [class : Class, own : Addr, self : Addr, lower : Class, stage : {"init", "inherit"}]

DataArrays ==
  [O!Everything -> [layout : Class \cup {DEFAULT, NULL}, outer : Class \cup {NULL}]]

(* The object that frame f initialises has its own data array, which no     *)
(* request has exchanged.                                                   *)
HasOwn(f) == obj[f.self] = [class |-> obj[f.self].class, super |-> obj[f.self].super,
                            data |-> f.self]

(* An initialiser and the frames upon it have different objects; a frame    *)
(* that inherits and the one upon it have the same.                         *)
Nested(j, k) ==
  /\ building[j].stage = "init" => building[j].self # building[k].self
  /\ (k = j + 1 /\ building[j].stage = "inherit") =>
       building[k].self = building[j].self /\ building[k].lower = building[j].class

(* data[0] of an object is the outer of the last frame that initialises it. *)
OuterIsOwn(k) ==
  (k = Len(building) \/ building[k].stage = "init") =>
     O!Outer(building[k].self) = building[k].class

ChainInv ==
  /\ obj = [o \in O!Everything |-> obj[o]]
  /\ data \in DataArrays
  /\ building \in Seq(Constructors)
  /\ \A k \in 1 .. Len(building) :
       /\ building[k].stage = "inherit" => Parent[building[k].class] \in Class
       /\ HasOwn(building[k])
       /\ OuterIsOwn(k)
  /\ \A j, k \in 1 .. Len(building) : j < k => Nested(j, k)

LEMMA FreshIsUnused ==
  ASSUME NEW n, O!Room(n)
  PROVE  O!Fresh(n) \in [1 .. n -> O!Unused]
  BY DEF O!Room, O!Fresh, O!Places

LEMMA FreshPlace ==
  ASSUME O!ConstantsOK, O!Room(1)
  PROVE  /\ O!Fresh(1)[1] \in Addr /\ obj[O!Fresh(1)[1]] = O!FREE
         /\ \A p \in Addr : obj[p].data = p => p # O!Fresh(1)[1]
<1>1. O!Fresh(1) \in [1 .. 1 -> O!Unused]
  BY FreshIsUnused
<1>2. O!Fresh(1)[1] \in O!Unused
  BY <1>1
<1> QED BY <1>2 DEF O!Unused, O!FREE, O!ConstantsOK

LEMMA AtInit ==
  ASSUME O!ConstantsOK, O!Init
  PROVE  ChainInv
<1>1. obj = [o \in O!Everything |-> obj[o]]
  BY DEF O!Init
<1>2. data \in DataArrays
  BY DEF O!Init, DataArrays
<1>3. building = << >> /\ building \in Seq(Constructors) /\ Len(building) = 0
  BY DEF O!Init
<1> QED BY <1>1, <1>2, <1>3 DEF ChainInv

(* A frame that stays finds its outer as before if nobody writes data[0] of *)
(* its object.                                                              *)
LEMMA Untouched ==
  ASSUME ChainInv, NEW k \in 1 .. Len(building),
         k \in 1 .. Len(building'), building'[k] = building[k],
         HasOwn(building[k])', obj'[building[k].self].data = building[k].self,
         data'[building[k].self].outer = data[building[k].self].outer,
         k = Len(building') => building[k].stage = "init"
  PROVE  OuterIsOwn(k)'
<1>1. HasOwn(building[k]) /\ OuterIsOwn(k)
  BY DEF ChainInv
<1>2. obj[building[k].self].data = building[k].self
  BY <1>1 DEF HasOwn
<1> QED BY <1>1, <1>2 DEF OuterIsOwn, O!Outer

LEMMA AtConstruct ==
  ASSUME O!ConstantsOK, ChainInv, NEW c \in Class, O!Construct(c)
  PROVE  ChainInv'
<1>0. PICK n \in Nat : n = Len(building)
  BY DEF ChainInv
<1>1. PICK o \in Addr, frame \in Constructors :
        /\ obj[o] = O!FREE
        /\ frame.class = c /\ frame.self = o
        /\ frame.stage = "inherit" => Parent[c] # NULL
        /\ obj' = [obj EXCEPT ![o] = [class |-> c, super |-> DEFAULT, data |-> o]]
        /\ data' = [data EXCEPT ![o] = [layout |-> c, outer |-> c]]
        /\ building' = Append(building, frame)
  <2>1. PICK o \in Addr :
          /\ obj[o] = O!FREE
          /\ obj' = [obj EXCEPT ![o] = [class |-> c, super |-> DEFAULT, data |-> o]]
          /\ data' = [data EXCEPT ![o] = [layout |-> c, outer |-> c]]
          /\ building' = Append(building,
               [class |-> c, own |-> o, self |-> o, lower |-> c,
                stage |-> IF Parent[c] = NULL THEN "init" ELSE "inherit"])
    BY FreshPlace DEF O!Construct
  <2> DEFINE frame == [class |-> c, own |-> o, self |-> o, lower |-> c,
                       stage |-> IF Parent[c] = NULL THEN "init" ELSE "inherit"]
  <2>2. frame \in Constructors /\ (frame.stage = "inherit" => Parent[c] # NULL)
    BY DEF Constructors
  <2> QED BY <2>1, <2>2
<1>2. n # 0 => building[n].stage = "init"
  BY <1>0 DEF O!Construct, O!Initialising, O!Top, ChainInv
<1>3. /\ building \in Seq(Constructors) /\ n = Len(building)
      /\ obj = [p \in O!Everything |-> obj[p]] /\ o \in O!Everything
      /\ data \in DataArrays
  BY <1>0 DEF ChainInv, O!Everything
<1>4. /\ building' \in Seq(Constructors) /\ Len(building') = n + 1
      /\ building'[n + 1] = frame
      /\ \A k \in 1 .. n : building'[k] = building[k] /\ building[k] \in Constructors
  BY <1>1, <1>3
<1>5. obj' = [p \in O!Everything |-> obj'[p]]
  BY <1>1, <1>3
<1>6. data' \in DataArrays
  BY <1>1, <1>3 DEF DataArrays
<1>7. ASSUME NEW k \in 1 .. n
      PROVE  /\ building[k].self # o /\ HasOwn(building[k])' /\ OuterIsOwn(k)'
             /\ building[k].stage = "inherit" => Parent[building[k].class] \in Class
  <2>1. HasOwn(building[k]) /\ building[k].self \in Addr
    BY <1>3, <1>4 DEF ChainInv, Constructors
  <2>2. building[k].self # o
    BY <1>1, <2>1 DEF HasOwn, O!FREE, O!ConstantsOK
  <2>3. obj'[building[k].self] = obj[building[k].self]
    BY <1>1, <1>3, <2>1, <2>2 DEF O!Everything
  <2>4. HasOwn(building[k])' /\ obj'[building[k].self].data = building[k].self
    BY <2>1, <2>3, <1>4 DEF HasOwn
  <2>5. data'[building[k].self].outer = data[building[k].self].outer
    BY <1>1, <1>3, <2>1, <2>2 DEF O!Everything
  <2>6. k \in 1 .. Len(building') /\ building'[k] = building[k] /\ k # Len(building')
    BY <1>3, <1>4
  <2>7. OuterIsOwn(k)'
    BY <1>3, <2>4, <2>5, <2>6, Untouched
  <2> QED BY <1>3, <2>2, <2>4, <2>7 DEF ChainInv
<1>8. HasOwn(frame)' /\ OuterIsOwn(n + 1)'
  <2>1. obj'[o] = [class |-> c, super |-> DEFAULT, data |-> o]
    BY <1>1, <1>3
  <2>2. data'[o].outer = c
    BY <1>1, <1>3 DEF DataArrays
  <2> QED BY <1>1, <1>4, <2>1, <2>2 DEF HasOwn, OuterIsOwn, O!Outer
<1>9. frame.stage = "inherit" => Parent[frame.class] \in Class
  BY <1>1 DEF O!ConstantsOK
<1>10. ASSUME NEW j \in 1 .. n + 1, NEW k \in 1 .. n + 1, j < k
       PROVE  Nested(j, k)'
  <2>1. j \in 1 .. n
    BY <1>3, <1>10
  <2>2. CASE k = n + 1
    <3>1. building'[j] = building[j] /\ building[j].self # o /\ building'[k] = frame
      BY <1>4, <1>7, <2>1, <2>2
    <3>2. k = j + 1 => building[j].stage = "init"
      BY <1>2, <1>3, <2>2
    <3> QED BY <1>1, <3>1, <3>2 DEF Nested
  <2>3. CASE k \in 1 .. n
    BY <1>3, <1>4, <1>10, <2>1, <2>3 DEF Nested, ChainInv
  <2> QED BY <1>3, <2>2, <2>3
<1>11. ASSUME NEW k \in 1 .. n + 1
       PROVE  /\ building'[k].stage = "inherit" => Parent[building'[k].class] \in Class
              /\ HasOwn(building[k])' /\ OuterIsOwn(k)'
  <2>1. CASE k = n + 1
    BY <1>4, <1>8, <1>9, <2>1
  <2>2. CASE k \in 1 .. n
    BY <1>4, <1>7, <2>2
  <2> QED BY <1>3, <2>1, <2>2
<1> QED BY <1>4, <1>5, <1>6, <1>10, <1>11 DEF ChainInv

LEMMA AtInherit ==
  ASSUME O!ConstantsOK, ChainInv, O!Inherit
  PROVE  ChainInv'
<1>0. PICK n \in Nat : n = Len(building)
  BY DEF ChainInv
<1> DEFINE top == building[n]
<1>1. /\ building \in Seq(Constructors) /\ n \in 1 .. Len(building)
      /\ obj = [p \in O!Everything |-> obj[p]]
      /\ data \in DataArrays
      /\ O!Top = top /\ top \in Constructors /\ top.stage = "inherit"
      /\ HasOwn(top) /\ OuterIsOwn(n) /\ Parent[top.class] \in Class
  <2>1. building \in Seq(Constructors) /\ n \in 1 .. Len(building) /\ top.stage = "inherit"
    BY <1>0 DEF ChainInv, O!Inherit, O!Top
  <2> QED BY <1>0, <2>1 DEF ChainInv, O!Top
<1>2. obj[top.self].data = top.self /\ O!Outer(top.self) = top.class /\ top.self \in Addr
  BY <1>0, <1>1 DEF HasOwn, OuterIsOwn, Constructors
<1>c. PICK c \in Class : c = Parent[top.class]
  BY <1>1
<1>s. PICK s \in Addr : s = top.self
  BY <1>2
<1>3. PICK p \in Addr, frame \in Constructors :
        /\ obj[p] = O!FREE
        /\ frame.class = c /\ frame.self = s /\ frame.lower = top.class
        /\ frame.stage = "inherit" => Parent[c] # NULL
        /\ obj' = [r \in O!Everything |-> obj'[r]]
        /\ \A r \in Addr \ {p} : obj'[r] = obj[r] \/ obj'[r] = [obj[r] EXCEPT !.super = p]
        /\ data' = [data EXCEPT ![p] = [layout |-> c, outer |-> c], ![s].outer = c]
        /\ building' = Append(building, frame)
  <2>1. PICK p \in Addr :
          /\ obj[p] = O!FREE
          /\ obj' = [obj EXCEPT ![p] = [class |-> c, super |-> DEFAULT, data |-> p],
                                ![O!LastOf(s)].super = p]
          /\ data' = [data EXCEPT ![p] = [layout |-> c, outer |-> c], ![s].outer = c]
          /\ building' = Append(building,
               [class |-> c, own |-> p, self |-> s, lower |-> top.class,
                stage |-> IF Parent[c] = NULL THEN "init" ELSE "inherit"])
    BY <1>1, <1>2, <1>c, <1>s, FreshPlace DEF O!Inherit, O!Part
  <2> DEFINE frame == [class |-> c, own |-> p, self |-> s, lower |-> top.class,
                       stage |-> IF Parent[c] = NULL THEN "init" ELSE "inherit"]
  <2>2. frame \in Constructors /\ (frame.stage = "inherit" => Parent[c] # NULL)
    BY <1>1 DEF Constructors
  <2>3. /\ obj' = [r \in O!Everything |-> obj'[r]]
        /\ \A r \in Addr \ {p} : obj'[r] = obj[r] \/ obj'[r] = [obj[r] EXCEPT !.super = p]
    <3> DEFINE q   == O!LastOf(s)
               mid == [obj EXCEPT ![p] = [class |-> c, super |-> DEFAULT, data |-> p]]
    <3>1. /\ mid = [r \in O!Everything |-> mid[r]]
          /\ \A r \in Addr \ {p} : mid[r] = obj[r]
      BY <1>1 DEF O!Everything
    <3>2. obj' = [mid EXCEPT ![q].super = p]
      BY <2>1
    <3> HIDE DEF mid, q
    <3>3. obj' = [r \in O!Everything |-> IF r = q THEN [mid[r] EXCEPT !.super = p] ELSE mid[r]]
      BY <3>1, <3>2
    <3> QED BY <3>1, <3>3 DEF O!Everything
  <2> QED BY <2>1, <2>2, <2>3
<1>4. /\ building' \in Seq(Constructors) /\ Len(building') = n + 1
      /\ building'[n + 1] = frame
      /\ \A k \in 1 .. n : building'[k] = building[k] /\ building[k] \in Constructors
  BY <1>0, <1>1, <1>3
<1>5. obj' = [r \in O!Everything |-> obj'[r]]
  BY <1>1, <1>3
<1>6. /\ data' \in DataArrays
      /\ \A r \in Addr \ {p, s} : data'[r].outer = data[r].outer
      /\ data'[s].outer = c
  <2> DEFINE mid == [data EXCEPT ![p] = [layout |-> c, outer |-> c]]
  <2>1. /\ mid \in DataArrays
        /\ \A r \in Addr \ {p} : mid[r] = data[r]
    BY <1>1 DEF O!Everything, DataArrays
  <2>2. data' = [mid EXCEPT ![s].outer = c]
    BY <1>3
  <2> HIDE DEF mid
  <2> QED BY <2>1, <2>2 DEF O!Everything, DataArrays
<1>7. ASSUME NEW k \in 1 .. n
      PROVE  /\ HasOwn(building[k])' /\ building[k].self \in Addr \ {p}
             /\ obj'[building[k].self].data = building[k].self
  <2>1. HasOwn(building[k]) /\ building[k].self \in Addr
    BY <1>0, <1>1, <1>4 DEF ChainInv, Constructors
  <2>2. building[k].self # p
    BY <1>3, <2>1 DEF HasOwn, O!FREE, O!ConstantsOK
  <2> DEFINE t == building[k].self
  <2>3. obj'[t] = obj[t] \/ obj'[t] = [obj[t] EXCEPT !.super = p]
    BY <1>1, <1>3, <2>1, <2>2 DEF O!Everything
  <2>4. obj'[t] = [class |-> obj'[t].class, super |-> obj'[t].super, data |-> t]
    BY <2>1, <2>3 DEF HasOwn
  <2>5. building'[k] = building[k]
    BY <1>4
  <2>6. HasOwn(building[k])'
    BY <2>4, <2>5 DEF HasOwn
  <2>7. obj'[t].data = t
    BY <2>4
  <2> QED BY <2>1, <2>2, <2>6, <2>7
<1>8. ASSUME NEW k \in 1 .. n
      PROVE  /\ OuterIsOwn(k)'
             /\ building[k].stage = "inherit" => Parent[building[k].class] \in Class
  <2>1. CASE k = n \/ building[k].stage = "inherit"
    BY <1>0, <1>1, <1>4, <2>1 DEF OuterIsOwn, ChainInv
  <2>2. CASE k # n /\ building[k].stage # "inherit"
    <3>1. building[k].self # top.self
      BY <1>0, <1>1, <1>4, <2>2 DEF ChainInv, Nested, Constructors
    <3>2. data'[building[k].self].outer = data[building[k].self].outer
      BY <1>3, <1>6, <1>7, <1>s, <3>1
    <3>3. k \in 1 .. Len(building') /\ building'[k] = building[k] /\ k # Len(building')
      BY <1>4
    <3> QED BY <1>0, <1>7, <2>2, <3>2, <3>3, Untouched
  <2> QED BY <2>1, <2>2
<1>9. HasOwn(frame)' /\ OuterIsOwn(n + 1)'
  <2>1. building'[n] = top /\ HasOwn(building[n])' /\ obj'[s].data = s
    BY <1>0, <1>1, <1>s, <1>4, <1>7
  <2>2. HasOwn(frame)'
    BY <1>3, <1>s, <2>1 DEF HasOwn
  <2>3. building'[n + 1].self = s /\ building'[n + 1].class = c
    BY <1>3, <1>4
  <2>4. OuterIsOwn(n + 1)'
    BY <1>6, <2>1, <2>3 DEF OuterIsOwn, O!Outer
  <2> QED BY <2>2, <2>4
<1>10. ASSUME NEW j \in 1 .. n + 1, NEW k \in 1 .. n + 1, j < k
       PROVE  Nested(j, k)'
  <2>1. j \in 1 .. n
    BY <1>10
  <2>2. CASE k = n + 1
    <3>1. CASE j = n
      BY <1>1, <1>3, <1>4, <1>s, <2>1, <2>2, <3>1 DEF Nested
    <3>2. CASE j # n
      BY <1>0, <1>1, <1>3, <1>4, <1>s, <2>1, <2>2, <3>2 DEF Nested, ChainInv
    <3> QED BY <3>1, <3>2
  <2>3. CASE k \in 1 .. n
    BY <1>0, <1>4, <1>10, <2>1, <2>3 DEF Nested, ChainInv
  <2> QED BY <2>2, <2>3
<1>11. ASSUME NEW k \in 1 .. n + 1
       PROVE  /\ building'[k].stage = "inherit" => Parent[building'[k].class] \in Class
              /\ HasOwn(building[k])' /\ OuterIsOwn(k)'
  <2>1. CASE k = n + 1
    BY <1>3, <1>4, <1>9, <2>1 DEF O!ConstantsOK
  <2>2. CASE k \in 1 .. n
    BY <1>4, <1>7, <1>8, <2>2
  <2> QED BY <2>1, <2>2
<1> QED BY <1>4, <1>5, <1>6, <1>10, <1>11 DEF ChainInv

LEMMA FinishIs ==
  ASSUME O!ConstantsOK, ChainInv, O!Finish
  PROVE  \E n \in Nat, s \in Addr, own \in Addr :
           /\ n = Len(building) /\ n \in 1 .. Len(building) /\ building[n].stage = "init"
           /\ building[n].self = s /\ building[n].own = own /\ building[n].lower \in Class
           /\ data' = [data EXCEPT ![s].outer = building[n].lower]
           /\ building' \in Seq(Constructors) /\ Len(building') = n - 1
           /\ \A k \in 1 .. n - 1 : building'[k] =
                IF k = n - 1 /\ building[k].stage = "inherit" THEN [building[k] EXCEPT !.stage = "init"]
                ELSE building[k]
           /\ obj' = IF n > 1 /\ building[n - 1].stage = "inherit"
                     THEN [obj EXCEPT ![building[n - 1].own].super = own] ELSE obj
<1>0. PICK n \in Nat : n = Len(building)
  BY DEF ChainInv
<1> DEFINE top == building[n]
           inherited == n > 1 /\ building[n - 1].stage = "inherit"
<1>1. /\ building \in Seq(Constructors) /\ n \in 1 .. Len(building)
      /\ obj = [r \in O!Everything |-> obj[r]]
      /\ data \in DataArrays
      /\ \A k \in 1 .. n : building[k] \in Constructors
  BY <1>0 DEF ChainInv, O!Finish, O!Initialising
<1>s. PICK s \in Addr, own \in Addr :
        s = top.self /\ own = top.own /\ top.lower \in Class /\ top.stage = "init"
  BY <1>0, <1>1 DEF O!Finish, O!Initialising, O!Top, Constructors
<1>2. /\ data' = [data EXCEPT ![s].outer = top.lower]
      /\ building' \in Seq(Constructors) /\ Len(building') = n - 1
      /\ \A k \in 1 .. n - 1 : building'[k] =
           IF k = n - 1 /\ building[k].stage = "inherit" THEN [building[k] EXCEPT !.stage = "init"]
           ELSE building[k]
      /\ obj' = IF inherited THEN [obj EXCEPT ![building[n - 1].own].super = own] ELSE obj
  <2>1. /\ O!Below \in Seq(Constructors) /\ Len(O!Below) = n - 1
        /\ \A k \in 1 .. n - 1 : O!Below[k] = building[k]
        /\ O!Below # << >> <=> n > 1
    <3>1. O!Below = SubSeq(building, 1, n - 1)
      BY <1>0 DEF O!Below
    <3>2. /\ Len(O!Below) = n - 1 /\ \A k \in 1 .. n - 1 : O!Below[k] = building[k]
          /\ O!Below \in Seq(Constructors)
      BY <1>0, <1>1, <3>1
    <3> QED BY <3>2, EmptySeq
  <2>2. obj[s].data = s
    <3>1. HasOwn(top)
      BY <1>0, <1>1 DEF ChainInv
    <3> QED BY <1>s, <3>1 DEF HasOwn
  <2>3. O!Top = top
    BY <1>0 DEF O!Top
  <2>4. /\ data' = [data EXCEPT ![s].outer = top.lower]
        /\ building' = IF inherited THEN [O!Below EXCEPT ![n - 1].stage = "init"] ELSE O!Below
        /\ obj' = IF inherited THEN [obj EXCEPT ![building[n - 1].own].super = own] ELSE obj
    <3>1. O!Below[Len(O!Below)] = building[n - 1] \/ ~ n > 1
      BY <1>1, <2>1
    <3>2. (O!Below # << >> /\ O!Below[Len(O!Below)].stage = "inherit") <=> inherited
      BY <2>1, <3>1
    <3>3. O!Top.own = own /\ O!Top.self = s /\ O!Top.lower = top.lower
      BY <1>s, <2>3
    <3>4. inherited => O!Below[Len(O!Below)].own = building[n - 1].own /\ Len(O!Below) = n - 1
      BY <2>1, <3>1
    <3>5. data' = [data EXCEPT ![s].outer = top.lower]
      BY <2>2, <3>3 DEF O!Finish
    <3>6. building' = IF inherited THEN [O!Below EXCEPT ![Len(O!Below)].stage = "init"] ELSE O!Below
      BY <3>2 DEF O!Finish
    <3>7. obj' = IF inherited THEN [obj EXCEPT ![O!Below[Len(O!Below)].own].super = O!Top.own] ELSE obj
      BY <3>2 DEF O!Finish
    <3> QED BY <3>3, <3>4, <3>5, <3>6, <3>7
  <2>5. CASE inherited
    <3>1. [O!Below[n - 1] EXCEPT !.stage = "init"] \in Constructors
      BY <1>1, <2>1, <2>5 DEF Constructors
    <3>2. building' = [O!Below EXCEPT ![n - 1] = [O!Below[n - 1] EXCEPT !.stage = "init"]]
      BY <2>4, <2>5
    <3>3. n - 1 \in 1 .. Len(O!Below)
      BY <1>1, <2>1, <2>5
    <3>4. building' \in Seq(Constructors) /\ Len(building') = n - 1
      BY <2>1, <3>1, <3>2, <3>3, ExceptSeq
    <3>5. \A k \in 1 .. n - 1 : building'[k] =
             IF k = n - 1 THEN [O!Below[n - 1] EXCEPT !.stage = "init"] ELSE O!Below[k]
      BY <2>1, <3>2, <3>3
    <3> QED BY <2>1, <2>4, <2>5, <3>4, <3>5
  <2>6. CASE ~inherited
    BY <2>1, <2>4, <2>6
  <2> QED BY <2>5, <2>6
<1> QED BY <1>0, <1>1, <1>s, <1>2

LEMMA AtFinish ==
  ASSUME O!ConstantsOK, ChainInv, O!Finish
  PROVE  ChainInv'
<1>0. PICK n \in Nat, s \in Addr, own \in Addr :
        /\ n = Len(building) /\ n \in 1 .. Len(building) /\ building[n].stage = "init"
        /\ building[n].self = s /\ building[n].own = own /\ building[n].lower \in Class
        /\ data' = [data EXCEPT ![s].outer = building[n].lower]
        /\ building' \in Seq(Constructors) /\ Len(building') = n - 1
        /\ \A k \in 1 .. n - 1 : building'[k] =
             IF k = n - 1 /\ building[k].stage = "inherit" THEN [building[k] EXCEPT !.stage = "init"]
             ELSE building[k]
        /\ obj' = IF n > 1 /\ building[n - 1].stage = "inherit"
                  THEN [obj EXCEPT ![building[n - 1].own].super = own] ELSE obj
  BY FinishIs
<1>n. n = Len(building) /\ n \in Nat
  BY <1>0
<1> DEFINE top == building[n]
<1>s. s = top.self /\ own = top.own /\ top.lower \in Class /\ top.stage = "init"
  BY <1>0
<1>1. /\ building \in Seq(Constructors) /\ n \in 1 .. Len(building)
      /\ obj = [r \in O!Everything |-> obj[r]]
      /\ data \in DataArrays
      /\ \A k \in 1 .. n : building[k] \in Constructors
  BY <1>0 DEF ChainInv
<1>2. /\ data' = [data EXCEPT ![s].outer = top.lower]
      /\ building' \in Seq(Constructors) /\ Len(building') = n - 1
      /\ \A k \in 1 .. n - 1 : building'[k] =
           IF k = n - 1 /\ building[k].stage = "inherit" THEN [building[k] EXCEPT !.stage = "init"]
           ELSE building[k]
      /\ obj' = IF n > 1 /\ building[n - 1].stage = "inherit"
                THEN [obj EXCEPT ![building[n - 1].own].super = own] ELSE obj
  BY <1>0
<1>3. obj' = [r \in O!Everything |-> obj'[r]]
  BY <1>1, <1>2
<1>4. /\ data' \in DataArrays
      /\ \A r \in Addr \ {s} : data'[r].outer = data[r].outer
      /\ data'[s].outer = top.lower
  BY <1>1, <1>2, <1>s DEF O!Everything, DataArrays
<1>5. ASSUME NEW k \in 1 .. n - 1
      PROVE  /\ building'[k].self = building[k].self /\ building[k].self \in Addr
             /\ building'[k].class = building[k].class /\ building'[k].lower = building[k].lower
             /\ (k # n - 1 \/ building[k].stage = "init") => building'[k] = building[k]
             /\ k = n - 1 => building'[k].stage = "init"
             /\ HasOwn(building[k])' /\ obj'[building[k].self].data = building[k].self
  <2>1. HasOwn(building[k]) /\ building[k] \in Constructors /\ building[k].self \in Addr
    BY <1>0, <1>1 DEF ChainInv, Constructors
  <2>2. /\ building'[k].self = building[k].self
        /\ building'[k].class = building[k].class /\ building'[k].lower = building[k].lower
        /\ (k # n - 1 \/ building[k].stage = "init") => building'[k] = building[k]
        /\ k = n - 1 => building'[k].stage = "init"
    BY <1>2, <2>1 DEF Constructors
  <2> DEFINE t == building[k].self
  <2>3. obj'[t] = obj[t] \/ obj'[t] = [obj[t] EXCEPT !.super = own]
    BY <1>1, <1>2, <2>1 DEF O!Everything
  <2> QED BY <2>1, <2>2, <2>3 DEF HasOwn
<1>6. ASSUME NEW k \in 1 .. n - 1
      PROVE  OuterIsOwn(k)'
  <2>1. CASE k = n - 1 /\ building[k].stage = "inherit"
    <3>1. building[k].self = s /\ top.lower = building[k].class
      <4>1. Nested(n - 1, n)
        BY <1>0, <1>1 DEF ChainInv
      <4> QED BY <1>s, <2>1, <4>1 DEF Nested
    <3> QED BY <1>2, <1>4, <1>5, <3>1 DEF OuterIsOwn, O!Outer
  <2>2. CASE building[k].stage = "init"
    <3>1. building[k].self # s
      BY <1>0, <1>1, <1>s, <2>2 DEF ChainInv, Nested
    <3>2. data'[building[k].self].outer = data[building[k].self].outer
      BY <1>4, <1>5, <3>1
    <3>3. k \in 1 .. Len(building') /\ building'[k] = building[k] /\ k \in 1 .. Len(building)
      BY <1>0, <1>2, <1>5, <2>2
    <3> QED BY <1>5, <2>2, <3>2, <3>3, Untouched
  <2>3. CASE k # n - 1 /\ building[k].stage # "init"
    BY <1>2, <1>5, <2>3 DEF OuterIsOwn
  <2> QED BY <1>1, <2>1, <2>2, <2>3 DEF Constructors
<1>7. ASSUME NEW k \in 1 .. n - 1
      PROVE  /\ building'[k].stage = "inherit" => Parent[building'[k].class] \in Class
             /\ HasOwn(building[k])' /\ OuterIsOwn(k)'
  <2>1. CASE k = n - 1 \/ building[k].stage = "init"
    BY <1>5, <1>6, <2>1
  <2>2. CASE k # n - 1
    BY <1>n, <1>1, <1>5, <1>6, <2>2 DEF ChainInv
  <2> QED BY <2>1, <2>2
<1>8. ASSUME NEW j \in 1 .. n - 1, NEW k \in 1 .. n - 1, j < k
      PROVE  Nested(j, k)'
  BY <1>n, <1>5, <1>8 DEF Nested, ChainInv
<1> QED BY <1>2, <1>3, <1>4, <1>7, <1>8 DEF ChainInv

LEMMA AtRaise ==
  ASSUME O!ConstantsOK, ChainInv, NEW m \in 0 .. MaxNesting, O!Raise(m)
  PROVE  ChainInv'
<1>1. /\ building \in Seq(Constructors) /\ m \in Nat /\ m < Len(building)
      /\ m # 0 => building[m].stage = "init"
      /\ building' = SubSeq(building, 1, m) /\ obj' = obj /\ data' = data
  BY DEF ChainInv, O!Raise, O!ConstantsOK
<1>2. /\ building' \in Seq(Constructors) /\ Len(building') = m
      /\ \A k \in 1 .. m : building'[k] = building[k] /\ k \in 1 .. Len(building)
  BY <1>1
<1>3. ASSUME NEW k \in 1 .. m
      PROVE  /\ building'[k].stage = "inherit" => Parent[building'[k].class] \in Class
             /\ HasOwn(building[k])' /\ OuterIsOwn(k)'
  <2>1. /\ building[k].stage = "inherit" => Parent[building[k].class] \in Class
        /\ HasOwn(building[k]) /\ OuterIsOwn(k)
    BY <1>2 DEF ChainInv
  <2>2. HasOwn(building[k])'
    BY <1>1, <1>2, <2>1 DEF HasOwn
  <2>3. OuterIsOwn(k)'
    BY <1>1, <1>2, <2>1 DEF OuterIsOwn, O!Outer
  <2> QED BY <1>2, <2>1, <2>2, <2>3
<1>4. ASSUME NEW j \in 1 .. m, NEW k \in 1 .. m, j < k
      PROVE  Nested(j, k)'
  BY <1>2, <1>4 DEF ChainInv, Nested
<1> QED BY <1>1, <1>2, <1>3, <1>4 DEF ChainInv

(* Other objects may change as they like.                                   *)
LEMMA AtOthers ==
  ASSUME O!ConstantsOK, ChainInv, UNCHANGED <<data, building>>,
         obj' = [r \in O!Everything |-> obj'[r]],
         \A k \in 1 .. Len(building) : obj'[building[k].self] = obj[building[k].self]
  PROVE  ChainInv'
<1>1. ASSUME NEW k \in 1 .. Len(building)
      PROVE  /\ building'[k].stage = "inherit" => Parent[building'[k].class] \in Class
             /\ HasOwn(building[k])' /\ OuterIsOwn(k)'
  BY <1>1 DEF ChainInv, HasOwn, OuterIsOwn, O!Outer
<1>2. ASSUME NEW j \in 1 .. Len(building), NEW k \in 1 .. Len(building), j < k
      PROVE  Nested(j, k)'
  BY <1>2 DEF ChainInv, Nested
<1> QED BY <1>1, <1>2 DEF ChainInv

LEMMA AtBecome ==
  ASSUME O!ConstantsOK, ChainInv, NEW sub \in known, NEW sup \in known, O!Become(sub, sup)
  PROVE  ChainInv'
<1>1. UNCHANGED <<data, building>> /\ obj = [r \in O!Everything |-> obj[r]]
      /\ obj' = [r \in O!Everything |-> obj'[r]]
      /\ \A r \in O!Everything : r \notin {sub, sup} => obj'[r] = obj[r]
  BY DEF ChainInv, O!Become
<1>2. ASSUME NEW k \in 1 .. Len(building)
      PROVE  obj'[building[k].self] = obj[building[k].self]
  <2>1. building[k].self \in O!InProgress /\ building[k].self \in O!Everything
    <3>1. building[k] \in Constructors /\ k \in DOMAIN building
      BY DEF ChainInv
    <3> QED BY <3>1 DEF O!InProgress, Constructors, O!Everything
  <2> QED BY <1>1, <2>1 DEF O!Become
<1> QED BY <1>1, <1>2, AtOthers

LEMMA AtClone ==
  ASSUME O!ConstantsOK, ChainInv, NEW o \in known, O!Clone(o)
  PROVE  ChainInv'
<1> DEFINE m == Len(O!Chain(o))
<1>1. O!Fresh(m) \in [1 .. m -> O!Unused]
  BY FreshIsUnused DEF O!Clone
<1>2. /\ UNCHANGED <<data, building>>
      /\ obj' = [r \in O!Everything |-> obj'[r]]
      /\ \A r \in O!Everything : (\A k \in DOMAIN O!Fresh(m) : O!Fresh(m)[k] # r) => obj'[r] = obj[r]
  BY DEF O!Clone
<1>3. ASSUME NEW k \in 1 .. Len(building)
      PROVE  obj'[building[k].self] = obj[building[k].self]
  <2>1. building[k].self \in Addr /\ HasOwn(building[k])
    <3>1. building[k] \in Constructors /\ HasOwn(building[k])
      BY DEF ChainInv
    <3> QED BY <3>1 DEF Constructors
  <2>2. building[k].self \notin O!Unused
    BY <2>1 DEF O!Unused, HasOwn, O!FREE, O!ConstantsOK
  <2>3. \A j \in DOMAIN O!Fresh(m) : O!Fresh(m)[j] \in O!Unused
    BY <1>1
  <2>4. building[k].self \in O!Everything
    BY <2>1 DEF O!Everything
  <2> QED BY <1>2, <2>2, <2>3, <2>4
<1> QED BY <1>2, <1>3, AtOthers

LEMMA ChainStep ==
  ASSUME O!ConstantsOK, ChainInv, [O!Next]_O!vars
  PROVE  ChainInv'
<1>1. ASSUME NEW c \in Class, O!Construct(c) PROVE ChainInv'
  BY <1>1, AtConstruct
<1>2. CASE O!Inherit
  BY <1>2, AtInherit
<1>3. CASE O!Finish
  BY <1>3, AtFinish
<1>4. ASSUME NEW n \in 0 .. MaxNesting, O!Raise(n) PROVE ChainInv'
  BY <1>4, AtRaise
<1>5. ASSUME NEW o \in known, NEW name \in Name, NEW superdepth,
             O!Request(o, name, superdepth)
      PROVE  ChainInv'
  BY <1>5, AtOthers DEF O!Request, ChainInv
<1>6. ASSUME NEW sub \in known, NEW sup \in known, O!Become(sub, sup) PROVE ChainInv'
  BY <1>6, AtBecome
<1>7. ASSUME NEW o \in known, O!Clone(o) PROVE ChainInv'
  BY <1>7, AtClone
<1>8. CASE UNCHANGED O!vars
  BY <1>8, AtOthers DEF O!vars, ChainInv
<1>9. O!Next \/ UNCHANGED O!vars
  OBVIOUS
<1> QED BY <1>1, <1>2, <1>3, <1>4, <1>5, <1>6, <1>7, <1>8, <1>9 DEF O!Next

(* What references see.  A path leads from an object along super to the     *)
(* end; Chain is the only path of an object if every one has some.          *)
Path(s, ob) ==
  /\ s \in Seq(O!Everything) /\ s # << >>
  /\ \A k \in 1 .. Len(s) - 1 : ob[s[k]].super = s[k + 1]
  /\ ob[s[Len(s)]].super = NULL

Paths(ob) == \A q \in O!Everything : \E s : Path(s, ob) /\ s[1] = q

ChainIn(ob, o) ==
  LET chain[p \in O!Everything] ==
        IF ob[p].super = NULL THEN <<p>> ELSE <<p>> \o chain[ob[p].super]
  IN  chain[o]

LEMMA PathIs ==
  ASSUME NEW ob, NEW s, Path(s, ob)
  PROVE  /\ Len(s) \in Nat \ {0} /\ s \in Seq(O!Everything)
         /\ \A k \in 1 .. Len(s) : s[k] \in O!Everything
<1>1. s \in Seq(O!Everything) /\ s # << >>
  BY DEF Path
<1>2. Len(s) \in Nat /\ Len(s) # 0
  BY <1>1, EmptySeq
<1> QED BY <1>1, <1>2, ElementOfSeq

LEMMA NothingIsNone ==
  ASSUME O!ConstantsOK
  PROVE  NULL \notin O!Everything /\ NULL \notin Addr /\ NULL \notin Class /\ DEFAULT \notin Addr
         /\ DEFAULT \notin Class /\ NULL # DEFAULT
  BY DEF O!ConstantsOK, O!Everything

LEMMA PathsAgree ==
  ASSUME O!ConstantsOK, NEW ob, NEW s, NEW t, Path(s, ob), Path(t, ob), s[1] = t[1]
  PROVE  s = t
<1>1. /\ Len(s) \in Nat \ {0} /\ s \in Seq(O!Everything) /\ \A k \in 1 .. Len(s) : s[k] \in O!Everything
      /\ Len(t) \in Nat \ {0} /\ t \in Seq(O!Everything) /\ \A k \in 1 .. Len(t) : t[k] \in O!Everything
  BY PathIs
<1> DEFINE Good == {n \in Nat : n + 1 <= Len(s) \/ n + 1 <= Len(t) =>
                                  n + 1 <= Len(s) /\ n + 1 <= Len(t) /\ s[n + 1] = t[n + 1]}
<1>2. 0 \in Good
  BY <1>1
<1>3. ASSUME NEW n \in Nat, n \in Good PROVE n + 1 \in Good
  <2>1. CASE n + 2 <= Len(s)
    <3>1. n + 1 \in 1 .. Len(s) - 1 /\ n + 2 \in 1 .. Len(s) /\ n + 1 <= Len(t) /\ s[n + 1] = t[n + 1]
      BY <1>1, <1>3, <2>1
    <3>2. ob[s[n + 1]].super = s[n + 2] /\ s[n + 2] \in O!Everything
      <4>1. ob[s[n + 1]].super = s[(n + 1) + 1]
        BY <3>1 DEF Path
      <4>2. (n + 1) + 1 = n + 2
        OBVIOUS
      <4> QED BY <1>1, <3>1, <4>1, <4>2
    <3>3. n + 1 # Len(t)
      BY <3>1, <3>2, NothingIsNone DEF Path
    <3>4. n + 1 \in 1 .. Len(t) - 1
      BY <1>1, <3>1, <3>3
    <3>5. ob[t[n + 1]].super = t[(n + 1) + 1]
      BY <3>4 DEF Path
    <3>6. (n + 1) + 1 = n + 2
      OBVIOUS
    <3> QED BY <1>1, <2>1, <3>1, <3>2, <3>4, <3>5, <3>6
  <2>2. CASE n + 2 <= Len(t)
    <3>1. n + 1 \in 1 .. Len(t) - 1 /\ n + 2 \in 1 .. Len(t) /\ n + 1 <= Len(s) /\ s[n + 1] = t[n + 1]
      BY <1>1, <1>3, <2>2
    <3>2. ob[t[n + 1]].super = t[n + 2] /\ t[n + 2] \in O!Everything
      <4>1. ob[t[n + 1]].super = t[(n + 1) + 1]
        BY <3>1 DEF Path
      <4>2. (n + 1) + 1 = n + 2
        OBVIOUS
      <4> QED BY <1>1, <3>1, <4>1, <4>2
    <3>3. n + 1 # Len(s)
      BY <3>1, <3>2, NothingIsNone DEF Path
    <3>4. n + 1 \in 1 .. Len(s) - 1
      BY <1>1, <3>1, <3>3
    <3>5. ob[s[n + 1]].super = s[(n + 1) + 1]
      BY <3>4 DEF Path
    <3>6. (n + 1) + 1 = n + 2
      OBVIOUS
    <3> QED BY <1>1, <2>2, <3>1, <3>2, <3>4, <3>5, <3>6
  <2>3. CASE ~ (n + 2 <= Len(s)) /\ ~ (n + 2 <= Len(t))
    BY <1>1, <2>3
  <2> QED BY <2>1, <2>2, <2>3
<1>4. Nat \subseteq Good
  <2> HIDE DEF Good
  <2> QED BY <1>2, <1>3, SetInduction
<1>5. ASSUME NEW k \in Nat, k >= 1, k <= Len(s) \/ k <= Len(t)
      PROVE  k <= Len(s) /\ k <= Len(t) /\ s[k] = t[k]
  <2>1. k - 1 \in Nat /\ (k - 1) + 1 = k
    BY <1>5
  <2>2. k - 1 \in Good
    BY <1>4, <2>1
  <2> QED BY <1>5, <2>1, <2>2
<1>6. Len(s) = Len(t)
  BY <1>1, <1>5
<1>7. \A k \in 1 .. Len(s) : s[k] = t[k]
  BY <1>1, <1>5
<1> QED BY <1>1, <1>6, <1>7, SeqEqual

\* The rest of a path is one, and nothing comes twice.
LEMMA PathTail ==
  ASSUME NEW ob, NEW s, Path(s, ob), NEW k \in 1 .. Len(s)
  PROVE  /\ Path(SubSeq(s, k, Len(s)), ob) /\ SubSeq(s, k, Len(s))[1] = s[k]
         /\ Len(SubSeq(s, k, Len(s))) = Len(s) - k + 1
         /\ \A i \in 1 .. Len(s) - k + 1 : SubSeq(s, k, Len(s))[i] = s[k + i - 1]
<1>1. Len(s) \in Nat \ {0} /\ s \in Seq(O!Everything) /\ k \in Nat /\ k >= 1 /\ k <= Len(s)
  BY PathIs
<1> DEFINE t == SubSeq(s, k, Len(s))
<1>2. /\ t \in Seq(O!Everything) /\ Len(t) = Len(s) - k + 1
      /\ \A i \in 1 .. Len(s) - k + 1 : t[i] = s[k + i - 1]
  BY <1>1, SubSeqProperties
<1> HIDE DEF t
<1>3. t # << >> /\ t[1] = s[k] /\ t[Len(t)] = s[Len(s)]
  <2>1. 1 \in 1 .. Len(s) - k + 1 /\ k + 1 - 1 = k
    BY <1>1
  <2>2. Len(s) - k + 1 \in 1 .. Len(s) - k + 1 /\ k + (Len(s) - k + 1) - 1 = Len(s)
    BY <1>1
  <2>3. t[1] = s[k] /\ t[Len(s) - k + 1] = s[Len(s)]
    BY <1>2, <2>1, <2>2
  <2>4. Len(t) # 0 /\ Len(<< >>) = 0
    BY <1>1, <1>2
  <2> QED BY <1>2, <2>3, <2>4
<1>4. ASSUME NEW i \in 1 .. Len(t) - 1 PROVE ob[t[i]].super = t[i + 1]
  <2>1. i \in 1 .. Len(s) - k + 1 /\ i + 1 \in 1 .. Len(s) - k + 1 /\ k + i - 1 \in 1 .. Len(s) - 1
        /\ k + (i + 1) - 1 = (k + i - 1) + 1
    BY <1>1, <1>2
  <2>2. ob[s[k + i - 1]].super = s[(k + i - 1) + 1]
    BY <2>1 DEF Path
  <2> QED BY <1>2, <2>1, <2>2
<1>5. ob[t[Len(t)]].super = NULL
  BY <1>3 DEF Path
<1> QED BY <1>2, <1>3, <1>4, <1>5 DEF Path, t

LEMMA PathDistinct ==
  ASSUME O!ConstantsOK, NEW ob, NEW s, Path(s, ob),
         NEW i \in 1 .. Len(s), NEW j \in 1 .. Len(s), s[i] = s[j]
  PROVE  i = j
<1>1. SubSeq(s, i, Len(s)) = SubSeq(s, j, Len(s))
  <2>i. Path(SubSeq(s, i, Len(s)), ob) /\ SubSeq(s, i, Len(s))[1] = s[i]
    BY PathTail
  <2>1. PICK t : t = SubSeq(s, i, Len(s)) /\ Path(t, ob) /\ t[1] = s[i]
    BY <2>i
  <2>p. Path(s, ob) /\ j \in 1 .. Len(s)
    OBVIOUS
  <2>j. Path(SubSeq(s, j, Len(s)), ob) /\ SubSeq(s, j, Len(s))[1] = s[j]
    BY ONLY <2>p, PathTail
  <2>2. PICK u : u = SubSeq(s, j, Len(s)) /\ Path(u, ob) /\ u[1] = s[j]
    BY <2>j
  <2>3. t = u
    BY <2>1, <2>2, PathsAgree
  <2> QED BY <2>1, <2>2, <2>3
<1>2. Len(s) - i + 1 = Len(s) - j + 1
  BY <1>1, PathTail
<1> QED BY <1>2, PathIs

\* A path may begin one object earlier.
LEMMA PathLonger ==
  ASSUME NEW ob, NEW s, Path(s, ob), NEW q \in O!Everything, ob[q].super = s[1]
  PROVE  Path(<<q>> \o s, ob) /\ (<<q>> \o s)[1] = q
<1>1. Len(s) \in Nat \ {0} /\ s \in Seq(O!Everything)
  BY PathIs
<1> DEFINE t == <<q>> \o s
<1>2. /\ t \in Seq(O!Everything) /\ Len(t) = Len(s) + 1 /\ t[1] = q
      /\ \A k \in 2 .. Len(s) + 1 : t[k] = s[k - 1]
  BY <1>1
<1> HIDE DEF t
<1>3. t # << >> /\ t[Len(t)] = s[Len(s)]
  <2>1. Len(s) + 1 \in 2 .. Len(s) + 1 /\ (Len(s) + 1) - 1 = Len(s)
    BY <1>1
  <2> QED BY <1>1, <1>2, <2>1, EmptySeq
<1>4. ASSUME NEW k \in 1 .. Len(t) - 1 PROVE ob[t[k]].super = t[k + 1]
  <2>1. CASE k = 1
    <3>1. 2 \in 2 .. Len(s) + 1 /\ 2 - 1 = 1 /\ k + 1 = 2
      BY <1>1, <2>1
    <3> QED BY <1>2, <2>1, <3>1
  <2>2. CASE k # 1
    <3>1. k \in 2 .. Len(s) + 1 /\ k + 1 \in 2 .. Len(s) + 1 /\ k - 1 \in 1 .. Len(s) - 1
          /\ (k + 1) - 1 = (k - 1) + 1
      BY <1>1, <1>2, <2>2
    <3>2. ob[s[k - 1]].super = s[(k - 1) + 1]
      BY <3>1 DEF Path
    <3> QED BY <1>2, <3>1, <3>2
  <2> QED BY <2>1, <2>2
<1>5. ob[t[Len(t)]].super = NULL
  BY <1>3 DEF Path
<1> QED BY <1>2, <1>3, <1>4, <1>5 DEF Path, t

LEMMA ChainIs ==
  ASSUME O!ConstantsOK, NEW ob, Paths(ob), NEW o \in O!Everything
  PROVE  /\ Path(ChainIn(ob, o), ob) /\ ChainIn(ob, o)[1] = o
         /\ \A s : Path(s, ob) /\ s[1] = o => s = ChainIn(ob, o)
<1> DEFINE to == [q \in O!Everything |-> CHOOSE s : Path(s, ob) /\ s[1] = q]
           Follows(f) == f = [q \in O!Everything |->
                                IF ob[q].super = NULL THEN <<q>> ELSE <<q>> \o f[ob[q].super]]
           chain == CHOOSE f : Follows(f)
<1>1. ASSUME NEW q \in O!Everything PROVE Path(to[q], ob) /\ to[q][1] = q
  <2>1. \E s : Path(s, ob) /\ s[1] = q
    BY DEF Paths
  <2> QED BY <2>1
<1>2. ASSUME NEW q \in O!Everything, ob[q].super # NULL
      PROVE  ob[q].super \in O!Everything /\ to[q] = <<q>> \o to[ob[q].super]
             /\ Len(to[ob[q].super]) < Len(to[q])
  <2>1. Path(to[q], ob) /\ to[q][1] = q
    BY <1>1
  <2> HIDE DEF to
  <2>2. Len(to[q]) \in Nat \ {0} /\ \A k \in 1 .. Len(to[q]) : to[q][k] \in O!Everything
    BY <2>1, PathIs
  <2>3. Len(to[q]) # 1
    BY <1>2, <2>1 DEF Path
  <2>l. PICK n : n = Len(to[q])
    OBVIOUS
  <2>n. n \in Nat /\ n >= 2 /\ n = Len(to[q])
    <3>1. n \in Nat /\ n # 0 /\ n # 1
      BY <2>l, <2>2, <2>3
    <3>2. n >= 2
      BY <3>1
    <3> QED BY <2>l, <3>1, <3>2
  <2>m. 1 \in 1 .. n - 1 /\ 2 \in 1 .. n /\ 1 + 1 = 2
    BY <2>n
  <2>4. 1 \in 1 .. Len(to[q]) - 1 /\ 2 \in 1 .. Len(to[q]) /\ 1 + 1 = 2
    BY <2>n, <2>m
  <2>5. ob[to[q][1]].super = to[q][1 + 1]
    BY <2>1, <2>4 DEF Path
  <2>6. ob[q].super = to[q][2] /\ ob[q].super \in O!Everything
    BY <2>1, <2>2, <2>4, <2>5
  <2>7. Path(to[ob[q].super], ob) /\ to[ob[q].super][1] = ob[q].super
    BY <1>1, <2>6
  <2>t. PICK t : t = to[ob[q].super] /\ Path(t, ob) /\ t[1] = ob[q].super
    BY <2>7
  <2>u. Path(<<q>> \o t, ob) /\ (<<q>> \o t)[1] = q
    BY <2>t, PathLonger
  <2>8. to[q] = <<q>> \o t
    BY <2>1, <2>u, PathsAgree
  <2>9. t \in Seq(O!Everything) /\ Len(t) \in Nat
    BY <2>t, PathIs
  <2>10. Len(<<q>> \o t) = Len(t) + 1
    BY <2>9
  <2>11. Len(t) < Len(to[q])
    BY <2>8, <2>9, <2>10
  <2> QED BY <2>6, <2>t, <2>8, <2>11
<1>3. ASSUME NEW q \in O!Everything, ob[q].super = NULL
      PROVE  to[q] = <<q>>
  <2>1. Path(<<q>>, ob) /\ <<q>>[1] = q
    BY <1>3 DEF Path
  <2>2. Path(to[q], ob) /\ to[q][1] = q
    BY <1>1
  <2> HIDE DEF to
  <2> QED BY <2>1, <2>2, PathsAgree
<1>4. Follows(to)
  <2>1. to = [q \in O!Everything |-> to[q]]
    OBVIOUS
  <2> HIDE DEF to
  <2>2. \A q \in O!Everything : to[q] = IF ob[q].super = NULL THEN <<q>> ELSE <<q>> \o to[ob[q].super]
    BY <1>2, <1>3
  <2> QED BY <2>1, <2>2
<1>5. Follows(chain)
  <2> HIDE DEF to, Follows
  <2> QED BY <1>4
<1>6. ChainIn(ob, o) = chain[o]
  BY DEF ChainIn
<1> HIDE DEF chain
<1>7. \A q \in O!Everything : chain[q] = IF ob[q].super = NULL THEN <<q>> ELSE <<q>> \o chain[ob[q].super]
  BY <1>5
<1> HIDE DEF Follows, to
<1> DEFINE Good == {n \in Nat : \A q \in O!Everything : Len(to[q]) <= n => chain[q] = to[q]}
<1>8. 0 \in Good
  <2>1. ASSUME NEW q \in O!Everything PROVE ~ (Len(to[q]) <= 0)
    BY <1>1, PathIs
  <2> QED BY <2>1
<1>9. ASSUME NEW n \in Nat, n \in Good PROVE n + 1 \in Good
  <2>1. ASSUME NEW q \in O!Everything, Len(to[q]) <= n + 1 PROVE chain[q] = to[q]
    <3>1. CASE ob[q].super = NULL
      BY <1>3, <1>7, <3>1
    <3>2. CASE ob[q].super # NULL
      <4>1. ob[q].super \in O!Everything /\ to[q] = <<q>> \o to[ob[q].super]
            /\ Len(to[ob[q].super]) < Len(to[q])
        BY <1>2, <3>2
      <4>2. Len(to[q]) \in Nat /\ Len(to[ob[q].super]) \in Nat
        BY <1>1, <4>1, PathIs
      <4>3. Len(to[ob[q].super]) <= n
        BY <2>1, <4>1, <4>2
      <4>4. chain[ob[q].super] = to[ob[q].super]
        BY <1>9, <4>1, <4>3
      <4> QED BY <1>7, <3>2, <4>1, <4>4
    <3> QED BY <3>1, <3>2
  <2> QED BY <2>1
<1>10. Nat \subseteq Good
  <2> HIDE DEF Good
  <2> QED BY <1>8, <1>9, SetInduction
<1>11. Len(to[o]) \in Nat
  BY <1>1, PathIs
<1>12. chain[o] = to[o]
  BY <1>10, <1>11
<1>13. ASSUME NEW s, Path(s, ob), s[1] = o PROVE s = to[o]
  BY <1>1, <1>13, PathsAgree
<1> QED BY <1>1, <1>6, <1>12, <1>13

\* A path goes on as it did, or along another one from position i on.
LEMMA PathStays ==
  ASSUME NEW ob, NEW ob2, NEW s, Path(s, ob),
         \A k \in 1 .. Len(s) : ob2[s[k]].super = ob[s[k]].super
  PROVE  Path(s, ob2)
<1>1. Len(s) \in 1 .. Len(s) /\ \A k \in 1 .. Len(s) - 1 : k \in 1 .. Len(s)
  BY PathIs
<1> QED BY <1>1 DEF Path

LEMMA Rerouted ==
  ASSUME NEW ob, NEW ob2, NEW s, Path(s, ob), NEW t, Path(t, ob2),
         NEW i \in 1 .. Len(s), ob2[s[i]].super = t[1],
         \A k \in 1 .. i - 1 : ob2[s[k]].super = ob[s[k]].super
  PROVE  /\ Path(SubSeq(s, 1, i) \o t, ob2)
         /\ Len(SubSeq(s, 1, i) \o t) = i + Len(t)
         /\ \A k \in 1 .. i : (SubSeq(s, 1, i) \o t)[k] = s[k]
         /\ \A k \in 1 .. Len(t) : (SubSeq(s, 1, i) \o t)[i + k] = t[k]
<1>1. /\ Len(s) \in Nat \ {0} /\ s \in Seq(O!Everything) /\ i \in Nat /\ i >= 1 /\ i <= Len(s)
      /\ Len(t) \in Nat \ {0} /\ t \in Seq(O!Everything)
  BY PathIs
<1> DEFINE h == SubSeq(s, 1, i)
<1>2. h \in Seq(O!Everything) /\ Len(h) = i /\ \A k \in 1 .. i : h[k] = s[k]
  BY <1>1, SubSeqProperties
<1> HIDE DEF h
<1> DEFINE u == h \o t
<1>3. u \in Seq(O!Everything) /\ Len(u) = i + Len(t)
  BY <1>1, <1>2
<1>4. \A k \in 1 .. i : u[k] = s[k]
  BY <1>1, <1>2
<1>5. \A k \in 1 .. Len(t) : u[i + k] = t[k]
  BY <1>1, <1>2
<1> HIDE DEF u
<1>6. u # << >>
  BY <1>1, <1>3, EmptySeq
<1>7. u[Len(u)] = t[Len(t)]
  BY <1>1, <1>3, <1>5
<1>8. ASSUME NEW k \in 1 .. Len(u) - 1 PROVE ob2[u[k]].super = u[k + 1]
  <2>1. k \in Nat /\ k >= 1 /\ k + 1 <= i + Len(t)
    BY <1>1, <1>3
  <2>2. CASE k < i
    <3>1. k \in 1 .. i - 1 /\ k \in 1 .. i /\ k + 1 \in 1 .. i /\ k \in 1 .. Len(s) - 1
      BY <1>1, <2>1, <2>2
    <3>2. ob[s[k]].super = s[k + 1]
      BY <3>1 DEF Path
    <3> QED BY <1>4, <3>1, <3>2
  <2>3. CASE k = i
    <3>1. 1 \in 1 .. Len(t) /\ i \in 1 .. i
      BY <1>1
    <3> QED BY <1>4, <1>5, <2>3, <3>1
  <2>4. CASE k > i
    <3>1. k - i \in 1 .. Len(t) - 1 /\ k - i \in 1 .. Len(t) /\ (k - i) + 1 \in 1 .. Len(t)
          /\ i + (k - i) = k /\ i + ((k - i) + 1) = k + 1
      <4>1. PICK m : m = Len(t)
        OBVIOUS
      <4>2. m \in Nat /\ k \in Nat /\ i \in Nat /\ k > i /\ k + 1 <= i + m
        BY <1>1, <2>1, <2>4, <4>1
      <4>3. /\ k - i \in 1 .. m - 1 /\ k - i \in 1 .. m /\ (k - i) + 1 \in 1 .. m
            /\ i + (k - i) = k /\ i + ((k - i) + 1) = k + 1
        BY <4>2
      <4> QED BY <4>1, <4>3
    <3>2. ob2[t[k - i]].super = t[(k - i) + 1]
      BY <3>1 DEF Path
    <3>3. u[i + (k - i)] = t[k - i] /\ u[i + ((k - i) + 1)] = t[(k - i) + 1]
      BY <1>5, <3>1
    <3> QED BY <3>1, <3>2, <3>3
  <2> QED BY <1>1, <2>1, <2>2, <2>3, <2>4
<1>9. ob2[u[Len(u)]].super = NULL
  BY <1>7 DEF Path
<1> QED BY <1>3, <1>4, <1>5, <1>6, <1>8, <1>9 DEF Path, u, h

(* The data of an object are laid out for its class, and only the last part *)
(* of a chain, GraceDefaultObject or a copy of it, has no super.            *)
ObjectCells ==
  [class : Class \cup {DEFAULT, NULL}, super : O!Everything \cup {NULL},
   data : O!Everything \cup {NULL}]

Laid ==
  /\ obj \in [O!Everything -> ObjectCells]
  /\ obj[DEFAULT] = [class |-> DEFAULT, super |-> NULL, data |-> DEFAULT]
  /\ \A p \in O!Everything : obj[p] # O!FREE =>
       /\ obj[p].class \in Class \cup {DEFAULT} /\ obj[p].data \in O!Everything
       /\ obj[obj[p].data] # O!FREE /\ data[obj[p].data].layout = obj[p].class
       /\ obj[p].super = NULL <=> obj[p].class = DEFAULT
       /\ obj[p].super # NULL => obj[obj[p].super] # O!FREE

\* What is none of a constructor's is GraceDefaultObject's.
DefaultData == \A p \in O!Everything : obj[p].class = DEFAULT => obj[p].data = DEFAULT

\* The program refers to objects that a constructor has made.
Refs == known \subseteq Addr /\ \A q \in known : obj[q].class \in Class

(* What a constructor under way has made so far: the parts from its own to  *)
(* the last, which is that of the last frame if that has still to inherit.  *)
FrameOK(k) ==
  /\ obj[building[k].own].class = building[k].class /\ building[k].self \in known
  /\ IF building[k].own = building[k].self THEN building[k].lower = building[k].class
     ELSE building[k].own \notin known
  /\ building[k].stage = "init" => Parent[obj[O!LastOf(building[k].self)].class] = NULL
  /\ building[k].stage = "inherit" /\ k = Len(building) =>
       O!LastOf(building[k].self) = building[k].own
  /\ building[k].stage = "inherit" /\ k # Len(building) =>
       obj[building[k].own].super = building[k + 1].own
  /\ \A j \in 1 .. k - 1 : building[j].own # building[k].own

\* The parts of an object under construction, each with its own data.
OwnParts(s) ==
  /\ \A i \in 1 .. Len(O!Chain(s)) - 2 :
       obj[O!Chain(s)[i + 1]].class = Parent[obj[O!Chain(s)[i]].class]
  /\ \A i \in 2 .. Len(O!Chain(s)) - 1 :
       /\ obj[O!Chain(s)[i]].data = O!Chain(s)[i]
       /\ data[O!Chain(s)[i]].outer = obj[O!Chain(s)[i]].class

\* No part is both q's and s's.
Apart(q, s) ==
  \A i \in 1 .. Len(O!Chain(q)) - 1, j \in 1 .. Len(O!Chain(s)) - 1 : O!Chain(q)[i] # O!Chain(s)[j]

UnderWay(k) ==
  /\ FrameOK(k) /\ OwnParts(building[k].self)
  /\ \A q \in known \ {building[k].self} : Apart(q, building[k].self)

(* The invariant of programs with native objects.                           *)
ObjectInv ==
  /\ ChainInv /\ Laid /\ DefaultData /\ Paths(obj) /\ Refs
  /\ \A k \in 1 .. Len(building) : UnderWay(k)

LEMMA UnderWayAfter ==
  ASSUME NEW k, NEW s, s = building'[k].self, FrameOK(k)', OwnParts(s)',
         \A q \in known' \ {s} : Apart(q, s)'
  PROVE  UnderWay(k)'
<1>1. O!Chain(building[k].self)' = O!Chain(s)'
  BY DEF O!Chain
<1>2. OwnParts(building[k].self)'
  BY <1>1 DEF OwnParts
<1>3. \A q \in known' \ {s} : Apart(q, building[k].self)'
  BY <1>1 DEF Apart
<1> QED BY <1>2, <1>3 DEF UnderWay

LEMMA ChainOf ==
  ASSUME O!ConstantsOK, Laid, Paths(obj), NEW q \in O!Everything
  PROVE  /\ Path(O!Chain(q), obj) /\ O!Chain(q)[1] = q
         /\ \A s : Path(s, obj) /\ s[1] = q => s = O!Chain(q)
         /\ Len(O!Chain(q)) \in Nat \ {0} /\ O!Chain(q) \in Seq(O!Everything)
         /\ \A k \in 1 .. Len(O!Chain(q)) : O!Chain(q)[k] \in O!Everything
         /\ \A k \in 1 .. Len(O!Chain(q)) - 1 : obj[O!Chain(q)[k]].super = O!Chain(q)[k + 1]
         /\ \A k \in 2 .. Len(O!Chain(q)) : obj[O!Chain(q)[k]] # O!FREE
<1>1. O!Chain(q) = ChainIn(obj, q)
  BY DEF O!Chain, ChainIn
<1>2. /\ Path(O!Chain(q), obj) /\ O!Chain(q)[1] = q
      /\ \A s : Path(s, obj) /\ s[1] = q => s = O!Chain(q)
  BY <1>1, ChainIs
<1>3. /\ Len(O!Chain(q)) \in Nat \ {0} /\ O!Chain(q) \in Seq(O!Everything)
      /\ \A k \in 1 .. Len(O!Chain(q)) : O!Chain(q)[k] \in O!Everything
  BY <1>2, PathIs
<1>4. \A k \in 1 .. Len(O!Chain(q)) - 1 : obj[O!Chain(q)[k]].super = O!Chain(q)[k + 1]
  BY <1>2 DEF Path
<1>5. ASSUME NEW k \in 2 .. Len(O!Chain(q)) PROVE obj[O!Chain(q)[k]] # O!FREE
  <2>1. k - 1 \in 1 .. Len(O!Chain(q)) - 1 /\ k - 1 \in 1 .. Len(O!Chain(q)) /\ (k - 1) + 1 = k
        /\ k \in 1 .. Len(O!Chain(q))
    BY <1>3
  <2> DEFINE p == O!Chain(q)[k - 1]
  <2>2. p \in O!Everything /\ obj[p].super = O!Chain(q)[k]
    BY <1>3, <1>4, <2>1
  <2>3. obj[p].super # NULL
    BY <1>3, <2>1, <2>2, NothingIsNone
  <2>4. obj[p] # O!FREE
    BY <2>3 DEF O!FREE
  <2> QED BY <2>2, <2>3, <2>4 DEF Laid
<1> QED BY <1>2, <1>3, <1>4, <1>5

\* An object is a chain of at least one part, each with a class.
LEMMA PartsOfObject ==
  ASSUME O!ConstantsOK, Laid, Paths(obj), NEW q \in O!Everything, obj[q].class \in Class
  PROVE  /\ Len(O!Chain(q)) >= 2 /\ O!LastOf(q) = O!Chain(q)[Len(O!Chain(q)) - 1]
         /\ \A k \in 1 .. Len(O!Chain(q)) - 1 :
              /\ obj[O!Chain(q)[k]].class \in Class /\ O!Chain(q)[k] \in Addr
              /\ obj[O!Chain(q)[k]] # O!FREE
         /\ obj[O!Chain(q)[Len(O!Chain(q))]].class = DEFAULT
<1> DEFINE c == O!Chain(q)
<1>1. /\ Path(c, obj) /\ c[1] = q
      /\ Len(c) \in Nat \ {0}
      /\ \A k \in 1 .. Len(c) : c[k] \in O!Everything
      /\ \A k \in 1 .. Len(c) - 1 : obj[c[k]].super = c[k + 1]
      /\ \A k \in 2 .. Len(c) : obj[c[k]] # O!FREE
  BY ChainOf
<1>2. O!LastOf(q) = c[Len(c) - 1]
  BY DEF O!LastOf
<1> HIDE DEF c
<1>3. obj[q] # O!FREE
  BY NothingIsNone DEF O!FREE
<1>4. \A k \in 1 .. Len(c) : obj[c[k]] # O!FREE
  <2>1. ASSUME NEW k \in 1 .. Len(c) PROVE k = 1 \/ k \in 2 .. Len(c)
    BY <1>1
  <2> QED BY <1>1, <1>3, <2>1
<1>5. ASSUME NEW k \in 1 .. Len(c) - 1 PROVE obj[c[k]].class \in Class /\ c[k] \in Addr
  <2>1. k \in 1 .. Len(c) /\ k + 1 \in 1 .. Len(c)
    BY <1>1
  <2>2. obj[c[k]].super # NULL
    BY <1>1, <2>1, NothingIsNone
  <2>3. obj[c[k]].class \in Class \cup {DEFAULT} /\ obj[c[k]].class # DEFAULT
    BY <1>1, <1>4, <2>1, <2>2 DEF Laid
  <2>4. c[k] # DEFAULT
    BY <2>2 DEF Laid
  <2> QED BY <1>1, <2>1, <2>3, <2>4 DEF O!Everything
<1>6. Len(c) \in 1 .. Len(c) /\ obj[c[Len(c)]].super = NULL
  BY <1>1 DEF Path
<1>7. obj[c[Len(c)]].class = DEFAULT
  BY <1>1, <1>4, <1>6 DEF Laid
<1>8. Len(c) # 1
  BY <1>1, <1>7, NothingIsNone
<1>9. Len(c) >= 2
  <2>1. PICK n : n = Len(c)
    OBVIOUS
  <2>2. n \in Nat /\ n # 0 /\ n # 1
    BY <1>1, <1>8, <2>1
  <2>3. n >= 2
    BY <2>2
  <2> QED BY <2>1, <2>3
<1>10. \A k \in 1 .. Len(c) - 1 : obj[c[k]] # O!FREE
  <2>1. \A k \in 1 .. Len(c) - 1 : k \in 1 .. Len(c)
    BY <1>1
  <2> QED BY <1>4, <2>1
<1> QED BY <1>2, <1>5, <1>7, <1>9, <1>10 DEF c

\* What references see after a step that leaves q's parts as they are.
LEMMA ChainAfter ==
  ASSUME O!ConstantsOK, Paths(obj'), NEW q \in O!Everything, NEW s, Path(s, obj'), s[1] = q
  PROVE  O!Chain(q)' = s
<1>1. O!Chain(q)' = ChainIn(obj', q)
  BY DEF O!Chain, ChainIn
<1>2. s = ChainIn(obj', q)
  BY ChainIs
<1> QED BY <1>1, <1>2

LEMMA PartsAfter ==
  ASSUME O!ConstantsOK, Laid, Paths(obj), NEW q \in O!Everything, O!Chain(q)' = O!Chain(q),
         \A k \in 1 .. Len(O!Chain(q)) - 1 :
           /\ obj'[O!Chain(q)[k]].class = obj[O!Chain(q)[k]].class
           /\ obj'[O!Chain(q)[k]].data = obj[O!Chain(q)[k]].data
  PROVE  O!PartsOf(q)' = O!PartsOf(q)
  BY DEF O!PartsOf

\* References that a step does not concern.
LEMMA OthersSee ==
  ASSUME NEW T, known' \ T = known \ T, \A q \in known \ T : q \in Addr => O!PartsOf(q)' = O!PartsOf(q)
  PROVE  \A q \in Addr \ T : O!parts'[q] = O!parts[q]
  BY DEF O!parts

\* A new object, and nothing else, has one part.
LEMMA NewChains ==
  ASSUME O!ConstantsOK, Laid, Paths(obj), NEW o \in Addr, obj[o] = O!FREE, NEW c \in Class,
         obj' = [obj EXCEPT ![o] = [class |-> c, super |-> DEFAULT, data |-> o]]
  PROVE  /\ Paths(obj') /\ O!Chain(o)' = <<o, DEFAULT>>
         /\ \A q \in O!Everything \ {o} : O!Chain(q)' = O!Chain(q)
         /\ \A q \in O!Everything \ {o} : \A k \in 1 .. Len(O!Chain(q)) :
              O!Chain(q)[k] \in O!Everything \ {o}
         /\ obj' \in [O!Everything -> ObjectCells]
         /\ obj'[o] = [class |-> c, super |-> DEFAULT, data |-> o]
         /\ \A p \in O!Everything \ {o} : obj'[p] = obj[p]
<1>1. /\ o \in O!Everything /\ DEFAULT \in O!Everything \ {o}
      /\ obj \in [O!Everything -> ObjectCells]
      /\ obj[DEFAULT].super = NULL
  BY NothingIsNone DEF O!Everything, Laid
<1>2. /\ obj'[o] = [class |-> c, super |-> DEFAULT, data |-> o]
      /\ \A p \in O!Everything \ {o} : obj'[p] = obj[p]
  BY <1>1
<1>3. obj' \in [O!Everything -> ObjectCells]
  <2>1. [class |-> c, super |-> DEFAULT, data |-> o] \in ObjectCells
    BY <1>1 DEF ObjectCells
  <2> QED BY <1>1, <2>1
<1>4. Path(<<DEFAULT>>, obj')
  BY <1>1, <1>2 DEF Path
<1>5. Path(<<o, DEFAULT>>, obj')
  BY <1>1, <1>2 DEF Path
<1>6. ASSUME NEW q \in O!Everything \ {o}
      PROVE  /\ Path(O!Chain(q), obj') /\ O!Chain(q)[1] = q
             /\ \A k \in 1 .. Len(O!Chain(q)) : O!Chain(q)[k] \in O!Everything \ {o}
  <2>1. /\ Path(O!Chain(q), obj) /\ O!Chain(q)[1] = q
        /\ Len(O!Chain(q)) \in Nat
        /\ \A k \in 1 .. Len(O!Chain(q)) : O!Chain(q)[k] \in O!Everything
        /\ \A k \in 2 .. Len(O!Chain(q)) : obj[O!Chain(q)[k]] # O!FREE
    BY ChainOf
  <2>2. ASSUME NEW k \in 1 .. Len(O!Chain(q)) PROVE O!Chain(q)[k] # o
    <3>1. k = 1 \/ k \in 2 .. Len(O!Chain(q))
      BY <2>1
    <3> QED BY <2>1, <3>1
  <2>3. \A k \in 1 .. Len(O!Chain(q)) : obj'[O!Chain(q)[k]].super = obj[O!Chain(q)[k]].super
    BY <1>2, <2>1, <2>2
  <2> QED BY <2>1, <2>2, <2>3, PathStays
<1>7. Paths(obj')
  <2>1. ASSUME NEW q \in O!Everything PROVE \E s : Path(s, obj') /\ s[1] = q
    <3>1. CASE q = o
      <4>1. <<o, DEFAULT>>[1] = q
        BY <3>1
      <4> QED BY <1>5, <4>1
    <3>2. CASE q # o
      BY <1>6, <3>2
    <3> QED BY <3>1, <3>2
  <2> QED BY <2>1 DEF Paths
<1>8. O!Chain(o)' = <<o, DEFAULT>>
  <2>1. <<o, DEFAULT>>[1] = o
    OBVIOUS
  <2> QED BY <1>1, <1>5, <1>7, <2>1, ChainAfter
<1>9. \A q \in O!Everything \ {o} : O!Chain(q)' = O!Chain(q)
  BY <1>6, <1>7, ChainAfter
<1> QED BY <1>2, <1>3, <1>6, <1>7, <1>8, <1>9

\* An object under construction stays as it is, and the frame that makes it.
LEMMA ObjectStays ==
  ASSUME O!ConstantsOK, Laid, Paths(obj), NEW s \in O!Everything, obj[s].class \in Class,
         O!Chain(s)' = O!Chain(s), OwnParts(s),
         \A k \in 1 .. Len(O!Chain(s)) - 1 :
           /\ obj'[O!Chain(s)[k]].class = obj[O!Chain(s)[k]].class
           /\ obj'[O!Chain(s)[k]].data = obj[O!Chain(s)[k]].data,
         \A k \in 2 .. Len(O!Chain(s)) - 1 :
           data'[O!Chain(s)[k]].outer = data[O!Chain(s)[k]].outer
  PROVE  /\ OwnParts(s)' /\ O!LastOf(s)' = O!LastOf(s)
         /\ obj'[O!LastOf(s)].class = obj[O!LastOf(s)].class
<1>1. Len(O!Chain(s)) \in Nat \ {0} /\ Len(O!Chain(s)) >= 2 /\ O!LastOf(s) = O!Chain(s)[Len(O!Chain(s)) - 1]
  BY ChainOf, PartsOfObject
<1>2. O!LastOf(s)' = O!LastOf(s)
  BY DEF O!LastOf
<1>3. Len(O!Chain(s)) - 1 \in 1 .. Len(O!Chain(s)) - 1
  BY <1>1
<1>4. \A i \in 1 .. Len(O!Chain(s)) - 2 : i \in 1 .. Len(O!Chain(s)) - 1 /\ i + 1 \in 1 .. Len(O!Chain(s)) - 1
  BY <1>1
<1>5. \A i \in 2 .. Len(O!Chain(s)) - 1 : i \in 1 .. Len(O!Chain(s)) - 1
  BY <1>1
<1>6. OwnParts(s)'
  <2>1. ASSUME NEW i \in 1 .. Len(O!Chain(s)) - 2
        PROVE  obj'[O!Chain(s)[i + 1]].class = Parent[obj'[O!Chain(s)[i]].class]
    BY <1>4 DEF OwnParts
  <2>2. ASSUME NEW i \in 2 .. Len(O!Chain(s)) - 1
        PROVE  /\ obj'[O!Chain(s)[i]].data = O!Chain(s)[i]
               /\ data'[O!Chain(s)[i]].outer = obj'[O!Chain(s)[i]].class
    BY <1>5 DEF OwnParts
  <2> QED BY <2>1, <2>2 DEF OwnParts
<1> QED BY <1>1, <1>2, <1>3, <1>6

LEMMA FrameStays ==
  ASSUME NEW k, NEW s, FrameOK(k), s = building[k].self, building'[k] = building[k],
         \A j \in 1 .. k - 1 : building'[j].own = building[j].own,
         obj'[building[k].own].class = obj[building[k].own].class,
         building[k].stage = "inherit" => obj'[building[k].own].super = obj[building[k].own].super,
         s \in known', building[k].own \in known' => building[k].own \in known,
         O!LastOf(s)' = O!LastOf(s), obj'[O!LastOf(s)].class = obj[O!LastOf(s)].class,
         building[k].stage = "inherit" =>
           \/ k # Len(building') /\ k # Len(building) /\ building'[k + 1].own = building[k + 1].own
           \/ k = Len(building') /\ k = Len(building)
  PROVE  FrameOK(k)'
<1>1. building[k].stage = "init" => Parent[obj'[O!LastOf(s)'].class] = NULL
  BY DEF FrameOK
<1>2. FrameOK(k)' <=>
  /\ obj'[building'[k].own].class = building'[k].class /\ building'[k].self \in known'
  /\ IF building'[k].own = building'[k].self THEN building'[k].lower = building'[k].class
     ELSE building'[k].own \notin known'
  /\ building'[k].stage = "init" => Parent[obj'[O!LastOf(building[k].self)'].class] = NULL
  /\ building'[k].stage = "inherit" /\ k = Len(building') =>
       O!LastOf(building[k].self)' = building'[k].own
  /\ building'[k].stage = "inherit" /\ k # Len(building') =>
       obj'[building'[k].own].super = building'[k + 1].own
  /\ \A j \in 1 .. k - 1 : building'[j].own # building'[k].own
  BY DEF FrameOK
<1>3. O!LastOf(building[k].self)' = O!LastOf(s)'
  BY DEF O!LastOf, O!Chain
<1> QED BY <1>1, <1>2, <1>3 DEF FrameOK

LEMMA FrameIs ==
  ASSUME O!ConstantsOK, ObjectInv, NEW k \in 1 .. Len(building)
  PROVE  /\ building[k] \in Constructors
         /\ building[k].own \in Addr /\ building[k].self \in Addr \cap known
         /\ building[k].own \in O!Everything /\ building[k].self \in O!Everything
         /\ obj[building[k].own].class \in Class /\ obj[building[k].self].class \in Class
         /\ obj[building[k].own] # O!FREE /\ obj[building[k].self] # O!FREE
         /\ FrameOK(k) /\ OwnParts(building[k].self)
         /\ \A q \in known \ {building[k].self} : Apart(q, building[k].self)
<1>1. /\ building[k] \in Constructors
      /\ FrameOK(k) /\ OwnParts(building[k].self)
      /\ \A q \in known \ {building[k].self} : Apart(q, building[k].self)
  BY ElementOfSeq DEF ObjectInv, ChainInv, UnderWay
<1>2. building[k].own \in Addr /\ building[k].self \in Addr /\ building[k].class \in Class
  BY <1>1 DEF Constructors
<1>3. obj[building[k].own].class \in Class /\ building[k].self \in known
      /\ obj[building[k].self].class \in Class
  BY <1>1, <1>2 DEF FrameOK, ObjectInv, Refs
<1>4. obj[building[k].own] # O!FREE /\ obj[building[k].self] # O!FREE
  BY <1>3, NothingIsNone DEF O!FREE
<1> QED BY <1>1, <1>2, <1>3, <1>4 DEF O!Everything

LEMMA ConstructIs ==
  ASSUME O!ConstantsOK, ObjectInv, NEW c \in Class, O!Construct(c)
  PROVE  \E o \in Addr : \E frame :
           /\ obj[o] = O!FREE
           /\ obj' = [obj EXCEPT ![o] = [class |-> c, super |-> DEFAULT, data |-> o]]
           /\ data' = [data EXCEPT ![o] = [layout |-> c, outer |-> c]]
           /\ building' = Append(building, frame)
           /\ frame = [class |-> c, own |-> o, self |-> o, lower |-> c,
                       stage |-> IF Parent[c] = NULL THEN "init" ELSE "inherit"]
           /\ known' = known \cup {o}
           /\ answer' = <<"new", o, c>>
           /\ o \notin known
           /\ building # << >> => building[Len(building)].stage = "init"
<1>1. PICK o \in Addr : o = O!Fresh(1)[1] /\ obj[o] = O!FREE
  BY FreshPlace DEF O!Construct
<1>2. o \notin known
  BY <1>1, NothingIsNone DEF O!FREE, ObjectInv, Refs
<1> QED BY <1>1, <1>2 DEF O!Construct, O!Initialising, O!Top

LEMMA ConstructKeeps ==
  ASSUME O!ConstantsOK, ObjectInv, NEW c \in Class, O!Construct(c)
  PROVE  ObjectInv'
<1>0. ChainInv' /\ ChainInv /\ Laid /\ Paths(obj) /\ Refs
  BY AtConstruct DEF ObjectInv
<1>p. PICK o \in Addr : \E frame :
        /\ obj[o] = O!FREE
        /\ obj' = [obj EXCEPT ![o] = [class |-> c, super |-> DEFAULT, data |-> o]]
        /\ data' = [data EXCEPT ![o] = [layout |-> c, outer |-> c]]
        /\ building' = Append(building, frame)
        /\ frame = [class |-> c, own |-> o, self |-> o, lower |-> c,
                    stage |-> IF Parent[c] = NULL THEN "init" ELSE "inherit"]
        /\ known' = known \cup {o}
        /\ o \notin known
        /\ building # << >> => building[Len(building)].stage = "init"
  BY ConstructIs
<1>1. PICK frame :
        /\ obj[o] = O!FREE
        /\ obj' = [obj EXCEPT ![o] = [class |-> c, super |-> DEFAULT, data |-> o]]
        /\ data' = [data EXCEPT ![o] = [layout |-> c, outer |-> c]]
        /\ building' = Append(building, frame)
        /\ frame = [class |-> c, own |-> o, self |-> o, lower |-> c,
                    stage |-> IF Parent[c] = NULL THEN "init" ELSE "inherit"]
        /\ known' = known \cup {o}
        /\ o \notin known
        /\ building # << >> => building[Len(building)].stage = "init"
  BY <1>p
<1>2. /\ Paths(obj') /\ O!Chain(o)' = <<o, DEFAULT>>
      /\ \A q \in O!Everything \ {o} : O!Chain(q)' = O!Chain(q)
      /\ \A q \in O!Everything \ {o} : \A k \in 1 .. Len(O!Chain(q)) :
           O!Chain(q)[k] \in O!Everything \ {o}
      /\ obj' \in [O!Everything -> ObjectCells]
      /\ obj'[o] = [class |-> c, super |-> DEFAULT, data |-> o]
      /\ \A p \in O!Everything \ {o} : obj'[p] = obj[p]
  BY <1>0, <1>1, NewChains
<1>3. o \in O!Everything /\ DEFAULT \in O!Everything \ {o}
  BY NothingIsNone DEF O!Everything
<1>4. /\ data'[o].layout = c
      /\ \A p \in O!Everything \ {o} : data'[p] = data[p]
  BY <1>0, <1>1, <1>3 DEF ChainInv, DataArrays
<1>5. Laid'
  <2>1. obj'[DEFAULT] = [class |-> DEFAULT, super |-> NULL, data |-> DEFAULT]
    BY <1>0, <1>2, <1>3 DEF Laid
  <2>2. ASSUME NEW p \in O!Everything, obj'[p] # O!FREE
        PROVE  /\ obj'[p].class \in Class \cup {DEFAULT} /\ obj'[p].data \in O!Everything
               /\ obj'[obj'[p].data] # O!FREE /\ data'[obj'[p].data].layout = obj'[p].class
               /\ obj'[p].super = NULL <=> obj'[p].class = DEFAULT
               /\ obj'[p].super # NULL => obj'[obj'[p].super] # O!FREE
    <3>1. CASE p = o
      <4>1. obj'[o] # O!FREE /\ obj'[DEFAULT] # O!FREE
        BY <1>2, <2>1, NothingIsNone DEF O!FREE
      <4>2. obj'[p].class = c /\ obj'[p].super = DEFAULT /\ obj'[p].data = o
        BY <1>2, <3>1
      <4> QED BY <1>3, <1>4, <4>1, <4>2, NothingIsNone
    <3>2. CASE p # o
      <4>1. obj'[p] = obj[p] /\ obj[p] # O!FREE /\ obj[p] \in ObjectCells
        BY <1>0, <1>2, <2>2, <3>2 DEF Laid
      <4>2. /\ obj[p].class \in Class \cup {DEFAULT} /\ obj[p].data \in O!Everything
            /\ obj[obj[p].data] # O!FREE /\ data[obj[p].data].layout = obj[p].class
            /\ obj[p].super = NULL <=> obj[p].class = DEFAULT
            /\ obj[p].super # NULL => obj[obj[p].super] # O!FREE
        BY <1>0, <4>1 DEF Laid
      <4>3. obj[p].data \in O!Everything \ {o}
        BY <1>1, <4>2
      <4>4. obj[p].super # NULL => obj[p].super \in O!Everything \ {o}
        BY <1>1, <4>1, <4>2 DEF ObjectCells
      <4> QED BY <1>2, <1>4, <4>1, <4>2, <4>3, <4>4
    <3> QED BY <3>1, <3>2
  <2> QED BY <1>2, <2>1, <2>2 DEF Laid
<1>6. Refs'
  <2>1. ASSUME NEW q \in known' PROVE q \in Addr /\ obj'[q].class \in Class
    <3>1. CASE q = o
      BY <1>2, <3>1
    <3>2. CASE q # o
      BY <1>0, <1>1, <1>2, <3>2 DEF Refs, O!Everything
    <3> QED BY <3>1, <3>2
  <2> QED BY <2>1 DEF Refs
<1>7. PICK n \in Nat : n = Len(building) /\ building \in Seq(Constructors)
  BY <1>0 DEF ChainInv
<1>8. /\ Len(building') = n + 1 /\ building'[n + 1] = frame
      /\ \A k \in 1 .. n : building'[k] = building[k]
  BY <1>1, <1>7
<1>9. ASSUME NEW q \in known, NEW s \in O!Everything \ {o}, q # s, Apart(q, s)
      PROVE  Apart(q, s)'
  <2>1. q \in O!Everything \ {o}
    BY <1>0, <1>1 DEF Refs, O!Everything
  <2>2. O!Chain(q)' = O!Chain(q) /\ O!Chain(s)' = O!Chain(s)
    BY <1>2, <2>1
  <2> QED BY <1>9, <2>2 DEF Apart
<1>10. ASSUME NEW k \in 1 .. n
       PROVE  UnderWay(k)'
  <2>1. /\ building[k].own \in Addr /\ building[k].self \in Addr \cap known
        /\ building[k].own \in O!Everything /\ building[k].self \in O!Everything
        /\ obj[building[k].own].class \in Class /\ obj[building[k].self].class \in Class
        /\ obj[building[k].own] # O!FREE /\ obj[building[k].self] # O!FREE
        /\ FrameOK(k) /\ OwnParts(building[k].self)
        /\ \A q \in known \ {building[k].self} : Apart(q, building[k].self)
    BY <1>7, FrameIs
  <2>2. PICK s \in O!Everything \ {o} : s = building[k].self
    BY <1>1, <2>1
  <2>3. building[k].own \in O!Everything \ {o}
    BY <1>1, <2>1
  <2>4. /\ OwnParts(s)' /\ O!LastOf(s)' = O!LastOf(s)
        /\ obj'[O!LastOf(s)].class = obj[O!LastOf(s)].class
    <3>1. Len(O!Chain(s)) \in Nat
      BY <1>0, ChainOf
    <3>2. \A i \in 1 .. Len(O!Chain(s)) - 1 : i \in 1 .. Len(O!Chain(s))
      BY <3>1
    <3>3. \A i \in 2 .. Len(O!Chain(s)) - 1 : i \in 1 .. Len(O!Chain(s))
      BY <3>1
    <3>4. /\ \A i \in 1 .. Len(O!Chain(s)) - 1 : obj'[O!Chain(s)[i]] = obj[O!Chain(s)[i]]
          /\ \A i \in 2 .. Len(O!Chain(s)) - 1 : data'[O!Chain(s)[i]] = data[O!Chain(s)[i]]
      BY <1>2, <1>4, <3>2, <3>3
    <3>5. O!Chain(s)' = O!Chain(s) /\ OwnParts(s) /\ obj[s].class \in Class
      BY <1>2, <2>1, <2>2
    <3> QED BY <1>0, <3>4, <3>5, ObjectStays
  <2>5. FrameOK(k)'
    <3>1. \A j \in 1 .. k - 1 : building'[j].own = building[j].own
      BY <1>7, <1>8
    <3>2. building[k].stage = "inherit" =>
             k # Len(building') /\ k # Len(building) /\ building'[k + 1].own = building[k + 1].own
      <4>1. CASE k = n
        <5>1. building[k].stage = "init"
          BY <1>1, <1>7, <4>1, EmptySeq
        <5> QED BY <5>1
      <4>2. CASE k # n
        BY <1>7, <1>8, <4>2
      <4> QED BY <4>1, <4>2
    <3>3. building'[k] = building[k] /\ obj'[building[k].own] = obj[building[k].own]
      BY <1>2, <1>8, <2>3
    <3>4. s \in known' /\ (building[k].own \in known' => building[k].own \in known)
      BY <1>1, <2>1, <2>2, <2>3
    <3> QED BY <2>1, <2>2, <2>4, <3>1, <3>2, <3>3, <3>4, FrameStays
  <2>6. ASSUME NEW q \in known', q # s PROVE Apart(q, s)'
    <3>1. CASE q = o
      <4>1. Len(O!Chain(s)) \in Nat /\ O!Chain(s)' = O!Chain(s) /\ O!Chain(q)' = <<o, DEFAULT>>
        BY <1>0, <1>2, <3>1, ChainOf
      <4>2. \A i \in 1 .. Len(O!Chain(s)) - 1 : O!Chain(s)[i] # o
        BY <1>2, <4>1
      <4>3. Len(<<o, DEFAULT>>) - 1 = 1 /\ <<o, DEFAULT>>[1] = o
        OBVIOUS
      <4> QED BY <4>1, <4>2, <4>3 DEF Apart
    <3>2. CASE q # o
      BY <1>1, <1>9, <2>1, <2>2, <2>6, <3>2
    <3> QED BY <3>1, <3>2
  <2>7. s = building'[k].self
    BY <1>8, <2>2
  <2> QED BY <2>4, <2>5, <2>6, <2>7, UnderWayAfter
<1>11. UnderWay(n + 1)'
  <2>1. O!LastOf(o)' = o /\ O!Chain(o)' = <<o, DEFAULT>>
    BY <1>2 DEF O!LastOf
  <2>2. OwnParts(o)'
    <3>1. Len(<<o, DEFAULT>>) = 2
      OBVIOUS
    <3> QED BY <2>1, <3>1 DEF OwnParts
  <2>3. FrameOK(n + 1)'
    <3>1. building'[n + 1] = frame /\ Len(building') = n + 1
      BY <1>8
    <3>2. \A j \in 1 .. (n + 1) - 1 : building'[j].own # o
      <4>1. ASSUME NEW j \in 1 .. n PROVE building[j].own # o
        BY <1>1, <1>7, FrameIs
      <4>2. (n + 1) - 1 = n
        OBVIOUS
      <4> QED BY <1>8, <4>1, <4>2
    <3>3. /\ frame.class = c /\ frame.own = o /\ frame.self = o /\ frame.lower = c
          /\ frame.stage = "init" => Parent[c] = NULL
      BY <1>1
    <3>4. o \in known' /\ obj'[o].class = c
      BY <1>1, <1>2
    <3>5. /\ building'[n + 1].class = c /\ building'[n + 1].own = o /\ building'[n + 1].self = o
          /\ building'[n + 1].lower = c
          /\ building'[n + 1].stage = "init" => Parent[c] = NULL
      BY <3>1, <3>3
    <3>6. O!LastOf(building[n + 1].self)' = o
      BY <2>1, <3>5 DEF O!LastOf, O!Chain
    <3>7. FrameOK(n + 1)' <=>
            /\ obj'[building'[n + 1].own].class = building'[n + 1].class /\ building'[n + 1].self \in known'
            /\ IF building'[n + 1].own = building'[n + 1].self THEN building'[n + 1].lower = building'[n + 1].class
               ELSE building'[n + 1].own \notin known'
            /\ building'[n + 1].stage = "init" => Parent[obj'[O!LastOf(building[n + 1].self)'].class] = NULL
            /\ building'[n + 1].stage = "inherit" /\ n + 1 = Len(building') =>
                 O!LastOf(building[n + 1].self)' = building'[n + 1].own
            /\ building'[n + 1].stage = "inherit" /\ n + 1 # Len(building') =>
                 obj'[building'[n + 1].own].super = building'[(n + 1) + 1].own
            /\ \A j \in 1 .. (n + 1) - 1 : building'[j].own # building'[n + 1].own
      BY DEF FrameOK
    <3>8. /\ obj'[building'[n + 1].own].class = building'[n + 1].class /\ building'[n + 1].self \in known'
          /\ building'[n + 1].own = building'[n + 1].self
          /\ building'[n + 1].lower = building'[n + 1].class
      BY <3>4, <3>5
    <3>9. building'[n + 1].stage = "init" => Parent[obj'[O!LastOf(building[n + 1].self)'].class] = NULL
      BY <3>4, <3>5, <3>6
    <3>10. /\ O!LastOf(building[n + 1].self)' = building'[n + 1].own
           /\ \A j \in 1 .. (n + 1) - 1 : building'[j].own # building'[n + 1].own
      BY <3>2, <3>5, <3>6
    <3>11. ~ (n + 1 # Len(building'))
      BY <3>1
    <3> HIDE DEF FrameOK
    <3> QED BY <3>7, <3>8, <3>9, <3>10, <3>11
  <2>4. ASSUME NEW q \in known', q # o PROVE Apart(q, o)'
    <3>1. q \in O!Everything \ {o}
      BY <1>0, <1>1, <2>4 DEF Refs, O!Everything
    <3>2. Len(O!Chain(q)) \in Nat /\ O!Chain(q)' = O!Chain(q)
      BY <1>0, <1>2, <3>1, ChainOf
    <3>3. \A i \in 1 .. Len(O!Chain(q)) - 1 : O!Chain(q)[i] # o
      BY <1>2, <3>1, <3>2
    <3>4. Len(<<o, DEFAULT>>) - 1 = 1 /\ <<o, DEFAULT>>[1] = o
      OBVIOUS
    <3> QED BY <2>1, <3>2, <3>3, <3>4 DEF Apart
  <2>5. o = building'[n + 1].self
    BY <1>1, <1>8
  <2> QED BY <2>2, <2>3, <2>4, <2>5, UnderWayAfter
<1>12. ASSUME NEW k \in 1 .. Len(building')
       PROVE  UnderWay(k)'
  <2>1. CASE k = n + 1
    BY <1>11, <2>1
  <2>2. CASE k \in 1 .. n
    BY <1>10, <2>2
  <2> QED BY <1>7, <1>8, <2>1, <2>2
<1>13. DefaultData'
  <2>1. DefaultData
    BY DEF ObjectInv
  <2>2. \A q \in O!Everything : obj'[q] = obj[q] \/ obj'[q].class = c
    BY <1>2
  <2> QED BY <2>1, <2>2, NothingIsNone DEF DefaultData
<1> QED BY <1>0, <1>2, <1>5, <1>6, <1>12, <1>13 DEF ObjectInv

(* References see what ObjectSpec says.                                      *)
Pairs == (Class \cup {DEFAULT, NULL}) \X (O!Everything \cup {NULL})

LEMMA PartsIs ==
  ASSUME O!ConstantsOK, Laid, Paths(obj), NEW q \in O!Everything, obj[q].class \in Class
  PROVE  /\ Len(O!PartsOf(q)) = Len(O!Chain(q)) - 1 /\ DOMAIN O!PartsOf(q) = 1 .. Len(O!Chain(q)) - 1
         /\ O!PartsOf(q) \in Seq(Pairs) /\ Len(O!PartsOf(q)) \in Nat \ {0}
         /\ \A k \in 1 .. Len(O!Chain(q)) - 1 :
              O!PartsOf(q)[k] = <<obj[O!Chain(q)[k]].class, obj[O!Chain(q)[k]].data>>
<1>1. /\ Len(O!Chain(q)) - 1 \in Nat \ {0} /\ Len(O!Chain(q)) \in Nat
      /\ \A k \in 1 .. Len(O!Chain(q)) : O!Chain(q)[k] \in O!Everything
  <2>1. /\ Len(O!Chain(q)) \in Nat /\ Len(O!Chain(q)) >= 2
        /\ \A k \in 1 .. Len(O!Chain(q)) : O!Chain(q)[k] \in O!Everything
    BY ChainOf, PartsOfObject
  <2>2. PICK m : m = Len(O!Chain(q))
    OBVIOUS
  <2>3. m \in Nat /\ m >= 2
    BY <2>1, <2>2
  <2>4. m - 1 \in Nat \ {0}
    BY <2>3
  <2> QED BY <2>1, <2>2, <2>4
<1>2. PICK n \in Nat : n = Len(O!Chain(q)) - 1 /\ n # 0
  BY <1>1
<1> DEFINE f == [k \in 1 .. n |-> <<obj[O!Chain(q)[k]].class, obj[O!Chain(q)[k]].data>>]
<1>3. O!PartsOf(q) = f
  BY <1>2 DEF O!PartsOf
<1>4. ASSUME NEW k \in 1 .. n
      PROVE  <<obj[O!Chain(q)[k]].class, obj[O!Chain(q)[k]].data>> \in Pairs
  <2>1. k \in 1 .. Len(O!Chain(q))
    BY <1>1, <1>2
  <2>2. obj[O!Chain(q)[k]] \in ObjectCells
    BY <1>1, <2>1 DEF Laid
  <2> QED BY <2>2 DEF ObjectCells, Pairs
<1>5. f \in Seq(Pairs) /\ Len(f) = n /\ DOMAIN f = 1 .. n
  <2>1. f \in [1 .. n -> Pairs] /\ DOMAIN f = 1 .. n
    BY <1>4
  <2>2. f \in Seq(Pairs)
    BY <1>2, <2>1
  <2>3. Len(f) = n
    BY <1>2, <2>1, <2>2
  <2> QED BY <2>1, <2>2, <2>3
<1>6. \A k \in 1 .. n : f[k] = <<obj[O!Chain(q)[k]].class, obj[O!Chain(q)[k]].data>>
  OBVIOUS
<1> HIDE DEF f
<1> QED BY <1>2, <1>3, <1>5, <1>6

\* What a reference sees is all a step has to say of it.
LEMMA SeenIs ==
  ASSUME NEW q \in Addr
  PROVE  /\ O!parts[q] = IF q \in known THEN O!PartsOf(q) ELSE << >>
         /\ O!parts'[q] = IF q \in known' THEN O!PartsOf(q)' ELSE << >>
  BY DEF O!parts

LEMMA ConstructRefines ==
  ASSUME O!ConstantsOK, ObjectInv, NEW c \in Class, O!Construct(c)
  PROVE  O!Objects!Construct
<1>0. Laid /\ Paths(obj) /\ Refs
  BY DEF ObjectInv
<1>1. PICK o \in Addr :
        /\ obj[o] = O!FREE
        /\ obj' = [obj EXCEPT ![o] = [class |-> c, super |-> DEFAULT, data |-> o]]
        /\ known' = known \cup {o}
        /\ answer' = <<"new", o, c>>
        /\ o \notin known
  BY ConstructIs
<1>2. /\ O!Chain(o)' = <<o, DEFAULT>>
      /\ \A q \in O!Everything \ {o} : O!Chain(q)' = O!Chain(q)
      /\ \A q \in O!Everything \ {o} : \A k \in 1 .. Len(O!Chain(q)) :
           O!Chain(q)[k] \in O!Everything \ {o}
      /\ obj'[o] = [class |-> c, super |-> DEFAULT, data |-> o]
      /\ \A p \in O!Everything \ {o} : obj'[p] = obj[p]
  BY <1>0, <1>1, NewChains
<1>3. O!PartsOf(o)' = << <<c, o>> >>
  <2>1. O!PartsOf(o)' = [k \in 1 .. Len(O!Chain(o)') - 1 |->
                           <<obj'[O!Chain(o)'[k]].class, obj'[O!Chain(o)'[k]].data>>]
    BY DEF O!PartsOf
  <2>2. Len(<<o, DEFAULT>>) - 1 = 1
    OBVIOUS
  <2>3. ASSUME NEW k \in 1 .. 1
        PROVE  <<obj'[<<o, DEFAULT>>[k]].class, obj'[<<o, DEFAULT>>[k]].data>> = <<c, o>>
    BY <1>2
  <2>4. O!PartsOf(o)' = [k \in 1 .. 1 |-> <<c, o>>]
    BY <1>2, <2>1, <2>2, <2>3
  <2> QED BY <2>4
<1>4. O!parts[o] = << >> /\ O!parts'[o] = << <<c, o>> >>
  BY <1>1, <1>3, SeenIs
<1>5. ASSUME NEW q \in Addr, q # o
      PROVE  O!parts'[q] = O!parts[q] /\ \A k \in DOMAIN O!parts[q] : O!parts[q][k][2] # o
  <2>1. CASE q \notin known
    <3>1. O!parts'[q] = << >> /\ O!parts[q] = << >>
      BY <1>1, <1>5, <2>1, SeenIs
    <3> QED BY <3>1
  <2>2. CASE q \in known
    <3>1. q \in O!Everything \ {o} /\ obj[q].class \in Class
      BY <1>0, <1>5, <2>2 DEF Refs, O!Everything
    <3>2. /\ Len(O!Chain(q)) \in Nat /\ DOMAIN O!PartsOf(q) = 1 .. Len(O!Chain(q)) - 1
          /\ \A k \in 1 .. Len(O!Chain(q)) - 1 :
               O!PartsOf(q)[k] = <<obj[O!Chain(q)[k]].class, obj[O!Chain(q)[k]].data>>
      BY <1>0, <3>1, ChainOf, PartsIs
    <3>3. ASSUME NEW k \in 1 .. Len(O!Chain(q)) - 1
          PROVE  /\ obj'[O!Chain(q)[k]] = obj[O!Chain(q)[k]]
                 /\ obj[O!Chain(q)[k]].data # o
      <4>1. k \in 1 .. Len(O!Chain(q))
        BY <3>2
      <4>2. O!Chain(q)[k] \in O!Everything \ {o} /\ obj[O!Chain(q)[k]] # O!FREE
        BY <1>0, <1>2, <3>1, <4>1, PartsOfObject
      <4>3. obj[obj[O!Chain(q)[k]].data] # O!FREE
        BY <1>0, <4>2 DEF Laid
      <4> QED BY <1>1, <1>2, <4>2, <4>3
    <3>4. O!PartsOf(q)' = O!PartsOf(q)
      BY <1>0, <1>2, <3>1, <3>3, PartsAfter
    <3>5. O!parts[q] = O!PartsOf(q) /\ O!parts'[q] = O!PartsOf(q)'
      BY <1>1, <2>2, SeenIs
    <3> QED BY <3>2, <3>3, <3>4, <3>5
  <2> QED BY <2>1, <2>2
<1>6. answer'[1] = "new" /\ answer'[2] = o /\ answer'[3] = c
  BY <1>1
<1>7. Len(<< <<c, o>> >>) = 1 /\ << <<c, o>> >>[1][1] = c /\ << <<c, o>> >>[1][2] = o
  OBVIOUS
<1>8. \A q \in Addr : \A k \in DOMAIN O!parts[q] : O!parts[q][k][2] # o
  BY <1>4, <1>5
<1>9. O!Objects!Others({o})
  BY <1>5 DEF O!Objects!Others
<1> QED BY <1>4, <1>6, <1>7, <1>8, <1>9 DEF O!Objects!Construct

\* A new part p of class c becomes the super of part e.
AddsPart(e, p, c) ==
  obj' = [obj EXCEPT ![p] = [class |-> c, super |-> DEFAULT, data |-> p], ![e].super = p]

LEMMA LongerCells ==
  ASSUME O!ConstantsOK, Laid, NEW p \in Addr, obj[p] = O!FREE, NEW c \in Class,
         NEW e \in Addr, obj[e].class \in Class, AddsPart(e, p, c)
  PROVE  /\ obj' \in [O!Everything -> ObjectCells] /\ e # p
         /\ obj'[p] = [class |-> c, super |-> DEFAULT, data |-> p]
         /\ obj'[e] = [class |-> obj[e].class, super |-> p, data |-> obj[e].data]
         /\ \A q \in O!Everything \ {p, e} : obj'[q] = obj[q]
<1>1. /\ p \in O!Everything /\ e \in O!Everything \ {p} /\ DEFAULT \in O!Everything \ {p, e}
      /\ obj \in [O!Everything -> ObjectCells]
  BY NothingIsNone DEF O!Everything, Laid, O!FREE
<1>2. /\ obj'[p] = [class |-> c, super |-> DEFAULT, data |-> p]
      /\ obj'[e] = [obj[e] EXCEPT !.super = p]
      /\ \A q \in O!Everything \ {p, e} : obj'[q] = obj[q]
      /\ obj' = [q \in O!Everything |-> obj'[q]]
  <2> DEFINE mid == [obj EXCEPT ![p] = [class |-> c, super |-> DEFAULT, data |-> p]]
  <2>1. /\ mid = [q \in O!Everything |-> mid[q]] /\ mid[e] = obj[e]
        /\ mid[p] = [class |-> c, super |-> DEFAULT, data |-> p]
        /\ \A q \in O!Everything \ {p, e} : mid[q] = obj[q]
    BY <1>1
  <2>2. obj' = [mid EXCEPT ![e].super = p]
    BY DEF AddsPart
  <2> HIDE DEF mid
  <2> QED BY <1>1, <2>1, <2>2
<1>3. obj'[e] = [class |-> obj[e].class, super |-> p, data |-> obj[e].data]
  <2>1. obj[e] \in ObjectCells
    BY <1>1
  <2> QED BY <1>2, <2>1 DEF ObjectCells
<1>4. obj' \in [O!Everything -> ObjectCells]
  <2>1. ASSUME NEW q \in O!Everything PROVE obj'[q] \in ObjectCells
    <3>1. CASE q = p
      BY <1>1, <1>2, <3>1 DEF ObjectCells
    <3>2. CASE q = e
      <4>1. obj[e] \in ObjectCells
        BY <1>1
      <4> QED BY <1>1, <1>3, <3>2, <4>1 DEF ObjectCells
    <3>3. CASE q # p /\ q # e
      BY <1>1, <1>2, <3>3
    <3> QED BY <3>1, <3>2, <3>3
  <2> QED BY <1>2, <2>1
<1> QED BY <1>1, <1>2, <1>3, <1>4

LEMMA LongerChains ==
  ASSUME O!ConstantsOK, Laid, Paths(obj), NEW p \in Addr, obj[p] = O!FREE,
         NEW e \in Addr, obj[e].class \in Class, e # p,
         obj'[p].super = DEFAULT, obj'[e].super = p,
         \A q \in O!Everything \ {p, e} : obj'[q] = obj[q]
  PROVE  /\ Paths(obj')
         /\ \A q \in O!Everything \ {p} : \A k \in 1 .. Len(O!Chain(q)) :
              O!Chain(q)[k] \in O!Everything \ {p}
         /\ \A q \in O!Everything \ {p} :
              (\A k \in 1 .. Len(O!Chain(q)) : O!Chain(q)[k] # e) => O!Chain(q)' = O!Chain(q)
         /\ \A q \in O!Everything \ {p} : \A i \in 1 .. Len(O!Chain(q)) :
              O!Chain(q)[i] = e => O!Chain(q)' = SubSeq(O!Chain(q), 1, i) \o <<p, DEFAULT>>
<1>1. /\ p \in O!Everything /\ e \in O!Everything \ {p} /\ DEFAULT \in O!Everything \ {p, e}
      /\ obj[DEFAULT].super = NULL
  BY NothingIsNone DEF O!Everything, Laid, O!FREE
<1>2. \A q \in O!Everything \ {p, e} : obj'[q] = obj[q]
  OBVIOUS
<1>3. obj'[e].super = p
  OBVIOUS
<1>5. Path(<<DEFAULT>>, obj')
  BY <1>1, <1>2 DEF Path
<1>6. Path(<<p, DEFAULT>>, obj') /\ <<p, DEFAULT>>[1] = p
  BY <1>1, <1>2 DEF Path
<1>7. ASSUME NEW q \in O!Everything \ {p}
      PROVE  /\ Path(O!Chain(q), obj) /\ O!Chain(q)[1] = q /\ Len(O!Chain(q)) \in Nat
             /\ \A k \in 1 .. Len(O!Chain(q)) : O!Chain(q)[k] \in O!Everything \ {p}
  <2>1. /\ Path(O!Chain(q), obj) /\ O!Chain(q)[1] = q
        /\ Len(O!Chain(q)) \in Nat
        /\ \A k \in 1 .. Len(O!Chain(q)) : O!Chain(q)[k] \in O!Everything
        /\ \A k \in 2 .. Len(O!Chain(q)) : obj[O!Chain(q)[k]] # O!FREE
    BY ChainOf
  <2>2. ASSUME NEW k \in 1 .. Len(O!Chain(q)) PROVE O!Chain(q)[k] # p
    <3>1. k = 1 \/ k \in 2 .. Len(O!Chain(q))
      BY <2>1
    <3> QED BY <2>1, <3>1
  <2> QED BY <2>1, <2>2
<1>8. ASSUME NEW q \in O!Everything \ {p}, \A k \in 1 .. Len(O!Chain(q)) : O!Chain(q)[k] # e
      PROVE  Path(O!Chain(q), obj')
  <2>1. PICK t : /\ t = O!Chain(q) /\ Path(t, obj)
                 /\ \A k \in 1 .. Len(t) : t[k] \in O!Everything \ {p, e}
    BY <1>7, <1>8
  <2>2. \A k \in 1 .. Len(t) : obj'[t[k]].super = obj[t[k]].super
    BY <1>2, <2>1
  <2>3. Path(t, obj')
    BY <2>1, <2>2, PathStays
  <2> QED BY <2>1, <2>3
<1>9. ASSUME NEW q \in O!Everything \ {p}, NEW i \in 1 .. Len(O!Chain(q)), O!Chain(q)[i] = e
      PROVE  /\ Path(SubSeq(O!Chain(q), 1, i) \o <<p, DEFAULT>>, obj')
             /\ (SubSeq(O!Chain(q), 1, i) \o <<p, DEFAULT>>)[1] = q
  <2>1. PICK t : /\ t = O!Chain(q) /\ Path(t, obj) /\ t[1] = q /\ Len(t) \in Nat
                 /\ i \in 1 .. Len(t) /\ t[i] = e
                 /\ \A k \in 1 .. Len(t) : t[k] \in O!Everything \ {p}
    BY <1>7, <1>9
  <2>2. ASSUME NEW k \in 1 .. i - 1 PROVE obj'[t[k]].super = obj[t[k]].super
    <3>1. k \in 1 .. Len(t) /\ k # i
      BY <2>1
    <3>2. t[k] # e
      BY <2>1, <3>1, PathDistinct
    <3> QED BY <1>2, <2>1, <3>1, <3>2
  <2>3. PICK u : u = <<p, DEFAULT>> /\ Path(u, obj') /\ u[1] = p
    BY <1>6
  <2>4. obj'[t[i]].super = u[1]
    BY <1>3, <2>1, <2>3
  <2>p. Path(t, obj) /\ Path(u, obj') /\ i \in 1 .. Len(t)
    BY <2>1, <2>3
  <2>5. Path(SubSeq(t, 1, i) \o u, obj') /\ \A k \in 1 .. i : (SubSeq(t, 1, i) \o u)[k] = t[k]
    BY <2>p, <2>2, <2>4, Rerouted
  <2>6. 1 \in 1 .. i
    BY <2>1
  <2>7. (SubSeq(t, 1, i) \o u)[1] = q
    BY <2>1, <2>5, <2>6
  <2> QED BY <2>1, <2>3, <2>5, <2>7
<1>10. Paths(obj')
  <2>1. ASSUME NEW q \in O!Everything PROVE \E s : Path(s, obj') /\ s[1] = q
    <3>1. CASE q = p
      BY <1>6, <3>1
    <3>2. CASE q # p /\ \A k \in 1 .. Len(O!Chain(q)) : O!Chain(q)[k] # e
      <4>1. Path(O!Chain(q), obj') /\ O!Chain(q)[1] = q
        BY <1>7, <1>8, <3>2
      <4> QED BY <4>1
    <3>3. CASE q # p /\ \E k \in 1 .. Len(O!Chain(q)) : O!Chain(q)[k] = e
      BY <1>9, <3>3
    <3> QED BY <3>1, <3>2, <3>3
  <2> QED BY <2>1 DEF Paths
<1>11. \A q \in O!Everything \ {p} :
         (\A k \in 1 .. Len(O!Chain(q)) : O!Chain(q)[k] # e) => O!Chain(q)' = O!Chain(q)
  BY <1>7, <1>8, <1>10, ChainAfter
<1>12. \A q \in O!Everything \ {p} : \A i \in 1 .. Len(O!Chain(q)) :
         O!Chain(q)[i] = e => O!Chain(q)' = SubSeq(O!Chain(q), 1, i) \o <<p, DEFAULT>>
  <2>1. ASSUME NEW q \in O!Everything \ {p}, NEW i \in 1 .. Len(O!Chain(q)), O!Chain(q)[i] = e
        PROVE  O!Chain(q)' = SubSeq(O!Chain(q), 1, i) \o <<p, DEFAULT>>
    <3>0. /\ Path(SubSeq(O!Chain(q), 1, i) \o <<p, DEFAULT>>, obj')
          /\ (SubSeq(O!Chain(q), 1, i) \o <<p, DEFAULT>>)[1] = q
      BY <1>9, <2>1
    <3>1. PICK t : /\ t = SubSeq(O!Chain(q), 1, i) \o <<p, DEFAULT>>
                   /\ Path(t, obj') /\ t[1] = q
      BY <3>0
    <3>2. O!Chain(q)' = t
      BY <1>10, <3>1, ChainAfter
    <3> QED BY <3>1, <3>2
  <2> QED BY <2>1
<1> QED BY <1>7, <1>10, <1>11, <1>12

LEMMA InheritIs ==
  ASSUME O!ConstantsOK, ObjectInv, O!Inherit
  PROVE  \E n \in Nat, p \in Addr, s \in Addr, e \in Addr, c \in Class :
           /\ n = Len(building) /\ n # 0 /\ building[n].stage = "inherit"
           /\ building[n].self = s /\ building[n].own = e
           /\ c = Parent[building[n].class] /\ obj[e].class = building[n].class
           /\ s \in known /\ O!LastOf(s) = e
           /\ obj[p] = O!FREE /\ p \notin known
           /\ AddsPart(e, p, c)
           /\ data' = [data EXCEPT ![p] = [layout |-> c, outer |-> c], ![s].outer = c]
           /\ building' = Append(building,
                [class |-> c, own |-> p, self |-> s, lower |-> O!Outer(s),
                 stage |-> IF Parent[c] = NULL THEN "init" ELSE "inherit"])
           /\ known' = known
           /\ answer' = <<"part", s, c>>
<1>1. PICK n \in Nat : n = Len(building) /\ n # 0 /\ building \in Seq(Constructors)
  BY EmptySeq DEF ObjectInv, ChainInv, O!Inherit
<1>2. n \in 1 .. Len(building)
  BY <1>1
<1>3. /\ building[n] = O!Top /\ building[n].stage = "inherit"
      /\ O!Room(1) /\ O!Part(Parent[O!Top.class], O!Top.self)
      /\ answer' = <<"part", O!Top.self, Parent[O!Top.class]>> /\ known' = known
  BY <1>1 DEF O!Inherit, O!Top
<1>4. /\ building[n].own \in Addr /\ building[n].self \in Addr \cap known
      /\ FrameOK(n) /\ HasOwn(building[n]) /\ Parent[building[n].class] \in Class
  BY <1>2, <1>3, FrameIs DEF ObjectInv, ChainInv
<1>5. PICK s \in Addr, e \in Addr, c \in Class :
        /\ s = building[n].self /\ e = building[n].own /\ c = Parent[building[n].class]
        /\ s \in known /\ O!LastOf(s) = e /\ obj[e].class = building[n].class
        /\ obj[s].data = s
  BY <1>1, <1>3, <1>4 DEF FrameOK, HasOwn
<1>6. PICK p \in Addr : p = O!Fresh(1)[1] /\ obj[p] = O!FREE
  BY <1>3, FreshPlace
<1>7. p \notin known
  BY <1>6, NothingIsNone DEF O!FREE, ObjectInv, Refs
<1>8. /\ AddsPart(e, p, c)
      /\ data' = [data EXCEPT ![p] = [layout |-> c, outer |-> c], ![s].outer = c]
      /\ building' = Append(building,
           [class |-> c, own |-> p, self |-> s, lower |-> O!Outer(s),
            stage |-> IF Parent[c] = NULL THEN "init" ELSE "inherit"])
  BY <1>3, <1>5, <1>6 DEF O!Part, AddsPart
<1> QED BY <1>1, <1>3, <1>5, <1>6, <1>7, <1>8

LEMMA UnderWayStays ==
  ASSUME O!ConstantsOK, ObjectInv, NEW k \in 1 .. Len(building), NEW s, s = building[k].self,
         building'[k] = building[k], \A j \in 1 .. k - 1 : building'[j].own = building[j].own,
         O!Chain(s)' = O!Chain(s),
         \A i \in 1 .. Len(O!Chain(s)) - 1 :
           /\ obj'[O!Chain(s)[i]].class = obj[O!Chain(s)[i]].class
           /\ obj'[O!Chain(s)[i]].data = obj[O!Chain(s)[i]].data,
         \A i \in 2 .. Len(O!Chain(s)) - 1 :
           data'[O!Chain(s)[i]].outer = data[O!Chain(s)[i]].outer,
         obj'[building[k].own].class = obj[building[k].own].class,
         building[k].stage = "inherit" => obj'[building[k].own].super = obj[building[k].own].super,
         s \in known', building[k].own \in known' => building[k].own \in known,
         building[k].stage = "inherit" =>
           \/ k # Len(building') /\ k # Len(building) /\ building'[k + 1].own = building[k + 1].own
           \/ k = Len(building') /\ k = Len(building),
         \A q \in known' \ {s} : Apart(q, s)'
  PROVE  UnderWay(k)'
<1>1. /\ s \in O!Everything /\ obj[s].class \in Class /\ FrameOK(k) /\ OwnParts(s)
  BY FrameIs
<1>2. Laid /\ Paths(obj)
  BY DEF ObjectInv
<1>3. OwnParts(s)' /\ O!LastOf(s)' = O!LastOf(s) /\ obj'[O!LastOf(s)].class = obj[O!LastOf(s)].class
  BY <1>1, <1>2, ObjectStays
<1>4. FrameOK(k)'
  BY <1>1, <1>3, FrameStays
<1>5. s = building'[k].self
  OBVIOUS
<1> QED BY <1>3, <1>4, <1>5, UnderWayAfter

\* An object under construction has parts that no other reference sees.
LEMMA NotIn ==
  ASSUME O!ConstantsOK, ObjectInv, NEW q \in known, NEW e \in O!Everything, obj[e].class \in Class,
         \A i \in 1 .. Len(O!Chain(q)) - 1 : O!Chain(q)[i] # e
  PROVE  \A i \in 1 .. Len(O!Chain(q)) : O!Chain(q)[i] # e
<1>1. Laid /\ Paths(obj) /\ q \in O!Everything /\ obj[q].class \in Class
  BY DEF ObjectInv, Refs, O!Everything
<1>2. Len(O!Chain(q)) \in Nat /\ obj[O!Chain(q)[Len(O!Chain(q))]].class = DEFAULT
  BY <1>1, ChainOf, PartsOfObject
<1>3. ASSUME NEW i \in 1 .. Len(O!Chain(q)) PROVE O!Chain(q)[i] # e
  <2>1. i \in 1 .. Len(O!Chain(q)) - 1 \/ i = Len(O!Chain(q))
    BY <1>2
  <2> QED BY <1>2, <2>1, NothingIsNone
<1> QED BY <1>3

\* The object that inherits, and the others.
LEMMA InheritChains ==
  ASSUME O!ConstantsOK, ObjectInv, NEW n \in Nat, n = Len(building), n # 0,
         building[n].stage = "inherit", NEW s, s = building[n].self, NEW p \in Addr,
         NEW e \in Addr, e = building[n].own, NEW c \in Class, obj[p] = O!FREE,
         O!LastOf(s) = e, AddsPart(e, p, c)
  PROVE  /\ obj' \in [O!Everything -> ObjectCells] /\ e # p /\ Paths(obj')
         /\ obj'[p] = [class |-> c, super |-> DEFAULT, data |-> p]
         /\ obj'[e] = [class |-> obj[e].class, super |-> p, data |-> obj[e].data]
         /\ \A q \in O!Everything \ {p, e} : obj'[q] = obj[q]
         /\ \A q \in O!Everything \ {p} : \A k \in 1 .. Len(O!Chain(q)) :
              O!Chain(q)[k] \in O!Everything \ {p}
         /\ \A q \in known \ {s} :
              /\ O!Chain(q)' = O!Chain(q)
              /\ \A k \in 1 .. Len(O!Chain(q)) : O!Chain(q)[k] \in O!Everything \ {p, e}
         /\ \E m \in Nat :
              /\ m >= 2 /\ m = Len(O!Chain(s)) /\ O!Chain(s)[m - 1] = e
              /\ Len(O!Chain(s)') = m + 1 /\ O!Chain(s)'[m] = p
              /\ \A k \in 1 .. m - 1 : O!Chain(s)'[k] = O!Chain(s)[k]
<1>1. Laid /\ Paths(obj) /\ Refs
  BY DEF ObjectInv
<1>2. n \in 1 .. Len(building)
  OBVIOUS
<1>3. /\ s \in O!Everything /\ s \in known /\ e \in O!Everything
      /\ obj[e].class \in Class /\ obj[s].class \in Class /\ s # p
      /\ \A q \in known \ {s} : Apart(q, s)
  BY <1>2, FrameIs
<1>4. /\ obj' \in [O!Everything -> ObjectCells] /\ e # p
      /\ obj'[p] = [class |-> c, super |-> DEFAULT, data |-> p]
      /\ obj'[e] = [class |-> obj[e].class, super |-> p, data |-> obj[e].data]
      /\ \A q \in O!Everything \ {p, e} : obj'[q] = obj[q]
  BY <1>1, <1>3, LongerCells
<1>5. obj'[p].super = DEFAULT /\ obj'[e].super = p
  BY <1>4
<1>6. /\ Paths(obj')
      /\ \A q \in O!Everything \ {p} : \A k \in 1 .. Len(O!Chain(q)) :
           O!Chain(q)[k] \in O!Everything \ {p}
      /\ \A q \in O!Everything \ {p} :
           (\A k \in 1 .. Len(O!Chain(q)) : O!Chain(q)[k] # e) => O!Chain(q)' = O!Chain(q)
      /\ \A q \in O!Everything \ {p} : \A i \in 1 .. Len(O!Chain(q)) :
           O!Chain(q)[i] = e => O!Chain(q)' = SubSeq(O!Chain(q), 1, i) \o <<p, DEFAULT>>
  BY <1>1, <1>3, <1>4, <1>5, LongerChains
<1>7. /\ Len(O!Chain(s)) \in Nat /\ Len(O!Chain(s)) >= 2 /\ O!Chain(s) \in Seq(O!Everything)
      /\ O!Chain(s)[Len(O!Chain(s)) - 1] = e
  BY <1>1, <1>3, ChainOf, PartsOfObject
<1>8. PICK m \in Nat : m >= 2 /\ m = Len(O!Chain(s)) /\ O!Chain(s)[m - 1] = e
  BY <1>7
<1>9. m - 1 \in 1 .. m /\ m - 1 \in Nat
  BY <1>8
<1>10. ASSUME NEW q \in known \ {s}
       PROVE  /\ O!Chain(q)' = O!Chain(q)
              /\ \A k \in 1 .. Len(O!Chain(q)) : O!Chain(q)[k] \in O!Everything \ {p, e}
  <2>1. q \in O!Everything \ {p}
    BY <1>1, NothingIsNone DEF Refs, O!Everything, O!FREE
  <2>2. ASSUME NEW i \in 1 .. Len(O!Chain(q)) - 1 PROVE O!Chain(q)[i] # e
    <3>1. m - 1 \in 1 .. Len(O!Chain(s)) - 1
      BY <1>8
    <3> QED BY <1>3, <1>8, <3>1 DEF Apart
  <2>3. \A i \in 1 .. Len(O!Chain(q)) : O!Chain(q)[i] # e
    BY <1>3, <2>2, NotIn
  <2> QED BY <1>6, <2>1, <2>3
<1>11. O!Chain(s)' = SubSeq(O!Chain(s), 1, m - 1) \o <<p, DEFAULT>>
  BY <1>3, <1>6, <1>8, <1>9
<1>12. PICK t, u : t = O!Chain(s) /\ u = SubSeq(t, 1, m - 1) /\ t \in Seq(O!Everything) /\ Len(t) = m
  BY <1>7, <1>8
<1>13. u \in Seq(O!Everything) /\ Len(u) = m - 1 /\ \A k \in 1 .. m - 1 : u[k] = t[k]
  BY <1>8, <1>9, <1>12, SubSeqProperties
<1>14. PICK v : v = u \o <<p, DEFAULT>>
  OBVIOUS
<1>15. p \in O!Everything /\ DEFAULT \in O!Everything
  BY DEF O!Everything
<1>16. Len(v) = m + 1 /\ v[m] = p /\ \A k \in 1 .. m - 1 : v[k] = t[k]
  <2>1. <<p, DEFAULT>> \in Seq(O!Everything) /\ Len(<<p, DEFAULT>>) = 2 /\ <<p, DEFAULT>>[1] = p
    BY <1>15
  <2>a. PICK w : w = <<p, DEFAULT>> /\ w \in Seq(O!Everything) /\ Len(w) = 2 /\ w[1] = p
    BY <2>1
  <2>b. PICK h \in Nat : h = m - 1 /\ h = Len(u)
    BY <1>9, <1>13
  <2>c. v = u \o w /\ u \in Seq(O!Everything)
    BY <1>13, <1>14, <2>a
  <2>2. Len(v) = h + 2 /\ v[h + 1] = p
    <3>1. Len(u \o w) = Len(u) + Len(w)
      BY <2>a, <2>c
    <3>2. h + 1 \in 1 .. Len(u) + Len(w) /\ ~ (h + 1 <= Len(u)) /\ h + 1 - Len(u) = 1
      BY <2>a, <2>b
    <3>3. (u \o w)[h + 1] = w[h + 1 - Len(u)]
      BY <2>a, <2>c, <3>2, ConcatProperties
    <3> QED BY <2>a, <2>b, <2>c, <3>1, <3>2, <3>3
  <2>3. h + 2 = m + 1 /\ h + 1 = m
    BY <2>b
  <2>4. \A k \in 1 .. m - 1 : v[k] = u[k]
    BY <1>9, <1>13, <1>14, <2>1
  <2> QED BY <1>13, <2>2, <2>3, <2>4
<1>17. v = O!Chain(s)'
  BY <1>11, <1>12, <1>14
<1>18. /\ m >= 2 /\ m = Len(O!Chain(s)) /\ O!Chain(s)[m - 1] = e
       /\ Len(O!Chain(s)') = m + 1 /\ O!Chain(s)'[m] = p
       /\ \A k \in 1 .. m - 1 : O!Chain(s)'[k] = O!Chain(s)[k]
  BY <1>8, <1>12, <1>16, <1>17
<1> QED BY <1>4, <1>6, <1>10, <1>18

\* The state of an object that inherits: a part more, which is its own.
LEMMA InheritLaid ==
  ASSUME O!ConstantsOK, ObjectInv, NEW p \in Addr, NEW e \in Addr, NEW c \in Class, NEW s \in Addr,
         obj[p] = O!FREE, obj[e].class \in Class, obj' \in [O!Everything -> ObjectCells], e # p,
         obj'[p] = [class |-> c, super |-> DEFAULT, data |-> p],
         obj'[e] = [class |-> obj[e].class, super |-> p, data |-> obj[e].data],
         \A q \in O!Everything \ {p, e} : obj'[q] = obj[q],
         data'[p].layout = c, \A q \in O!Everything \ {p} : data'[q].layout = data[q].layout
  PROVE  Laid'
<1>1. Laid /\ obj[DEFAULT] = [class |-> DEFAULT, super |-> NULL, data |-> DEFAULT]
  BY DEF ObjectInv, Laid
<1>2. DEFAULT \in O!Everything \ {p, e} /\ p \in O!Everything /\ e \in O!Everything \ {p}
  BY NothingIsNone DEF O!Everything
<1>3. obj'[DEFAULT] = [class |-> DEFAULT, super |-> NULL, data |-> DEFAULT]
  BY <1>1, <1>2
<1>4. \A q \in O!Everything \ {p} : obj[q] # O!FREE => obj'[q] # O!FREE
  BY <1>2, NothingIsNone DEF O!FREE
<1>5. obj'[p] # O!FREE
  BY NothingIsNone DEF O!FREE
<1>6. ASSUME NEW q \in O!Everything, obj'[q] # O!FREE
      PROVE  /\ obj'[q].class \in Class \cup {DEFAULT} /\ obj'[q].data \in O!Everything
             /\ obj'[obj'[q].data] # O!FREE /\ data'[obj'[q].data].layout = obj'[q].class
             /\ obj'[q].super = NULL <=> obj'[q].class = DEFAULT
             /\ obj'[q].super # NULL => obj'[obj'[q].super] # O!FREE
  <2>1. CASE q = p
    <3>1. obj'[q].class = c /\ obj'[q].super = DEFAULT /\ obj'[q].data = p
      BY <2>1
    <3>2. obj'[DEFAULT] # O!FREE
      BY <1>3, NothingIsNone DEF O!FREE
    <3> QED BY <1>2, <1>5, <3>1, <3>2, NothingIsNone
  <2>2. CASE q # p
    <3>1. obj[q] # O!FREE /\ obj'[q].class = obj[q].class /\ obj'[q].data = obj[q].data
      <4>1. CASE q = e
        BY <4>1, NothingIsNone DEF O!FREE
      <4>2. CASE q # e
        BY <1>6, <2>2, <4>2
      <4> QED BY <4>1, <4>2
    <3>2. /\ obj[q].class \in Class \cup {DEFAULT} /\ obj[q].data \in O!Everything
          /\ obj[obj[q].data] # O!FREE /\ data[obj[q].data].layout = obj[q].class
          /\ obj[q].super = NULL <=> obj[q].class = DEFAULT
          /\ obj[q].super # NULL => obj[obj[q].super] # O!FREE
      BY <1>1, <3>1 DEF Laid
    <3>3. obj[q].data # p
      BY <3>2
    <3>4. CASE q = e
      <4>1. obj'[q].super = p
        BY <3>4
      <4> QED BY <1>2, <1>4, <1>5, <3>1, <3>2, <3>3, <3>4, <4>1, NothingIsNone
    <3>5. CASE q # e
      <4>1. obj'[q].super = obj[q].super /\ obj[q] \in ObjectCells
        BY <1>1, <2>2, <3>5 DEF Laid
      <4>2. obj[q].super # NULL => obj[q].super \in O!Everything \ {p}
        BY <3>2, <4>1 DEF ObjectCells
      <4> QED BY <1>4, <3>1, <3>2, <3>3, <4>1, <4>2
    <3> QED BY <3>4, <3>5
  <2> QED BY <2>1, <2>2
<1> QED BY <1>3, <1>6 DEF Laid

LEMMA InheritKeeps ==
  ASSUME O!ConstantsOK, ObjectInv, O!Inherit
  PROVE  ObjectInv'
<1>0. ChainInv' /\ ChainInv /\ Laid /\ Paths(obj) /\ Refs
  BY AtInherit DEF ObjectInv
<1>1. PICK n \in Nat, p \in Addr, s \in Addr, e \in Addr, c \in Class :
        /\ n = Len(building) /\ n # 0 /\ building[n].stage = "inherit"
        /\ building[n].self = s /\ building[n].own = e
        /\ c = Parent[building[n].class] /\ obj[e].class = building[n].class
        /\ s \in known /\ O!LastOf(s) = e
        /\ obj[p] = O!FREE /\ p \notin known
        /\ AddsPart(e, p, c)
        /\ data' = [data EXCEPT ![p] = [layout |-> c, outer |-> c], ![s].outer = c]
        /\ building' = Append(building,
             [class |-> c, own |-> p, self |-> s, lower |-> O!Outer(s),
              stage |-> IF Parent[c] = NULL THEN "init" ELSE "inherit"])
        /\ known' = known
        /\ answer' = <<"part", s, c>>
  BY InheritIs
<1>a. /\ n = Len(building) /\ n # 0 /\ building[n].stage = "inherit"
      /\ s = building[n].self /\ e = building[n].own
      /\ obj[p] = O!FREE /\ O!LastOf(s) = e /\ AddsPart(e, p, c)
  BY <1>1
<1>b. building \in Seq(Constructors) /\ n \in 1 .. Len(building)
  BY <1>0, <1>1 DEF ChainInv
<1>2. /\ obj' \in [O!Everything -> ObjectCells] /\ e # p /\ Paths(obj')
      /\ obj'[p] = [class |-> c, super |-> DEFAULT, data |-> p]
      /\ obj'[e] = [class |-> obj[e].class, super |-> p, data |-> obj[e].data]
      /\ \A q \in O!Everything \ {p, e} : obj'[q] = obj[q]
      /\ \A q \in O!Everything \ {p} : \A k \in 1 .. Len(O!Chain(q)) :
           O!Chain(q)[k] \in O!Everything \ {p}
      /\ \A q \in known \ {s} :
           /\ O!Chain(q)' = O!Chain(q)
           /\ \A k \in 1 .. Len(O!Chain(q)) : O!Chain(q)[k] \in O!Everything \ {p, e}
      /\ \E m \in Nat :
           /\ m >= 2 /\ m = Len(O!Chain(s)) /\ O!Chain(s)[m - 1] = e
           /\ Len(O!Chain(s)') = m + 1 /\ O!Chain(s)'[m] = p
           /\ \A k \in 1 .. m - 1 : O!Chain(s)'[k] = O!Chain(s)[k]
  BY <1>a, InheritChains
<1>3. PICK m \in Nat :
        /\ m >= 2 /\ m = Len(O!Chain(s)) /\ O!Chain(s)[m - 1] = e
        /\ Len(O!Chain(s)') = m + 1 /\ O!Chain(s)'[m] = p
        /\ \A k \in 1 .. m - 1 : O!Chain(s)'[k] = O!Chain(s)[k]
  BY <1>2
<1>4. p \in O!Everything /\ e \in O!Everything /\ s \in O!Everything /\ s # p
      /\ obj[s].class \in Class /\ obj[e].class \in Class
  BY <1>a, <1>b, FrameIs DEF O!Everything
<1>5. /\ data'[p] = [layout |-> c, outer |-> c] /\ data'[s].layout = data[s].layout
      /\ \A q \in O!Everything \ {p, s} : data'[q] = data[q]
  <2> DEFINE mid == [data EXCEPT ![p] = [layout |-> c, outer |-> c]]
  <2>1. /\ mid = [q \in O!Everything |-> mid[q]] /\ mid[s] = data[s]
        /\ mid[p] = [layout |-> c, outer |-> c]
        /\ \A q \in O!Everything \ {p, s} : mid[q] = data[q]
    BY <1>0, <1>4 DEF ChainInv, DataArrays
  <2>2. data' = [mid EXCEPT ![s].outer = c]
    BY <1>1
  <2>3. data[s] \in [layout : Class \cup {DEFAULT, NULL}, outer : Class \cup {NULL}]
    BY <1>0, <1>4 DEF ChainInv, DataArrays
  <2> HIDE DEF mid
  <2> QED BY <1>4, <2>1, <2>2, <2>3
<1>6. Laid'
  <2>1. data'[p].layout = c /\ \A q \in O!Everything \ {p} : data'[q].layout = data[q].layout
    BY <1>5
  <2>2. /\ obj'[p] = [class |-> c, super |-> DEFAULT, data |-> p]
        /\ obj'[e] = [class |-> obj[e].class, super |-> p, data |-> obj[e].data]
        /\ \A q \in O!Everything \ {p, e} : obj'[q] = obj[q]
        /\ obj' \in [O!Everything -> ObjectCells] /\ e # p
    BY <1>2
  <2>3. obj[p] = O!FREE /\ obj[e].class \in Class
    BY <1>a, <1>4
  <2> QED BY <2>1, <2>2, <2>3, InheritLaid
<1>7. Refs'
  <2>1. ASSUME NEW q \in known' PROVE q \in Addr /\ obj'[q].class \in Class
    <3>1. q \in known /\ q \in Addr /\ q # p /\ obj[q].class \in Class /\ q \in O!Everything
      BY <1>0, <1>1, <2>1 DEF Refs, O!Everything
    <3>2. obj'[q].class = obj[q].class
      BY <1>2, <3>1
    <3> QED BY <3>1, <3>2
  <2> QED BY <2>1 DEF Refs
<1>8. building \in Seq(Constructors) /\ n \in 1 .. Len(building)
  BY <1>b
<1>9. PICK frame :
        /\ frame = [class |-> c, own |-> p, self |-> s, lower |-> O!Outer(s),
                    stage |-> IF Parent[c] = NULL THEN "init" ELSE "inherit"]
        /\ building' = Append(building, frame)
  BY <1>1
<1>10. /\ Len(building') = n + 1 /\ building'[n + 1] = frame
       /\ \A k \in 1 .. n : building'[k] = building[k]
  BY <1>1, <1>8, <1>9
<1>11. /\ frame.class = c /\ frame.own = p /\ frame.self = s
       /\ frame.stage = "init" => Parent[c] = NULL
  BY <1>9
\* What other references see, and what s's own parts are.
<1>12. ASSUME NEW q \in known, q # s
       PROVE  /\ q \in O!Everything /\ Len(O!Chain(q)) \in Nat \ {0} /\ Apart(q, s)
              /\ O!Chain(q)' = O!Chain(q) /\ Apart(q, s)'
  <2>1. q \in O!Everything /\ O!Chain(q)' = O!Chain(q)
        /\ \A k \in 1 .. Len(O!Chain(q)) : O!Chain(q)[k] \in O!Everything \ {p, e}
    BY <1>0, <1>2, <1>12 DEF Refs, O!Everything
  <2>2. Len(O!Chain(q)) \in Nat \ {0}
    BY <1>0, <2>1, ChainOf
  <2>3. Apart(q, s)
    BY <1>1, <1>8, <1>12, FrameIs
  <2>4. ASSUME NEW i \in 1 .. Len(O!Chain(q)) - 1, NEW j \in 1 .. Len(O!Chain(s)') - 1
        PROVE  O!Chain(q)[i] # O!Chain(s)'[j]
    <3>1. i \in 1 .. Len(O!Chain(q)) /\ j \in 1 .. m
      BY <1>3, <2>2
    <3>2. CASE j = m
      BY <1>3, <2>1, <3>1, <3>2
    <3>3. CASE j # m
      <4>1. j \in 1 .. m - 1 /\ j \in 1 .. Len(O!Chain(s)) - 1
        BY <1>3, <3>1, <3>3
      <4>2. O!Chain(q)[i] # O!Chain(s)[j]
        BY <2>3, <4>1 DEF Apart
      <4> QED BY <1>3, <4>1, <4>2
    <3> QED BY <3>2, <3>3
  <2>5. Apart(q, s)'
    BY <2>1, <2>4 DEF Apart
  <2> QED BY <2>1, <2>2, <2>3, <2>5
<1>13. OwnParts(s)'
  <2>1. OwnParts(s) /\ O!Chain(s)[1] = s /\ Path(O!Chain(s), obj)
    BY <1>0, <1>1, <1>4, <1>8, FrameIs, ChainOf
  <2>c. ASSUME NEW i \in 1 .. m - 1
        PROVE  O!Chain(s)[i] \in O!Everything \ {p} /\ obj'[O!Chain(s)[i]].class = obj[O!Chain(s)[i]].class
               /\ obj'[O!Chain(s)[i]].data = obj[O!Chain(s)[i]].data /\ i \in 1 .. Len(O!Chain(s))
    <3>1. i \in 1 .. Len(O!Chain(s))
      BY <1>3
    <3>2. O!Chain(s)[i] \in O!Everything \ {p}
      BY <1>2, <1>4, <3>1
    <3>3. CASE O!Chain(s)[i] = e
      BY <1>2, <3>1, <3>2, <3>3
    <3>4. CASE O!Chain(s)[i] # e
      BY <1>2, <3>1, <3>2, <3>4
    <3> QED BY <3>3, <3>4
  <2>2. ASSUME NEW i \in 1 .. m - 1
        PROVE  obj'[O!Chain(s)'[i + 1]].class = Parent[obj'[O!Chain(s)'[i]].class]
    <3>1. CASE i = m - 1
      <4>1. i + 1 = m
        BY <1>3, <3>1
      <4>2. O!Chain(s)'[i + 1] = p /\ O!Chain(s)'[i] = e
        BY <1>3, <3>1, <4>1
      <4>3. obj'[p].class = c /\ obj'[e].class = obj[e].class
        BY <1>2
      <4> QED BY <1>1, <4>2, <4>3
    <3>2. CASE i # m - 1
      <4>1. i \in 1 .. Len(O!Chain(s)) - 2 /\ i + 1 \in 1 .. m - 1
        BY <1>3, <3>2
      <4>2. obj[O!Chain(s)[i + 1]].class = Parent[obj[O!Chain(s)[i]].class]
        BY <2>1, <4>1 DEF OwnParts
      <4> QED BY <1>3, <2>c, <4>1, <4>2
    <3> QED BY <3>1, <3>2
  <2>3. ASSUME NEW i \in 2 .. m
        PROVE  /\ obj'[O!Chain(s)'[i]].data = O!Chain(s)'[i]
               /\ data'[O!Chain(s)'[i]].outer = obj'[O!Chain(s)'[i]].class
    <3>1. CASE i = m
      BY <1>2, <1>3, <1>5, <3>1
    <3>2. CASE i # m
      <4>1. i \in 2 .. Len(O!Chain(s)) - 1 /\ i \in 1 .. m - 1 /\ 1 \in 1 .. Len(O!Chain(s)) /\ i # 1
        BY <1>3, <3>2
      <4>2. O!Chain(s)'[i] = O!Chain(s)[i] /\ O!Chain(s)[i] \in O!Everything \ {p}
        BY <1>3, <2>c, <4>1
      <4>3. O!Chain(s)[i] # s
        BY <2>1, <2>c, <4>1, PathDistinct
      <4>4. data'[O!Chain(s)[i]] = data[O!Chain(s)[i]]
        BY <1>5, <4>2, <4>3
      <4>5. /\ obj[O!Chain(s)[i]].data = O!Chain(s)[i]
            /\ data[O!Chain(s)[i]].outer = obj[O!Chain(s)[i]].class
        BY <2>1, <4>1 DEF OwnParts
      <4> QED BY <2>c, <4>1, <4>2, <4>4, <4>5
    <3> QED BY <3>1, <3>2
  <2>4. (m + 1) - 2 = m - 1 /\ (m + 1) - 1 = m
    OBVIOUS
  <2> QED BY <1>3, <2>2, <2>3, <2>4 DEF OwnParts
<1>14. ASSUME NEW q \in known', q # s PROVE Apart(q, s)'
  BY <1>1, <1>12, <1>14
<1>15. O!LastOf(s)' = p
  <2>1. (m + 1) - 1 = m
    OBVIOUS
  <2>2. O!LastOf(s)' = O!Chain(s)'[Len(O!Chain(s)') - 1]
    BY DEF O!LastOf
  <2> QED BY <1>3, <2>1, <2>2
<1>16. ASSUME NEW k \in 1 .. n, building[k].self = s
       PROVE  UnderWay(k)'
  <2>1. k \in 1 .. Len(building) /\ k \in Nat /\ k <= n
    BY <1>1
  <2>2. /\ building[k].own \in O!Everything /\ building[k].own # p
        /\ FrameOK(k)
    BY <1>1, <2>1, FrameIs
  <2>3. building[k].stage = "inherit"
    <3>1. CASE k = n
      BY <1>1, <3>1
    <3>2. CASE k # n
      <4>1. k < n
        BY <2>1, <3>2
      <4>2. building[k].stage # "init"
        BY <1>0, <1>1, <1>8, <1>16, <2>1, <4>1 DEF ChainInv, Nested
      <4>3. building[k].stage \in {"init", "inherit"}
        BY <1>8, <2>1, FrameIs DEF Constructors
      <4> QED BY <4>2, <4>3
    <3> QED BY <3>1, <3>2
  <2>4. /\ obj'[building[k].own].class = obj[building[k].own].class
        /\ building'[k] = building[k] /\ k # n + 1
    <3>1. CASE building[k].own = e
      BY <1>2, <1>10, <2>1, <3>1
    <3>2. CASE building[k].own # e
      BY <1>2, <1>10, <2>1, <2>2, <3>2
    <3> QED BY <3>1, <3>2
  <2>5. obj'[building[k].own].super = building'[k + 1].own
    <3>1. CASE k = n
      <4>1. building[k].own = e /\ building'[k + 1] = frame
        BY <1>1, <1>10, <3>1
      <4> QED BY <1>2, <1>11, <4>1
    <3>2. CASE k # n
      <4>1. k \in 1 .. n - 1 /\ k + 1 \in 1 .. n
        BY <2>1, <3>2
      <4>2. building[k].own # e
        BY <1>1, <1>8, <4>1, FrameIs DEF FrameOK
      <4>3. obj[building[k].own].super = building[k + 1].own
        BY <1>1, <2>2, <2>3, <3>2 DEF FrameOK
      <4>4. obj'[building[k].own] = obj[building[k].own] /\ building'[k + 1] = building[k + 1]
        BY <1>2, <1>10, <2>2, <4>1, <4>2
      <4> QED BY <4>3, <4>4
    <3> QED BY <3>1, <3>2
  <2>6. \A j \in 1 .. k - 1 : building'[j] = building[j]
    BY <1>10, <2>1
  <2>7. FrameOK(k)' <=>
          /\ obj'[building'[k].own].class = building'[k].class /\ building'[k].self \in known'
          /\ IF building'[k].own = building'[k].self THEN building'[k].lower = building'[k].class
             ELSE building'[k].own \notin known'
          /\ building'[k].stage = "init" => Parent[obj'[O!LastOf(building[k].self)'].class] = NULL
          /\ building'[k].stage = "inherit" /\ k = Len(building') =>
               O!LastOf(building[k].self)' = building'[k].own
          /\ building'[k].stage = "inherit" /\ k # Len(building') =>
               obj'[building'[k].own].super = building'[k + 1].own
          /\ \A j \in 1 .. k - 1 : building'[j].own # building'[k].own
    BY DEF FrameOK
  <2>8. /\ obj[building[k].own].class = building[k].class /\ building[k].self \in known
        /\ IF building[k].own = building[k].self THEN building[k].lower = building[k].class
           ELSE building[k].own \notin known
        /\ \A j \in 1 .. k - 1 : building[j].own # building[k].own
    BY <2>2 DEF FrameOK
  <2>9. FrameOK(k)'
    <3> HIDE DEF FrameOK
    <3> QED BY <1>1, <1>10, <2>3, <2>4, <2>5, <2>6, <2>7, <2>8
  <2>10. s = building'[k].self
    BY <1>16, <2>4
  <2> QED BY <1>13, <1>14, <2>9, <2>10, UnderWayAfter
<1>17. ASSUME NEW k \in 1 .. n, building[k].self # s
       PROVE  UnderWay(k)'
  <2>1. k \in 1 .. Len(building) /\ k \in Nat /\ k <= n /\ k # n
    BY <1>1, <1>17
  <2>2. PICK r \in Addr : r = building[k].self /\ r \in known /\ r # s /\ obj[r].class \in Class
    BY <1>17, <2>1, FrameIs
  <2>3. /\ building[k].own \in O!Everything /\ building[k].own # p /\ FrameOK(k)
        /\ \A q \in known \ {r} : Apart(q, r)
    BY <1>1, <2>1, <2>2, FrameIs
  <2>4. building[k].own # e
    <3>1. k \in 1 .. n - 1
      BY <2>1
    <3> QED BY <1>1, <1>8, <3>1, FrameIs DEF FrameOK
  <2>5. /\ r \in O!Everything /\ Len(O!Chain(r)) \in Nat \ {0} /\ O!Chain(r)' = O!Chain(r)
        /\ \A i \in 1 .. Len(O!Chain(r)) : O!Chain(r)[i] \in O!Everything \ {p, e}
    BY <1>2, <1>12, <2>2
  <2>6. Apart(s, r) /\ O!Chain(s)[1] = s
    BY <1>0, <1>1, <1>4, <2>2, <2>3, ChainOf
  <2>7. ASSUME NEW i \in 1 .. Len(O!Chain(r)) - 1
        PROVE  /\ obj'[O!Chain(r)[i]] = obj[O!Chain(r)[i]] /\ data'[O!Chain(r)[i]] = data[O!Chain(r)[i]]
    <3>1. i \in 1 .. Len(O!Chain(r)) /\ 1 \in 1 .. Len(O!Chain(s)) - 1
      BY <1>3, <2>5
    <3>2. O!Chain(r)[i] # s
      BY <2>6, <3>1 DEF Apart
    <3> QED BY <1>2, <1>5, <2>5, <3>1, <3>2
  <2>8. \A i \in 2 .. Len(O!Chain(r)) - 1 : i \in 1 .. Len(O!Chain(r)) - 1
    BY <2>5
  <2>9. \A i \in 2 .. Len(O!Chain(r)) - 1 : data'[O!Chain(r)[i]].outer = data[O!Chain(r)[i]].outer
    BY <2>7, <2>8
  <2>10. obj'[building[k].own] = obj[building[k].own]
    BY <1>2, <2>3, <2>4
  <2>11. building'[k] = building[k] /\ (\A j \in 1 .. k - 1 : building'[j].own = building[j].own)
         /\ building'[k + 1].own = building[k + 1].own /\ k # Len(building) /\ k # Len(building')
    <3>1. k + 1 \in 1 .. n /\ (\A j \in 1 .. k - 1 : j \in 1 .. n) /\ k # n + 1
      BY <2>1
    <3> QED BY <1>1, <1>10, <2>1, <3>1
  <2>12. ASSUME NEW q \in known', q # r PROVE Apart(q, r)'
    <3>1. CASE q = s
      <4>1. ASSUME NEW i \in 1 .. Len(O!Chain(s)') - 1, NEW j \in 1 .. Len(O!Chain(r)) - 1
            PROVE  O!Chain(s)'[i] # O!Chain(r)[j]
        <5>1. j \in 1 .. Len(O!Chain(r)) /\ i \in 1 .. m
          BY <1>3, <2>5
        <5>2. CASE i = m
          BY <1>3, <2>5, <5>1, <5>2
        <5>3. CASE i # m
          <6>1. i \in 1 .. m - 1 /\ i \in 1 .. Len(O!Chain(s)) - 1
            BY <1>3, <5>1, <5>3
          <6>2. O!Chain(s)[i] # O!Chain(r)[j]
            BY <2>6, <6>1 DEF Apart
          <6> QED BY <1>3, <6>1, <6>2
        <5> QED BY <5>2, <5>3
      <4>2. Apart(s, r)'
        BY <2>5, <4>1 DEF Apart
      <4> QED BY <3>1, <4>2
    <3>2. CASE q # s
      <4>1. q \in known /\ O!Chain(q)' = O!Chain(q) /\ Apart(q, r)
        BY <1>1, <1>2, <2>3, <2>12, <3>2
      <4> QED BY <2>5, <4>1 DEF Apart
    <3> QED BY <3>1, <3>2
  <2>13. r \in known' /\ (building[k].own \in known' => building[k].own \in known)
    BY <1>1, <2>2
  <2>14. \A i \in 1 .. Len(O!Chain(r)) - 1 :
           /\ obj'[O!Chain(r)[i]].class = obj[O!Chain(r)[i]].class
           /\ obj'[O!Chain(r)[i]].data = obj[O!Chain(r)[i]].data
    BY <2>7
  <2>15. O!Chain(r)' = O!Chain(r) /\ r = building[k].self
    BY <2>2, <2>5
  <2> QED BY <2>1, <2>9, <2>10, <2>11, <2>12, <2>13, <2>14, <2>15, UnderWayStays
<1>18. UnderWay(n + 1)'
  <2>1. \A j \in 1 .. (n + 1) - 1 : building'[j].own # p
    <3>1. ASSUME NEW j \in 1 .. n PROVE building[j].own # p
      BY <1>1, <1>8, FrameIs
    <3>2. (n + 1) - 1 = n
      OBVIOUS
    <3> QED BY <1>10, <3>1, <3>2
  <2>2. /\ building'[n + 1].class = c /\ building'[n + 1].own = p /\ building'[n + 1].self = s
        /\ building'[n + 1].stage = "init" => Parent[c] = NULL
    BY <1>10, <1>11
  <2>3. O!LastOf(building[n + 1].self)' = p
    <3>1. O!LastOf(building[n + 1].self)' = O!LastOf(s)'
      BY <2>2 DEF O!LastOf, O!Chain
    <3> QED BY <1>15, <3>1
  <2>4. FrameOK(n + 1)' <=>
          /\ obj'[building'[n + 1].own].class = building'[n + 1].class /\ building'[n + 1].self \in known'
          /\ IF building'[n + 1].own = building'[n + 1].self THEN building'[n + 1].lower = building'[n + 1].class
             ELSE building'[n + 1].own \notin known'
          /\ building'[n + 1].stage = "init" => Parent[obj'[O!LastOf(building[n + 1].self)'].class] = NULL
          /\ building'[n + 1].stage = "inherit" /\ n + 1 = Len(building') =>
               O!LastOf(building[n + 1].self)' = building'[n + 1].own
          /\ building'[n + 1].stage = "inherit" /\ n + 1 # Len(building') =>
               obj'[building'[n + 1].own].super = building'[(n + 1) + 1].own
          /\ \A j \in 1 .. (n + 1) - 1 : building'[j].own # building'[n + 1].own
    BY DEF FrameOK
  <2>5. obj'[p].class = c /\ s \in known' /\ p \notin known' /\ s # p /\ Len(building') = n + 1
    BY <1>1, <1>2, <1>4, <1>10
  <2>6. FrameOK(n + 1)'
    <3> HIDE DEF FrameOK
    <3> QED BY <2>1, <2>2, <2>3, <2>4, <2>5
  <2>7. s = building'[n + 1].self
    BY <2>2
  <2> QED BY <1>13, <1>14, <2>6, <2>7, UnderWayAfter
<1>19. ASSUME NEW k \in 1 .. Len(building') PROVE UnderWay(k)'
  <2>1. k = n + 1 \/ k \in 1 .. n
    BY <1>10
  <2> QED BY <1>16, <1>17, <1>18, <2>1
<1>20. DefaultData'
  <2>1. DefaultData
    BY DEF ObjectInv
  <2>2. \A q \in O!Everything : obj'[q] = obj[q] \/ obj'[q].class \in Class
    <3>1. obj'[p].class = c /\ obj'[e].class = obj[e].class
      BY <1>2
    <3> QED BY <1>2, <1>4, <3>1
  <2> QED BY <2>1, <2>2, NothingIsNone DEF DefaultData
<1> QED BY <1>0, <1>2, <1>6, <1>7, <1>19, <1>20 DEF ObjectInv

\* What references see after a step that changes no class and no data on their chains.
LEMMA SeesTheSame ==
  ASSUME O!ConstantsOK, Laid, Paths(obj), NEW q \in known, q \in O!Everything, q \in known',
         O!Chain(q)' = O!Chain(q),
         \A k \in 1 .. Len(O!Chain(q)) - 1 :
           /\ obj'[O!Chain(q)[k]].class = obj[O!Chain(q)[k]].class
           /\ obj'[O!Chain(q)[k]].data = obj[O!Chain(q)[k]].data
  PROVE  q \in Addr => O!parts'[q] = O!parts[q]
<1>1. O!PartsOf(q)' = O!PartsOf(q)
  BY PartsAfter
<1> QED BY <1>1, SeenIs

LEMMA InheritRefines ==
  ASSUME O!ConstantsOK, ObjectInv, ObjectInv', O!Inherit
  PROVE  O!Objects!Inherit
<1>0. Laid /\ Paths(obj) /\ Refs /\ Laid' /\ Paths(obj')
  BY DEF ObjectInv
<1>1. PICK n \in Nat, p \in Addr, s \in Addr, e \in Addr, c \in Class :
        /\ n = Len(building) /\ n # 0 /\ building[n].stage = "inherit"
        /\ building[n].self = s /\ building[n].own = e
        /\ c = Parent[building[n].class] /\ obj[e].class = building[n].class
        /\ s \in known /\ O!LastOf(s) = e
        /\ obj[p] = O!FREE /\ p \notin known
        /\ AddsPart(e, p, c)
        /\ data' = [data EXCEPT ![p] = [layout |-> c, outer |-> c], ![s].outer = c]
        /\ building' = Append(building,
             [class |-> c, own |-> p, self |-> s, lower |-> O!Outer(s),
              stage |-> IF Parent[c] = NULL THEN "init" ELSE "inherit"])
        /\ known' = known
        /\ answer' = <<"part", s, c>>
  BY InheritIs
<1>a. /\ n = Len(building) /\ n # 0 /\ building[n].stage = "inherit"
      /\ s = building[n].self /\ e = building[n].own
      /\ obj[p] = O!FREE /\ O!LastOf(s) = e /\ AddsPart(e, p, c)
  BY <1>1
<1>2. /\ obj' \in [O!Everything -> ObjectCells] /\ e # p /\ Paths(obj')
      /\ obj'[p] = [class |-> c, super |-> DEFAULT, data |-> p]
      /\ obj'[e] = [class |-> obj[e].class, super |-> p, data |-> obj[e].data]
      /\ \A q \in O!Everything \ {p, e} : obj'[q] = obj[q]
      /\ \A q \in O!Everything \ {p} : \A k \in 1 .. Len(O!Chain(q)) :
           O!Chain(q)[k] \in O!Everything \ {p}
      /\ \A q \in known \ {s} :
           /\ O!Chain(q)' = O!Chain(q)
           /\ \A k \in 1 .. Len(O!Chain(q)) : O!Chain(q)[k] \in O!Everything \ {p, e}
      /\ \E m \in Nat :
           /\ m >= 2 /\ m = Len(O!Chain(s)) /\ O!Chain(s)[m - 1] = e
           /\ Len(O!Chain(s)') = m + 1 /\ O!Chain(s)'[m] = p
           /\ \A k \in 1 .. m - 1 : O!Chain(s)'[k] = O!Chain(s)[k]
  BY <1>a, InheritChains
<1>3. PICK m \in Nat :
        /\ m >= 2 /\ m = Len(O!Chain(s)) /\ O!Chain(s)[m - 1] = e
        /\ Len(O!Chain(s)') = m + 1 /\ O!Chain(s)'[m] = p
        /\ \A k \in 1 .. m - 1 : O!Chain(s)'[k] = O!Chain(s)[k]
  BY <1>2
<1>4. s \in O!Everything /\ s # p /\ obj[s].class \in Class /\ p \in O!Everything
  BY <1>0, <1>1 DEF O!Everything, Refs
<1>5. PICK t : /\ t = O!parts[s] /\ t \in Seq(Pairs) /\ Len(t) = m - 1 /\ m - 1 \in Nat \ {0}
               /\ \A k \in 1 .. m - 1 : t[k] = <<obj[O!Chain(s)[k]].class, obj[O!Chain(s)[k]].data>>
  <2>1. /\ Len(O!PartsOf(s)) = Len(O!Chain(s)) - 1
        /\ O!PartsOf(s) \in Seq(Pairs) /\ Len(O!PartsOf(s)) \in Nat \ {0}
        /\ \A k \in 1 .. Len(O!Chain(s)) - 1 :
             O!PartsOf(s)[k] = <<obj[O!Chain(s)[k]].class, obj[O!Chain(s)[k]].data>>
    BY <1>0, <1>4, PartsIs
  <2>2. O!parts[s] = O!PartsOf(s)
    BY <1>1, SeenIs
  <2> QED BY <1>3, <2>1, <2>2
<1>6. PICK u : /\ u = O!parts'[s] /\ u = [k \in 1 .. m |->
                    <<obj'[O!Chain(s)'[k]].class, obj'[O!Chain(s)'[k]].data>>]
  <2>1. O!PartsOf(s)' = [k \in 1 .. Len(O!Chain(s)') - 1 |->
                           <<obj'[O!Chain(s)'[k]].class, obj'[O!Chain(s)'[k]].data>>]
    BY DEF O!PartsOf
  <2>2. O!parts'[s] = O!PartsOf(s)'
    BY <1>1, SeenIs
  <2>3. (m + 1) - 1 = m
    OBVIOUS
  <2> QED BY <1>3, <2>1, <2>2, <2>3
<1>7. ASSUME NEW k \in 1 .. m - 1 PROVE u[k] = t[k]
  <2>1. k \in 1 .. Len(O!Chain(s)) /\ k \in 1 .. m
    BY <1>3
  <2>2. O!Chain(s)'[k] = O!Chain(s)[k] /\ O!Chain(s)[k] \in O!Everything \ {p}
    BY <1>2, <1>3, <1>4, <2>1
  <2>3. /\ obj'[O!Chain(s)[k]].class = obj[O!Chain(s)[k]].class
        /\ obj'[O!Chain(s)[k]].data = obj[O!Chain(s)[k]].data
    <3>1. CASE O!Chain(s)[k] = e
      BY <1>2, <3>1
    <3>2. CASE O!Chain(s)[k] # e
      BY <1>2, <2>2, <3>2
    <3> QED BY <3>1, <3>2
  <2> QED BY <1>5, <1>6, <2>1, <2>2, <2>3
<1>8. u[m][1] = c /\ m \in 1 .. m
  <2>1. m \in 1 .. m
    BY <1>3
  <2>2. u[m] = <<obj'[p].class, obj'[p].data>>
    BY <1>3, <1>6, <2>1
  <2> QED BY <1>2, <2>1, <2>2
<1>9. Len(u) = m /\ SubSeq(u, 1, m - 1) = t
  <2>1. Len(u) = m
    BY <1>6
  <2>2. u \in Seq(Pairs)
    <3>1. ASSUME NEW k \in 1 .. m PROVE u[k] \in Pairs
      <4>1. O!Chain(s)'[k] \in O!Everything
        <5>1. O!Chain(s)' = ChainIn(obj', s)
          BY DEF O!Chain, ChainIn
        <5>2. Path(ChainIn(obj', s), obj')
          BY <1>0, <1>4, ChainIs
        <5>3. k \in 1 .. Len(ChainIn(obj', s))
          BY <1>3, <5>1
        <5> QED BY <5>1, <5>2, <5>3, PathIs
      <4>2. obj'[O!Chain(s)'[k]] \in ObjectCells
        BY <1>2, <4>1
      <4> QED BY <1>6, <4>2 DEF ObjectCells, Pairs
    <3>2. u \in [1 .. m -> Pairs]
      BY <1>6, <3>1
    <3> QED BY <1>3, <3>2
  <2>a. PICK v : v = SubSeq(u, 1, m - 1)
    OBVIOUS
  <2>b. m - 1 \in 1 .. m /\ m - 1 \in Nat
    BY <1>3
  <2>3. /\ v = SubSeq(u, 1, m - 1) /\ v \in Seq(Pairs) /\ Len(v) = m - 1
        /\ \A k \in 1 .. m - 1 : v[k] = u[k]
    BY <2>a, <2>b, <2>1, <2>2, SubSeqProperties
  <2>4. v = t
    BY <1>5, <1>7, <2>3, SeqEqual
  <2> QED BY <2>1, <2>3, <2>4
<1>10. ASSUME NEW q \in Addr \ {s} PROVE O!parts'[q] = O!parts[q]
  <2>1. CASE q \in known
    <3>1. /\ q \in O!Everything /\ O!Chain(q)' = O!Chain(q) /\ Len(O!Chain(q)) \in Nat
          /\ \A k \in 1 .. Len(O!Chain(q)) : O!Chain(q)[k] \in O!Everything \ {p, e}
      BY <1>0, <1>2, <2>1, ChainOf DEF O!Everything
    <3>2. \A k \in 1 .. Len(O!Chain(q)) - 1 : obj'[O!Chain(q)[k]] = obj[O!Chain(q)[k]]
      BY <1>2, <3>1
    <3> QED BY <1>0, <1>1, <2>1, <3>1, <3>2, SeesTheSame
  <2>2. CASE q \notin known
    BY <1>1, <2>2, SeenIs
  <2> QED BY <2>1, <2>2
<1>11. O!Objects!Others({s})
  BY <1>10 DEF O!Objects!Others
<1>12. answer'[1] = "part" /\ answer'[2] = s /\ answer'[3] = c
  BY <1>1
<1>13. t # << >> /\ Len(u) = Len(t) + 1
  BY <1>5, <1>9
<1> QED BY <1>5, <1>6, <1>8, <1>9, <1>11, <1>12, <1>13 DEF O!Objects!Inherit

\* The inherits clause links what is already linked.
LEMMA FinishLinks ==
  ASSUME O!ConstantsOK, ObjectInv, O!Finish
  PROVE  \E n \in Nat, s \in Addr :
           /\ n = Len(building) /\ n \in 1 .. Len(building) /\ building[n].stage = "init"
           /\ building[n].self = s /\ building[n].lower \in Class
           /\ data' = [data EXCEPT ![s].outer = building[n].lower]
           /\ building' \in Seq(Constructors) /\ Len(building') = n - 1
           /\ \A k \in 1 .. n - 1 : building'[k] =
                IF k = n - 1 /\ building[k].stage = "inherit" THEN [building[k] EXCEPT !.stage = "init"]
                ELSE building[k]
           /\ obj' = obj /\ known' = known /\ answer' = answer
<1>0. ChainInv /\ Laid
  BY DEF ObjectInv
<1>1. PICK n \in Nat, s \in Addr, own \in Addr :
        /\ n = Len(building) /\ n \in 1 .. Len(building) /\ building[n].stage = "init"
        /\ building[n].self = s /\ building[n].own = own /\ building[n].lower \in Class
        /\ data' = [data EXCEPT ![s].outer = building[n].lower]
        /\ building' \in Seq(Constructors) /\ Len(building') = n - 1
        /\ \A k \in 1 .. n - 1 : building'[k] =
             IF k = n - 1 /\ building[k].stage = "inherit" THEN [building[k] EXCEPT !.stage = "init"]
             ELSE building[k]
        /\ obj' = IF n > 1 /\ building[n - 1].stage = "inherit"
                  THEN [obj EXCEPT ![building[n - 1].own].super = own] ELSE obj
  BY <1>0, FinishIs
<1>2. ASSUME n > 1, building[n - 1].stage = "inherit"
      PROVE  [obj EXCEPT ![building[n - 1].own].super = own] = obj
  <2>1. n - 1 \in 1 .. Len(building) /\ n - 1 # Len(building) /\ (n - 1) + 1 = n
    BY <1>1, <1>2
  <2>2. PICK e \in O!Everything : e = building[n - 1].own /\ FrameOK(n - 1)
    BY <2>1, FrameIs
  <2>3. obj[e].super = own
    BY <1>1, <1>2, <2>1, <2>2 DEF FrameOK
  <2>4. obj[e] \in ObjectCells /\ obj = [q \in O!Everything |-> obj[q]]
    BY <1>0, <2>2 DEF Laid, ChainInv
  <2>5. [obj[e] EXCEPT !.super = own] = obj[e]
    BY <2>3, <2>4 DEF ObjectCells
  <2>6. [obj EXCEPT ![e].super = own] = obj
    BY <2>4, <2>5
  <2> QED BY <2>2, <2>6
<1>3. obj' = obj
  BY <1>1, <1>2
<1>4. known' = known /\ answer' = answer
  BY DEF O!Finish
<1> QED BY <1>1, <1>3, <1>4

\* Chains are as they were if objects are.
LEMMA SameChains ==
  ASSUME obj' = obj, NEW q
  PROVE  O!Chain(q)' = O!Chain(q)
  BY DEF O!Chain

LEMMA FinishKeeps ==
  ASSUME O!ConstantsOK, ObjectInv, O!Finish
  PROVE  ObjectInv'
<1>0. ChainInv' /\ ChainInv /\ Laid /\ Paths(obj) /\ Refs
  BY AtFinish DEF ObjectInv
<1>1. PICK n \in Nat, s \in Addr :
        /\ n = Len(building) /\ n \in 1 .. Len(building) /\ building[n].stage = "init"
        /\ building[n].self = s /\ building[n].lower \in Class
        /\ data' = [data EXCEPT ![s].outer = building[n].lower]
        /\ building' \in Seq(Constructors) /\ Len(building') = n - 1
        /\ \A k \in 1 .. n - 1 : building'[k] =
             IF k = n - 1 /\ building[k].stage = "inherit" THEN [building[k] EXCEPT !.stage = "init"]
             ELSE building[k]
        /\ obj' = obj /\ known' = known /\ answer' = answer
  BY FinishLinks
<1>n. n = Len(building) /\ n \in 1 .. Len(building) /\ Len(building') = n - 1 /\ n \in Nat
  BY <1>1
<1>o. obj' = obj /\ known' = known
  BY <1>1
<1>2. /\ data' \in DataArrays
      /\ \A q \in O!Everything : data'[q].layout = data[q].layout
      /\ \A q \in O!Everything \ {s} : data'[q] = data[q]
  BY <1>0, <1>1 DEF DataArrays, ChainInv, O!Everything
<1>3. Laid'
  BY <1>0, <1>o, <1>2 DEF Laid
<1>4. Paths(obj') /\ Refs'
  BY <1>0, <1>o DEF Refs
<1>5. ASSUME NEW k \in 1 .. n - 1
      PROVE  /\ building'[k].own = building[k].own /\ building'[k].self = building[k].self
             /\ building'[k].class = building[k].class /\ building'[k].lower = building[k].lower
             /\ (k # n - 1 \/ building[k].stage # "inherit") => building'[k] = building[k]
             /\ k = n - 1 => building'[k].stage = "init"
             /\ k \in 1 .. Len(building) /\ k + 1 \in 1 .. Len(building)
  <2>1. k \in 1 .. Len(building) /\ k + 1 \in 1 .. Len(building)
    BY <1>n
  <2>2. building[k] \in Constructors
    BY <2>1, FrameIs
  <2>3. building'[k] =
             IF k = n - 1 /\ building[k].stage = "inherit" THEN [building[k] EXCEPT !.stage = "init"]
             ELSE building[k]
    BY <1>1
  <2> QED BY <2>1, <2>2, <2>3 DEF Constructors
<1>6. ASSUME NEW q \in known, NEW r
      PROVE  Apart(q, r)' <=> Apart(q, r)
  <2>1. O!Chain(q)' = O!Chain(q) /\ O!Chain(r)' = O!Chain(r)
    BY <1>o, SameChains
  <2> QED BY <2>1 DEF Apart
\* Only data[0] of s changes, which is no other object's.
<1>7. ASSUME NEW k \in 1 .. n - 1, NEW r, r = building[k].self
      PROVE  /\ r \in known /\ r \in O!Everything
             /\ \A i \in 2 .. Len(O!Chain(r)) - 1 : data'[O!Chain(r)[i]].outer = data[O!Chain(r)[i]].outer
  <2>1. k \in 1 .. Len(building)
    BY <1>5
  <2>2. /\ r \in known /\ r \in O!Everything /\ obj[r].class \in Class
        /\ \A q \in known \ {r} : Apart(q, r)
    BY <1>7, <2>1, FrameIs
  <2>3. /\ Len(O!Chain(r)) \in Nat /\ Path(O!Chain(r), obj) /\ O!Chain(r)[1] = r
        /\ \A i \in 1 .. Len(O!Chain(r)) : O!Chain(r)[i] \in O!Everything
    BY <1>0, <2>2, ChainOf
  <2>4. s \in known /\ s \in O!Everything /\ obj[s].class \in Class
    BY <1>1, FrameIs
  <2>5. Len(O!Chain(s)) \in Nat /\ Len(O!Chain(s)) >= 2 /\ O!Chain(s)[1] = s
    BY <1>0, <2>4, ChainOf, PartsOfObject
  <2>6. ASSUME NEW i \in 2 .. Len(O!Chain(r)) - 1 PROVE data'[O!Chain(r)[i]].outer = data[O!Chain(r)[i]].outer
    <3>1. i \in 1 .. Len(O!Chain(r)) /\ i \in 1 .. Len(O!Chain(r)) - 1 /\ 1 \in 1 .. Len(O!Chain(r)) /\ i # 1
      BY <2>3
    <3>2. CASE r = s
      <4>1. O!Chain(r)[i] # s
        BY <2>3, <3>1, <3>2, PathDistinct
      <4> QED BY <1>2, <2>3, <3>1, <4>1
    <3>3. CASE r # s
      <4>1. 1 \in 1 .. Len(O!Chain(s)) - 1
        BY <2>5
      <4>2. O!Chain(r)[i] # s
        BY <2>2, <2>4, <2>5, <3>1, <3>3, <4>1 DEF Apart
      <4> QED BY <1>2, <2>3, <3>1, <4>2
    <3> QED BY <3>2, <3>3
  <2> QED BY <2>2, <2>6
<1>8. ASSUME NEW k \in 1 .. n - 1, building'[k] = building[k]
      PROVE  UnderWay(k)'
  <2>1. PICK r : r = building[k].self
    OBVIOUS
  <2>2. /\ r \in known /\ r \in O!Everything
        /\ \A i \in 2 .. Len(O!Chain(r)) - 1 : data'[O!Chain(r)[i]].outer = data[O!Chain(r)[i]].outer
    BY <1>7, <2>1
  <2>3. k \in 1 .. Len(building)
    BY <1>5
  <2>4. \A q \in known \ {r} : Apart(q, r)
    BY <2>1, <2>3, FrameIs
  <2>5. \A q \in known' \ {r} : Apart(q, r)'
    BY <1>o, <1>6, <2>4
  <2>6. \A j \in 1 .. k - 1 : building'[j].own = building[j].own
    BY <1>5
  <2>7. building[k].stage = "inherit" =>
          k # Len(building') /\ k # Len(building) /\ building'[k + 1].own = building[k + 1].own
    <3>1. SUFFICES ASSUME building[k].stage = "inherit"
                   PROVE  k # Len(building') /\ k # Len(building) /\ building'[k + 1].own = building[k + 1].own
      OBVIOUS
    <3>2. k # n - 1
      BY <1>5, <1>8, <3>1
    <3>3. k + 1 \in 1 .. n - 1
      BY <3>2
    <3> QED BY <1>5, <1>n, <3>2, <3>3
  <2>8. O!Chain(r)' = O!Chain(r)
    BY <1>o, SameChains
  <2>9. /\ \A i \in 1 .. Len(O!Chain(r)) - 1 :
             /\ obj'[O!Chain(r)[i]].class = obj[O!Chain(r)[i]].class
             /\ obj'[O!Chain(r)[i]].data = obj[O!Chain(r)[i]].data
        /\ obj'[building[k].own].class = obj[building[k].own].class
        /\ obj'[building[k].own].super = obj[building[k].own].super
        /\ r \in known' /\ (building[k].own \in known' => building[k].own \in known)
    BY <1>o, <2>2
  <2>10. building'[k] = building[k] /\ r = building[k].self
    BY <1>8, <2>1
  <2> QED BY <2>2, <2>3, <2>5, <2>6, <2>7, <2>8, <2>9, <2>10, UnderWayStays
\* The constructor that inherits goes on with the whole of it.
<1>9. ASSUME NEW k, k = n - 1, k \in 1 .. n - 1, building[k].stage = "inherit"
      PROVE  UnderWay(k)'
  <2>1. k \in 1 .. Len(building) /\ n \in 1 .. Len(building)
    BY <1>n, <1>9
  <2>2. building[k].self = s
    <3>1. Nested(k, n)
      BY <1>0, <1>n, <1>9 DEF ChainInv
    <3>2. n = k + 1
      BY <1>n, <1>9
    <3> QED BY <1>1, <1>9, <3>1, <3>2 DEF Nested
  <2>3. FrameOK(k) /\ FrameOK(n) /\ OwnParts(s) /\ \A q \in known \ {s} : Apart(q, s)
    BY <2>1, <2>2, FrameIs
  <2>4. /\ s \in known /\ s \in O!Everything
        /\ \A i \in 2 .. Len(O!Chain(s)) - 1 : data'[O!Chain(s)[i]].outer = data[O!Chain(s)[i]].outer
    BY <1>7, <1>9, <2>2
  <2>5. O!Chain(s)' = O!Chain(s) /\ O!LastOf(s)' = O!LastOf(s)
    <3>1. O!Chain(s)' = O!Chain(s)
      BY <1>o, SameChains
    <3> QED BY <3>1 DEF O!LastOf
  <2>6. Parent[obj'[O!LastOf(s)'].class] = NULL
    BY <1>1, <1>o, <2>3, <2>5 DEF FrameOK
  <2>7. /\ building'[k].own = building[k].own /\ building'[k].self = s
        /\ building'[k].class = building[k].class /\ building'[k].lower = building[k].lower
        /\ building'[k].stage = "init"
        /\ \A j \in 1 .. k - 1 : building'[j].own = building[j].own
    BY <1>5, <1>9, <2>2
  <2>8. O!LastOf(building[k].self)' = O!LastOf(s)'
    BY <2>7 DEF O!LastOf, O!Chain
  <2>9. FrameOK(k)' <=>
          /\ obj'[building'[k].own].class = building'[k].class /\ building'[k].self \in known'
          /\ IF building'[k].own = building'[k].self THEN building'[k].lower = building'[k].class
             ELSE building'[k].own \notin known'
          /\ building'[k].stage = "init" => Parent[obj'[O!LastOf(building[k].self)'].class] = NULL
          /\ building'[k].stage = "inherit" /\ k = Len(building') =>
               O!LastOf(building[k].self)' = building'[k].own
          /\ building'[k].stage = "inherit" /\ k # Len(building') =>
               obj'[building'[k].own].super = building'[k + 1].own
          /\ \A j \in 1 .. k - 1 : building'[j].own # building'[k].own
    BY DEF FrameOK
  <2>10. /\ obj[building[k].own].class = building[k].class /\ building[k].self \in known
         /\ IF building[k].own = building[k].self THEN building[k].lower = building[k].class
            ELSE building[k].own \notin known
         /\ \A j \in 1 .. k - 1 : building[j].own # building[k].own
    BY <2>3 DEF FrameOK
  <2>11. FrameOK(k)'
    <3> HIDE DEF FrameOK
    <3> QED BY <1>o, <2>2, <2>6, <2>7, <2>8, <2>9, <2>10
  <2>12. OwnParts(s)'
    BY <1>o, <2>3, <2>4, <2>5 DEF OwnParts
  <2>13. \A q \in known' \ {s} : Apart(q, s)'
    BY <1>o, <1>6, <2>3
  <2>14. s = building'[k].self
    BY <2>7
  <2> QED BY <2>11, <2>12, <2>13, <2>14, UnderWayAfter
<1>10. ASSUME NEW k \in 1 .. Len(building') PROVE UnderWay(k)'
  <2>1. k \in 1 .. n - 1
    BY <1>n
  <2>2. CASE k = n - 1 /\ building[k].stage = "inherit"
    BY <1>9, <2>1, <2>2
  <2>3. CASE ~ (k = n - 1 /\ building[k].stage = "inherit")
    BY <1>5, <1>8, <2>1, <2>3
  <2> QED BY <2>2, <2>3
<1>11. DefaultData'
  BY <1>o DEF DefaultData, ObjectInv
<1> QED BY <1>0, <1>3, <1>4, <1>10, <1>11 DEF ObjectInv

\* A step that leaves objects and references alone is none for references.
LEMMA SeesNothing ==
  ASSUME obj' = obj, known' = known
  PROVE  O!parts' = O!parts
<1>1. ASSUME NEW q PROVE O!PartsOf(q)' = O!PartsOf(q)
  <2>1. O!Chain(q)' = O!Chain(q)
    BY SameChains
  <2> QED BY <2>1 DEF O!PartsOf
<1> QED BY <1>1 DEF O!parts

LEMMA WholeIsBuilt ==
  ASSUME O!ConstantsOK, ObjectInv
  PROVE  O!BuiltWholeStep
<1> SUFFICES ASSUME O!Finish, O!Top.own = O!Top.self PROVE
      LET chain == O!Chain(O!Top.self)
          n == Len(chain) - 1
      IN  /\ n >= 1 /\ obj'[chain[1]].class = O!Top.class
          /\ \A k \in 1 .. n : data'[obj'[chain[k]].data].outer = obj'[chain[k]].class
          /\ \A k \in 1 .. n - 1 : obj'[chain[k + 1]].class = Parent[obj'[chain[k]].class]
          /\ Parent[obj'[chain[n]].class] = NULL
  BY DEF O!BuiltWholeStep
<1>0. ChainInv /\ Laid /\ Paths(obj) /\ Refs
  BY DEF ObjectInv
<1>1. PICK m \in Nat, s \in Addr :
        /\ m = Len(building) /\ m \in 1 .. Len(building) /\ building[m].stage = "init"
        /\ building[m].self = s /\ building[m].lower \in Class
        /\ data' = [data EXCEPT ![s].outer = building[m].lower]
        /\ building' \in Seq(Constructors) /\ Len(building') = m - 1
        /\ \A k \in 1 .. m - 1 : building'[k] =
             IF k = m - 1 /\ building[k].stage = "inherit" THEN [building[k] EXCEPT !.stage = "init"]
             ELSE building[k]
        /\ obj' = obj /\ known' = known /\ answer' = answer
  BY FinishLinks
<1>2. O!Top = building[m] /\ O!Top.self = s /\ building[m].own = s /\ m \in 1 .. Len(building)
  BY <1>1 DEF O!Top
<1>3. /\ s \in O!Everything /\ obj[s].class \in Class /\ FrameOK(m) /\ OwnParts(s) /\ HasOwn(building[m])
  BY <1>0, <1>1, <1>2, FrameIs DEF ChainInv
<1>4. PICK t : /\ t = O!Chain(s) /\ t[1] = s /\ Len(t) \in Nat /\ Len(t) >= 2 /\ Path(t, obj)
               /\ \A k \in 1 .. Len(t) : t[k] \in O!Everything
               /\ O!LastOf(s) = t[Len(t) - 1]
  BY <1>0, <1>3, ChainOf, PartsOfObject
<1>5. PICK n \in Nat : n = Len(t) - 1 /\ n >= 1
  <2>1. PICK l \in Nat : l = Len(t) /\ l >= 2
    BY <1>4
  <2>2. l - 1 \in Nat /\ l - 1 >= 1
    BY <2>1
  <2> QED BY <2>1, <2>2
<1>6. obj[s].class = building[m].class /\ building[m].lower = building[m].class
  BY <1>2, <1>1, <1>3 DEF FrameOK
<1>7. obj[s].data = s
  BY <1>2, <1>3 DEF HasOwn
<1>8. /\ data'[s].outer = building[m].lower
      /\ \A q \in O!Everything \ {s} : data'[q] = data[q]
  BY <1>0, <1>1 DEF DataArrays, ChainInv, O!Everything
<1>9. ASSUME NEW k \in 1 .. n PROVE data'[obj[t[k]].data].outer = obj[t[k]].class
  <2>1. CASE k = 1
    BY <1>4, <1>6, <1>7, <1>8, <2>1
  <2>2. CASE k # 1
    <3>1. k \in 2 .. Len(t) - 1 /\ k \in 1 .. Len(t) /\ 1 \in 1 .. Len(t)
      BY <1>4, <1>5, <2>2
    <3>2. obj[t[k]].data = t[k] /\ data[t[k]].outer = obj[t[k]].class
      BY <1>3, <1>4, <3>1 DEF OwnParts
    <3>3. t[k] # s
      BY <1>4, <2>2, <3>1, PathDistinct
    <3>4. t[k] \in O!Everything \ {s}
      BY <1>4, <3>1, <3>3
    <3> QED BY <1>8, <3>2, <3>4
  <2> QED BY <2>1, <2>2
<1>10. ASSUME NEW k \in 1 .. n - 1 PROVE obj[t[k + 1]].class = Parent[obj[t[k]].class]
  <2>1. k \in 1 .. Len(t) - 2
    BY <1>4, <1>5
  <2> QED BY <1>3, <1>4, <2>1 DEF OwnParts
<1>11. Parent[obj[t[n]].class] = NULL
  <2>1. Parent[obj[O!LastOf(building[m].self)].class] = NULL
    BY <1>1, <1>3 DEF FrameOK
  <2>2. O!LastOf(building[m].self) = t[n]
    BY <1>1, <1>4, <1>5
  <2> QED BY <2>1, <2>2
<1>12. obj' = obj
  BY <1>1
<1>13. O!Chain(O!Top.self) = t /\ Len(t) - 1 = n
  BY <1>2, <1>4, <1>5
<1>14. obj[t[1]].class = O!Top.class
  BY <1>2, <1>4, <1>6
<1> QED BY <1>5, <1>9, <1>10, <1>11, <1>12, <1>13, <1>14

LEMMA RaiseKeeps ==
  ASSUME O!ConstantsOK, ObjectInv, NEW m \in 0 .. MaxNesting, O!Raise(m)
  PROVE  ObjectInv'
<1>0. ChainInv' /\ ChainInv /\ Laid /\ Paths(obj) /\ Refs
  BY AtRaise DEF ObjectInv
<1>1. /\ building \in Seq(Constructors) /\ m \in Nat /\ m < Len(building)
      /\ m # 0 => building[m].stage = "init"
      /\ building' = SubSeq(building, 1, m) /\ obj' = obj /\ data' = data /\ known' = known
  BY <1>0 DEF ChainInv, O!Raise, O!ConstantsOK
<1>2. /\ building' \in Seq(Constructors) /\ Len(building') = m
      /\ \A k \in 1 .. m : building'[k] = building[k] /\ k \in 1 .. Len(building)
  BY <1>1
<1>o. obj' = obj /\ data' = data /\ known' = known
  BY <1>1
<1>3. Laid' /\ Paths(obj') /\ Refs'
  BY <1>0, <1>o DEF Laid, Refs
<1>4. ASSUME NEW k \in 1 .. m PROVE UnderWay(k)'
  <2>1. PICK s : s = building[k].self
    OBVIOUS
  <2>2. k \in 1 .. Len(building) /\ building'[k] = building[k]
    BY <1>2
  <2>3. s \in known /\ \A q \in known \ {s} : Apart(q, s)
    BY <2>1, <2>2, FrameIs
  <2>4. O!Chain(s)' = O!Chain(s)
    BY <1>o, SameChains
  <2>5. ASSUME NEW q \in known', q # s PROVE Apart(q, s)'
    <3>1. Apart(q, s) /\ O!Chain(q)' = O!Chain(q)
      BY <1>o, <2>3, <2>5, SameChains
    <3> QED BY <2>4, <3>1 DEF Apart
  <2>6. building[k].stage = "inherit" =>
          k # Len(building') /\ k # Len(building) /\ building'[k + 1].own = building[k + 1].own
    <3>1. SUFFICES ASSUME building[k].stage = "inherit"
                   PROVE  k # Len(building') /\ k # Len(building) /\ building'[k + 1].own = building[k + 1].own
      OBVIOUS
    <3>2. k # m
      BY <1>1, <3>1
    <3>3. k + 1 \in 1 .. m /\ k # Len(building)
      BY <1>1, <3>2
    <3> QED BY <1>2, <3>2, <3>3
  <2>7. \A j \in 1 .. k - 1 : building'[j].own = building[j].own
    <3>1. \A j \in 1 .. k - 1 : j \in 1 .. m
      BY <1>1
    <3> QED BY <1>2, <3>1
  <2>8. /\ \A i \in 1 .. Len(O!Chain(s)) - 1 :
             /\ obj'[O!Chain(s)[i]].class = obj[O!Chain(s)[i]].class
             /\ obj'[O!Chain(s)[i]].data = obj[O!Chain(s)[i]].data
        /\ \A i \in 2 .. Len(O!Chain(s)) - 1 :
             data'[O!Chain(s)[i]].outer = data[O!Chain(s)[i]].outer
        /\ obj'[building[k].own].class = obj[building[k].own].class
        /\ obj'[building[k].own].super = obj[building[k].own].super
        /\ s \in known' /\ (building[k].own \in known' => building[k].own \in known)
    BY <1>o, <2>3
  <2> QED BY <2>1, <2>2, <2>4, <2>5, <2>6, <2>7, <2>8, UnderWayStays
<1>5. DefaultData'
  BY <1>o DEF DefaultData, ObjectInv
<1> QED BY <1>0, <1>2, <1>3, <1>4, <1>5 DEF ObjectInv

LEMMA RequestKeeps ==
  ASSUME O!ConstantsOK, ObjectInv, UNCHANGED <<obj, data, building, known>>
  PROVE  ObjectInv'
<1>o. obj' = obj /\ data' = data /\ building' = building /\ known' = known
  OBVIOUS
<1>0. ChainInv /\ Laid /\ DefaultData /\ Paths(obj) /\ Refs
  BY DEF ObjectInv
<1>1. ChainInv'
  BY <1>0, <1>o DEF ChainInv, HasOwn, OuterIsOwn, Nested, O!Outer
<1>2. Laid' /\ DefaultData' /\ Paths(obj') /\ Refs'
  BY <1>0, <1>o DEF Laid, DefaultData, Refs
<1>3. ASSUME NEW k \in 1 .. Len(building) PROVE UnderWay(k)'
  <2>1. PICK s : s = building[k].self
    OBVIOUS
  <2>2. FrameOK(k) /\ s \in known /\ \A q \in known \ {s} : Apart(q, s)
    BY <2>1, FrameIs
  <2>3. O!Chain(s)' = O!Chain(s)
    BY <1>o, SameChains
  <2>4. ASSUME NEW q \in known', q # s PROVE Apart(q, s)'
    <3>1. Apart(q, s) /\ O!Chain(q)' = O!Chain(q)
      BY <1>o, <2>2, <2>4, SameChains
    <3> QED BY <2>3, <3>1 DEF Apart
  <2>5. FrameOK(k)'
    <3>1. O!LastOf(building[k].self)' = O!LastOf(building[k].self)
      BY <1>o DEF O!LastOf, O!Chain
    <3> QED BY <1>o, <2>2, <3>1 DEF FrameOK
  <2>6. OwnParts(s)'
    <3>1. OwnParts(s)
      BY <2>1, FrameIs
    <3> QED BY <1>o, <2>3, <3>1 DEF OwnParts
  <2>7. s = building'[k].self
    BY <1>o, <2>1
  <2> QED BY <2>4, <2>5, <2>6, <2>7, UnderWayAfter
<1> QED BY <1>o, <1>1, <1>2, <1>3 DEF ObjectInv

\* findmethod finds what the parts that a reference sees say.
LEMMA RequestRefines ==
  ASSUME O!ConstantsOK, ObjectInv, NEW o \in known, NEW name \in Name, NEW superdepth \in Nat,
         O!Request(o, name, superdepth)
  PROVE  O!Objects!Request
<1>0. Laid /\ DefaultData /\ Paths(obj) /\ Refs
  BY DEF ObjectInv
<1>1. o \in Addr /\ o \in O!Everything /\ obj[o].class \in Class
  BY <1>0 DEF Refs, O!Everything
<1>2. PICK t : /\ t = O!Chain(o) /\ Len(t) \in Nat /\ Len(t) >= 2
               /\ \A k \in 1 .. Len(t) : t[k] \in O!Everything
               /\ obj[t[Len(t)]].class = DEFAULT
  BY <1>0, <1>1, ChainOf, PartsOfObject
<1>3. PICK n \in Nat : n = Len(t) - 1 /\ n >= 1 /\ n + 1 = Len(t)
  <2>1. PICK l \in Nat : l = Len(t) /\ l >= 2
    BY <1>2
  <2>2. l - 1 \in Nat /\ l - 1 >= 1 /\ (l - 1) + 1 = l
    BY <2>1
  <2> QED BY <2>1, <2>2
<1>4. PICK u : /\ u = O!parts[o] /\ DOMAIN u = 1 .. n /\ Len(u) = n
               /\ \A k \in 1 .. n : u[k] = <<obj[t[k]].class, obj[t[k]].data>>
  <2>1. /\ Len(O!PartsOf(o)) = n /\ DOMAIN O!PartsOf(o) = 1 .. n
        /\ \A k \in 1 .. n : O!PartsOf(o)[k] = <<obj[t[k]].class, obj[t[k]].data>>
    BY <1>0, <1>1, <1>2, <1>3, PartsIs
  <2>2. O!parts[o] = O!PartsOf(o)
    BY <1>1, SeenIs
  <2> QED BY <2>1, <2>2
<1> DEFINE Serves(k) == name \in NativeDefines[u[k][1]] /\ k > superdepth
           serves == {k \in 1 .. n : Serves(k)}
           found == {d \in 0 .. n : name \in NativeDefines[obj[t[d + 1]].class] /\ d >= superdepth}
           first == CHOOSE d \in found : \A e \in found : d <= e
           part == obj[t[first + 1]]
           answered == IF found = {} THEN NULL ELSE <<part.class, part.data>>
<1>5. O!Depths(o, name, superdepth) = found
  BY <1>2, <1>3 DEF O!Depths
<1>6. answer' = <<"request", o, name, superdepth, answered>> /\ UNCHANGED <<obj, known>>
  <2> DEFINE depths == O!Depths(o, name, superdepth)
             depth == CHOOSE d \in depths : \A e \in depths : d <= e
  <2>1. /\ answer' = <<"request", o, name, superdepth,
              IF depths = {} THEN NULL
              ELSE <<obj[O!Chain(o)[depth + 1]].class, obj[O!Chain(o)[depth + 1]].data>> >>
        /\ UNCHANGED <<obj, known>>
    BY DEF O!Request
  <2>2. depths = found /\ depth = first
    BY <1>5
  <2> HIDE DEF depths, depth, found, first
  <2> QED BY <1>2, <2>1, <2>2
<1>7. /\ \A k \in serves : k - 1 \in found /\ k \in 1 .. n
      /\ \A d \in found : d # n => d + 1 \in serves
      /\ n \in found <=> name \in NativeDefines[DEFAULT] /\ superdepth <= n
  <2>1. ASSUME NEW k \in serves PROVE k - 1 \in found /\ k \in 1 .. n
    <3>1. k \in 1 .. n /\ k - 1 \in 0 .. n /\ (k - 1) + 1 = k /\ k - 1 >= superdepth
      BY <1>3
    <3>2. u[k][1] = obj[t[k]].class
      BY <1>4, <3>1
    <3> QED BY <3>1, <3>2
  <2>2. ASSUME NEW d \in found, d # n PROVE d + 1 \in serves
    <3>1. d \in 0 .. n /\ d + 1 \in 1 .. n /\ d + 1 > superdepth
      BY <1>3, <2>2
    <3>2. u[d + 1][1] = obj[t[d + 1]].class
      BY <1>4, <3>1
    <3> QED BY <3>1, <3>2
  <2>3. n \in 0 .. n /\ obj[t[n + 1]].class = DEFAULT
    BY <1>2, <1>3
  <2> QED BY <2>1, <2>2, <2>3
<1>8. found # {} => /\ first \in found /\ \A e \in found : first <= e
  <2>1. found \subseteq Nat
    BY <1>3
  <2> HIDE DEF found
  <2>2. SUFFICES ASSUME found # {} PROVE \E d \in found : \A e \in found : d <= e
    OBVIOUS
  <2>3. PICK d \in found : \A e \in found : <<e, d>> \notin OpToRel(<, Nat)
    BY <2>1, <2>2, NatLessThanWellFounded, WFMin
  <2>4. \A e \in found : e \in Nat /\ ~ (e < d) /\ d \in Nat
    BY <2>1, <2>3 DEF OpToRel
  <2> QED BY <2>4
<1>9. IF serves # {}
      THEN \E k \in serves : answered = u[k] /\ \A j \in serves : k <= j
      ELSE answered = IF name \in NativeDefines[DEFAULT] /\ superdepth <= n THEN <<DEFAULT, DEFAULT>> ELSE NULL
  <2>1. \A d \in found : d \in 0 .. n
    OBVIOUS
  <2> DEFINE finds == found
             serving == serves
             d == first
  <2>2. finds # {} => d \in finds /\ d \in 0 .. n /\ \A e \in finds : d <= e
    BY <1>8, <2>1
  <2>3. answered = IF finds = {} THEN NULL ELSE <<obj[t[d + 1]].class, obj[t[d + 1]].data>>
    OBVIOUS
  <2>4. \A k \in serving : k - 1 \in finds /\ k \in 1 .. n
    BY <1>7
  <2>5. \A e \in finds : e # n => e + 1 \in serving
    BY <1>7
  <2>6. n \in finds <=> name \in NativeDefines[DEFAULT] /\ superdepth <= n
    BY <1>7
  <2> HIDE DEF finds, serving, d, answered
  <2>7. CASE serving # {}
    <3>1. PICK j \in serving : j - 1 \in finds /\ j \in 1 .. n
      BY <2>4, <2>7
    <3>2. d \in finds /\ d \in 0 .. n /\ d <= j - 1 /\ d # n
      BY <1>3, <2>2, <3>1
    <3>3. d + 1 \in serving
      BY <2>5, <3>2
    <3>4. ASSUME NEW i \in serving PROVE d + 1 <= i
      <4>1. i - 1 \in finds /\ i \in 1 .. n
        BY <2>4
      <4> QED BY <2>2, <3>2, <4>1
    <3>5. answered = u[d + 1]
      <4>1. d + 1 \in 1 .. n
        BY <2>4, <3>3
      <4> QED BY <1>4, <2>3, <3>2, <4>1
    <3> QED BY <2>7, <3>3, <3>4, <3>5 DEF serving
  <2>8. CASE serving = {}
    <3>1. \A e \in finds : e = n
      BY <2>5, <2>8
    <3>2. CASE finds = {}
      BY <2>3, <2>6, <2>8, <3>2 DEF serving
    <3>3. CASE finds # {}
      <4>1. d = n /\ n \in finds
        BY <2>2, <3>1, <3>3
      <4>2. n + 1 \in 1 .. Len(t) /\ t[n + 1] \in O!Everything /\ obj[t[n + 1]].class = DEFAULT
        BY <1>2, <1>3
      <4>3. obj[t[n + 1]].data = DEFAULT
        BY <1>0, <4>2 DEF DefaultData
      <4>4. answered = <<DEFAULT, DEFAULT>>
        BY <2>3, <3>3, <4>1, <4>2, <4>3
      <4> QED BY <2>6, <2>8, <4>1, <4>4 DEF serving
    <3> QED BY <3>2, <3>3
  <2> QED BY <2>7, <2>8
<1> HIDE DEF answered
<1>10. /\ answer'[1] = "request" /\ answer'[2] = o /\ answer'[3] = name /\ answer'[4] = superdepth
       /\ answer'[5] = answered
  BY <1>6
<1>11. O!Objects!Others({})
  <2>1. O!parts' = O!parts
    BY <1>6, SeesNothing
  <2> QED BY <2>1 DEF O!Objects!Others
<1>12. /\ {k \in DOMAIN O!parts[o] : name \in NativeDefines[O!parts[o][k][1]] /\ k > superdepth} = serves
       /\ Len(O!parts[o]) = n /\ O!parts[o] = u
  BY <1>4
<1> QED BY <1>9, <1>10, <1>11, <1>12 DEF O!Objects!Request

\* become: sub, which nothing inherits from, comes between sup and the rest of its chain.
Swaps(sub, sup) ==
  /\ obj'[sub].super = obj[sup].super /\ obj'[sup].super = sub
  /\ obj'[sub].class = obj[sup].class /\ obj'[sup].class = obj[sub].class
  /\ obj'[sub].data = obj[sup].data /\ obj'[sup].data = obj[sub].data
  /\ \A q \in O!Everything \ {sub, sup} : obj'[q] = obj[q]

LEMMA BecomeIs ==
  ASSUME O!ConstantsOK, ObjectInv, NEW sub \in known, NEW sup \in known, O!Become(sub, sup)
  PROVE  /\ sub \in Addr /\ sup \in Addr /\ sub # sup
         /\ sub \notin O!InProgress /\ sup \notin O!InProgress
         /\ obj[sub].super = DEFAULT /\ \A p \in O!Everything : obj[p].super # sub
         /\ Swaps(sub, sup) /\ obj' \in [O!Everything -> ObjectCells]
         /\ answer' = <<"become", sub, sup>>
         /\ data' = data /\ building' = building /\ known' = known
<1>1. /\ sub \in Addr /\ sup \in Addr /\ sub \in O!Everything /\ sup \in O!Everything
      /\ obj \in [O!Everything -> ObjectCells]
  BY DEF ObjectInv, Refs, Laid, O!Everything
<1>2. /\ sub # sup /\ sub \notin O!InProgress /\ sup \notin O!InProgress
      /\ obj[sub].super = DEFAULT /\ \A p \in O!Everything : obj[p].super # sub
      /\ answer' = <<"become", sub, sup>>
      /\ data' = data /\ building' = building /\ known' = known
  BY DEF O!Become
<1>3. obj' = [obj EXCEPT
        ![sub] = [class |-> obj[sup].class, super |-> obj[sup].super, data |-> obj[sup].data],
        ![sup] = [class |-> obj[sub].class, super |-> sub, data |-> obj[sub].data]]
  BY DEF O!Become
<1> DEFINE mid == [obj EXCEPT ![sub] =
                     [class |-> obj[sup].class, super |-> obj[sup].super, data |-> obj[sup].data]]
<1>4. /\ mid \in [O!Everything -> ObjectCells]
      /\ mid[sub] = [class |-> obj[sup].class, super |-> obj[sup].super, data |-> obj[sup].data]
      /\ \A q \in O!Everything \ {sub} : mid[q] = obj[q]
  <2>1. [class |-> obj[sup].class, super |-> obj[sup].super, data |-> obj[sup].data] \in ObjectCells
    <3>1. obj[sup] \in ObjectCells
      BY <1>1
    <3> QED BY <3>1 DEF ObjectCells
  <2> QED BY <1>1, <2>1
<1>5. obj' = [mid EXCEPT ![sup] = [class |-> obj[sub].class, super |-> sub, data |-> obj[sub].data]]
  BY <1>3
<1> HIDE DEF mid
<1>6. [class |-> obj[sub].class, super |-> sub, data |-> obj[sub].data] \in ObjectCells
  <2>1. obj[sub] \in ObjectCells
    BY <1>1
  <2> QED BY <1>1, <2>1 DEF ObjectCells
<1>7. /\ obj' \in [O!Everything -> ObjectCells]
      /\ obj'[sup] = [class |-> obj[sub].class, super |-> sub, data |-> obj[sub].data]
      /\ obj'[sub] = mid[sub]
      /\ \A q \in O!Everything \ {sub, sup} : obj'[q] = obj[q]
  BY <1>1, <1>2, <1>4, <1>5, <1>6
<1>8. Swaps(sub, sup)
  BY <1>4, <1>7 DEF Swaps
<1> QED BY <1>1, <1>2, <1>7, <1>8

\* The chains after it: sub's, those of others, and of those that have sup in position i.
Shortened(sub, sup) ==
  /\ Len(O!Chain(sub)') = Len(O!Chain(sup)) /\ O!Chain(sub)'[1] = sub
  /\ \A k \in 2 .. Len(O!Chain(sup)) : O!Chain(sub)'[k] = O!Chain(sup)[k]

Lengthened(q, i, sub) ==
  /\ Len(O!Chain(q)') = Len(O!Chain(q)) + 1 /\ i < Len(O!Chain(q))
  /\ \A k \in 1 .. i : O!Chain(q)'[k] = O!Chain(q)[k]
  /\ O!Chain(q)'[i + 1] = sub
  /\ \A k \in i + 1 .. Len(O!Chain(q)) : O!Chain(q)'[k + 1] = O!Chain(q)[k]

LEMMA BecomeChains ==
  ASSUME O!ConstantsOK, Laid, Paths(obj), NEW sub \in Addr, NEW sup \in Addr, sub # sup,
         obj[sup].class \in Class, \A p \in O!Everything : obj[p].super # sub, Swaps(sub, sup)
  PROVE  /\ Paths(obj') /\ Shortened(sub, sup)
         /\ \A q \in O!Everything \ {sub} :
              /\ \A k \in 1 .. Len(O!Chain(q)) : O!Chain(q)[k] # sub
              /\ (\A k \in 1 .. Len(O!Chain(q)) : O!Chain(q)[k] # sup) => O!Chain(q)' = O!Chain(q)
              /\ \A i \in 1 .. Len(O!Chain(q)) : O!Chain(q)[i] = sup => Lengthened(q, i, sub)
<1>1. /\ sub \in O!Everything /\ sup \in O!Everything
      /\ obj'[sub].super = obj[sup].super /\ obj'[sup].super = sub
      /\ \A q \in O!Everything \ {sub, sup} : obj'[q] = obj[q]
  BY DEF O!Everything, Swaps
<1>2. ASSUME NEW q \in O!Everything \ {sub}
      PROVE  /\ Path(O!Chain(q), obj) /\ O!Chain(q)[1] = q /\ Len(O!Chain(q)) \in Nat \ {0}
             /\ O!Chain(q) \in Seq(O!Everything)
             /\ \A k \in 1 .. Len(O!Chain(q)) : O!Chain(q)[k] \in O!Everything \ {sub}
  <2>1. /\ Path(O!Chain(q), obj) /\ O!Chain(q)[1] = q /\ Len(O!Chain(q)) \in Nat \ {0}
        /\ O!Chain(q) \in Seq(O!Everything)
        /\ \A k \in 1 .. Len(O!Chain(q)) : O!Chain(q)[k] \in O!Everything
        /\ \A k \in 1 .. Len(O!Chain(q)) - 1 : obj[O!Chain(q)[k]].super = O!Chain(q)[k + 1]
    BY ChainOf
  <2>2. ASSUME NEW k \in 1 .. Len(O!Chain(q)) PROVE O!Chain(q)[k] # sub
    <3>1. CASE k = 1
      BY <2>1, <3>1
    <3>2. CASE k # 1
      <4>1. k - 1 \in 1 .. Len(O!Chain(q)) - 1 /\ k - 1 \in 1 .. Len(O!Chain(q)) /\ (k - 1) + 1 = k
        BY <2>1, <3>2
      <4> QED BY <2>1, <4>1
    <3> QED BY <3>1, <3>2
  <2> QED BY <2>1, <2>2
<1>3. PICK t : /\ t = O!Chain(sup) /\ Path(t, obj) /\ t[1] = sup /\ Len(t) \in Nat /\ Len(t) >= 2
               /\ t \in Seq(O!Everything)
               /\ \A k \in 1 .. Len(t) : t[k] \in O!Everything \ {sub}
  BY <1>1, <1>2, PartsOfObject
<1>4. 1 \in 1 .. Len(t) /\ 2 \in 1 .. Len(t) /\ 1 \in 1 .. Len(t) - 1 /\ 1 + 1 = 2
  <2>1. PICK l : l = Len(t)
    OBVIOUS
  <2>2. l \in Nat /\ l >= 2
    BY <1>3, <2>1
  <2>3. 1 \in 1 .. l /\ 2 \in 1 .. l /\ 1 \in 1 .. l - 1 /\ 1 + 1 = 2
    BY <2>2
  <2> QED BY <2>1, <2>3
<1>5. /\ Path(SubSeq(t, 2, Len(t)), obj) /\ SubSeq(t, 2, Len(t))[1] = t[2]
      /\ Len(SubSeq(t, 2, Len(t))) = Len(t) - 2 + 1
      /\ \A i \in 1 .. Len(t) - 2 + 1 : SubSeq(t, 2, Len(t))[i] = t[2 + i - 1]
  BY <1>3, <1>4, PathTail
<1>6. PICK w : /\ w = SubSeq(t, 2, Len(t)) /\ Path(w, obj) /\ w[1] = t[2] /\ Len(w) = Len(t) - 1
               /\ \A i \in 1 .. Len(t) - 1 : w[i] = t[i + 1]
  <2>1. PICK v : v = SubSeq(t, 2, Len(t))
    OBVIOUS
  <2>2. Len(t) - 2 + 1 = Len(t) - 1 /\ \A i \in 1 .. Len(t) - 1 : 2 + i - 1 = i + 1
    BY <1>3
  <2>3. Path(v, obj) /\ v[1] = t[2] /\ Len(v) = Len(t) - 1
    BY ONLY <1>5, <2>1, <2>2
  <2>4. ASSUME NEW i \in 1 .. Len(t) - 1 PROVE v[i] = t[i + 1]
    BY ONLY <1>5, <2>1, <2>2, <2>4
  <2> QED BY ONLY <2>1, <2>3, <2>4
<1>7. \A k \in 1 .. Len(w) : w[k] \in O!Everything \ {sub, sup}
  <2>1. ASSUME NEW k \in 1 .. Len(w) PROVE w[k] \in O!Everything \ {sub, sup}
    <3>1. k + 1 \in 1 .. Len(t) /\ k + 1 # 1 /\ w[k] = t[k + 1]
      BY <1>3, <1>6
    <3>2. t[k + 1] # sup
      BY <1>3, <1>4, <3>1, PathDistinct
    <3> QED BY <1>3, <3>1, <3>2
  <2> QED BY <2>1
<1>8. Path(w, obj') /\ w \in Seq(O!Everything)
  <2>1. \A k \in 1 .. Len(w) : obj'[w[k]].super = obj[w[k]].super
    BY <1>1, <1>7
  <2>p. Path(w, obj)
    BY <1>6
  <2>2. Path(w, obj')
    BY <2>p, <2>1, PathStays
  <2> QED BY <1>6, <2>2, PathIs
<1>9. obj'[sub].super = w[1]
  <2>1. obj[t[1]].super = t[1 + 1]
    BY <1>3, <1>4 DEF Path
  <2> QED BY <1>1, <1>3, <1>4, <1>6, <2>1
<1>10. Path(<<sub>> \o w, obj') /\ (<<sub>> \o w)[1] = sub
  BY <1>1, <1>8, <1>9, PathLonger
<1>11. PICK v : /\ v = <<sub>> \o w /\ Path(v, obj') /\ v[1] = sub /\ Len(v) = Len(t)
                /\ \A k \in 2 .. Len(t) : v[k] = t[k]
  <2>1. PICK v : v = <<sub>> \o w
    OBVIOUS
  <2>2. PICK l \in Nat : l = Len(t) /\ l >= 2 /\ Len(w) = l - 1 /\ \A i \in 1 .. l - 1 : w[i] = t[i + 1]
    BY <1>3, <1>6
  <2>3. Len(v) = 1 + (l - 1) /\ \A k \in 2 .. l : v[k] = w[k - 1]
    BY <1>8, <2>1, <2>2
  <2>4. \A k \in 2 .. l : k - 1 \in 1 .. l - 1 /\ (k - 1) + 1 = k
    BY <2>2
  <2>5. \A k \in 2 .. l : v[k] = t[k]
    BY <2>2, <2>3, <2>4
  <2>6. 1 + (l - 1) = l
    BY <2>2
  <2> QED BY <1>10, <2>1, <2>2, <2>3, <2>5, <2>6
<1>12. ASSUME NEW q \in O!Everything \ {sub}, \A k \in 1 .. Len(O!Chain(q)) : O!Chain(q)[k] # sup
       PROVE  Path(O!Chain(q), obj') /\ O!Chain(q)[1] = q
  <2>1. PICK r : /\ r = O!Chain(q) /\ Path(r, obj) /\ r[1] = q
                 /\ \A k \in 1 .. Len(r) : r[k] \in O!Everything \ {sub, sup}
    BY <1>2, <1>12
  <2>2. \A k \in 1 .. Len(r) : obj'[r[k]].super = obj[r[k]].super
    BY <1>1, <2>1
  <2>3. Path(r, obj')
    BY <2>1, <2>2, PathStays
  <2> QED BY <2>1, <2>3
<1>13. ASSUME NEW q \in O!Everything \ {sub}, NEW i \in 1 .. Len(O!Chain(q)), O!Chain(q)[i] = sup
       PROVE  \E u : /\ Path(u, obj') /\ u[1] = q /\ Len(u) = Len(O!Chain(q)) + 1 /\ i < Len(O!Chain(q))
                     /\ \A k \in 1 .. i : u[k] = O!Chain(q)[k]
                     /\ u[i + 1] = sub
                     /\ \A k \in i + 1 .. Len(O!Chain(q)) : u[k + 1] = O!Chain(q)[k]
  <2>1. PICK r : /\ r = O!Chain(q) /\ Path(r, obj) /\ r[1] = q /\ Len(r) \in Nat \ {0}
                 /\ i \in 1 .. Len(r) /\ r[i] = sup
                 /\ \A k \in 1 .. Len(r) : r[k] \in O!Everything \ {sub}
    BY <1>2, <1>13
  <2>2. ASSUME NEW k \in 1 .. i - 1 PROVE obj'[r[k]].super = obj[r[k]].super
    <3>1. k \in 1 .. Len(r) /\ k # i
      BY <2>1
    <3>2. r[k] # sup
      BY <2>1, <3>1, PathDistinct
    <3> QED BY <1>1, <2>1, <3>1, <3>2
  <2>3. obj'[r[i]].super = v[1]
    BY <1>1, <1>11, <2>1
  <2>p. Path(r, obj) /\ Path(v, obj') /\ i \in 1 .. Len(r)
    BY <1>11, <2>1
  <2>4. /\ Path(SubSeq(r, 1, i) \o v, obj')
        /\ Len(SubSeq(r, 1, i) \o v) = i + Len(v)
        /\ \A k \in 1 .. i : (SubSeq(r, 1, i) \o v)[k] = r[k]
        /\ \A k \in 1 .. Len(v) : (SubSeq(r, 1, i) \o v)[i + k] = v[k]
    BY <2>p, <2>2, <2>3, Rerouted
  <2>x. PICK x : x = SubSeq(r, 1, i) \o v
    OBVIOUS
  <2>y. /\ Path(x, obj') /\ Len(x) = i + Len(t)
        /\ \A k \in 1 .. i : x[k] = r[k]
        /\ \A k \in 1 .. Len(t) : x[i + k] = v[k]
    BY <1>11, <2>4, <2>x
  <2>5. PICK u : /\ Path(u, obj') /\ Len(u) = i + Len(t)
                 /\ \A k \in 1 .. i : u[k] = r[k]
                 /\ \A k \in 1 .. Len(t) : u[i + k] = v[k]
    BY <2>y
  <2>6. /\ Path(SubSeq(r, i, Len(r)), obj) /\ SubSeq(r, i, Len(r))[1] = r[i]
        /\ Len(SubSeq(r, i, Len(r))) = Len(r) - i + 1
        /\ \A k \in 1 .. Len(r) - i + 1 : SubSeq(r, i, Len(r))[k] = r[i + k - 1]
    BY <2>1, PathTail
  <2>7. PICK z : /\ z = SubSeq(r, i, Len(r)) /\ Path(z, obj) /\ z[1] = sup /\ Len(z) = Len(r) - i + 1
                 /\ \A k \in 1 .. Len(r) - i + 1 : z[k] = r[i + k - 1]
    BY <2>1, <2>6
  <2>8. z = t
    BY <1>3, <2>7, PathsAgree
  <2>9. PICK l \in Nat, m \in Nat :
          /\ l = Len(t) /\ l >= 2 /\ m = Len(r) /\ l = m - i + 1
          /\ \A k \in 1 .. l : t[k] = r[i + k - 1]
    BY <1>3, <2>1, <2>7, <2>8
  <2>10. i \in Nat /\ i >= 1 /\ i < m /\ i + l = m + 1 /\ 1 \in 1 .. i /\ 1 \in 1 .. l
    BY <2>1, <2>9
  <2>11. u[i + 1] = sub
    BY <1>11, <2>5, <2>9, <2>10
  <2>12. ASSUME NEW k \in i + 1 .. m PROVE u[k + 1] = r[k]
    <3>1. (k + 1) - i \in 1 .. l /\ (k + 1) - i \in 2 .. l /\ i + ((k + 1) - i) = k + 1
          /\ i + ((k + 1) - i) - 1 = k
      BY <2>9, <2>10
    <3>2. u[i + ((k + 1) - i)] = v[(k + 1) - i] /\ v[(k + 1) - i] = t[(k + 1) - i]
      BY <1>11, <2>5, <2>9, <3>1
    <3>3. t[(k + 1) - i] = r[i + ((k + 1) - i) - 1]
      BY <2>9, <3>1
    <3> QED BY <3>1, <3>2, <3>3
  <2>13. u[1] = q
    BY <2>1, <2>5, <2>10
  <2>14. Len(u) = m + 1
    BY <2>5, <2>9, <2>10
  <2>15. r = O!Chain(q) /\ m = Len(r) /\ Path(u, obj') /\ \A k \in 1 .. i : u[k] = r[k]
    BY <2>1, <2>5, <2>9
  <2> QED BY <2>10, <2>11, <2>12, <2>13, <2>14, <2>15
<1>14. Paths(obj')
  <2>1. ASSUME NEW q \in O!Everything PROVE \E s : Path(s, obj') /\ s[1] = q
    <3>1. CASE q = sub
      BY <1>11, <3>1
    <3>2. CASE q # sub /\ \A k \in 1 .. Len(O!Chain(q)) : O!Chain(q)[k] # sup
      <4>1. Path(O!Chain(q), obj') /\ O!Chain(q)[1] = q
        BY <1>12, <3>2
      <4> QED BY <4>1
    <3>3. CASE q # sub /\ \E k \in 1 .. Len(O!Chain(q)) : O!Chain(q)[k] = sup
      BY <1>13, <3>3
    <3> QED BY <3>1, <3>2, <3>3
  <2> QED BY <2>1 DEF Paths
<1>15. Shortened(sub, sup)
  <2>1. O!Chain(sub)' = v
    BY <1>1, <1>11, <1>14, ChainAfter
  <2> QED BY <1>3, <1>11, <2>1 DEF Shortened
<1>16. ASSUME NEW q \in O!Everything \ {sub}
       PROVE  /\ \A k \in 1 .. Len(O!Chain(q)) : O!Chain(q)[k] # sub
              /\ (\A k \in 1 .. Len(O!Chain(q)) : O!Chain(q)[k] # sup) => O!Chain(q)' = O!Chain(q)
              /\ \A i \in 1 .. Len(O!Chain(q)) : O!Chain(q)[i] = sup => Lengthened(q, i, sub)
  <2>1. \A k \in 1 .. Len(O!Chain(q)) : O!Chain(q)[k] # sub
    BY <1>2
  <2>2. ASSUME \A k \in 1 .. Len(O!Chain(q)) : O!Chain(q)[k] # sup PROVE O!Chain(q)' = O!Chain(q)
    <3>1. Path(O!Chain(q), obj') /\ O!Chain(q)[1] = q
      BY <1>12, <2>2
    <3>2. PICK r : r = O!Chain(q) /\ Path(r, obj') /\ r[1] = q
      BY <3>1
    <3>3. O!Chain(q)' = r
      BY <1>14, <3>2, ChainAfter
    <3> QED BY <3>2, <3>3
  <2>3. ASSUME NEW i \in 1 .. Len(O!Chain(q)), O!Chain(q)[i] = sup PROVE Lengthened(q, i, sub)
    <3>1. PICK u : /\ Path(u, obj') /\ u[1] = q /\ Len(u) = Len(O!Chain(q)) + 1 /\ i < Len(O!Chain(q))
                   /\ \A k \in 1 .. i : u[k] = O!Chain(q)[k]
                   /\ u[i + 1] = sub
                   /\ \A k \in i + 1 .. Len(O!Chain(q)) : u[k + 1] = O!Chain(q)[k]
      BY <1>13, <2>3
    <3>2. O!Chain(q)' = u
      BY <1>14, <3>1, ChainAfter
    <3> QED BY <3>1, <3>2 DEF Lengthened
  <2> QED BY <2>1, <2>2, <2>3
<1> QED BY <1>14, <1>15, <1>16

LEMMA BecomeLaid ==
  ASSUME O!ConstantsOK, Laid, DefaultData, NEW sub \in Addr, NEW sup \in Addr,
         obj[sub].class \in Class, obj[sup].class \in Class, obj[sub].super = DEFAULT, Swaps(sub, sup),
         obj' \in [O!Everything -> ObjectCells], data' = data
  PROVE  Laid' /\ DefaultData'
<1>1. /\ sub \in O!Everything /\ sup \in O!Everything /\ DEFAULT \in O!Everything \ {sub, sup}
      /\ obj[sub] # O!FREE /\ obj[sup] # O!FREE
      /\ obj[DEFAULT] = [class |-> DEFAULT, super |-> NULL, data |-> DEFAULT]
  BY NothingIsNone DEF Laid, O!Everything, O!FREE
<1>2. /\ obj'[sub].super = obj[sup].super /\ obj'[sup].super = sub
      /\ obj'[sub].class = obj[sup].class /\ obj'[sup].class = obj[sub].class
      /\ obj'[sub].data = obj[sup].data /\ obj'[sup].data = obj[sub].data
      /\ \A q \in O!Everything \ {sub, sup} : obj'[q] = obj[q]
  BY DEF Swaps
<1>3. obj'[DEFAULT] = [class |-> DEFAULT, super |-> NULL, data |-> DEFAULT]
  BY <1>1, <1>2
<1>4. \A q \in O!Everything : obj[q] # O!FREE => obj'[q] # O!FREE
  <2>1. obj'[sub] # O!FREE /\ obj'[sup] # O!FREE
    BY <1>2, NothingIsNone DEF O!FREE
  <2> QED BY <1>2, <2>1
<1>5. ASSUME NEW q \in O!Everything, obj[q] # O!FREE
      PROVE  /\ obj[q].class \in Class \cup {DEFAULT} /\ obj[q].data \in O!Everything
             /\ obj[obj[q].data] # O!FREE /\ data[obj[q].data].layout = obj[q].class
             /\ obj[q].super = NULL <=> obj[q].class = DEFAULT
             /\ obj[q].super # NULL => obj[obj[q].super] # O!FREE /\ obj[q].super \in O!Everything
  <2>1. obj[q] \in ObjectCells
    BY DEF Laid
  <2> QED BY <1>5, <2>1 DEF Laid, ObjectCells
<1>6. ASSUME NEW q \in O!Everything, obj'[q] # O!FREE
      PROVE  /\ obj'[q].class \in Class \cup {DEFAULT} /\ obj'[q].data \in O!Everything
             /\ obj'[obj'[q].data] # O!FREE /\ data[obj'[q].data].layout = obj'[q].class
             /\ obj'[q].super = NULL <=> obj'[q].class = DEFAULT
             /\ obj'[q].super # NULL => obj'[obj'[q].super] # O!FREE
  <2>1. CASE q = sub
    BY <1>1, <1>2, <1>4, <1>5, <2>1
  <2>2. CASE q = sup
    BY <1>1, <1>2, <1>4, <1>5, <2>2, NothingIsNone
  <2>3. CASE q # sub /\ q # sup
    BY <1>2, <1>4, <1>5, <1>6, <2>3
  <2> QED BY <2>1, <2>2, <2>3
<1>7. Laid'
  BY <1>3, <1>6 DEF Laid
<1>8. DefaultData'
  BY <1>2, NothingIsNone DEF DefaultData
<1> QED BY <1>7, <1>8

\* An object under construction has none of the two among its parts.
LEMMA BecomeSpares ==
  ASSUME O!ConstantsOK, ObjectInv, NEW e \in known, NEW s \in known, e # s, Apart(e, s)
  PROVE  \A i \in 1 .. Len(O!Chain(s)) : O!Chain(s)[i] # e
<1>1. Laid /\ Paths(obj) /\ e \in O!Everything /\ obj[e].class \in Class
  BY DEF ObjectInv, Refs, O!Everything
<1>2. O!Chain(e)[1] = e /\ 1 \in 1 .. Len(O!Chain(e)) - 1
  <2>1. O!Chain(e)[1] = e /\ Len(O!Chain(e)) \in Nat /\ Len(O!Chain(e)) >= 2
    BY <1>1, ChainOf, PartsOfObject
  <2> QED BY <2>1
<1>3. \A i \in 1 .. Len(O!Chain(s)) - 1 : O!Chain(s)[i] # e
  BY <1>2 DEF Apart
<1> QED BY <1>1, <1>3, NotIn

LEMMA BecomeKeeps ==
  ASSUME O!ConstantsOK, ObjectInv, NEW sub \in known, NEW sup \in known, O!Become(sub, sup)
  PROVE  ObjectInv'
<1>0. ChainInv' /\ ChainInv /\ Laid /\ DefaultData /\ Paths(obj) /\ Refs
  BY AtBecome DEF ObjectInv
<1>1. /\ sub \in Addr /\ sup \in Addr /\ sub # sup
      /\ sub \notin O!InProgress /\ sup \notin O!InProgress
      /\ obj[sub].super = DEFAULT /\ \A p \in O!Everything : obj[p].super # sub
      /\ Swaps(sub, sup) /\ obj' \in [O!Everything -> ObjectCells]
      /\ data' = data /\ building' = building /\ known' = known
  BY BecomeIs
<1>2. obj[sub].class \in Class /\ obj[sup].class \in Class /\ sub \in O!Everything /\ sup \in O!Everything
  BY <1>0, <1>1 DEF Refs, O!Everything
<1>3. /\ Paths(obj') /\ Shortened(sub, sup)
      /\ \A q \in O!Everything \ {sub} :
           /\ \A k \in 1 .. Len(O!Chain(q)) : O!Chain(q)[k] # sub
           /\ (\A k \in 1 .. Len(O!Chain(q)) : O!Chain(q)[k] # sup) => O!Chain(q)' = O!Chain(q)
           /\ \A i \in 1 .. Len(O!Chain(q)) : O!Chain(q)[i] = sup => Lengthened(q, i, sub)
  BY <1>0, <1>1, <1>2, BecomeChains
<1>4. Laid' /\ DefaultData'
  BY <1>0, <1>1, <1>2, BecomeLaid
<1>5. \A q \in O!Everything \ {sub, sup} : obj'[q] = obj[q]
  BY <1>1 DEF Swaps
<1>6. Refs'
  <2>1. ASSUME NEW q \in known' PROVE q \in Addr /\ obj'[q].class \in Class
    <3>1. q \in Addr /\ q \in O!Everything /\ obj[q].class \in Class
      BY <1>0, <1>1, <2>1 DEF Refs, O!Everything
    <3>2. CASE q = sub \/ q = sup
      BY <1>1, <1>2, <3>1, <3>2 DEF Swaps
    <3>3. CASE q # sub /\ q # sup
      BY <1>5, <3>1, <3>3
    <3> QED BY <3>2, <3>3
  <2> QED BY <2>1 DEF Refs
<1>7. ASSUME NEW k \in 1 .. Len(building) PROVE UnderWay(k)'
  <2>1. PICK s \in Addr : s = building[k].self /\ s \in known /\ obj[s].class \in Class
    BY FrameIs
  <2>2. building[k].own \in O!Everything /\ \A q \in known \ {s} : Apart(q, s)
    BY <2>1, FrameIs
  <2>3. building[k].own \in O!InProgress /\ s \in O!InProgress
    <3>1. building \in Seq(Constructors) /\ k \in DOMAIN building
      BY <1>0 DEF ChainInv
    <3> QED BY <2>1, <3>1 DEF O!InProgress
  <2>4. s # sub /\ s # sup /\ building[k].own \in O!Everything \ {sub, sup} /\ s \in O!Everything \ {sub}
    BY <1>1, <2>1, <2>2, <2>3 DEF O!Everything
  <2>5. Apart(sub, s) /\ Apart(sup, s)
    BY <2>2, <2>4
  <2>6. /\ \A i \in 1 .. Len(O!Chain(s)) : O!Chain(s)[i] # sup
        /\ \A i \in 1 .. Len(O!Chain(s)) : O!Chain(s)[i] # sub
    BY <2>1, <2>4, <2>5, BecomeSpares
  <2>7. O!Chain(s)' = O!Chain(s)
    BY <1>3, <2>4, <2>6
  <2>8. /\ Len(O!Chain(s)) \in Nat
        /\ \A i \in 1 .. Len(O!Chain(s)) : O!Chain(s)[i] \in O!Everything \ {sub, sup}
    BY <1>0, <2>4, <2>6, ChainOf
  <2>9. ASSUME NEW i \in 1 .. Len(O!Chain(s)) - 1
        PROVE  obj'[O!Chain(s)[i]] = obj[O!Chain(s)[i]] /\ i \in 1 .. Len(O!Chain(s))
    BY <1>5, <2>8
  <2>10. ASSUME NEW q \in known', q # s PROVE Apart(q, s)'
    <3>1. q \in known /\ q \in O!Everything /\ Apart(q, s)
      BY <1>0, <1>1, <2>2, <2>10 DEF Refs, O!Everything
    <3>2. SUFFICES ASSUME NEW i \in 1 .. Len(O!Chain(q)') - 1, NEW j \in 1 .. Len(O!Chain(s)) - 1
                   PROVE  O!Chain(q)'[i] # O!Chain(s)[j]
      BY <2>7 DEF Apart
    <3>3. O!Chain(s)[j] # sub
      BY <2>6, <2>9
    <3>4. CASE q = sub
      <4>1. Len(O!Chain(sub)') = Len(O!Chain(sup)) /\ O!Chain(sub)'[1] = sub
            /\ \A l \in 2 .. Len(O!Chain(sup)) : O!Chain(sub)'[l] = O!Chain(sup)[l]
        BY <1>3 DEF Shortened
      <4>2. Len(O!Chain(sup)) \in Nat
        BY <1>0, <1>2, ChainOf
      <4>3. CASE i = 1
        BY <3>3, <3>4, <4>1, <4>3
      <4>4. CASE i # 1
        <5>1. i \in 2 .. Len(O!Chain(sup)) /\ i \in 1 .. Len(O!Chain(sup)) - 1
          BY <3>4, <4>1, <4>2, <4>4
        <5>2. O!Chain(sup)[i] # O!Chain(s)[j]
          BY <2>5, <5>1 DEF Apart
        <5> QED BY <3>4, <4>1, <5>1, <5>2
      <4> QED BY <4>3, <4>4
    <3>5. CASE q # sub /\ \A l \in 1 .. Len(O!Chain(q)) : O!Chain(q)[l] # sup
      <4>1. O!Chain(q)' = O!Chain(q)
        BY <1>3, <3>1, <3>5
      <4> QED BY <3>1, <4>1 DEF Apart
    <3>6. CASE q # sub /\ \E l \in 1 .. Len(O!Chain(q)) : O!Chain(q)[l] = sup
      <4>1. PICK l \in 1 .. Len(O!Chain(q)) : O!Chain(q)[l] = sup
        BY <3>6
      <4>2. /\ Len(O!Chain(q)') = Len(O!Chain(q)) + 1 /\ l < Len(O!Chain(q))
            /\ \A h \in 1 .. l : O!Chain(q)'[h] = O!Chain(q)[h]
            /\ O!Chain(q)'[l + 1] = sub
            /\ \A h \in l + 1 .. Len(O!Chain(q)) : O!Chain(q)'[h + 1] = O!Chain(q)[h]
        BY <1>3, <3>1, <3>6, <4>1 DEF Lengthened
      <4>3. Len(O!Chain(q)) \in Nat
        BY <1>0, <3>1, ChainOf
      <4>4. \A h \in 1 .. Len(O!Chain(q)) - 1 : O!Chain(q)[h] # O!Chain(s)[j]
        BY <3>1 DEF Apart
      <4>5. CASE i <= l
        <5>1. i \in 1 .. l /\ i \in 1 .. Len(O!Chain(q)) - 1
          BY <4>2, <4>3, <4>5
        <5> QED BY <4>2, <4>4, <5>1
      <4>6. CASE i = l + 1
        BY <3>3, <4>2, <4>6
      <4>7. CASE i > l + 1
        <5>1. i - 1 \in l + 1 .. Len(O!Chain(q)) /\ i - 1 \in 1 .. Len(O!Chain(q)) - 1 /\ (i - 1) + 1 = i
          BY <4>2, <4>3, <4>7
        <5> QED BY <4>2, <4>4, <5>1
      <4> QED BY <4>3, <4>5, <4>6, <4>7
    <3> QED BY <3>4, <3>5, <3>6
  <2>11. /\ building'[k] = building[k] /\ \A j \in 1 .. k - 1 : building'[j].own = building[j].own
         /\ \/ k # Len(building') /\ k # Len(building) /\ building'[k + 1].own = building[k + 1].own
            \/ k = Len(building') /\ k = Len(building)
         /\ s \in known' /\ (building[k].own \in known' => building[k].own \in known)
    BY <1>1, <2>1
  <2>12. /\ obj'[building[k].own].class = obj[building[k].own].class
         /\ obj'[building[k].own].super = obj[building[k].own].super
         /\ \A i \in 1 .. Len(O!Chain(s)) - 1 :
              /\ obj'[O!Chain(s)[i]].class = obj[O!Chain(s)[i]].class
              /\ obj'[O!Chain(s)[i]].data = obj[O!Chain(s)[i]].data
         /\ \A i \in 2 .. Len(O!Chain(s)) - 1 :
              data'[O!Chain(s)[i]].outer = data[O!Chain(s)[i]].outer
    BY <1>1, <1>5, <2>4, <2>9
  <2> QED BY <2>1, <2>7, <2>10, <2>11, <2>12, UnderWayStays
<1>8. \A k \in 1 .. Len(building') : UnderWay(k)'
  BY <1>1, <1>7
<1> QED BY <1>0, <1>3, <1>4, <1>6, <1>8 DEF ObjectInv

LEMMA InsertIs ==
  ASSUME NEW Elem, NEW u \in Seq(Elem), NEW n \in Nat, n = Len(u), NEW a \in Elem, NEW i \in 1 .. n,
         NEW v \in Seq(Elem), Len(v) = n + 1, v[i] = a,
         \A k \in 1 .. i - 1 : v[k] = u[k], \A k \in i .. n : v[k + 1] = u[k]
  PROVE  v = (SubSeq(u, 1, i - 1) \o <<a>>) \o SubSeq(u, i, n)
<1>1. PICK h : h = SubSeq(u, 1, i - 1)
  OBVIOUS
<1>2. h \in Seq(Elem) /\ Len(h) = i - 1 /\ \A k \in 1 .. i - 1 : h[k] = u[k]
  <2>1. CASE i = 1
    <3>1. h = << >>
      BY <1>1, <2>1
    <3> QED BY <2>1, <3>1
  <2>2. CASE i # 1
    <3>1. 1 \in 1 .. n /\ i - 1 \in 1 .. n /\ i - 1 \in Nat
      BY <2>2
    <3> QED BY <1>1, <3>1, SubSeqProperties
  <2> QED BY <2>1, <2>2
<1>3. PICK t : t = SubSeq(u, i, n)
  OBVIOUS
<1>4. t \in Seq(Elem) /\ Len(t) = n - i + 1 /\ \A k \in 1 .. n - i + 1 : t[k] = u[i + k - 1]
  BY <1>3, SubSeqProperties
<1>5. PICK g : g = h \o <<a>>
  OBVIOUS
<1>6. g \in Seq(Elem) /\ Len(g) = i /\ g[i] = a /\ \A k \in 1 .. i - 1 : g[k] = u[k]
  <2>1. Len(<<a>>) = 1 /\ <<a>>[1] = a /\ <<a>> \in Seq(Elem)
    OBVIOUS
  <2>2. PICK m \in Nat : m = i - 1 /\ m + 1 = i /\ Len(h) = m
    BY <1>2
  <2>3. Len(g) = m + 1 /\ g \in Seq(Elem) /\ g[m + 1] = a /\ \A k \in 1 .. m : g[k] = h[k]
    BY <1>2, <1>5, <2>1, <2>2
  <2> QED BY <1>2, <2>2, <2>3
<1>7. PICK w : w = g \o t
  OBVIOUS
<1>8. w \in Seq(Elem) /\ Len(w) = n + 1
  <2>b. n - i + 1 \in Nat
    OBVIOUS
  <2>a. PICK m \in Nat : m = n - i + 1 /\ m = Len(t)
    BY <1>4, <2>b
  <2>1. Len(w) = i + (n - i + 1) /\ w \in Seq(Elem)
    <3>1. Len(g) = i /\ Len(t) = m /\ g \in Seq(Elem) /\ t \in Seq(Elem)
      BY <1>4, <1>6, <2>a
    <3>2. Len(g \o t) = Len(g) + Len(t) /\ g \o t \in Seq(Elem)
      BY <3>1, ConcatProperties
    <3> QED BY <1>7, <2>a, <3>1, <3>2
  <2>2. i + (n - i + 1) = n + 1
    OBVIOUS
  <2> QED BY <2>1, <2>2
<1>9. ASSUME NEW k \in 1 .. n + 1 PROVE w[k] = v[k]
  <2>1. CASE k <= i
    <3>1. k \in 1 .. i
      BY <2>1
    <3>2. w[k] = g[k]
      BY <1>4, <1>6, <1>7, <3>1
    <3>3. k = i \/ k \in 1 .. i - 1
      BY <3>1
    <3> QED BY <1>6, <3>2, <3>3
  <2>2. CASE k > i
    <3>1. k - i \in 1 .. n - i + 1 /\ i + (k - i) = k /\ i + (k - i) - 1 = k - 1 /\ k - 1 \in i .. n
          /\ (k - 1) + 1 = k
      BY <2>2
    <3>2. PICK j \in 1 .. n - i + 1 : j = k - i /\ i + j = k /\ i + j - 1 = k - 1
      BY <3>1
    <3>3. w[i + j] = t[j]
      BY <1>4, <1>6, <1>7, <3>2
    <3>4. t[j] = u[i + j - 1]
      BY <1>4
    <3>5. v[(k - 1) + 1] = u[k - 1]
      BY <3>1
    <3> QED BY <3>1, <3>2, <3>3, <3>4, <3>5
  <2> QED BY <2>1, <2>2
<1>10. w = v
  BY <1>8, <1>9, SeqEqual
<1> QED BY <1>1, <1>3, <1>5, <1>7, <1>10

\* References whose chain sup is on, in position i, see sub's part in front of sup's.
SeesMore(q, i, sub, sup) ==
  \E n \in Nat :
    /\ n = Len(O!PartsOf(q)) /\ i \in 1 .. n /\ O!PartsOf(q) \in Seq(Pairs)
    /\ O!PartsOf(q)' \in Seq(Pairs) /\ Len(O!PartsOf(q)') = n + 1
    /\ O!PartsOf(q)'[i] = <<obj[sub].class, obj[sub].data>>
    /\ O!PartsOf(q)[i] = <<obj[sup].class, obj[sup].data>>
    /\ \A k \in 1 .. i - 1 : O!PartsOf(q)'[k] = O!PartsOf(q)[k]
    /\ \A k \in i .. n : O!PartsOf(q)'[k + 1] = O!PartsOf(q)[k]

LEMMA LongerParts ==
  ASSUME O!ConstantsOK, Laid, Paths(obj), NEW sub \in Addr, NEW sup \in Addr, sub # sup,
         Swaps(sub, sup), obj[sub].class \in Class, obj' \in [O!Everything -> ObjectCells],
         NEW q \in Addr, q # sub, obj[q].class \in Class,
         NEW i \in 1 .. Len(O!Chain(q)), O!Chain(q)[i] = sup, Lengthened(q, i, sub),
         \A k \in 1 .. Len(O!Chain(q)) : O!Chain(q)[k] # sub
  PROVE  SeesMore(q, i, sub, sup)
<1>1. /\ q \in O!Everything /\ sub \in O!Everything /\ sup \in O!Everything
      /\ obj \in [O!Everything -> ObjectCells]
  BY DEF O!Everything, Laid
<1>2. PICK t : /\ t = O!Chain(q) /\ Len(t) \in Nat /\ Len(t) >= 2 /\ Path(t, obj)
               /\ \A k \in 1 .. Len(t) : t[k] \in O!Everything
  BY <1>1, ChainOf, PartsOfObject
<1>3. PICK n \in Nat : n = Len(t) - 1 /\ n >= 1 /\ n + 1 = Len(t)
  <2>1. PICK l \in Nat : l = Len(t) /\ l >= 2
    BY <1>2
  <2>2. l - 1 \in Nat /\ l - 1 >= 1 /\ (l - 1) + 1 = l
    BY <2>1
  <2> QED BY <2>1, <2>2
<1>4. PICK u : /\ u = O!PartsOf(q) /\ u \in Seq(Pairs) /\ Len(u) = n
               /\ \A k \in 1 .. n : u[k] = <<obj[t[k]].class, obj[t[k]].data>>
  BY <1>1, <1>2, <1>3, PartsIs
<1>5. PICK t2 : /\ t2 = O!Chain(q)' /\ Len(t2) = n + 2 /\ i \in 1 .. n
                /\ \A k \in 1 .. i : t2[k] = t[k]
                /\ t2[i + 1] = sub
                /\ \A k \in i + 1 .. n + 1 : t2[k + 1] = t[k]
  <2>1. /\ Len(O!Chain(q)') = Len(t) + 1 /\ i < Len(t)
        /\ \A k \in 1 .. i : O!Chain(q)'[k] = t[k]
        /\ O!Chain(q)'[i + 1] = sub
        /\ \A k \in i + 1 .. Len(t) : O!Chain(q)'[k + 1] = t[k]
    BY <1>2 DEF Lengthened
  <2>2. i \in 1 .. n /\ (n + 1) + 1 = n + 2
    BY <1>2, <1>3, <2>1
  <2> QED BY <1>3, <2>1, <2>2
<1>6. PICK v : v = O!PartsOf(q)' /\ v = [k \in 1 .. n + 1 |-> <<obj'[t2[k]].class, obj'[t2[k]].data>>]
  <2>1. O!PartsOf(q)' = [k \in 1 .. Len(O!Chain(q)') - 1 |->
                           <<obj'[O!Chain(q)'[k]].class, obj'[O!Chain(q)'[k]].data>>]
    BY DEF O!PartsOf
  <2>2. (n + 2) - 1 = n + 1
    OBVIOUS
  <2> QED BY <1>5, <2>1, <2>2
<1>7. \A k \in 1 .. n + 1 : k # i => t[k] # sup /\ t[k] # sub /\ t[k] \in O!Everything
  <2>1. ASSUME NEW k \in 1 .. n + 1, k # i PROVE t[k] # sup /\ t[k] # sub /\ t[k] \in O!Everything
    <3>1. k \in 1 .. Len(t) /\ i \in 1 .. Len(t)
      BY <1>3, <1>5
    <3>2. t[k] # t[i]
      BY <1>2, <2>1, <3>1, PathDistinct
    <3> QED BY <1>2, <3>1, <3>2
  <2> QED BY <2>1
<1>8. /\ \A p \in O!Everything \ {sub, sup} : obj'[p] = obj[p]
      /\ obj'[sub].class = obj[sup].class /\ obj'[sup].class = obj[sub].class
      /\ obj'[sub].data = obj[sup].data /\ obj'[sup].data = obj[sub].data
  BY DEF Swaps
<1>9. t[i] = sup
  BY <1>2
<1>10. ASSUME NEW k \in 1 .. i - 1 PROVE v[k] = u[k] /\ k \in 1 .. n
  <2>1. k \in 1 .. n + 1 /\ k # i /\ k \in 1 .. i /\ k \in 1 .. n
    BY <1>5
  <2>2. obj'[t[k]] = obj[t[k]]
    BY <1>7, <1>8, <2>1
  <2>3. t2[k] = t[k]
    BY <1>5, <2>1
  <2> QED BY <1>4, <1>6, <2>1, <2>2, <2>3
<1>11. v[i] = <<obj[sub].class, obj[sub].data>>
  <2>1. i \in 1 .. n + 1 /\ i \in 1 .. i
    BY <1>5
  <2>2. t2[i] = sup
    BY <1>5, <1>9, <2>1
  <2> QED BY <1>6, <1>8, <2>1, <2>2
<1>12. u[i] = <<obj[sup].class, obj[sup].data>>
  BY <1>4, <1>5, <1>9
<1>13. ASSUME NEW k \in i .. n PROVE v[k + 1] = u[k] /\ k \in 1 .. n
  <2>1. k \in 1 .. n /\ k + 1 \in 1 .. n + 1 /\ k \in 1 .. n + 1
    BY <1>5
  <2>2. CASE k = i
    <3>1. t2[k + 1] = sub
      BY <1>5, <2>2
    <3> QED BY <1>6, <1>8, <1>12, <2>1, <2>2, <3>1
  <2>3. CASE k # i
    <3>1. k \in i + 1 .. n + 1
      BY <1>5, <2>3
    <3>2. t2[k + 1] = t[k]
      BY <1>5, <3>1
    <3>3. obj'[t[k]] = obj[t[k]]
      BY <1>7, <1>8, <2>1, <2>3
    <3> QED BY <1>4, <1>6, <2>1, <3>2, <3>3
  <2> QED BY <2>2, <2>3
<1>14. v \in Seq(Pairs) /\ Len(v) = n + 1
  <2>1. ASSUME NEW k \in 1 .. n + 1 PROVE v[k] \in Pairs
    <3>1. \A h \in 1 .. n : u[h] \in Pairs
      BY <1>4, ElementOfSeq
    <3>2. CASE k < i
      <4>1. k \in 1 .. i - 1
        BY <3>2
      <4> QED BY <1>10, <3>1, <4>1
    <3>3. CASE k = i
      <4>1. obj[sub] \in ObjectCells
        BY <1>1
      <4>2. <<obj[sub].class, obj[sub].data>> \in Pairs
        BY <4>1 DEF ObjectCells, Pairs
      <4> QED BY <1>11, <3>3, <4>2
    <3>4. CASE k > i
      <4>1. k - 1 \in i .. n /\ (k - 1) + 1 = k
        BY <1>5, <3>4
      <4> QED BY <1>13, <3>1, <4>1
    <3> QED BY <3>2, <3>3, <3>4
  <2>2. v \in [1 .. n + 1 -> Pairs]
    BY <1>6, <2>1
  <2>3. n + 1 \in Nat
    OBVIOUS
  <2> QED BY <2>2, <2>3
<1>15. u = O!PartsOf(q) /\ v = O!PartsOf(q)'
  BY <1>4, <1>6
<1>16. /\ n = Len(u) /\ i \in 1 .. n /\ u \in Seq(Pairs)
       /\ v \in Seq(Pairs) /\ Len(v) = n + 1
       /\ v[i] = <<obj[sub].class, obj[sub].data>>
       /\ u[i] = <<obj[sup].class, obj[sup].data>>
       /\ \A k \in 1 .. i - 1 : v[k] = u[k]
       /\ \A k \in i .. n : v[k + 1] = u[k]
  BY <1>4, <1>5, <1>10, <1>11, <1>12, <1>13, <1>14
<1> QED BY <1>15, <1>16 DEF SeesMore

LEMMA BecomeRefines ==
  ASSUME O!ConstantsOK, ObjectInv, NEW sub \in known, NEW sup \in known, O!Become(sub, sup)
  PROVE  O!Objects!Become
<1>0. Laid /\ Paths(obj) /\ Refs
  BY DEF ObjectInv
<1>1. /\ sub \in Addr /\ sup \in Addr /\ sub # sup
      /\ obj[sub].super = DEFAULT /\ \A p \in O!Everything : obj[p].super # sub
      /\ Swaps(sub, sup) /\ obj' \in [O!Everything -> ObjectCells]
      /\ answer' = <<"become", sub, sup>>
      /\ data' = data /\ building' = building /\ known' = known
  BY BecomeIs
<1>2. obj[sub].class \in Class /\ obj[sup].class \in Class /\ sub \in O!Everything /\ sup \in O!Everything
  BY <1>0, <1>1 DEF Refs, O!Everything
<1>3. /\ Shortened(sub, sup)
      /\ \A q \in O!Everything \ {sub} :
           /\ \A k \in 1 .. Len(O!Chain(q)) : O!Chain(q)[k] # sub
           /\ (\A k \in 1 .. Len(O!Chain(q)) : O!Chain(q)[k] # sup) => O!Chain(q)' = O!Chain(q)
           /\ \A i \in 1 .. Len(O!Chain(q)) : O!Chain(q)[i] = sup => Lengthened(q, i, sub)
  BY <1>0, <1>1, <1>2, BecomeChains
<1>4. PICK added : added = <<obj[sub].class, obj[sub].data>>
  OBVIOUS
<1>5. O!parts[sub] = <<added>>
  <2>1. /\ Path(<<sub, DEFAULT>>, obj) /\ <<sub, DEFAULT>>[1] = sub
    <3>1. obj[DEFAULT].super = NULL /\ DEFAULT \in O!Everything
      BY <1>0 DEF Laid, O!Everything
    <3> QED BY <1>1, <1>2, <3>1 DEF Path
  <2>2. O!Chain(sub) = <<sub, DEFAULT>>
    BY <1>0, <1>2, <2>1, ChainOf
  <2>3. O!PartsOf(sub) = [k \in 1 .. Len(O!Chain(sub)) - 1 |->
                            <<obj[O!Chain(sub)[k]].class, obj[O!Chain(sub)[k]].data>>]
    BY DEF O!PartsOf
  <2>4. Len(<<sub, DEFAULT>>) - 1 = 1
    OBVIOUS
  <2>5. \A k \in 1 .. 1 : <<obj[<<sub, DEFAULT>>[k]].class, obj[<<sub, DEFAULT>>[k]].data>> = added
    BY <1>4
  <2>6. O!PartsOf(sub) = [k \in 1 .. 1 |-> added]
    BY <2>2, <2>3, <2>4, <2>5
  <2>7. O!parts[sub] = O!PartsOf(sub)
    BY <1>1, SeenIs
  <2> QED BY <2>6, <2>7
\* What references to sup saw, and see.
<1>t. PICK t : /\ t = O!Chain(sup) /\ Len(t) \in Nat /\ Len(t) >= 2 /\ t[1] = sup /\ Path(t, obj)
               /\ \A k \in 1 .. Len(t) : t[k] \in O!Everything
  BY <1>0, <1>2, ChainOf, PartsOfObject
<1>l. PICK n \in Nat : n = Len(t) - 1 /\ n >= 1 /\ n + 1 = Len(t)
  <2>1. PICK l \in Nat : l = Len(t) /\ l >= 2
    BY <1>t
  <2>2. l - 1 \in Nat /\ l - 1 >= 1 /\ (l - 1) + 1 = l
    BY <2>1
  <2> QED BY <2>1, <2>2
<1>u. PICK u : /\ u = O!PartsOf(sup) /\ u \in Seq(Pairs) /\ Len(u) = n
               /\ \A k \in 1 .. n : u[k] = <<obj[t[k]].class, obj[t[k]].data>>
  BY <1>0, <1>2, <1>t, <1>l, PartsIs
<1>6. /\ u = O!parts[sup] /\ u \in Seq(Pairs) /\ Len(u) = n /\ n \in Nat /\ n >= 1
      /\ t = O!Chain(sup) /\ n + 1 = Len(t) /\ t[1] = sup /\ Path(t, obj)
      /\ \A k \in 1 .. Len(t) : t[k] \in O!Everything
      /\ \A k \in 1 .. n : u[k] = <<obj[t[k]].class, obj[t[k]].data>>
  <2>1. O!parts[sup] = O!PartsOf(sup)
    BY <1>1, SeenIs
  <2> QED BY <1>t, <1>l, <1>u, <2>1
<1>n. n \in Nat /\ n >= 1
  BY <1>6
<1>7. O!parts'[sup] = <<added>> \o u
  <2>1. 1 \in 1 .. Len(O!Chain(sup)) /\ O!Chain(sup)[1] = sup
    BY <1>6
  <2>2. Lengthened(sup, 1, sub) /\ \A k \in 1 .. Len(O!Chain(sup)) : O!Chain(sup)[k] # sub
    BY <1>1, <1>2, <1>3, <2>1
  <2>3. PICK m \in Nat :
           /\ m = Len(O!PartsOf(sup)) /\ 1 \in 1 .. m /\ O!PartsOf(sup) \in Seq(Pairs)
           /\ O!PartsOf(sup)' \in Seq(Pairs) /\ Len(O!PartsOf(sup)') = m + 1
           /\ O!PartsOf(sup)'[1] = <<obj[sub].class, obj[sub].data>>
           /\ O!PartsOf(sup)[1] = <<obj[sup].class, obj[sup].data>>
           /\ \A k \in 1 .. 1 - 1 : O!PartsOf(sup)'[k] = O!PartsOf(sup)[k]
           /\ \A k \in 1 .. m : O!PartsOf(sup)'[k + 1] = O!PartsOf(sup)[k]
    <3>1. /\ sub # sup /\ sub \in Addr /\ sup \in Addr
          /\ Swaps(sub, sup) /\ obj' \in [O!Everything -> ObjectCells]
          /\ obj[sub].class \in Class /\ obj[sup].class \in Class
      BY <1>1, <1>2
    <3>2. SeesMore(sup, 1, sub, sup)
      BY <1>0, <2>1, <2>2, <3>1, LongerParts
    <3> QED BY <3>2 DEF SeesMore
  <2>4. O!parts[sup] = O!PartsOf(sup) /\ O!parts'[sup] = O!PartsOf(sup)'
    BY <1>1, SeenIs
  <2>5. PICK v : /\ v = O!parts'[sup] /\ v \in Seq(Pairs) /\ Len(v) = n + 1 /\ v[1] = added
                 /\ \A k \in 1 .. n : v[k + 1] = u[k]
    <3>1. m = n /\ O!PartsOf(sup) = u
      BY <1>6, <2>3, <2>4
    <3> QED BY <1>4, <2>3, <2>4, <3>1
  <2>6. added \in Pairs
    <3>1. 1 \in 1 .. Len(v)
      BY <1>n, <2>5
    <3> QED BY <2>5, <3>1, ElementOfSeq
  <2>7. PICK w : w = <<added>> \o u
    OBVIOUS
  <2>8. w \in Seq(Pairs) /\ Len(w) = n + 1 /\ w[1] = added /\ \A k \in 2 .. n + 1 : w[k] = u[k - 1]
    BY <1>6, <2>6, <2>7
  <2>9. ASSUME NEW k \in 1 .. n + 1 PROVE v[k] = w[k]
    <3>1. CASE k = 1
      BY <2>5, <2>8, <3>1
    <3>2. CASE k # 1
      <4>1. k - 1 \in 1 .. n /\ (k - 1) + 1 = k /\ k \in 2 .. n + 1
        BY <1>n, <3>2
      <4> QED BY <2>5, <2>8, <4>1
    <3> QED BY <3>1, <3>2
  <2>10. v = w
    BY <2>5, <2>8, <2>9, SeqEqual
  <2> QED BY <2>5, <2>7, <2>10
\* What references to sub see.
<1>8. O!parts'[sub] = u
  <2>1. PICK t2 : t2 = O!Chain(sub)' /\ Len(t2) = n + 1 /\ t2[1] = sub
                  /\ \A k \in 2 .. n + 1 : t2[k] = t[k]
    BY <1>3, <1>6 DEF Shortened
  <2>2. O!PartsOf(sub)' = [k \in 1 .. Len(O!Chain(sub)') - 1 |->
                             <<obj'[O!Chain(sub)'[k]].class, obj'[O!Chain(sub)'[k]].data>>]
    BY DEF O!PartsOf
  <2>3. (n + 1) - 1 = n
    BY <1>6
  <2>4. PICK v : v = O!PartsOf(sub)' /\ v = [k \in 1 .. n |-> <<obj'[t2[k]].class, obj'[t2[k]].data>>]
    BY <2>1, <2>2, <2>3
  <2>5. ASSUME NEW k \in 1 .. n PROVE v[k] = u[k]
    <3>1. CASE k = 1
      BY <1>1, <1>6, <2>1, <2>4, <3>1 DEF Swaps
    <3>2. CASE k # 1
      <4>1. k \in 2 .. n + 1 /\ k \in 1 .. Len(t) /\ 1 \in 1 .. Len(t)
        BY <1>6, <3>2
      <4>2. t[k] # sup
        BY <1>6, <3>2, <4>1, PathDistinct
      <4>3. t[k] # sub /\ t[k] \in O!Everything
        BY <1>1, <1>2, <1>3, <1>6, <4>1
      <4>4. obj'[t[k]] = obj[t[k]]
        BY <1>1, <4>2, <4>3 DEF Swaps
      <4> QED BY <1>6, <2>1, <2>4, <4>1, <4>4
    <3> QED BY <3>1, <3>2
  <2>6. u = [k \in 1 .. n |-> u[k]]
    BY <1>6
  <2>7. v = u
    BY <2>4, <2>5, <2>6
  <2>8. O!parts'[sub] = O!PartsOf(sub)'
    BY <1>1, SeenIs
  <2> QED BY <2>4, <2>7, <2>8
<1>9. ASSUME NEW o \in Addr \ {sub, sup}
      PROVE  \/ O!parts'[o] = O!parts[o]
             \/ \E k \in DOMAIN O!parts[o] :
                  /\ O!parts[o][k] = u[1]
                  /\ O!parts'[o] = (SubSeq(O!parts[o], 1, k - 1) \o <<added>>)
                                     \o SubSeq(O!parts[o], k, Len(O!parts[o]))
  <2>1. CASE o \notin known
    BY <1>1, <2>1, SeenIs
  <2>2. CASE o \in known /\ \A k \in 1 .. Len(O!Chain(o)) : O!Chain(o)[k] # sup
    <3>1. /\ o \in O!Everything /\ O!Chain(o)' = O!Chain(o) /\ Len(O!Chain(o)) \in Nat
          /\ \A k \in 1 .. Len(O!Chain(o)) : O!Chain(o)[k] \in O!Everything \ {sub, sup}
      BY <1>0, <1>3, <2>2, ChainOf DEF O!Everything
    <3>2. \A k \in 1 .. Len(O!Chain(o)) - 1 : obj'[O!Chain(o)[k]] = obj[O!Chain(o)[k]]
      BY <1>1, <3>1 DEF Swaps
    <3>3. O!parts'[o] = O!parts[o]
      BY <1>0, <1>1, <2>2, <3>1, <3>2, SeesTheSame
    <3> QED BY <3>3
  <2>3. CASE o \in known /\ \E k \in 1 .. Len(O!Chain(o)) : O!Chain(o)[k] = sup
    <3>1. PICK i \in 1 .. Len(O!Chain(o)) : O!Chain(o)[i] = sup
      BY <2>3
    <3>2. /\ obj[o].class \in Class /\ Lengthened(o, i, sub)
          /\ \A k \in 1 .. Len(O!Chain(o)) : O!Chain(o)[k] # sub
      BY <1>0, <1>3, <2>3, <3>1 DEF Refs, O!Everything
    <3>3. PICK m \in Nat :
             /\ m = Len(O!PartsOf(o)) /\ i \in 1 .. m /\ O!PartsOf(o) \in Seq(Pairs)
             /\ O!PartsOf(o)' \in Seq(Pairs) /\ Len(O!PartsOf(o)') = m + 1
             /\ O!PartsOf(o)'[i] = <<obj[sub].class, obj[sub].data>>
             /\ O!PartsOf(o)[i] = <<obj[sup].class, obj[sup].data>>
             /\ \A k \in 1 .. i - 1 : O!PartsOf(o)'[k] = O!PartsOf(o)[k]
             /\ \A k \in i .. m : O!PartsOf(o)'[k + 1] = O!PartsOf(o)[k]
      <4>1. /\ sub # sup /\ sub \in Addr /\ sup \in Addr /\ o \in Addr /\ o # sub
            /\ Swaps(sub, sup) /\ obj' \in [O!Everything -> ObjectCells] /\ obj[sub].class \in Class
        BY <1>1, <1>2
      <4>2. SeesMore(o, i, sub, sup)
        BY <1>0, <3>1, <3>2, <4>1, LongerParts
      <4> QED BY <4>2 DEF SeesMore
    <3>4. O!parts[o] = O!PartsOf(o) /\ O!parts'[o] = O!PartsOf(o)'
      BY <1>1, <2>3, SeenIs
    <3>5. PICK x, v :
             /\ x = O!parts[o] /\ v = O!parts'[o] /\ x \in Seq(Pairs) /\ v \in Seq(Pairs)
             /\ m = Len(x) /\ Len(v) = m + 1 /\ v[i] = added
             /\ x[i] = <<obj[sup].class, obj[sup].data>>
             /\ \A k \in 1 .. i - 1 : v[k] = x[k]
             /\ \A k \in i .. m : v[k + 1] = x[k]
      BY <1>4, <3>3, <3>4
    <3>6. added \in Pairs
      <4>1. i \in 1 .. Len(v)
        BY <3>3, <3>5
      <4> QED BY <3>5, <4>1, ElementOfSeq
    <3>i. /\ x \in Seq(Pairs) /\ v \in Seq(Pairs) /\ i \in 1 .. m
          /\ m = Len(x) /\ Len(v) = m + 1 /\ v[i] = added
          /\ \A k \in 1 .. i - 1 : v[k] = x[k]
          /\ \A k \in i .. m : v[k + 1] = x[k]
      BY <3>3, <3>5
    <3>7. v = (SubSeq(x, 1, i - 1) \o <<added>>) \o SubSeq(x, i, m)
      BY <3>6, <3>i, InsertIs
    <3>8. x[i] = u[1] /\ i \in DOMAIN x
      <4>1. u[1] = <<obj[sup].class, obj[sup].data>>
        <5>1. 1 \in 1 .. n
          BY <1>6
        <5> QED BY <1>6, <5>1
      <4>2. i \in DOMAIN x
        BY <3>3, <3>5
      <4> QED BY <3>5, <4>1, <4>2
    <3> QED BY <3>5, <3>7, <3>8
  <2> QED BY <2>1, <2>2, <2>3
<1>10. answer'[1] = "become" /\ answer'[2] = sub /\ answer'[3] = sup
  BY <1>1
<1>11. Len(<<added>>) = 1 /\ <<added>>[1] = added
  OBVIOUS
<1>12. u = O!parts[sup]
  BY <1>6
<1>13. /\ Len(O!parts[sub]) = 1 /\ O!parts[sub][1] = added
       /\ O!parts'[sup] = <<added>> \o O!parts[sup] /\ O!parts'[sub] = O!parts[sup]
  BY <1>5, <1>7, <1>8, <1>11, <1>12
<1>14. \A o \in Addr \ {sub, sup} :
         \/ O!parts'[o] = O!parts[o]
         \/ \E k \in DOMAIN O!parts[o] :
              /\ O!parts[o][k] = O!parts[sup][1]
              /\ O!parts'[o] = (SubSeq(O!parts[o], 1, k - 1) \o <<added>>)
                                 \o SubSeq(O!parts[o], k, Len(O!parts[o]))
  BY <1>9, <1>12
<1> QED BY <1>10, <1>13, <1>14, Zenon DEF O!Objects!Become, O!Objects!Before, O!Objects!From

\* clone: c are the copies of o's parts, GraceDefaultObject included.
Copies(o, c) ==
  /\ \A k \in 1 .. Len(O!Chain(o)) :
       /\ c[k] \in Addr /\ obj[c[k]] = O!FREE
       /\ obj'[c[k]].class = obj[O!Chain(o)[k]].class
       /\ obj'[c[k]].data = obj[O!Chain(o)[k]].data
       /\ obj'[c[k]].super = IF k = Len(O!Chain(o)) THEN NULL ELSE c[k + 1]
  /\ \A p \in O!Everything : (\A k \in 1 .. Len(O!Chain(o)) : c[k] # p) => obj'[p] = obj[p]

LEMMA CloneIs ==
  ASSUME O!ConstantsOK, ObjectInv, NEW o \in known, O!Clone(o)
  PROVE  \E c \in Seq(O!Everything) :
           /\ Len(c) = Len(O!Chain(o)) /\ Copies(o, c) /\ obj' \in [O!Everything -> ObjectCells]
           /\ known' = known \cup {c[1]} /\ answer' = <<"clone", o, c[1]>>
           /\ data' = data /\ building' = building
<1>1. Laid /\ Paths(obj) /\ o \in O!Everything
  BY DEF ObjectInv, Refs, O!Everything
<1>2. PICK t : t = O!Chain(o) /\ t \in Seq(O!Everything)
  BY <1>1, ChainOf
<1>3. PICK m \in Nat : m = Len(t) /\ m # 0 /\ \A k \in 1 .. m : t[k] \in O!Everything
  BY <1>1, <1>2, ChainOf
<1>4. PICK c : c = O!Fresh(m) /\ c \in O!Places(m)
  <2>1. O!Room(m)
    BY <1>2, <1>3 DEF O!Clone
  <2> QED BY <2>1 DEF O!Room, O!Fresh
<1>5. /\ c \in [1 .. m -> O!Unused]
      /\ \A j, k \in 1 .. m : j < k => c[j] # c[k]
  BY <1>4 DEF O!Places
<1>6. c \in Seq(O!Everything) /\ Len(c) = m /\ DOMAIN c = 1 .. m
  <2>1. c \in [1 .. m -> O!Everything]
    BY <1>5 DEF O!Unused, O!Everything
  <2>2. c \in Seq(O!Everything)
    BY <1>3, <2>1
  <2> QED BY <1>3, <2>1, <2>2
<1>7. ASSUME NEW k \in 1 .. m PROVE c[k] \in Addr /\ obj[c[k]] = O!FREE /\ c[k] \in O!Everything
  BY <1>5 DEF O!Unused, O!Everything
<1> DEFINE New(k) == [obj[t[k]] EXCEPT !.super = IF k = m THEN NULL ELSE c[k + 1]]
           Is(p) == CHOOSE k \in DOMAIN c : c[k] = p
<1>8. /\ obj' = [p \in O!Everything |-> IF \E k \in DOMAIN c : c[k] = p THEN New(Is(p)) ELSE obj[p]]
      /\ known' = known \cup {c[1]} /\ answer' = <<"clone", o, c[1]>>
      /\ data' = data /\ building' = building
  BY <1>2, <1>3, <1>4 DEF O!Clone
<1>9. ASSUME NEW k \in 1 .. m PROVE Is(c[k]) = k
  <2>1. PICK j : j = Is(c[k])
    OBVIOUS
  <2>2. j \in 1 .. m /\ c[j] = c[k]
    BY <1>6, <2>1
  <2> HIDE DEF Is
  <2>3. j = k
    <3>1. j \in Nat /\ k \in Nat
      BY <2>2
    <3>2. ~ (j < k) /\ ~ (k < j)
      BY <1>5, <2>2
    <3> QED BY <3>1, <3>2
  <2> QED BY <2>1, <2>3
<1>10. ASSUME NEW k \in 1 .. m
       PROVE  New(k) \in ObjectCells /\ New(k).class = obj[t[k]].class /\ New(k).data = obj[t[k]].data
              /\ New(k).super = IF k = m THEN NULL ELSE c[k + 1]
  <2>1. obj[t[k]] \in ObjectCells
    BY <1>1, <1>3 DEF Laid
  <2>2. k # m => c[k + 1] \in O!Everything
    <3>1. k # m => k + 1 \in 1 .. m
      BY <1>3
    <3> QED BY <1>7, <3>1
  <2> QED BY <2>1, <2>2 DEF ObjectCells
<1>11. ASSUME NEW k \in 1 .. m PROVE obj'[c[k]] = New(k)
  <2>1. \E j \in DOMAIN c : c[j] = c[k]
    BY <1>6
  <2> HIDE DEF New, Is
  <2> QED BY <1>7, <1>8, <1>9, <2>1
<1>12. \A p \in O!Everything : (\A k \in 1 .. m : c[k] # p) => obj'[p] = obj[p]
  <2> HIDE DEF New, Is
  <2> QED BY <1>6, <1>8
<1>13. obj' \in [O!Everything -> ObjectCells]
  <2>1. ASSUME NEW p \in O!Everything PROVE obj'[p] \in ObjectCells
    <3>1. CASE \E k \in 1 .. m : c[k] = p
      <4> HIDE DEF New
      <4> QED BY <1>10, <1>11, <3>1
    <3>2. CASE \A k \in 1 .. m : c[k] # p
      BY <1>1, <1>12, <3>2 DEF Laid
    <3> QED BY <3>1, <3>2
  <2>2. obj' = [p \in O!Everything |-> obj'[p]]
    <3> HIDE DEF New, Is
    <3> QED BY <1>8
  <2> QED BY <2>1, <2>2
<1> HIDE DEF New, Is
<1>14. Copies(o, c)
  BY <1>2, <1>3, <1>7, <1>10, <1>11, <1>12 DEF Copies
<1> QED BY <1>2, <1>3, <1>6, <1>8, <1>13, <1>14

\* The copy's chain are the copies, and other chains stay as they are.
LEMMA CloneChains ==
  ASSUME O!ConstantsOK, Laid, Paths(obj), NEW o \in O!Everything,
         NEW c \in Seq(O!Everything), Len(c) = Len(O!Chain(o)), Copies(o, c)
  PROVE  /\ Paths(obj') /\ O!Chain(c[1])' = c
         /\ \A q \in O!Everything : (\A k \in 1 .. Len(c) : c[k] # q) =>
              /\ O!Chain(q)' = O!Chain(q)
              /\ \A i \in 1 .. Len(O!Chain(q)) : \A k \in 1 .. Len(c) : O!Chain(q)[i] # c[k]
<1>1. PICK m \in Nat : m = Len(c) /\ m = Len(O!Chain(o)) /\ m # 0
  BY ChainOf
<1>2. /\ \A k \in 1 .. m : /\ c[k] \in O!Everything /\ obj[c[k]] = O!FREE
                           /\ obj'[c[k]].super = IF k = m THEN NULL ELSE c[k + 1]
      /\ \A p \in O!Everything : (\A k \in 1 .. m : c[k] # p) => obj'[p] = obj[p]
  BY <1>1 DEF Copies, O!Everything
<1>3. Path(c, obj') /\ 1 \in 1 .. m
  <2>1. c # << >> /\ m \in 1 .. m /\ 1 \in 1 .. m
    BY <1>1, EmptySeq
  <2>2. \A k \in 1 .. m - 1 : k \in 1 .. m /\ k # m
    OBVIOUS
  <2> QED BY <1>1, <1>2, <2>1, <2>2 DEF Path
<1>4. ASSUME NEW q \in O!Everything, \A k \in 1 .. m : c[k] # q
      PROVE  /\ Path(O!Chain(q), obj') /\ O!Chain(q)[1] = q
             /\ \A i \in 1 .. Len(O!Chain(q)) : \A k \in 1 .. m : O!Chain(q)[i] # c[k]
  <2>1. PICK s : /\ s = O!Chain(q) /\ Path(s, obj) /\ s[1] = q /\ Len(s) \in Nat
                 /\ \A i \in 1 .. Len(s) : s[i] \in O!Everything
                 /\ \A i \in 2 .. Len(s) : obj[s[i]] # O!FREE
    BY ChainOf
  <2>2. ASSUME NEW i \in 1 .. Len(s), NEW k \in 1 .. m PROVE s[i] # c[k]
    <3>1. CASE i = 1
      BY <1>4, <2>1, <3>1
    <3>2. CASE i # 1
      <4>1. i \in 2 .. Len(s)
        BY <2>1, <3>2
      <4> QED BY <1>2, <2>1, <4>1
    <3> QED BY <3>1, <3>2
  <2>3. \A i \in 1 .. Len(s) : obj'[s[i]].super = obj[s[i]].super
    BY <1>2, <2>1, <2>2
  <2>4. Path(s, obj)
    BY <2>1
  <2>5. Path(s, obj')
    BY <2>3, <2>4, PathStays
  <2> QED BY <2>1, <2>2, <2>5
<1>5. Paths(obj')
  <2>1. ASSUME NEW q \in O!Everything PROVE \E s : Path(s, obj') /\ s[1] = q
    <3>1. CASE \E k \in 1 .. m : c[k] = q
      <4>1. PICK k \in 1 .. Len(c) : c[k] = q
        BY <1>1, <3>1
      <4>2. Path(SubSeq(c, k, Len(c)), obj') /\ SubSeq(c, k, Len(c))[1] = c[k]
        BY <1>3, PathTail
      <4> QED BY <4>1, <4>2
    <3>2. CASE \A k \in 1 .. m : c[k] # q
      BY <1>4, <3>2
    <3> QED BY <3>1, <3>2
  <2> QED BY <2>1 DEF Paths
<1>6. O!Chain(c[1])' = c
  <2>1. PICK q \in O!Everything : q = c[1]
    BY <1>2, <1>3
  <2>2. O!Chain(q)' = c
    BY <1>3, <1>5, <2>1, ChainAfter
  <2>3. O!Chain(c[1])' = O!Chain(q)'
    BY <2>1
  <2> QED BY <2>2, <2>3
<1>7. \A q \in O!Everything : (\A k \in 1 .. m : c[k] # q) => O!Chain(q)' = O!Chain(q)
  BY <1>4, <1>5, ChainAfter
<1> QED BY <1>1, <1>4, <1>5, <1>6, <1>7

LEMMA CloneLaid ==
  ASSUME O!ConstantsOK, Laid, DefaultData, Paths(obj), NEW o \in O!Everything, obj[o].class \in Class,
         NEW c \in Seq(O!Everything), Len(c) = Len(O!Chain(o)), Copies(o, c),
         obj' \in [O!Everything -> ObjectCells], data' = data
  PROVE  Laid' /\ DefaultData'
<1>1. PICK t : /\ t = O!Chain(o) /\ Len(t) \in Nat /\ Len(t) >= 2
               /\ \A k \in 1 .. Len(t) : t[k] \in O!Everything
               /\ \A k \in 1 .. Len(t) - 1 : obj[t[k]].class \in Class /\ obj[t[k]] # O!FREE
               /\ obj[t[Len(t)]].class = DEFAULT
  BY ChainOf, PartsOfObject
<1>2. PICK m \in Nat : m = Len(t) /\ m >= 2 /\ m = Len(c)
  BY <1>1
<1>3. /\ \A k \in 1 .. m : /\ c[k] \in O!Everything /\ c[k] # DEFAULT /\ obj[c[k]] = O!FREE
                           /\ obj'[c[k]].class = obj[t[k]].class
                           /\ obj'[c[k]].data = obj[t[k]].data
                           /\ obj'[c[k]].super = IF k = m THEN NULL ELSE c[k + 1]
      /\ \A p \in O!Everything : (\A k \in 1 .. m : c[k] # p) => obj'[p] = obj[p]
  BY <1>1, <1>2, NothingIsNone DEF Copies, O!Everything
<1>4. \A p \in O!Everything : obj[p] # O!FREE => obj'[p] = obj[p]
  BY <1>3
<1>5. /\ obj[DEFAULT] = [class |-> DEFAULT, super |-> NULL, data |-> DEFAULT] /\ DEFAULT \in O!Everything
      /\ obj[DEFAULT] # O!FREE
  BY NothingIsNone DEF Laid, O!Everything, O!FREE
<1>6. obj'[DEFAULT] = [class |-> DEFAULT, super |-> NULL, data |-> DEFAULT]
  BY <1>4, <1>5
<1>7. ASSUME NEW k \in 1 .. m
      PROVE  /\ obj[t[k]].class \in Class \cup {DEFAULT} /\ t[k] \in O!Everything /\ obj[t[k]] # O!FREE
             /\ k = m <=> obj[t[k]].class = DEFAULT
  <2>1. k \in 1 .. Len(t) - 1 \/ k = m
    BY <1>2
  <2>2. t[k] \in O!Everything
    BY <1>1, <1>2
  <2>3. k # m => obj[t[k]].class \in Class /\ obj[t[k]] # O!FREE
    BY <1>1, <2>1
  <2>4. k = m => obj[t[k]].class = DEFAULT /\ obj[t[k]] # O!FREE
    BY <1>1, <1>2, NothingIsNone DEF O!FREE
  <2> QED BY <2>2, <2>3, <2>4, NothingIsNone
<1>8. ASSUME NEW p \in O!Everything, obj[p] # O!FREE
      PROVE  /\ obj[p].class \in Class \cup {DEFAULT} /\ obj[p].data \in O!Everything
             /\ obj[obj[p].data] # O!FREE /\ data[obj[p].data].layout = obj[p].class
             /\ obj[p].super = NULL <=> obj[p].class = DEFAULT
             /\ obj[p].super # NULL => obj[obj[p].super] # O!FREE /\ obj[p].super \in O!Everything
  <2>1. obj[p] \in ObjectCells
    BY DEF Laid
  <2> QED BY <1>8, <2>1 DEF Laid, ObjectCells
<1>9. ASSUME NEW p \in O!Everything, obj'[p] # O!FREE
      PROVE  /\ obj'[p].class \in Class \cup {DEFAULT} /\ obj'[p].data \in O!Everything
             /\ obj'[obj'[p].data] # O!FREE /\ data[obj'[p].data].layout = obj'[p].class
             /\ obj'[p].super = NULL <=> obj'[p].class = DEFAULT
             /\ obj'[p].super # NULL => obj'[obj'[p].super] # O!FREE
  <2>1. CASE \E k \in 1 .. m : c[k] = p
    <3>1. PICK k \in 1 .. m : c[k] = p
      BY <2>1
    <3>2. PICK x : x = t[k] /\ x \in O!Everything /\ obj[x] # O!FREE
                   /\ obj[x].class \in Class \cup {DEFAULT} /\ (k = m <=> obj[x].class = DEFAULT)
      BY <1>7
    <3>3. /\ obj'[p].class = obj[x].class /\ obj'[p].data = obj[x].data
          /\ obj'[p].super = IF k = m THEN NULL ELSE c[k + 1]
      BY <1>3, <3>1, <3>2
    <3>4. /\ obj[x].data \in O!Everything /\ obj[obj[x].data] # O!FREE
          /\ data[obj[x].data].layout = obj[x].class
      BY <1>8, <3>2
    <3>5. obj'[obj[x].data] # O!FREE
      BY <1>4, <3>4
    <3>6. k # m => c[k + 1] # NULL /\ obj'[c[k + 1]] # O!FREE
      <4>1. SUFFICES ASSUME k # m PROVE c[k + 1] # NULL /\ obj'[c[k + 1]] # O!FREE
        OBVIOUS
      <4>2. k + 1 \in 1 .. m
        BY <4>1
      <4>3. obj'[c[k + 1]].class \in Class \cup {DEFAULT} /\ c[k + 1] \in O!Everything
        BY <1>3, <1>7, <4>2
      <4> QED BY <4>3, NothingIsNone DEF O!FREE
    <3> QED BY <3>2, <3>3, <3>4, <3>5, <3>6
  <2>2. CASE \A k \in 1 .. m : c[k] # p
    <3>1. obj'[p] = obj[p] /\ obj[p] # O!FREE
      BY <1>3, <1>9, <2>2
    <3>2. /\ obj[p].class \in Class \cup {DEFAULT} /\ obj[p].data \in O!Everything
          /\ obj[obj[p].data] # O!FREE /\ data[obj[p].data].layout = obj[p].class
          /\ obj[p].super = NULL <=> obj[p].class = DEFAULT
          /\ obj[p].super # NULL => obj[obj[p].super] # O!FREE /\ obj[p].super \in O!Everything
      BY <1>8, <3>1
    <3> QED BY <1>4, <3>1, <3>2
  <2> QED BY <2>1, <2>2
<1>10. Laid'
  BY <1>6, <1>9 DEF Laid
<1>11. ASSUME NEW p \in O!Everything, obj'[p].class = DEFAULT PROVE obj'[p].data = DEFAULT
  <2>1. CASE \E k \in 1 .. m : c[k] = p
    <3>1. PICK k \in 1 .. m : c[k] = p
      BY <2>1
    <3> QED BY <1>3, <1>7, <1>11, <3>1 DEF DefaultData
  <2>2. CASE \A k \in 1 .. m : c[k] # p
    BY <1>3, <1>11, <2>2 DEF DefaultData
  <2> QED BY <2>1, <2>2
<1> QED BY <1>10, <1>11 DEF DefaultData

LEMMA CloneKeeps ==
  ASSUME O!ConstantsOK, ObjectInv, NEW o \in known, O!Clone(o)
  PROVE  ObjectInv'
<1>0. ChainInv' /\ ChainInv /\ Laid /\ DefaultData /\ Paths(obj) /\ Refs
  BY AtClone DEF ObjectInv
<1>1. PICK c \in Seq(O!Everything) :
        /\ Len(c) = Len(O!Chain(o)) /\ Copies(o, c) /\ obj' \in [O!Everything -> ObjectCells]
        /\ known' = known \cup {c[1]}
        /\ data' = data /\ building' = building
  BY CloneIs
<1>2. o \in O!Everything /\ obj[o].class \in Class
  BY <1>0 DEF Refs, O!Everything
<1>3. /\ Paths(obj') /\ O!Chain(c[1])' = c
      /\ \A q \in O!Everything : (\A k \in 1 .. Len(c) : c[k] # q) =>
           /\ O!Chain(q)' = O!Chain(q)
           /\ \A i \in 1 .. Len(O!Chain(q)) : \A k \in 1 .. Len(c) : O!Chain(q)[i] # c[k]
  BY <1>0, <1>1, <1>2, CloneChains
<1>4. Laid' /\ DefaultData'
  BY <1>0, <1>1, <1>2, CloneLaid
<1>5. /\ \A k \in 1 .. Len(c) : c[k] \in Addr /\ obj[c[k]] = O!FREE
      /\ \A p \in O!Everything : (\A k \in 1 .. Len(c) : c[k] # p) => obj'[p] = obj[p]
  BY <1>1 DEF Copies
<1>6. 1 \in 1 .. Len(c) /\ Len(c) \in Nat /\ obj'[c[1]].class \in Class
  <2>1. Len(c) \in Nat /\ Len(c) # 0 /\ O!Chain(o)[1] = o
    BY <1>0, <1>1, <1>2, ChainOf
  <2>2. 1 \in 1 .. Len(c)
    BY <2>1
  <2> QED BY <1>1, <1>2, <2>1, <2>2 DEF Copies
<1>7. ASSUME NEW q \in O!Everything, obj[q] # O!FREE
      PROVE  /\ obj'[q] = obj[q] /\ O!Chain(q)' = O!Chain(q)
             /\ \A i \in 1 .. Len(O!Chain(q)) : \A k \in 1 .. Len(c) : O!Chain(q)[i] # c[k]
  <2>1. \A k \in 1 .. Len(c) : c[k] # q
    BY <1>5, <1>7
  <2> QED BY <1>3, <1>5, <2>1
<1>8. \A q \in known : q \in Addr /\ q \in O!Everything /\ obj[q] # O!FREE /\ obj[q].class \in Class
  BY <1>0, NothingIsNone DEF Refs, O!Everything, O!FREE
<1>9. Refs'
  <2>1. ASSUME NEW q \in known' PROVE q \in Addr /\ obj'[q].class \in Class
    <3>1. CASE q \in known
      BY <1>7, <1>8, <3>1
    <3>2. CASE q = c[1]
      BY <1>5, <1>6, <3>2
    <3> QED BY <1>1, <3>1, <3>2
  <2> QED BY <2>1 DEF Refs
<1>10. ASSUME NEW k \in 1 .. Len(building) PROVE UnderWay(k)'
  <2>1. PICK s \in Addr : s = building[k].self /\ s \in known
    BY FrameIs
  <2>2. /\ building[k].own \in O!Everything /\ obj[building[k].own] # O!FREE
        /\ \A q \in known \ {s} : Apart(q, s)
    BY <2>1, FrameIs
  <2>3. s \in O!Everything /\ obj[s] # O!FREE /\ obj[s].class \in Class
    BY <1>8, <2>1
  <2>4. /\ O!Chain(s)' = O!Chain(s) /\ Len(O!Chain(s)) \in Nat
        /\ \A i \in 1 .. Len(O!Chain(s)) - 1 : i \in 1 .. Len(O!Chain(s))
        /\ \A i \in 1 .. Len(O!Chain(s)) - 1 : \A h \in 1 .. Len(c) : O!Chain(s)[i] # c[h]
    <3>1. Len(O!Chain(s)) \in Nat
      BY <1>0, <2>3, ChainOf
    <3>2. \A i \in 1 .. Len(O!Chain(s)) - 1 : i \in 1 .. Len(O!Chain(s))
      BY <3>1
    <3> QED BY <1>7, <2>3, <3>1, <3>2
  <2>5. \A i \in 1 .. Len(O!Chain(s)) - 1 : obj'[O!Chain(s)[i]] = obj[O!Chain(s)[i]]
    <3>1. \A i \in 1 .. Len(O!Chain(s)) : O!Chain(s)[i] \in O!Everything
      BY <1>0, <2>3, ChainOf
    <3> QED BY <1>5, <2>4, <3>1
  <2>6. ASSUME NEW q \in known', q # s PROVE Apart(q, s)'
    <3>1. CASE q \in known
      <4>1. O!Chain(q)' = O!Chain(q) /\ Apart(q, s)
        BY <1>7, <1>8, <2>2, <2>6, <3>1
      <4> QED BY <2>4, <4>1 DEF Apart
    <3>2. CASE q = c[1]
      <4>1. O!Chain(q)' = c
        BY <1>3, <3>2
      <4>2. \A i \in 1 .. Len(c) - 1 : i \in 1 .. Len(c)
        BY <1>6
      <4> QED BY <2>4, <4>1, <4>2 DEF Apart
    <3> QED BY <1>1, <3>1, <3>2
  <2>7. /\ building'[k] = building[k] /\ \A j \in 1 .. k - 1 : building'[j].own = building[j].own
        /\ \/ k # Len(building') /\ k # Len(building) /\ building'[k + 1].own = building[k + 1].own
           \/ k = Len(building') /\ k = Len(building)
    BY <1>1
  <2>8. s \in known' /\ (building[k].own \in known' => building[k].own \in known)
    <3>1. building[k].own # c[1]
      BY <1>5, <1>6, <2>2
    <3> QED BY <1>1, <2>1, <3>1
  <2>9. /\ obj'[building[k].own].class = obj[building[k].own].class
        /\ obj'[building[k].own].super = obj[building[k].own].super
        /\ \A i \in 1 .. Len(O!Chain(s)) - 1 :
             /\ obj'[O!Chain(s)[i]].class = obj[O!Chain(s)[i]].class
             /\ obj'[O!Chain(s)[i]].data = obj[O!Chain(s)[i]].data
        /\ \A i \in 2 .. Len(O!Chain(s)) - 1 :
             data'[O!Chain(s)[i]].outer = data[O!Chain(s)[i]].outer
    BY <1>1, <1>7, <2>2, <2>5
  <2> QED BY <2>1, <2>4, <2>6, <2>7, <2>8, <2>9, UnderWayStays
<1>11. \A k \in 1 .. Len(building') : UnderWay(k)'
  BY <1>1, <1>10
<1> QED BY <1>0, <1>3, <1>4, <1>9, <1>11 DEF ObjectInv

LEMMA CloneRefines ==
  ASSUME O!ConstantsOK, ObjectInv, NEW o \in known, O!Clone(o)
  PROVE  O!Objects!Clone
<1>0. Laid /\ Paths(obj) /\ Refs
  BY DEF ObjectInv
<1>1. PICK c \in Seq(O!Everything) :
        /\ Len(c) = Len(O!Chain(o)) /\ Copies(o, c)
        /\ known' = known \cup {c[1]} /\ answer' = <<"clone", o, c[1]>>
  BY CloneIs
<1>2. o \in O!Everything /\ o \in Addr /\ obj[o].class \in Class
  BY <1>0 DEF Refs, O!Everything
<1>3. /\ O!Chain(c[1])' = c
      /\ \A q \in O!Everything : (\A k \in 1 .. Len(c) : c[k] # q) => O!Chain(q)' = O!Chain(q)
  BY <1>0, <1>1, <1>2, CloneChains
<1>4. /\ \A k \in 1 .. Len(c) : c[k] \in Addr /\ obj[c[k]] = O!FREE
      /\ \A k \in 1 .. Len(c) : /\ obj'[c[k]].class = obj[O!Chain(o)[k]].class
                                /\ obj'[c[k]].data = obj[O!Chain(o)[k]].data
      /\ \A p \in O!Everything : (\A k \in 1 .. Len(c) : c[k] # p) => obj'[p] = obj[p]
  BY <1>1 DEF Copies
<1>5. 1 \in 1 .. Len(c) /\ Len(c) \in Nat
  <2>1. Len(c) \in Nat /\ Len(c) # 0
    BY <1>0, <1>1, <1>2, ChainOf
  <2> QED BY <2>1
<1>6. PICK new \in Addr : new = c[1] /\ obj[new] = O!FREE
  BY <1>4, <1>5
<1>7. \A q \in known : q \in Addr /\ q \in O!Everything /\ obj[q] # O!FREE /\ obj[q].class \in Class
  BY <1>0, NothingIsNone DEF Refs, O!Everything, O!FREE
<1>8. new \notin known /\ new \in known' /\ known' = known \cup {new}
  BY <1>1, <1>6, <1>7
<1>9. O!PartsOf(new)' = O!PartsOf(o)
  <2>1. O!Chain(new)' = c
    BY <1>3, <1>6
  <2>2. O!PartsOf(new)' = [k \in 1 .. Len(O!Chain(new)') - 1 |->
                             <<obj'[O!Chain(new)'[k]].class, obj'[O!Chain(new)'[k]].data>>]
    BY DEF O!PartsOf
  <2>3. O!PartsOf(o) = [k \in 1 .. Len(O!Chain(o)) - 1 |->
                          <<obj[O!Chain(o)[k]].class, obj[O!Chain(o)[k]].data>>]
    BY DEF O!PartsOf
  <2>4. \A k \in 1 .. Len(c) - 1 : k \in 1 .. Len(c)
    BY <1>5
  <2> QED BY <1>1, <1>4, <2>1, <2>2, <2>3, <2>4
<1>10. O!parts[new] = << >> /\ O!parts'[new] = O!parts[o]
  BY <1>2, <1>8, <1>9, SeenIs
<1>11. ASSUME NEW q \in Addr \ {new} PROVE O!parts'[q] = O!parts[q]
  <2>1. CASE q \in known
    <3>1. q \in O!Everything /\ \A k \in 1 .. Len(c) : c[k] # q
      BY <1>4, <1>7, <2>1
    <3>2. O!Chain(q)' = O!Chain(q) /\ Len(O!Chain(q)) \in Nat
      BY <1>0, <1>3, <3>1, ChainOf
    <3>3. ASSUME NEW k \in 1 .. Len(O!Chain(q)) - 1
          PROVE  obj'[O!Chain(q)[k]] = obj[O!Chain(q)[k]]
      <4>1. k \in 1 .. Len(O!Chain(q))
        BY <3>2
      <4>2. O!Chain(q)[k] \in O!Everything /\ obj[O!Chain(q)[k]] # O!FREE
        BY <1>0, <1>7, <2>1, <3>1, <4>1, ChainOf, PartsOfObject
      <4> QED BY <1>4, <4>2
    <3>4. q \in known'
      BY <1>1, <2>1
    <3> QED BY <1>0, <2>1, <3>1, <3>2, <3>3, <3>4, SeesTheSame
  <2>2. CASE q \notin known
    BY <1>8, <2>2, SeenIs
  <2> QED BY <2>1, <2>2
<1>12. O!Objects!Others({new})
  BY <1>11 DEF O!Objects!Others
<1>13. answer'[1] = "clone" /\ answer'[2] = o /\ answer'[3] = new
  BY <1>1, <1>6
<1> QED BY <1>10, <1>12, <1>13 DEF O!Objects!Clone

\* All this holds in every state, and what references see follows ObjectSpec.
LEMMA ObjectsAtInit ==
  ASSUME O!ConstantsOK, O!Init
  PROVE  ObjectInv /\ O!Objects!Init
<1>1. /\ DEFAULT \in O!Everything /\ known = {} /\ building = << >> /\ answer = <<"none">>
      /\ obj = [o \in O!Everything |-> IF o = DEFAULT
                  THEN [class |-> DEFAULT, super |-> NULL, data |-> DEFAULT] ELSE O!FREE]
      /\ data[DEFAULT].layout = DEFAULT
  BY DEF O!Init, O!Everything
<1>2. /\ [class |-> DEFAULT, super |-> NULL, data |-> DEFAULT] \in ObjectCells
      /\ O!FREE \in ObjectCells
  BY <1>1 DEF ObjectCells, O!FREE
<1>3. /\ obj \in [O!Everything -> ObjectCells]
      /\ obj[DEFAULT] = [class |-> DEFAULT, super |-> NULL, data |-> DEFAULT]
      /\ \A p \in O!Everything : p # DEFAULT => obj[p] = O!FREE
  BY <1>1, <1>2
<1>4. obj[DEFAULT] # O!FREE /\ O!FREE.class = NULL /\ O!FREE.super = NULL
  BY <1>3, NothingIsNone DEF O!FREE
<1>5. Laid
  <2>1. ASSUME NEW p \in O!Everything, obj[p] # O!FREE PROVE p = DEFAULT
    BY <1>3, <2>1
  <2>2. /\ obj[DEFAULT].class = DEFAULT /\ obj[DEFAULT].data = DEFAULT /\ obj[DEFAULT].super = NULL
    BY <1>3
  <2> QED BY <1>1, <1>3, <1>4, <2>1, <2>2 DEF Laid
<1>6. DefaultData
  BY <1>3, <1>4, NothingIsNone DEF DefaultData
<1>7. Paths(obj)
  <2>1. ASSUME NEW q \in O!Everything PROVE Path(<<q>>, obj) /\ <<q>>[1] = q
    <3>1. obj[q].super = NULL
      BY <1>3, <1>4
    <3> QED BY <3>1 DEF Path
  <2> QED BY <2>1 DEF Paths
<1>8. Refs /\ Len(building) = 0
  BY <1>1 DEF Refs
<1>9. ChainInv
  BY AtInit
<1>10. ObjectInv
  BY <1>5, <1>6, <1>7, <1>8, <1>9 DEF ObjectInv
<1>11. O!parts = [o \in Addr |-> << >>]
  BY <1>1 DEF O!parts
<1> QED BY <1>1, <1>10, <1>11 DEF O!Objects!Init

LEMMA ObjectsAreTyped ==
  ASSUME O!ConstantsOK, ObjectInv
  PROVE  O!TypeOK
<1>1. Laid /\ Refs
  BY DEF ObjectInv
<1>2. known \cap O!Unused = {}
  BY <1>1, NothingIsNone DEF Refs, O!Unused, O!FREE
<1> QED BY <1>1, <1>2 DEF Laid, O!TypeOK

LEMMA ObjectStep ==
  ASSUME O!ConstantsOK, ObjectInv, [O!Next]_O!vars
  PROVE  ObjectInv' /\ [O!Objects!Next]_<<O!parts, answer>> /\ O!BuiltWholeStep
<1> DEFINE Good == ObjectInv' /\ (O!Objects!Next \/ (O!parts' = O!parts /\ answer' = answer))
<1>0. /\ O!Objects!Construct => O!Objects!Next
      /\ O!Objects!Inherit => O!Objects!Next
      /\ O!Objects!Request => O!Objects!Next
      /\ O!Objects!Become => O!Objects!Next
      /\ O!Objects!Clone => O!Objects!Next
  BY Zenon DEF O!Objects!Next
<1>1. ASSUME NEW c \in Class, O!Construct(c) PROVE Good
  <2>1. ObjectInv'
    BY <1>1, ConstructKeeps
  <2>2. O!Objects!Construct
    BY <1>1, ConstructRefines
  <2> QED BY <1>0, <2>1, <2>2, Zenon
<1>2. ASSUME O!Inherit PROVE Good
  <2>1. ObjectInv'
    BY <1>2, InheritKeeps
  <2>2. O!Objects!Inherit
    BY <1>2, <2>1, InheritRefines
  <2> QED BY <1>0, <2>1, <2>2, Zenon
<1>3. ASSUME O!Finish PROVE Good
  <2>1. obj' = obj /\ known' = known /\ answer' = answer
    BY <1>3, FinishLinks DEF ObjectInv
  <2> QED BY <1>3, <2>1, FinishKeeps, SeesNothing
<1>4. ASSUME NEW n \in 0 .. MaxNesting, O!Raise(n) PROVE Good
  <2>1. obj' = obj /\ known' = known /\ answer' = answer
    BY <1>4 DEF O!Raise
  <2> QED BY <1>4, <2>1, RaiseKeeps, SeesNothing
<1>5. ASSUME NEW o \in known, NEW name \in Name, NEW superdepth \in 0 .. Len(O!Chain(o)),
             O!Request(o, name, superdepth)
      PROVE  Good
  <2>1. UNCHANGED <<obj, data, building, known>>
    BY <1>5 DEF O!Request
  <2>2. superdepth \in Nat
    <3>1. Len(O!Chain(o)) \in Nat
      <4>1. o \in O!Everything /\ Laid /\ Paths(obj)
        BY DEF ObjectInv, Refs, O!Everything
      <4> QED BY <4>1, ChainOf
    <3> QED BY <3>1
  <2>3. O!Objects!Request
    BY <1>5, <2>2, RequestRefines
  <2>4. ObjectInv'
    BY <2>1, RequestKeeps
  <2> QED BY <1>0, <2>3, <2>4, Zenon
<1>6. ASSUME NEW sub \in known, NEW sup \in known, O!Become(sub, sup) PROVE Good
  <2>1. ObjectInv'
    BY <1>6, BecomeKeeps
  <2>2. O!Objects!Become
    BY <1>6, BecomeRefines
  <2> QED BY <1>0, <2>1, <2>2, Zenon
<1>7. ASSUME NEW o \in known, O!Clone(o) PROVE Good
  <2>1. ObjectInv'
    BY <1>7, CloneKeeps
  <2>2. O!Objects!Clone
    BY <1>7, CloneRefines
  <2> QED BY <1>0, <2>1, <2>2, Zenon
<1>8. ASSUME UNCHANGED O!vars PROVE Good
  <2>1. obj' = obj /\ data' = data /\ building' = building /\ known' = known /\ answer' = answer
    BY <1>8 DEF O!vars
  <2> QED BY <2>1, RequestKeeps, SeesNothing
<1>9. O!BuiltWholeStep
  BY WholeIsBuilt
<1>10. O!Next \/ UNCHANGED O!vars
  OBVIOUS
<1> HIDE DEF Good
<1>11. Good
  BY <1>1, <1>2, <1>3, <1>4, <1>5, <1>6, <1>7, <1>8, <1>10 DEF O!Next
<1> QED BY <1>9, <1>11 DEF Good

----------------------------------------------------------------------------
(* ObjectInv holds in every state of a program with native objects.         *)
THEOREM NativeInvariance ==
  ASSUME O!ConstantsOK
  PROVE  O!Spec => []ObjectInv
<1>1. O!Init => ObjectInv
  BY ObjectsAtInit
<1>2. ObjectInv /\ [O!Next]_O!vars => ObjectInv'
  BY ObjectStep
<1> QED BY <1>1, <1>2, PTL DEF O!Spec

(* Every part of an object has the data array of its class.                 *)
THEOREM NativeTyped ==
  ASSUME O!ConstantsOK
  PROVE  O!Spec => []O!TypeOK
<1>1. ObjectInv => O!TypeOK
  BY ObjectsAreTyped
<1> QED BY <1>1, NativeInvariance, PTL

(* Initialisers find the object around their own constructor as outer.      *)
THEOREM NativeOuter ==
  ASSUME O!ConstantsOK
  PROVE  O!Spec => []O!OuterInInitialisers
<1>1. ObjectInv => O!OuterInInitialisers
  <2> SUFFICES ASSUME ChainInv, O!Initialising PROVE O!Outer(O!Top.self) = O!Top.class
    BY DEF O!OuterInInitialisers, ObjectInv
  <2>1. building \in Seq(Constructors) /\ Len(building) \in 1 .. Len(building)
    BY EmptySeq DEF ChainInv, O!Initialising
  <2> QED BY <2>1 DEF ChainInv, OuterIsOwn, O!Top
<1> QED BY <1>1, NativeInvariance, PTL

(* What references to native objects see is what ObjectSpec says, and       *)
(* constructors leave whole objects.                                        *)
THEOREM NativeChainsAreObjects ==
  ASSUME O!ConstantsOK
  PROVE  O!Spec => O!IsObject /\ [][O!BuiltWholeStep]_O!vars
<1>1. O!Init => O!Objects!Init
  BY ObjectsAtInit
<1>2. ObjectInv /\ [O!Next]_O!vars => [O!Objects!Next]_<<O!parts, answer>> /\ O!BuiltWholeStep
  BY ObjectStep
<1> QED BY <1>1, <1>2, NativeInvariance, PTL DEF O!Spec, O!IsObject, O!Objects!Spec
=============================================================================
