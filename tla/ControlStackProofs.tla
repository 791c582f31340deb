------------------------- MODULE ControlStackProofs -------------------------
(***************************************************************************)
(* Proofs about ControlStack for every STACK_SIZE, every bound on frames   *)
(* and handlers and every program that keeps off three features of which   *)
(* the runs show (return_from_super, raise_in_catch) or the README says    *)
(* that the code mishandles them.  The argument: the C stack is a pile of  *)
(* frames each of which occupies its own levels of calldepth; what the     *)
(* arrays hold for a frame lies at its own levels and depends on it and on *)
(* the frames below only, so that a step, which cuts the pile, changes the *)
(* phase of the last frame and puts at most two new ones on it, disturbs   *)
(* nothing that it leaves.                                                 *)
(***************************************************************************)
EXTENDS ControlStack, SequenceTheorems, FiniteSetTheorems, NaturalsInduction,
        WellFoundedInduction, TLAPS

\* A program that leaves no catch or finally block by an exception, no inherited
\* method by a return in a block, and no typed case block by a nested return.
Ordinary(p) == p.uses \cap {"escapeCleanup", "returnInSuper", "returnInCase"} = {}
OrdinaryPrograms == \A p \in Programs : Ordinary(p)

Complete == "returnOverTry" \notin program.uses

AnyBlock == Block \cup {NoBlock}
Frame ==
  [kind : Kind, start : Nat, block : AnyBlock, arg : AnyBlock, phase : Phase,
   oldjump : Buffer, oldset : BOOLEAN, oldhandlers : Nat]

Typed ==
  /\ cstack \in Seq(Frame) /\ Here >= 1
  /\ calldepth \in 0 .. StackSize - 1
  /\ return_stack \in [-1 .. StackSize -> Buffer]
  /\ finally_stack \in [0 .. StackSize -> AnyBlock]
  /\ exceptionHandler_stack \in [0 .. StackSize -> Buffer]
  /\ error_jump \in Buffer
  /\ error_jump_set \in BOOLEAN
  /\ exceptionHandlerDepth \in Nat
  /\ status \in {"running", "exited", "undefined"}
  /\ owed \in Nat
  /\ program \in Programs

IsTry(i)   == cstack[i].kind = "try"
Unwinds(i) == cstack[i].phase = "unwind"

\* The first level of calldepth above those of frame i.
Over(i) == cstack[i].start + Height(cstack[i].kind)

\* Phases belong to kinds; an unwinding frame has been asked by callmethodflags.
PhaseOK(i) ==
  \/ cstack[i].phase = "run" /\ cstack[i].kind \in Code
  \/ cstack[i].phase = "unwind" /\ cstack[i].kind = "method"
  \/ cstack[i].phase \in Phase \ {"run", "unwind"} /\ cstack[i].kind = "try"

\* What may run above a frame of each phase, and at which level.
StandsOn(i, j) ==
  LET f == cstack[i]
      below == cstack[j]
  IN  \/ /\ below.phase = "run" /\ f.kind \in Kind \ {"top", "finally"}
         /\ f.start = Over(j)
      \/ below.phase = "body" /\ f.kind = "block" /\ f.start = below.start
      \/ below.phase = "cases" /\ f.kind \in {"case", "typedcase"} /\ f.start = below.start
      \/ /\ below.phase \in {"normal", "caught", "uncaught"} /\ f.kind = "finally"
         /\ f.start = below.start
      \/ below.phase = "unwind" /\ f.kind = "finally"

Piled(n) ==
  /\ cstack[1].kind = "top" /\ cstack[1].start = 0
  /\ cstack[1].block = NoBlock /\ cstack[1].arg = NoBlock
  /\ \A i \in 1 .. n : PhaseOK(i)
  /\ \A i \in 2 .. n : StandsOn(i, i - 1)
  /\ \A i, j \in 1 .. n : i < j => Over(i) <= cstack[j].start

AtTop ==
  \/ Top.phase = "run" /\ calldepth = Over(Here)
  \/ Top.phase = "cases" /\ calldepth = Top.start /\ Here < program.frames
  \/ Top.phase = "unwind" /\ calldepth >= Over(Here) /\ Here < program.frames

Layout == Here <= program.frames /\ Piled(Here) /\ AtTop

\* No frame of these kinds is above h up to i.
None(kinds, h, i) == \A j \in h + 1 .. i : cstack[j].kind \notin kinds

\* Block b, in the hands of frame i, was made by a frame below; its return finds
\* the method, unless a finally or typed case block is between them.
BlockOK(b, i) ==
  /\ b.home \in 1 .. i - 1
  /\ b.home > 1 /\ None({"finally"}, b.home, i) => cstack[b.home].kind \in {"method", "super"}
  /\ /\ b.home > 1 /\ cstack[b.home].kind = "method"
     /\ None({"finally"}, b.home, i) /\ None({"typedcase"}, b.home, i - 1)
     => b.retpoint \in 0 .. cstack[i].start - 1 /\ return_stack[b.retpoint] = b.home

BlocksAt(i) ==
  /\ cstack[i].kind \notin {"method", "super"} => cstack[i].block # NoBlock
  /\ cstack[i].block # NoBlock => BlockOK(cstack[i].block, i)
  /\ cstack[i].arg # NoBlock => BlockOK(cstack[i].arg, i)

\* The method that code in frame i returns from.
HomeAt(i) == IF cstack[i].kind \in {"top", "method", "super"} THEN i ELSE cstack[i].block.home

\* The slot that a block made in frame i will point to.
SlotAt(i) ==
  /\ cstack[i].kind # "try" /\ HomeAt(i) > 1 /\ cstack[HomeAt(i)].kind = "method"
  /\ None({"finally", "typedcase"}, HomeAt(i), i)
  => return_stack[Over(i) - 1] = HomeAt(i)

Returning(n) == \A i \in 2 .. n : BlocksAt(i) /\ SlotAt(i)

\* The tries that protect frame k.
Open(k) == {i \in 1 .. k : IsTry(i) /\ cstack[i].phase = "body"}

\* buf and set, as error_jump and error_jump_set, fit the frames up to k.
Handles(buf, set, k) ==
  /\ buf \in {UNSET, DEAD} \/ (buf \in Open(k) /\ \A i \in Open(k) : i <= buf)
  /\ Complete => (set <=> Open(k) # {}) /\ (set => buf \in Open(k))

NotNormal(k) == {i \in 1 .. k : IsTry(i) /\ cstack[i].phase # "normal"}
Counts(n, k) ==
  /\ n >= Cardinality(NotNormal(k))
  /\ Complete => n = Cardinality(NotNormal(k))

Cleanup(i) ==
  \/ cstack[i].kind = "finally"
  \/ cstack[i].kind \in {"case", "typedcase"} /\ cstack[i - 1].kind = "try"
Guarded(n) == \A i \in 1 .. n : Cleanup(i) => \E j \in Open(n) : i < j

\* What tryCatch of frame i has saved fits the frames below it; if it is going to
\* pass an exception on, no catch or finally block is skipped.
Saved(i) ==
  IsTry(i) => /\ Handles(cstack[i].oldjump, cstack[i].oldset, i - 1)
              /\ Counts(cstack[i].oldhandlers, i - 1)
              /\ cstack[i].phase = "uncaught" => Guarded(i - 1)
Handling ==
  /\ Handles(error_jump, error_jump_set, Here)
  /\ Counts(exceptionHandlerDepth, Here)
  /\ \A i \in 1 .. Here : Saved(i)

Waits(i) == finally_stack[i] # NoBlock

\* The levels of the try statements that unwinding frame k has left.
LeftBy(k) == cstack[k].start + 1 .. IF k = Here THEN calldepth ELSE cstack[k + 1].start

TryAt(k) ==
  IsTry(k) => /\ Waits(cstack[k].start) /\ cstack[k].start + 3 < StackSize
              /\ exceptionHandler_stack[cstack[k].start] = k
UnwindAt(k) ==
  Unwinds(k) =>
    /\ k < Here => \E i \in LeftBy(k) : Waits(i)
    /\ \A i \in LeftBy(k) : Waits(i) =>
         /\ exceptionHandler_stack[i] = DEAD
         /\ (IF k = Here THEN calldepth ELSE cstack[k + 1].start) + 2 < StackSize
         /\ ~ Complete
Belongs(i) == \E k \in 1 .. Here : \/ IsTry(k) /\ cstack[k].start = i
                                   \/ Unwinds(k) /\ i \in LeftBy(k)

\* The levels at which a finally block waits that has not begun.
OwedTo(i, k) ==
  \/ IsTry(k) /\ cstack[k].start = i /\ cstack[k].phase \in {"body", "cases"}
  \/ /\ Unwinds(k) /\ i \in LeftBy(k)
     /\ k < Here => \E h \in LeftBy(k) : i < h /\ Waits(h)
Owing == {i \in 0 .. StackSize : Waits(i) /\ \E k \in 1 .. Here : OwedTo(i, k)}

Finallies ==
  /\ \A i \in 0 .. StackSize : Waits(i) => Belongs(i)
  /\ \A k \in 1 .. Here : TryAt(k) /\ UnwindAt(k)
  /\ owed = Cardinality(Owing)

IInv ==
  /\ Typed
  /\ status = "running" => Layout /\ Returning(Here) /\ Handling /\ Finallies
  /\ Complete => status # "undefined"

----------------------------------------------------------------------------
(* Constants.                                                               *)
LEMMA Heights ==
  /\ \A k \in Kind : Height(k) \in 0 .. 3
  /\ Height("method") = 1 /\ Height("super") = 1 /\ Height("block") = 2
  /\ Height("finally") = 2 /\ Height("case") = 3 /\ Height("typedcase") = 3
  /\ Height("top") = 0 /\ Height("try") = 0
BY DEF Height, Kind

LEMMA Blocks ==
  /\ NoBlock \notin Block
  /\ \A b \in Block : b.home \in 1 .. MaxFrames + 3 /\ b.retpoint \in {NULL} \cup 0 .. StackSize - 1
BY FramesAssumption DEF Block, NoBlock

LEMMA Buffers ==
  /\ \A b \in Buffer, n \in Nat : Cut(b, n) \in Buffer /\ (b <= n => Cut(b, n) = b)
  /\ \A b \in Buffer, n \in Nat : b > n => Cut(b, n) = DEAD
  /\ \A b \in Buffer : b \in Int
  /\ \A n \in 1 .. MaxFrames + 3 : n \in Buffer
  /\ UNSET \in Buffer /\ DEAD \in Buffer
BY FramesAssumption DEF Buffer, Cut, UNSET, DEAD

LEMMA Least ==
  ASSUME NEW T, T \subseteq Nat, T # {}
  PROVE  \E x \in T : \A y \in T : x <= y
<1>1. PICK x \in T : \A y \in T : <<y, x>> \notin OpToRel(<, Nat)
  BY NatLessThanWellFounded, WFMin
<1>2. \A y \in T : ~ (y < x) /\ y \in Nat /\ x \in Nat
  BY <1>1 DEF OpToRel
<1>3. \A y \in T : x <= y
  BY <1>2
<1> QED BY <1>1, <1>3

LEMMA Greatest ==
  ASSUME NEW S, NEW n \in Nat, S \subseteq 0 .. n, S # {}
  PROVE  \E x \in S : \A y \in S : y <= x
<1> DEFINE T == {n - x : x \in S}
<1>1. T \subseteq Nat
  <2>1. \A x \in S : n - x \in Nat
    OBVIOUS
  <2> QED BY <2>1
<1>2. T # {}
  OBVIOUS
<1>3. PICK t \in T : \A y \in T : t <= y
  BY <1>1, <1>2, Least
<1>4. PICK x \in S : t = n - x
  BY <1>3
<1>5. \A y \in S : y <= x
  <2>1. TAKE y \in S
  <2>2. n - y \in T
    OBVIOUS
  <2>3. t <= n - y /\ x \in 0 .. n /\ y \in 0 .. n
    BY <1>3, <2>2
  <2> QED BY <1>4, <2>3
<1> QED BY <1>5

----------------------------------------------------------------------------
(* The pile of frames.  CutTo is what longjmp, and a call that returns,     *)
(* leave of it.                                                             *)
Same(f, g) ==
  /\ f.kind = g.kind /\ f.start = g.start /\ f.block = g.block /\ f.arg = g.arg
  /\ f.oldjump = g.oldjump /\ f.oldset = g.oldset /\ f.oldhandlers = g.oldhandlers

CutTo(n, phase) == [SubSeq(cstack, 1, n) EXCEPT ![n].phase = phase]

\* The frames up to n stay, but for the phase of n.
Kept(n) ==
  /\ n \in 1 .. Here /\ n <= Here' /\ Here' \in Nat
  /\ \A i \in 1 .. n - 1 : cstack'[i] = cstack[i]
  /\ Same(cstack'[n], cstack[n])

LEMMA PileType ==
  ASSUME Typed
  PROVE  /\ Here \in Nat \ {0} /\ \A i \in 1 .. Here : cstack[i] \in Frame
         /\ Top \in Frame /\ Here \in 1 .. Here
<1>1. Here \in Nat \ {0} /\ \A i \in 1 .. Here : cstack[i] \in Frame
  BY LenProperties, ElementOfSeq DEF Typed, Here
<1> QED BY <1>1 DEF Top

LEMMA CutFrames ==
  ASSUME Typed, NEW n \in 1 .. Here
  PROVE  /\ SubSeq(cstack, 1, n) \in Seq(Frame) /\ Len(SubSeq(cstack, 1, n)) = n
         /\ \A i \in 1 .. n : SubSeq(cstack, 1, n)[i] = cstack[i]
         /\ \A phase \in Phase :
              /\ CutTo(n, phase) \in Seq(Frame) /\ Len(CutTo(n, phase)) = n
              /\ \A i \in 1 .. n - 1 : CutTo(n, phase)[i] = cstack[i]
              /\ Same(CutTo(n, phase)[n], cstack[n]) /\ CutTo(n, phase)[n].phase = phase
<1>1. Here \in Nat /\ n \in Nat /\ \A i \in 1 .. n : cstack[i] \in Frame
  BY PileType
<1>2. /\ SubSeq(cstack, 1, n) \in Seq(Frame) /\ Len(SubSeq(cstack, 1, n)) = n
      /\ \A i \in 1 .. n : SubSeq(cstack, 1, n)[i] = cstack[i]
  BY <1>1, SubSeqProperties
<1>3. ASSUME NEW phase \in Phase
      PROVE  /\ CutTo(n, phase) \in Seq(Frame) /\ Len(CutTo(n, phase)) = n
             /\ \A i \in 1 .. n - 1 : CutTo(n, phase)[i] = cstack[i]
             /\ Same(CutTo(n, phase)[n], cstack[n]) /\ CutTo(n, phase)[n].phase = phase
  <2>1. PICK q \in Seq(Frame) : q = SubSeq(cstack, 1, n)
    BY <1>2
  <2>2. n \in 1 .. Len(q) /\ Len(q) = n /\ q[n] \in Frame /\ \A i \in 1 .. n : q[i] = cstack[i]
    BY <1>1, <1>2, <2>1
  <2>3. ASSUME NEW f \in Frame
        PROVE  /\ [f EXCEPT !.phase = phase] \in Frame
               /\ Same([f EXCEPT !.phase = phase], f) /\ [f EXCEPT !.phase = phase].phase = phase
    BY <2>3 DEF Frame, Same
  <2>4. PICK e \in Frame : e = [q[n] EXCEPT !.phase = phase] /\ Same(e, q[n]) /\ e.phase = phase
    BY <2>2, <2>3
  <2>5. CutTo(n, phase) = [q EXCEPT ![n] = e]
    BY <2>1, <2>4 DEF CutTo
  <2>6. /\ [q EXCEPT ![n] = e] \in Seq(Frame) /\ Len([q EXCEPT ![n] = e]) = n
        /\ \A j \in 1 .. n : [q EXCEPT ![n] = e][j] = IF j = n THEN e ELSE q[j]
    BY <2>2, ExceptSeq
  <2> QED BY <1>1, <2>2, <2>4, <2>5, <2>6
<1> QED BY <1>2, <1>3

\* The same of what a step makes of the pile.
LEMMA CutKeeps ==
  ASSUME Typed, NEW n \in 1 .. Here, NEW phase \in Phase, cstack' = CutTo(n, phase)
  PROVE  cstack' \in Seq(Frame) /\ Here' = n /\ Kept(n) /\ cstack'[n].phase = phase
BY CutFrames, PileType DEF Kept, Here

LEMMA PopKeeps ==
  ASSUME Typed, NEW n \in 1 .. Here, cstack' = SubSeq(cstack, 1, n)
  PROVE  cstack' \in Seq(Frame) /\ Here' = n /\ Kept(n) /\ cstack'[n] = cstack[n]
BY CutFrames, PileType DEF Kept, Here, Same

LEMMA AppendKeeps ==
  ASSUME Typed, NEW f \in Frame, cstack' = Append(cstack, f)
  PROVE  /\ cstack' \in Seq(Frame) /\ Here' = Here + 1 /\ Kept(Here)
         /\ \A i \in 1 .. Here : cstack'[i] = cstack[i]
         /\ cstack'[Here] = cstack[Here] /\ cstack'[Here + 1] = f
<1>1. cstack \in Seq(Frame) /\ Here \in Nat \ {0} /\ Here = Len(cstack)
  BY PileType DEF Typed, Here
<1>2. /\ cstack' \in Seq(Frame) /\ Len(cstack') = Here + 1
      /\ \A i \in 1 .. Here : cstack'[i] = cstack[i]
      /\ cstack'[Here + 1] = f
  BY <1>1, AppendProperties
<1> QED BY <1>1, <1>2 DEF Kept, Here, Same

LEMMA CutAppendKeeps ==
  ASSUME Typed, NEW n \in 1 .. Here, NEW phase \in Phase, NEW f \in Frame,
         cstack' = Append(CutTo(n, phase), f)
  PROVE  /\ cstack' \in Seq(Frame) /\ Here' = n + 1 /\ Kept(n)
         /\ cstack'[n].phase = phase /\ cstack'[n + 1] = f
<1>1. PICK c \in Seq(Frame) : /\ c = CutTo(n, phase) /\ Len(c) = n
                              /\ \A i \in 1 .. n - 1 : c[i] = cstack[i]
                              /\ Same(c[n], cstack[n]) /\ c[n].phase = phase
  BY CutFrames
<1>2. /\ cstack' \in Seq(Frame) /\ Len(cstack') = n + 1
      /\ \A i \in 1 .. n : cstack'[i] = c[i]
      /\ cstack'[n + 1] = f
  BY <1>1, AppendProperties
<1>3. n \in Nat \ {0}
  BY PileType
<1> QED BY <1>1, <1>2, <1>3 DEF Kept, Here

LEMMA Levels ==
  ASSUME Typed, NEW n \in 1 .. Here, Piled(n)
  PROVE  /\ \A i \in 1 .. n : /\ cstack[i] \in Frame /\ PhaseOK(i)
                              /\ cstack[i].start \in Nat /\ Over(i) \in Nat
                              /\ Over(i) = cstack[i].start + Height(cstack[i].kind)
                              /\ cstack[i].start <= Over(i) /\ Over(i) <= cstack[i].start + 3
                              /\ IsTry(i) => Over(i) = cstack[i].start
         /\ \A i, j \in 1 .. n : i < j => Over(i) <= cstack[j].start
         /\ \A i \in 2 .. n : StandsOn(i, i - 1) /\ i - 1 \in 1 .. n
<1>1. \A i \in 1 .. n : cstack[i] \in Frame /\ PhaseOK(i)
  BY PileType DEF Piled
<1>2. ASSUME NEW i \in 1 .. n
      PROVE  /\ cstack[i].start \in Nat /\ Over(i) \in Nat
             /\ Over(i) = cstack[i].start + Height(cstack[i].kind)
             /\ cstack[i].start <= Over(i) /\ Over(i) <= cstack[i].start + 3
             /\ IsTry(i) => Over(i) = cstack[i].start
  <2>1. cstack[i].start \in Nat /\ cstack[i].kind \in Kind
    BY <1>1 DEF Frame
  <2>2. Height(cstack[i].kind) \in 0 .. 3 /\ (IsTry(i) => Height(cstack[i].kind) = 0)
    BY <2>1, Heights DEF IsTry
  <2> QED BY <2>1, <2>2 DEF Over
<1>3. \A i, j \in 1 .. n : i < j => Over(i) <= cstack[j].start
  BY DEF Piled
<1>4. \A i \in 2 .. n : StandsOn(i, i - 1) /\ i - 1 \in 1 .. n
  BY PileType DEF Piled
<1> QED BY <1>1, <1>2, <1>3, <1>4

----------------------------------------------------------------------------
(* What a step keeps of the invariant along with the frames.                *)
LEMMA PiledKept ==
  ASSUME Typed, cstack' \in Seq(Frame), Piled(Here), NEW n \in Nat, Kept(n), PhaseOK(n)'
  PROVE  Piled(n)'
<1>1. n \in 1 .. Here /\ Here \in Nat
  BY PileType DEF Kept
<1>2. \A i \in 1 .. n : Same(cstack'[i], cstack[i]) /\ Over(i)' = Over(i)
  BY <1>1 DEF Kept, Same, Over
<1>3. \A i \in 1 .. n - 1 : cstack'[i].phase = cstack[i].phase
  BY <1>1 DEF Kept
<1>4. \A i \in 1 .. n : PhaseOK(i)'
  BY <1>1, <1>2, <1>3 DEF Piled, PhaseOK, Same
<1>5. ASSUME NEW i \in 2 .. n PROVE StandsOn(i, i - 1)'
  <2>1. i - 1 \in 1 .. n - 1 /\ i \in 1 .. n /\ i \in 2 .. Here /\ i - 1 \in 1 .. n
    BY <1>1
  <2>2. StandsOn(i, i - 1)
    BY <2>1 DEF Piled
  <2> QED BY <2>1, <2>2, <1>2, <1>3 DEF StandsOn, Same
<1>6. ASSUME NEW i \in 1 .. n, NEW j \in 1 .. n, i < j PROVE Over(i)' <= cstack'[j].start
  <2>1. i \in 1 .. Here /\ j \in 1 .. Here /\ Here \in 1 .. Here
    BY <1>1
  <2>2. Over(i) <= cstack[j].start
    BY <2>1, <1>6, Levels
  <2> QED BY <2>2, <1>2 DEF Same
<1>7. /\ cstack'[1].kind = "top" /\ cstack'[1].start = 0
      /\ cstack'[1].block = NoBlock /\ cstack'[1].arg = NoBlock
  <2>1. 1 \in 1 .. n
    BY <1>1
  <2> QED BY <2>1, <1>2 DEF Piled, Same
<1> QED BY <1>4, <1>5, <1>6, <1>7 DEF Piled

LEMMA KeptFacts ==
  ASSUME Typed, Piled(Here), NEW n \in Nat, Kept(n)
  PROVE  /\ n \in 1 .. Here /\ Here \in Nat
         /\ \A i \in 1 .. n :
              /\ Same(cstack'[i], cstack[i]) /\ Over(i)' = Over(i)
              /\ IsTry(i)' = IsTry(i) /\ HomeAt(i)' = HomeAt(i)
         /\ \A i \in 1 .. n - 1 : cstack'[i] = cstack[i] /\ i \in 1 .. n
<1>1. n \in 1 .. Here /\ Here \in Nat
  BY PileType DEF Kept
<1>2. \A i \in 1 .. n - 1 : cstack'[i] = cstack[i] /\ i \in 1 .. n
  BY <1>1 DEF Kept
<1>3. \A i \in 1 .. n : Same(cstack'[i], cstack[i])
  BY <1>1 DEF Kept, Same
<1> QED BY <1>1, <1>2, <1>3 DEF Same, Over, IsTry, HomeAt

\* The arrays of return points keep what the frames up to n find there: the step
\* writes at level d and above only, or kills what is above n.
LEMMA ReturningKept ==
  ASSUME Typed, Piled(Here), Returning(Here), NEW n \in Nat, Kept(n),
         NEW d \in Nat, Over(n) <= d,
         \A x \in 0 .. d - 1 : return_stack[x] \in 1 .. n => return_stack'[x] = return_stack[x]
  PROVE  Returning(n)'
<1>1. /\ n \in 1 .. Here /\ Here \in Nat
      /\ \A i \in 1 .. n :
           /\ Same(cstack'[i], cstack[i]) /\ Over(i)' = Over(i) /\ HomeAt(i)' = HomeAt(i)
  BY KeptFacts
<1>2. \A i \in 1 .. n :
        /\ Over(i) \in Nat /\ Over(i) <= d /\ cstack[i].start \in Nat /\ cstack[i].start <= d
  BY <1>1, Levels
<1>3. ASSUME NEW kinds, NEW h \in Nat, NEW i \in 1 .. n
      PROVE  None(kinds, h, i)' <=> None(kinds, h, i)
  BY <1>1 DEF None, Same
<1>4. ASSUME NEW b, NEW i \in 1 .. n, BlockOK(b, i)
      PROVE  BlockOK(b, i)'
  <2>1. b.home \in 1 .. i - 1 /\ b.home \in 1 .. n /\ b.home \in Nat /\ i \in Nat
    BY <1>1, <1>4 DEF BlockOK
  <2>2. cstack'[b.home].kind = cstack[b.home].kind /\ cstack'[i].start = cstack[i].start
    BY <2>1, <1>1 DEF Same
  <2>3. \A kinds : None(kinds, b.home, i)' <=> None(kinds, b.home, i)
    BY <2>1, <1>3
  <2>4. \A kinds : None(kinds, b.home, i - 1)' <=> None(kinds, b.home, i - 1)
    <3>1. CASE i = 1
      BY <3>1, <2>1
    <3>2. CASE i # 1
      <4>1. i - 1 \in 1 .. n
        BY <3>2, <1>1
      <4> QED BY <4>1, <2>1, <1>3
    <3> QED BY <3>1, <3>2
  <2>5. b.retpoint \in 0 .. cstack[i].start - 1 /\ return_stack[b.retpoint] = b.home
        => return_stack'[b.retpoint] = b.home
    BY <2>1, <1>2
  <2> QED BY <1>4, <2>1, <2>2, <2>3, <2>4, <2>5 DEF BlockOK
<1>5. ASSUME NEW i \in 2 .. n
      PROVE  BlocksAt(i)' /\ SlotAt(i)'
  <2>1. i \in 1 .. n /\ i \in 2 .. Here /\ BlocksAt(i) /\ SlotAt(i) /\ i \in 1 .. Here
    BY <1>1 DEF Returning
  <2>2. BlocksAt(i)'
    BY <2>1, <1>1, <1>4 DEF BlocksAt, Same
  <2>3. SUFFICES ASSUME cstack[i].kind # "try", HomeAt(i) > 1, cstack'[HomeAt(i)].kind = "method",
                        None({"finally", "typedcase"}, HomeAt(i), i)'
                 PROVE  return_stack'[Over(i) - 1] = HomeAt(i)
    BY <2>1, <2>2, <1>1 DEF SlotAt, Same
  <2>4. HomeAt(i) \in 1 .. i /\ HomeAt(i) \in 1 .. n /\ HomeAt(i) \in Nat
    BY <2>1, <1>1 DEF BlocksAt, BlockOK, HomeAt
  <2>5. return_stack[Over(i) - 1] = HomeAt(i)
    BY <2>1, <2>3, <2>4, <1>1, <1>3 DEF SlotAt, Same
  <2>6. Over(i) >= 1
    <3>1. HomeAt(i) \in 1 .. Here /\ cstack[HomeAt(i)].kind = "method"
      BY <2>3, <2>4, <1>1 DEF Same
    <3>2. Over(HomeAt(i)) >= 1
      <4>1. /\ Over(HomeAt(i)) = cstack[HomeAt(i)].start + Height(cstack[HomeAt(i)].kind)
            /\ cstack[HomeAt(i)].start \in Nat
        BY <3>1, <1>1, Levels
      <4> QED BY <4>1, <3>1, Heights
    <3>3. CASE HomeAt(i) = i
      BY <3>2, <3>3
    <3>4. CASE HomeAt(i) < i
      <4>1. Over(HomeAt(i)) <= cstack[i].start /\ cstack[i].start <= Over(i)
        BY <3>1, <3>4, <2>1, <1>1, Levels
      <4>2. Over(HomeAt(i)) \in Nat
        BY <2>4, <1>2
      <4> QED BY <4>1, <4>2, <3>2, <2>1, <1>2
    <3> QED BY <2>1, <2>4, <3>3, <3>4
  <2>7. Over(i) - 1 \in 0 .. d - 1
    BY <2>1, <2>6, <1>2
  <2> QED BY <2>4, <2>5, <2>7
<1> QED BY <1>5 DEF Returning

\* If the frames up to n stay, so do the open tries and the handlers among them, and
\* what those tries have saved fits them still.
LEMMA TriesKept ==
  ASSUME Typed, Piled(Here), NEW n \in 0 .. Here, \A i \in 1 .. n : cstack'[i] = cstack[i],
         program' = program
  PROVE  /\ \A k \in 0 .. n : /\ Open(k)' = Open(k) /\ NotNormal(k)' = NotNormal(k)
                              /\ Guarded(k)' = Guarded(k)
         /\ Complete' = Complete
         /\ \A k \in 0 .. n : \A buf, set : Handles(buf, set, k)' = Handles(buf, set, k)
         /\ \A k \in 0 .. n : \A h : Counts(h, k)' = Counts(h, k)
         /\ \A i \in 1 .. n : Saved(i) => Saved(i)'
<1>1. n \in Nat
  BY PileType
<1>2. Complete' = Complete
  BY DEF Complete
<1>3. ASSUME NEW k \in 0 .. n
      PROVE  Open(k)' = Open(k) /\ NotNormal(k)' = NotNormal(k)
  <2>1. \A i \in 1 .. k : cstack'[i] = cstack[i]
    BY <1>1
  <2> QED BY <2>1 DEF Open, NotNormal, IsTry
<1>4. ASSUME NEW k \in 0 .. n
      PROVE  Guarded(k)' = Guarded(k)
  <2>1. \A i \in 1 .. k : cstack'[i] = cstack[i] /\ (i # 1 => cstack'[i - 1] = cstack[i - 1])
    BY <1>1
  <2>2. cstack[1].kind = "top"
    BY DEF Piled
  <2>3. \A i \in 1 .. k : Cleanup(i)' = Cleanup(i)
    BY <2>1, <2>2, <1>1 DEF Cleanup
  <2> QED BY <2>3, <1>3 DEF Guarded
<1>5. ASSUME NEW k \in 0 .. n, NEW buf, NEW set
      PROVE  Handles(buf, set, k)' = Handles(buf, set, k)
  BY <1>2, <1>3 DEF Handles
<1>6. ASSUME NEW k \in 0 .. n, NEW h
      PROVE  Counts(h, k)' = Counts(h, k)
  BY <1>2, <1>3 DEF Counts
<1>7. ASSUME NEW i \in 1 .. n, Saved(i)
      PROVE  Saved(i)'
  <2>1. i - 1 \in 0 .. n /\ cstack'[i] = cstack[i]
    BY <1>1
  <2> QED BY <2>1, <1>4, <1>5, <1>6, <1>7 DEF Saved, IsTry
<1> QED BY <1>2, <1>3, <1>4, <1>5, <1>6, <1>7

\* The levels of a try, and of a frame that unwinds, end below what is above it.
LEMMA LevelsBelow ==
  ASSUME Typed, NEW n \in 1 .. Here, Piled(n), NEW k \in 1 .. n - 1, IsTry(k) \/ Unwinds(k)
  PROVE  /\ k + 1 \in 1 .. n /\ cstack[k + 1].start \in Nat
         /\ cstack[k].start \in Nat /\ cstack[k].start <= cstack[k + 1].start
         /\ cstack[k + 1].start + 2 <= Over(n)
         /\ Unwinds(k) => cstack[k + 1].kind = "finally"
         /\ IsTry(k) /\ cstack[k].phase # "body" => Cleanup(k + 1)
         /\ cstack[k + 1].kind # "try"
<1>1. k \in Nat /\ n \in Nat /\ k + 1 \in 2 .. n /\ k \in 1 .. n /\ (k + 1) - 1 = k /\ k + 1 \in 1 .. n
  BY PileType
<1>2. PhaseOK(k) /\ StandsOn(k + 1, k)
  <2>1. \A i \in 2 .. n : StandsOn(i, i - 1)
    BY Levels
  <2> QED BY <2>1, <1>1, Levels
<1>3. cstack[k].start \in Nat /\ cstack[k].start <= cstack[k + 1].start /\ cstack[k + 1].start \in Nat
  <2>1. Over(k) <= cstack[k + 1].start /\ cstack[k].start <= Over(k) /\ k < k + 1
    BY <1>1, Levels
  <2>2. Over(k) \in Nat /\ cstack[k].start \in Nat /\ cstack[k + 1].start \in Nat
    BY <1>1, Levels
  <2> QED BY <2>1, <2>2
<1>4. /\ cstack[k + 1].kind \in {"block", "case", "typedcase", "finally"}
      /\ Unwinds(k) => cstack[k + 1].kind = "finally"
      /\ IsTry(k) /\ cstack[k].phase # "body" => cstack[k + 1].kind \in {"case", "typedcase", "finally"}
  BY <1>2 DEF StandsOn, PhaseOK, IsTry, Unwinds, Code, Phase
<1>5. Over(k + 1) >= cstack[k + 1].start + 2
  BY <1>1, <1>3, <1>4, Levels, Heights
<1>6. Over(k + 1) <= Over(n)
  <2>1. CASE k + 1 = n
    BY <2>1, <1>1, Levels
  <2>2. CASE k + 1 # n
    <3>1. k + 1 < n /\ n \in 1 .. n
      BY <2>2, <1>1
    <3>2. Over(k + 1) <= cstack[n].start /\ cstack[n].start <= Over(n)
      BY <3>1, <1>1, Levels
    <3>3. Over(k + 1) \in Nat /\ Over(n) \in Nat /\ cstack[n].start \in Nat
      BY <3>1, <1>1, Levels
    <3> QED BY <3>2, <3>3
  <2> QED BY <2>1, <2>2
<1>7. Over(k + 1) \in Nat /\ Over(n) \in Nat
  BY <1>1, Levels
<1>8. IsTry(k) /\ cstack[k].phase # "body" => Cleanup(k + 1)
  BY <1>1, <1>4 DEF Cleanup, IsTry
<1> QED BY <1>1, <1>3, <1>4, <1>5, <1>6, <1>7, <1>8

LEMMA PiledDown ==
  ASSUME Typed, NEW n \in 1 .. Here, Piled(Here)
  PROVE  Piled(n)
BY PileType DEF Piled

LEMMA LevelsInStack ==
  ASSUME Typed, Layout
  PROVE  /\ Here \in 1 .. Here /\ Here \in Nat \ {0} /\ Over(Here) <= calldepth
         /\ \A i \in 1 .. Here : Over(i) \in Nat /\ Over(i) <= calldepth
         /\ calldepth \in Nat /\ calldepth < StackSize
<1>1. Here \in 1 .. Here /\ Here \in Nat \ {0} /\ calldepth \in Nat /\ calldepth < StackSize
  BY PileType, StackAssumption DEF Typed
<1>2. Piled(Here) /\ AtTop /\ PhaseOK(Here)
  BY <1>1 DEF Layout, Piled
<1>3. Over(Here) <= calldepth
  <2>1. Over(Here) \in Nat /\ (IsTry(Here) => Over(Here) = Top.start)
    BY <1>1, <1>2, Levels DEF Top
  <2>2. Top.phase = "cases" => IsTry(Here)
    BY <1>2 DEF PhaseOK, Top, IsTry
  <2> QED BY <1>1, <1>2, <2>1, <2>2 DEF AtTop
<1>4. ASSUME NEW i \in 1 .. Here
      PROVE  Over(i) \in Nat /\ Over(i) <= calldepth
  <2>1. CASE i = Here
    BY <2>1, <1>1, <1>2, <1>3, Levels
  <2>2. CASE i < Here
    <3>1. Over(i) \in Nat /\ Over(i) <= cstack[Here].start /\ cstack[Here].start <= Over(Here)
      BY <2>2, <1>1, <1>2, Levels
    <3>2. cstack[Here].start \in Nat /\ Over(Here) \in Nat
      BY <1>1, <1>2, Levels
    <3> QED BY <3>1, <3>2, <1>1, <1>3
  <2> QED BY <2>1, <2>2, <1>1
<1> QED BY <1>1, <1>3, <1>4

\* What finally_stack holds for the frames below n stays, if the step clears or
\* writes it only at the levels from those over n on.
LEMMA FinalliesKept ==
  ASSUME Typed, Layout, Finallies, NEW n \in Nat, Kept(n), program' = program,
         \A x \in 0 .. StackSize : x < Over(n) =>
           /\ finally_stack'[x] = finally_stack[x]
           /\ exceptionHandler_stack[x] \in 1 .. n \cup {DEAD}
              => exceptionHandler_stack'[x] = exceptionHandler_stack[x]
  PROVE  \A k \in 1 .. n - 1 :
           /\ TryAt(k)' /\ UnwindAt(k)'
           /\ \A i \in 0 .. StackSize :
                /\ (Waits(i) /\ OwedTo(i, k))' = (Waits(i) /\ OwedTo(i, k))
                /\ OwedTo(i, k) => i < Over(n)
           /\ LeftBy(k)' = LeftBy(k) /\ Unwinds(k)' = Unwinds(k) /\ IsTry(k)' = IsTry(k)
<1>1. /\ n \in 1 .. Here /\ Here \in Nat /\ Here' \in Nat /\ n <= Here' /\ Piled(Here) /\ Piled(n)
      /\ \A i \in 1 .. n : Same(cstack'[i], cstack[i])
      /\ \A i \in 1 .. n - 1 : cstack'[i] = cstack[i] /\ i \in 1 .. n
  <2>1. Piled(Here)
    BY DEF Layout
  <2> QED BY <2>1, KeptFacts, PiledDown DEF Kept
<1>2. Over(n) \in Nat /\ Over(n) < StackSize
  BY <1>1, LevelsInStack, StackAssumption
<1>3. TAKE k \in 1 .. n - 1
<1>4. /\ k \in 1 .. Here /\ k # Here /\ k # Here' /\ k < Here /\ k < Here' /\ k + 1 \in 1 .. n
      /\ cstack'[k] = cstack[k] /\ cstack'[k + 1].start = cstack[k + 1].start
  BY <1>1 DEF Same
<1>5. IsTry(k)' = IsTry(k) /\ Unwinds(k)' = Unwinds(k) /\ LeftBy(k)' = LeftBy(k)
  BY <1>4 DEF IsTry, Unwinds, LeftBy
<1>6. TryAt(k) /\ UnwindAt(k)
  BY <1>4 DEF Finallies
<1>13. IsTry(k) \/ Unwinds(k) =>
         /\ cstack[k + 1].start \in Nat /\ cstack[k].start \in Nat
         /\ cstack[k].start <= cstack[k + 1].start /\ cstack[k + 1].start + 2 <= Over(n)
  BY <1>1, LevelsBelow
<1>7. IsTry(k) => cstack[k].start \in 0 .. StackSize /\ cstack[k].start < Over(n)
  BY <1>2, <1>13, StackAssumption
<1>8. Unwinds(k) => \A i \in LeftBy(k) : i \in 0 .. StackSize /\ i < Over(n)
  <2>1. SUFFICES ASSUME Unwinds(k), NEW i \in LeftBy(k) PROVE i \in 0 .. StackSize /\ i < Over(n)
    OBVIOUS
  <2>2. i \in cstack[k].start + 1 .. cstack[k + 1].start
    BY <1>4 DEF LeftBy
  <2> QED BY <2>1, <2>2, <1>2, <1>13, StackAssumption
<1>9. TryAt(k)'
  <2>1. SUFFICES ASSUME IsTry(k)
                 PROVE  /\ Waits(cstack[k].start)' /\ cstack'[k].start + 3 < StackSize
                        /\ exceptionHandler_stack'[cstack'[k].start] = k
    BY <1>5 DEF TryAt
  <2>2. /\ Waits(cstack[k].start) /\ cstack[k].start + 3 < StackSize
        /\ exceptionHandler_stack[cstack[k].start] = k
    BY <2>1, <1>6 DEF TryAt
  <2>3. /\ finally_stack'[cstack[k].start] = finally_stack[cstack[k].start]
        /\ exceptionHandler_stack'[cstack[k].start] = k
    BY <2>1, <2>2, <1>1, <1>7
  <2> QED BY <2>2, <2>3, <1>4 DEF Waits
<1>10. \A i \in 0 .. StackSize : i < Over(n) => Waits(i)' = Waits(i)
  BY DEF Waits
<1>11. UnwindAt(k)'
  <2>1. SUFFICES ASSUME Unwinds(k)
                 PROVE  /\ \E i \in LeftBy(k)' : Waits(i)'
                        /\ \A i \in LeftBy(k)' : Waits(i)' =>
                             /\ exceptionHandler_stack'[i] = DEAD
                             /\ cstack'[k + 1].start + 2 < StackSize
                             /\ ~ Complete'
    BY <1>4, <1>5 DEF UnwindAt
  <2>2. /\ \E i \in LeftBy(k) : Waits(i)
        /\ \A i \in LeftBy(k) : Waits(i) =>
             /\ exceptionHandler_stack[i] = DEAD
             /\ cstack[k + 1].start + 2 < StackSize
             /\ ~ Complete
    BY <2>1, <1>4, <1>6 DEF UnwindAt
  <2> QED BY <2>1, <2>2, <1>4, <1>5, <1>8, <1>10 DEF Complete
<1>12. ASSUME NEW i \in 0 .. StackSize
       PROVE  /\ (Waits(i) /\ OwedTo(i, k))' = (Waits(i) /\ OwedTo(i, k))
              /\ OwedTo(i, k) => i < Over(n)
  <2>1. OwedTo(i, k) => i < Over(n)
    BY <1>7, <1>8 DEF OwedTo
  <2>2. Unwinds(k) => \A h \in LeftBy(k) : Waits(h)' = Waits(h)
    BY <1>8, <1>10
  <2>3. OwedTo(i, k)' = OwedTo(i, k)
    BY <1>4, <1>5, <2>2 DEF OwedTo
  <2> QED BY <2>1, <2>3, <1>10
<1> QED BY <1>5, <1>9, <1>11, <1>12

LEMMA PiledOn ==
  ASSUME cstack' \in Seq(Frame), NEW n \in Nat \ {0}, Here' \in Nat, n + 1 <= Here',
         Piled(n)', PhaseOK(n + 1)', StandsOn(n + 1, n)', Over(n)' <= cstack'[n + 1].start
  PROVE  Piled(n + 1)'
<1>1. \A i \in 1 .. n + 1 : cstack'[i] \in Frame
  BY ElementOfSeq DEF Here
<1>2. \A i \in 1 .. n + 1 : /\ cstack'[i].start \in Nat /\ Over(i)' \in Nat
                            /\ cstack'[i].start <= Over(i)'
  <2>1. TAKE i \in 1 .. n + 1
  <2>2. cstack'[i].start \in Nat /\ cstack'[i].kind \in Kind
    BY <1>1 DEF Frame
  <2>3. Height(cstack'[i].kind) \in 0 .. 3
    BY <2>2, Heights
  <2> QED BY <2>2, <2>3 DEF Over
<1>3. \A i, j \in 1 .. n : i < j => Over(i)' <= cstack'[j].start
  BY DEF Piled
<1>4. \A i \in 1 .. n : Over(i)' <= cstack'[n + 1].start
  <2>1. TAKE i \in 1 .. n
  <2>2. CASE i = n
    BY <2>2
  <2>3. CASE i < n
    <3>1. n \in 1 .. n /\ n \in 1 .. n + 1 /\ i \in 1 .. n + 1 /\ n + 1 \in 1 .. n + 1
      OBVIOUS
    <3>2. Over(i)' <= cstack'[n].start /\ cstack'[n].start <= Over(n)'
      BY <2>3, <3>1, <1>2, <1>3
    <3>3. /\ Over(i)' \in Nat /\ Over(n)' \in Nat
          /\ cstack'[n].start \in Nat /\ cstack'[n + 1].start \in Nat
      BY <3>1, <1>2
    <3> QED BY <3>2, <3>3
  <2> QED BY <2>2, <2>3
<1>5. \A i, j \in 1 .. n + 1 : i < j => Over(i)' <= cstack'[j].start
  <2>1. TAKE i, j \in 1 .. n + 1
  <2>2. i < j => i \in 1 .. n /\ (j \in 1 .. n \/ j = n + 1)
    OBVIOUS
  <2> QED BY <2>2, <1>3, <1>4
<1>6. \A i \in 1 .. n + 1 : PhaseOK(i)'
  BY DEF Piled
<1>7. \A i \in 2 .. n + 1 : StandsOn(i, i - 1)'
  <2>1. TAKE i \in 2 .. n + 1
  <2>2. CASE i = n + 1
    <3>1. i - 1 = n
      BY <2>2
    <3> QED BY <2>2, <3>1
  <2>3. CASE i # n + 1
    BY <2>3 DEF Piled
  <2> QED BY <2>2, <2>3
<1> QED BY <1>5, <1>6, <1>7 DEF Piled

----------------------------------------------------------------------------
(* Code that runs, and the blocks it can use.                               *)
LEMMA FramesBound ==
  ASSUME Typed
  PROVE  /\ program.frames \in 1 .. MaxFrames /\ MaxFrames \in Nat
         /\ Layout => /\ Here \in 1 .. MaxFrames /\ Here \in 1 .. MaxFrames + 3
                      /\ Here + 1 \in 1 .. MaxFrames + 3
BY PileType, FramesAssumption, ProgramsAssumption DEF Typed, Layout

LEMMA RunningFacts ==
  ASSUME IInv, Running
  PROVE  /\ Layout /\ Returning(Here) /\ Handling /\ Finallies /\ status = "running" /\ Typed
         /\ Here \in 1 .. Here /\ Here \in Nat \ {0} /\ Piled(Here)
         /\ calldepth = Over(Here) /\ calldepth \in 0 .. StackSize - 1
         /\ cstack[Here].kind \in Code /\ cstack[Here].phase = "run"
         /\ ~ IsTry(Here) /\ ~ Unwinds(Here) /\ cstack[Here] \in Frame
         /\ cstack[Here].kind = "top" <=> Here = 1
<1>1. /\ Layout /\ Returning(Here) /\ Handling /\ Finallies /\ status = "running" /\ Typed
      /\ Piled(Here)
      /\ cstack[Here].kind \in Code /\ cstack[Here].phase = "run"
  BY DEF IInv, Running, Top, Layout
<1>2. Here \in 1 .. Here /\ Here \in Nat \ {0} /\ cstack[Here] \in Frame
  BY <1>1, PileType
<1>3. calldepth = Over(Here)
  BY <1>1 DEF Layout, AtTop, Top
<1>4. ~ IsTry(Here) /\ ~ Unwinds(Here)
  BY <1>1 DEF IsTry, Unwinds, Code
<1>5. cstack[Here].kind = "top" <=> Here = 1
  <2>1. CASE Here = 1
    BY <2>1, <1>1 DEF Piled
  <2>2. CASE Here # 1
    <3>1. StandsOn(Here, Here - 1)
      BY <2>2, <1>1, <1>2, Levels
    <3> QED BY <3>1, <2>2 DEF StandsOn
  <2> QED BY <2>1, <2>2
<1> QED BY <1>1, <1>2, <1>3, <1>4, <1>5 DEF Typed

\* A block that a frame to be put on the pile may be given: see BlockOK.
Ready(b) ==
  /\ b \in Block /\ b.home \in 1 .. Here
  /\ b.home > 1 /\ None({"finally"}, b.home, Here) => cstack[b.home].kind \in {"method", "super"}
  /\ /\ b.home > 1 /\ cstack[b.home].kind = "method"
     /\ None({"finally"}, b.home, Here) /\ None({"typedcase"}, b.home, Here)
     => b.retpoint \in 0 .. calldepth - 1 /\ return_stack[b.retpoint] = b.home

LEMMA UsableReady ==
  ASSUME IInv, Running
  PROVE  /\ Home = HomeAt(Here) /\ Home \in 1 .. Here
         /\ Ready(FreshBlock)
         /\ Top.arg # NoBlock => Ready(Top.arg)
         /\ \A b \in Usable : Ready(b)
<1>1. /\ Typed /\ Layout /\ Piled(Here) /\ Here \in 1 .. Here /\ Here \in Nat \ {0}
      /\ calldepth = Over(Here) /\ calldepth \in 0 .. StackSize - 1
      /\ cstack[Here].kind \in Code /\ cstack[Here] \in Frame
      /\ (cstack[Here].kind = "top" <=> Here = 1) /\ Top = cstack[Here]
  BY RunningFacts DEF Top
<1>2. Here \in 1 .. MaxFrames + 3 /\ MaxFrames \in Nat
  BY <1>1, FramesBound
<1>3. cstack[Here].start \in Nat /\ cstack[Here].start <= calldepth
  BY <1>1, Levels
<1>4. Here # 1 => BlocksAt(Here) /\ SlotAt(Here)
  BY <1>1, RunningFacts DEF Returning
<1>5. ASSUME NEW b, b # NoBlock, b \in AnyBlock, Here # 1, BlockOK(b, Here)
      PROVE  Ready(b)
  <2>1. b.home \in 1 .. Here - 1 /\ b \in Block /\ b.home \in 1 .. Here
    BY <1>5, <1>1 DEF BlockOK, AnyBlock
  <2>2. \A kinds : None(kinds, b.home, Here) => None(kinds, b.home, Here - 1)
    BY <2>1, <1>1 DEF None
  <2>3. b.retpoint \in 0 .. cstack[Here].start - 1 => b.retpoint \in 0 .. calldepth - 1
    BY <1>1, <1>3
  <2> QED BY <1>5, <2>1, <2>2, <2>3 DEF BlockOK, Ready
<1>6. Home = HomeAt(Here) /\ Home \in 1 .. Here
  BY <1>1, <1>4 DEF Home, HomeAt, BlocksAt, BlockOK, Piled
<1>7. /\ FreshBlock.home = Home
      /\ calldepth > 0 => FreshBlock.retpoint = calldepth - 1
      /\ FreshBlock \in Block
  <2>1. PICK r \in {NULL} \cup 0 .. StackSize - 1 :
             r = (IF calldepth > 0 THEN calldepth - 1 ELSE NULL)
    BY <1>1, StackAssumption
  <2>2. PICK h \in 1 .. MaxFrames + 3 : h = Home
    BY <1>2, <1>6
  <2>3. FreshBlock = [retpoint |-> r, home |-> h]
    BY <2>1, <2>2 DEF FreshBlock
  <2> QED BY <2>1, <2>2, <2>3 DEF Block
<1>8. Ready(FreshBlock)
  <2>1. Home > 1 /\ None({"finally"}, Home, Here) => cstack[Home].kind \in {"method", "super"}
    <3>1. CASE cstack[Here].kind \in {"top", "method", "super"}
      BY <3>1, <1>1, <1>6 DEF HomeAt
    <3>2. CASE cstack[Here].kind \notin {"top", "method", "super"}
      <4>1. Home = cstack[Here].block.home /\ cstack[Here].block # NoBlock /\ Here # 1
        BY <3>2, <1>1, <1>4, <1>6 DEF HomeAt, BlocksAt
      <4>2. BlockOK(cstack[Here].block, Here)
        BY <4>1, <1>4 DEF BlocksAt
      <4> QED BY <4>1, <4>2 DEF BlockOK
    <3> QED BY <3>1, <3>2
  <2>2. ASSUME Home > 1, cstack[Home].kind = "method",
               None({"finally"}, Home, Here), None({"typedcase"}, Home, Here)
        PROVE  calldepth > 0 /\ return_stack[calldepth - 1] = Home
    <3>1. None({"finally", "typedcase"}, Home, Here) /\ Here # 1 /\ cstack[Here].kind # "try"
      BY <2>2, <1>1, <1>6 DEF None, Code
    <3>2. return_stack[calldepth - 1] = Home
      BY <2>2, <3>1, <1>1, <1>4, <1>6 DEF SlotAt
    <3>3. Over(Home) >= 1 /\ Over(Home) <= calldepth
      BY <2>2, <1>1, <1>6, Levels, LevelsInStack, Heights
    <3> QED BY <3>2, <3>3, <1>1, <1>6, LevelsInStack
  <2> QED BY <2>1, <2>2, <1>1, <1>6, <1>7 DEF Ready
<1>9. Top.arg # NoBlock => Ready(Top.arg)
  <2>1. SUFFICES ASSUME Top.arg # NoBlock PROVE Ready(Top.arg)
    OBVIOUS
  <2>2. Here # 1 /\ Top.arg \in AnyBlock
    BY <2>1, <1>1 DEF Piled, Frame
  <2>3. BlockOK(Top.arg, Here)
    BY <2>1, <2>2, <1>1, <1>4 DEF BlocksAt
  <2> QED BY <2>1, <2>2, <2>3, <1>5
<1> QED BY <1>6, <1>8, <1>9 DEF Usable

\* Such a block is all right in frame j put on the pile, and the code of the frame
\* finds its return point.
LEMMA ReadyOK ==
  ASSUME Typed, Layout, Kept(Here), NEW b, Ready(b), NEW j \in Here + 1 .. Here + 2,
         cstack'[j].start = calldepth,
         \A x \in 0 .. calldepth - 1 :
           return_stack[x] \in 1 .. Here => return_stack'[x] = return_stack[x]
  PROVE  /\ BlockOK(b, j)'
         /\ cstack'[j].block = b /\ cstack'[j].kind \in {"block", "case"}
            /\ (b.retpoint \in 0 .. calldepth - 1
                => return_stack'[Over(j)' - 1] = return_stack[b.retpoint])
            => SlotAt(j)'
<1>1. /\ Here \in Nat \ {0} /\ Piled(Here)
      /\ \A i \in 1 .. Here : Same(cstack'[i], cstack[i])
  <2>1. Piled(Here) /\ Here \in Nat \ {0}
    BY PileType DEF Layout
  <2> QED BY <2>1, KeptFacts
<1>2. b.home \in 1 .. Here /\ b.home \in 1 .. j - 1 /\ cstack'[b.home].kind = cstack[b.home].kind
  BY <1>1 DEF Ready, Same
<1>3. \A kinds : None(kinds, b.home, j)' \/ None(kinds, b.home, j - 1)' => None(kinds, b.home, Here)
  BY <1>1, <1>2 DEF None, Same
<1>4. BlockOK(b, j)'
  BY <1>1, <1>2, <1>3 DEF Ready, BlockOK
<1>5. ASSUME cstack'[j].block = b, cstack'[j].kind \in {"block", "case"},
             b.retpoint \in 0 .. calldepth - 1
             => return_stack'[Over(j)' - 1] = return_stack[b.retpoint]
      PROVE  SlotAt(j)'
  <2>1. HomeAt(j)' = b.home
    BY <1>5 DEF HomeAt
  <2>2. SUFFICES ASSUME b.home > 1, cstack[b.home].kind = "method",
                        None({"finally", "typedcase"}, b.home, j)'
                 PROVE  return_stack'[Over(j)' - 1] = b.home
    BY <2>1, <1>2 DEF SlotAt
  <2>3. None({"finally"}, b.home, Here) /\ None({"typedcase"}, b.home, Here)
    BY <2>2, <1>3 DEF None
  <2>4. b.retpoint \in 0 .. calldepth - 1 /\ return_stack[b.retpoint] = b.home
    BY <2>2, <2>3 DEF Ready
  <2> QED BY <2>4, <1>5
<1> QED BY <1>4, <1>5

----------------------------------------------------------------------------
(* Steps that put one frame of Grace code on the pile.                      *)
LEMMA AppendStep ==
  ASSUME IInv, status = "running", NEW n \in Nat, n = Here,
         NEW f \in Frame, cstack' = Append(cstack, f),
         f.kind \in Code \ {"top", "finally"}, f.phase = "run", f.start = calldepth,
         Here < program.frames,
         Top.phase = "run" \/ (Top.phase = "cases" /\ f.kind \in {"case", "typedcase"}),
         Fits(f.kind), calldepth' = calldepth + Height(f.kind),
         return_stack' \in [-1 .. StackSize -> Buffer],
         \A x \in 0 .. calldepth - 1 :
           return_stack[x] \in 1 .. Here => return_stack'[x] = return_stack[x],
         BlocksAt(n + 1)', SlotAt(n + 1)',
         UNCHANGED <<finally_stack, exceptionHandler_stack, error_jump, error_jump_set,
                     exceptionHandlerDepth, status, owed, program>>
  PROVE  IInv'
<1>1. /\ Typed /\ Layout /\ Returning(Here) /\ Handling /\ Finallies /\ Piled(Here) /\ AtTop
      /\ n \in 1 .. n /\ n \in Nat \ {0} /\ n = Here
      /\ Complete => status # "undefined"
  BY PileType DEF IInv, Layout
<1>2. /\ cstack' \in Seq(Frame) /\ Here' = n + 1 /\ Kept(n)
      /\ cstack'[n] = cstack[n] /\ cstack'[n + 1] = f
      /\ \A i \in 1 .. n : cstack'[i] = cstack[i]
  BY <1>1, AppendKeeps
<1>3. calldepth \in 0 .. StackSize - 1 /\ calldepth' \in 0 .. StackSize - 1 /\ Over(n) <= calldepth
      /\ program.frames \in Nat /\ StackSize \in Nat
  <2>1. Height(f.kind) \in 0 .. 3
    BY Heights DEF Frame
  <2>2. calldepth \in 0 .. StackSize - 1 /\ Over(n) <= calldepth /\ program.frames \in Nat
    BY <1>1, LevelsInStack, FramesBound DEF Typed
  <2>3. calldepth + Height(f.kind) < StackSize /\ StackSize \in Nat
    BY StackAssumption DEF Fits
  <2> QED BY <2>1, <2>2, <2>3
<1>4. Typed'
  BY <1>1, <1>2, <1>3 DEF Typed
<1>5. Layout'
  <2>1. Piled(n)' /\ Over(n)' = Over(n)
    <3>1. PhaseOK(n)'
      BY <1>1, <1>2, Levels DEF PhaseOK
    <3> QED BY <3>1, <1>1, <1>2, PiledKept, KeptFacts
  <2>2. PhaseOK(n + 1)' /\ Over(n + 1)' = calldepth'
    BY <1>2 DEF PhaseOK, Over
  <2>3. StandsOn(n + 1, n)'
    <3>1. CASE Top.phase = "run"
      <4>1. calldepth = Over(n)
        BY <3>1, <1>1 DEF AtTop
      <4> QED BY <3>1, <4>1, <2>1, <1>1, <1>2 DEF StandsOn, Top, Code, Kind
    <3>2. CASE Top.phase = "cases" /\ f.kind \in {"case", "typedcase"}
      <4>1. calldepth = Top.start
        BY <3>2, <1>1 DEF AtTop
      <4> QED BY <3>2, <4>1, <1>1, <1>2 DEF StandsOn, Top
    <3> QED BY <3>1, <3>2
  <2>4. Piled(n + 1)'
    <3>1. Over(n)' <= cstack'[n + 1].start /\ Here' \in Nat /\ n + 1 <= Here'
      BY <2>1, <1>1, <1>2, <1>3
    <3> QED BY <3>1, <2>1, <2>2, <2>3, <1>1, <1>2, PiledOn
  <2> QED BY <2>2, <2>4, <1>1, <1>2, <1>3 DEF Layout, AtTop, Top
<1>6. Returning(n + 1)'
  <2>1. Returning(n)'
    <3>1. PICK d \in Nat : d = calldepth
      BY <1>3
    <3>2. \A x \in 0 .. d - 1 : return_stack[x] \in 1 .. n => return_stack'[x] = return_stack[x]
      BY <3>1, <1>1
    <3> QED BY <3>1, <3>2, <1>1, <1>2, <1>3, ReturningKept
  <2>2. \A i \in 2 .. n + 1 : i \in 2 .. n \/ i = n + 1
    BY <1>1
  <2> QED BY <2>1, <2>2, <1>1 DEF Returning
<1>7. Handling'
  <2>1. /\ Open(n)' = Open(n) /\ NotNormal(n)' = NotNormal(n) /\ Complete' = Complete
        /\ \A i \in 1 .. n : Saved(i)'
    <3>1. n \in 0 .. Here /\ n \in 0 .. n
      BY <1>1
    <3> QED BY <3>1, <1>1, <1>2, TriesKept DEF Handling
  <2>2. ~ IsTry(n + 1)'
    BY <1>2 DEF IsTry, Code
  <2>3. Open(n + 1)' = Open(n) /\ NotNormal(n + 1)' = NotNormal(n) /\ Saved(n + 1)'
    <3>1. /\ Open(n + 1)' = {i \in 1 .. n : IsTry(i)' /\ cstack'[i].phase = "body"}
          /\ NotNormal(n + 1)' = {i \in 1 .. n : IsTry(i)' /\ cstack'[i].phase # "normal"}
      <4>1. \A i \in 1 .. n + 1 : i \in 1 .. n \/ i = n + 1
        BY <1>1
      <4>2. \A i \in 1 .. n : i \in 1 .. n + 1
        BY <1>1
      <4> QED BY <4>1, <4>2, <2>2 DEF Open, NotNormal
    <3> QED BY <3>1, <2>1, <2>2 DEF Open, NotNormal, Saved
  <2> QED BY <1>1, <1>2, <2>1, <2>3 DEF Handling, Handles, Counts
<1>8. Finallies'
  <2>1. ~ Unwinds(n) /\ ~ IsTry(n + 1)' /\ ~ Unwinds(n + 1)'
    BY <1>2 DEF Unwinds, IsTry, Top, Code
  <2>2. \A i \in 0 .. StackSize : Waits(i)' = Waits(i)
    BY DEF Waits
  <2>3. \A k \in 1 .. n - 1 :
           /\ TryAt(k)' /\ UnwindAt(k)' /\ LeftBy(k)' = LeftBy(k)
           /\ IsTry(k)' = IsTry(k) /\ Unwinds(k)' = Unwinds(k)
           /\ \A i \in 0 .. StackSize : (Waits(i) /\ OwedTo(i, k))' = (Waits(i) /\ OwedTo(i, k))
    BY <1>1, <1>2, FinalliesKept
  <2>4. TryAt(n)' /\ UnwindAt(n)'
    BY <2>1, <1>1, <1>2 DEF Finallies, TryAt, UnwindAt, IsTry, Unwinds, Waits
  <2>5. \A i \in 0 .. StackSize : OwedTo(i, n)' = OwedTo(i, n)
    BY <2>1, <1>1, <1>2 DEF OwedTo, IsTry, Unwinds
  <2>6. TryAt(n + 1)' /\ UnwindAt(n + 1)' /\ \A i \in 0 .. StackSize : ~ OwedTo(i, n + 1)'
    BY <2>1 DEF TryAt, UnwindAt, OwedTo
  <2>7. Here' = n + 1 /\ \A k \in 1 .. n + 1 : k \in 1 .. n - 1 \/ k = n \/ k = n + 1
    BY <1>1, <1>2
  <2>8. \A k \in 1 .. n - 1 : k \in 1 .. n + 1 /\ k \in 1 .. n
    BY <1>1
  <2>9. n \in 1 .. n + 1 /\ n \in 1 .. n /\ \A k \in 1 .. n : k \in 1 .. n - 1 \/ k = n
    BY <1>1
  <2>10. \A i \in 0 .. StackSize :
            (Waits(i) /\ \E k \in 1 .. Here : OwedTo(i, k))'
            = (Waits(i) /\ \E k \in 1 .. Here : OwedTo(i, k))
    BY <2>2, <2>3, <2>5, <2>6, <2>7, <2>8, <2>9
  <2>11. Owing' = Owing
    BY <2>10 DEF Owing
  <2>12. \A i \in 0 .. StackSize : Waits(i)' => Belongs(i)'
    <3>1. TAKE i \in 0 .. StackSize
    <3>2. HAVE Waits(i)'
    <3>3. PICK k \in 1 .. n : \/ IsTry(k) /\ cstack[k].start = i
                              \/ Unwinds(k) /\ i \in LeftBy(k)
      BY <2>2, <3>2, <1>1 DEF Finallies, Belongs
    <3>4. k \in 1 .. n + 1 /\ cstack'[k] = cstack[k]
      <4>1. k \in 1 .. n + 1
        BY <1>1, <3>3
      <4> QED BY <4>1, <1>2, <3>3
    <3>5. IsTry(k)' = IsTry(k) /\ Unwinds(k)' = Unwinds(k) /\ (Unwinds(k) => LeftBy(k)' = LeftBy(k))
      BY <3>4, <2>1, <2>3, <2>9 DEF IsTry, Unwinds
    <3> QED BY <3>3, <3>4, <3>5, <2>7 DEF Belongs
  <2>13. owed' = Cardinality(Owing')
    BY <2>11, <1>1 DEF Finallies
  <2> QED BY <2>3, <2>4, <2>6, <2>7, <2>12, <2>13 DEF Finallies
<1> QED BY <1>1, <1>2, <1>4, <1>5, <1>6, <1>7, <1>8 DEF IInv, Complete

----------------------------------------------------------------------------
(* Steps by which an exception reaches a handler, or the process ends.      *)
LEMMA EndStep ==
  ASSUME IInv, NEW how \in {"exited", "undefined"}, End(how), how = "undefined" => ~ Complete
  PROVE  IInv'
<1>1. Typed /\ 1 \in 1 .. Here
  BY PileType DEF IInv
<1>2. cstack' \in Seq(Frame) /\ Here' = 1
  BY <1>1, PopKeeps DEF End
<1>3. Typed'
  <2>1. /\ DOMAIN return_stack = -1 .. StackSize /\ DOMAIN finally_stack = 0 .. StackSize
        /\ DOMAIN exceptionHandler_stack = 0 .. StackSize
    BY <1>1 DEF Typed
  <2>2. /\ return_stack' \in [-1 .. StackSize -> Buffer]
        /\ exceptionHandler_stack' \in [0 .. StackSize -> Buffer]
        /\ finally_stack' \in [0 .. StackSize -> AnyBlock]
    BY <2>1, Buffers DEF End, AnyBlock
  <2>3. /\ calldepth' = 0 /\ error_jump' = UNSET /\ error_jump_set' = FALSE
        /\ exceptionHandlerDepth' = 0 /\ owed' = 0 /\ program' = program /\ status' = how
    BY DEF End
  <2>4. /\ calldepth' \in 0 .. StackSize - 1 /\ exceptionHandlerDepth' \in Nat /\ owed' \in Nat
        /\ error_jump' \in Buffer /\ error_jump_set' \in BOOLEAN
        /\ status' \in {"running", "exited", "undefined"}
    <3>1. calldepth' \in 0 .. StackSize - 1 /\ exceptionHandlerDepth' \in Nat /\ owed' \in Nat
      BY <2>3, StackAssumption
    <3>2. error_jump' \in Buffer /\ error_jump_set' \in BOOLEAN
      BY <2>3, Buffers
    <3>3. status' \in {"running", "exited", "undefined"}
      BY <2>3
    <3> QED BY <3>1, <3>2, <3>3
  <2>5. program' \in Programs /\ Here' >= 1
    BY <2>3, <1>1, <1>2 DEF Typed
  <2> QED BY <1>2, <2>2, <2>4, <2>5 DEF Typed
<1> QED BY <1>3 DEF IInv, End, Complete

LEMMA CutAllKeeps ==
  ASSUME NEW lo \in Int, NEW stk \in [lo .. StackSize -> Buffer], NEW n \in Nat
  PROVE  /\ CutAll(stk, n) \in [lo .. StackSize -> Buffer]
         /\ \A x \in lo .. StackSize :
              /\ stk[x] \in 1 .. n \cup {DEAD} => CutAll(stk, n)[x] = stk[x]
              /\ stk[x] > n => CutAll(stk, n)[x] = DEAD
<1>1. /\ DOMAIN stk = lo .. StackSize
      /\ CutAll(stk, n) = [x \in lo .. StackSize |-> Cut(stk[x], n)]
  BY DEF CutAll
<1>2. \A x \in lo .. StackSize : stk[x] \in Buffer /\ Cut(stk[x], n) \in Buffer
  BY Buffers
<1>3. \A x \in lo .. StackSize : /\ stk[x] \in 1 .. n \cup {DEAD} => Cut(stk[x], n) = stk[x]
                                 /\ stk[x] > n => Cut(stk[x], n) = DEAD
  BY DEF Cut, DEAD
<1> QED BY <1>1, <1>2, <1>3

LEMMA ArraysCut ==
  ASSUME Typed, NEW n \in Nat
  PROVE  /\ CutAll(return_stack, n) \in [-1 .. StackSize -> Buffer]
         /\ \A x \in -1 .. StackSize :
              return_stack[x] \in 1 .. n => CutAll(return_stack, n)[x] = return_stack[x]
         /\ CutAll(exceptionHandler_stack, n) \in [0 .. StackSize -> Buffer]
         /\ \A x \in 0 .. StackSize :
              exceptionHandler_stack[x] \in 1 .. n \cup {DEAD}
              => CutAll(exceptionHandler_stack, n)[x] = exceptionHandler_stack[x]
<1>1. return_stack \in [-1 .. StackSize -> Buffer] /\ -1 \in Int /\ n \in Nat
  BY DEF Typed
<1>2. exceptionHandler_stack \in [0 .. StackSize -> Buffer] /\ 0 \in Int /\ n \in Nat
  BY DEF Typed
<1>3. /\ CutAll(return_stack, n) \in [-1 .. StackSize -> Buffer]
      /\ \A x \in -1 .. StackSize :
           return_stack[x] \in 1 .. n => CutAll(return_stack, n)[x] = return_stack[x]
  BY <1>1, CutAllKeeps
<1>4. /\ CutAll(exceptionHandler_stack, n) \in [0 .. StackSize -> Buffer]
      /\ \A x \in 0 .. StackSize :
           exceptionHandler_stack[x] \in 1 .. n \cup {DEAD}
           => CutAll(exceptionHandler_stack, n)[x] = exceptionHandler_stack[x]
  BY <1>2, CutAllKeeps
<1> QED BY <1>3, <1>4

\* Above the innermost open try that guards every catch and finally block, nothing
\* waits for its finally block.
LEMMA NoTryAbove ==
  ASSUME Typed, Piled(Here), NEW k \in 1 .. Here, cstack[k].phase = "run", Guarded(k),
         NEW n \in Open(k), \A i \in Open(k) : i <= n
  PROVE  \A i \in n + 1 .. k : ~ IsTry(i) /\ ~ Unwinds(i)
<1>1. SUFFICES ASSUME NEW i \in n + 1 .. k, IsTry(i) \/ Unwinds(i) PROVE FALSE
  OBVIOUS
<1>2. k \in Nat /\ n \in 1 .. k /\ i \in 1 .. k /\ i # n /\ i > n /\ i \in Nat
  BY PileType DEF Open
<1>3. PhaseOK(k) /\ Piled(k)
  BY Levels, PiledDown, PileType
<1>4. i # k
  BY <1>1, <1>3 DEF PhaseOK, IsTry, Unwinds, Code, Phase
<1>5. IsTry(i) => cstack[i].phase # "body"
  BY <1>2 DEF Open
<1>6. i \in 1 .. k - 1 /\ i + 1 \in 1 .. k
  BY <1>2, <1>4
<1>7. Cleanup(i + 1)
  BY <1>1, <1>3, <1>5, <1>6, LevelsBelow DEF Cleanup
<1>8. PICK j \in Open(k) : i + 1 < j
  BY <1>6, <1>7 DEF Guarded
<1>9. j \in 1 .. k /\ j <= n
  BY <1>8 DEF Open
<1> QED BY <1>2, <1>8, <1>9

LEMMA CatchStep ==
  ASSUME IInv, status = "running", NEW k \in 1 .. Here, cstack[k].phase = "run", Guarded(k),
         NEW n \in Open(k), \A i \in Open(k) : i <= n, Catch(n),
         finally_stack' \in [0 .. StackSize -> AnyBlock],
         \A x \in 0 .. StackSize :
           /\ x <= cstack[n].start => finally_stack'[x] = finally_stack[x]
           /\ Waits(x)' => Waits(x) /\ \E m \in 1 .. k : \/ IsTry(m) /\ cstack[m].start = x
                                                         \/ Unwinds(m) /\ x \in LeftBy(m),
         exceptionHandlerDepth' \in Nat, Counts(exceptionHandlerDepth', k),
         owed = Cardinality({x \in 0 .. StackSize : Waits(x) /\ \E m \in 1 .. k : OwedTo(x, m)}),
         UNCHANGED <<status, owed, program>>
  PROVE  IInv'
<1>1. /\ Typed /\ Layout /\ Returning(Here) /\ Handling /\ Finallies /\ Piled(Here)
      /\ Here \in Nat \ {0} /\ k \in Nat
      /\ Complete => status # "undefined"
  BY PileType DEF IInv, Layout
<1>2. /\ n \in 1 .. k /\ n \in 1 .. Here /\ n \in Nat \ {0} /\ n < k /\ n < Here /\ IsTry(n)
      /\ cstack[n].phase = "body" /\ n - 1 \in 0 .. Here /\ n - 1 \in Nat
  <2>1. n \in 1 .. k /\ IsTry(n) /\ cstack[n].phase = "body"
    BY DEF Open
  <2>2. n # k
    BY <2>1
  <2> QED BY <2>1, <2>2, <1>1
<1>3. /\ cstack' \in Seq(Frame) /\ Here' = n /\ Kept(n) /\ cstack'[n].phase = "cases"
      /\ \A i \in 1 .. n - 1 : cstack'[i] = cstack[i]
      /\ Same(cstack'[n], cstack[n]) /\ cstack'[n].kind = "try"
  <2>1. cstack' = CutTo(n, "cases") /\ "cases" \in Phase
    BY DEF Catch, CutTo, Phase
  <2>2. cstack' \in Seq(Frame) /\ Here' = n /\ Kept(n) /\ cstack'[n].phase = "cases"
    BY <2>1, <1>1, <1>2, CutKeeps
  <2> QED BY <2>2, <1>2 DEF Kept, Same, IsTry
<1>4. /\ cstack[n] \in Frame /\ Over(n) = cstack[n].start /\ cstack[n].start \in 0 .. StackSize - 1
      /\ n < program.frames /\ program.frames \in Nat
  <2>1. cstack[n] \in Frame /\ Over(n) = cstack[n].start /\ cstack[n].start \in Nat
    BY <1>1, <1>2, Levels
  <2>2. Over(n) <= calldepth /\ calldepth < StackSize /\ calldepth \in Nat
    BY <1>1, <1>2, LevelsInStack
  <2>3. Here <= program.frames /\ program.frames \in Nat
    BY <1>1, FramesBound DEF Layout
  <2> QED BY <2>1, <2>2, <2>3, <1>1, <1>2, StackAssumption
<1>5. /\ return_stack' = CutAll(return_stack, n)
      /\ exceptionHandler_stack' = CutAll(exceptionHandler_stack, n)
      /\ calldepth' = cstack[n].start
      /\ error_jump' = cstack[n].oldjump /\ error_jump_set' = cstack[n].oldset
  BY DEF Catch
<1>6. /\ return_stack' \in [-1 .. StackSize -> Buffer]
      /\ exceptionHandler_stack' \in [0 .. StackSize -> Buffer]
      /\ \A x \in 0 .. StackSize : return_stack[x] \in 1 .. n => return_stack'[x] = return_stack[x]
      /\ \A x \in 0 .. StackSize :
           exceptionHandler_stack[x] \in 1 .. n \cup {DEAD}
           => exceptionHandler_stack'[x] = exceptionHandler_stack[x]
  <2>1. /\ return_stack \in [-1 .. StackSize -> Buffer]
        /\ exceptionHandler_stack \in [0 .. StackSize -> Buffer]
        /\ -1 \in Int /\ 0 \in Int /\ n \in Nat
    BY <1>1, <1>2 DEF Typed
  <2>2. /\ return_stack' \in [-1 .. StackSize -> Buffer]
        /\ \A x \in -1 .. StackSize : return_stack[x] \in 1 .. n => return_stack'[x] = return_stack[x]
    BY <2>1, <1>5, CutAllKeeps
  <2>3. /\ exceptionHandler_stack' \in [0 .. StackSize -> Buffer]
        /\ \A x \in 0 .. StackSize :
             exceptionHandler_stack[x] \in 1 .. n \cup {DEAD}
             => exceptionHandler_stack'[x] = exceptionHandler_stack[x]
    BY <2>1, <1>5, CutAllKeeps
  <2> QED BY <2>2, <2>3, StackAssumption
<1>7. Typed'
  <2>1. cstack[n].oldjump \in Buffer /\ cstack[n].oldset \in BOOLEAN
    BY <1>4 DEF Frame
  <2>2. calldepth' \in 0 .. StackSize - 1
    BY <1>4, <1>5
  <2>3. error_jump' \in Buffer /\ error_jump_set' \in BOOLEAN
    BY <2>1, <1>5
  <2> QED BY <2>2, <2>3, <1>1, <1>2, <1>3, <1>6 DEF Typed
<1>8. \A i \in n + 1 .. k : ~ IsTry(i) /\ ~ Unwinds(i)
  BY <1>1, NoTryAbove
<1>9. Layout'
  <2>1. PhaseOK(n)'
    BY <1>3 DEF PhaseOK, Phase
  <2>2. Piled(n)'
    BY <2>1, <1>1, <1>2, <1>3, PiledKept
  <2>3. AtTop'
    BY <1>3, <1>4, <1>5 DEF AtTop, Top, Same
  <2> QED BY <2>2, <2>3, <1>2, <1>3, <1>4 DEF Layout
<1>10. Returning(Here)'
  <2>1. PICK d \in Nat : d = cstack[n].start
    BY <1>4
  <2>2. \A x \in 0 .. d - 1 : return_stack[x] \in 1 .. n => return_stack'[x] = return_stack[x]
    <3>1. \A x \in 0 .. d - 1 : x \in 0 .. StackSize
      BY <2>1, <1>4, StackAssumption
    <3>2. \A x \in 0 .. StackSize : return_stack[x] \in 1 .. n => return_stack'[x] = return_stack[x]
      BY <1>6
    <3> QED BY <3>1, <3>2
  <2>3. Returning(n)'
    <3>1. Over(n) <= d
      BY <2>1, <1>4
    <3> QED BY <3>1, <2>1, <2>2, <1>1, <1>2, <1>3, ReturningKept
  <2> QED BY <2>3, <1>3 DEF Returning
<1>11. Handling'
  <2>1. /\ Open(n - 1)' = Open(n - 1) /\ NotNormal(n - 1)' = NotNormal(n - 1) /\ Complete' = Complete
        /\ \A buf, set : Handles(buf, set, n - 1)' = Handles(buf, set, n - 1)
        /\ \A h : Counts(h, n - 1)' = Counts(h, n - 1)
        /\ \A i \in 1 .. n - 1 : Saved(i)'
    <3>1. PICK p \in 0 .. Here : p = n - 1
      BY <1>2
    <3>2. /\ \A i \in 1 .. p : cstack'[i] = cstack[i] /\ i \in 1 .. Here
          /\ p \in 0 .. p
      BY <3>1, <1>1, <1>2, <1>3
    <3>3. /\ Open(p)' = Open(p) /\ NotNormal(p)' = NotNormal(p) /\ Complete' = Complete
          /\ \A buf, set : Handles(buf, set, p)' = Handles(buf, set, p)
          /\ \A h : Counts(h, p)' = Counts(h, p)
          /\ \A i \in 1 .. p : Saved(i) => Saved(i)'
      BY <3>1, <3>2, <1>1, TriesKept
    <3> QED BY <3>1, <3>2, <3>3, <1>1 DEF Handling
  <2>2. \A i \in 1 .. n : i \in 1 .. n - 1 \/ i = n
    BY <1>2
  <2>3. \A i \in 1 .. n - 1 : i \in 1 .. n /\ i \in 1 .. k
    BY <1>2
  <2>4. Handles(cstack[n].oldjump, cstack[n].oldset, n - 1) /\ Counts(cstack[n].oldhandlers, n - 1)
    BY <1>1, <1>2 DEF Handling, Saved
  <2>5. Open(n)' = Open(n - 1)
    <3>1. Open(n)' = Open(n - 1)'
      BY <2>2, <2>3, <1>3 DEF Open
    <3> QED BY <3>1, <2>1
  <2>6. Handles(error_jump, error_jump_set, Here)'
    BY <2>1, <2>4, <2>5, <1>3, <1>5 DEF Handles
  <2>7. NotNormal(n)' = NotNormal(k)
    <3>1. \A i \in 1 .. k : i \in 1 .. n - 1 \/ i = n \/ i \in n + 1 .. k
      BY <1>1, <1>2
    <3> QED BY <3>1, <2>2, <2>3, <1>2, <1>3, <1>8 DEF NotNormal, IsTry
  <2>8. Counts(exceptionHandlerDepth, Here)'
    BY <2>1, <2>7, <1>3 DEF Counts
  <2>9. Saved(n)'
    BY <2>1, <2>4, <1>3 DEF Saved, Same
  <2> QED BY <2>1, <2>2, <2>6, <2>8, <2>9, <1>3 DEF Handling
<1>12. Finallies'
  <2>1. \A m \in 1 .. n - 1 :
           /\ TryAt(m)' /\ UnwindAt(m)' /\ LeftBy(m)' = LeftBy(m)
           /\ IsTry(m)' = IsTry(m) /\ Unwinds(m)' = Unwinds(m)
           /\ \A x \in 0 .. StackSize : (Waits(x) /\ OwedTo(x, m))' = (Waits(x) /\ OwedTo(x, m))
    <3>1. \A x \in 0 .. StackSize : x < Over(n) =>
            /\ finally_stack'[x] = finally_stack[x]
            /\ exceptionHandler_stack[x] \in 1 .. n \cup {DEAD}
               => exceptionHandler_stack'[x] = exceptionHandler_stack[x]
      BY <1>4, <1>6
    <3> QED BY <3>1, <1>1, <1>2, <1>3, FinalliesKept
  <2>2. /\ \A m \in 1 .. n : m \in 1 .. n - 1 \/ m = n
        /\ \A m \in 1 .. n - 1 : m \in 1 .. n /\ m \in 1 .. k /\ m \in 1 .. Here
        /\ \A m \in 1 .. k : m \in 1 .. n - 1 \/ m = n \/ m \in n + 1 .. k
    BY <1>1, <1>2
  <2>3. /\ cstack'[n].start = cstack[n].start /\ IsTry(n)' /\ ~ Unwinds(n)' /\ ~ Unwinds(n)
        /\ cstack[n].start \in 0 .. StackSize
    BY <1>2, <1>3, <1>4, StackAssumption DEF Same, IsTry, Unwinds
  <2>4. TryAt(n)' /\ UnwindAt(n)'
    <3>1. TryAt(n)
      BY <1>1, <1>2 DEF Finallies
    <3>2. /\ finally_stack'[cstack[n].start] = finally_stack[cstack[n].start]
          /\ exceptionHandler_stack'[cstack[n].start] = exceptionHandler_stack[cstack[n].start]
      BY <3>1, <2>3, <1>2, <1>4, <1>6 DEF TryAt
    <3> QED BY <3>1, <3>2, <2>3, <1>2 DEF TryAt, UnwindAt, Waits
  <2>5. \A x \in 0 .. StackSize : Waits(x)' => Belongs(x)'
    <3>1. TAKE x \in 0 .. StackSize
    <3>2. HAVE Waits(x)'
    <3>3. PICK m \in 1 .. k : \/ IsTry(m) /\ cstack[m].start = x
                              \/ Unwinds(m) /\ x \in LeftBy(m)
      BY <3>2
    <3>4. m \in 1 .. n - 1 \/ m = n
      BY <3>3, <2>2, <1>8
    <3>5. CASE m = n
      BY <3>3, <3>5, <2>3, <1>2, <1>3 DEF Belongs
    <3>6. CASE m \in 1 .. n - 1
      <4>1. m \in 1 .. n /\ cstack'[m] = cstack[m]
        BY <3>6, <2>2, <1>3
      <4> QED BY <4>1, <3>3, <3>6, <2>1, <1>3 DEF Belongs
    <3> QED BY <3>4, <3>5, <3>6
  <2>6. \A x \in 0 .. StackSize : /\ OwedTo(x, n) <=> x = cstack[n].start
                                  /\ OwedTo(x, n)' <=> x = cstack[n].start
    BY <2>3, <1>2, <1>3 DEF OwedTo
  <2>7. \A x \in 0 .. StackSize, m \in n + 1 .. k : ~ OwedTo(x, m)
    BY <1>8 DEF OwedTo
  <2>8. \A x \in 0 .. StackSize : x = cstack[n].start => Waits(x)' = Waits(x)
    BY <1>4 DEF Waits
  <2>9. Owing' = {x \in 0 .. StackSize : Waits(x) /\ \E m \in 1 .. k : OwedTo(x, m)}
    <3>1. \A x \in 0 .. StackSize :
            (Waits(x) /\ \E m \in 1 .. Here : OwedTo(x, m))'
            <=> (Waits(x) /\ \E m \in 1 .. k : OwedTo(x, m))
      <4>1. TAKE x \in 0 .. StackSize
      <4>2. ASSUME (Waits(x) /\ \E m \in 1 .. Here : OwedTo(x, m))'
            PROVE  Waits(x) /\ \E m \in 1 .. k : OwedTo(x, m)
        <5>1. PICK m \in 1 .. n : OwedTo(x, m)'
          BY <4>2, <1>3
        <5>2. CASE m = n
          BY <5>1, <5>2, <4>2, <2>6, <2>8, <1>2
        <5>3. CASE m \in 1 .. n - 1
          BY <5>1, <5>3, <4>2, <2>1, <2>2
        <5> QED BY <5>1, <5>2, <5>3, <2>2
      <4>3. ASSUME Waits(x), NEW m \in 1 .. k, OwedTo(x, m)
            PROVE  (Waits(x) /\ \E i \in 1 .. Here : OwedTo(x, i))'
        <5>1. CASE m = n
          <6>1. n \in 1 .. n
            BY <1>2
          <6> QED BY <6>1, <5>1, <4>3, <2>6, <2>8, <1>3
        <5>2. CASE m \in 1 .. n - 1
          BY <5>2, <4>3, <2>1, <2>2, <1>3
        <5> QED BY <5>1, <5>2, <4>3, <2>2, <2>7
      <4> QED BY <4>2, <4>3
    <3> QED BY <3>1 DEF Owing
  <2> QED BY <2>1, <2>2, <2>4, <2>5, <2>9, <1>3 DEF Finallies
<1> QED BY <1>7, <1>9, <1>10, <1>11, <1>12, <1>1 DEF IInv, Complete

\* An exception in an ordinary program leaves no catch or finally block.
LEMMA OrdinaryRaises ==
  ASSUME OrdinaryPrograms, Typed, MayRaise
  PROVE  Guarded(Here)
<1>1. "escapeCleanup" \notin program.uses
  BY DEF OrdinaryPrograms, Ordinary, Typed
<1>2. SUFFICES ASSUME NEW i \in 1 .. Here, Cleanup(i) PROVE \E j \in Open(Here) : i < j
  BY DEF Guarded
<1>3. i \in Cleanups
  BY <1>2 DEF Cleanup, Cleanups
<1>4. PICK j \in OpenTries : ~ (j < i)
  BY <1>1, <1>3 DEF MayRaise
<1>5. j \in Open(Here) /\ j \in 1 .. Here
  BY <1>4 DEF OpenTries, Open, IsTry
<1>6. j # i
  BY <1>2, <1>5 DEF Open, IsTry, Cleanup
<1> QED BY <1>2, <1>4, <1>5, <1>6, PileType

LEMMA RaiseStep ==
  ASSUME OrdinaryPrograms, IInv, Running, MayRaise, RaiseNow
  PROVE  IInv'
<1>1. /\ Typed /\ Layout /\ Handling /\ Finallies /\ Piled(Here) /\ status = "running"
      /\ cstack[Here].phase = "run" /\ Here \in 1 .. Here
      /\ Guarded(Here)
  BY RunningFacts, OrdinaryRaises
<1>2. CASE ~ error_jump_set
  BY <1>2, EndStep DEF RaiseNow
<1>3. CASE error_jump_set /\ error_jump \in 1 .. Here
  <2>1. /\ Catch(error_jump) /\ finally_stack' = finally_stack
        /\ exceptionHandlerDepth' = exceptionHandlerDepth /\ UNCHANGED <<status, owed, program>>
    BY <1>3 DEF RaiseNow, LongjmpTo
  <2>2. error_jump \in Open(Here) /\ \A i \in Open(Here) : i <= error_jump
    BY <1>1, <1>3 DEF Handling, Handles, UNSET, DEAD
  <2>3. PICK n \in Open(Here) : n = error_jump
    BY <2>2
  <2>4. PICK k \in 1 .. Here : k = Here
    BY <1>1
  <2>5. Catch(n) /\ (\A i \in Open(k) : i <= n) /\ n \in Open(k)
    BY <2>1, <2>2, <2>3, <2>4
  <2>6. finally_stack' \in [0 .. StackSize -> AnyBlock] /\ exceptionHandlerDepth' \in Nat
    BY <2>1, <1>1 DEF Typed
  <2>7. \A x \in 0 .. StackSize :
           /\ x <= cstack[n].start => finally_stack'[x] = finally_stack[x]
           /\ Waits(x)' => Waits(x) /\ \E m \in 1 .. k : \/ IsTry(m) /\ cstack[m].start = x
                                                         \/ Unwinds(m) /\ x \in LeftBy(m)
    BY <2>1, <2>4, <1>1 DEF Finallies, Belongs, Waits
  <2>8. owed = Cardinality({x \in 0 .. StackSize : Waits(x) /\ \E m \in 1 .. k : OwedTo(x, m)})
    BY <2>4, <1>1 DEF Finallies, Owing
  <2>9. Counts(exceptionHandlerDepth', k) /\ cstack[k].phase = "run" /\ Guarded(k)
    BY <2>1, <2>4, <1>1 DEF Handling
  <2> QED BY <2>1, <2>5, <2>6, <2>7, <2>8, <2>9, <1>1, CatchStep
<1>4. CASE error_jump_set /\ error_jump \notin 1 .. Here
  <2>1. End("undefined")
    BY <1>4 DEF RaiseNow, LongjmpTo
  <2>2. ~ Complete
    BY <1>1, <1>4 DEF Handling, Handles, Open
  <2> QED BY <2>1, <2>2, EndStep
<1> QED BY <1>2, <1>3, <1>4

----------------------------------------------------------------------------
(* Requests, the application of blocks and match.                           *)
LEMMA NewFrameType ==
  ASSUME Typed, NEW kind \in Kind, NEW b \in AnyBlock, NEW a \in AnyBlock
  PROVE  /\ NewFrame(kind, b, a) \in Frame
         /\ NewFrame(kind, b, a).kind = kind /\ NewFrame(kind, b, a).start = calldepth
         /\ NewFrame(kind, b, a).block = b /\ NewFrame(kind, b, a).arg = a
         /\ NewFrame(kind, b, a).phase = "run"
<1>1. calldepth \in Nat
  BY DEF Typed
<1>2. UNSET \in Buffer /\ FALSE \in BOOLEAN /\ 0 \in Nat /\ "run" \in Phase
  BY Buffers DEF Phase
<1> QED BY <1>1, <1>2 DEF NewFrame, Frame

\* What a request and the application of a block write of the return points.
LEMMA MethodSlotsOK ==
  ASSUME Typed, Layout
  PROVE  /\ MethodSlots \in [-1 .. StackSize -> Buffer]
         /\ MethodSlots[calldepth] = Here + 1
         /\ \A x \in -1 .. StackSize : x # calldepth => MethodSlots[x] = return_stack[x]
<1>1. Here + 1 \in Buffer
  BY FramesBound, Buffers
<1> QED BY <1>1, StackAssumption DEF MethodSlots, Typed

LEMMA BlockSlotsOK ==
  ASSUME NEW stk \in [-1 .. StackSize -> Buffer], NEW d \in Nat, d + 1 <= StackSize,
         NEW b \in AnyBlock
  PROVE  /\ BlockSlots(stk, d, b) \in [-1 .. StackSize -> Buffer]
         /\ b.retpoint # NULL => BlockSlots(stk, d, b)[d + 1] = stk[b.retpoint]
         /\ \A x \in -1 .. StackSize : x \notin {d, d + 1} => BlockSlots(stk, d, b)[x] = stk[x]
<1>1. b.retpoint = NULL \/ b.retpoint \in 0 .. StackSize - 1
  BY Blocks DEF AnyBlock, NoBlock
<1>2. PICK p \in Buffer : p = IF b.retpoint = NULL THEN stk[d - 1] ELSE stk[b.retpoint]
  BY <1>1, StackAssumption
<1>3. BlockSlots(stk, d, b) = [stk EXCEPT ![d] = p, ![d + 1] = p]
  BY <1>2 DEF BlockSlots
<1>4. d \in -1 .. StackSize /\ d + 1 \in -1 .. StackSize
  BY StackAssumption
<1> QED BY <1>2, <1>3, <1>4

LEMMA CaseSlotsOK ==
  ASSUME Typed, Layout, NEW kind \in {"case", "typedcase"}, NEW b \in AnyBlock,
         calldepth + 3 < StackSize
  PROVE  /\ CaseSlots(kind, b) \in [-1 .. StackSize -> Buffer]
         /\ kind = "case" /\ b.retpoint \in 0 .. calldepth - 1
            => CaseSlots(kind, b)[calldepth + 2] = return_stack[b.retpoint]
         /\ \A x \in -1 .. calldepth - 1 : CaseSlots(kind, b)[x] = return_stack[x]
<1>1. calldepth \in Nat /\ StackSize \in Nat /\ Here + 1 \in Buffer
  <2>1. calldepth \in Nat /\ StackSize \in Nat
    BY StackAssumption DEF Typed
  <2>2. Here + 1 \in Buffer
    BY FramesBound, Buffers
  <2> QED BY <2>1, <2>2
<1>2. PICK own \in [-1 .. StackSize -> Buffer] :
        /\ own = MethodSlots
        /\ \A x \in -1 .. StackSize : x # calldepth => own[x] = return_stack[x]
  BY MethodSlotsOK
<1>3. CASE kind = "case"
  <2>1. CaseSlots(kind, b) = BlockSlots(own, calldepth + 1, b)
    BY <1>2, <1>3 DEF CaseSlots, MethodSlots
  <2>2. PICK d \in Nat : d = calldepth + 1
    BY <1>1
  <2>3. /\ BlockSlots(own, d, b) \in [-1 .. StackSize -> Buffer]
        /\ b.retpoint # NULL => BlockSlots(own, d, b)[d + 1] = own[b.retpoint]
        /\ \A x \in -1 .. StackSize : x \notin {d, d + 1} => BlockSlots(own, d, b)[x] = own[x]
    BY <2>2, <1>1, BlockSlotsOK
  <2> QED BY <2>1, <2>2, <2>3, <1>1, <1>2, <1>3 DEF NULL
<1>4. CASE kind # "case"
  <2>1. CaseSlots(kind, b) = [own EXCEPT ![calldepth + 1] = Here + 1, ![calldepth + 2] = Here + 1]
    BY <1>2, <1>4 DEF CaseSlots, MethodSlots
  <2> QED BY <2>1, <1>1, <1>2, <1>4
<1> QED BY <1>3, <1>4

\* A request whose slots leave those of the frames below alone.
LEMMA RequestedStep ==
  ASSUME OrdinaryPrograms, IInv, NEW kind \in {"method", "super"}, NEW arg, NEW slots,
         Requested(kind, arg, slots),
         calldepth + 1 < StackSize =>
           /\ slots \in [-1 .. StackSize -> Buffer]
           /\ \A x \in 0 .. calldepth - 1 : slots[x] = return_stack[x]
           /\ kind = "method" => slots[calldepth] = Here + 1
  PROVE  IInv'
<1>1. CASE ~ Fits(kind)
  BY <1>1, RaiseStep DEF Requested
<1>2. CASE Fits(kind)
  <2>1. /\ Typed /\ Layout /\ Here \in Nat \ {0} /\ status = "running" /\ Top.phase = "run"
        /\ Here < program.frames /\ Running /\ calldepth \in Nat
    BY RunningFacts DEF Requested, Running
  <2>2. PICK n \in Nat : n = Here
    BY <2>1
  <2>3. arg \in AnyBlock /\ (arg # NoBlock => Ready(arg))
    BY <2>1, UsableReady DEF Requested, AnyBlock, Ready
  <2>4. Height(kind) = 1 /\ kind \in Kind /\ kind \in Code \ {"top", "finally"}
    BY Heights DEF Kind, Code
  <2>5. PICK f \in Frame : /\ f = NewFrame(kind, NoBlock, arg) /\ f.kind = kind
                           /\ f.start = calldepth /\ f.block = NoBlock /\ f.arg = arg
                           /\ f.phase = "run"
    BY <2>1, <2>3, <2>4, NewFrameType DEF AnyBlock
  <2>6. /\ cstack' = Append(cstack, f) /\ calldepth' = calldepth + Height(f.kind)
        /\ return_stack' = slots /\ Fits(f.kind)
        /\ UNCHANGED <<finally_stack, exceptionHandler_stack, error_jump, error_jump_set,
                       exceptionHandlerDepth, status, owed, program>>
    BY <1>2, <2>5 DEF Requested, Push
  <2>7. /\ return_stack' \in [-1 .. StackSize -> Buffer]
        /\ \A x \in 0 .. calldepth - 1 : return_stack'[x] = return_stack[x]
        /\ kind = "method" => return_stack'[calldepth] = Here + 1
    BY <1>2, <2>4, <2>6 DEF Fits
  <2>8. Kept(Here) /\ cstack'[n + 1] = f
    BY <2>1, <2>2, <2>6, AppendKeeps
  <2>9. BlocksAt(n + 1)'
    <3>1. arg # NoBlock => BlockOK(arg, n + 1)'
      <4>1. n + 1 \in Here + 1 .. Here + 2
        BY <2>2
      <4> QED BY <4>1, <2>1, <2>3, <2>5, <2>7, <2>8, ReadyOK
    <3> QED BY <3>1, <2>5, <2>8 DEF BlocksAt
  <2>10. SlotAt(n + 1)'
    <3>1. HomeAt(n + 1)' = n + 1 /\ Over(n + 1)' - 1 = calldepth
      BY <2>1, <2>4, <2>5, <2>8 DEF HomeAt, Over
    <3> QED BY <3>1, <2>2, <2>5, <2>7, <2>8 DEF SlotAt
  <2> QED BY <2>1, <2>2, <2>4, <2>5, <2>6, <2>7, <2>9, <2>10, AppendStep
<1> QED BY <1>1, <1>2

LEMMA RequestStep ==
  ASSUME OrdinaryPrograms, IInv, NEW arg, Request(arg)
  PROVE  IInv'
<1>1. Typed /\ Layout /\ calldepth \in Nat
  BY RunningFacts DEF Request, Requested
<1>2. /\ MethodSlots \in [-1 .. StackSize -> Buffer]
      /\ MethodSlots[calldepth] = Here + 1
      /\ \A x \in 0 .. calldepth - 1 : calldepth < StackSize => MethodSlots[x] = return_stack[x]
  BY <1>1, MethodSlotsOK, StackAssumption
<1>3. calldepth + 1 < StackSize => calldepth < StackSize
  BY <1>1, StackAssumption
<1> QED BY <1>2, <1>3, RequestedStep DEF Request

LEMMA SuperRequestStep ==
  ASSUME OrdinaryPrograms, IInv, NEW arg, SuperRequest(arg)
  PROVE  IInv'
<1>1. return_stack \in [-1 .. StackSize -> Buffer]
  BY DEF IInv, Typed
<1> QED BY <1>1, RequestedStep DEF SuperRequest

LEMMA ApplyStep ==
  ASSUME OrdinaryPrograms, IInv, NEW b, Apply(b)
  PROVE  IInv'
<1>1. CASE ~ Fits("block")
  BY <1>1, RaiseStep DEF Apply
<1>2. CASE Fits("block")
  <2>1. /\ Typed /\ Layout /\ Here \in Nat \ {0} /\ status = "running" /\ Top.phase = "run"
        /\ Here < program.frames /\ Running /\ calldepth \in Nat
        /\ return_stack \in [-1 .. StackSize -> Buffer]
    BY RunningFacts DEF Apply, Running, Typed
  <2>2. PICK n \in Nat : n = Here
    BY <2>1
  <2>3. /\ b \in Block /\ b \in AnyBlock /\ b # NoBlock /\ Ready(b)
        /\ Top.arg \in AnyBlock /\ (Top.arg # NoBlock => Ready(Top.arg))
    BY <2>1, UsableReady, Blocks DEF Apply, AnyBlock, Ready
  <2>4. Height("block") = 2 /\ "block" \in Kind /\ "block" \in Code \ {"top", "finally"}
    BY Heights DEF Kind, Code
  <2>5. PICK f \in Frame : /\ f = NewFrame("block", b, Top.arg) /\ f.kind = "block"
                           /\ f.start = calldepth /\ f.block = b /\ f.arg = Top.arg
                           /\ f.phase = "run"
    BY <2>1, <2>3, <2>4, NewFrameType
  <2>6. /\ cstack' = Append(cstack, f) /\ calldepth' = calldepth + Height(f.kind)
        /\ return_stack' = BlockSlots(return_stack, calldepth, b) /\ Fits(f.kind)
        /\ UNCHANGED <<finally_stack, exceptionHandler_stack, error_jump, error_jump_set,
                       exceptionHandlerDepth, status, owed, program>>
    BY <1>2, <2>5 DEF Apply, Push
  <2>7. /\ return_stack' \in [-1 .. StackSize -> Buffer]
        /\ \A x \in 0 .. calldepth - 1 : return_stack'[x] = return_stack[x]
        /\ b.retpoint # NULL => return_stack'[calldepth + 1] = return_stack[b.retpoint]
    <3>1. calldepth + 1 <= StackSize /\ \A x \in 0 .. calldepth - 1 : x \in -1 .. StackSize
      BY <1>2, <2>1, <2>4, StackAssumption DEF Fits
    <3>2. PICK d \in Nat : d = calldepth
      BY <2>1
    <3>3. /\ BlockSlots(return_stack, d, b) \in [-1 .. StackSize -> Buffer]
          /\ b.retpoint # NULL => BlockSlots(return_stack, d, b)[d + 1] = return_stack[b.retpoint]
          /\ \A x \in -1 .. StackSize :
               x \notin {d, d + 1} => BlockSlots(return_stack, d, b)[x] = return_stack[x]
      BY <3>1, <3>2, <2>1, <2>3, BlockSlotsOK
    <3> QED BY <3>1, <3>2, <3>3, <2>6
  <2>8. Kept(Here) /\ cstack'[n + 1] = f /\ n + 1 \in Here + 1 .. Here + 2
    <3>1. Kept(Here) /\ cstack'[Here + 1] = f
      BY <2>1, <2>6, AppendKeeps
    <3> QED BY <3>1, <2>2
  <2>9. BlocksAt(n + 1)'
    <3>1. PICK a \in AnyBlock : a = Top.arg
      BY <2>3
    <3>2. BlockOK(b, n + 1)' /\ (a # NoBlock => BlockOK(a, n + 1)')
      BY <3>1, <2>1, <2>3, <2>5, <2>7, <2>8, ReadyOK
    <3> QED BY <3>1, <3>2, <2>3, <2>5, <2>8 DEF BlocksAt
  <2>10. SlotAt(n + 1)'
    <3>1. Over(n + 1)' - 1 = calldepth + 1
      BY <2>1, <2>4, <2>5, <2>8 DEF Over
    <3>2. b.retpoint \in 0 .. calldepth - 1 => b.retpoint # NULL
      BY <2>1 DEF NULL
    <3> QED BY <3>1, <3>2, <2>1, <2>3, <2>5, <2>7, <2>8, ReadyOK
  <2> QED BY <2>1, <2>2, <2>4, <2>5, <2>6, <2>7, <2>9, <2>10, AppendStep
<1> QED BY <1>1, <1>2

\* A case block runs inside its match.
LEMMA CaseStep ==
  ASSUME IInv, status = "running", NEW kind \in {"case", "typedcase"}, NEW b, Ready(b),
         Here < program.frames, Top.phase \in {"run", "cases"}, Fits(kind),
         Push(NewFrame(kind, b, NoBlock), CaseSlots(kind, b)),
         UNCHANGED <<finally_stack, exceptionHandler_stack, error_jump, error_jump_set,
                     exceptionHandlerDepth, status, owed, program>>
  PROVE  IInv'
<1>1. /\ Typed /\ Layout /\ Here \in Nat \ {0} /\ calldepth \in Nat
      /\ b \in Block /\ b \in AnyBlock /\ b # NoBlock /\ b.home \in 1 .. Here
  BY LevelsInStack, Blocks DEF IInv, AnyBlock, Ready
<1>2. PICK n \in Nat : n = Here
  BY <1>1
<1>3. /\ Height(kind) = 3 /\ kind \in Kind /\ kind \in Code \ {"top", "finally"}
      /\ calldepth + 3 < StackSize /\ NoBlock \in AnyBlock
  BY Heights DEF Kind, Code, Fits, AnyBlock
<1>4. PICK f \in Frame : /\ f = NewFrame(kind, b, NoBlock) /\ f.kind = kind
                         /\ f.start = calldepth /\ f.block = b /\ f.arg = NoBlock
                         /\ f.phase = "run"
  BY <1>1, <1>3, NewFrameType
<1>5. /\ cstack' = Append(cstack, f) /\ calldepth' = calldepth + Height(f.kind)
      /\ return_stack' = CaseSlots(kind, b) /\ Fits(f.kind)
  BY <1>4 DEF Push
<1>6. /\ return_stack' \in [-1 .. StackSize -> Buffer]
      /\ \A x \in 0 .. calldepth - 1 : return_stack'[x] = return_stack[x]
      /\ kind = "case" /\ b.retpoint \in 0 .. calldepth - 1
         => return_stack'[calldepth + 2] = return_stack[b.retpoint]
  BY <1>1, <1>3, <1>5, CaseSlotsOK
<1>7. Kept(Here) /\ cstack'[n + 1] = f /\ n + 1 \in Here + 1 .. Here + 2
  <2>1. Kept(Here) /\ cstack'[Here + 1] = f
    BY <1>1, <1>5, AppendKeeps
  <2> QED BY <2>1, <1>2
<1>8. BlocksAt(n + 1)'
  <2>1. BlockOK(b, n + 1)'
    BY <1>1, <1>4, <1>6, <1>7, ReadyOK
  <2> QED BY <2>1, <1>1, <1>4, <1>7 DEF BlocksAt
<1>9. SlotAt(n + 1)'
  <2>1. CASE kind = "case"
    <3>1. Over(n + 1)' - 1 = calldepth + 2
      BY <1>1, <1>3, <1>4, <1>7 DEF Over
    <3> QED BY <3>1, <2>1, <1>1, <1>4, <1>6, <1>7, ReadyOK
  <2>2. CASE kind = "typedcase"
    <3>1. HomeAt(n + 1)' = b.home /\ n + 1 \in b.home + 1 .. n + 1
      BY <2>2, <1>1, <1>2, <1>4, <1>7 DEF HomeAt
    <3> QED BY <3>1, <2>2, <1>4, <1>7 DEF SlotAt, None
  <2> QED BY <2>1, <2>2
<1> QED BY <1>2, <1>3, <1>4, <1>5, <1>6, <1>8, <1>9, AppendStep

LEMMA MatchCaseStep ==
  ASSUME OrdinaryPrograms, IInv, NEW kind \in {"case", "typedcase"}, MatchCase(kind)
  PROVE  IInv'
<1>1. Running /\ status = "running" /\ Top.phase = "run"
  BY DEF MatchCase, Running
<1>2. CASE ~ Fits(kind)
  BY <1>2, RaiseStep DEF MatchCase
<1>3. CASE Fits(kind)
  <2>1. PICK b : b = FreshBlock /\ Ready(b)
    BY <1>1, UsableReady
  <2> QED BY <1>1, <1>3, <2>1, CaseStep DEF MatchCase
<1> QED BY <1>2, <1>3

LEMMA CaseMatchesStep ==
  ASSUME IInv, NEW kind \in {"case", "typedcase"}, CaseMatches(kind)
  PROVE  IInv'
<1>1. /\ Typed /\ Layout /\ Returning(Here) /\ Finallies /\ Piled(Here) /\ AtTop
      /\ status = "running" /\ IsTry(Here) /\ Top.phase = "cases" /\ Top = cstack[Here]
      /\ Here \in 1 .. Here /\ Here \in Nat \ {0}
  BY PileType DEF IInv, CaseMatches, IsTry, Top, Layout
<1>2. Here \in 2 .. Here /\ cstack[Here] \in Frame /\ calldepth = cstack[Here].start
  <2>1. Here # 1
    BY <1>1 DEF Piled, IsTry
  <2> QED BY <2>1, <1>1, PileType DEF AtTop
<1>3. Here < program.frames /\ calldepth + 3 < StackSize
  BY <1>1, <1>2 DEF AtTop, Finallies, TryAt
<1>4. PICK b \in AnyBlock : b = Top.block
  BY <1>1, <1>2 DEF Frame
<1>5. b # NoBlock /\ BlockOK(b, Here)
  BY <1>1, <1>2, <1>4 DEF Returning, BlocksAt, IsTry
<1>6. Ready(b)
  <2>1. b \in Block /\ b.home \in 1 .. Here - 1 /\ b.home \in 1 .. Here
    BY <1>1, <1>4, <1>5 DEF AnyBlock, BlockOK
  <2>2. \A kinds : None(kinds, b.home, Here) => None(kinds, b.home, Here - 1)
    BY <2>1, <1>1 DEF None
  <2> QED BY <2>1, <2>2, <1>2, <1>5 DEF Ready, BlockOK
<1>7. Fits(kind)
  BY <1>3, Heights DEF Fits
<1> QED BY <1>1, <1>3, <1>4, <1>6, <1>7, CaseStep DEF CaseMatches

----------------------------------------------------------------------------
(* Try statements.                                                          *)
LEMMA CountsFinite ==
  ASSUME NEW k \in Nat
  PROVE  IsFiniteSet(NotNormal(k)) /\ IsFiniteSet(NotNormal(k)')
<1>1. IsFiniteSet(1 .. k)
  BY FS_Interval
<1>2. NotNormal(k) \subseteq 1 .. k /\ NotNormal(k)' \subseteq 1 .. k
  BY DEF NotNormal
<1> QED BY <1>1, <1>2, FS_Subset

LEMMA OwingFinite ==
  IsFiniteSet(Owing) /\ Cardinality(Owing) \in Nat
<1>1. IsFiniteSet(0 .. StackSize)
  BY FS_Interval, StackAssumption
<1>2. Owing \subseteq 0 .. StackSize
  BY DEF Owing
<1> QED BY <1>1, <1>2, FS_Subset, FS_CardinalityType

LEMMA EnterTryStep ==
  ASSUME IInv, EnterTry
  PROVE  IInv'
<1>1. /\ Typed /\ Layout /\ Returning(Here) /\ Handling /\ Finallies /\ Piled(Here)
      /\ Here \in Nat \ {0} /\ status = "running" /\ Top.phase = "run" /\ Running
      /\ calldepth \in 0 .. StackSize - 1 /\ calldepth = Over(Here)
      /\ ~ IsTry(Here) /\ ~ Unwinds(Here) /\ Here + 1 < program.frames /\ Here \in 1 .. Here
  BY RunningFacts DEF EnterTry, Running
<1>2. PICK n \in Nat \ {0} : n = Here
  BY <1>1
<1>3. calldepth + 3 < StackSize /\ StackSize \in Nat /\ program.frames \in Nat
  <2>1. calldepth + 3 < StackSize
    BY Heights DEF EnterTry, Fits
  <2> QED BY <2>1, <1>1, StackAssumption, FramesBound
<1>4. PICK b \in Block : b = FreshBlock /\ Ready(b) /\ b \in AnyBlock /\ b # NoBlock
  BY <1>1, UsableReady, Blocks DEF Ready, AnyBlock
<1>5. PICK a \in AnyBlock : a = Top.arg /\ (a # NoBlock => Ready(a))
  BY <1>1, UsableReady DEF Ready, AnyBlock
<1>6. PICK g \in Frame : /\ g = NewFrame("block", b, a) /\ g.kind = "block"
                         /\ g.start = calldepth /\ g.block = b /\ g.arg = a /\ g.phase = "run"
  BY <1>1, <1>4, NewFrameType DEF Kind
<1>7. PICK t \in Frame :
        /\ t = [NewFrame("try", b, NoBlock) EXCEPT
                  !.phase = "body", !.oldset = error_jump_set, !.oldjump = error_jump,
                  !.oldhandlers = exceptionHandlerDepth]
        /\ t.kind = "try" /\ t.start = calldepth /\ t.block = b /\ t.arg = NoBlock
        /\ t.phase = "body" /\ t.oldset = error_jump_set /\ t.oldjump = error_jump
        /\ t.oldhandlers = exceptionHandlerDepth
  <2>1. PICK f \in Frame : /\ f = NewFrame("try", b, NoBlock) /\ f.kind = "try"
                           /\ f.start = calldepth /\ f.block = b /\ f.arg = NoBlock
    BY <1>1, <1>4, NewFrameType DEF Kind, AnyBlock
  <2>2. /\ error_jump_set \in BOOLEAN /\ error_jump \in Buffer /\ exceptionHandlerDepth \in Nat
        /\ "body" \in Phase
    BY <1>1 DEF Typed, Phase
  <2>3. /\ [f EXCEPT !.phase = "body", !.oldset = error_jump_set, !.oldjump = error_jump,
                     !.oldhandlers = exceptionHandlerDepth] \in Frame
    BY <2>2 DEF Frame
  <2> QED BY <2>1, <2>2, <2>3 DEF Frame
<1>8. /\ cstack' \in Seq(Frame) /\ Here' = n + 2 /\ Kept(n)
      /\ \A i \in 1 .. n : cstack'[i] = cstack[i]
      /\ cstack'[n + 1] = t /\ cstack'[n + 2] = g
  <2>1. cstack' = cstack \o <<t, g>>
    BY <1>4, <1>5, <1>6, <1>7 DEF EnterTry
  <2>2. cstack \in Seq(Frame) /\ <<t, g>> \in Seq(Frame) /\ Len(<<t, g>>) = 2 /\ Len(cstack) = n
    BY <1>1, <1>2 DEF Typed, Here
  <2>3. /\ cstack' \in Seq(Frame) /\ Len(cstack') = n + 2
        /\ \A i \in 1 .. n + 2 : cstack'[i] = IF i <= n THEN cstack[i] ELSE <<t, g>>[i - n]
    BY <2>1, <2>2, ConcatProperties
  <2>4. /\ \A i \in 1 .. n : cstack'[i] = cstack[i]
        /\ cstack'[n + 1] = <<t, g>>[1] /\ cstack'[n + 2] = <<t, g>>[2]
    BY <2>3
  <2> QED BY <2>3, <2>4, <1>2 DEF Kept, Here, Same
<1>9. /\ calldepth' = calldepth + 2 /\ error_jump' = n + 1 /\ error_jump_set' = TRUE
      /\ exceptionHandlerDepth' = exceptionHandlerDepth + 1 /\ owed' = owed + 1
      /\ status' = status /\ program' = program
      /\ return_stack' = BlockSlots(return_stack, calldepth, b)
      /\ finally_stack' = [finally_stack EXCEPT ![calldepth] = b]
      /\ exceptionHandler_stack' = [exceptionHandler_stack EXCEPT ![calldepth] = n + 1]
  BY <1>2, <1>4, Heights DEF EnterTry
<1>10. /\ return_stack' \in [-1 .. StackSize -> Buffer]
       /\ \A x \in 0 .. calldepth - 1 : return_stack'[x] = return_stack[x]
       /\ b.retpoint \in 0 .. calldepth - 1 => return_stack'[calldepth + 1] = return_stack[b.retpoint]
  <2>1. PICK d \in Nat : d = calldepth
    BY <1>1
  <2>2. /\ BlockSlots(return_stack, d, b) \in [-1 .. StackSize -> Buffer]
        /\ b.retpoint # NULL => BlockSlots(return_stack, d, b)[d + 1] = return_stack[b.retpoint]
        /\ \A x \in -1 .. StackSize :
             x \notin {d, d + 1} => BlockSlots(return_stack, d, b)[x] = return_stack[x]
    <3>1. d + 1 <= StackSize /\ return_stack \in [-1 .. StackSize -> Buffer]
      BY <2>1, <1>1, <1>3 DEF Typed
    <3> QED BY <3>1, <1>4, BlockSlotsOK
  <2>3. b.retpoint \in 0 .. calldepth - 1 => b.retpoint # NULL
    BY <2>1 DEF NULL
  <2> QED BY <2>1, <2>2, <2>3, <1>3, <1>9
<1>11. /\ finally_stack' \in [0 .. StackSize -> AnyBlock]
       /\ exceptionHandler_stack' \in [0 .. StackSize -> Buffer]
       /\ \A x \in 0 .. StackSize : x # calldepth =>
            /\ finally_stack'[x] = finally_stack[x]
            /\ exceptionHandler_stack'[x] = exceptionHandler_stack[x]
       /\ finally_stack'[calldepth] = b /\ exceptionHandler_stack'[calldepth] = n + 1
       /\ n + 1 \in Buffer /\ calldepth \in 0 .. StackSize
  <2>1. n + 1 \in Buffer
    BY <1>1, <1>2, FramesBound, Buffers
  <2>2. calldepth \in 0 .. StackSize
    BY <1>1, <1>3
  <2> QED BY <2>1, <2>2, <1>1, <1>4, <1>9 DEF Typed
<1>12. Typed'
  <2>1. calldepth' \in 0 .. StackSize - 1 /\ exceptionHandlerDepth' \in Nat /\ owed' \in Nat
    BY <1>1, <1>3, <1>9 DEF Typed
  <2>2. error_jump' \in Buffer /\ error_jump_set' \in BOOLEAN
    BY <1>9, <1>11
  <2>3. Here' >= 1 /\ status' \in {"running", "exited", "undefined"} /\ program' \in Programs
    BY <1>1, <1>2, <1>8, <1>9 DEF Typed
  <2>4. /\ return_stack' \in [-1 .. StackSize -> Buffer]
        /\ finally_stack' \in [0 .. StackSize -> AnyBlock]
        /\ exceptionHandler_stack' \in [0 .. StackSize -> Buffer]
        /\ cstack' \in Seq(Frame)
    BY <1>8, <1>10, <1>11
  <2> QED BY <2>1, <2>2, <2>3, <2>4 DEF Typed
<1>13. Layout'
  <2>1. Piled(n)' /\ Over(n)' = calldepth
    <3>1. PhaseOK(n)'
      BY <1>1, <1>2, <1>8, Levels DEF PhaseOK
    <3> QED BY <3>1, <1>1, <1>2, <1>8, PiledKept, KeptFacts
  <2>2. Piled(n + 1)' /\ Over(n + 1)' = calldepth
    <3>1. PhaseOK(n + 1)' /\ StandsOn(n + 1, n)' /\ Over(n + 1)' = calldepth
      BY <2>1, <1>1, <1>2, <1>7, <1>8, Heights DEF PhaseOK, StandsOn, Over, Phase, Kind, Top
    <3>2. Over(n)' <= cstack'[n + 1].start /\ Here' \in Nat /\ n + 1 <= Here'
      BY <2>1, <1>1, <1>7, <1>8
    <3> QED BY <3>1, <3>2, <2>1, <1>8, PiledOn
  <2>3. Piled(n + 2)' /\ Over(n + 2)' = calldepth'
    <3>1. PICK m \in Nat \ {0} : m = n + 1 /\ n + 2 = m + 1
      OBVIOUS
    <3>2. PhaseOK(m + 1)' /\ StandsOn(m + 1, m)' /\ Over(m + 1)' = calldepth'
      BY <3>1, <2>2, <1>6, <1>7, <1>8, <1>9, Heights DEF PhaseOK, StandsOn, Over, Code
    <3>3. Over(m)' <= cstack'[m + 1].start /\ Here' \in Nat /\ m + 1 <= Here'
      BY <3>1, <2>2, <1>1, <1>6, <1>8
    <3>4. Piled(m + 1)'
      BY <3>1, <3>2, <3>3, <2>2, <1>8, PiledOn
    <3> QED BY <3>1, <3>2, <3>4
  <2>4. AtTop'
    BY <2>3, <1>6, <1>8 DEF AtTop, Top
  <2>5. Here' = n + 2 /\ Here' <= program'.frames
    BY <1>1, <1>2, <1>3, <1>8, <1>9
  <2> QED BY <2>3, <2>4, <2>5 DEF Layout
<1>14. Returning(n + 2)'
  <2>1. Returning(n)'
    <3>1. PICK d \in Nat : d = calldepth
      BY <1>1
    <3>2. /\ \A x \in 0 .. d - 1 : return_stack[x] \in 1 .. n => return_stack'[x] = return_stack[x]
          /\ Over(n) <= d
      BY <3>1, <1>1, <1>2, <1>10
    <3> QED BY <3>1, <3>2, <1>1, <1>2, <1>8, ReturningKept
  <2>2. n + 1 \in Here + 1 .. Here + 2 /\ n + 2 \in Here + 1 .. Here + 2 /\ Kept(Here)
    BY <1>2, <1>8
  <2>3. BlocksAt(n + 1)' /\ SlotAt(n + 1)'
    <3>1. BlockOK(b, n + 1)'
      BY <2>2, <1>1, <1>4, <1>7, <1>8, <1>10, ReadyOK
    <3> QED BY <3>1, <1>4, <1>7, <1>8 DEF BlocksAt, SlotAt
  <2>4. BlocksAt(n + 2)' /\ SlotAt(n + 2)'
    <3>1. BlockOK(b, n + 2)' /\ (a # NoBlock => BlockOK(a, n + 2)')
      BY <2>2, <1>1, <1>4, <1>5, <1>6, <1>8, <1>10, ReadyOK
    <3>2. Over(n + 2)' - 1 = calldepth + 1
      BY <1>1, <1>6, <1>8, Heights DEF Over
    <3>3. SlotAt(n + 2)'
      BY <3>2, <2>2, <1>1, <1>4, <1>6, <1>8, <1>10, ReadyOK
    <3> QED BY <3>1, <3>3, <1>4, <1>6, <1>8 DEF BlocksAt
  <2>5. \A i \in 2 .. n + 2 : i \in 2 .. n \/ i = n + 1 \/ i = n + 2
    OBVIOUS
  <2> QED BY <2>1, <2>3, <2>4, <2>5 DEF Returning
<1>15. Handling'
  <2>1. /\ Open(n)' = Open(n) /\ NotNormal(n)' = NotNormal(n) /\ Complete' = Complete
        /\ \A buf, set : Handles(buf, set, n)' = Handles(buf, set, n)
        /\ \A h : Counts(h, n)' = Counts(h, n)
        /\ \A i \in 1 .. n : Saved(i)'
    <3>1. n \in 0 .. Here /\ n \in 0 .. n
      BY <1>2
    <3> QED BY <3>1, <1>1, <1>2, <1>8, <1>9, TriesKept DEF Handling
  <2>2. /\ \A i \in 1 .. n + 2 : i \in 1 .. n \/ i = n + 1 \/ i = n + 2
        /\ \A i \in 1 .. n : i \in 1 .. n + 2
        /\ n + 1 \in 1 .. n + 2 /\ n + 1 \notin 1 .. n
    OBVIOUS
  <2>3. IsTry(n + 1)' /\ ~ IsTry(n + 2)'
    BY <1>6, <1>7, <1>8 DEF IsTry
  <2>4. Open(n + 2)' = Open(n) \cup {n + 1}
    <3>1. \A i \in 1 .. n : i \in Open(n + 2)' <=> i \in Open(n)
      BY <2>1, <2>2 DEF Open
    <3>2. n + 1 \in Open(n + 2)' /\ n + 2 \notin Open(n + 2)'
      BY <2>2, <2>3, <1>7, <1>8 DEF Open
    <3>3. Open(n + 2)' \subseteq 1 .. n + 2 /\ Open(n) \subseteq 1 .. n
      BY DEF Open
    <3> QED BY <3>1, <3>2, <3>3, <2>2
  <2>5. NotNormal(n + 2)' = NotNormal(n) \cup {n + 1}
    BY <2>1, <2>2, <2>3, <1>7, <1>8 DEF NotNormal
  <2>6. Handles(error_jump, error_jump_set, Here)'
    <3>1. \A i \in Open(n) : i <= n + 1
      BY DEF Open
    <3> QED BY <3>1, <2>4, <1>8, <1>9 DEF Handles
  <2>7. Counts(exceptionHandlerDepth, Here)'
    <3>1. n + 1 \notin NotNormal(n)
      BY <2>2 DEF NotNormal
    <3>2. IsFiniteSet(NotNormal(n)) /\ Cardinality(NotNormal(n)) \in Nat
      BY CountsFinite, FS_CardinalityType
    <3>3. Cardinality(NotNormal(n + 2)') = Cardinality(NotNormal(n)) + 1
      BY <3>1, <3>2, <2>5, FS_AddElement
    <3>4. Counts(exceptionHandlerDepth, n) /\ exceptionHandlerDepth \in Nat
      BY <1>1, <1>2 DEF Handling, Typed
    <3>5. /\ Here' = n + 2 /\ exceptionHandlerDepth' = exceptionHandlerDepth + 1
          /\ Complete' <=> Complete
      BY <2>1, <1>8, <1>9
    <3> QED BY <3>2, <3>3, <3>4, <3>5 DEF Counts
  <2>8. Saved(n + 1)'
    <3>1. PICK buf, set, h : buf = error_jump /\ set = error_jump_set /\ h = exceptionHandlerDepth
      OBVIOUS
    <3>2. Handles(buf, set, n)' /\ Counts(h, n)'
      BY <3>1, <2>1, <1>1, <1>2 DEF Handling
    <3>3. PICK m \in Nat : m = n + 1 /\ m - 1 = n
      OBVIOUS
    <3>4. Saved(m)'
      BY <3>1, <3>2, <3>3, <1>7, <1>8 DEF Saved
    <3> QED BY <3>3, <3>4
  <2>9. Saved(n + 2)'
    BY <2>3 DEF Saved
  <2> QED BY <2>1, <2>2, <2>6, <2>7, <2>8, <2>9, <1>8 DEF Handling
<1>16. Finallies'
  <2>1. \A m \in 1 .. n - 1 :
           /\ TryAt(m)' /\ UnwindAt(m)' /\ LeftBy(m)' = LeftBy(m)
           /\ IsTry(m)' = IsTry(m) /\ Unwinds(m)' = Unwinds(m)
           /\ \A x \in 0 .. StackSize : /\ (Waits(x) /\ OwedTo(x, m))' = (Waits(x) /\ OwedTo(x, m))
                                        /\ OwedTo(x, m) => x < calldepth
    <3>1. \A x \in 0 .. StackSize : x < Over(n) =>
            /\ finally_stack'[x] = finally_stack[x]
            /\ exceptionHandler_stack[x] \in 1 .. n \cup {DEAD}
               => exceptionHandler_stack'[x] = exceptionHandler_stack[x]
      BY <1>1, <1>2, <1>11
    <3> QED BY <3>1, <1>1, <1>2, <1>8, <1>9, FinalliesKept
  <2>2. /\ \A m \in 1 .. n + 2 : m \in 1 .. n - 1 \/ m = n \/ m = n + 1 \/ m = n + 2
        /\ \A m \in 1 .. n : m \in 1 .. n - 1 \/ m = n
        /\ \A m \in 1 .. n - 1 : m \in 1 .. n /\ m \in 1 .. n + 2
        /\ n + 1 \in 1 .. n + 2
    OBVIOUS
  <2>3. /\ ~ IsTry(n) /\ ~ Unwinds(n) /\ ~ IsTry(n)' /\ ~ Unwinds(n)'
        /\ IsTry(n + 1)' /\ ~ Unwinds(n + 1)' /\ ~ IsTry(n + 2)' /\ ~ Unwinds(n + 2)'
    <3>1. n \in 1 .. n
      OBVIOUS
    <3> QED BY <3>1, <1>1, <1>2, <1>6, <1>7, <1>8 DEF IsTry, Unwinds
  <2>4. /\ TryAt(n)' /\ UnwindAt(n)' /\ TryAt(n + 1)' /\ UnwindAt(n + 1)'
        /\ TryAt(n + 2)' /\ UnwindAt(n + 2)'
    BY <2>3, <1>3, <1>4, <1>7, <1>8, <1>11 DEF TryAt, UnwindAt, Waits
  <2>5. \A x \in 0 .. StackSize : Waits(x)' => Belongs(x)'
    <3>1. TAKE x \in 0 .. StackSize
    <3>2. CASE x = calldepth
      BY <3>2, <2>2, <2>3, <1>7, <1>8 DEF Belongs
    <3>3. CASE x # calldepth /\ Waits(x)
      <4>1. PICK m \in 1 .. n : \/ IsTry(m) /\ cstack[m].start = x
                                \/ Unwinds(m) /\ x \in LeftBy(m)
        BY <3>3, <1>1, <1>2 DEF Finallies, Belongs
      <4>2. m \in 1 .. n - 1 /\ m \in 1 .. n /\ m \in 1 .. n + 2
        BY <4>1, <2>2, <2>3
      <4>3. cstack'[m] = cstack[m]
        BY <4>2, <1>8
      <4> QED BY <4>1, <4>2, <4>3, <2>1, <1>8 DEF Belongs
    <3> QED BY <3>2, <3>3, <1>11 DEF Waits
  <2>6. \A x \in 0 .. StackSize : /\ OwedTo(x, n + 1)' <=> x = calldepth
                                  /\ ~ OwedTo(x, n + 2)' /\ ~ OwedTo(x, n) /\ ~ OwedTo(x, n)'
    BY <2>3, <1>7, <1>8 DEF OwedTo
  <2>7. \A x \in 0 .. StackSize :
           /\ x = calldepth => Waits(x)'
           /\ x # calldepth => Waits(x)' = Waits(x)
    BY <1>4, <1>11 DEF Waits
  <2>8. Owing' = Owing \cup {calldepth} /\ calldepth \notin Owing
    <3>1. \A x \in 0 .. StackSize :
            (Waits(x) /\ \E m \in 1 .. Here : OwedTo(x, m))'
            <=> (x = calldepth \/ (Waits(x) /\ \E m \in 1 .. Here : OwedTo(x, m)))
      <4>1. TAKE x \in 0 .. StackSize
      <4>2. CASE x = calldepth
        BY <4>2, <2>2, <2>6, <2>7, <1>8
      <4>3. CASE x # calldepth
        <5>1. Waits(x)' = Waits(x) /\ ~ OwedTo(x, n + 1)'
          BY <4>3, <2>6, <2>7
        <5>2. \A m \in 1 .. n - 1 : Waits(x) => (OwedTo(x, m)' <=> OwedTo(x, m))
          BY <5>1, <2>1
        <5> QED BY <4>3, <5>1, <5>2, <2>2, <2>6, <1>2, <1>8
      <4> QED BY <4>2, <4>3
    <3>2. \A m \in 1 .. Here : ~ OwedTo(calldepth, m)
      <4>1. \A m \in 1 .. n - 1 : ~ OwedTo(calldepth, m)
        BY <2>1, <1>1, <1>11
      <4> QED BY <4>1, <2>2, <2>6, <1>2, <1>11
    <3> QED BY <3>1, <3>2, <1>11 DEF Owing
  <2>9. owed' = Cardinality(Owing')
    BY <2>8, <1>1, <1>9, OwingFinite, FS_AddElement DEF Finallies
  <2> QED BY <2>1, <2>2, <2>4, <2>5, <2>9, <1>8 DEF Finallies
<1> QED BY <1>1, <1>2, <1>8, <1>9, <1>12, <1>13, <1>14, <1>15, <1>16 DEF IInv, Complete

\* tryCatch, at n, starts its finally block.
LEMMA StartFinallyStep ==
  ASSUME IInv, status = "running", NEW n \in 1 .. Here, n >= Here - 1,
         IsTry(n), cstack[n].phase \in {"body", "cases"},
         n < Here => ~ IsTry(Here) /\ ~ Unwinds(Here),
         NEW phase \in {"normal", "caught", "uncaught"}, StartFinally(n, phase),
         Lowered = cstack[n].start, n < program.frames,
         phase = "uncaught" => Guarded(n - 1),
         error_jump' \in Buffer, error_jump_set' \in BOOLEAN, exceptionHandlerDepth' \in Nat,
         Handles(error_jump', error_jump_set', n - 1),
         Counts(exceptionHandlerDepth', IF phase = "normal" THEN n - 1 ELSE n)
  PROVE  IInv'
<1>1. /\ Typed /\ Layout /\ Returning(Here) /\ Handling /\ Finallies /\ Piled(Here)
      /\ Here \in Nat \ {0} /\ Here \in 1 .. Here /\ n \in Nat \ {0} /\ program.frames \in Nat
  BY PileType, FramesBound DEF IInv, Layout
<1>2. n # 1 /\ n \in 2 .. Here /\ n - 1 \in Nat /\ n - 1 \in 0 .. Here
  <2>1. n # 1
    BY <1>1 DEF Piled, IsTry
  <2> QED BY <2>1, <1>1
<1>3. /\ cstack[n] \in Frame /\ Over(n) = cstack[n].start /\ cstack[n].start \in Nat
      /\ cstack[n].start + 3 < StackSize /\ Waits(cstack[n].start) /\ StackSize \in Nat
      /\ exceptionHandler_stack[cstack[n].start] = n
      /\ cstack[n].start \in 0 .. StackSize
  <2>1. cstack[n] \in Frame /\ Over(n) = cstack[n].start /\ cstack[n].start \in Nat
    BY <1>1, Levels
  <2>2. TryAt(n)
    BY <1>1 DEF Finallies
  <2> QED BY <2>1, <2>2, StackAssumption DEF TryAt
<1>4. PICK b \in AnyBlock : b = cstack[n].block /\ b # NoBlock /\ b.home \in 1 .. n - 1
  BY <1>1, <1>2, <1>3 DEF Returning, BlocksAt, BlockOK, IsTry, Frame
<1>5. PICK f \in Frame :
        /\ f = [NewFrame("finally", b, NoBlock) EXCEPT !.start = Lowered]
        /\ f.kind = "finally" /\ f.start = cstack[n].start /\ f.block = b /\ f.arg = NoBlock
        /\ f.phase = "run"
  <2>1. PICK g \in Frame : /\ g = NewFrame("finally", b, NoBlock) /\ g.kind = "finally"
                           /\ g.block = b /\ g.arg = NoBlock /\ g.phase = "run"
    BY <1>1, NewFrameType DEF Kind, AnyBlock
  <2>2. [g EXCEPT !.start = Lowered] \in Frame
    BY <1>3 DEF Frame
  <2> QED BY <2>1, <2>2 DEF Frame
<1>6. phase \in Phase \ {"run", "unwind", "body", "cases"}
  BY DEF Phase
<1>7. /\ cstack' \in Seq(Frame) /\ Here' = n + 1 /\ Kept(n)
      /\ cstack'[n].phase = phase /\ cstack'[n + 1] = f
      /\ \A i \in 1 .. n - 1 : cstack'[i] = cstack[i]
      /\ Same(cstack'[n], cstack[n])
  <2>1. cstack' = Append(CutTo(n, phase), f)
    BY <1>4, <1>5 DEF StartFinally, CutTo
  <2> QED BY <2>1, <1>1, <1>6, CutAppendKeeps DEF Kept
<1>8. /\ calldepth' = cstack[n].start + 2 /\ owed' = owed - 1
      /\ finally_stack' = finally_stack /\ status' = status /\ program' = program
      /\ return_stack' = BlockSlots(CutAll(return_stack, n), cstack[n].start, b)
      /\ exceptionHandler_stack' = CutAll(exceptionHandler_stack, n)
  BY <1>4, Heights DEF StartFinally
<1>9. /\ return_stack' \in [-1 .. StackSize -> Buffer]
      /\ \A x \in 0 .. cstack[n].start - 1 :
           return_stack[x] \in 1 .. n => return_stack'[x] = return_stack[x]
  <2>1. return_stack \in [-1 .. StackSize -> Buffer] /\ -1 \in Int /\ n \in Nat
    BY <1>1 DEF Typed
  <2>2. PICK stk \in [-1 .. StackSize -> Buffer] :
          /\ stk = CutAll(return_stack, n)
          /\ \A x \in -1 .. StackSize : return_stack[x] \in 1 .. n => stk[x] = return_stack[x]
    BY <2>1, CutAllKeeps
  <2>3. PICK d \in Nat : d = cstack[n].start /\ d + 1 <= StackSize
    BY <1>3
  <2>4. /\ BlockSlots(stk, d, b) \in [-1 .. StackSize -> Buffer]
        /\ \A x \in -1 .. StackSize : x \notin {d, d + 1} => BlockSlots(stk, d, b)[x] = stk[x]
    BY <2>3, BlockSlotsOK
  <2>5. \A x \in 0 .. d - 1 : x \in -1 .. StackSize /\ x \notin {d, d + 1}
    BY <2>3, StackAssumption
  <2>6. return_stack' = BlockSlots(stk, d, b)
    BY <2>2, <2>3, <1>8
  <2>7. \A x \in 0 .. d - 1 : return_stack[x] \in 1 .. n => BlockSlots(stk, d, b)[x] = return_stack[x]
    BY <2>2, <2>4, <2>5
  <2> QED BY <2>3, <2>4, <2>6, <2>7
<1>10. /\ exceptionHandler_stack' \in [0 .. StackSize -> Buffer]
       /\ \A x \in 0 .. StackSize :
            exceptionHandler_stack[x] \in 1 .. n \cup {DEAD}
            => exceptionHandler_stack'[x] = exceptionHandler_stack[x]
  <2>1. exceptionHandler_stack \in [0 .. StackSize -> Buffer] /\ 0 \in Int /\ n \in Nat
    BY <1>1 DEF Typed
  <2> QED BY <2>1, <1>8, CutAllKeeps
<1>11. Layout'
  <2>1. Piled(n)' /\ Over(n)' = cstack[n].start
    <3>1. PhaseOK(n)'
      BY <1>6, <1>7 DEF PhaseOK, Same, IsTry
    <3>2. n \in 1 .. n
      BY <1>1
    <3> QED BY <3>1, <3>2, <1>1, <1>3, <1>7, PiledKept, KeptFacts
  <2>2. PhaseOK(n + 1)' /\ StandsOn(n + 1, n)' /\ Over(n + 1)' = calldepth'
    <3>1. PhaseOK(n + 1)' /\ Over(n + 1)' = calldepth'
      BY <1>5, <1>7, <1>8, Heights DEF PhaseOK, Over, Code
    <3>2. StandsOn(n + 1, n)'
      BY <1>5, <1>7 DEF StandsOn, Same
    <3> QED BY <3>1, <3>2
  <2>3. Over(n)' <= cstack'[n + 1].start /\ Here' \in Nat /\ n + 1 <= Here'
    <3>1. Here' \in Nat /\ n + 1 <= Here'
      BY <1>1, <1>7
    <3> QED BY <3>1, <2>1, <1>3, <1>5, <1>7
  <2>4. Piled(n + 1)'
    BY <2>1, <2>2, <2>3, <1>1, <1>7, PiledOn
  <2>5. AtTop'
    BY <2>2, <1>5, <1>7 DEF AtTop, Top
  <2> QED BY <2>4, <2>5, <1>1, <1>7, <1>8 DEF Layout
<1>12. Returning(n + 1)'
  <2>1. Returning(n)'
    <3>1. PICK d \in Nat : d = cstack[n].start /\ Over(n) <= d
      BY <1>3
    <3>2. \A x \in 0 .. d - 1 : return_stack[x] \in 1 .. n => return_stack'[x] = return_stack[x]
      BY <3>1, <1>9
    <3> QED BY <3>1, <3>2, <1>1, <1>7, ReturningKept
  <2>2. ~ None({"finally"}, b.home, n + 1)' /\ ~ None({"finally", "typedcase"}, b.home, n + 1)'
    <3>1. n + 1 \in b.home + 1 .. n + 1
      BY <1>1, <1>4
    <3> QED BY <3>1, <1>5, <1>7 DEF None
  <2>3. BlockOK(b, n + 1)'
    BY <2>2, <1>1, <1>4 DEF BlockOK
  <2>4. BlocksAt(n + 1)'
    BY <2>3, <1>4, <1>5, <1>7 DEF BlocksAt
  <2>5. SlotAt(n + 1)'
    <3>1. HomeAt(n + 1)' = b.home
      BY <1>5, <1>7 DEF HomeAt
    <3> QED BY <3>1, <2>2 DEF SlotAt
  <2>6. \A i \in 2 .. n + 1 : i \in 2 .. n \/ i = n + 1
    BY <1>1
  <2> QED BY <2>1, <2>4, <2>5, <2>6 DEF Returning
<1>13. PICK p \in 0 .. Here : p = n - 1
  BY <1>2
<1>14. /\ \A i \in 1 .. n + 1 : i \in 1 .. p \/ i = n \/ i = n + 1
       /\ \A i \in 1 .. n : i \in 1 .. p \/ i = n
       /\ \A i \in 1 .. p : i \in 1 .. n /\ i \in 1 .. n + 1 /\ i \in 1 .. Here
       /\ n \in 1 .. n + 1 /\ n \notin 1 .. p /\ n + 1 \notin 1 .. p /\ n \in 1 .. n /\ n + 1 \in 1 .. n + 1
  BY <1>1, <1>13
<1>15. /\ IsTry(n)' /\ ~ IsTry(n + 1)' /\ ~ Unwinds(n)' /\ ~ Unwinds(n + 1)' /\ ~ Unwinds(n)
  BY <1>5, <1>6, <1>7 DEF IsTry, Unwinds, Same
<1>16. Handling'
  <2>1. /\ Open(p)' = Open(p) /\ NotNormal(p)' = NotNormal(p) /\ Complete' = Complete
        /\ Guarded(p)' = Guarded(p)
        /\ \A buf, set : Handles(buf, set, p)' = Handles(buf, set, p)
        /\ \A h : Counts(h, p)' = Counts(h, p)
        /\ \A i \in 1 .. p : Saved(i)'
    <3>1. (\A i \in 1 .. p : cstack'[i] = cstack[i]) /\ p \in 0 .. p
      BY <1>7, <1>13
    <3> QED BY <3>1, <1>1, <1>8, <1>14, TriesKept DEF Handling
  <2>2. Open(n + 1)' = Open(p)
    <3>1. \A i \in 1 .. p : i \in Open(n + 1)' <=> i \in Open(p)
      BY <2>1, <1>14 DEF Open
    <3>2. n \notin Open(n + 1)' /\ n + 1 \notin Open(n + 1)'
      BY <1>6, <1>7, <1>15 DEF Open
    <3>3. Open(n + 1)' \subseteq 1 .. n + 1 /\ Open(p) \subseteq 1 .. p
      BY DEF Open
    <3> QED BY <3>1, <3>2, <3>3, <1>14
  <2>3. Handles(error_jump, error_jump_set, Here)'
    BY <2>1, <2>2, <1>7, <1>13 DEF Handles
  <2>4. /\ \A i \in 1 .. p : i \in NotNormal(n + 1)' <=> i \in NotNormal(p)
        /\ NotNormal(n + 1)' \subseteq 1 .. n + 1 /\ NotNormal(p) \subseteq 1 .. p
        /\ NotNormal(n) \subseteq 1 .. n
        /\ \A i \in 1 .. p : i \in NotNormal(n) <=> i \in NotNormal(p)
        /\ n + 1 \notin NotNormal(n + 1)' /\ n \in NotNormal(n)
        /\ n \in NotNormal(n + 1)' <=> phase # "normal"
    BY <2>1, <1>7, <1>14, <1>15 DEF NotNormal
  <2>5. NotNormal(n + 1)' = NotNormal(IF phase = "normal" THEN n - 1 ELSE n)
    <3>1. CASE phase = "normal"
      <4>1. NotNormal(n + 1)' = NotNormal(p)
        BY <3>1, <2>4, <1>14
      <4> QED BY <4>1, <3>1, <1>13
    <3>2. CASE phase # "normal"
      <4>1. NotNormal(n + 1)' = NotNormal(n)
        <5>1. \A i \in 1 .. p : i \in NotNormal(n + 1)' <=> i \in NotNormal(n)
          BY <2>4
        <5>2. n \in NotNormal(n + 1)' /\ n \in NotNormal(n)
          BY <3>2, <2>4
        <5>3. n + 1 \notin NotNormal(n)
          BY <2>4, <1>1
        <5>4. \A i \in 1 .. n + 1 : i \in NotNormal(n + 1)' <=> i \in NotNormal(n)
          BY <5>1, <5>2, <5>3, <2>4, <1>14
        <5>5. NotNormal(n) \subseteq 1 .. n + 1
          BY <2>4, <1>1
        <5>6. NotNormal(n + 1)' \subseteq 1 .. n + 1
          BY <2>4
        <5> QED BY <5>4, <5>5, <5>6
      <4> QED BY <4>1, <3>2
    <3> QED BY <3>1, <3>2
  <2>6. Counts(exceptionHandlerDepth, Here)'
    BY <2>1, <2>5, <1>7 DEF Counts
  <2>7. Saved(n)'
    <3>1. Handles(cstack[n].oldjump, cstack[n].oldset, p) /\ Counts(cstack[n].oldhandlers, p)
      BY <1>1, <1>13 DEF Handling, Saved
    <3>2. Guarded(p)' \/ phase # "uncaught"
      BY <2>1, <1>13
    <3>3. /\ cstack'[n].oldjump = cstack[n].oldjump /\ cstack'[n].oldset = cstack[n].oldset
          /\ cstack'[n].oldhandlers = cstack[n].oldhandlers
      BY <1>7 DEF Same
    <3>4. PICK buf, set, h : /\ buf = cstack[n].oldjump /\ set = cstack[n].oldset
                             /\ h = cstack[n].oldhandlers
      OBVIOUS
    <3>5. Handles(buf, set, p)' /\ Counts(h, p)'
      BY <3>1, <3>4, <2>1
    <3> QED BY <3>2, <3>3, <3>4, <3>5, <1>7, <1>13 DEF Saved
  <2>8. Saved(n + 1)'
    BY <1>15 DEF Saved
  <2> QED BY <2>1, <2>3, <2>6, <2>7, <2>8, <1>7, <1>14 DEF Handling
<1>17. \A m \in 1 .. p :
         /\ TryAt(m)' /\ UnwindAt(m)' /\ LeftBy(m)' = LeftBy(m)
         /\ IsTry(m)' = IsTry(m) /\ Unwinds(m)' = Unwinds(m)
         /\ \A x \in 0 .. StackSize : /\ Waits(x) => (OwedTo(x, m)' <=> OwedTo(x, m))
                                      /\ OwedTo(x, m) => x < cstack[n].start
  <2>1. \A x \in 0 .. StackSize : x < Over(n) =>
          /\ finally_stack'[x] = finally_stack[x]
          /\ exceptionHandler_stack[x] \in 1 .. n \cup {DEAD}
             => exceptionHandler_stack'[x] = exceptionHandler_stack[x]
    BY <1>8, <1>10
  <2>2. \A m \in 1 .. n - 1 :
           /\ TryAt(m)' /\ UnwindAt(m)' /\ LeftBy(m)' = LeftBy(m)
           /\ IsTry(m)' = IsTry(m) /\ Unwinds(m)' = Unwinds(m)
           /\ \A x \in 0 .. StackSize : /\ (Waits(x) /\ OwedTo(x, m))' = (Waits(x) /\ OwedTo(x, m))
                                        /\ OwedTo(x, m) => x < Over(n)
    BY <2>1, <1>1, <1>7, <1>8, FinalliesKept
  <2>3. \A x : Waits(x)' <=> Waits(x)
    BY <1>8 DEF Waits
  <2> QED BY <2>2, <2>3, <1>3, <1>13
<1>18. \A x : Waits(x)' <=> Waits(x)
  BY <1>8 DEF Waits
<1>19. \A m \in 1 .. Here : m \in 1 .. p \/ m = n \/ (~ IsTry(m) /\ ~ Unwinds(m))
  <2>1. \A m \in 1 .. Here : m \in 1 .. p \/ m = n \/ (m = Here /\ n < Here)
    BY <1>1, <1>13
  <2> QED BY <2>1
<1>20. /\ \A x \in 0 .. StackSize, m \in 1 .. Here : m \notin 1 .. p /\ m # n => ~ OwedTo(x, m)
       /\ \A x \in 0 .. StackSize : /\ OwedTo(x, n) <=> x = cstack[n].start
                                    /\ ~ OwedTo(x, n)' /\ ~ OwedTo(x, n + 1)'
  BY <1>6, <1>7, <1>15, <1>19 DEF OwedTo
<1>21. Owing' = Owing \ {cstack[n].start} /\ cstack[n].start \in Owing
  <2>1. \A x \in 0 .. StackSize :
          (Waits(x) /\ \E m \in 1 .. Here : OwedTo(x, m))'
          <=> (x # cstack[n].start /\ Waits(x) /\ \E m \in 1 .. Here : OwedTo(x, m))
    <3>1. TAKE x \in 0 .. StackSize
    <3>2. (\E m \in 1 .. Here : OwedTo(x, m))' <=> \E m \in 1 .. p : OwedTo(x, m)'
      BY <1>7, <1>14, <1>20
    <3>3. (\E m \in 1 .. Here : OwedTo(x, m))
          <=> (x = cstack[n].start \/ \E m \in 1 .. p : OwedTo(x, m))
      BY <1>14, <1>20
    <3>4. (\E m \in 1 .. p : OwedTo(x, m)) => x # cstack[n].start
      <4>1. \A m \in 1 .. p : OwedTo(x, m) => x < cstack[n].start
        BY <3>1, <1>17
      <4> QED BY <4>1, <1>3
    <3>5. Waits(x) => ((\E m \in 1 .. p : OwedTo(x, m)') <=> \E m \in 1 .. p : OwedTo(x, m))
      BY <1>17
    <3> QED BY <3>2, <3>3, <3>4, <3>5, <1>18
  <2>2. cstack[n].start \in Owing
    BY <1>1, <1>3, <1>20 DEF Owing
  <2> QED BY <2>1, <2>2 DEF Owing
<1>22. owed' = Cardinality(Owing') /\ owed' \in Nat
  <2>1. owed' = Cardinality(Owing')
    <3>1. PICK x : x = cstack[n].start
      OBVIOUS
    <3>2. Cardinality(Owing \ {x}) = Cardinality(Owing) - 1
      BY <3>1, <1>21, OwingFinite, FS_RemoveElement
    <3> QED BY <3>1, <3>2, <1>1, <1>8, <1>21 DEF Finallies
  <2>2. IsFiniteSet(Owing')
    BY <1>21, OwingFinite, FS_RemoveElement
  <2> QED BY <2>1, <2>2, FS_CardinalityType
<1>23. Finallies'
  <2>1. TryAt(n)' /\ UnwindAt(n)' /\ TryAt(n + 1)' /\ UnwindAt(n + 1)'
    <3>1. /\ cstack'[n].start = cstack[n].start
          /\ exceptionHandler_stack'[cstack[n].start] = n
      BY <1>1, <1>3, <1>7, <1>10 DEF Same
    <3>2. TryAt(n)'
      BY <3>1, <1>3, <1>18 DEF TryAt
    <3> QED BY <3>2, <1>15 DEF TryAt, UnwindAt
  <2>2. \A x \in 0 .. StackSize : Waits(x)' => Belongs(x)'
    <3>1. TAKE x \in 0 .. StackSize
    <3>2. HAVE Waits(x)'
    <3>3. PICK m \in 1 .. Here : \/ IsTry(m) /\ cstack[m].start = x
                                 \/ Unwinds(m) /\ x \in LeftBy(m)
      BY <3>2, <1>1, <1>18 DEF Finallies, Belongs
    <3>4. CASE m = n
      BY <3>3, <3>4, <1>7, <1>14, <1>15 DEF Belongs, Same
    <3>5. CASE m \in 1 .. p
      <4>1. m \in 1 .. n + 1 /\ cstack'[m] = cstack[m]
        BY <3>5, <1>7, <1>13, <1>14
      <4> QED BY <4>1, <3>3, <3>5, <1>7, <1>17 DEF Belongs
    <3> QED BY <3>3, <3>4, <3>5, <1>19
  <2> QED BY <2>1, <2>2, <1>7, <1>14, <1>17, <1>22 DEF Finallies
<1>24. Typed'
  <2>1. calldepth' \in 0 .. StackSize - 1 /\ Here' >= 1
    <3>1. calldepth' \in 0 .. StackSize - 1
      BY <1>3, <1>8
    <3>2. Here' >= 1
      BY <1>1, <1>7
    <3> QED BY <3>1, <3>2
  <2>2. /\ finally_stack' \in [0 .. StackSize -> AnyBlock] /\ program' \in Programs
        /\ status' \in {"running", "exited", "undefined"}
    BY <1>1, <1>8 DEF Typed
  <2> QED BY <2>1, <2>2, <1>7, <1>9, <1>10, <1>22 DEF Typed
<1> QED BY <1>1, <1>7, <1>8, <1>11, <1>12, <1>16, <1>23, <1>24 DEF IInv, Complete

LEMMA BelowFacts ==
  ASSUME IInv, Running, Here > 1
  PROVE  /\ Below = cstack[Here - 1] /\ Here - 1 \in 1 .. Here /\ Here - 1 \in Nat
         /\ StandsOn(Here, Here - 1) /\ PhaseOK(Here - 1)
         /\ Lowered = cstack[Here].start /\ cstack[Here].start \in 0 .. StackSize - 1
         /\ Here - 1 < program.frames
<1>1. /\ Typed /\ Layout /\ Piled(Here) /\ Here \in 1 .. Here /\ Here \in Nat \ {0}
      /\ calldepth = Over(Here) /\ calldepth \in 0 .. StackSize - 1
  BY RunningFacts
<1>2. /\ cstack[Here].start \in Nat /\ cstack[Here].start <= Over(Here)
      /\ Over(Here) = cstack[Here].start + Height(cstack[Here].kind)
      /\ Height(cstack[Here].kind) \in 0 .. 3
      /\ cstack[Here] \in Frame
  <2>1. /\ cstack[Here].start \in Nat /\ cstack[Here].start <= Over(Here)
        /\ Over(Here) = cstack[Here].start + Height(cstack[Here].kind)
        /\ cstack[Here] \in Frame
    BY <1>1, Levels
  <2> QED BY <2>1, Heights DEF Frame
<1>3. Lowered = cstack[Here].start
  BY <1>1, <1>2 DEF Lowered, Top
<1>4. Here - 1 \in 1 .. Here /\ Here - 1 \in Nat /\ Here \in 2 .. Here
  BY <1>1
<1>5. StandsOn(Here, Here - 1) /\ PhaseOK(Here - 1)
  BY <1>1, <1>4 DEF Piled
<1>6. Here - 1 < program.frames
  BY <1>1, FramesBound DEF Layout
<1>7. cstack[Here].start \in 0 .. StackSize - 1
  BY <1>1, <1>2, StackAssumption
<1> QED BY <1>3, <1>4, <1>5, <1>6, <1>7 DEF Below

LEMMA TryBodyEndsStep ==
  ASSUME IInv, TryBodyEnds
  PROVE  IInv'
<1>1. Running /\ Here > 1 /\ Below.kind = "try" /\ Below.phase = "body"
  BY DEF TryBodyEnds
<1>2. PICK n \in 1 .. Here : n = Here - 1 /\ Below = cstack[n]
  BY <1>1, BelowFacts
<1>3. /\ Typed /\ Handling /\ status = "running" /\ ~ IsTry(Here) /\ ~ Unwinds(Here)
      /\ Here \in Nat
  BY <1>1, RunningFacts
<1>4. IsTry(n) /\ cstack[n].phase = "body" /\ n >= Here - 1 /\ cstack[n] \in Frame
  BY <1>1, <1>2, <1>3, PileType DEF IsTry
<1>5. Lowered = cstack[n].start /\ n < program.frames
  BY <1>1, <1>2, <1>4, BelowFacts DEF StandsOn, IsTry
<1>6. /\ error_jump' = cstack[n].oldjump /\ error_jump_set' = cstack[n].oldset
      /\ exceptionHandlerDepth' = cstack[n].oldhandlers
      /\ StartFinally(n, "normal")
  BY <1>2 DEF TryBodyEnds
<1>7. /\ error_jump' \in Buffer /\ error_jump_set' \in BOOLEAN /\ exceptionHandlerDepth' \in Nat
  BY <1>4, <1>6 DEF Frame
<1>8. /\ Handles(error_jump', error_jump_set', n - 1) /\ Counts(exceptionHandlerDepth', n - 1)
  BY <1>3, <1>4, <1>6 DEF Handling, Saved
<1> QED BY <1>3, <1>4, <1>5, <1>6, <1>7, <1>8, StartFinallyStep

\* In the handlers of an exception, the try itself protects nothing any more.
LEMMA HandlersOf ==
  ASSUME Typed, Handling, NEW n \in 1 .. Here, n >= Here - 1, IsTry(n), cstack[n].phase = "cases",
         n < Here => ~ IsTry(Here)
  PROVE  /\ Handles(error_jump, error_jump_set, n - 1) /\ Counts(exceptionHandlerDepth, n)
         /\ Open(Here) = Open(n - 1)
<1>1. Here \in Nat /\ n \in Nat /\ (n = Here \/ n = Here - 1) /\ n - 1 \in Nat
  BY PileType
<1>2. \A i \in 1 .. Here : i \in 1 .. n - 1 \/ i = n \/ (i = Here /\ n < Here)
  BY <1>1
<1>3. \A i \in 1 .. n - 1 : i \in 1 .. n /\ i \in 1 .. Here
  BY <1>1
<1>4. Open(Here) = Open(n - 1)
  BY <1>2, <1>3 DEF Open
<1>5. NotNormal(Here) = NotNormal(n)
  <2>1. \A i \in 1 .. Here : i \in 1 .. n \/ (i = Here /\ n < Here)
    BY <1>1
  <2>2. \A i \in 1 .. n : i \in 1 .. Here
    BY <1>1
  <2> QED BY <2>1, <2>2 DEF NotNormal
<1> QED BY <1>4, <1>5 DEF Handling, Handles, Counts

LEMMA CaseEndsStep ==
  ASSUME IInv, CaseEnds
  PROVE  IInv'
<1>1. Running /\ Here > 1 /\ Below.kind = "try" /\ Below.phase = "cases"
  BY DEF CaseEnds
<1>2. PICK n \in 1 .. Here : n = Here - 1 /\ Below = cstack[n]
  BY <1>1, BelowFacts
<1>3. /\ Typed /\ Handling /\ status = "running" /\ ~ IsTry(Here) /\ ~ Unwinds(Here)
      /\ Here \in Nat
  BY <1>1, RunningFacts
<1>4. IsTry(n) /\ cstack[n].phase = "cases" /\ n >= Here - 1
  BY <1>1, <1>2, <1>3 DEF IsTry
<1>5. Lowered = cstack[n].start /\ n < program.frames
  BY <1>1, <1>2, <1>4, BelowFacts DEF StandsOn, IsTry
<1>6. /\ UNCHANGED <<error_jump, error_jump_set, exceptionHandlerDepth>>
      /\ StartFinally(n, "caught")
  BY <1>2 DEF CaseEnds
<1>7. /\ error_jump' \in Buffer /\ error_jump_set' \in BOOLEAN /\ exceptionHandlerDepth' \in Nat
  BY <1>3, <1>6 DEF Typed
<1>8. /\ Handles(error_jump', error_jump_set', n - 1) /\ Counts(exceptionHandlerDepth', n)
  BY <1>3, <1>4, <1>6, HandlersOf
<1> QED BY <1>3, <1>4, <1>5, <1>6, <1>7, <1>8, StartFinallyStep

LEMMA NoCaseMatchesStep ==
  ASSUME OrdinaryPrograms, IInv, NoCaseMatches
  PROVE  IInv'
<1>1. /\ Typed /\ Layout /\ Piled(Here) /\ AtTop /\ Handling /\ status = "running"
      /\ Here \in 1 .. Here /\ Here \in Nat /\ Top = cstack[Here]
      /\ IsTry(Here) /\ cstack[Here].phase = "cases" /\ MayRaise
  BY PileType DEF IInv, NoCaseMatches, IsTry, Top, Layout
<1>2. PICK n \in 1 .. Here : n = Here
  BY <1>1
<1>3. n < program.frames /\ Lowered = cstack[n].start
  <2>1. calldepth = cstack[n].start /\ n < program.frames
    BY <1>1, <1>2 DEF AtTop
  <2> QED BY <2>1, <1>1, <1>2, Heights DEF Lowered, IsTry, Typed
<1>4. /\ UNCHANGED <<error_jump, error_jump_set, exceptionHandlerDepth>>
      /\ StartFinally(n, "uncaught")
  BY <1>2 DEF NoCaseMatches
<1>5. /\ error_jump' \in Buffer /\ error_jump_set' \in BOOLEAN /\ exceptionHandlerDepth' \in Nat
  BY <1>1, <1>4 DEF Typed
<1>6. /\ Handles(error_jump', error_jump_set', n - 1) /\ Counts(exceptionHandlerDepth', n)
      /\ Open(Here) = Open(n - 1)
  BY <1>1, <1>2, <1>4, HandlersOf
<1>7. Guarded(n - 1)
  <2>1. Guarded(n)
    BY <1>1, <1>2, OrdinaryRaises
  <2>2. \A i \in 1 .. n - 1 : i \in 1 .. n
    BY <1>1
  <2> QED BY <2>1, <2>2, <1>2, <1>6 DEF Guarded
<1> QED BY <1>1, <1>2, <1>3, <1>4, <1>5, <1>6, <1>7, StartFinallyStep

----------------------------------------------------------------------------
(* Calls that return.                                                       *)
LEMMA PopStep ==
  ASSUME IInv, status = "running", NEW n \in 1 .. Here, n < Here, cstack[n].phase = "run",
         Pop(n), calldepth' = Over(n),
         exceptionHandler_stack' = CutAll(exceptionHandler_stack, n),
         finally_stack' \in [0 .. StackSize -> AnyBlock],
         \A x \in 0 .. StackSize :
           /\ x < Over(n) => finally_stack'[x] = finally_stack[x]
           /\ Waits(x)' => Waits(x) /\ \E m \in 1 .. n : \/ IsTry(m) /\ cstack[m].start = x
                                                         \/ Unwinds(m) /\ x \in LeftBy(m),
         exceptionHandlerDepth' \in Nat, Counts(exceptionHandlerDepth', n),
         Handles(error_jump, error_jump_set, n),
         owed = Cardinality({x \in 0 .. StackSize : Waits(x) /\ \E m \in 1 .. n : OwedTo(x, m)}),
         UNCHANGED <<error_jump, error_jump_set, status, owed, program>>
  PROVE  IInv'
<1>1. /\ Typed /\ Layout /\ Returning(Here) /\ Handling /\ Finallies /\ Piled(Here)
      /\ Here \in Nat \ {0} /\ n \in Nat \ {0}
      /\ Complete => status # "undefined"
  BY PileType DEF IInv, Layout
<1>2. /\ cstack' \in Seq(Frame) /\ Here' = n /\ Kept(n)
      /\ \A i \in 1 .. n : cstack'[i] = cstack[i]
  <2>1. cstack' = SubSeq(cstack, 1, n)
    BY DEF Pop
  <2>2. cstack' \in Seq(Frame) /\ Here' = n /\ Kept(n) /\ cstack'[n] = cstack[n]
    BY <2>1, <1>1, PopKeeps
  <2>3. \A i \in 1 .. n : i \in 1 .. n - 1 \/ i = n
    BY <1>1
  <2> QED BY <2>2, <2>3 DEF Kept
<1>3. /\ Over(n) \in Nat /\ Over(n) <= calldepth /\ calldepth < StackSize /\ calldepth \in Nat
      /\ StackSize \in Nat /\ n < program.frames /\ program.frames \in Nat
      /\ ~ IsTry(n) /\ ~ Unwinds(n)
  <2>1. Over(n) \in Nat /\ Over(n) <= calldepth /\ calldepth < StackSize /\ calldepth \in Nat
    BY <1>1, LevelsInStack
  <2>2. PhaseOK(n)
    BY <1>1 DEF Piled
  <2>3. n < program.frames /\ program.frames \in Nat
    BY <1>1, FramesBound DEF Layout
  <2> QED BY <2>1, <2>2, <2>3, StackAssumption DEF PhaseOK, IsTry, Unwinds, Code, Phase
<1>4. /\ return_stack' \in [-1 .. StackSize -> Buffer]
      /\ \A x \in -1 .. StackSize : return_stack[x] \in 1 .. n => return_stack'[x] = return_stack[x]
  <2>1. return_stack \in [-1 .. StackSize -> Buffer] /\ -1 \in Int /\ n \in Nat
    BY <1>1 DEF Typed
  <2> QED BY <2>1, CutAllKeeps DEF Pop
<1>5. /\ exceptionHandler_stack' \in [0 .. StackSize -> Buffer]
      /\ \A x \in 0 .. StackSize :
           exceptionHandler_stack[x] \in 1 .. n \cup {DEAD}
           => exceptionHandler_stack'[x] = exceptionHandler_stack[x]
  <2>1. exceptionHandler_stack \in [0 .. StackSize -> Buffer] /\ 0 \in Int /\ n \in Nat
    BY <1>1 DEF Typed
  <2> QED BY <2>1, CutAllKeeps
<1>6. Typed'
  <2>1. calldepth' \in 0 .. StackSize - 1 /\ Here' >= 1
    BY <1>1, <1>2, <1>3
  <2> QED BY <2>1, <1>1, <1>2, <1>4, <1>5 DEF Typed
<1>7. Layout'
  <2>1. PhaseOK(n)' /\ n \in 1 .. n
    <3>1. n \in 1 .. n /\ PhaseOK(n)
      BY <1>1, Levels
    <3> QED BY <3>1, <1>2 DEF PhaseOK
  <2>2. Piled(n)' /\ Over(n)' = Over(n)
    BY <2>1, <1>1, <1>2, PiledKept, KeptFacts
  <2>3. AtTop'
    BY <2>1, <2>2, <1>2 DEF AtTop, Top
  <2> QED BY <2>2, <2>3, <1>2, <1>3 DEF Layout
<1>8. Returning(n)'
  <2>1. PICK d \in Nat : d = Over(n) /\ Over(n) <= d
    BY <1>3
  <2>2. \A x \in 0 .. d - 1 : return_stack[x] \in 1 .. n => return_stack'[x] = return_stack[x]
    BY <2>1, <1>3, <1>4
  <2> QED BY <2>1, <2>2, <1>1, <1>2, ReturningKept
<1>9. Handling'
  <2>1. /\ Open(n)' = Open(n) /\ NotNormal(n)' = NotNormal(n) /\ Complete' = Complete
        /\ \A i \in 1 .. n : Saved(i)'
    <3>1. n \in 0 .. Here /\ n \in 0 .. n /\ \A i \in 1 .. n : i \in 1 .. Here
      BY <1>1
    <3> QED BY <3>1, <1>1, <1>2, TriesKept DEF Handling
  <2> QED BY <2>1, <1>2 DEF Handling, Handles, Counts
<1>10. Finallies'
  <2>1. \A m \in 1 .. n - 1 :
           /\ TryAt(m)' /\ UnwindAt(m)' /\ LeftBy(m)' = LeftBy(m)
           /\ IsTry(m)' = IsTry(m) /\ Unwinds(m)' = Unwinds(m)
           /\ \A x \in 0 .. StackSize : (Waits(x) /\ OwedTo(x, m))' = (Waits(x) /\ OwedTo(x, m))
    <3>1. \A x \in 0 .. StackSize : x < Over(n) =>
            /\ finally_stack'[x] = finally_stack[x]
            /\ exceptionHandler_stack[x] \in 1 .. n \cup {DEAD}
               => exceptionHandler_stack'[x] = exceptionHandler_stack[x]
      BY <1>5
    <3> QED BY <3>1, <1>1, <1>2, FinalliesKept
  <2>2. /\ \A m \in 1 .. n : m \in 1 .. n - 1 \/ m = n
        /\ \A m \in 1 .. n - 1 : m \in 1 .. n
        /\ n \in 1 .. n
    BY <1>1
  <2>3. ~ IsTry(n)' /\ ~ Unwinds(n)'
    BY <2>2, <1>2, <1>3 DEF IsTry, Unwinds
  <2>4. TryAt(n)' /\ UnwindAt(n)' /\ \A x \in 0 .. StackSize : ~ OwedTo(x, n) /\ ~ OwedTo(x, n)'
    BY <2>3, <1>3 DEF TryAt, UnwindAt, OwedTo
  <2>5. \A x \in 0 .. StackSize : Waits(x)' => Belongs(x)'
    <3>1. TAKE x \in 0 .. StackSize
    <3>2. HAVE Waits(x)'
    <3>3. PICK m \in 1 .. n : \/ IsTry(m) /\ cstack[m].start = x
                              \/ Unwinds(m) /\ x \in LeftBy(m)
      BY <3>2
    <3>4. m \in 1 .. n - 1 /\ m \in 1 .. n
      BY <3>3, <2>2, <1>3
    <3> QED BY <3>3, <3>4, <2>1, <1>2 DEF Belongs
  <2>6. Owing' = {x \in 0 .. StackSize : Waits(x) /\ \E m \in 1 .. n : OwedTo(x, m)}
    <3>1. \A x \in 0 .. StackSize, m \in 1 .. n :
            (Waits(x) /\ OwedTo(x, m))' <=> (Waits(x) /\ OwedTo(x, m))
      BY <2>1, <2>2, <2>4
    <3>2. \A x \in 0 .. StackSize :
            (Waits(x) /\ \E m \in 1 .. Here : OwedTo(x, m))'
            <=> (Waits(x) /\ \E m \in 1 .. n : OwedTo(x, m))
      BY <3>1, <1>2
    <3> QED BY <3>2 DEF Owing
  <2> QED BY <2>1, <2>2, <2>4, <2>5, <2>6, <1>2 DEF Finallies
<1> QED BY <1>1, <1>2, <1>6, <1>7, <1>8, <1>9, <1>10 DEF IInv, Complete

LEMMA ReturnNormallyStep ==
  ASSUME IInv, ReturnNormally
  PROVE  IInv'
<1>1. /\ Running /\ Here > 1 /\ Below.kind \in Code /\ Below.phase = "run" /\ Pop(Here - 1)
      /\ calldepth' = Lowered
      /\ exceptionHandler_stack' = CutAll(exceptionHandler_stack, Here - 1)
      /\ UNCHANGED <<finally_stack, error_jump, error_jump_set, exceptionHandlerDepth,
                     status, owed, program>>
  BY DEF ReturnNormally
<1>2. /\ Typed /\ Handling /\ Finallies /\ status = "running" /\ Here \in Nat
      /\ ~ IsTry(Here) /\ ~ Unwinds(Here)
  BY <1>1, RunningFacts
<1>3. PICK n \in 1 .. Here : n = Here - 1 /\ Below = cstack[n] /\ n < Here
  BY <1>1, <1>2, BelowFacts
<1>4. cstack[n].phase = "run" /\ calldepth' = Over(n)
  <2>1. StandsOn(Here, n) /\ Lowered = cstack[Here].start
    BY <1>1, <1>3, BelowFacts
  <2> QED BY <2>1, <1>1, <1>3 DEF StandsOn
<1>5. \A m \in 1 .. Here : m \in 1 .. n \/ m = Here
  BY <1>2, <1>3
<1>6. \A m \in 1 .. n : m \in 1 .. Here
  BY <1>2, <1>3
<1>7. Open(Here) = Open(n) /\ NotNormal(Here) = NotNormal(n)
  BY <1>2, <1>5, <1>6 DEF Open, NotNormal
<1>8. \A x \in 0 .. StackSize :
         Waits(x)' => Waits(x) /\ \E m \in 1 .. n : \/ IsTry(m) /\ cstack[m].start = x
                                                    \/ Unwinds(m) /\ x \in LeftBy(m)
  BY <1>1, <1>2, <1>5 DEF Finallies, Belongs, Waits
<1>9. owed = Cardinality({x \in 0 .. StackSize : Waits(x) /\ \E m \in 1 .. n : OwedTo(x, m)})
  <2>1. \A x \in 0 .. StackSize : ~ OwedTo(x, Here)
    BY <1>2 DEF OwedTo
  <2>2. \A x \in 0 .. StackSize :
           (\E m \in 1 .. n : OwedTo(x, m)) <=> \E m \in 1 .. Here : OwedTo(x, m)
    BY <2>1, <1>5, <1>6
  <2>3. Owing = {x \in 0 .. StackSize : Waits(x) /\ \E m \in 1 .. n : OwedTo(x, m)}
    BY <2>2 DEF Owing
  <2> QED BY <2>3, <1>2 DEF Finallies
<1>10. /\ Counts(exceptionHandlerDepth', n) /\ Handles(error_jump, error_jump_set, n)
       /\ exceptionHandlerDepth' \in Nat /\ finally_stack' \in [0 .. StackSize -> AnyBlock]
  BY <1>1, <1>2, <1>7 DEF Handling, Handles, Counts, Typed
<1> QED BY <1>1, <1>2, <1>3, <1>4, <1>8, <1>9, <1>10, PopStep

\* The finally block of tryCatch, at t, runs on top; k is the code that called tryCatch.
LEMMA FinallyFrames ==
  ASSUME IInv, Running, Here > 1, Below.kind = "try", Top.kind = "finally",
         NEW t \in Nat, t = Here - 1, NEW k \in Nat, k = Here - 2
  PROVE  /\ t \in 1 .. Here /\ k \in 1 .. Here /\ k < Here /\ Below = cstack[t]
         /\ IsTry(t) /\ cstack[t].phase \in {"normal", "caught", "uncaught"}
         /\ cstack[k].phase = "run" /\ Lowered = Over(k) /\ cstack[t].start = Over(k)
         /\ Over(k) \in 0 .. StackSize
         /\ Open(Here) = Open(k)
         /\ HandlersLeft(cstack[t].phase) \in Nat
         /\ Counts(HandlersLeft(cstack[t].phase), k)
         /\ owed = Cardinality({x \in 0 .. StackSize : Waits(x) /\ \E m \in 1 .. k : OwedTo(x, m)})
         /\ \A x \in 0 .. StackSize : Waits(x) /\ x # Over(k) =>
              \E m \in 1 .. k : \/ IsTry(m) /\ cstack[m].start = x
                                \/ Unwinds(m) /\ x \in LeftBy(m)
<1>1. /\ Typed /\ Layout /\ Handling /\ Finallies /\ Piled(Here) /\ status = "running"
      /\ ~ IsTry(Here) /\ ~ Unwinds(Here) /\ Here \in Nat /\ Here \in 1 .. Here
      /\ exceptionHandlerDepth \in Nat
  BY RunningFacts DEF Typed
<1>2. /\ t \in 1 .. Here /\ Below = cstack[t] /\ StandsOn(Here, t) /\ PhaseOK(t)
      /\ Lowered = cstack[Here].start
  BY BelowFacts
<1>3. IsTry(t) /\ t # 1
  BY <1>1, <1>2 DEF IsTry, Piled
<1>4. /\ cstack[t].phase \in {"normal", "caught", "uncaught"} /\ Lowered = cstack[t].start
      /\ ~ Unwinds(t)
  BY <1>2, <1>3 DEF StandsOn, PhaseOK, IsTry, Unwinds, Top, Code
<1>5. k \in 1 .. Here /\ k < Here /\ t \in 2 .. Here /\ t - 1 = k
  BY <1>1, <1>2, <1>3
<1>6. cstack[k].phase = "run" /\ cstack[t].start = Over(k)
  <2>1. StandsOn(t, k)
    BY <1>1, <1>5 DEF Piled
  <2> QED BY <2>1, <1>3 DEF StandsOn, IsTry
<1>7. Over(k) \in 0 .. StackSize
  BY <1>1, <1>5, LevelsInStack, StackAssumption
<1>8. /\ \A m \in 1 .. Here : m \in 1 .. k \/ m = t \/ m = Here
      /\ \A m \in 1 .. k : m \in 1 .. Here /\ m # t
  BY <1>1, <1>5
<1>9. Open(Here) = Open(k)
  <2>1. \A m \in 1 .. Here : IsTry(m) /\ cstack[m].phase = "body" => m \in 1 .. k
    BY <1>1, <1>4, <1>8
  <2> QED BY <2>1, <1>8 DEF Open
<1>10. /\ IsFiniteSet(NotNormal(k)) /\ Cardinality(NotNormal(k)) \in Nat /\ t \notin NotNormal(k)
       /\ Counts(exceptionHandlerDepth, Here)
  BY <1>1, <1>8, CountsFinite, FS_CardinalityType DEF NotNormal, Handling
<1>11. /\ HandlersLeft(cstack[t].phase) \in Nat /\ Counts(HandlersLeft(cstack[t].phase), k)
  <2>1. CASE cstack[t].phase = "normal"
    <3>1. NotNormal(Here) = NotNormal(k)
      <4>1. \A m \in 1 .. Here : IsTry(m) /\ cstack[m].phase # "normal" => m \in 1 .. k
        BY <2>1, <1>1, <1>8
      <4> QED BY <4>1, <1>8 DEF NotNormal
    <3> QED BY <3>1, <2>1, <1>1, <1>10 DEF HandlersLeft, Counts
  <2>2. CASE cstack[t].phase # "normal"
    <3>1. NotNormal(Here) = NotNormal(k) \cup {t}
      <4>1. \A m \in 1 .. Here : m \in NotNormal(Here) <=> m \in NotNormal(k) \/ m = t
        <5>1. t \in NotNormal(Here) /\ Here \notin NotNormal(Here)
          BY <2>2, <1>1, <1>2, <1>3 DEF NotNormal
        <5>2. \A m \in 1 .. k : m \in NotNormal(Here) <=> m \in NotNormal(k)
          BY <1>8 DEF NotNormal
        <5>3. Here \notin NotNormal(k) /\ Here # t
          BY <1>1 DEF NotNormal
        <5> QED BY <5>1, <5>2, <5>3, <1>8
      <4>2. /\ NotNormal(Here) \subseteq 1 .. Here
            /\ NotNormal(k) \subseteq 1 .. Here
        BY <1>8 DEF NotNormal
      <4> QED BY <4>1, <4>2, <1>2
    <3>2. Cardinality(NotNormal(Here)) = Cardinality(NotNormal(k)) + 1
      BY <3>1, <1>10, FS_AddElement
    <3> QED BY <3>2, <2>2, <1>1, <1>10 DEF HandlersLeft, Counts
  <2> QED BY <2>1, <2>2
<1>12. owed = Cardinality({x \in 0 .. StackSize : Waits(x) /\ \E m \in 1 .. k : OwedTo(x, m)})
  <2>1. \A x \in 0 .. StackSize : ~ OwedTo(x, Here) /\ ~ OwedTo(x, t)
    BY <1>1, <1>4 DEF OwedTo
  <2>2. \A x \in 0 .. StackSize :
           (\E m \in 1 .. k : OwedTo(x, m)) <=> \E m \in 1 .. Here : OwedTo(x, m)
    BY <2>1, <1>8
  <2>3. Owing = {x \in 0 .. StackSize : Waits(x) /\ \E m \in 1 .. k : OwedTo(x, m)}
    BY <2>2 DEF Owing
  <2> QED BY <2>3, <1>1 DEF Finallies
<1>13. \A x \in 0 .. StackSize : Waits(x) /\ x # Over(k) =>
              \E m \in 1 .. k : \/ IsTry(m) /\ cstack[m].start = x
                                \/ Unwinds(m) /\ x \in LeftBy(m)
  <2>1. TAKE x \in 0 .. StackSize
  <2>2. HAVE Waits(x) /\ x # Over(k)
  <2>3. PICK m \in 1 .. Here : \/ IsTry(m) /\ cstack[m].start = x
                               \/ Unwinds(m) /\ x \in LeftBy(m)
    BY <2>2, <1>1 DEF Finallies, Belongs
  <2>4. m # t /\ m # Here
    BY <2>2, <2>3, <1>1, <1>4, <1>6
  <2> QED BY <2>3, <2>4, <1>8
<1> QED BY <1>2, <1>3, <1>4, <1>5, <1>6, <1>7, <1>9, <1>11, <1>12, <1>13

LEMMA FinallyEndsStep ==
  ASSUME IInv, FinallyEnds
  PROVE  IInv'
<1>1. /\ Running /\ Here > 1 /\ Below.kind = "try" /\ Top.kind = "finally"
      /\ status = "running"
  BY DEF FinallyEnds, Running
<1>2. /\ Typed /\ Layout /\ Handling /\ Finallies /\ Piled(Here) /\ Here \in Nat
  BY <1>1, RunningFacts
<1>3. Here - 1 \in Nat /\ Here - 2 \in Nat
  BY <1>1, <1>2
<1>4. PICK t \in Nat, k \in Nat : t = Here - 1 /\ k = Here - 2 /\ t - 1 = k
  BY <1>2, <1>3
<1>5. /\ t \in 1 .. Here /\ k \in 1 .. Here /\ k < Here /\ Below = cstack[t]
      /\ IsTry(t) /\ cstack[t].phase \in {"normal", "caught", "uncaught"}
      /\ cstack[k].phase = "run" /\ Lowered = Over(k) /\ cstack[t].start = Over(k)
      /\ Over(k) \in 0 .. StackSize
      /\ Open(Here) = Open(k)
      /\ HandlersLeft(cstack[t].phase) \in Nat
      /\ Counts(HandlersLeft(cstack[t].phase), k)
      /\ owed = Cardinality({x \in 0 .. StackSize : Waits(x) /\ \E m \in 1 .. k : OwedTo(x, m)})
      /\ \A x \in 0 .. StackSize : Waits(x) /\ x # Over(k) =>
           \E m \in 1 .. k : \/ IsTry(m) /\ cstack[m].start = x
                             \/ Unwinds(m) /\ x \in LeftBy(m)
  BY <1>1, <1>4, FinallyFrames
<1>6. PICK cleared \in [0 .. StackSize -> AnyBlock] :
        /\ cleared = FinallyCleared(cstack[t])
        /\ cleared[Over(k)] = NoBlock
        /\ \A x \in 0 .. StackSize : x # Over(k) => cleared[x] = finally_stack[x]
  <2>1. FinallyCleared(cstack[t]) = [finally_stack EXCEPT ![Over(k)] = NoBlock]
    BY <1>5 DEF FinallyCleared
  <2>2. finally_stack \in [0 .. StackSize -> AnyBlock] /\ NoBlock \in AnyBlock
    BY <1>2 DEF Typed, AnyBlock
  <2> QED BY <2>1, <2>2, <1>5
<1>7. ASSUME finally_stack' = cleared
      PROVE  \A x \in 0 .. StackSize :
               /\ x < Over(k) => finally_stack'[x] = finally_stack[x]
               /\ Waits(x)' => Waits(x) /\ \E m \in 1 .. k : \/ IsTry(m) /\ cstack[m].start = x
                                                             \/ Unwinds(m) /\ x \in LeftBy(m)
  <2>1. TAKE x \in 0 .. StackSize
  <2>2. x < Over(k) => x # Over(k)
    BY <1>5
  <2> QED BY <2>2, <1>5, <1>6, <1>7 DEF Waits
<1>8. CASE cstack[t].phase # "uncaught"
  <2>1. /\ Pop(k) /\ calldepth' = Over(k)
        /\ exceptionHandler_stack' = CutAll(exceptionHandler_stack, k)
        /\ finally_stack' = cleared
        /\ exceptionHandlerDepth' = HandlersLeft(cstack[t].phase)
        /\ UNCHANGED <<error_jump, error_jump_set, status, owed, program>>
    BY <1>4, <1>5, <1>6, <1>8 DEF FinallyEnds
  <2>2. Handles(error_jump, error_jump_set, k)
    BY <1>2, <1>5 DEF Handling, Handles
  <2>3. \A x \in 0 .. StackSize :
           /\ x < Over(k) => finally_stack'[x] = finally_stack[x]
           /\ Waits(x)' => Waits(x) /\ \E m \in 1 .. k : \/ IsTry(m) /\ cstack[m].start = x
                                                         \/ Unwinds(m) /\ x \in LeftBy(m)
    BY <2>1, <1>7
  <2>4. /\ exceptionHandlerDepth' \in Nat /\ Counts(exceptionHandlerDepth', k)
        /\ finally_stack' \in [0 .. StackSize -> AnyBlock]
    BY <2>1, <1>5, <1>6
  <2> QED BY <2>1, <2>2, <2>3, <2>4, <1>1, <1>5, PopStep
<1>9. CASE cstack[t].phase = "uncaught"
  <2>1. IF HandlersLeft("uncaught") > 0
        THEN LongjmpTo(cstack[t].oldjump, cleared, HandlersLeft("uncaught"))
        ELSE End("exited")
    BY <1>5, <1>6, <1>9 DEF FinallyEnds
  <2>2. /\ Handles(cstack[t].oldjump, cstack[t].oldset, k) /\ Guarded(k)
    BY <1>2, <1>4, <1>5, <1>9 DEF Handling, Saved
  <2>3. CASE ~ (HandlersLeft("uncaught") > 0)
    BY <2>1, <2>3, EndStep
  <2>4. CASE HandlersLeft("uncaught") > 0 /\ cstack[t].oldjump \in 1 .. Here
    <3>1. PICK n \in Open(k) : n = cstack[t].oldjump /\ \A i \in Open(k) : i <= n
      BY <2>2, <2>4, <1>2 DEF Handles, UNSET, DEAD
    <3>2. /\ Catch(n) /\ finally_stack' = cleared
          /\ exceptionHandlerDepth' = HandlersLeft("uncaught")
          /\ UNCHANGED <<status, owed, program>>
      BY <2>1, <2>4, <3>1 DEF LongjmpTo
    <3>3. cstack[n].start < Over(k) /\ cstack[n].start \in Nat
      <4>1. n \in 1 .. k /\ IsTry(n) /\ n # k
        BY <3>1, <1>5 DEF Open
      <4>2. n \in 1 .. k - 1 /\ Piled(k)
        BY <4>1, <1>2, <1>4, <1>5, PiledDown
      <4>3. /\ cstack[n + 1].start \in Nat
            /\ cstack[n].start \in Nat /\ cstack[n].start <= cstack[n + 1].start
            /\ cstack[n + 1].start + 2 <= Over(k)
        BY <4>1, <4>2, <1>2, <1>5, LevelsBelow
      <4> QED BY <4>3, <1>5
    <3>4. \A x \in 0 .. StackSize :
             /\ x <= cstack[n].start => finally_stack'[x] = finally_stack[x]
             /\ Waits(x)' => Waits(x) /\ \E m \in 1 .. k : \/ IsTry(m) /\ cstack[m].start = x
                                                           \/ Unwinds(m) /\ x \in LeftBy(m)
      <4>1. \A x \in 0 .. StackSize : x <= cstack[n].start => x < Over(k)
        BY <3>3, <1>5
      <4> QED BY <4>1, <3>2, <1>7
    <3>5. /\ exceptionHandlerDepth' \in Nat /\ Counts(exceptionHandlerDepth', k)
          /\ finally_stack' \in [0 .. StackSize -> AnyBlock]
      BY <3>2, <1>5, <1>6, <1>9
    <3> QED BY <3>1, <3>2, <3>4, <3>5, <2>2, <1>1, <1>5, CatchStep
  <2>5. CASE HandlersLeft("uncaught") > 0 /\ cstack[t].oldjump \notin 1 .. Here
    <3>1. End("undefined")
      BY <2>1, <2>5 DEF LongjmpTo
    <3>2. ~ Complete
      <4>1. SUFFICES ASSUME Complete PROVE FALSE
        OBVIOUS
      <4>2. Cardinality(NotNormal(k)) > 0
        BY <4>1, <2>5, <1>5, <1>9 DEF Counts
      <4>3. PICK i \in NotNormal(k) : TRUE
        BY <4>2, FS_EmptySet
      <4>4. i \in 1 .. k /\ IsTry(i) /\ i # k
        <5>1. PhaseOK(k)
          BY <1>2, <1>5 DEF Piled
        <5> QED BY <5>1, <4>3, <1>5 DEF NotNormal, PhaseOK, IsTry, Code, Phase
      <4>5. Open(k) # {}
        <5>1. CASE cstack[i].phase = "body"
          BY <5>1, <4>4 DEF Open
        <5>2. CASE cstack[i].phase # "body"
          <6>1. i \in 1 .. k - 1 /\ Piled(k)
            BY <4>4, <1>2, <1>4, <1>5, PiledDown
          <6>2. Cleanup(i + 1) /\ i + 1 \in 1 .. k
            BY <6>1, <5>2, <4>4, <1>2, <1>5, LevelsBelow
          <6> QED BY <6>2, <2>2 DEF Guarded
        <5> QED BY <5>1, <5>2
      <4>6. cstack[t].oldjump \in Open(k)
        BY <4>1, <4>5, <2>2 DEF Handles
      <4>7. Open(k) \subseteq 1 .. Here
        BY <1>2, <1>5 DEF Open
      <4> QED BY <4>6, <4>7, <2>5
    <3> QED BY <3>1, <3>2, EndStep
  <2> QED BY <2>3, <2>4, <2>5
<1> QED BY <1>8, <1>9

LEMMA RaiseActionStep ==
  ASSUME OrdinaryPrograms, IInv, Raise
  PROVE  IInv'
BY RaiseStep DEF Raise

----------------------------------------------------------------------------
(* Non-local return.                                                        *)
\* Where a return in a block of an ordinary program leads, and what it leaves.
LEMMA ReturnTarget ==
  ASSUME OrdinaryPrograms, IInv, NonLocalReturn
  PROVE  /\ Home \in 2 .. Here /\ Home < Here
         /\ return_stack[Top.block.retpoint] = Home
         /\ cstack[Home].kind = "method"
         /\ \A i \in Home .. Here : cstack[i].kind # "finally"
         /\ (\E i \in Home .. Here : IsTry(i)) => ~ Complete /\ calldepth + 2 < StackSize
<1>1. /\ Typed /\ Here \in 1 .. Here /\ Here \in Nat \ {0}
      /\ Home = HomeAt(Here) /\ Home \in 1 .. Here /\ Home > 1 /\ Here # Home /\ MayReturn
      /\ Returning(Here) /\ Running /\ cstack[Here].kind \in Code
  BY RunningFacts, UsableReady DEF NonLocalReturn
<1>2. Home \in 2 .. Here /\ Home < Here /\ Here \in 2 .. Here
  BY <1>1
<1>3. /\ Home = Top.block.home /\ BlockOK(Top.block, Here)
      /\ cstack[Here].kind \notin {"top", "method", "super"}
  BY <1>1, <1>2 DEF HomeAt, Returning, BlocksAt, Top
<1>4. program.uses \cap {"escapeCleanup", "returnInSuper", "returnInCase"} = {}
  BY <1>1 DEF OrdinaryPrograms, Ordinary, Typed
<1>5. \A i \in Home .. Here : cstack[i].kind # "finally"
  BY <1>1 DEF MayReturn, Left
<1>6. \A i \in Home .. Here - 1 : cstack[i].kind # "typedcase"
  <2>1. Left({"typedcase"}) \ {Here} = {}
    BY <1>1, <1>4 DEF MayReturn
  <2>2. \A i \in Home .. Here - 1 : i \in Home .. Here /\ i # Here
    BY <1>1
  <2> QED BY <2>1, <2>2 DEF Left
<1>7. None({"finally"}, Home, Here) /\ None({"typedcase"}, Home, Here - 1)
  <2>1. /\ \A i \in Home + 1 .. Here : i \in Home .. Here
        /\ \A i \in Home + 1 .. Here - 1 : i \in Home .. Here - 1
    BY <1>1
  <2> QED BY <2>1, <1>5, <1>6 DEF None
<1>8. cstack[Home].kind \in {"method", "super"} /\ cstack[Home].kind # "super"
  BY <1>1, <1>2, <1>3, <1>4, <1>7 DEF BlockOK, MayReturn
<1>9. return_stack[Top.block.retpoint] = Home
  BY <1>2, <1>3, <1>7, <1>8 DEF BlockOK
<1>10. (\E i \in Home .. Here : IsTry(i)) => ~ Complete /\ calldepth + 2 < StackSize
  BY <1>1, Heights DEF MayReturn, Left, IsTry, Complete, Fits
<1> QED BY <1>2, <1>5, <1>8, <1>9, <1>10

\* The finally blocks that wait above the method n that a return leaves.
LEMMA TriesLeft ==
  ASSUME IInv, Running, NEW n \in 2 .. Here, n < Here, cstack[n].kind = "method",
         \A i \in n .. Here : cstack[i].kind # "finally"
  PROVE  /\ \A i \in n .. Here : ~ Unwinds(i)
         /\ \A i \in n .. Here : IsTry(i) => /\ i > n /\ cstack[i].phase \in {"body", "cases"}
                                             /\ cstack[i].start \in Over(n) .. calldepth
         /\ \A x \in 0 .. StackSize : Waits(x) =>
              \/ \E k \in 1 .. n - 1 : \/ IsTry(k) /\ cstack[k].start = x
                                       \/ Unwinds(k) /\ x \in LeftBy(k)
              \/ \E k \in n + 1 .. Here : IsTry(k) /\ cstack[k].start = x
         /\ \A k \in 1 .. n - 1 : IsTry(k) => cstack[k].start < Over(n)
         /\ \A k \in 1 .. n - 1 : Unwinds(k) => \A x \in LeftBy(k) : x < Over(n)
<1>1. /\ Typed /\ Layout /\ Piled(Here) /\ Finallies /\ Here \in Nat /\ Here \in 1 .. Here
      /\ ~ IsTry(Here) /\ ~ Unwinds(Here) /\ n \in Nat /\ n \in 1 .. Here /\ ~ IsTry(n)
      /\ Piled(n) /\ Over(n) \in Nat /\ calldepth \in Nat
  <2>1. /\ Typed /\ Layout /\ Piled(Here) /\ Finallies /\ Here \in Nat /\ Here \in 1 .. Here
        /\ ~ IsTry(Here) /\ ~ Unwinds(Here)
    BY RunningFacts
  <2>2. n \in Nat /\ n \in 1 .. Here /\ ~ IsTry(n)
    BY <2>1 DEF IsTry
  <2> QED BY <2>1, <2>2, PiledDown, LevelsInStack
<1>2. ASSUME NEW i \in n .. Here, i # Here
      PROVE  /\ i + 1 \in n .. Here /\ StandsOn(i + 1, i) /\ PhaseOK(i)
             /\ cstack[i + 1].kind # "finally"
  <2>1. i + 1 \in n .. Here /\ i + 1 \in 2 .. Here /\ (i + 1) - 1 = i /\ i \in 1 .. Here
    BY <1>1, <1>2
  <2>2. PICK j \in 2 .. Here : j = i + 1 /\ j - 1 = i
    BY <2>1
  <2>3. StandsOn(j, i)
    BY <2>2, <1>1 DEF Piled
  <2> QED BY <2>1, <2>2, <2>3, <1>1 DEF Piled
<1>3. \A i \in n .. Here : ~ Unwinds(i)
  <2>1. TAKE i \in n .. Here
  <2>2. CASE i = Here
    BY <2>2, <1>1
  <2>3. CASE i # Here
    BY <2>3, <1>2 DEF StandsOn, Unwinds
  <2> QED BY <2>2, <2>3
<1>4. ASSUME NEW i \in n .. Here, IsTry(i)
      PROVE  /\ i > n /\ cstack[i].phase \in {"body", "cases"}
             /\ cstack[i].start \in Over(n) .. calldepth
  <2>1. i # Here /\ i # n /\ i > n /\ i \in 1 .. Here
    BY <1>4, <1>1
  <2>2. cstack[i].phase \in {"body", "cases"}
    BY <2>1, <1>2, <1>4 DEF StandsOn, PhaseOK, IsTry, Code, Phase
  <2>3. Over(n) <= cstack[i].start /\ cstack[i].start = Over(i) /\ cstack[i].start \in Nat
    BY <2>1, <1>1, <1>4, Levels
  <2>4. Over(i) <= calldepth
    BY <2>1, <1>1, LevelsInStack
  <2> QED BY <2>1, <2>2, <2>3, <2>4, <1>1
<1>5. ASSUME NEW x \in 0 .. StackSize, Waits(x)
      PROVE  \/ \E k \in 1 .. n - 1 : \/ IsTry(k) /\ cstack[k].start = x
                                      \/ Unwinds(k) /\ x \in LeftBy(k)
             \/ \E k \in n + 1 .. Here : IsTry(k) /\ cstack[k].start = x
  <2>1. PICK k \in 1 .. Here : \/ IsTry(k) /\ cstack[k].start = x
                               \/ Unwinds(k) /\ x \in LeftBy(k)
    BY <1>1, <1>5 DEF Finallies, Belongs
  <2>2. CASE k \in 1 .. n - 1
    BY <2>1, <2>2
  <2>3. CASE k \in n .. Here
    <3>1. IsTry(k) /\ cstack[k].start = x /\ k > n
      BY <2>1, <2>3, <1>3, <1>4
    <3> QED BY <3>1, <2>3, <1>1
  <2>4. k \in 1 .. n - 1 \/ k \in n .. Here
    BY <1>1
  <2> QED BY <2>2, <2>3, <2>4
<1>6. ASSUME NEW k \in 1 .. n - 1
      PROVE  /\ IsTry(k) => cstack[k].start < Over(n)
             /\ Unwinds(k) => \A x \in LeftBy(k) : x < Over(n)
  <2>1. IsTry(k) \/ Unwinds(k) =>
           /\ cstack[k + 1].start \in Nat /\ cstack[k].start \in Nat
           /\ cstack[k].start <= cstack[k + 1].start /\ cstack[k + 1].start + 2 <= Over(n)
    BY <1>1, LevelsBelow
  <2>2. k # Here
    BY <1>1
  <2> QED BY <2>1, <2>2, <1>1 DEF LeftBy
<1> QED BY <1>3, <1>4, <1>5, <1>6

LEMMA NonLocalReturnStep ==
  ASSUME OrdinaryPrograms, IInv, NonLocalReturn
  PROVE  IInv' /\ status' = "running" /\ Len(cstack') = Home
<1>1. /\ Typed /\ Layout /\ Returning(Here) /\ Handling /\ Finallies /\ Piled(Here)
      /\ status = "running" /\ Running /\ Here \in Nat /\ Here \in 1 .. Here
      /\ ~ IsTry(Here) /\ ~ Unwinds(Here)
  BY RunningFacts DEF NonLocalReturn
<1>2. PICK n \in 2 .. Here :
        /\ n = Home /\ n < Here /\ return_stack[Top.block.retpoint] = n
        /\ cstack[n].kind = "method"
        /\ \A i \in n .. Here : cstack[i].kind # "finally"
        /\ (\E i \in n .. Here : IsTry(i)) => ~ Complete /\ calldepth + 2 < StackSize
  BY ReturnTarget
<1>3. /\ n \in 1 .. Here /\ n \in Nat \ {0} /\ ~ IsTry(n) /\ ~ Unwinds(n) /\ Piled(n)
      /\ n - 1 \in Nat /\ n - 1 \in 0 .. Here
  <2>1. n \in 1 .. Here /\ n \in Nat \ {0} /\ n - 1 \in Nat /\ n - 1 \in 0 .. Here
    BY <1>1
  <2>2. ~ IsTry(n) /\ ~ Unwinds(n)
    <3>1. n \in n .. Here
      BY <1>1
    <3> QED BY <3>1, <1>1, <1>2, TriesLeft DEF IsTry
  <2> QED BY <2>1, <2>2, <1>1, PiledDown
<1>4. /\ cstack' = CutTo(n, "unwind")
      /\ return_stack' = CutAll(return_stack, n)
      /\ exceptionHandler_stack' = CutAll(exceptionHandler_stack, n)
      /\ error_jump' = Cut(error_jump, n)
      /\ UNCHANGED <<calldepth, error_jump_set, status, finally_stack,
                     exceptionHandlerDepth, owed, program>>
  BY <1>2, <1>3 DEF NonLocalReturn, CutTo
<1>5. /\ cstack' \in Seq(Frame) /\ Here' = n /\ Kept(n) /\ cstack'[n].phase = "unwind"
      /\ \A i \in 1 .. n - 1 : cstack'[i] = cstack[i]
      /\ Same(cstack'[n], cstack[n]) /\ cstack'[n].kind = "method"
  <2>1. "unwind" \in Phase
    BY DEF Phase
  <2>2. cstack' \in Seq(Frame) /\ Here' = n /\ Kept(n) /\ cstack'[n].phase = "unwind"
    BY <2>1, <1>1, <1>3, <1>4, CutKeeps
  <2> QED BY <2>2, <1>2 DEF Kept, Same
<1>6. /\ Over(n) = cstack[n].start + 1 /\ cstack[n].start \in Nat /\ Over(n) \in Nat
      /\ Over(n) <= calldepth /\ calldepth \in Nat /\ calldepth < StackSize
      /\ calldepth \in 0 .. StackSize - 1 /\ StackSize \in Nat /\ n < program.frames
  <2>1. Over(n) = cstack[n].start + Height(cstack[n].kind) /\ cstack[n].start \in Nat
    BY <1>1, <1>3, Levels
  <2>2. /\ Over(n) \in Nat /\ Over(n) <= calldepth /\ calldepth \in Nat /\ calldepth < StackSize
    BY <1>1, <1>3, LevelsInStack
  <2>3. n < program.frames
    BY <1>1, <1>2, FramesBound DEF Layout
  <2> QED BY <2>1, <2>2, <2>3, <1>2, Heights, StackAssumption
<1>7. /\ return_stack' \in [-1 .. StackSize -> Buffer]
      /\ \A x \in -1 .. StackSize : return_stack[x] \in 1 .. n => return_stack'[x] = return_stack[x]
  <2>1. return_stack \in [-1 .. StackSize -> Buffer] /\ -1 \in Int /\ n \in Nat
    BY <1>1, <1>3 DEF Typed
  <2> QED BY <2>1, <1>4, CutAllKeeps
<1>8. /\ exceptionHandler_stack' \in [0 .. StackSize -> Buffer]
      /\ \A x \in 0 .. StackSize :
           /\ exceptionHandler_stack[x] \in 1 .. n \cup {DEAD}
              => exceptionHandler_stack'[x] = exceptionHandler_stack[x]
           /\ exceptionHandler_stack[x] > n => exceptionHandler_stack'[x] = DEAD
  <2>1. exceptionHandler_stack \in [0 .. StackSize -> Buffer] /\ 0 \in Int /\ n \in Nat
    BY <1>1, <1>3 DEF Typed
  <2> QED BY <2>1, <1>4, CutAllKeeps
<1>9. error_jump \in Buffer /\ error_jump' \in Buffer
  <2>1. error_jump \in Buffer
    BY <1>1 DEF Typed
  <2> QED BY <2>1, <1>3, <1>4, Buffers
<1>10. Typed'
  <2>1. Here' >= 1
    BY <1>3, <1>5
  <2> QED BY <2>1, <1>1, <1>4, <1>5, <1>7, <1>8, <1>9 DEF Typed
<1>11. Layout'
  <2>1. PhaseOK(n)'
    BY <1>5 DEF PhaseOK
  <2>2. Piled(n)' /\ Over(n)' = Over(n)
    <3>1. n \in 1 .. n
      BY <1>3
    <3>2. Piled(n)'
      BY <2>1, <1>1, <1>3, <1>5, PiledKept
    <3>3. Over(n)' = Over(n)
      BY <3>1, <1>1, <1>3, <1>5, KeptFacts
    <3> QED BY <3>2, <3>3
  <2>3. AtTop'
    BY <2>2, <1>4, <1>5, <1>6 DEF AtTop, Top
  <2> QED BY <2>2, <2>3, <1>3, <1>4, <1>5, <1>6, FramesBound, <1>1 DEF Layout
<1>12. Returning(n)'
  <2>1. PICK d \in Nat : d = Over(n) /\ Over(n) <= d
    BY <1>6
  <2>2. \A x \in 0 .. d - 1 : return_stack[x] \in 1 .. n => return_stack'[x] = return_stack[x]
    <3>1. \A x \in 0 .. d - 1 : x \in -1 .. StackSize
      BY <2>1, <1>6
    <3> QED BY <3>1, <1>7
  <2> QED BY <2>1, <2>2, <1>1, <1>3, <1>5, ReturningKept
<1>13. PICK p \in 0 .. Here : p = n - 1
  BY <1>3
<1>14. /\ \A i \in 1 .. n : i \in 1 .. p \/ i = n
       /\ \A i \in 1 .. p : i \in 1 .. n /\ i \in 1 .. Here
       /\ \A i \in 1 .. Here : i \in 1 .. n \/ i \in n .. Here
       /\ \A i \in 1 .. n : i \in 1 .. Here
       /\ n \in 1 .. n
  BY <1>1, <1>3, <1>13
<1>15. ~ IsTry(n)' /\ Unwinds(n)'
  BY <1>5 DEF IsTry, Unwinds
<1>16. /\ \A i \in n .. Here : ~ Unwinds(i)
       /\ \A i \in n .. Here : IsTry(i) => /\ i > n /\ cstack[i].phase \in {"body", "cases"}
                                           /\ cstack[i].start \in Over(n) .. calldepth
       /\ \A x \in 0 .. StackSize : Waits(x) =>
            \/ \E k \in 1 .. p : \/ IsTry(k) /\ cstack[k].start = x
                                 \/ Unwinds(k) /\ x \in LeftBy(k)
            \/ \E k \in n + 1 .. Here : IsTry(k) /\ cstack[k].start = x
       /\ \A k \in 1 .. p : IsTry(k) => cstack[k].start < Over(n)
       /\ \A k \in 1 .. p : Unwinds(k) => \A x \in LeftBy(k) : x < Over(n)
  BY <1>1, <1>2, <1>13, TriesLeft
<1>17. Handling'
  <2>1. /\ Open(p)' = Open(p) /\ NotNormal(p)' = NotNormal(p) /\ Complete' = Complete
        /\ \A i \in 1 .. p : Saved(i)'
    <3>1. (\A i \in 1 .. p : cstack'[i] = cstack[i]) /\ p \in 0 .. p
      BY <1>5, <1>13
    <3> QED BY <3>1, <1>1, <1>4, <1>14, TriesKept DEF Handling
  <2>2. Open(n) = Open(p) /\ NotNormal(n) = NotNormal(p)
    BY <1>3, <1>14 DEF Open, NotNormal
  <2>3. Open(n)' = Open(p)' /\ NotNormal(n)' = NotNormal(p)'
    BY <1>14, <1>15 DEF Open, NotNormal
  <2>4. Open(n)' = Open(n) /\ NotNormal(n)' = NotNormal(n)
    BY <2>1, <2>2, <2>3
  <2>5. Open(n) \subseteq Open(Here) /\ NotNormal(n) \subseteq NotNormal(Here)
    BY <1>14 DEF Open, NotNormal
  <2>6. Complete => Open(n) = Open(Here) /\ NotNormal(n) = NotNormal(Here)
    BY <1>2, <1>14 DEF Open, NotNormal
  <2>7. Handles(error_jump, error_jump_set, Here)
    BY <1>1 DEF Handling
  <2>8. error_jump' \in {UNSET, DEAD} \/ (error_jump' \in Open(n) /\ \A i \in Open(n) : i <= error_jump')
    <3>1. CASE error_jump > n
      BY <3>1, <1>4 DEF Cut
    <3>2. CASE ~ (error_jump > n) /\ error_jump \in {UNSET, DEAD}
      BY <3>2, <1>4 DEF Cut
    <3>3. CASE ~ (error_jump > n) /\ error_jump \notin {UNSET, DEAD}
      <4>1. error_jump \in Open(Here) /\ \A i \in Open(Here) : i <= error_jump
        BY <3>3, <2>7 DEF Handles
      <4>2. error_jump \in 1 .. n
        BY <4>1, <3>3, <1>1, <1>3 DEF Open
      <4>3. error_jump \in Open(n)
        BY <4>1, <4>2 DEF Open
      <4> QED BY <4>1, <4>3, <3>3, <2>5, <1>4 DEF Cut
    <3> QED BY <3>1, <3>2, <3>3
  <2>9. Complete => (error_jump_set' <=> Open(n) # {}) /\ (error_jump_set' => error_jump' \in Open(n))
    <3>1. SUFFICES ASSUME Complete
                   PROVE  /\ error_jump_set' <=> Open(n) # {}
                          /\ error_jump_set' => error_jump' \in Open(n)
      OBVIOUS
    <3>2. /\ error_jump_set <=> Open(n) # {}
          /\ error_jump_set => error_jump \in Open(n)
      BY <3>1, <2>6, <2>7 DEF Handles
    <3>3. error_jump \in Open(n) => error_jump' = error_jump
      BY <1>3, <1>4 DEF Cut, Open
    <3> QED BY <3>2, <3>3, <1>4
  <2>10. Handles(error_jump, error_jump_set, Here)'
    BY <2>1, <2>4, <2>8, <2>9, <1>5 DEF Handles
  <2>11. Counts(exceptionHandlerDepth, Here)'
    <3>1. IsFiniteSet(NotNormal(Here)) /\ IsFiniteSet(NotNormal(n))
      BY <1>1, <1>3, CountsFinite
    <3>2. /\ Cardinality(NotNormal(n)) \in Nat /\ Cardinality(NotNormal(Here)) \in Nat
          /\ Cardinality(NotNormal(n)) <= Cardinality(NotNormal(Here))
      BY <3>1, <2>5, FS_Subset, FS_CardinalityType
    <3>3. Counts(exceptionHandlerDepth, Here) /\ exceptionHandlerDepth \in Nat
      BY <1>1 DEF Handling, Typed
    <3>4. /\ exceptionHandlerDepth >= Cardinality(NotNormal(n))
          /\ Complete => exceptionHandlerDepth = Cardinality(NotNormal(n))
      BY <3>2, <3>3, <2>6 DEF Counts
    <3> QED BY <3>4, <2>1, <2>4, <1>4, <1>5 DEF Counts
  <2>12. Saved(n)'
    BY <1>15 DEF Saved
  <2> QED BY <2>1, <2>10, <2>11, <2>12, <1>5, <1>14 DEF Handling
<1>18. Finallies'
  <2>1. \A m \in 1 .. p :
           /\ TryAt(m)' /\ UnwindAt(m)' /\ LeftBy(m)' = LeftBy(m)
           /\ IsTry(m)' = IsTry(m) /\ Unwinds(m)' = Unwinds(m)
           /\ \A x \in 0 .. StackSize : Waits(x) => (OwedTo(x, m)' <=> OwedTo(x, m))
    <3>1. \A x \in 0 .. StackSize : x < Over(n) =>
            /\ finally_stack'[x] = finally_stack[x]
            /\ exceptionHandler_stack[x] \in 1 .. n \cup {DEAD}
               => exceptionHandler_stack'[x] = exceptionHandler_stack[x]
      BY <1>4, <1>8
    <3>2. \A m \in 1 .. n - 1 :
           /\ TryAt(m)' /\ UnwindAt(m)' /\ LeftBy(m)' = LeftBy(m)
           /\ IsTry(m)' = IsTry(m) /\ Unwinds(m)' = Unwinds(m)
           /\ \A x \in 0 .. StackSize : (Waits(x) /\ OwedTo(x, m))' = (Waits(x) /\ OwedTo(x, m))
      BY <3>1, <1>1, <1>3, <1>4, <1>5, FinalliesKept
    <3>3. \A x : Waits(x)' <=> Waits(x)
      BY <1>4 DEF Waits
    <3> QED BY <3>2, <3>3, <1>13
  <2>2. \A x : Waits(x)' <=> Waits(x)
    BY <1>4 DEF Waits
  <2>3. \A x : x \in LeftBy(n)' <=> x \in Over(n) .. calldepth
    BY <1>4, <1>5, <1>6 DEF LeftBy, Same
  <2>4. ASSUME NEW x \in 0 .. StackSize, Waits(x), x \in Over(n) .. calldepth
        PROVE  \E k \in n + 1 .. Here : IsTry(k) /\ cstack[k].start = x
    <3>1. ~ (x < Over(n))
      BY <2>4, <1>6
    <3> QED BY <3>1, <2>4, <1>16
  <2>5. \A k \in n + 1 .. Here : k \in n .. Here /\ k \in 1 .. Here /\ k \notin 1 .. n
    BY <1>1, <1>3
  <2>6. UnwindAt(n)'
    <3>1. SUFFICES ASSUME NEW i \in LeftBy(n)', Waits(i)'
                   PROVE  /\ exceptionHandler_stack'[i] = DEAD
                          /\ calldepth' + 2 < StackSize
                          /\ ~ Complete'
      BY <1>5, <1>3 DEF UnwindAt
    <3>2. i \in 0 .. StackSize /\ i \in Over(n) .. calldepth /\ Waits(i)
      BY <3>1, <2>2, <2>3, <1>6
    <3>3. PICK k \in n + 1 .. Here : IsTry(k) /\ cstack[k].start = i
      BY <3>2, <2>4
    <3>4. k \in n .. Here /\ k \in 1 .. Here /\ k > n
      BY <3>3, <2>5, <1>16
    <3>5. ~ Complete /\ calldepth + 2 < StackSize
      BY <3>3, <3>4, <1>2
    <3>6. exceptionHandler_stack[i] = k
      BY <3>3, <3>4, <1>1 DEF Finallies, TryAt
    <3>7. exceptionHandler_stack'[i] = DEAD
      BY <3>2, <3>4, <3>6, <1>8
    <3> QED BY <3>5, <3>7, <1>4 DEF Complete
  <2>7. TryAt(n)'
    BY <1>15 DEF TryAt
  <2>8. \A x \in 0 .. StackSize : Waits(x)' => Belongs(x)'
    <3>1. TAKE x \in 0 .. StackSize
    <3>2. HAVE Waits(x)'
    <3>3. Waits(x)
      BY <3>2, <2>2
    <3>4. ASSUME NEW k \in 1 .. p, \/ IsTry(k) /\ cstack[k].start = x
                                   \/ Unwinds(k) /\ x \in LeftBy(k)
          PROVE  Belongs(x)'
      <4>1. k \in 1 .. n /\ cstack'[k] = cstack[k]
        BY <1>5, <1>13, <1>14
      <4> QED BY <4>1, <3>4, <2>1, <1>5 DEF Belongs
    <3>5. ASSUME NEW k \in n + 1 .. Here, IsTry(k) /\ cstack[k].start = x
          PROVE  Belongs(x)'
      <4>1. x \in LeftBy(n)'
        BY <3>5, <2>3, <2>5, <1>16
      <4> QED BY <4>1, <1>5, <1>14, <1>15 DEF Belongs
    <3> QED BY <3>3, <3>4, <3>5, <1>16
  <2>9. Owing' = Owing
    <3>1. \A x \in 0 .. StackSize : OwedTo(x, n)' <=> x \in Over(n) .. calldepth
      <4>1. ~ (n < Here')
        BY <1>3, <1>5
      <4> QED BY <4>1, <2>3, <1>15 DEF OwedTo
    <3>2. \A x \in 0 .. StackSize, k \in n .. Here :
             OwedTo(x, k) <=> IsTry(k) /\ cstack[k].start = x
      BY <1>16 DEF OwedTo
    <3>3. ASSUME NEW x \in 0 .. StackSize, Waits(x)
          PROVE  (\E k \in 1 .. Here : OwedTo(x, k)) <=> (\E k \in 1 .. Here : OwedTo(x, k))'
      <4>1. (\E k \in 1 .. Here : OwedTo(x, k))' <=> \E k \in 1 .. n : OwedTo(x, k)'
        BY <1>5
      <4>2. (\E k \in 1 .. n : OwedTo(x, k)')
            <=> (x \in Over(n) .. calldepth \/ \E k \in 1 .. p : OwedTo(x, k))
        BY <3>1, <3>3, <2>1, <1>14
      <4>3. ASSUME x \in Over(n) .. calldepth
            PROVE  \E k \in 1 .. Here : OwedTo(x, k)
        BY <4>3, <3>2, <3>3, <2>4, <2>5
      <4>4. ASSUME NEW k \in 1 .. Here, OwedTo(x, k)
            PROVE  x \in Over(n) .. calldepth \/ \E j \in 1 .. p : OwedTo(x, j)
        <5>1. CASE k \in n .. Here
          <6>1. IsTry(k) /\ cstack[k].start = x
            BY <5>1, <4>4, <3>2
          <6> QED BY <6>1, <5>1, <1>16
        <5>2. CASE k \in 1 .. p
          BY <5>2, <4>4
        <5>3. k \in n .. Here \/ k \in 1 .. p
          BY <1>1, <1>3, <1>13
        <5> QED BY <5>1, <5>2, <5>3
      <4> QED BY <4>1, <4>2, <4>3, <4>4, <1>14
    <3> QED BY <3>3, <2>2 DEF Owing
  <2>10. owed' = Cardinality(Owing')
    BY <2>9, <1>1, <1>4 DEF Finallies
  <2> QED BY <2>1, <2>6, <2>7, <2>8, <2>10, <1>5, <1>14 DEF Finallies
<1>19. IInv'
  BY <1>1, <1>4, <1>5, <1>10, <1>11, <1>12, <1>17, <1>18 DEF IInv, Complete
<1> QED BY <1>1, <1>2, <1>4, <1>5, <1>19 DEF Here

\* The method that applies the finally blocks a return has left, on top of the pile.
LEMMA UnwindingFacts ==
  ASSUME IInv, status = "running", Top.phase = "unwind"
  PROVE  /\ Typed /\ Layout /\ Returning(Here) /\ Handling /\ Finallies /\ Piled(Here)
         /\ Here \in 2 .. Here /\ Here \in Nat \ {0} /\ Here < program.frames
         /\ Unwinds(Here) /\ ~ IsTry(Here) /\ cstack[Here].kind = "method" /\ Top = cstack[Here]
         /\ Over(Here) = cstack[Here].start + 1 /\ cstack[Here].start \in Nat
         /\ Over(Here) <= calldepth /\ calldepth \in 0 .. StackSize - 1
         /\ LeftBy(Here) = Over(Here) .. calldepth
         /\ \A i : i \in Pending <=> i \in LeftBy(Here) /\ Waits(i)
         /\ Pending # {} =>
              Highest \in Pending /\ \A k \in Pending : k <= Highest /\ k \in Nat
<1>1. /\ Typed /\ Layout /\ Returning(Here) /\ Handling /\ Finallies /\ Piled(Here) /\ AtTop
      /\ Here \in Nat \ {0} /\ Here \in 1 .. Here /\ Top = cstack[Here]
  BY PileType DEF IInv, Layout, Top
<1>2. PhaseOK(Here) /\ Unwinds(Here)
  BY <1>1, Levels DEF Unwinds
<1>3. cstack[Here].kind = "method" /\ ~ IsTry(Here) /\ Here # 1
  BY <1>1, <1>2 DEF PhaseOK, Unwinds, IsTry, Phase, Piled
<1>4. Here \in 2 .. Here /\ Here < program.frames
  BY <1>1, <1>3 DEF AtTop
<1>5. Over(Here) = cstack[Here].start + 1 /\ cstack[Here].start \in Nat
  BY <1>1, <1>3, Levels, Heights
<1>6. Over(Here) <= calldepth /\ calldepth \in 0 .. StackSize - 1 /\ calldepth \in Nat
  BY <1>1, LevelsInStack DEF Typed
<1>7. LeftBy(Here) = Over(Here) .. calldepth
  BY <1>5 DEF LeftBy
<1>8. \A i : i \in Pending <=> i \in LeftBy(Here) /\ Waits(i)
  BY <1>1 DEF Pending, LeftBy, Waits
<1>9. ASSUME Pending # {}
      PROVE  Highest \in Pending /\ \A k \in Pending : k <= Highest /\ k \in Nat
  <2>1. PICK d \in Nat : d = calldepth
    BY <1>6
  <2>2. \A k \in Pending : k \in 0 .. d
    BY <2>1, <1>1, <1>5 DEF Pending
  <2>3. PICK i \in Pending : \A k \in Pending : k <= i
    BY <2>2, <1>9, Greatest
  <2>4. Highest \in Pending /\ \A k \in Pending : k <= Highest
    BY <2>3 DEF Highest
  <2> QED BY <2>2, <2>4
<1> QED BY <1>1, <1>2, <1>3, <1>4, <1>5, <1>6, <1>7, <1>8, <1>9

\* A frame that is not of tryCatch, put on the pile, handles nothing.
LEMMA HandlingUnder ==
  ASSUME Typed, Piled(Here), Handling, NEW n \in Nat, n = Here, Here' = n + 1,
         \A i \in 1 .. n : cstack'[i] = cstack[i], ~ IsTry(n + 1)',
         UNCHANGED <<error_jump, error_jump_set, exceptionHandlerDepth, program>>
  PROVE  Handling'
<1>1. /\ Open(n)' = Open(n) /\ NotNormal(n)' = NotNormal(n) /\ Complete' = Complete
      /\ \A i \in 1 .. n : Saved(i)'
  <2>1. n \in 0 .. Here /\ n \in 0 .. n
    OBVIOUS
  <2> QED BY <2>1, TriesKept DEF Handling
<1>2. /\ \A i \in 1 .. n + 1 : i \in 1 .. n \/ i = n + 1
      /\ \A i \in 1 .. n : i \in 1 .. n + 1
  OBVIOUS
<1>3. Open(n + 1)' = Open(n)' /\ NotNormal(n + 1)' = NotNormal(n)' /\ Saved(n + 1)'
  BY <1>2 DEF Open, NotNormal, Saved
<1> QED BY <1>1, <1>2, <1>3 DEF Handling, Handles, Counts

LEMMA UnwindStepStep ==
  ASSUME IInv, UnwindStep
  PROVE  IInv'
<1>1. /\ Typed /\ Layout /\ Returning(Here) /\ Handling /\ Finallies /\ Piled(Here)
      /\ Here \in 2 .. Here /\ Here \in Nat \ {0} /\ Here < program.frames /\ status = "running"
      /\ Unwinds(Here) /\ ~ IsTry(Here) /\ cstack[Here].kind = "method" /\ Top = cstack[Here]
      /\ Over(Here) = cstack[Here].start + 1 /\ cstack[Here].start \in Nat
      /\ Over(Here) <= calldepth /\ calldepth \in 0 .. StackSize - 1
      /\ LeftBy(Here) = Over(Here) .. calldepth
      /\ \A i : i \in Pending <=> i \in LeftBy(Here) /\ Waits(i)
      /\ Highest \in Pending /\ \A k \in Pending : k <= Highest /\ k \in Nat
  BY UnwindingFacts DEF UnwindStep
<1>2. PICK n \in Nat \ {0} : n = Here /\ n \in 1 .. Here /\ n \in 1 .. n
  BY <1>1
<1>3. PICK H \in Nat : /\ H = Highest /\ H \in Over(n) .. calldepth /\ H \in LeftBy(n) /\ Waits(H)
                       /\ H \in 0 .. StackSize
                       /\ \A i \in LeftBy(n) : Waits(i) => i <= H
  BY <1>1, <1>2, StackAssumption
<1>4. /\ calldepth + 2 < StackSize /\ calldepth \in Nat /\ StackSize \in Nat
      /\ \A i \in LeftBy(n) : Waits(i) => exceptionHandler_stack[i] = DEAD /\ ~ Complete
  <2>1. UnwindAt(n)
    BY <1>1, <1>2 DEF Finallies
  <2> QED BY <2>1, <1>1, <1>2, <1>3, StackAssumption DEF UnwindAt
<1>5. PICK b \in AnyBlock : b = finally_stack[H] /\ b \in Block
  <2>1. finally_stack[H] \in AnyBlock
    BY <1>1, <1>3 DEF Typed
  <2> QED BY <2>1, <1>3 DEF Waits, AnyBlock
<1>6. PICK c \in AnyBlock : c = StillHome(b) /\ c # NoBlock /\ c.home \in 1 .. n
  <2>1. CASE b.home > Here
    <3>1. StillHome(b) = [b EXCEPT !.home = 1]
      BY <2>1 DEF StillHome
    <3>2. [b EXCEPT !.home = 1] \in Block /\ [b EXCEPT !.home = 1].home = 1
      <4>1. 1 \in 1 .. MaxFrames + 3
        BY FramesAssumption
      <4> QED BY <4>1, <1>5 DEF Block
    <3>3. StillHome(b) \in Block /\ StillHome(b).home = 1 /\ 1 \in 1 .. n
      BY <3>1, <3>2
    <3>4. StillHome(b) \in AnyBlock /\ StillHome(b) # NoBlock
      BY <3>3, Blocks DEF AnyBlock
    <3> QED BY <3>3, <3>4
  <2>2. CASE ~ (b.home > Here)
    <3>1. StillHome(b) = b /\ b.home \in 1 .. MaxFrames + 3
      BY <2>2, <1>5, Blocks DEF StillHome
    <3> QED BY <3>1, <2>2, <1>2, <1>5, Blocks
  <2> QED BY <2>1, <2>2
<1>7. PICK f \in Frame : /\ f = NewFrame("finally", c, NoBlock) /\ f.kind = "finally"
                         /\ f.start = calldepth /\ f.block = c /\ f.arg = NoBlock
                         /\ f.phase = "run"
  BY <1>1, NewFrameType DEF Kind, AnyBlock
<1>8. /\ cstack' = Append(cstack, f) /\ calldepth' = calldepth + 2
      /\ return_stack' = BlockSlots(return_stack, calldepth, b) /\ owed' = owed - 1
      /\ UNCHANGED <<finally_stack, exceptionHandler_stack, error_jump, error_jump_set,
                     exceptionHandlerDepth, status, program>>
  BY <1>3, <1>5, <1>6, <1>7, Heights DEF UnwindStep, Push
<1>9. /\ cstack' \in Seq(Frame) /\ Here' = n + 1 /\ Kept(n)
      /\ cstack'[n] = cstack[n] /\ cstack'[n + 1] = f
      /\ \A i \in 1 .. n : cstack'[i] = cstack[i]
  BY <1>1, <1>2, <1>8, AppendKeeps
<1>10. /\ return_stack' \in [-1 .. StackSize -> Buffer]
       /\ \A x \in 0 .. calldepth - 1 : return_stack'[x] = return_stack[x]
  <2>1. PICK d \in Nat : d = calldepth /\ d + 1 <= StackSize
    BY <1>4
  <2>2. return_stack \in [-1 .. StackSize -> Buffer]
    BY <1>1 DEF Typed
  <2>3. /\ BlockSlots(return_stack, d, b) \in [-1 .. StackSize -> Buffer]
        /\ \A x \in -1 .. StackSize :
             x \notin {d, d + 1} => BlockSlots(return_stack, d, b)[x] = return_stack[x]
    BY <2>1, <2>2, BlockSlotsOK
  <2> QED BY <2>1, <2>3, <1>4, <1>8
<1>11. Layout'
  <2>1. Piled(n)' /\ Over(n)' = Over(n)
    <3>1. PhaseOK(n)'
      <4>1. PhaseOK(n)
        BY <1>1, <1>2, Levels
      <4> QED BY <4>1, <1>9 DEF PhaseOK
    <3> QED BY <3>1, <1>1, <1>2, <1>9, PiledKept, KeptFacts
  <2>2. PhaseOK(n + 1)' /\ Over(n + 1)' = calldepth'
    BY <1>7, <1>8, <1>9, Heights DEF PhaseOK, Over, Code
  <2>3. StandsOn(n + 1, n)'
    BY <1>1, <1>2, <1>7, <1>9 DEF StandsOn, Unwinds
  <2>4. Over(n)' <= cstack'[n + 1].start /\ Here' \in Nat /\ n + 1 <= Here'
    <3>1. Over(n)' <= cstack'[n + 1].start
      BY <2>1, <1>1, <1>2, <1>7, <1>9
    <3> QED BY <3>1, <1>9
  <2>5. Piled(n + 1)'
    BY <2>1, <2>2, <2>3, <2>4, <1>9, PiledOn
  <2>6. AtTop' /\ n + 1 <= program.frames
    <3>1. program.frames \in Nat
      BY <1>1, FramesBound
    <3> QED BY <3>1, <2>2, <1>1, <1>2, <1>7, <1>9 DEF AtTop, Top
  <2> QED BY <2>5, <2>6, <1>8, <1>9 DEF Layout
<1>12. Returning(n + 1)'
  <2>1. Returning(n)'
    <3>1. PICK d \in Nat : d = calldepth /\ Over(n) <= d
      BY <1>1, <1>2, <1>4
    <3>2. \A x \in 0 .. d - 1 : return_stack[x] \in 1 .. n => return_stack'[x] = return_stack[x]
      BY <3>1, <1>10
    <3> QED BY <3>1, <3>2, <1>1, <1>2, <1>9, ReturningKept
  <2>2. ~ None({"finally"}, c.home, n + 1)' /\ ~ None({"finally", "typedcase"}, c.home, n + 1)'
    <3>1. n + 1 \in c.home + 1 .. n + 1
      BY <1>6
    <3> QED BY <3>1, <1>7, <1>9 DEF None
  <2>3. BlockOK(c, n + 1)'
    BY <2>2, <1>6 DEF BlockOK
  <2>4. BlocksAt(n + 1)'
    BY <2>3, <1>6, <1>7, <1>9 DEF BlocksAt
  <2>5. SlotAt(n + 1)'
    <3>1. HomeAt(n + 1)' = c.home
      BY <1>7, <1>9 DEF HomeAt
    <3> QED BY <3>1, <2>2 DEF SlotAt
  <2>6. \A i \in 2 .. n + 1 : i \in 2 .. n \/ i = n + 1
    OBVIOUS
  <2> QED BY <2>1, <2>4, <2>5, <2>6 DEF Returning
<1>13. ~ IsTry(n + 1)' /\ ~ Unwinds(n + 1)' /\ ~ IsTry(n)' /\ Unwinds(n)'
  BY <1>1, <1>2, <1>7, <1>9 DEF IsTry, Unwinds
<1>14. Handling'
  BY <1>1, <1>2, <1>8, <1>9, <1>13, HandlingUnder
<1>15. \A x : Waits(x)' <=> Waits(x)
  BY <1>8 DEF Waits
<1>16. /\ \A k \in 1 .. n + 1 : k \in 1 .. n - 1 \/ k = n \/ k = n + 1
       /\ \A k \in 1 .. n : k \in 1 .. n - 1 \/ k = n
       /\ \A k \in 1 .. n - 1 : k \in 1 .. n + 1 /\ k \in 1 .. n
       /\ n \in 1 .. n + 1
  OBVIOUS
<1>17. \A m \in 1 .. n - 1 :
         /\ TryAt(m)' /\ UnwindAt(m)' /\ LeftBy(m)' = LeftBy(m)
         /\ IsTry(m)' = IsTry(m) /\ Unwinds(m)' = Unwinds(m)
         /\ \A x \in 0 .. StackSize : /\ Waits(x) => (OwedTo(x, m)' <=> OwedTo(x, m))
                                      /\ OwedTo(x, m) => x < Over(n)
  <2>1. \A x \in 0 .. StackSize : x < Over(n) =>
          /\ finally_stack'[x] = finally_stack[x]
          /\ exceptionHandler_stack[x] \in 1 .. n \cup {DEAD}
             => exceptionHandler_stack'[x] = exceptionHandler_stack[x]
    BY <1>8
  <2>2. \A m \in 1 .. n - 1 :
           /\ TryAt(m)' /\ UnwindAt(m)' /\ LeftBy(m)' = LeftBy(m)
           /\ IsTry(m)' = IsTry(m) /\ Unwinds(m)' = Unwinds(m)
           /\ \A x \in 0 .. StackSize : /\ (Waits(x) /\ OwedTo(x, m))' = (Waits(x) /\ OwedTo(x, m))
                                        /\ OwedTo(x, m) => x < Over(n)
    BY <2>1, <1>1, <1>8, <1>9, FinalliesKept
  <2> QED BY <2>2, <1>15
<1>18. LeftBy(n)' = LeftBy(n)
  <2>1. n # Here'
    BY <1>9
  <2>2. LeftBy(n)' = cstack'[n].start + 1 .. cstack'[n + 1].start
    BY <2>1 DEF LeftBy
  <2> QED BY <2>2, <1>1, <1>2, <1>7, <1>9
<1>19. UnwindAt(n)' /\ TryAt(n)' /\ UnwindAt(n + 1)' /\ TryAt(n + 1)'
  <2>1. UnwindAt(n)'
    <3>1. SUFFICES /\ \E i \in LeftBy(n)' : Waits(i)'
                   /\ \A i \in LeftBy(n)' : Waits(i)' =>
                        /\ exceptionHandler_stack'[i] = DEAD
                        /\ cstack'[n + 1].start + 2 < StackSize
                        /\ ~ Complete'
      <4>1. n # Here'
        BY <1>9
      <4> QED BY <4>1 DEF UnwindAt
    <3> QED BY <1>3, <1>4, <1>7, <1>8, <1>9, <1>15, <1>18 DEF Complete
  <2> QED BY <2>1, <1>13 DEF UnwindAt, TryAt
<1>20. \A x \in 0 .. StackSize : Waits(x)' => Belongs(x)'
  <2>1. TAKE x \in 0 .. StackSize
  <2>2. HAVE Waits(x)'
  <2>3. PICK k \in 1 .. n : \/ IsTry(k) /\ cstack[k].start = x
                            \/ Unwinds(k) /\ x \in LeftBy(k)
    BY <2>2, <1>1, <1>2, <1>15 DEF Finallies, Belongs
  <2>4. CASE k = n
    BY <2>3, <2>4, <1>1, <1>2, <1>9, <1>13, <1>16, <1>18 DEF Belongs
  <2>5. CASE k \in 1 .. n - 1
    <3>1. k \in 1 .. n + 1 /\ cstack'[k] = cstack[k]
      BY <2>5, <1>9, <1>16
    <3> QED BY <3>1, <2>3, <2>5, <1>9, <1>17 DEF Belongs
  <2> QED BY <2>4, <2>5, <1>16
<1>21. Owing' = Owing \ {H} /\ H \in Owing
  <2>1. \A x \in 0 .. StackSize : ~ OwedTo(x, n + 1)'
    BY <1>13 DEF OwedTo
  <2>2. \A x \in 0 .. StackSize : OwedTo(x, n) <=> x \in LeftBy(n)
    BY <1>1, <1>2 DEF OwedTo
  <2>3. \A x \in 0 .. StackSize : Waits(x) => (OwedTo(x, n)' <=> x \in LeftBy(n) /\ x # H)
    <3>1. \A x \in 0 .. StackSize :
             OwedTo(x, n)' <=> x \in LeftBy(n) /\ \E h \in LeftBy(n) : x < h /\ Waits(h)
      <4>1. n < Here'
        BY <1>9
      <4> QED BY <4>1, <1>13, <1>15, <1>18 DEF OwedTo
    <3>2. \A x \in LeftBy(n) : x \in Int
      BY <1>1, <1>2
    <3>3. ASSUME NEW x \in 0 .. StackSize, Waits(x), x \in LeftBy(n), NEW h \in LeftBy(n),
                 x < h, Waits(h)
          PROVE  x # H
      BY <3>2, <3>3, <1>3
    <3>4. ASSUME NEW x \in 0 .. StackSize, Waits(x), x \in LeftBy(n), x # H
          PROVE  x < H
      BY <3>4, <1>3
    <3> QED BY <3>1, <3>3, <3>4, <1>3
  <2>4. \A m \in 1 .. n - 1 : ~ OwedTo(H, m)
    <3>1. ~ (H < Over(n))
      BY <1>1, <1>2, <1>3
    <3> QED BY <3>1, <1>3, <1>17
  <2>5. ASSUME NEW x \in 0 .. StackSize, Waits(x)
        PROVE  (\E k \in 1 .. Here : OwedTo(x, k))' <=> x # H /\ \E k \in 1 .. Here : OwedTo(x, k)
    <3>1. (\E k \in 1 .. Here : OwedTo(x, k))'
          <=> OwedTo(x, n)' \/ \E k \in 1 .. n - 1 : OwedTo(x, k)'
      BY <2>1, <1>9, <1>16
    <3>2. (\E k \in 1 .. Here : OwedTo(x, k))
          <=> OwedTo(x, n) \/ \E k \in 1 .. n - 1 : OwedTo(x, k)
      BY <1>2, <1>16
    <3>3. (\E k \in 1 .. n - 1 : OwedTo(x, k)') <=> \E k \in 1 .. n - 1 : OwedTo(x, k)
      BY <2>5, <1>17
    <3>4. OwedTo(x, n)' <=> OwedTo(x, n) /\ x # H
      BY <2>2, <2>3, <2>5
    <3> QED BY <3>1, <3>2, <3>3, <3>4, <2>4
  <2>6. H \in Owing
    BY <2>2, <1>2, <1>3 DEF Owing
  <2> QED BY <2>5, <2>6, <1>15 DEF Owing
<1>22. owed' = Cardinality(Owing') /\ owed' \in Nat
  <2>1. owed' = Cardinality(Owing')
    <3>1. Cardinality(Owing \ {H}) = Cardinality(Owing) - 1
      BY <1>21, OwingFinite, FS_RemoveElement
    <3> QED BY <3>1, <1>1, <1>8, <1>21 DEF Finallies
  <2>2. IsFiniteSet(Owing')
    BY <1>21, OwingFinite, FS_RemoveElement
  <2> QED BY <2>1, <2>2, FS_CardinalityType
<1>23. Finallies'
  BY <1>9, <1>16, <1>17, <1>19, <1>20, <1>22 DEF Finallies
<1>24. Typed'
  <2>1. calldepth' \in 0 .. StackSize - 1 /\ Here' >= 1
    BY <1>4, <1>8, <1>9
  <2> QED BY <2>1, <1>1, <1>8, <1>9, <1>10, <1>22 DEF Typed
<1> QED BY <1>1, <1>8, <1>9, <1>11, <1>12, <1>14, <1>23, <1>24 DEF IInv, Complete

LEMMA UnwindFinallyEndsStep ==
  ASSUME IInv, UnwindFinallyEnds
  PROVE  IInv'
<1>1. /\ Typed /\ Layout /\ Returning(Here) /\ Handling /\ Finallies /\ Piled(Here)
      /\ status = "running" /\ Running /\ Here > 1 /\ Here \in Nat /\ Here \in 1 .. Here
      /\ ~ IsTry(Here) /\ ~ Unwinds(Here)
  BY RunningFacts DEF UnwindFinallyEnds
<1>2. PICK n \in Nat \ {0} :
        /\ n = Here - 1 /\ n \in 1 .. Here /\ Below = cstack[n] /\ Here = n + 1
        /\ Lowered = cstack[Here].start /\ cstack[Here].start \in 0 .. StackSize - 1
        /\ PhaseOK(n) /\ n < program.frames /\ n \in 1 .. n
  BY <1>1, BelowFacts
<1>3. Unwinds(n) /\ ~ IsTry(n) /\ cstack[n].kind = "method" /\ cstack[n].phase = "unwind"
  BY <1>2 DEF UnwindFinallyEnds, PhaseOK, Unwinds, IsTry, Phase
<1>4. PICK d \in Nat : /\ d = cstack[Here].start /\ d \in 0 .. StackSize - 1 /\ Over(n) <= d
                       /\ Over(n) = cstack[n].start + 1 /\ cstack[n].start \in Nat
                       /\ Over(n) \in Nat
  <2>1. Over(n) <= cstack[Here].start
    <3>1. n < Here
      BY <1>1, <1>2
    <3> QED BY <3>1, <1>1, <1>2, Levels
  <2>2. Over(n) = cstack[n].start + 1 /\ cstack[n].start \in Nat
    BY <1>1, <1>2, <1>3, Levels, Heights
  <2> QED BY <2>1, <2>2, <1>2
<1>5. LeftBy(n) = Over(n) .. d /\ n # Here /\ \A x \in LeftBy(n) : x \in 0 .. StackSize
  BY <1>1, <1>2, <1>4, StackAssumption DEF LeftBy
<1>6. /\ \E i \in LeftBy(n) : Waits(i)
      /\ \A i \in LeftBy(n) : Waits(i) =>
           exceptionHandler_stack[i] = DEAD /\ d + 2 < StackSize /\ ~ Complete
  <2>1. UnwindAt(n) /\ n < Here
    BY <1>1, <1>2 DEF Finallies
  <2> QED BY <2>1, <1>2, <1>3, <1>4, <1>5 DEF UnwindAt
<1>7. PICK i \in 0 .. d :
        /\ i = CHOOSE k \in 0 .. Top.start :
                 /\ k > Below.start /\ finally_stack[k] # NoBlock
                 /\ \A h \in k + 1 .. Top.start : finally_stack[h] = NoBlock
        /\ i \in LeftBy(n) /\ Waits(i) /\ \A h \in LeftBy(n) : Waits(h) => h <= i
  <2> DEFINE P(k) == /\ k > Below.start /\ finally_stack[k] # NoBlock
                     /\ \A h \in k + 1 .. Top.start : finally_stack[h] = NoBlock
  <2>1. Top.start = d /\ Below.start = cstack[n].start
    BY <1>2, <1>4 DEF Top
  <2>2. PICK j \in {x \in LeftBy(n) : Waits(x)} :
               \A y \in {x \in LeftBy(n) : Waits(x)} : y <= j
    <3>1. {x \in LeftBy(n) : Waits(x)} \subseteq 0 .. d /\ {x \in LeftBy(n) : Waits(x)} # {}
      BY <1>4, <1>5, <1>6
    <3> QED BY <3>1, Greatest
  <2>3. j \in 0 .. Top.start /\ P(j)
    <3>1. j \in 0 .. d /\ j > cstack[n].start /\ finally_stack[j] # NoBlock
      BY <2>2, <1>4, <1>5 DEF Waits
    <3>2. ASSUME NEW h \in j + 1 .. d PROVE finally_stack[h] = NoBlock
      <4>1. h \in LeftBy(n) /\ ~ (h <= j)
        BY <3>1, <3>2, <1>4, <1>5
      <4> QED BY <4>1, <2>2 DEF Waits
    <3> QED BY <3>1, <3>2, <2>1
  <2>4. \E k \in 0 .. Top.start : P(k)
    BY <2>3
  <2>5. PICK m \in 0 .. Top.start : m = (CHOOSE k \in 0 .. Top.start : P(k)) /\ P(m)
    BY <2>4
  <2>6. m \in 0 .. d /\ m > cstack[n].start /\ finally_stack[m] # NoBlock
        /\ \A h \in m + 1 .. d : finally_stack[h] = NoBlock
    BY <2>1, <2>5
  <2>7. m \in LeftBy(n) /\ Waits(m)
    BY <2>6, <1>4, <1>5 DEF Waits
  <2>8. ASSUME NEW h \in LeftBy(n), Waits(h) PROVE h <= m
    <3>1. h \in 0 .. d /\ finally_stack[h] # NoBlock
      BY <2>8, <1>4, <1>5 DEF Waits
    <3>2. h \notin m + 1 .. d
      BY <3>1, <2>6
    <3> QED BY <3>1, <3>2, <2>6
  <2> QED BY <2>5, <2>6, <2>7, <2>8
<1>8. /\ cstack' = SubSeq(cstack, 1, n) /\ return_stack' = CutAll(return_stack, n)
      /\ calldepth' = d /\ finally_stack' = [finally_stack EXCEPT ![i] = NoBlock]
      /\ error_jump' = Cut(exceptionHandler_stack[i], n)
      /\ exceptionHandler_stack' = CutAll(exceptionHandler_stack, n)
      /\ UNCHANGED <<error_jump_set, exceptionHandlerDepth, status, owed, program>>
  BY <1>2, <1>4, <1>7 DEF UnwindFinallyEnds, Pop
<1>9. /\ cstack' \in Seq(Frame) /\ Here' = n /\ Kept(n)
      /\ \A j \in 1 .. n : cstack'[j] = cstack[j]
  <2>1. cstack' \in Seq(Frame) /\ Here' = n /\ Kept(n) /\ cstack'[n] = cstack[n]
    BY <1>1, <1>2, <1>8, PopKeeps
  <2>2. \A j \in 1 .. n : j \in 1 .. n - 1 \/ j = n
    OBVIOUS
  <2> QED BY <2>1, <2>2 DEF Kept
<1>10. /\ return_stack' \in [-1 .. StackSize -> Buffer]
       /\ \A x \in -1 .. StackSize : return_stack[x] \in 1 .. n => return_stack'[x] = return_stack[x]
  BY <1>1, <1>2, <1>8, ArraysCut
<1>11. /\ exceptionHandler_stack' \in [0 .. StackSize -> Buffer]
       /\ \A x \in 0 .. StackSize :
            exceptionHandler_stack[x] \in 1 .. n \cup {DEAD}
            => exceptionHandler_stack'[x] = exceptionHandler_stack[x]
  BY <1>1, <1>2, <1>8, ArraysCut
<1>12. error_jump' = DEAD /\ ~ Complete
  BY <1>6, <1>7, <1>8 DEF Cut, DEAD
<1>13. /\ finally_stack' \in [0 .. StackSize -> AnyBlock]
       /\ \A x \in 0 .. StackSize : Waits(x)' <=> Waits(x) /\ x # i
       /\ \A x \in 0 .. StackSize : x < Over(n) => finally_stack'[x] = finally_stack[x]
       /\ i \in 0 .. StackSize
  <2>1. finally_stack \in [0 .. StackSize -> AnyBlock] /\ NoBlock \in AnyBlock
    BY <1>1 DEF Typed, AnyBlock
  <2>2. i \in 0 .. StackSize /\ ~ (i < Over(n))
    BY <1>4, <1>5, <1>7
  <2> QED BY <2>1, <2>2, <1>8 DEF Waits
<1>14. Typed'
  <2>1. calldepth' \in 0 .. StackSize - 1 /\ Here' >= 1
    BY <1>4, <1>8, <1>9
  <2>2. error_jump' \in Buffer
    BY <1>12, Buffers
  <2> QED BY <2>1, <2>2, <1>1, <1>8, <1>9, <1>10, <1>11, <1>13 DEF Typed
<1>15. Layout'
  <2>1. PhaseOK(n)'
    BY <1>2, <1>9 DEF PhaseOK
  <2>2. Piled(n)' /\ Over(n)' = Over(n)
    BY <2>1, <1>1, <1>2, <1>9, PiledKept, KeptFacts
  <2>3. AtTop'
    BY <2>2, <1>2, <1>3, <1>4, <1>8, <1>9 DEF AtTop, Top
  <2>4. n <= program.frames
    BY <1>1, <1>2, FramesBound
  <2> QED BY <2>2, <2>3, <2>4, <1>8, <1>9 DEF Layout
<1>16. Returning(n)'
  <2>1. PICK e \in Nat : e = Over(n) /\ Over(n) <= e
    BY <1>4
  <2>2. \A x \in 0 .. e - 1 : return_stack[x] \in 1 .. n => return_stack'[x] = return_stack[x]
    <3>1. e <= StackSize /\ StackSize \in Nat
      BY <2>1, <1>4, StackAssumption
    <3>2. \A x \in 0 .. e - 1 : x \in -1 .. StackSize
      BY <3>1
    <3> QED BY <3>2, <1>10
  <2> QED BY <2>1, <2>2, <1>1, <1>9, ReturningKept
<1>17. /\ \A m \in 1 .. Here : m \in 1 .. n \/ m = Here
       /\ \A m \in 1 .. n : m \in 1 .. Here
       /\ \A m \in 1 .. n : m \in 1 .. n - 1 \/ m = n
       /\ \A m \in 1 .. n - 1 : m \in 1 .. n
  BY <1>2
<1>18. Handling'
  <2>1. /\ Open(n)' = Open(n) /\ NotNormal(n)' = NotNormal(n) /\ Complete' = Complete
        /\ \A j \in 1 .. n : Saved(j)'
    <3>1. n \in 0 .. Here /\ n \in 0 .. n
      BY <1>2
    <3> QED BY <3>1, <1>1, <1>8, <1>9, <1>17, TriesKept DEF Handling
  <2>2. NotNormal(Here) = NotNormal(n)
    BY <1>1, <1>17 DEF NotNormal
  <2>3. Handles(error_jump, error_jump_set, Here)'
    BY <2>1, <1>12 DEF Handles
  <2>4. Counts(exceptionHandlerDepth, Here)'
    BY <2>1, <2>2, <1>1, <1>8, <1>9 DEF Handling, Counts
  <2> QED BY <2>1, <2>3, <2>4, <1>9 DEF Handling
<1>19. \A m \in 1 .. n - 1 :
         /\ TryAt(m)' /\ UnwindAt(m)' /\ LeftBy(m)' = LeftBy(m)
         /\ IsTry(m)' = IsTry(m) /\ Unwinds(m)' = Unwinds(m)
         /\ \A x \in 0 .. StackSize :
              (Waits(x) /\ OwedTo(x, m))' <=> (Waits(x) /\ OwedTo(x, m))
  <2>1. \A x \in 0 .. StackSize : x < Over(n) =>
          /\ finally_stack'[x] = finally_stack[x]
          /\ exceptionHandler_stack[x] \in 1 .. n \cup {DEAD}
             => exceptionHandler_stack'[x] = exceptionHandler_stack[x]
    BY <1>11, <1>13
  <2>2. \A m \in 1 .. n - 1 :
           /\ TryAt(m)' /\ UnwindAt(m)' /\ LeftBy(m)' = LeftBy(m)
           /\ IsTry(m)' = IsTry(m) /\ Unwinds(m)' = Unwinds(m)
           /\ \A x \in 0 .. StackSize : (Waits(x) /\ OwedTo(x, m))' = (Waits(x) /\ OwedTo(x, m))
    BY <2>1, <1>1, <1>8, <1>9, FinalliesKept
  <2> QED BY <2>2
<1>20. /\ ~ IsTry(n)' /\ Unwinds(n)' /\ LeftBy(n)' = LeftBy(n)
  <2>1. cstack'[n] = cstack[n]
    BY <1>2, <1>9
  <2> QED BY <2>1, <1>3, <1>4, <1>5, <1>8, <1>9 DEF IsTry, Unwinds, LeftBy
<1>21. TryAt(n)' /\ UnwindAt(n)'
  <2>1. ASSUME NEW x \in LeftBy(n)', Waits(x)'
        PROVE  exceptionHandler_stack'[x] = DEAD /\ calldepth' + 2 < StackSize /\ ~ Complete'
    <3>1. x \in LeftBy(n) /\ x \in 0 .. StackSize
      BY <2>1, <1>5, <1>20
    <3>2. Waits(x)
      BY <3>1, <2>1, <1>13
    <3> QED BY <3>1, <3>2, <1>6, <1>8, <1>11 DEF Complete
  <2> QED BY <2>1, <1>9, <1>20 DEF UnwindAt, TryAt
<1>22. \A x \in 0 .. StackSize : Waits(x)' => Belongs(x)'
  <2>1. TAKE x \in 0 .. StackSize
  <2>2. HAVE Waits(x)'
  <2>3. PICK k \in 1 .. Here : \/ IsTry(k) /\ cstack[k].start = x
                               \/ Unwinds(k) /\ x \in LeftBy(k)
    BY <2>2, <1>1, <1>13 DEF Finallies, Belongs
  <2>4. CASE k = n
    BY <2>3, <2>4, <1>2, <1>3, <1>9, <1>20 DEF Belongs
  <2>5. CASE k \in 1 .. n - 1
    <3>1. k \in 1 .. n /\ cstack'[k] = cstack[k]
      BY <2>5, <1>9, <1>17
    <3> QED BY <3>1, <2>3, <2>5, <1>9, <1>19 DEF Belongs
  <2> QED BY <2>3, <2>4, <2>5, <1>1, <1>17
<1>23. Owing' = Owing
  <2>1. \A x \in 0 .. StackSize : ~ OwedTo(x, Here)
    BY <1>1 DEF OwedTo
  <2>2. ASSUME NEW x \in 0 .. StackSize
        PROVE  (Waits(x) /\ OwedTo(x, n))' <=> (Waits(x) /\ OwedTo(x, n))
    <3>1. OwedTo(x, n)' <=> x \in LeftBy(n)
      <4>1. ~ (n < Here')
        BY <1>9
      <4> QED BY <4>1, <1>20 DEF OwedTo
    <3>2. OwedTo(x, n) <=> x \in LeftBy(n) /\ \E h \in LeftBy(n) : x < h /\ Waits(h)
      <4>1. n < Here
        BY <1>2
      <4> QED BY <4>1, <1>3 DEF OwedTo
    <3>3. \A h \in LeftBy(n) : h \in Int
      BY <1>5
    <3>4. i \in LeftBy(n) /\ Waits(i) /\ \A h \in LeftBy(n) : Waits(h) => h <= i
      BY <1>7
    <3>5. Waits(x) /\ x \in LeftBy(n) /\ x # i => x < i
      BY <3>3, <3>4
    <3>6. ASSUME NEW h \in LeftBy(n), x < h, Waits(h) PROVE x # i
      BY <3>3, <3>4, <3>6
    <3> QED BY <3>1, <3>2, <3>4, <3>5, <3>6, <1>13
  <2>3. \A x \in 0 .. StackSize :
          (Waits(x) /\ \E k \in 1 .. Here : OwedTo(x, k))'
          <=> (Waits(x) /\ \E k \in 1 .. Here : OwedTo(x, k))
    <3>1. TAKE x \in 0 .. StackSize
    <3>2. \A k \in 1 .. n : (Waits(x) /\ OwedTo(x, k))' <=> (Waits(x) /\ OwedTo(x, k))
      BY <2>2, <1>17, <1>19
    <3> QED BY <3>2, <2>1, <1>9, <1>17
  <2> QED BY <2>3 DEF Owing
<1>24. Finallies'
  <2>1. owed' = Cardinality(Owing')
    BY <1>1, <1>8, <1>23 DEF Finallies
  <2> QED BY <2>1, <1>9, <1>17, <1>19, <1>21, <1>22 DEF Finallies
<1> QED BY <1>1, <1>8, <1>9, <1>14, <1>15, <1>16, <1>18, <1>24 DEF IInv, Complete

LEMMA UnwindEndsStep ==
  ASSUME IInv, UnwindEnds
  PROVE  IInv'
<1>1. /\ Typed /\ Handling /\ Finallies /\ Piled(Here) /\ status = "running"
      /\ Here \in 2 .. Here /\ Here \in Nat /\ ~ IsTry(Here) /\ Unwinds(Here)
      /\ cstack[Here].kind = "method" /\ Top = cstack[Here]
      /\ \A x : ~ (x \in LeftBy(Here) /\ Waits(x))
  <2>1. status = "running" /\ Top.phase = "unwind" /\ Pending = {}
    BY DEF UnwindEnds
  <2> QED BY <2>1, UnwindingFacts
<1>2. PICK n \in 1 .. Here : n = Here - 1 /\ n < Here
  BY <1>1
<1>3. cstack[n].phase = "run" /\ cstack[Here].start = Over(n)
  <2>1. StandsOn(Here, n)
    BY <1>1, <1>2 DEF Piled
  <2> QED BY <2>1, <1>1 DEF StandsOn
<1>4. /\ Pop(n) /\ calldepth' = Over(n)
      /\ exceptionHandler_stack' = CutAll(exceptionHandler_stack, n)
      /\ UNCHANGED <<finally_stack, error_jump, error_jump_set, exceptionHandlerDepth,
                     status, owed, program>>
  BY <1>1, <1>2, <1>3 DEF UnwindEnds
<1>5. /\ \A m \in 1 .. Here : m \in 1 .. n \/ m = Here
      /\ \A m \in 1 .. n : m \in 1 .. Here
  BY <1>1, <1>2
<1>6. Open(Here) = Open(n) /\ NotNormal(Here) = NotNormal(n)
  BY <1>1, <1>5 DEF Open, NotNormal
<1>7. \A x \in 0 .. StackSize :
         Waits(x)' => Waits(x) /\ \E m \in 1 .. n : \/ IsTry(m) /\ cstack[m].start = x
                                                    \/ Unwinds(m) /\ x \in LeftBy(m)
  BY <1>1, <1>4, <1>5 DEF Finallies, Belongs, Waits
<1>8. owed = Cardinality({x \in 0 .. StackSize : Waits(x) /\ \E m \in 1 .. n : OwedTo(x, m)})
  <2>1. \A x \in 0 .. StackSize : ~ (Waits(x) /\ OwedTo(x, Here))
    BY <1>1 DEF OwedTo
  <2>2. \A x \in 0 .. StackSize :
           (Waits(x) /\ \E m \in 1 .. n : OwedTo(x, m))
           <=> (Waits(x) /\ \E m \in 1 .. Here : OwedTo(x, m))
    BY <2>1, <1>5
  <2>3. Owing = {x \in 0 .. StackSize : Waits(x) /\ \E m \in 1 .. n : OwedTo(x, m)}
    BY <2>2 DEF Owing
  <2> QED BY <2>3, <1>1 DEF Finallies
<1>9. /\ Counts(exceptionHandlerDepth', n) /\ Handles(error_jump, error_jump_set, n)
      /\ exceptionHandlerDepth' \in Nat /\ finally_stack' \in [0 .. StackSize -> AnyBlock]
  BY <1>1, <1>4, <1>6 DEF Handling, Handles, Counts, Typed
<1> QED BY <1>1, <1>2, <1>3, <1>4, <1>7, <1>8, <1>9, PopStep

----------------------------------------------------------------------------
(* The invariant.                                                           *)
LEMMA InitInvariant ==
  ASSUME Init
  PROVE  IInv
<1>1. PICK top \in Frame :
        /\ top = [kind |-> "top", start |-> 0, block |-> NoBlock, arg |-> NoBlock,
                  phase |-> "run", oldjump |-> UNSET, oldset |-> FALSE, oldhandlers |-> 0]
        /\ top.kind = "top" /\ top.start = 0 /\ top.block = NoBlock /\ top.arg = NoBlock
        /\ top.phase = "run"
  <2>1. UNSET \in Buffer /\ FALSE \in BOOLEAN /\ 0 \in Nat /\ "run" \in Phase /\ "top" \in Kind
        /\ NoBlock \in AnyBlock
    BY Buffers DEF Phase, Kind, AnyBlock
  <2>2. [kind |-> "top", start |-> 0, block |-> NoBlock, arg |-> NoBlock, phase |-> "run",
         oldjump |-> UNSET, oldset |-> FALSE, oldhandlers |-> 0] \in Frame
    BY <2>1 DEF Frame
  <2> QED BY <2>2
<1>2. cstack = <<top>> /\ cstack \in Seq(Frame) /\ Here = 1 /\ cstack[1] = top /\ Top = top
  BY <1>1 DEF Init, Here, Top
<1>3. Typed
  <2>1. /\ return_stack \in [-1 .. StackSize -> Buffer]
        /\ exceptionHandler_stack \in [0 .. StackSize -> Buffer]
        /\ finally_stack \in [0 .. StackSize -> AnyBlock]
    BY Buffers DEF Init, AnyBlock
  <2>2. /\ calldepth \in 0 .. StackSize - 1 /\ exceptionHandlerDepth \in Nat /\ owed \in Nat
    BY StackAssumption DEF Init
  <2>3. /\ error_jump \in Buffer /\ error_jump_set \in BOOLEAN /\ program \in Programs
        /\ status \in {"running", "exited", "undefined"}
    BY Buffers DEF Init
  <2> QED BY <2>1, <2>2, <2>3, <1>2 DEF Typed
<1>4. /\ PhaseOK(1) /\ Over(1) = 0 /\ ~ IsTry(1) /\ ~ Unwinds(1)
  BY <1>1, <1>2, Heights DEF PhaseOK, Code, Over, IsTry, Unwinds
<1>5. \A i \in 1 .. 1 : i = 1
  OBVIOUS
<1>6. Layout
  <2>1. Piled(1)
    <3>1. (\A i \in 1 .. 1 : PhaseOK(i)) /\ \A i, j \in 1 .. 1 : ~ (i < j)
      BY <1>4, <1>5
    <3>2. \A i \in 2 .. 1 : FALSE
      OBVIOUS
    <3> QED BY <3>1, <3>2, <1>1, <1>2 DEF Piled
  <2>2. AtTop
    BY <1>1, <1>2, <1>4 DEF AtTop, Init
  <2>3. 1 <= program.frames
    BY <1>3, FramesBound
  <2> QED BY <2>1, <2>2, <2>3, <1>2 DEF Layout
<1>7. Returning(1)
  BY DEF Returning
<1>8. Handling
  <2>1. Open(1) = {} /\ NotNormal(1) = {}
    BY <1>4, <1>5 DEF Open, NotNormal
  <2>2. Handles(error_jump, error_jump_set, Here) /\ Counts(exceptionHandlerDepth, Here)
    <3>1. Cardinality(NotNormal(1)) = 0
      BY <2>1, FS_EmptySet
    <3> QED BY <3>1, <2>1, <1>2 DEF Init, Handles, Counts
  <2>3. \A i \in 1 .. 1 : Saved(i)
    BY <1>4, <1>5 DEF Saved
  <2> QED BY <2>2, <2>3, <1>2 DEF Handling
<1>9. Finallies
  <2>1. \A i \in 0 .. StackSize : ~ Waits(i)
    BY DEF Init, Waits
  <2>2. Owing = {} /\ Cardinality(Owing) = 0
    BY <2>1, FS_EmptySet DEF Owing
  <2>3. TryAt(1) /\ UnwindAt(1)
    BY <1>4 DEF TryAt, UnwindAt
  <2>4. owed = 0
    BY DEF Init
  <2> QED BY <2>1, <2>2, <2>3, <2>4, <1>2, <1>5 DEF Finallies
<1> QED BY <1>2, <1>3, <1>6, <1>7, <1>8, <1>9 DEF IInv, Init

LEMMA StutterInvariant ==
  ASSUME IInv, UNCHANGED vars
  PROVE  IInv'
<1> USE DEF vars, Here, Top
<1>1. Typed' <=> Typed
  BY DEF Typed
<1>2. Layout' <=> Layout
  BY DEF Layout, Piled, PhaseOK, StandsOn, Over, AtTop
<1>3. Returning(Here)' <=> Returning(Here)
  BY DEF Returning, BlocksAt, BlockOK, SlotAt, HomeAt, None, Over
<1>4. Handling' <=> Handling
  BY DEF Handling, Handles, Counts, Saved, Guarded, Cleanup, Open, NotNormal, IsTry, Complete
<1>5. Finallies' <=> Finallies
  BY DEF Finallies, Waits, Belongs, TryAt, UnwindAt, LeftBy, Owing, OwedTo, IsTry, Unwinds, Complete
<1> QED BY <1>1, <1>2, <1>3, <1>4, <1>5 DEF IInv, Complete

LEMMA NextInvariant ==
  ASSUME OrdinaryPrograms, IInv, [Next]_vars
  PROVE  IInv'
<1>1. CASE \E arg \in Usable \cup {NoBlock} : Request(arg) \/ SuperRequest(arg)
  BY <1>1, RequestStep, SuperRequestStep
<1>2. CASE \E b \in Usable : Apply(b)
  BY <1>2, ApplyStep
<1>3. CASE \E kind \in {"case", "typedcase"} : MatchCase(kind) \/ CaseMatches(kind)
  BY <1>3, MatchCaseStep, CaseMatchesStep
<1>4. CASE ReturnNormally
  BY <1>4, ReturnNormallyStep
<1>5. CASE EnterTry
  BY <1>5, EnterTryStep
<1>6. CASE TryBodyEnds
  BY <1>6, TryBodyEndsStep
<1>7. CASE CaseEnds
  BY <1>7, CaseEndsStep
<1>8. CASE NoCaseMatches
  BY <1>8, NoCaseMatchesStep
<1>9. CASE FinallyEnds
  BY <1>9, FinallyEndsStep
<1>10. CASE Raise
  BY <1>10, RaiseActionStep
<1>11. CASE NonLocalReturn
  BY <1>11, NonLocalReturnStep
<1>12. CASE UnwindStep
  BY <1>12, UnwindStepStep
<1>13. CASE UnwindFinallyEnds
  BY <1>13, UnwindFinallyEndsStep
<1>14. CASE UnwindEnds
  BY <1>14, UnwindEndsStep
<1>15. CASE UNCHANGED vars
  BY <1>15, StutterInvariant
<1> QED BY <1>1, <1>2, <1>3, <1>4, <1>5, <1>6, <1>7, <1>8, <1>9, <1>10, <1>11, <1>12, <1>13,
           <1>14, <1>15 DEF Next

(* The inductive invariant holds of every ordinary program: what gracelib.c *)
(* keeps for a C call lies at the call's own levels of calldepth, whichever *)
(* of return, non-local return and exception has left the calls above it.   *)
THEOREM Invariance ==
  ASSUME OrdinaryPrograms
  PROVE  Spec => []IInv
<1>1. Init => IInv
  BY InitInvariant
<1>2. IInv /\ [Next]_vars => IInv'
  BY NextInvariant
<1> QED BY <1>1, <1>2, PTL DEF Spec

(* The state stays well typed: calldepth stays below STACK_SIZE, so that no *)
(* request, block, case or finally block writes beyond the arrays.          *)
THEOREM TypeCorrect ==
  ASSUME OrdinaryPrograms
  PROVE  Spec => []TypeOK
<1>1. IInv => TypeOK
  <2>1. SUFFICES ASSUME IInv PROVE TypeOK
    OBVIOUS
  <2>2. Typed /\ \A i \in 1 .. Here : cstack[i] \in Frame
    BY <2>1, PileType DEF IInv
  <2>3. \A i \in 1 .. Here :
          /\ cstack[i].kind \in Kind /\ cstack[i].phase \in Phase
          /\ cstack[i].block \in Block \cup {NoBlock} /\ cstack[i].arg \in Block \cup {NoBlock}
          /\ cstack[i].oldjump \in Buffer
    BY <2>2 DEF Frame, AnyBlock
  <2> QED BY <2>2, <2>3 DEF TypeOK, Typed, AnyBlock
<1> QED BY <1>1, Invariance, PTL

(* Code that runs again, after a return, a non-local return or an exception *)
(* that tryCatch has caught, finds the calldepth it started with.           *)
THEOREM DepthIsRestored ==
  ASSUME OrdinaryPrograms
  PROVE  Spec => []DepthRestored
<1>1. IInv => DepthRestored
  BY RunningFacts DEF DepthRestored, Over, Top
<1> QED BY <1>1, Invariance, PTL

(* In a program whose returns leave no try, error_jump is set exactly while *)
(* a try protects the running code, and it is the innermost such try's.     *)
THEOREM HandlerIsInnermost ==
  ASSUME OrdinaryPrograms
  PROVE  Spec => []InnermostHandler
<1>1. IInv => InnermostHandler
  <2>1. SUFFICES ASSUME IInv, TriesComplete
                 PROVE  /\ error_jump_set <=> OpenTries # {}
                        /\ error_jump_set =>
                             error_jump \in OpenTries /\ \A i \in OpenTries : i <= error_jump
    BY DEF InnermostHandler
  <2>2. Handles(error_jump, error_jump_set, Here) /\ Complete
    BY <2>1 DEF IInv, TriesComplete, Complete, Handling
  <2>3. OpenTries = Open(Here)
    BY DEF OpenTries, Open, IsTry
  <2>4. error_jump \in Open(Here) => error_jump \notin {UNSET, DEAD}
    BY DEF Open, UNSET, DEAD
  <2> QED BY <2>2, <2>3, <2>4 DEF Handles
<1> QED BY <1>1, Invariance, PTL

(* In such a program exceptionHandlerDepth, by which tryCatch decides       *)
(* whether an exception goes on, is the number of handlers around it.       *)
THEOREM HandlersAreCounted ==
  ASSUME OrdinaryPrograms
  PROVE  Spec => []HandlersCounted
<1>1. IInv => HandlersCounted
  BY DEF IInv, HandlersCounted, TriesComplete, Complete, Handling, Counts, NotNormal, IsTry
<1> QED BY <1>1, Invariance, PTL

(* What waits in finally_stack belongs to a try that is active or that a    *)
(* request is unwinding over.                                               *)
THEOREM FinallyBelongs ==
  ASSUME OrdinaryPrograms
  PROVE  Spec => []FinallyBelongsToTry
<1>1. IInv => FinallyBelongsToTry
  <2>1. SUFFICES ASSUME IInv, status = "running",
                        NEW i \in DOMAIN finally_stack, finally_stack[i] # NoBlock
                 PROVE  \E k \in 1 .. Here :
                          \/ cstack[k].kind = "try" /\ cstack[k].start = i
                          \/ cstack[k].phase = "unwind" /\ cstack[k].start < i
    BY DEF FinallyBelongsToTry
  <2>2. i \in 0 .. StackSize /\ Belongs(i)
    BY <2>1 DEF IInv, Typed, Finallies, Waits
  <2>3. PICK k \in 1 .. Here : \/ IsTry(k) /\ cstack[k].start = i
                               \/ Unwinds(k) /\ i \in LeftBy(k)
    BY <2>2 DEF Belongs
  <2>4. cstack[k].start \in Nat
    BY <2>1, PileType DEF IInv, Frame
  <2>5. i \in LeftBy(k) => cstack[k].start < i
    BY <2>2, <2>4 DEF LeftBy
  <2> QED BY <2>3, <2>5 DEF IsTry, Unwinds
<1> QED BY <1>1, Invariance, PTL

(* When an ordinary program is back at its top level, by whatever way, the  *)
(* finally block of every try it has entered has been begun exactly once.   *)
THEOREM FinallyIsApplied ==
  ASSUME OrdinaryPrograms
  PROVE  Spec => []FinallyAlwaysApplied
<1>1. IInv => FinallyAlwaysApplied
  <2>1. SUFFICES ASSUME IInv, Running, Here = 1 PROVE owed = 0
    BY DEF FinallyAlwaysApplied
  <2>2. Finallies /\ ~ IsTry(Here) /\ ~ Unwinds(Here)
    BY <2>1, RunningFacts
  <2>3. \A k \in 1 .. Here : k = Here
    BY <2>1
  <2>4. Owing = {}
    BY <2>2, <2>3 DEF Owing, OwedTo
  <2> QED BY <2>2, <2>4, FS_EmptySet DEF Finallies
<1> QED BY <1>1, Invariance, PTL

(* No exception or return of such a program jumps into a C call that is     *)
(* over, while its returns leave no try.                                    *)
THEOREM JumpsAreDefined ==
  ASSUME OrdinaryPrograms
  PROVE  Spec => []JumpsWhileTriesComplete
<1>1. IInv => JumpsWhileTriesComplete
  BY DEF IInv, Complete, JumpsWhileTriesComplete, NoUndefinedJump
<1> QED BY <1>1, Invariance, PTL

(* A return in a block longjmps into the request of the method in which the *)
(* block was written, even if it leaves try blocks on its way.              *)
THEOREM ReturnsGoHome ==
  ASSUME OrdinaryPrograms
  PROVE  Spec => ReturnGoesHome
<1>1. IInv /\ [Next]_vars => [NonLocalReturn => status' = "running" /\ Len(cstack') = Home]_vars
  BY NonLocalReturnStep
<1> QED BY <1>1, Invariance, PTL DEF Spec, ReturnGoesHome
=============================================================================
