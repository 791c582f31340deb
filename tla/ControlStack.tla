---------------------------- MODULE ControlStack ----------------------------
(***************************************************************************)
(* The control stack of the native run-time library (gracelib.c): method   *)
(* requests, block application, non-local return, try / catch / finally,   *)
(* and match / case, which share the arrays return_stack, finally_stack    *)
(* and exceptionHandler_stack and the globals calldepth, error_jump,       *)
(* error_jump_set and exceptionHandlerDepth.                               *)
(*                                                                         *)
(* A jmp_buf is the position in the C stack of the call that set it.  When *)
(* that call returns or is jumped over, every copy of it becomes DEAD; a   *)
(* longjmp to a DEAD or never-set buffer is undefined behaviour and ends   *)
(* the model's run.  The Grace program is any program: the frame on top of *)
(* the C stack may do next whatever Grace code can do, except what the kind *)
(* of program, chosen at the start, leaves out.                            *)
(***************************************************************************)
EXTENDS Integers, Sequences, FiniteSets

CONSTANTS
  StackSize,   \* STACK_SIZE, the limit of calldepth
  MaxFrames,   \* bound on the C stack of every program
  MaxHandlers, \* bound on exceptionHandlerDepth, which returns do not restore
  Programs     \* kinds of Grace programs: the features they use, a bound on their C stack

Features ==
  {"blocks",         \* it hands blocks on, applies them and matches with case blocks
   "escapeCleanup",  \* an exception is raised in a catch or finally block
   "superRequests",  \* it requests methods on super
   "returnInSuper",  \* a block in a method so requested executes return
   "returnOverTry",  \* a return leaves a try or catch block
   "returnInCase"}   \* a block nested in a typed case block executes return

ASSUME StackAssumption == StackSize \in Nat /\ StackSize > 3
ASSUME FramesAssumption == MaxFrames \in Nat \ {0} /\ MaxHandlers \in Nat
ASSUME ProgramsAssumption ==
  Programs \subseteq [uses : SUBSET Features, frames : 1 .. MaxFrames]

VARIABLES
  cstack,                  \* the active C calls, the running one last
  calldepth,
  return_stack,
  finally_stack,
  exceptionHandler_stack,
  error_jump,
  error_jump_set,
  exceptionHandlerDepth,
  status,                  \* "running", "exited" or "undefined"
  owed,                    \* history: try statements whose finally is still to be applied
  program                  \* the kind of program that runs

vars == <<cstack, calldepth, return_stack, finally_stack, exceptionHandler_stack,
          error_jump, error_jump_set, exceptionHandlerDepth, status, owed, program>>

UNSET == 0
DEAD  == -1
NULL  == -2       \* the retpoint of a block made outside every method

\* A block: the slot of return_stack its retpoint points to and, for the
\* properties, the frame of the method its return leaves.
Block   == [retpoint : {NULL} \cup (0 .. StackSize - 1), home : 1 .. MaxFrames + 3]
NoBlock == [retpoint |-> NULL, home |-> 0]

(* A frame is a C call: the module's top level, a method request, one on    *)
(* super, the application of a block, Block_match running a case block, or  *)
(* tryCatch.                                                                *)
Kind  == {"top", "method", "super", "block", "case", "typedcase", "finally", "try"}
Phase == {"run", "unwind", "body", "cases", "normal", "caught", "uncaught"}

NewFrame(kind, block, arg) ==
  [kind |-> kind, start |-> calldepth, block |-> block, arg |-> arg, phase |-> "run",
   oldjump |-> UNSET, oldset |-> FALSE, oldhandlers |-> 0]

Here  == Len(cstack)
Top   == cstack[Here]
Code  == {"top", "method", "super", "block", "case", "typedcase", "finally"}
Below == cstack[Here - 1]

\* How far callmethod4 has raised calldepth when a frame's Grace code runs:
\* apply and _apply; match, apply (or applyIndirectly) and _apply.
Height(kind) == CASE kind \in {"method", "super"} -> 1
                  [] kind \in {"block", "finally"} -> 2
                  [] kind \in {"case", "typedcase"} -> 3
                  [] OTHER -> 0
Fits_OffByOne(kind) == calldepth + Height(kind) <= StackSize
Fits(kind) == calldepth + Height(kind) < StackSize

Running == status = "running" /\ Top.kind \in Code /\ Top.phase = "run"

\* A block the running code makes now (alloc_Block, block_savedest).
Home == IF Top.kind \in {"top", "method", "super"} THEN Here ELSE Top.block.home
FreshBlock ==
  [retpoint |-> IF calldepth > 0 THEN calldepth - 1 ELSE NULL, home |-> Home]
Usable == {FreshBlock, Top.arg} \ {NoBlock}

Cut(buf, n) == IF buf > n THEN DEAD ELSE buf
CutAll(stk, n) == [i \in DOMAIN stk |-> Cut(stk[i], n)]

----------------------------------------------------------------------------
(* The slots of return_stack a call writes.                                 *)
MethodSlots == [return_stack EXCEPT ![calldepth] = Here + 1]

\* Applying block b at depth d: apply inherits the caller's return point,
\* Block_apply replaces it by the block's own, _apply inherits that.
BlockSlots_KeepsCaller(stk, d, b) ==
  [stk EXCEPT ![d] = stk[d - 1], ![d + 1] = stk[d - 1]]
BlockSlots(stk, d, b) ==
  LET p == IF b.retpoint = NULL THEN stk[d - 1] ELSE stk[b.retpoint]
  IN  [stk EXCEPT ![d] = p, ![d + 1] = p]

\* The request of match sets its own return point.  Block_match then uses
\* apply, or for a block with a pattern applyIndirectly, which does not
\* bring in the block's return point.
CaseSlots(kind, b) ==
  LET own == [return_stack EXCEPT ![calldepth] = Here + 1]
  IN  IF kind = "case" THEN BlockSlots(own, calldepth + 1, b)
      ELSE [own EXCEPT ![calldepth + 1] = Here + 1, ![calldepth + 2] = Here + 1]

----------------------------------------------------------------------------
Push(frame, slots) ==
  /\ cstack' = Append(cstack, frame)
  /\ calldepth' = frame.start + Height(frame.kind)
  /\ return_stack' = slots

\* setjmp(error_jump) in tryCatch returns for the second time.
Catch_NoReset(n) ==
  /\ cstack' = [SubSeq(cstack, 1, n) EXCEPT ![n].phase = "cases"]
  /\ calldepth' = calldepth
  /\ error_jump' = cstack[n].oldjump
  /\ error_jump_set' = cstack[n].oldset
  /\ return_stack' = CutAll(return_stack, n)
  /\ exceptionHandler_stack' = CutAll(exceptionHandler_stack, n)

Catch_KeepsJump(n) ==
  /\ cstack' = [SubSeq(cstack, 1, n) EXCEPT ![n].phase = "cases"]
  /\ calldepth' = cstack[n].start
  /\ error_jump' = error_jump
  /\ error_jump_set' = cstack[n].oldset
  /\ return_stack' = CutAll(return_stack, n)
  /\ exceptionHandler_stack' = CutAll(exceptionHandler_stack, n)

Catch(n) ==
  /\ cstack' = [SubSeq(cstack, 1, n) EXCEPT ![n].phase = "cases"]
  /\ calldepth' = cstack[n].start
  /\ error_jump' = cstack[n].oldjump
  /\ error_jump_set' = cstack[n].oldset
  /\ return_stack' = CutAll(return_stack, n)
  /\ exceptionHandler_stack' = CutAll(exceptionHandler_stack, n)

\* The process ends, and with it everything but the way it ended.
End(how) ==
  /\ status' = how
  /\ cstack' = SubSeq(cstack, 1, 1)
  /\ calldepth' = 0
  /\ return_stack' = [i \in DOMAIN return_stack |-> UNSET]
  /\ finally_stack' = [i \in DOMAIN finally_stack |-> NoBlock]
  /\ exceptionHandler_stack' = [i \in DOMAIN exceptionHandler_stack |-> UNSET]
  /\ error_jump' = UNSET
  /\ error_jump_set' = FALSE
  /\ exceptionHandlerDepth' = 0
  /\ owed' = 0
  /\ program' = program

LongjmpTo(buf, finallies, handlers) ==
  IF buf \in 1 .. Here
  THEN /\ Catch(buf)
       /\ finally_stack' = finallies
       /\ exceptionHandlerDepth' = handlers
       /\ UNCHANGED <<status, owed, program>>
  ELSE End("undefined")

\* graceRaise, gracedie and Exception_raise.
RaiseNow ==
  IF error_jump_set THEN LongjmpTo(error_jump, finally_stack, exceptionHandlerDepth)
                    ELSE End("exited")

\* A C call returns: it leaves the stack and its jmp_buf dies.
Pop(n) ==
  /\ cstack' = SubSeq(cstack, 1, n)
  /\ return_stack' = CutAll(return_stack, n)

\* Would an exception raised now leave a catch or finally block?
OpenTries == {i \in 1 .. Here : cstack[i].kind = "try" /\ cstack[i].phase = "body"}
Cleanups  == {i \in 1 .. Here :
                \/ cstack[i].kind = "finally"
                \/ cstack[i].kind \in {"case", "typedcase"} /\ cstack[i - 1].kind = "try"}
MayRaise ==
  (\E i \in Cleanups : \A j \in OpenTries : j < i) => "escapeCleanup" \in program.uses

----------------------------------------------------------------------------
Init ==
  /\ calldepth = 0
  /\ cstack = << [kind |-> "top", start |-> 0, block |-> NoBlock, arg |-> NoBlock,
                  phase |-> "run", oldjump |-> UNSET, oldset |-> FALSE,
                  oldhandlers |-> 0] >>
  /\ return_stack = [i \in -1 .. StackSize |-> UNSET]
  /\ finally_stack = [i \in 0 .. StackSize |-> NoBlock]
  /\ exceptionHandler_stack = [i \in 0 .. StackSize |-> UNSET]
  /\ error_jump = UNSET
  /\ error_jump_set = FALSE
  /\ exceptionHandlerDepth = 0
  /\ status = "running"
  /\ owed = 0
  /\ program \in Programs

\* A request by callmethod4, to which the code may pass a block it can use.
Requested(kind, arg, slots) ==
  /\ Running
  /\ Here < program.frames
  /\ arg \in Usable \cup {NoBlock}
  /\ arg # NoBlock => "blocks" \in program.uses
  /\ IF Fits(kind)
     THEN /\ Push(NewFrame(kind, NoBlock, arg), slots)
          /\ UNCHANGED <<finally_stack, exceptionHandler_stack, error_jump,
                         error_jump_set, exceptionHandlerDepth, status, owed, program>>
     ELSE MayRaise /\ RaiseNow

(* callmethodflags, which sets a return point.                              *)
Request(arg) == Requested("method", arg, MethodSlots)

(* A request on super calls callmethod4 itself: the slot keeps what some    *)
(* earlier call has left there.                                             *)
SuperRequest(arg) == "superRequests" \in program.uses /\ Requested("super", arg, return_stack)

(* Applying a block; its code can hand on the block the frame was given.    *)
Apply(b) ==
  /\ Running
  /\ Here < program.frames
  /\ b \in Usable
  /\ "blocks" \in program.uses
  /\ IF Fits("block")
     THEN /\ Push(NewFrame("block", b, Top.arg), BlockSlots(return_stack, calldepth, b))
          /\ UNCHANGED <<finally_stack, exceptionHandler_stack, error_jump,
                         error_jump_set, exceptionHandlerDepth, status, owed, program>>
     ELSE MayRaise /\ RaiseNow

(* match(x)case{...}: a case block made here runs inside its match method.  *)
MatchCase(kind) ==
  /\ Running
  /\ Here < program.frames
  /\ "blocks" \in program.uses
  /\ IF Fits(kind)
     THEN /\ Push(NewFrame(kind, FreshBlock, NoBlock), CaseSlots(kind, FreshBlock))
          /\ UNCHANGED <<finally_stack, exceptionHandler_stack, error_jump, error_jump_set,
                         exceptionHandlerDepth, status, owed, program>>
     ELSE MayRaise /\ RaiseNow

\* calldepth once the running call has returned.
Lowered == calldepth - Height(Top.kind)

(* Grace code runs to its end and returns to Grace code.                    *)
ReturnNormally ==
  /\ Running
  /\ Here > 1
  /\ Below.kind \in Code /\ Below.phase = "run"
  /\ Pop(Here - 1)
  /\ calldepth' = Lowered
  /\ exceptionHandler_stack' = CutAll(exceptionHandler_stack, Here - 1)
  /\ UNCHANGED <<finally_stack, error_jump, error_jump_set, exceptionHandlerDepth,
                 status, owed, program>>

(* tryCatch up to the application of the protected block.  There is always  *)
(* a finally block: tryCatch makes an empty one if the program has none.    *)
(* Left out is a try entered so near the depth limit that a request of its  *)
(* own (apply, match) overflows: the error may then leave it with its       *)
(* finally block not applied.                                               *)
EnterTry ==
  /\ Running
  /\ Here + 1 < program.frames
  /\ exceptionHandlerDepth < MaxHandlers
  /\ Fits("case")
  /\ LET b == FreshBlock
         t == [NewFrame("try", b, NoBlock) EXCEPT
                 !.phase = "body", !.oldset = error_jump_set, !.oldjump = error_jump,
                 !.oldhandlers = exceptionHandlerDepth]
     IN  /\ cstack' = cstack \o <<t, NewFrame("block", b, Top.arg)>>
         /\ return_stack' = BlockSlots(return_stack, calldepth, b)
         /\ finally_stack' = [finally_stack EXCEPT ![calldepth] = b]
         /\ exceptionHandler_stack' = [exceptionHandler_stack EXCEPT ![calldepth] = Here + 1]
  /\ calldepth' = calldepth + Height("block")
  /\ error_jump' = Here + 1
  /\ error_jump_set' = TRUE
  /\ exceptionHandlerDepth' = exceptionHandlerDepth + 1
  /\ owed' = owed + 1
  /\ UNCHANGED <<status, program>>

(* tryCatch, whose frame is at n, starts its finally block.                 *)
StartFinally(n, phase) ==
  LET t == cstack[n]
  IN  /\ cstack' = Append([SubSeq(cstack, 1, n) EXCEPT ![n].phase = phase],
                          [NewFrame("finally", t.block, NoBlock) EXCEPT !.start = Lowered])
      /\ calldepth' = Lowered + Height("finally")
      /\ return_stack' = BlockSlots(CutAll(return_stack, n), Lowered, t.block)
      /\ exceptionHandler_stack' = CutAll(exceptionHandler_stack, n)
      /\ owed' = owed - 1
      /\ UNCHANGED <<finally_stack, status, program>>

(* The protected block ends normally.                                       *)
TryBodyEnds ==
  /\ Running /\ Here > 1
  /\ Below.kind = "try" /\ Below.phase = "body"
  /\ StartFinally(Here - 1, "normal")
  /\ error_jump_set' = Below.oldset
  /\ error_jump' = Below.oldjump
  /\ exceptionHandlerDepth' = Below.oldhandlers

(* A case of the try matches the exception and runs.                        *)
CaseMatches(kind) ==
  /\ status = "running" /\ Top.kind = "try" /\ Top.phase = "cases"
  /\ Push(NewFrame(kind, Top.block, NoBlock), CaseSlots(kind, Top.block))
  /\ UNCHANGED <<finally_stack, exceptionHandler_stack, error_jump, error_jump_set,
                 exceptionHandlerDepth, status, owed, program>>

CaseEnds ==
  /\ Running /\ Here > 1
  /\ Below.kind = "try" /\ Below.phase = "cases"
  /\ StartFinally(Here - 1, "caught")
  /\ UNCHANGED <<error_jump, error_jump_set, exceptionHandlerDepth>>

NoCaseMatches_SkipsFinally ==
  /\ status = "running" /\ Top.kind = "try" /\ Top.phase = "cases"
  /\ MayRaise
  /\ IF exceptionHandlerDepth > 1
     THEN LongjmpTo(Top.oldjump, [finally_stack EXCEPT ![Top.start] = NoBlock],
                    exceptionHandlerDepth - 1)
     ELSE End("exited")

NoCaseMatches ==
  /\ status = "running" /\ Top.kind = "try" /\ Top.phase = "cases"
  /\ MayRaise
  /\ StartFinally(Here, "uncaught")
  /\ UNCHANGED <<error_jump, error_jump_set, exceptionHandlerDepth>>

(* The finally block ends: tryCatch returns its value, or passes an         *)
(* exception no case matched to the next handler.                           *)
\* Plausible slips of the end of tryCatch.
HandlersLeft_Kept(phase) == exceptionHandlerDepth
HandlersLeft(phase) ==
  IF phase = "normal" THEN exceptionHandlerDepth ELSE exceptionHandlerDepth - 1

FinallyCleared_Not(t) == finally_stack
FinallyCleared(t) == [finally_stack EXCEPT ![t.start] = NoBlock]

FinallyEnds ==
  /\ Running /\ Here > 1
  /\ Below.kind = "try" /\ Top.kind = "finally"
  /\ IF Below.phase # "uncaught"
     THEN /\ Pop(Here - 2)
          /\ calldepth' = Lowered
          /\ exceptionHandler_stack' = CutAll(exceptionHandler_stack, Here - 2)
          /\ finally_stack' = FinallyCleared(Below)
          /\ exceptionHandlerDepth' = HandlersLeft(Below.phase)
          /\ UNCHANGED <<error_jump, error_jump_set, status, owed, program>>
     ELSE IF HandlersLeft(Below.phase) > 0
          THEN LongjmpTo(Below.oldjump, FinallyCleared(Below), HandlersLeft(Below.phase))
          ELSE End("exited")

(* The running code raises an exception.                                    *)
Raise ==
  /\ Running
  /\ MayRaise
  /\ RaiseNow

\* What the frames a return leaves ask of the program.  The finally blocks it runs
\* need two levels of calldepth: returns so near the limit that their requests
\* overflow are left out, and so is a return out of a finally block.
Left(kinds) == {i \in Home .. Here : cstack[i].kind \in kinds}
MayReturn ==
  /\ Left({"try"}) # {} => "returnOverTry" \in program.uses /\ Fits("finally")
  /\ Left({"typedcase"}) \ {Here} # {} => "returnInCase" \in program.uses
  /\ cstack[Home].kind = "super" => "returnInSuper" \in program.uses
  /\ Left({"finally"}) = {}

(* block_return: a return statement in a block jumps to the return point    *)
(* that the block's retpoint holds now; the request there starts to apply   *)
(* the finally blocks above its own depth.  A return in a block outside     *)
(* every method is left out.                                                *)
NonLocalReturn ==
  /\ Running
  /\ Home > 1 /\ Here # Home
  /\ MayReturn
  /\ LET n == return_stack[Top.block.retpoint]
     IN  IF n \in 1 .. Here
         THEN /\ cstack' = [SubSeq(cstack, 1, n) EXCEPT ![n].phase = "unwind"]
              /\ return_stack' = CutAll(return_stack, n)
              /\ exceptionHandler_stack' = CutAll(exceptionHandler_stack, n)
              /\ error_jump' = Cut(error_jump, n)
              /\ UNCHANGED <<calldepth, error_jump_set, status, finally_stack,
                             exceptionHandlerDepth, owed, program>>
         ELSE End("undefined")

Pending == {i \in Top.start + 1 .. calldepth : finally_stack[i] # NoBlock}
Highest == CHOOSE i \in Pending : \A k \in Pending : k <= i

\* The block b, when the method it was made in may have been left: no return goes there.
StillHome(b) == IF b.home > Here THEN [b EXCEPT !.home = 1] ELSE b

(* The loop of callmethodflags after a non-local return.                    *)
UnwindStep ==
  /\ status = "running" /\ Top.phase = "unwind"
  /\ Pending # {}
  /\ Push(NewFrame("finally", StillHome(finally_stack[Highest]), NoBlock),
          BlockSlots(return_stack, calldepth, finally_stack[Highest]))
  /\ owed' = owed - 1
  /\ UNCHANGED <<finally_stack, exceptionHandler_stack, error_jump, error_jump_set,
                 exceptionHandlerDepth, status, program>>

UnwindFinallyEnds ==
  /\ Running /\ Here > 1
  /\ Below.phase = "unwind"
  /\ Pop(Here - 1)
  /\ calldepth' = Lowered
  /\ LET i == CHOOSE k \in 0 .. Top.start :
                /\ k > Below.start /\ finally_stack[k] # NoBlock
                /\ \A h \in k + 1 .. Top.start : finally_stack[h] = NoBlock
     IN  /\ finally_stack' = [finally_stack EXCEPT ![i] = NoBlock]
         /\ error_jump' = Cut(exceptionHandler_stack[i], Here - 1)
  /\ exceptionHandler_stack' = CutAll(exceptionHandler_stack, Here - 1)
  /\ UNCHANGED <<error_jump_set, exceptionHandlerDepth, status, owed, program>>

\* The request returns the value.  A match request that a return has left
\* this way did not match, and tryCatch or matchCase goes on.
UnwindEnds ==
  /\ status = "running" /\ Top.phase = "unwind"
  /\ Pending = {}
  /\ Pop(Here - 1)
  /\ calldepth' = Top.start
  /\ exceptionHandler_stack' = CutAll(exceptionHandler_stack, Here - 1)
  /\ UNCHANGED <<finally_stack, error_jump, error_jump_set, exceptionHandlerDepth,
                 status, owed, program>>

Next ==
  \/ \E arg \in Usable \cup {NoBlock} : Request(arg) \/ SuperRequest(arg)
  \/ \E b \in Usable : Apply(b)
  \/ \E kind \in {"case", "typedcase"} : MatchCase(kind) \/ CaseMatches(kind)
  \/ ReturnNormally
  \/ EnterTry
  \/ TryBodyEnds
  \/ CaseEnds
  \/ NoCaseMatches
  \/ FinallyEnds
  \/ Raise
  \/ NonLocalReturn
  \/ UnwindStep
  \/ UnwindFinallyEnds
  \/ UnwindEnds

Spec == Init /\ [][Next]_vars

----------------------------------------------------------------------------
Buffer == {UNSET, DEAD} \cup (1 .. MaxFrames + 3)

(* The type of the state.  calldepth stays below STACK_SIZE, within which   *)
(* the arrays it indexes are allocated.                                     *)
TypeOK ==
  /\ \A i \in 1 .. Here :
       /\ cstack[i].kind \in Kind /\ cstack[i].phase \in Phase
       /\ cstack[i].block \in Block \cup {NoBlock} /\ cstack[i].arg \in Block \cup {NoBlock}
       /\ cstack[i].oldjump \in Buffer
  /\ calldepth \in 0 .. StackSize - 1
  /\ return_stack \in [-1 .. StackSize -> Buffer]
  /\ finally_stack \in [0 .. StackSize -> Block \cup {NoBlock}]
  /\ exceptionHandler_stack \in [0 .. StackSize -> Buffer]
  /\ error_jump \in Buffer
  /\ error_jump_set \in BOOLEAN
  /\ exceptionHandlerDepth \in Nat
  /\ status \in {"running", "exited", "undefined"}
  /\ owed \in Nat
  /\ program \in Programs

(* However code was left (return, non-local return, exception), the code    *)
(* that runs next sees the calldepth it started with: return_stack and      *)
(* finally_stack are indexed by it.                                         *)
DepthRestored == Running => calldepth = Top.start + Height(Top.kind)

\* No try or catch block has been left by a return: see NoUndefinedJump.
TriesComplete == status = "running" /\ "returnOverTry" \notin program.uses

(* While no return leaves a try, error_jump is set exactly while some try   *)
(* is protecting the running code, and leads to the innermost such try.     *)
InnermostHandler ==
  TriesComplete =>
    /\ error_jump_set <=> OpenTries # {}
    /\ error_jump_set => error_jump \in OpenTries /\ \A i \in OpenTries : i <= error_jump

(* exceptionHandlerDepth, which decides whether an exception that no case   *)
(* matched goes on or ends the program, counts the handlers around it.      *)
HandlersCounted ==
  TriesComplete =>
    exceptionHandlerDepth =
      Cardinality({i \in 1 .. Here : cstack[i].kind = "try" /\ cstack[i].phase # "normal"})

(* A finally block waits in finally_stack only while its try is active or a *)
(* request is unwinding over it, so that no later return applies it for a   *)
(* try long gone.                                                           *)
FinallyBelongsToTry ==
  status = "running" =>
    \A i \in DOMAIN finally_stack : finally_stack[i] # NoBlock =>
      \E k \in 1 .. Here : \/ cstack[k].kind = "try" /\ cstack[k].start = i
                           \/ cstack[k].phase = "unwind" /\ cstack[k].start < i

(* When the program is back at its top level, the finally block of every    *)
(* try it entered has been applied once.                                    *)
FinallyAlwaysApplied == (Running /\ Here = 1) => owed = 0

(* A return in a block, however deep, leaves the method the block was       *)
(* written in and no other.                                                 *)
ReturnGoesHome ==
  [][NonLocalReturn => status' = "running" /\ Len(cstack') = Home]_vars

(* No exception or return jumps into a C call that is over.                 *)
NoUndefinedJump == status # "undefined"

(* Nor does one in a program that leaves no try by return.                  *)
JumpsWhileTriesComplete == "returnOverTry" \notin program.uses => NoUndefinedJump
=============================================================================
