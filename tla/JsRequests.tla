----------------------------- MODULE JsRequests -----------------------------
(***************************************************************************)
(* How compiled programs run on the JavaScript run-time library: requests  *)
(* (callmethod, callmethodsuper), blocks, exceptions and returns from      *)
(* blocks (js/gracelib.js), and the code that genjs.grace generates around *)
(* methods and object constructors.  JavaScript's exceptions unwind its    *)
(* stack; what a request means is passed in global variables beside it.    *)
(***************************************************************************)
EXTENDS Naturals, Sequences, FiniteSets

CONSTANTS
  Object,        \* whole objects
  Part,          \* objects and the parts of them that super leads to
  Super,         \* superobj, or NONE
  Name,
  Defines,       \* the methods that a part defines
  Confidential,  \* those of them that are confidential
  Missing,       \* which requests, of "self", "super" and "other", may name
                 \* methods that are not there
  Module,        \* the object of the program's module
  BLOCK,         \* any block, as an object
  NONE,
  MaxCalls, MaxFrames, MaxBlocks   \* bounds

Error == [exctype |-> "graceexception"]

ConstantsOK ==
  /\ Module \in Object /\ Object \subseteq Part /\ IsFiniteSet(Part)
  /\ {BLOCK, NONE} \cap Part = {} /\ BLOCK # NONE /\ Error # NONE
  /\ Super \in [Part -> Part \cup {NONE}]
  /\ Defines \in [Part -> SUBSET Name] /\ Confidential \subseteq Name
  /\ Missing \subseteq {"self", "super", "other"}
  /\ {MaxCalls, MaxFrames, MaxBlocks} \subseteq Nat

VARIABLES
  stack,            \* the activations of generated code and of tryCatch and match
  superDepth,       \* the part whose code runs
  overrideReceiver, \* self of the next method, if it is not the object requested
  onSelf,           \* whether confidential methods may be requested
  invocationCount,
  flying,           \* the exception that unwinds the stack, or NONE
  blocks,           \* blocks that the program has kept
  serial            \* history: the number of methods that have started

globals == <<superDepth, overrideReceiver, onSelf, invocationCount, flying>>
vars == <<stack, globals, blocks, serial>>

Top     == stack[Len(stack)]
Callers == SubSeq(stack, 1, Len(stack) - 1)
Code    == {"module", "method", "block", "init"}
FrameKind == {"method", "block", "init", "match", "try"}
Runs    == stack # << >> /\ flying = NONE /\ Top.kind \in Code
Native(kind) == stack # << >> /\ flying = NONE /\ Top.kind = kind
Room    == Len(stack) < MaxFrames

\* An activation of the code of kind: its self, the superDepth it starts with (of a
\* method the part it is in) and the one to restore, the method that its blocks return
\* from (and its number).
Activation(kind, self, depth, orig, target, home) ==
  [kind |-> kind, self |-> self, depth |-> depth, orig |-> orig,
   target |-> target, home |-> home, asked |-> self, name |-> NONE, inside |-> TRUE]

Main == Activation("module", Module, Module, Module, NONE, NONE)

\* A block written in the code that runs; a typed one has a pattern.
Literal(typed) ==
  [receiver |-> Top.self, target |-> Top.target, home |-> Top.home, typed |-> typed]

\* The part whose method m a request to o finds.
Found(o, m) ==
  LET from[p \in Part] ==
        IF m \in Defines[p] THEN p ELSE IF Super[p] = NONE THEN NONE ELSE from[Super[p]]
  IN  IF o \in Part THEN from[o] ELSE NONE

Init ==
  /\ stack = <<Main>>
  /\ superDepth = Module /\ overrideReceiver = NONE /\ onSelf = FALSE
  /\ invocationCount = 0 /\ flying = NONE /\ blocks = {} /\ serial = 0

----------------------------------------------------------------------------
(* callmethod of a method of a program; override and self are what the      *)
(* globals are by then, asked is who should answer.                         *)
callmethod(o, m, override, self, asked, inside) ==
  LET part  == Found(o, m)
      entry == Activation("method", IF override = NONE THEN o ELSE override, part,
                          superDepth, invocationCount, serial)
  IN  IF part = NONE \/ (m \in Confidential /\ ~ self)
      THEN /\ superDepth' = IF part = NONE THEN o ELSE part
           /\ overrideReceiver' = override /\ onSelf' = self /\ flying' = Error
           /\ UNCHANGED <<stack, invocationCount, blocks, serial>>
      ELSE /\ superDepth' = part
           /\ overrideReceiver' = NONE /\ onSelf' = FALSE
           /\ stack' = Append(stack, [entry EXCEPT !.asked = asked, !.name = m, !.inside = inside])
           /\ invocationCount' = invocationCount + 1
           /\ serial' = serial + 1
           /\ UNCHANGED <<flying, blocks>>

MayAsk(kind, o, m) == kind \in Missing \/ Found(o, m) # NONE

RequestSelf(m) ==
  /\ Runs /\ Room /\ serial < MaxCalls /\ MayAsk("self", Top.self, m)
  /\ callmethod(Top.self, m, overrideReceiver, TRUE, Top.self, TRUE)

RequestOther(o, m) ==
  /\ Runs /\ Room /\ serial < MaxCalls /\ MayAsk("other", o, m)
  /\ callmethod(o, m, overrideReceiver, onSelf, o, FALSE)

(* callmethodsuper.                                                         *)
RequestSuper(m) ==
  LET o == IF superDepth \in Part THEN Super[superDepth] ELSE NONE
  IN  /\ Runs /\ Room /\ serial < MaxCalls /\ MayAsk("super", o, m)
      /\ callmethod(o, m, Top.self, TRUE, Top.self, TRUE)

\* The function of a block, applied with its arguments or with a list of them: with
\* the whole of self in superDepth, or with the block, never with the part that the
\* block is written in.
Body(b, orig, depth) == Activation("block", b.receiver, depth, orig, b.target, b.home)

\* A request of apply or match of a block that goes to the object in
\* overrideReceiver instead finds neither, and unwinds.
Misdirected(callers) ==
  /\ stack' = callers /\ flying' = Error
  /\ overrideReceiver' = NONE /\ onSelf' = FALSE /\ UNCHANGED superDepth

(* callmethod(b, "apply"): GraceBlock_apply, which checks a typed argument. *)
callapply(callers, b) ==
  /\ IF overrideReceiver # NONE THEN Misdirected(callers)
     ELSE /\ onSelf' = FALSE /\ UNCHANGED overrideReceiver
          /\ \/ /\ stack' = Append(callers, Body(b, superDepth, b.receiver))
                /\ superDepth' = b.receiver /\ flying' = NONE
             \/ /\ b.typed
                /\ stack' = callers /\ flying' = Error /\ UNCHANGED superDepth
  /\ UNCHANGED <<invocationCount, blocks, serial>>

(* callmethod(b, "match"): GraceBlock_match, which applies the block unless *)
(* it has a pattern that does not match; otherwise is the exception then.   *)
callmatch(callers, b, otherwise) ==
  /\ IF overrideReceiver # NONE THEN Misdirected(callers)
     ELSE /\ onSelf' = FALSE /\ UNCHANGED overrideReceiver
          /\ LET depth    == IF b.typed THEN BLOCK ELSE b.receiver
                 matching == Activation("match", BLOCK, BLOCK, superDepth, NONE, NONE)
             IN  \/ /\ stack' = callers \o <<matching, Body(b, BLOCK, depth)>>
                    /\ superDepth' = depth /\ flying' = NONE
                 \/ /\ b.typed
                    /\ stack' = callers /\ flying' = otherwise /\ UNCHANGED superDepth
  /\ UNCHANGED <<invocationCount, blocks, serial>>

\* The code that runs passes a block on, or keeps it.
Keep(typed) ==
  /\ Runs /\ Cardinality(blocks \cup {Literal(typed)}) <= MaxBlocks
  /\ blocks' = blocks \cup {Literal(typed)}
  /\ UNCHANGED <<stack, globals, serial>>

Apply(b) == Runs /\ Room /\ callapply(stack, b)

(* A case of matchCase.                                                     *)
Match(b) == Runs /\ Room /\ callmatch(stack, b, NONE)

(* An object constructor: obj_init runs its initialisers.                   *)
Construct(o) ==
  /\ Runs /\ Room
  /\ stack' = Append(stack, Activation("init", o, o, superDepth, Top.target, Top.home))
  /\ superDepth' = o
  /\ UNCHANGED <<overrideReceiver, onSelf, invocationCount, flying, blocks, serial>>

(* The code that runs is done; so is GraceBlock_match when its block is.    *)
Return ==
  /\ Len(stack) > 1 /\ (Runs \/ Native("match"))
  /\ stack' = Callers /\ superDepth' = Top.orig
  /\ UNCHANGED <<overrideReceiver, onSelf, invocationCount, flying, blocks, serial>>

Throw(e) ==
  /\ flying' = e
  /\ UNCHANGED <<stack, superDepth, overrideReceiver, onSelf, invocationCount, blocks, serial>>

Raise == Runs /\ Throw(Error)

(* A return statement in a block throws a ReturnException ...               *)
ReturnFromBlock ==
  /\ Runs /\ Top.kind = "block" /\ Top.target # NONE
  /\ Throw([exctype |-> "return", target |-> Top.target, home |-> Top.home])

\* Mutant: a method catches every return.
Caught_Any == flying.exctype = "return" /\ Top.kind = "method"

\* Whether the method on top returns with the exception.
Caught == flying.exctype = "return" /\ Top.kind = "method" /\ Top.target = flying.target

(* ... which the method catches.                                            *)
CatchReturn ==
  /\ flying # NONE /\ Len(stack) > 1 /\ Caught
  /\ stack' = Callers /\ superDepth' = Top.orig /\ flying' = NONE
  /\ UNCHANGED <<overrideReceiver, onSelf, invocationCount, blocks, serial>>

\* Mutant: callmethod restores superDepth only when its method returns.
Unwind_NotRestored ==
  /\ flying # NONE /\ Len(stack) > 1 /\ Top.kind # "try" /\ ~ Caught
  /\ stack' = Callers
  /\ UNCHANGED <<globals, blocks, serial>>

(* Otherwise callmethod restores superDepth, which obj_init does not.       *)
Unwind ==
  /\ flying # NONE /\ Len(stack) > 1 /\ Top.kind # "try" /\ ~ Caught
  /\ stack' = Callers
  /\ superDepth' = IF Top.kind = "init" THEN superDepth ELSE Top.orig
  /\ UNCHANGED <<overrideReceiver, onSelf, invocationCount, flying, blocks, serial>>

----------------------------------------------------------------------------
(* tryCatch with one case, and perhaps a finally block.                     *)
Try(typed, fin) ==
  /\ Runs /\ Room
  /\ callapply(Append(stack, [kind |-> "try", stage |-> "body", case |-> Literal(typed),
                             fin |-> IF fin THEN Literal(FALSE) ELSE NONE,
                             pending |-> NONE]),
               Literal(FALSE))

Trying(stages) == stack # << >> /\ Top.kind = "try" /\ Top.stage \in stages

TryCase ==
  /\ Trying({"body"}) /\ flying = Error
  /\ callmatch(Append(Callers, [Top EXCEPT !.stage = "case"]), Top.case, Error)

\* The block or the case is done, or has thrown what is not caught.
TryFinally ==
  /\ Trying({"body", "case"}) /\ ~ (Top.stage = "body" /\ flying = Error)
  /\ IF Top.fin # NONE
     THEN callapply(Append(Callers, [Top EXCEPT !.stage = "finally", !.pending = flying]), Top.fin)
     ELSE stack' = Callers /\ UNCHANGED <<globals, blocks, serial>>

\* The finally block is done: what was thrown goes on; or it has thrown itself.
TryEnds ==
  /\ Trying({"finally"})
  /\ stack' = Callers
  /\ flying' = IF flying = NONE THEN Top.pending ELSE flying
  /\ UNCHANGED <<superDepth, overrideReceiver, onSelf, invocationCount, blocks, serial>>

(* The program ends, or nothing catches what it throws; another one starts. *)
NextProgram ==
  /\ Len(stack) = 1
  /\ stack' = <<Main>>
  /\ superDepth' = Module /\ overrideReceiver' = NONE /\ onSelf' = FALSE
  /\ invocationCount' = 0 /\ flying' = NONE /\ blocks' = {} /\ serial' = 0

Next ==
  \/ \E m \in Name : RequestSelf(m) \/ RequestSuper(m) \/ \E o \in Object : RequestOther(o, m)
  \/ \E b \in blocks : Apply(b) \/ Match(b)
  \/ \E typed \in BOOLEAN : Keep(typed) \/ Match(Literal(typed))
  \/ \E o \in Object \ {Module} : Construct(o)
  \/ Return \/ Raise \/ ReturnFromBlock \/ CatchReturn \/ Unwind
  \/ \E typed, fin \in BOOLEAN : Try(typed, fin)
  \/ TryCase \/ TryFinally \/ TryEnds
  \/ NextProgram

Spec == Init /\ [][Next]_vars

----------------------------------------------------------------------------
(* The globals that say what a request means have values of their types, and *)
(* frames of the stack are of known kinds; the module's is the outermost.   *)
TypeOK ==
  /\ superDepth \in Part \cup {BLOCK, NONE} /\ overrideReceiver \in Object \cup {BLOCK, NONE}
  /\ onSelf \in BOOLEAN /\ invocationCount = serial
  /\ stack[1] = Main /\ \A k \in 2..Len(stack) : stack[k].kind \in FrameKind
  /\ flying # NONE => flying.exctype \in {"graceexception", "return"}

(* Methods, constructors and the module, also after exceptions below them   *)
(* have been caught, find their own part in superDepth, where super requests*)
(* and the native code of lists look (blocks need not, see Body); self of a *)
(* method is who was asked, and the confidential ones were asked by self or *)
(* super.                                                                   *)
SelfAndSuper ==
  /\ Runs /\ Top.kind # "block" => superDepth = Top.depth
  /\ \A k \in DOMAIN stack :
       stack[k].kind = "method" => /\ stack[k].self = stack[k].asked
                                   /\ stack[k].name \in Confidential => stack[k].inside

(* A return in a block ends the method that the block is written in, and    *)
(* none at all if that has ended.                                           *)
ReturnGoesHomeStep == CatchReturn => flying.home = Top.home
ReturnGoesHome == [][ReturnGoesHomeStep]_vars
=============================================================================
