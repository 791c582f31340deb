------------------------------ MODULE Libraries ------------------------------
(***************************************************************************)
(* Programs that use a library: one with a stringMap, with a dictionary,   *)
(* one with a set, one with built-in lists, one with a list written in     *)
(* Grace, one with objects that inherit, one with strings, or one that runs*)
(* in JavaScript, chosen at the start.  The collections share the variables*)
(* that have the same role in them, and kind says whose they are.  What    *)
(* each library promises is a property of every program, proved in         *)
(* LibrariesProofs; where a component has a proof module, the instance is  *)
(* of that module, which extends the component, because the theorems here  *)
(* rest on those.                                                          *)
(***************************************************************************)
EXTENDS Integers, Sequences

CONSTANTS
  UNUSED, REMOVED, ABSENT,
  Key, Value, KeyHash, MapCapacity,          \* of the stringMap
  DictKey, DictCapacity, Programs,           \* of the dictionary, with Value
  Element, ElementHash, SetCapacity,         \* of the set
  List, InitialSpace, MaxSizes,              \* of built-in lists
  LIST, SELF, MaxSize, MaxLoops, ERROR,      \* of the list in Grace; of all lists
  Name, NULL,                                \* methods, nothing
  Addr, DEFAULT, Class, Parent, Defines, MaxNesting,  \* of objects
  StringAddr, Char, MaxDepth, HashBits, hash_init, MaxLiteral, MaxLen,  \* of strings
  Object, JsPart, Super, JsDefines, Confidential, Missing, Module,  \* of JavaScript
  BLOCK, MaxCalls, MaxFrames, MaxBlocks

VARIABLES
  kind,   \* "map", "dict", "set", "list" (built-in), "grace list", "object", "rope" or "js"
  inner, count, rehash, iter, status, phase,  \* of tables and of the list in Grace
  program,                                    \* of the dictionary
  store, loops,                               \* of lists
  answer,
  obj, data, building, known,                 \* of objects
  cell, held, interned,                       \* of strings
  stack, superDepth, overrideReceiver, onSelf, invocationCount, flying, blocks, serial

tableVars == <<inner, count, rehash, iter, status, phase, program>>
listVars  == <<store, loops>>
objectVars == <<obj, data, building, known>>
ropeVars  == <<cell, held, interned>>
jsVars    == <<stack, superDepth, overrideReceiver, onSelf, invocationCount, flying, blocks, serial>>
libVars   == <<kind, tableVars, listVars, answer, objectVars, ropeVars, jsVars>>

M == INSTANCE MapProofs WITH  \* the stringMap, and M!D the dictionary
       HashOf <- KeyHash, Capacity <- MapCapacity, PutInVisit <- FALSE,
       elems <- count, visit <- iter, numBindings <- count, removing <- phase
S == INSTANCE GraceSetProofs WITH
       HashOf <- ElementHash, Capacity <- SetCapacity, LazySource <- FALSE,
       size <- count, bulk <- phase
L == INSTANCE ListProofs WITH size <- count  \* the list in Grace, and L!B the built-in ones
R == INSTANCE Ropes WITH Addr <- StringAddr
J == INSTANCE ObjectProofs WITH  \* programs in JavaScript, and J!O native objects
       Part <- JsPart, Defines <- JsDefines, NONE <- NULL, NativeDefines <- Defines

ASSUME LibrariesAssumption ==
  /\ M!ConstantsOK /\ M!D!ConstantsOK /\ S!ConstantsOK /\ L!ConstantsOK /\ L!B!ConstantsOK
  /\ J!O!ConstantsOK /\ R!ConstantsOK /\ J!ConstantsOK

\* Variables of components that the program does not use.
NoTable ==
  /\ inner = << >> /\ count = 0 /\ rehash = << >> /\ iter = << >>
  /\ status = "none" /\ phase = "none" /\ program = << >>
NoLists   == store = << >> /\ loops = << >>
NoObjects == obj = << >> /\ data = << >> /\ building = << >> /\ known = {}
NoRopes   == cell = << >> /\ held = {} /\ interned = << >>
NoJs ==
  /\ stack = << >> /\ blocks = {} /\ invocationCount = 0 /\ serial = 0 /\ onSelf = FALSE
  /\ superDepth = NULL /\ overrideReceiver = NULL /\ flying = NULL

LibInit ==
  \/ /\ kind = "map" /\ M!Init /\ phase = "none" /\ program = << >>
     /\ NoLists /\ NoObjects /\ NoRopes /\ NoJs
  \/ kind = "dict" /\ M!D!Init /\ NoLists /\ NoObjects /\ NoRopes /\ NoJs
  \/ kind = "set" /\ S!Init /\ program = << >> /\ NoLists /\ NoObjects /\ NoRopes /\ NoJs
  \/ kind = "list" /\ L!B!Init /\ NoTable /\ NoObjects /\ NoRopes /\ NoJs
  \/ /\ kind = "grace list" /\ L!Init /\ NoObjects /\ NoRopes /\ NoJs
     /\ rehash = << >> /\ status = "none" /\ phase = "none" /\ program = << >> /\ store = << >>
  \/ kind = "object" /\ J!O!Init /\ NoTable /\ NoLists /\ NoRopes /\ NoJs
  \/ kind = "rope" /\ R!Init /\ NoTable /\ NoLists /\ NoObjects /\ NoJs
  \/ kind = "js"  /\ J!Init /\ NoTable /\ NoLists /\ NoObjects /\ NoRopes /\ answer = << >>

MapNext ==
  /\ kind = "map" /\ M!Next
  /\ UNCHANGED <<kind, phase, program, listVars, objectVars, ropeVars, jsVars>>
DictNext ==
  kind = "dict" /\ M!D!Next /\ UNCHANGED <<kind, listVars, objectVars, ropeVars, jsVars>>
SetNext ==
  kind = "set" /\ S!Next /\ UNCHANGED <<kind, program, listVars, objectVars, ropeVars, jsVars>>
BuiltListNext ==
  kind = "list" /\ L!B!Next /\ UNCHANGED <<kind, tableVars, objectVars, ropeVars, jsVars>>
GraceListNext ==
  /\ kind = "grace list" /\ L!Next
  /\ UNCHANGED <<kind, rehash, status, phase, program, store, objectVars, ropeVars, jsVars>>
ObjectNext ==
  kind = "object" /\ J!O!Next /\ UNCHANGED <<kind, tableVars, listVars, ropeVars, jsVars>>
RopeNext ==
  kind = "rope" /\ R!Next /\ UNCHANGED <<kind, tableVars, listVars, objectVars, jsVars>>
JsNext ==
  kind = "js" /\ J!Next /\ UNCHANGED <<kind, tableVars, listVars, objectVars, ropeVars, answer>>

LibNext ==
  \/ MapNext \/ DictNext \/ SetNext \/ BuiltListNext \/ GraceListNext
  \/ ObjectNext \/ RopeNext \/ JsNext

LibSpec == LibInit /\ [][LibNext]_libVars

----------------------------------------------------------------------------
(* The arrays of both tables have a binding, an element or a mark in every  *)
(* slot; those of lists an element in every slot below size, and no list    *)
(* counts or stores beyond its array; the data of an object are laid out for*)
(* its class, also after become; JavaScript's stack has known frames.       *)
TypeOK ==
  /\ kind = "map" => M!TypeOK
  /\ kind = "set" => S!TypeOK
  /\ kind = "list" => L!B!TypeOK
  /\ kind = "grace list" => L!TypeOK
  /\ kind = "object" => J!O!TypeOK
  /\ kind = "js"  => J!TypeOK

(* findPosition of stringMap.grace always returns.                          *)
SearchesEnd == kind = "map" => M!SearchesEnd

(* size, which requests count up and down and expand counts again, is the   *)
(* number of bindings or elements in the array, none of which is in it      *)
(* twice; expand never nests.                                               *)
SizeIsExact ==
  /\ kind = "map" => M!SizeIsExact
  /\ kind = "set" => S!SizeIsExact

(* What is in the array is where findPosition looks for it, whatever was    *)
(* put, removed and moved by expand before.                                 *)
Findable ==
  /\ kind = "map" => M!Findable
  /\ kind = "set" => S!Findable

(* What a dictionary says of itself fits its contents: it finds every key   *)
(* in the slot that holds it, across the marks of removed ones, and counts  *)
(* them.                                                                    *)
RepresentationOK == kind = "dict" => M!D!TypeOK /\ M!D!SizeIsExact /\ M!D!Findable

(* Fail fast: an iterator that gives something finds the set, or the list   *)
(* written in Grace, as it was when the iterator was made.                  *)
FailFast ==
  [][/\ kind = "set" => S!FailFastStep
     /\ kind = "grace list" => L!FailFastStep]_libVars

(* The loops of the stringMap and the iterators of the set give everything  *)
(* once, before they end.                                                   *)
IteratesAll ==
  [][/\ kind = "map" => M!VisitsAllStep
     /\ kind = "set" => S!IteratesAllStep]_libVars

(* The stringMap is a map: requests answer what MapSpec promises, however   *)
(* keys collide and while expand is under way.                              *)
IsMap ==
  /\ kind = "map" => M!Map!Init
  /\ [][kind = "map" => [M!Map!Next]_<<M!mapped, answer>>]_libVars

(* The dictionary is a map, if removed keys do not collide; its iterators   *)
(* give every binding once, and nothing more after a change.                *)
DictionaryIsMap ==
  /\ kind = "dict" => M!D!Map!Init
  /\ [][kind = "dict" => /\ [M!D!Map!Next]_<<M!D!mapped, answer>>
                         /\ M!D!FailFastStep /\ M!D!IteratesAllStep]_libVars

(* The set is a set: requests answer what SetSpec promises, however         *)
(* elements collide, are removed and put back.                              *)
IsSet ==
  /\ kind = "set" => S!Set!Init
  /\ [][kind = "set" => [S!Set!Next]_<<S!All, answer>>]_libVars

(* Loops and iterators over lists give everything once, in order, unless a  *)
(* request changes the list: what native loops and Grace ones read is what  *)
(* the list had, and addAll appends exactly that.                           *)
LoopsAreComplete ==
  [][/\ kind = "list" => L!B!LoopsAreCompleteStep
     /\ kind = "grace list" => L!IteratesAllStep]_libVars

(* The array of a list, native or written in Grace, is a sequence: requests *)
(* answer, and loops hand out, what ListSpec promises, whatever the blocks  *)
(* of the loops do to the lists.                                            *)
IsList ==
  /\ kind = "list" => L!B!Abstract!Init
  /\ kind = "grace list" => L!Abstract!Init
  /\ [][/\ kind = "list" => [L!B!Abstract!Next]_<<L!B!lists, answer>>
        /\ kind = "grace list" => [L!Abstract!Next]_<<L!lists, answer>>]_libVars

(* Constructors leave whole objects, unless they raise, and requests find   *)
(* the method of the first part that has it, and that part's variables,     *)
(* whatever become has moved and clone has copied.                          *)
IsObject ==
  /\ kind = "object" => J!O!Objects!Init
  /\ [][kind = "object" => [J!O!Objects!Next]_<<J!O!parts, answer>> /\ J!O!BuiltWholeStep]_libVars

(* The initialisers of an inherited part find the object around their own   *)
(* constructor as outer, though self is the whole object.                   *)
OuterInInitialisers == kind = "object" => J!O!OuterInInitialisers

(* The collector does not follow the pointers of a rope to its parts; a rope*)
(* the program still has is flat before any of its parts is freed.          *)
PartsAreLive == kind = "rope" => R!PartsAreLive

(* The fields of a string, computed when it is made or when its hash is     *)
(* first requested, describe the bytes it turns out to have; flattening     *)
(* them recurses at most MaxDepth deep.                                     *)
FieldsAgree == kind = "rope" => R!FieldsAgree /\ R!DepthBounded

(* Strings are immutable sequences of characters: flattening, sharing and   *)
(* collection never change one, and requests answer what StringSpec says.   *)
IsString ==
  /\ kind = "rope" => R!Strings!Init
  /\ [][kind = "rope" => [R!Strings!Next]_<<R!text, answer>>]_libVars

(* Methods and constructors that run in JavaScript, also after exceptions   *)
(* below them have been caught, find their own part in superDepth, where    *)
(* super requests look; self of a method is who was asked, and self or super*)
(* has asked for the confidential ones.  Blocks need not find their part.   *)
SelfAndSuper == kind = "js" => J!SelfAndSuper

(* A return in a block ends the method that the block is written in, and    *)
(* none at all if that has ended, however numbers tell methods apart.       *)
ReturnGoesHomeInJs == [][kind = "js" => J!ReturnGoesHomeStep]_libVars
=============================================================================
