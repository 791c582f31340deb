----------------------------- MODULE ObjectChain -----------------------------
(***************************************************************************)
(* How the native run-time library represents objects that inherit: as a   *)
(* chain of parts, one per object constructor, each with the class and the *)
(* data of its constructor, that ends in GraceDefaultObject.  The code of  *)
(* object constructors (genc.grace, compileobject) builds chains,          *)
(* findmethod searches them, become and clone rearrange and copy them      *)
(* (gracelib.c).                                                           *)
(***************************************************************************)
EXTENDS Integers, Sequences, FiniteSets

CONSTANTS
  Addr,
  DEFAULT,   \* GraceDefaultObject, and its class
  NULL,
  Class,     \* object constructors
  Parent,    \* the one that a constructor inherits from, or NULL
  Name,
  Defines,   \* the methods that a constructor defines
  MaxNesting \* bound on the constructors under way

ConstantsOK ==
  /\ IsFiniteSet(Addr) /\ {DEFAULT, NULL} \cap (Addr \cup Class) = {} /\ DEFAULT # NULL
  /\ Parent \in [Class -> Class \cup {NULL}]
  /\ Defines \in [Class \cup {DEFAULT} -> SUBSET Name]
  /\ MaxNesting \in Nat

VARIABLES
  obj,       \* per address the class, super and data of the object there
  data,      \* data arrays, named after the object they were allocated with: the
             \* constructor they are laid out for and data[0], the object around it,
             \* which goes by the constructor's name
  building,  \* constructors whose code runs, the innermost last
  known,     \* objects that the program can have references to
  answer     \* see ObjectSpec

vars == <<obj, data, building, known, answer>>

Everything == Addr \cup {DEFAULT}
FREE   == [class |-> NULL, super |-> NULL, data |-> NULL]
Unused == {o \in Addr : obj[o] = FREE}

\* Which addresses new objects get does not matter: none is ever freed here.
Places(n) == {os \in [1 .. n -> Unused] : \A j, k \in 1 .. n : j < k => os[j] # os[k]}
Fresh(n)  == CHOOSE os \in Places(n) : TRUE
Room(n)   == Places(n) # {}

Chain(o) ==
  LET chain[p \in Everything] ==
        IF obj[p].super = NULL THEN <<p>> ELSE <<p>> \o chain[obj[p].super]
  IN  chain[o]

Top   == building[Len(building)]
Below == SubSeq(building, 1, Len(building) - 1)
Initialising == building # << >> /\ Top.stage = "init"
InProgress   == UNION {{building[k].own, building[k].self} : k \in DOMAIN building}

\* data[0] of object o.
Outer(o) == data[obj[o].data].outer

----------------------------------------------------------------------------
Init ==
  /\ obj = [o \in Everything |-> IF o = DEFAULT
              THEN [class |-> DEFAULT, super |-> NULL, data |-> DEFAULT] ELSE FREE]
  /\ data = [o \in Everything |-> [layout |-> IF o = DEFAULT THEN DEFAULT ELSE NULL,
                                   outer |-> NULL]]
  /\ building = << >>
  /\ known = {}
  /\ answer = <<"none">>

\* A plausible slip: an inherited part is linked to the first part.
LastOf_First(o) == o

\* What an inherited part is linked to: the last part.
LastOf(o) == LET chain == Chain(o) IN chain[Len(chain) - 1]

(* The code of a constructor c with an object o it is inherited by, up to   *)
(* the inherits clause: the new part p goes to the end of o's chain, and    *)
(* p's outer replaces o's in data[0] while p's code runs.                   *)
Part(c, o) ==
  LET p == Fresh(1)[1] IN
  /\ obj' = [obj EXCEPT ![p] = [class |-> c, super |-> DEFAULT, data |-> p],
                        ![LastOf(o)].super = p]
  /\ data' = [data EXCEPT ![p] = [layout |-> c, outer |-> c], ![obj[o].data].outer = c]
  /\ building' = Append(building,
       [class |-> c, own |-> p, self |-> o, lower |-> Outer(o),
        stage |-> IF Parent[c] = NULL THEN "init" ELSE "inherit"])

(* The same without one.  The program, or an initialiser, evaluates c.      *)
Construct(c) ==
  /\ building = << >> \/ Initialising
  /\ Len(building) < MaxNesting /\ Room(1)
  /\ LET o == Fresh(1)[1] IN
     /\ obj' = [obj EXCEPT ![o] = [class |-> c, super |-> DEFAULT, data |-> o]]
     /\ data' = [data EXCEPT ![o] = [layout |-> c, outer |-> c]]
     /\ building' = Append(building,
          [class |-> c, own |-> o, self |-> o, lower |-> c,
           stage |-> IF Parent[c] = NULL THEN "init" ELSE "inherit"])
     /\ known' = known \cup {o}
     /\ answer' = <<"new", o, c>>

(* The inherits clause requests Parent[c]()object(self) ...                 *)
Inherit ==
  /\ building # << >> /\ Top.stage = "inherit" /\ Room(1)
  /\ Part(Parent[Top.class], Top.self)
  /\ answer' = <<"part", Top.self, Parent[Top.class]>>
  /\ UNCHANGED known

\* A plausible slip: the end of a constructor leaves data[0] as it is.
Finish_KeepsOuter ==
  /\ Initialising
  /\ LET inherited == Below # << >> /\ Below[Len(Below)].stage = "inherit"
     IN  /\ building' = IF inherited THEN [Below EXCEPT ![Len(Below)].stage = "init"] ELSE Below
         /\ obj' = IF inherited THEN [obj EXCEPT ![Below[Len(Below)].own].super = Top.own] ELSE obj
  /\ UNCHANGED <<data, known, answer>>

(* ... and gets the part when its initialisers have run, which it makes its *)
(* super, and goes on to its own initialisers.                              *)
Finish ==
  /\ Initialising
  /\ data' = [data EXCEPT ![obj[Top.self].data].outer = Top.lower]
  /\ LET inherited == Below # << >> /\ Below[Len(Below)].stage = "inherit"
     IN  /\ building' = IF inherited THEN [Below EXCEPT ![Len(Below)].stage = "init"] ELSE Below
         /\ obj' = IF inherited THEN [obj EXCEPT ![Below[Len(Below)].own].super = Top.own] ELSE obj
  /\ UNCHANGED <<known, answer>>

\* An initialiser raises an exception, which another one or the program catches.
Raise(n) ==
  /\ Initialising
  /\ n < Len(building) /\ (n # 0 => building[n].stage = "init")
  /\ building' = SubSeq(building, 1, n)
  /\ UNCHANGED <<obj, data, known, answer>>

(* findmethod: how far down the chain there is a method of that name.       *)
Depths(o, name, superdepth) ==
  {d \in 0 .. Len(Chain(o)) - 1 :
     /\ name \in Defines[obj[Chain(o)[d + 1]].class]
     /\ d >= superdepth}

(* A request, on super if superdepth # 0, and the data array that the       *)
(* method gets its variables and its closure from (getdatum).               *)
Request(o, name, superdepth) ==
  LET found == Depths(o, name, superdepth)
      first == CHOOSE d \in found : \A e \in found : d <= e
      part  == obj[Chain(o)[first + 1]]
  IN  /\ o \in known
      /\ answer' = <<"request", o, name, superdepth,
                     IF found = {} THEN NULL ELSE <<part.class, part.data>> >>
      /\ UNCHANGED <<obj, data, building, known>>

(* gracebecome, by setsuperobj and prelude.become, on objects whose         *)
(* initialisers have run.  It is right for a sub that inherits nothing and  *)
(* that nothing inherits, and setsuperobj is requested for such objects.    *)
Become(sub, sup) ==
  /\ {sub, sup} \subseteq known \ InProgress
  /\ sub # sup /\ obj[sub].super = DEFAULT /\ \A p \in Everything : obj[p].super # sub
  /\ obj' = [obj EXCEPT
       ![sub] = [class |-> obj[sup].class, super |-> obj[sup].super, data |-> obj[sup].data],
       ![sup] = [class |-> obj[sub].class, super |-> sub, data |-> obj[sub].data]]
  /\ answer' = <<"become", sub, sup>>
  /\ UNCHANGED <<data, building, known>>

(* prelude_clone: new parts, GraceDefaultObject included, with the classes  *)
(* and the data arrays of the old ones.                                     *)
Clone(o) ==
  LET chain  == Chain(o)
      copies == Fresh(Len(chain))
      New(k) == [obj[chain[k]] EXCEPT !.super = IF k = Len(chain) THEN NULL ELSE copies[k + 1]]
  IN  /\ o \in known /\ Room(Len(chain))
      /\ obj' = [p \in Everything |->
                   IF \E k \in DOMAIN copies : copies[k] = p
                   THEN New(CHOOSE k \in DOMAIN copies : copies[k] = p) ELSE obj[p]]
      /\ known' = known \cup {copies[1]}
      /\ answer' = <<"clone", o, copies[1]>>
      /\ UNCHANGED <<data, building>>

Next ==
  \/ \E c \in Class : Construct(c)
  \/ Inherit
  \/ Finish
  \/ \E n \in 0 .. MaxNesting : Raise(n)
  \/ \E o \in known, name \in Name : \E superdepth \in 0 .. Len(Chain(o)) :
       Request(o, name, superdepth)
  \/ \E sub, sup \in known : Become(sub, sup)
  \/ \E o \in known : Clone(o)

Spec == Init /\ [][Next]_vars

----------------------------------------------------------------------------
(* The type of the state: a part's data array is laid out for its class,    *)
(* also after become, so that no reader reads beyond it.                    *)
TypeOK ==
  /\ \A p \in Everything : obj[p] # FREE =>
       /\ obj[p].class \in Class \cup {DEFAULT}
       /\ data[obj[p].data].layout = obj[p].class
       /\ obj[p].super = NULL <=> obj[p].class = DEFAULT
  /\ known \cap Unused = {}

(* The initialisers of an inherited part run with the whole object as self, *)
(* but find the object around their own constructor as its outer, however   *)
(* many parts inherit it and whatever other objects they construct.         *)
OuterInInitialisers == Initialising => Outer(Top.self) = Top.class

(* A constructor that ends without an exception leaves an object with a     *)
(* part for itself and for every constructor it inherits from, in order,    *)
(* and each with its own outer.                                             *)
BuiltWholeStep ==
  (Finish /\ Top.own = Top.self) =>
     LET chain == Chain(Top.self)
         n == Len(chain) - 1
     IN  /\ n >= 1 /\ obj'[chain[1]].class = Top.class
         /\ \A k \in 1 .. n : data'[obj'[chain[k]].data].outer = obj'[chain[k]].class
         /\ \A k \in 1 .. n - 1 : obj'[chain[k + 1]].class = Parent[obj'[chain[k]].class]
         /\ Parent[obj'[chain[n]].class] = NULL
BuiltWhole == [][BuiltWholeStep]_vars

(* References see chains of parts: requests find the method of the first    *)
(* part that has it, and that part's variables, whatever become has moved.  *)
PartsOf(o) ==
  LET chain == Chain(o)
  IN  [k \in 1 .. Len(chain) - 1 |-> <<obj[chain[k]].class, obj[chain[k]].data>>]
parts == [o \in Addr |-> IF o \in known THEN PartsOf(o) ELSE << >>]
Objects == INSTANCE ObjectSpec
IsObject == Objects!Spec
=============================================================================
