--------------------------- MODULE LibrariesProofs ---------------------------
(***************************************************************************)
(* What each library promises to the programs of Libraries, for every value*)
(* of the constants.  A program of one kind is a behaviour of the module of*)
(* that component and stays one, whatever the other variables are, so that *)
(* the theorems about the component speak of it (MapRuns, DictRuns,        *)
(* SetRuns, BuiltListRuns, GraceListRuns, JsRuns, ObjectRuns, RopeRuns).   *)
(* What is proved of strings is proved here.                               *)
(***************************************************************************)
EXTENDS Libraries, SequenceTheorems, NaturalsInduction, WellFoundedInduction, TLAPS

OfMap  == kind = "map"
OfDict == kind = "dict"
OfSet == kind = "set"
OfBuiltLists == kind = "list"
OfGraceList  == kind = "grace list"
OfJs  == kind = "js"
OfObjects == kind = "object"
OfStrings == kind = "rope"

LEMMA MapRuns == LibSpec => (OfMap /\ []OfMap /\ M!Spec) \/ []~OfMap
<1>1. LibInit => (OfMap /\ M!Init) \/ ~OfMap
  BY DEF LibInit, OfMap
<1>2. OfMap /\ [LibNext]_libVars => OfMap' /\ [M!Next]_M!vars
  BY DEF LibNext, MapNext, DictNext, SetNext, BuiltListNext, GraceListNext,
         ObjectNext, RopeNext, JsNext, libVars, tableVars, M!vars, OfMap
<1>3. ~OfMap /\ [LibNext]_libVars => ~OfMap'
  BY DEF LibNext, MapNext, DictNext, SetNext, BuiltListNext, GraceListNext,
         ObjectNext, RopeNext, JsNext, libVars, OfMap
<1> QED BY <1>1, <1>2, <1>3, PTL DEF LibSpec, M!Spec

LEMMA DictRuns == LibSpec => (OfDict /\ []OfDict /\ M!D!Spec) \/ []~OfDict
<1>1. LibInit => (OfDict /\ M!D!Init) \/ ~OfDict
  BY DEF LibInit, OfDict
<1>2. OfDict /\ [LibNext]_libVars => OfDict' /\ [M!D!Next]_M!D!vars
  BY DEF LibNext, MapNext, DictNext, SetNext, BuiltListNext, GraceListNext,
         ObjectNext, RopeNext, JsNext, libVars, tableVars, M!D!vars, OfDict
<1>3. ~OfDict /\ [LibNext]_libVars => ~OfDict'
  BY DEF LibNext, MapNext, DictNext, SetNext, BuiltListNext, GraceListNext,
         ObjectNext, RopeNext, JsNext, libVars, OfDict
<1> QED BY <1>1, <1>2, <1>3, PTL DEF LibSpec, M!D!Spec

LEMMA SetRuns == LibSpec => (OfSet /\ []OfSet /\ S!Spec) \/ []~OfSet
<1>1. LibInit => (OfSet /\ S!Init) \/ ~OfSet
  BY DEF LibInit, OfSet
<1>2. OfSet /\ [LibNext]_libVars => OfSet' /\ [S!Next]_S!vars
  BY DEF LibNext, MapNext, DictNext, SetNext, BuiltListNext, GraceListNext,
         ObjectNext, RopeNext, JsNext, libVars, tableVars, S!vars, OfSet
<1>3. ~OfSet /\ [LibNext]_libVars => ~OfSet'
  BY DEF LibNext, MapNext, DictNext, SetNext, BuiltListNext, GraceListNext,
         ObjectNext, RopeNext, JsNext, libVars, OfSet
<1> QED BY <1>1, <1>2, <1>3, PTL DEF LibSpec, S!Spec

LEMMA BuiltListRuns == LibSpec => (OfBuiltLists /\ []OfBuiltLists /\ L!B!Spec) \/ []~OfBuiltLists
<1>1. LibInit => (OfBuiltLists /\ L!B!Init) \/ ~OfBuiltLists
  BY DEF LibInit, OfBuiltLists
<1>2. OfBuiltLists /\ [LibNext]_libVars => OfBuiltLists' /\ [L!B!Next]_L!B!vars
  BY DEF LibNext, MapNext, DictNext, SetNext, BuiltListNext, GraceListNext,
         ObjectNext, RopeNext, JsNext, libVars, listVars, L!B!vars, OfBuiltLists
<1>3. ~OfBuiltLists /\ [LibNext]_libVars => ~OfBuiltLists'
  BY DEF LibNext, MapNext, DictNext, SetNext, BuiltListNext, GraceListNext,
         ObjectNext, RopeNext, JsNext, libVars, OfBuiltLists
<1> QED BY <1>1, <1>2, <1>3, PTL DEF LibSpec, L!B!Spec

LEMMA GraceListRuns == LibSpec => (OfGraceList /\ []OfGraceList /\ L!Spec) \/ []~OfGraceList
<1>1. LibInit => (OfGraceList /\ L!Init) \/ ~OfGraceList
  BY DEF LibInit, OfGraceList
<1>2. OfGraceList /\ [LibNext]_libVars => OfGraceList' /\ [L!Next]_L!vars
  BY DEF LibNext, MapNext, DictNext, SetNext, BuiltListNext, GraceListNext,
         ObjectNext, RopeNext, JsNext, libVars, tableVars, listVars, L!vars, OfGraceList
<1>3. ~OfGraceList /\ [LibNext]_libVars => ~OfGraceList'
  BY DEF LibNext, MapNext, DictNext, SetNext, BuiltListNext, GraceListNext,
         ObjectNext, RopeNext, JsNext, libVars, OfGraceList
<1> QED BY <1>1, <1>2, <1>3, PTL DEF LibSpec, L!Spec

LEMMA JsRuns == LibSpec => (OfJs /\ []OfJs /\ J!Spec) \/ []~OfJs
<1>1. LibInit => (OfJs /\ J!Init) \/ ~OfJs
  BY DEF LibInit, OfJs
<1>2. OfJs /\ [LibNext]_libVars => OfJs' /\ [J!Next]_J!vars
  BY DEF LibNext, MapNext, DictNext, SetNext, BuiltListNext, GraceListNext,
         ObjectNext, RopeNext, JsNext, libVars, jsVars, J!vars, J!globals, OfJs
<1>3. ~OfJs /\ [LibNext]_libVars => ~OfJs'
  BY DEF LibNext, MapNext, DictNext, SetNext, BuiltListNext, GraceListNext,
         ObjectNext, RopeNext, JsNext, libVars, OfJs
<1> QED BY <1>1, <1>2, <1>3, PTL DEF LibSpec, J!Spec

LEMMA ObjectRuns == LibSpec => (OfObjects /\ []OfObjects /\ J!O!Spec) \/ []~OfObjects
<1>1. LibInit => (OfObjects /\ J!O!Init) \/ ~OfObjects
  BY DEF LibInit, OfObjects
<1>2. OfObjects /\ [LibNext]_libVars => OfObjects' /\ [J!O!Next]_J!O!vars
  BY DEF LibNext, MapNext, DictNext, SetNext, BuiltListNext, GraceListNext,
         ObjectNext, RopeNext, JsNext, libVars, objectVars, J!O!vars, OfObjects
<1>3. ~OfObjects /\ [LibNext]_libVars => ~OfObjects'
  BY DEF LibNext, MapNext, DictNext, SetNext, BuiltListNext, GraceListNext,
         ObjectNext, RopeNext, JsNext, libVars, OfObjects
<1> QED BY <1>1, <1>2, <1>3, PTL DEF LibSpec, J!O!Spec

(* The arrays of tables and lists have what they should in every slot; the *)
(* data of every object are laid out for its class; JavaScript's stack has  *)
(* known frames.                                                            *)
THEOREM TypesHold ==
  ASSUME J!InheritanceEnds
  PROVE  LibSpec => []TypeOK
<1>1. M!Spec => []M!TypeOK
  BY M!TypeCorrect, LibrariesAssumption DEF LibrariesAssumption
<1>2. S!Spec => []S!TypeOK
  BY S!TypeCorrect, LibrariesAssumption DEF LibrariesAssumption
<1>3. J!Spec => []J!TypeOK
  BY J!TypeCorrect, LibrariesAssumption DEF LibrariesAssumption
<1>4. L!B!Spec => []L!B!TypeOK
  BY L!BuiltListTyped, LibrariesAssumption DEF LibrariesAssumption
<1>5. L!Spec => []L!TypeOK
  BY L!GraceListTyped, LibrariesAssumption DEF LibrariesAssumption
<1>6. J!O!Spec => []J!O!TypeOK
  BY J!NativeTyped, LibrariesAssumption DEF LibrariesAssumption
<1>7. /\ OfMap => M!TypeOK
      /\ OfSet => S!TypeOK
      /\ OfJs => J!TypeOK
      /\ OfBuiltLists => L!B!TypeOK
      /\ OfGraceList => L!TypeOK
      /\ OfObjects => J!O!TypeOK
      => TypeOK
  BY DEF TypeOK, OfMap, OfSet, OfJs, OfBuiltLists, OfGraceList, OfObjects
<1> QED BY <1>1, <1>2, <1>3, <1>4, <1>5, <1>6, <1>7, MapRuns, SetRuns, JsRuns, BuiltListRuns,
           GraceListRuns, ObjectRuns, PTL

(* findPosition of stringMap.grace always returns.                          *)
THEOREM SearchesReturn == LibSpec => []SearchesEnd
<1>1. M!Spec => []M!SearchesEnd
  BY M!SearchesAlwaysEnd, LibrariesAssumption DEF LibrariesAssumption
<1>2. (OfMap => M!SearchesEnd) => SearchesEnd
  BY DEF SearchesEnd, OfMap
<1> QED BY <1>1, <1>2, MapRuns, PTL

(* size is the number of bindings or elements, and expand never nests.      *)
THEOREM SizesCount == LibSpec => []SizeIsExact
<1>1. M!Spec => []M!SizeIsExact
  BY M!SizeCounts, LibrariesAssumption DEF LibrariesAssumption
<1>2. S!Spec => []S!SizeIsExact
  BY S!SizeCounts, LibrariesAssumption DEF LibrariesAssumption
<1>3. (OfMap => M!SizeIsExact) /\ (OfSet => S!SizeIsExact) => SizeIsExact
  BY DEF SizeIsExact, OfMap, OfSet
<1> QED BY <1>1, <1>2, <1>3, MapRuns, SetRuns, PTL

(* Keys and elements are where findPosition looks for them.                 *)
THEOREM AllAreFound == LibSpec => []Findable
<1>1. M!Spec => []M!Findable
  BY M!KeysAreFound, LibrariesAssumption DEF LibrariesAssumption
<1>2. S!Spec => []S!Findable
  BY S!ElementsAreFound, LibrariesAssumption DEF LibrariesAssumption
<1>3. (OfMap => M!Findable) /\ (OfSet => S!Findable) => Findable
  BY DEF Findable, OfMap, OfSet
<1> QED BY <1>1, <1>2, <1>3, MapRuns, SetRuns, PTL

(* Iterators of the set and of the list in Grace give nothing after a       *)
(* change.                                                                  *)
THEOREM IteratorsFail == LibSpec => FailFast
<1> DEFINE InSet  == OfSet => S!FailFastStep
           InList == OfGraceList => L!FailFastStep
<1>1. S!Spec => S!FailFast
  BY S!IteratorsFailFast, LibrariesAssumption DEF LibrariesAssumption
<1>2. L!Spec => L!FailFast
  BY L!GraceListFailsFast, LibrariesAssumption DEF LibrariesAssumption
<1>3. OfSet /\ [LibNext]_libVars /\ [S!FailFastStep]_S!vars => [InSet]_libVars
  BY DEF LibNext, MapNext, DictNext, SetNext, BuiltListNext, GraceListNext,
         ObjectNext, RopeNext, JsNext, libVars, tableVars, S!vars, OfSet
<1>4. OfGraceList /\ [LibNext]_libVars /\ [L!FailFastStep]_L!vars => [InList]_libVars
  BY DEF LibNext, MapNext, DictNext, SetNext, BuiltListNext, GraceListNext,
         ObjectNext, RopeNext, JsNext, libVars, tableVars, listVars, L!vars, OfGraceList
<1>5. (~OfSet => [InSet]_libVars) /\ (~OfGraceList => [InList]_libVars)
  OBVIOUS
<1>6. [InSet]_libVars /\ [InList]_libVars
        => [/\ kind = "set" => S!FailFastStep
            /\ kind = "grace list" => L!FailFastStep]_libVars
  BY DEF OfSet, OfGraceList
<1> HIDE DEF InSet, InList
<1> QED BY <1>1, <1>2, <1>3, <1>4, <1>5, <1>6, SetRuns, GraceListRuns, PTL
        DEF LibSpec, FailFast, S!FailFast, L!FailFast

(* The loops of the stringMap and the iterators of the set are complete.    *)
THEOREM AllIsGiven == LibSpec => IteratesAll
<1> DEFINE Visits == OfMap => M!VisitsAllStep
           Gives  == OfSet => S!IteratesAllStep
<1>1. M!Spec => M!IteratesAll
  BY M!LoopVisitsAll, LibrariesAssumption DEF LibrariesAssumption
<1>2. S!Spec => S!IteratesAll
  BY S!IteratorsGiveAll, LibrariesAssumption DEF LibrariesAssumption
<1>3. OfMap /\ [LibNext]_libVars /\ [M!VisitsAllStep]_M!vars => [Visits]_libVars
  BY DEF LibNext, MapNext, DictNext, SetNext, BuiltListNext, GraceListNext,
         ObjectNext, RopeNext, JsNext, libVars, tableVars, M!vars, OfMap
<1>4. OfSet /\ [LibNext]_libVars /\ [S!IteratesAllStep]_S!vars => [Gives]_libVars
  BY DEF LibNext, MapNext, DictNext, SetNext, BuiltListNext, GraceListNext,
         ObjectNext, RopeNext, JsNext, libVars, tableVars, S!vars, OfSet
<1>5. (~OfMap => [Visits]_libVars) /\ (~OfSet => [Gives]_libVars)
  OBVIOUS
<1>6. [Visits]_libVars /\ [Gives]_libVars
        => [/\ kind = "map" => M!VisitsAllStep
            /\ kind = "set" => S!IteratesAllStep]_libVars
  BY DEF OfMap, OfSet
<1> HIDE DEF Visits, Gives
<1> QED BY <1>1, <1>2, <1>3, <1>4, <1>5, <1>6, MapRuns, SetRuns, PTL
        DEF LibSpec, IteratesAll, M!IteratesAll, S!IteratesAll

(* The stringMap implements MapSpec.                                        *)
THEOREM StringMapIsMap == LibSpec => IsMap
<1>1. M!Spec => M!Map!Init /\ [][M!Map!Next]_<<M!mapped, answer>>
  BY M!TableIsMap, LibrariesAssumption DEF LibrariesAssumption, M!IsMap, M!Map!Spec
<1>2. LibInit /\ OfMap /\ M!Map!Init => (kind = "map" => M!Map!Init)
  OBVIOUS
<1>3. ~OfMap => (kind = "map" => M!Map!Init)
  BY DEF OfMap
<1>4. [M!Map!Next]_<<M!mapped, answer>>
        => [kind = "map" => [M!Map!Next]_<<M!mapped, answer>>]_libVars
  OBVIOUS
<1>5. ~OfMap => [kind = "map" => [M!Map!Next]_<<M!mapped, answer>>]_libVars
  BY DEF OfMap
<1> QED BY <1>1, <1>2, <1>3, <1>4, <1>5, MapRuns, PTL DEF LibSpec, IsMap

(* The array of the dictionary is typed, numBindings is the number of its   *)
(* bindings, and each is where findPosition looks for its key.              *)
THEOREM DictionaryRepresentation ==
  ASSUME M!RegularPrograms
  PROVE  LibSpec => []RepresentationOK
<1> DEFINE Table == M!D!TypeOK /\ M!D!SizeIsExact /\ M!D!Findable
<1>1. M!D!Spec => []Table
  BY M!DictionaryTable, LibrariesAssumption DEF LibrariesAssumption, M!DictAssumptions
<1>2. (OfDict => Table) => RepresentationOK
  BY DEF RepresentationOK, OfDict
<1> HIDE DEF Table
<1> QED BY <1>1, <1>2, DictRuns, PTL

(* The dictionary implements MapSpec, and its iterators fail fast or are    *)
(* complete.                                                                *)
THEOREM DictionaryIsAMap ==
  ASSUME M!RegularPrograms
  PROVE  LibSpec => DictionaryIsMap
<1> DEFINE Answers == OfDict => [M!D!Map!Next]_<<M!D!mapped, answer>>
           Fails   == OfDict => M!D!FailFastStep
           Gives   == OfDict => M!D!IteratesAllStep
           Both    == /\ [M!D!Map!Next]_<<M!D!mapped, answer>>
                      /\ M!D!FailFastStep /\ M!D!IteratesAllStep
<1>1. M!D!Spec => M!D!Map!Init /\ [][M!D!Map!Next]_<<M!D!mapped, answer>>
  BY M!DictionaryIsMap, LibrariesAssumption
  DEF LibrariesAssumption, M!DictAssumptions, M!D!IsMap, M!D!Map!Spec
<1>2. M!D!Spec => M!D!FailFast /\ M!D!IteratesAll
  BY M!DictionaryIterates, LibrariesAssumption DEF LibrariesAssumption, M!DictAssumptions
<1>3. M!D!Map!Init => (kind = "dict" => M!D!Map!Init)
  OBVIOUS
<1>4. [M!D!Map!Next]_<<M!D!mapped, answer>> => [Answers]_libVars
  OBVIOUS
<1>5. OfDict /\ [LibNext]_libVars /\ [M!D!FailFastStep]_M!D!vars => [Fails]_libVars
  BY DEF LibNext, MapNext, DictNext, SetNext, BuiltListNext, GraceListNext,
         ObjectNext, RopeNext, JsNext, libVars, tableVars, M!D!vars, OfDict
<1>6. OfDict /\ [LibNext]_libVars /\ [M!D!IteratesAllStep]_M!D!vars => [Gives]_libVars
  BY DEF LibNext, MapNext, DictNext, SetNext, BuiltListNext, GraceListNext,
         ObjectNext, RopeNext, JsNext, libVars, tableVars, M!D!vars, OfDict
<1>7. ~OfDict => /\ kind = "dict" => M!D!Map!Init
                 /\ [Answers]_libVars /\ [Fails]_libVars /\ [Gives]_libVars
  BY DEF OfDict
<1>8. [Answers]_libVars /\ [Fails]_libVars /\ [Gives]_libVars
        => [kind = "dict" => Both]_libVars
  BY DEF OfDict
<1> HIDE DEF Answers, Fails, Gives
<1> QED BY <1>1, <1>2, <1>3, <1>4, <1>5, <1>6, <1>7, <1>8, DictRuns, PTL
        DEF LibSpec, DictionaryIsMap, M!D!FailFast, M!D!IteratesAll

(* The set implements SetSpec.                                              *)
THEOREM GraceSetIsSet == LibSpec => IsSet
<1>1. S!Spec => S!Set!Init /\ [][S!Set!Next]_<<S!All, answer>>
  BY S!TableIsSet, LibrariesAssumption DEF LibrariesAssumption, S!IsSet, S!Set!Spec
<1>2. LibInit /\ OfSet /\ S!Set!Init => (kind = "set" => S!Set!Init)
  OBVIOUS
<1>3. ~OfSet => (kind = "set" => S!Set!Init)
  BY DEF OfSet
<1>4. [S!Set!Next]_<<S!All, answer>>
        => [kind = "set" => [S!Set!Next]_<<S!All, answer>>]_libVars
  OBVIOUS
<1>5. ~OfSet => [kind = "set" => [S!Set!Next]_<<S!All, answer>>]_libVars
  BY DEF OfSet
<1> QED BY <1>1, <1>2, <1>3, <1>4, <1>5, SetRuns, PTL DEF LibSpec, IsSet

(* The loops over lists, native and in Grace, are complete.                 *)
THEOREM ListLoopsAreComplete == LibSpec => LoopsAreComplete
<1> DEFINE Built   == OfBuiltLists => L!B!LoopsAreCompleteStep
           InGrace == OfGraceList => L!IteratesAllStep
<1>1. L!B!Spec => L!B!LoopsAreComplete
  BY L!BuiltListIterates, LibrariesAssumption DEF LibrariesAssumption
<1>2. L!Spec => L!IteratesAll
  BY L!GraceListIterates, LibrariesAssumption DEF LibrariesAssumption
<1>3. OfBuiltLists /\ [LibNext]_libVars /\ [L!B!LoopsAreCompleteStep]_L!B!vars => [Built]_libVars
  BY DEF LibNext, MapNext, DictNext, SetNext, BuiltListNext, GraceListNext,
         ObjectNext, RopeNext, JsNext, libVars, listVars, L!B!vars, OfBuiltLists
<1>4. OfGraceList /\ [LibNext]_libVars /\ [L!IteratesAllStep]_L!vars => [InGrace]_libVars
  BY DEF LibNext, MapNext, DictNext, SetNext, BuiltListNext, GraceListNext,
         ObjectNext, RopeNext, JsNext, libVars, tableVars, listVars, L!vars, OfGraceList
<1>5. (~OfBuiltLists => [Built]_libVars) /\ (~OfGraceList => [InGrace]_libVars)
  OBVIOUS
<1>6. [Built]_libVars /\ [InGrace]_libVars
        => [/\ kind = "list" => L!B!LoopsAreCompleteStep
            /\ kind = "grace list" => L!IteratesAllStep]_libVars
  BY DEF OfBuiltLists, OfGraceList
<1> HIDE DEF Built, InGrace
<1> QED BY <1>1, <1>2, <1>3, <1>4, <1>5, <1>6, BuiltListRuns, GraceListRuns, PTL
        DEF LibSpec, LoopsAreComplete, L!B!LoopsAreComplete, L!IteratesAll

(* Lists, native and in Grace, implement ListSpec.                          *)
THEOREM ListsAreLists == LibSpec => IsList
<1> DEFINE Built   == OfBuiltLists => [L!B!Abstract!Next]_<<L!B!lists, answer>>
           InGrace == OfGraceList => [L!Abstract!Next]_<<L!lists, answer>>
<1>1. L!B!Spec => L!B!Abstract!Init /\ [][L!B!Abstract!Next]_<<L!B!lists, answer>>
  BY L!BuiltListIsSequence, LibrariesAssumption DEF LibrariesAssumption, L!B!IsList, L!B!Abstract!Spec
<1>2. L!Spec => L!Abstract!Init /\ [][L!Abstract!Next]_<<L!lists, answer>>
  BY L!GraceListIsSequence, LibrariesAssumption DEF LibrariesAssumption, L!IsList, L!Abstract!Spec
<1>3. L!B!Abstract!Init => (kind = "list" => L!B!Abstract!Init)
  OBVIOUS
<1>4. L!Abstract!Init => (kind = "grace list" => L!Abstract!Init)
  OBVIOUS
<1>5. ~OfBuiltLists => (kind = "list" => L!B!Abstract!Init) /\ [Built]_libVars
  BY DEF OfBuiltLists
<1>6. ~OfGraceList => (kind = "grace list" => L!Abstract!Init) /\ [InGrace]_libVars
  BY DEF OfGraceList
<1>7. [L!B!Abstract!Next]_<<L!B!lists, answer>> => [Built]_libVars
  OBVIOUS
<1>8. [L!Abstract!Next]_<<L!lists, answer>> => [InGrace]_libVars
  OBVIOUS
<1>9. [Built]_libVars /\ [InGrace]_libVars
        => [/\ kind = "list" => [L!B!Abstract!Next]_<<L!B!lists, answer>>
            /\ kind = "grace list" => [L!Abstract!Next]_<<L!lists, answer>>]_libVars
  BY DEF OfBuiltLists, OfGraceList
<1> HIDE DEF Built, InGrace
<1> QED BY <1>1, <1>2, <1>3, <1>4, <1>5, <1>6, <1>7, <1>8, <1>9, BuiltListRuns, GraceListRuns, PTL
        DEF LibSpec, IsList

(* JavaScript's methods find their own part, self and confidential methods. *)
THEOREM SelfIsRight ==
  ASSUME J!InheritanceEnds
  PROVE  LibSpec => []SelfAndSuper
<1>1. J!Spec => []J!SelfAndSuper
  BY J!SelfIsAsked, LibrariesAssumption DEF LibrariesAssumption
<1>2. (OfJs => J!SelfAndSuper) => SelfAndSuper
  BY DEF SelfAndSuper, OfJs
<1> QED BY <1>1, <1>2, JsRuns, PTL

(* A return ends the method that its block is written in.                   *)
THEOREM ReturnsAreRight ==
  ASSUME J!InheritanceEnds
  PROVE  LibSpec => ReturnGoesHomeInJs
<1> DEFINE Home == OfJs => J!ReturnGoesHomeStep
<1>1. J!Spec => J!ReturnGoesHome
  BY J!ReturnsGoHome, LibrariesAssumption DEF LibrariesAssumption
<1>2. OfJs /\ [LibNext]_libVars /\ [J!ReturnGoesHomeStep]_J!vars => [Home]_libVars
  BY DEF LibNext, MapNext, DictNext, SetNext, BuiltListNext, GraceListNext,
         ObjectNext, RopeNext, JsNext, libVars, jsVars, J!vars, J!globals, OfJs
<1>3. ~OfJs => [Home]_libVars
  OBVIOUS
<1>4. [Home]_libVars => [kind = "js" => J!ReturnGoesHomeStep]_libVars
  BY DEF OfJs
<1> HIDE DEF Home
<1> QED BY <1>1, <1>2, <1>3, <1>4, JsRuns, PTL
        DEF LibSpec, ReturnGoesHomeInJs, J!ReturnGoesHome

----------------------------------------------------------------------------
(* Objects.                                                                 *)

(* The initialisers of an inherited part find the object around their own   *)
(* constructor as outer, though self is the whole object.                   *)
THEOREM InitialisersSeeTheirOuter == LibSpec => []OuterInInitialisers
<1>1. J!O!Spec => []J!O!OuterInInitialisers
  BY J!NativeOuter, LibrariesAssumption DEF LibrariesAssumption
<1>2. (OfObjects => J!O!OuterInInitialisers) => OuterInInitialisers
  BY DEF OuterInInitialisers, OfObjects
<1> QED BY <1>1, <1>2, ObjectRuns, PTL

(* Constructors leave whole objects, and what references to them see is     *)
(* what ObjectSpec says, also after become and clone.                       *)
THEOREM ObjectsAreObjects == LibSpec => IsObject
<1> DEFINE Step   == [J!O!Objects!Next]_<<J!O!parts, answer>>
           Native == OfObjects => Step /\ J!O!BuiltWholeStep
<1>1. J!O!Spec => J!O!Objects!Init /\ [][J!O!Objects!Next]_<<J!O!parts, answer>>
                  /\ [][J!O!BuiltWholeStep]_J!O!vars
  BY J!NativeChainsAreObjects, LibrariesAssumption DEF LibrariesAssumption, J!O!IsObject, J!O!Objects!Spec
<1>2. J!O!Objects!Init => (kind = "object" => J!O!Objects!Init)
  OBVIOUS
<1>3. ~OfObjects => (kind = "object" => J!O!Objects!Init) /\ [Native]_libVars
  BY DEF OfObjects
<1>4. OfObjects /\ [LibNext]_libVars /\ UNCHANGED J!O!vars => UNCHANGED libVars
  BY DEF LibNext, MapNext, DictNext, SetNext, BuiltListNext, GraceListNext,
         ObjectNext, RopeNext, JsNext, libVars, objectVars, J!O!vars, OfObjects
<1>5. OfObjects /\ [LibNext]_libVars /\ Step /\ [J!O!BuiltWholeStep]_J!O!vars => [Native]_libVars
  <2> HIDE DEF Step
  <2> QED BY <1>4 DEF Native
<1>6. [Native]_libVars
        => [kind = "object" => Step /\ J!O!BuiltWholeStep]_libVars
  BY DEF OfObjects
<1> HIDE DEF Native
<1> QED BY <1>1, <1>2, <1>3, <1>5, <1>6, ObjectRuns, PTL DEF LibSpec, IsObject

----------------------------------------------------------------------------
(* Strings.                                                                 *)

LEMMA SetInduction ==
  ASSUME NEW Good, 0 \in Good, \A n \in Nat : n \in Good => n + 1 \in Good
  PROVE  Nat \subseteq Good
<1>1. SUFFICES ASSUME Nat \ Good # {} PROVE FALSE
  OBVIOUS
<1>2. PICK x \in Nat \ Good : \A y \in Nat \ Good : <<y, x>> \notin OpToRel(<, Nat)
  BY <1>1, NatLessThanWellFounded, WFMin
<1>3. x \in Nat /\ x # 0 /\ x - 1 \in Nat /\ x = (x - 1) + 1
  OBVIOUS
<1>4. \A y \in Nat \ Good : ~ (y < x)
  BY <1>2, <1>3 DEF OpToRel
<1>5. x - 1 \in Good
  BY <1>3, <1>4
<1> QED BY <1>1, <1>2, <1>3, <1>5

LEMMA TextInduction ==
  ASSUME NEW Good, << >> \in Good, \A s \in Seq(Char), c \in Char : s \in Good => Append(s, c) \in Good
  PROVE  Seq(Char) \subseteq Good
<1> DEFINE T == {n \in Nat : \A s \in Seq(Char) : Len(s) = n => s \in Good}
<1>1. 0 \in T
  BY EmptySeq
<1>2. ASSUME NEW n \in Nat, n \in T PROVE n + 1 \in T
  <2>1. ASSUME NEW s \in Seq(Char), Len(s) = n + 1 PROVE s \in Good
    <3>1. s # << >>
      BY <2>1, EmptySeq
    <3>2. PICK t \in Seq(Char), c \in Char : s = Append(t, c)
      BY <3>1, SequenceEmptyOrAppend
    <3>3. Len(t) = n
      BY <3>2, <2>1
    <3> QED BY <3>2, <3>3, <1>2
  <2> QED BY <2>1
<1> HIDE DEF T
<1>3. Nat \subseteq T
  BY <1>1, <1>2, SetInduction
<1> QED BY <1>3 DEF T

Encodes(b, s) == b = [n \in 0 .. Len(s) |-> IF n = 0 THEN << >> ELSE b[n - 1] \o s[n]]

LEMMA EncodeExists ==
  ASSUME NEW s \in Seq(Char)
  PROVE  \E b : Encodes(b, s)
<1> DEFINE Upto(n, b) == b = [m \in 0 .. n |-> IF m = 0 THEN << >> ELSE b[m - 1] \o s[m]]
           T == {n \in Nat : \E b : Upto(n, b)}
<1>1. 0 \in T
  <2>1. Upto(0, [m \in 0 .. 0 |-> << >>])
    OBVIOUS
  <2> QED BY <2>1
<1>2. ASSUME NEW n \in Nat, n \in T PROVE n + 1 \in T
  <2>1. PICK b : Upto(n, b)
    BY <1>2
  <2> DEFINE d == [m \in 0 .. n + 1 |-> IF m = n + 1 THEN b[n] \o s[n + 1] ELSE b[m]]
  <2>2. \A m \in 0 .. n + 1 : d[m] = IF m = 0 THEN << >> ELSE d[m - 1] \o s[m]
    <3>1. ASSUME NEW m \in 0 .. n + 1 PROVE d[m] = IF m = 0 THEN << >> ELSE d[m - 1] \o s[m]
      <4>1. CASE m = n + 1
        <5>1. m # 0 /\ n \in 0 .. n + 1 /\ m - 1 = n /\ n # n + 1
          BY <4>1
        <5>2. d[m] = b[n] \o s[n + 1] /\ d[n] = b[n]
          BY <4>1, <5>1
        <5> HIDE DEF d
        <5> QED BY <4>1, <5>1, <5>2
      <4>2. CASE m # n + 1
        <5>1. m \in 0 .. n /\ (m # 0 => m - 1 \in 0 .. n + 1 /\ m - 1 # n + 1)
          BY <4>2
        <5>2. b[m] = IF m = 0 THEN << >> ELSE b[m - 1] \o s[m]
          BY <2>1, <5>1
        <5> QED BY <4>2, <5>1, <5>2
      <4> QED BY <4>1, <4>2
    <3> QED BY <3>1
  <2>3. d = [m \in 0 .. n + 1 |-> d[m]]
    OBVIOUS
  <2> HIDE DEF d
  <2>4. Upto(n + 1, d)
    BY <2>2, <2>3
  <2> QED BY <2>4
<1> HIDE DEF T
<1>3. Len(s) \in T
  BY <1>1, <1>2, SetInduction
<1> QED BY <1>3 DEF T, Encodes

LEMMA EncodeBy ==
  ASSUME NEW s \in Seq(Char)
  PROVE  \E b : /\ Encodes(b, s) /\ R!Encode(s) = b[Len(s)] /\ b[0] = << >>
                /\ \A n \in 1 .. Len(s) : b[n] = b[n - 1] \o s[n]
<1> DEFINE b == CHOOSE b : Encodes(b, s)
<1>1. Encodes(b, s)
  BY EncodeExists
<1>2. R!Encode(s) = b[Len(s)]
  BY DEF R!Encode, Encodes
<1> HIDE DEF b
<1>3. b[0] = << >> /\ \A n \in 1 .. Len(s) : b[n] = b[n - 1] \o s[n]
  BY <1>1 DEF Encodes
<1> QED BY <1>1, <1>2, <1>3

LEMMA EncodeEmpty == R!Encode(<< >>) = << >>
<1>1. << >> \in Seq(Char) /\ Len(<< >>) = 0
  BY EmptySeq
<1> QED BY <1>1, EncodeBy

LEMMA EncodeAppend ==
  ASSUME NEW s \in Seq(Char), NEW c \in Char
  PROVE  R!Encode(Append(s, c)) = R!Encode(s) \o c
<1> DEFINE t == Append(s, c)
<1>1. t \in Seq(Char) /\ Len(t) = Len(s) + 1 /\ t[Len(s) + 1] = c
      /\ \A n \in 1 .. Len(s) : t[n] = s[n]
  BY AppendProperties
<1> HIDE DEF t
<1>2. PICK b : /\ R!Encode(s) = b[Len(s)] /\ b[0] = << >>
               /\ \A n \in 1 .. Len(s) : b[n] = b[n - 1] \o s[n]
  BY EncodeBy
<1>3. PICK d : /\ R!Encode(t) = d[Len(t)] /\ d[0] = << >>
               /\ \A n \in 1 .. Len(t) : d[n] = d[n - 1] \o t[n]
  BY <1>1, EncodeBy
<1> DEFINE T == {n \in Nat : n <= Len(s) => d[n] = b[n]}
<1>4. 0 \in T
  BY <1>2, <1>3
<1>5. ASSUME NEW n \in Nat, n \in T PROVE n + 1 \in T
  <2>1. CASE n + 1 <= Len(s)
    <3>1. n + 1 \in 1 .. Len(s) /\ n + 1 \in 1 .. Len(t) /\ d[n] = b[n] /\ (n + 1) - 1 = n
      BY <2>1, <1>5, <1>1
    <3>2. d[n + 1] = d[n] \o t[n + 1] /\ b[n + 1] = b[n] \o s[n + 1] /\ t[n + 1] = s[n + 1]
      BY <3>1, <1>1, <1>2, <1>3
    <3>3. d[n + 1] = b[n + 1]
      BY <3>1, <3>2
    <3> QED BY <3>3
  <2> QED BY <2>1
<1> HIDE DEF T
<1>6. Len(s) \in T /\ Len(s) \in Nat
  BY <1>4, <1>5, SetInduction
<1>7. d[Len(s)] = b[Len(s)] /\ Len(t) \in 1 .. Len(t) /\ Len(t) - 1 = Len(s)
  BY <1>6, <1>1 DEF T
<1>8. R!Encode(t) = d[Len(s)] \o t[Len(t)]
  BY <1>3, <1>7
<1> QED BY <1>8, <1>7, <1>2, <1>1 DEF t

LEMMA EncodeType ==
  ASSUME R!ConstantsOK, NEW s \in Seq(Char)
  PROVE  R!Encode(s) \in Seq(R!Byte)
<1> DEFINE Good == {t \in Seq(Char) : R!Encode(t) \in Seq(R!Byte)}
<1>1. << >> \in Good
  BY EncodeEmpty, EmptySeq
<1>2. ASSUME NEW t \in Seq(Char), NEW c \in Char, t \in Good PROVE Append(t, c) \in Good
  <2>1. c \in Seq(R!Byte)
    BY DEF R!ConstantsOK, R!Utf8
  <2>2. R!Encode(t) \o c \in Seq(R!Byte)
    BY <2>1, <1>2, ConcatProperties
  <2> QED BY <2>2, EncodeAppend, AppendProperties
<1> HIDE DEF Good
<1>3. Seq(Char) \subseteq Good
  BY <1>1, <1>2, TextInduction
<1> QED BY <1>3 DEF Good

LEMMA EncodeConcat ==
  ASSUME R!ConstantsOK, NEW s \in Seq(Char), NEW t \in Seq(Char)
  PROVE  R!Encode(s \o t) = R!Encode(s) \o R!Encode(t)
<1> DEFINE Good == {u \in Seq(Char) : R!Encode(s \o u) = R!Encode(s) \o R!Encode(u)}
<1>1. << >> \in Good
  BY EncodeEmpty, EmptySeq, EncodeType, ConcatEmptySeq
<1>2. ASSUME NEW u \in Seq(Char), NEW c \in Char, u \in Good PROVE Append(u, c) \in Good
  <2>1. c \in Seq(R!Byte)
    BY DEF R!ConstantsOK, R!Utf8
  <2>2. s \o u \in Seq(Char) /\ <<c>> \in Seq(Char)
    BY ConcatProperties
  <2>3. s \o Append(u, c) = Append(s \o u, c)
    BY <2>2, AppendIsConcat, ConcatAssociative
  <2>4. R!Encode(s \o Append(u, c)) = (R!Encode(s) \o R!Encode(u)) \o c
    BY <2>2, <2>3, <1>2, EncodeAppend
  <2>5. R!Encode(s) \o R!Encode(Append(u, c)) = (R!Encode(s) \o R!Encode(u)) \o c
    <3>1. R!Encode(s) \in Seq(R!Byte) /\ R!Encode(u) \in Seq(R!Byte)
      BY EncodeType
    <3>2. (R!Encode(s) \o R!Encode(u)) \o c = R!Encode(s) \o (R!Encode(u) \o c)
      BY <3>1, <2>1, ConcatAssociative
    <3>3. R!Encode(Append(u, c)) = R!Encode(u) \o c
      BY EncodeAppend
    <3> QED BY <3>2, <3>3
  <2>6. Append(u, c) \in Seq(Char)
    BY AppendProperties
  <2> QED BY <2>4, <2>5, <2>6
<1> HIDE DEF Good
<1>3. Seq(Char) \subseteq Good
  BY <1>1, <1>2, TextInduction
<1> QED BY <1>3 DEF Good

----------------------------------------------------------------------------
LEMMA Smallest ==
  ASSUME NEW T, T \subseteq Nat, T # {}
  PROVE  \E x \in T : \A y \in T : x <= y
<1>1. PICK x \in T : \A y \in T : <<y, x>> \notin OpToRel(<, Nat)
  BY NatLessThanWellFounded, WFMin
<1>2. \A y \in T : ~ (y < x)
  BY <1>1 DEF OpToRel
<1> QED BY <1>2

LEMMA CharIs ==
  ASSUME R!ConstantsOK, NEW c \in Char
  PROVE  /\ c \in Seq(R!Byte) /\ Len(c) \in Nat \ {0} /\ c[1] \in R!Byte
         /\ Len(c) = R!charlen(c[1]) /\ c[1] \notin R!Continuation
         /\ \A i \in 2 .. Len(c) : c[i] \in R!Continuation
<1>1. R!Utf8(c)
  BY DEF R!ConstantsOK
<1>2. c \in Seq(R!Byte) /\ Len(c) \in Nat \ {0}
  BY <1>1, EmptySeq DEF R!Utf8
<1>3. c[1] \in R!Byte
  BY <1>2, ElementOfSeq
<1>4. c[1] \notin R!Continuation
  <2>1. SUFFICES ASSUME c[1] \in 128 .. 191 PROVE FALSE
    BY DEF R!Continuation
  <2>2. R!charlen(c[1]) = -1
    BY <2>1 DEF R!charlen
  <2> QED BY <2>2, <1>1, <1>2 DEF R!Utf8
<1> QED BY <1>1, <1>2, <1>3, <1>4 DEF R!Utf8

LEMMA EncodeLength ==
  ASSUME R!ConstantsOK, NEW s \in Seq(Char)
  PROVE  /\ Len(R!Encode(s)) \in Nat /\ Len(s) <= Len(R!Encode(s))
         /\ Len(R!Encode(s)) = Len(s) <=> \A k \in 1 .. Len(s) : Len(s[k]) = 1
<1> DEFINE OneByte(t) == \A k \in 1 .. Len(t) : Len(t[k]) = 1
           Fits(t) == /\ Len(R!Encode(t)) \in Nat /\ Len(t) <= Len(R!Encode(t))
                      /\ Len(R!Encode(t)) = Len(t) <=> OneByte(t)
           Good == {t \in Seq(Char) : Fits(t)}
<1>1. << >> \in Good
  BY EncodeEmpty, EmptySeq
<1>2. ASSUME NEW t \in Seq(Char), NEW c \in Char, t \in Good PROVE Append(t, c) \in Good
  <2>0. /\ Len(R!Encode(t)) \in Nat /\ Len(t) <= Len(R!Encode(t))
        /\ Len(R!Encode(t)) = Len(t) <=> OneByte(t)
    <3>1. Fits(t)
      <4> HIDE DEF Fits
      <4> QED BY <1>2
    <3> QED BY <3>1
  <2>1. R!Encode(Append(t, c)) = R!Encode(t) \o c /\ R!Encode(t) \in Seq(R!Byte) /\ c \in Seq(R!Byte)
    BY EncodeAppend, EncodeType, CharIs
  <2>2. Len(R!Encode(Append(t, c))) = Len(R!Encode(t)) + Len(c) /\ Len(c) \in Nat \ {0}
    BY <2>1, CharIs
  <2>3. /\ Append(t, c) \in Seq(Char) /\ Len(Append(t, c)) = Len(t) + 1
        /\ \A k \in 1 .. Len(t) : Append(t, c)[k] = t[k]
        /\ Append(t, c)[Len(t) + 1] = c
    BY AppendProperties
  <2>4. OneByte(Append(t, c)) <=> OneByte(t) /\ Len(c) = 1
    BY <2>3
  <2>5. /\ Len(R!Encode(Append(t, c))) \in Nat /\ Len(Append(t, c)) <= Len(R!Encode(Append(t, c)))
        /\ Len(R!Encode(Append(t, c))) = Len(Append(t, c)) <=> Len(R!Encode(t)) = Len(t) /\ Len(c) = 1
    <3>1. Len(R!Encode(t)) \in Nat /\ Len(t) <= Len(R!Encode(t)) /\ Len(t) \in Nat
      <4>1. Len(t) \in Nat
        OBVIOUS
      <4> QED BY <4>1, <2>0
    <3>2. PICK m \in Nat, n \in Nat, k \in Nat \ {0} :
            m = Len(R!Encode(t)) /\ n = Len(t) /\ k = Len(c)
      BY <3>1, <2>2
    <3>3. n <= m
      BY <3>1, <3>2
    <3>4. m + k \in Nat /\ n + 1 <= m + k /\ (m + k = n + 1 <=> m = n /\ k = 1)
      BY <3>3
    <3> QED BY <3>2, <3>4, <2>2, <2>3
  <2> HIDE DEF OneByte
  <2>6. Len(R!Encode(Append(t, c))) = Len(Append(t, c)) <=> OneByte(Append(t, c))
    BY <2>0, <2>4, <2>5
  <2>7. Fits(Append(t, c))
    BY <2>5, <2>6
  <2> HIDE DEF Fits
  <2> QED BY <2>3, <2>7
<1> HIDE DEF Fits
<1>4. s \in Good => Fits(s)
  OBVIOUS
<1> HIDE DEF Good
<1>3. s \in Good
  BY <1>1, <1>2, TextInduction
<1>5. Fits(s)
  BY <1>3, <1>4
<1> QED BY <1>5 DEF Fits

\* A text splits at each of its places.
LEMMA SplitAt ==
  ASSUME NEW A, NEW s \in Seq(A), NEW n \in 0 .. Len(s)
  PROVE  /\ SubSeq(s, 1, n) \in Seq(A) /\ Len(SubSeq(s, 1, n)) = n
         /\ SubSeq(s, n + 1, Len(s)) \in Seq(A) /\ Len(SubSeq(s, n + 1, Len(s))) = Len(s) - n
         /\ s = SubSeq(s, 1, n) \o SubSeq(s, n + 1, Len(s))
         /\ \A k \in 1 .. n : SubSeq(s, 1, n)[k] = s[k]
         /\ \A k \in 1 .. Len(s) - n : SubSeq(s, n + 1, Len(s))[k] = s[n + k]
<1>1. Len(s) \in Nat /\ \A k \in 1 .. Len(s) : s[k] \in A
  BY ElementOfSeq
<1>2. /\ SubSeq(s, 1, n) \in Seq(A) /\ Len(SubSeq(s, 1, n)) = n
      /\ \A k \in 1 .. n : SubSeq(s, 1, n)[k] = s[k]
  BY <1>1, SubSeqProperties
<1>3. /\ SubSeq(s, n + 1, Len(s)) \in Seq(A) /\ Len(SubSeq(s, n + 1, Len(s))) = Len(s) - n
      /\ \A k \in 1 .. Len(s) - n : SubSeq(s, n + 1, Len(s))[k] = s[n + k]
  BY <1>1, SubSeqProperties
<1>4. SubSeq(s, 1, n) \o SubSeq(s, n + 1, Len(s)) = s
  <2>1. 1 \in 1 .. Len(s) + 1 /\ n \in 1 - 1 .. Len(s) /\ Len(s) \in n .. Len(s)
    BY <1>1
  <2> QED BY <2>1, ConcatAdjacentSubSeq, SubSeqFull
<1> QED BY <1>2, <1>3, <1>4

\* The bytes before the i-th character.
Before(s, i) == R!Encode(SubSeq(s, 1, i - 1))

LEMMA EncodeAt ==
  ASSUME R!ConstantsOK, NEW s \in Seq(Char), NEW i \in 1 .. Len(s)
  PROVE  /\ Len(Before(s, i)) \in Nat /\ Len(Before(s, i)) + Len(s[i]) <= Len(R!Encode(s))
         /\ \A j \in 1 .. Len(s[i]) : R!Encode(s)[Len(Before(s, i)) + j] = s[i][j]
         /\ \A h \in 1 .. Len(Before(s, i)) : R!Encode(s)[h] = Before(s, i)[h]
<1>01. PICK before : before = Before(s, i) /\ before = R!Encode(SubSeq(s, 1, i - 1))
  BY DEF Before
<1>02. PICK q : q = Len(before)
  OBVIOUS
<1>1. s[i] \in Char /\ i - 1 \in 0 .. Len(s) /\ i \in 0 .. Len(s) /\ i \in 1 .. Len(s) /\ 1 \in 1 .. Len(s)
  BY ElementOfSeq
<1>2. SubSeq(s, 1, i - 1) \in Seq(Char) /\ SubSeq(s, i + 1, Len(s)) \in Seq(Char)
      /\ SubSeq(s, 1, i) \in Seq(Char) /\ s = SubSeq(s, 1, i) \o SubSeq(s, i + 1, Len(s))
  BY <1>1, SplitAt
<1>3. SubSeq(s, 1, i) = Append(SubSeq(s, 1, i - 1), s[i])
  BY <1>1, <1>2, SubSeqRecursiveSecond, AppendIsConcat
<1>4. R!Encode(s) = (before \o s[i]) \o R!Encode(SubSeq(s, i + 1, Len(s)))
  <2>1. R!Encode(SubSeq(s, 1, i)) = before \o s[i]
    BY <1>01, <1>1, <1>2, <1>3, EncodeAppend
  <2>2. R!Encode(SubSeq(s, 1, i) \o SubSeq(s, i + 1, Len(s)))
          = R!Encode(SubSeq(s, 1, i)) \o R!Encode(SubSeq(s, i + 1, Len(s)))
    BY <1>2, EncodeConcat
  <2> QED BY <1>2, <2>1, <2>2
<1>5. before \in Seq(R!Byte) /\ s[i] \in Seq(R!Byte) /\ R!Encode(SubSeq(s, i + 1, Len(s))) \in Seq(R!Byte)
  BY <1>1, <1>2, <1>01, EncodeType, CharIs
<1>6. /\ before \o s[i] \in Seq(R!Byte) /\ Len(before \o s[i]) = q + Len(s[i]) /\ q \in Nat
      /\ \A j \in 1 .. Len(s[i]) : (before \o s[i])[q + j] = s[i][j]
      /\ \A h \in 1 .. q : (before \o s[i])[h] = before[h]
  BY <1>5, <1>02
<1> DEFINE b == before \o s[i]  c == R!Encode(SubSeq(s, i + 1, Len(s)))
<1>7. b \in Seq(R!Byte) /\ c \in Seq(R!Byte) /\ R!Encode(s) = b \o c
  BY <1>4, <1>5, <1>6
<1>8. Len(b) = q + Len(s[i]) /\ q \in Nat /\ Len(s[i]) \in Nat
  BY <1>5, <1>6
<1>9. Len(R!Encode(s)) >= Len(b) /\ \A h \in 1 .. Len(b) : R!Encode(s)[h] = b[h]
  <2> HIDE DEF b, c
  <2> QED BY <1>7
<1> HIDE DEF b, c
<1>10. ASSUME NEW j \in 1 .. Len(s[i]) PROVE R!Encode(s)[q + j] = s[i][j]
  <2>1. q + j \in 1 .. Len(b)
    BY <1>8
  <2> QED BY <2>1, <1>6, <1>9 DEF b
<1>11. ASSUME NEW h \in 1 .. q PROVE R!Encode(s)[h] = before[h]
  <2>1. h \in 1 .. Len(b)
    BY <1>5, <1>8, CharIs
  <2> QED BY <2>1, <1>6, <1>9 DEF b
<1> QED BY <1>01, <1>02, <1>8, <1>9, <1>10, <1>11

\* The first place where two sequences are not the same.
LEMMA FirstDifference ==
  ASSUME NEW A, NEW s \in Seq(A), NEW t \in Seq(A)
  PROVE  \E i \in Nat \ {0} :
           /\ i <= Len(s) + 1 /\ i <= Len(t) + 1
           /\ \A h \in 1 .. i - 1 : s[h] = t[h]
           /\ i > Len(s) \/ i > Len(t) \/ s[i] # t[i]
<1> DEFINE T == {i \in Nat \ {0} : i > Len(s) \/ i > Len(t) \/ s[i] # t[i]}
<1>1. Len(s) \in Nat /\ Len(t) \in Nat /\ Len(s) + 1 \in T /\ Len(t) + 1 \in T
  OBVIOUS
<1>2. PICK i \in T : \A k \in T : i <= k
  BY <1>1, Smallest
<1>3. \A h \in 1 .. i - 1 : h \notin T /\ h \in Nat \ {0}
  BY <1>2
<1> QED BY <1>1, <1>2, <1>3

\* Two characters differ at a byte that both have.
LEMMA CharsDiffer ==
  ASSUME R!ConstantsOK, NEW c \in Char, NEW d \in Char, c # d
  PROVE  \E i \in 1 .. Len(c) : i <= Len(d) /\ c[i] # d[i] /\ \A h \in 1 .. i - 1 : c[h] = d[h]
<1>1. /\ c \in Seq(R!Byte) /\ Len(c) \in Nat \ {0} /\ Len(c) = R!charlen(c[1])
      /\ d \in Seq(R!Byte) /\ Len(d) \in Nat \ {0} /\ Len(d) = R!charlen(d[1])
  BY CharIs
<1>2. PICK i \in Nat \ {0} :
         /\ i <= Len(c) + 1 /\ i <= Len(d) + 1
         /\ \A h \in 1 .. i - 1 : c[h] = d[h]
         /\ i > Len(c) \/ i > Len(d) \/ c[i] # d[i]
  <2>1. c \in Seq(R!Byte) /\ d \in Seq(R!Byte)
    BY <1>1
  <2> QED BY ONLY <2>1, FirstDifference
<1>3. CASE i = 1
  BY <1>1, <1>2, <1>3
<1>4. CASE i # 1
  <2>1. c[1] = d[1]
    BY <1>2, <1>4
  <2>2. Len(c) = Len(d)
    BY <1>1, <2>1
  <2>3. i <= Len(c)
    <3>1. SUFFICES ASSUME i > Len(c) PROVE FALSE
      BY <1>1, <1>2
    <3>2. i = Len(c) + 1
      BY <3>1, <1>2, <1>1
    <3>3. \A h \in 1 .. Len(c) : c[h] = d[h]
      BY <3>2, <1>2, <1>1
    <3> QED BY <3>3, <2>2, <1>1, SeqEqual
  <2> QED BY <1>2, <2>2, <2>3
<1> QED BY <1>3, <1>4

\* Where the characters of two texts differ first, the bytes do.
LEMMA BytesDiffer ==
  ASSUME R!ConstantsOK, NEW s \in Seq(Char), NEW t \in Seq(Char),
         NEW i \in 1 .. Len(s), i <= Len(t), s[i] # t[i], \A h \in 1 .. i - 1 : s[h] = t[h]
  PROVE  \E k \in 1 .. Len(R!Encode(s)), j \in 1 .. Len(s[i]) :
           /\ k <= Len(R!Encode(t)) /\ j <= Len(t[i])
           /\ R!Encode(s)[k] = s[i][j] /\ R!Encode(t)[k] = t[i][j] /\ s[i][j] # t[i][j]
           /\ \A h \in 1 .. j - 1 : s[i][h] = t[i][h]
           /\ \A h \in 1 .. k - 1 : R!Encode(s)[h] = R!Encode(t)[h]
<1>1. i \in 1 .. Len(t) /\ i - 1 \in 0 .. Len(s) /\ i - 1 \in 0 .. Len(t)
      /\ s[i] \in Char /\ t[i] \in Char
  BY ElementOfSeq
<1>2. SubSeq(s, 1, i - 1) = SubSeq(t, 1, i - 1)
  <2>1. /\ SubSeq(s, 1, i - 1) \in Seq(Char) /\ Len(SubSeq(s, 1, i - 1)) = i - 1
        /\ SubSeq(t, 1, i - 1) \in Seq(Char) /\ Len(SubSeq(t, 1, i - 1)) = i - 1
        /\ \A k \in 1 .. i - 1 : SubSeq(s, 1, i - 1)[k] = s[k] /\ SubSeq(t, 1, i - 1)[k] = t[k]
    BY <1>1, SplitAt
  <2> QED BY <2>1, SeqEqual
<1>20. PICK before : before = Before(s, i) /\ before = Before(t, i)
  BY <1>2 DEF Before
<1>21. PICK q : q = Len(before)
  OBVIOUS
<1>3. /\ q \in Nat /\ q + Len(s[i]) <= Len(R!Encode(s))
      /\ \A j \in 1 .. Len(s[i]) : R!Encode(s)[q + j] = s[i][j]
      /\ \A h \in 1 .. q : R!Encode(s)[h] = before[h]
  <2>1. /\ Len(Before(s, i)) \in Nat /\ Len(Before(s, i)) + Len(s[i]) <= Len(R!Encode(s))
        /\ \A j \in 1 .. Len(s[i]) : R!Encode(s)[Len(Before(s, i)) + j] = s[i][j]
        /\ \A h \in 1 .. Len(Before(s, i)) : R!Encode(s)[h] = Before(s, i)[h]
    BY EncodeAt
  <2> QED BY <2>1, <1>20, <1>21
<1>4. /\ q + Len(t[i]) <= Len(R!Encode(t))
      /\ \A j \in 1 .. Len(t[i]) : R!Encode(t)[q + j] = t[i][j]
      /\ \A h \in 1 .. q : R!Encode(t)[h] = before[h]
  <2>1. /\ Len(Before(t, i)) \in Nat /\ Len(Before(t, i)) + Len(t[i]) <= Len(R!Encode(t))
        /\ \A j \in 1 .. Len(t[i]) : R!Encode(t)[Len(Before(t, i)) + j] = t[i][j]
        /\ \A h \in 1 .. Len(Before(t, i)) : R!Encode(t)[h] = Before(t, i)[h]
    BY <1>1, EncodeAt
  <2> QED BY <2>1, <1>20, <1>21
<1>5. PICK j \in 1 .. Len(s[i]) :
         j <= Len(t[i]) /\ s[i][j] # t[i][j] /\ \A h \in 1 .. j - 1 : s[i][h] = t[i][h]
  BY <1>1, CharsDiffer
<1>6. Len(s[i]) \in Nat /\ Len(t[i]) \in Nat /\ Len(R!Encode(s)) \in Nat /\ Len(R!Encode(t)) \in Nat
  BY <1>1, CharIs, EncodeLength
<1>7. q + j \in 1 .. Len(R!Encode(s)) /\ q + j <= Len(R!Encode(t)) /\ j \in 1 .. Len(t[i])
  <2>1. q \in Nat /\ q + Len(s[i]) <= Len(R!Encode(s)) /\ q + Len(t[i]) <= Len(R!Encode(t))
    BY <1>3, <1>4
  <2>2. j \in Nat /\ j >= 1 /\ j <= Len(s[i]) /\ j <= Len(t[i])
    BY <1>5, <1>6
  <2> DEFINE ls == Len(s[i])
             lt == Len(t[i])
             ms == Len(R!Encode(s))
             mt == Len(R!Encode(t))
  <2>3. ls \in Nat /\ lt \in Nat /\ ms \in Nat /\ mt \in Nat
    BY <1>6
  <2>4. q \in Nat /\ q + ls <= ms /\ q + lt <= mt /\ j \in Nat /\ j >= 1 /\ j <= ls /\ j <= lt
    BY <2>1, <2>2
  <2> HIDE DEF ls, lt, ms, mt
  <2>5. q + j \in 1 .. ms /\ q + j <= mt /\ j \in 1 .. lt
    BY <2>3, <2>4
  <2> QED BY <2>5 DEF ls, lt, ms, mt
<1>8. \A h \in 1 .. (q + j) - 1 : R!Encode(s)[h] = R!Encode(t)[h]
  <2>1. ASSUME NEW h \in 1 .. (q + j) - 1 PROVE R!Encode(s)[h] = R!Encode(t)[h]
    <3>1. CASE h <= q
      BY <3>1, <1>3, <1>4
    <3>2. CASE h > q
      <4>1. PICK g \in Nat : g = h - q
        BY <3>2, <1>3
      <4>2. g \in 1 .. j - 1 /\ g \in 1 .. Len(s[i]) /\ g \in 1 .. Len(t[i]) /\ h = q + g
        BY <4>1, <3>2, <1>3, <1>5, <1>6, <1>7
      <4>3. R!Encode(s)[q + g] = s[i][g] /\ R!Encode(t)[q + g] = t[i][g]
        BY <4>2, <1>3, <1>4
      <4> QED BY <4>2, <4>3, <1>5
    <3> QED BY <3>1, <3>2, <1>3
  <2> QED BY <2>1
<1> QED BY <1>3, <1>4, <1>5, <1>7, <1>8

----------------------------------------------------------------------------
LEMMA StartsMeans ==
  ASSUME NEW A, NEW s \in Seq(A), NEW t \in Seq(A), NEW i \in Nat
  PROVE  R!StartsAt(s, t, i) <=> /\ i + Len(t) <= Len(s)
                               /\ \A h \in 1 .. Len(t) : s[i + h] = t[h]
<1>1. Len(s) \in Nat /\ Len(t) \in Nat /\ \A h \in 1 .. Len(s) : s[h] \in A
  BY ElementOfSeq
<1>2. SUFFICES ASSUME i + Len(t) <= Len(s)
               PROVE  SubSeq(s, i + 1, i + Len(t)) = t <=> \A h \in 1 .. Len(t) : s[i + h] = t[h]
  BY DEF R!StartsAt
<1> DEFINE u == SubSeq(s, i + 1, i + Len(t))
<1>3. u \in Seq(A) /\ Len(u) = Len(t) /\ \A h \in 1 .. Len(t) : u[h] = s[i + h]
  <2>1. \A h \in i + 1 .. i + Len(t) : s[h] \in A
    BY <1>1, <1>2
  <2>2. PICK m \in Int, n \in Int : m = i + 1 /\ n = i + Len(t)
    BY <1>1
  <2>3. /\ u \in Seq(A)
        /\ Len(u) = IF i + 1 <= i + Len(t) THEN (i + Len(t)) - (i + 1) + 1 ELSE 0
        /\ \A h \in 1 .. (i + Len(t)) - (i + 1) + 1 : u[h] = s[(i + 1) + h - 1]
    <3>1. \A h \in m .. n : s[h] \in A
      BY <2>1, <2>2
    <3>2. /\ SubSeq(s, m, n) \in Seq(A)
          /\ Len(SubSeq(s, m, n)) = IF m <= n THEN n - m + 1 ELSE 0
          /\ \A h \in 1 .. n - m + 1 : SubSeq(s, m, n)[h] = s[m + h - 1]
      BY <3>1, SubSeqProperties
    <3> QED BY <3>2, <2>2
  <2> HIDE DEF u
  <2>4. Len(u) = Len(t)
    BY <2>3, <1>1
  <2>5. ASSUME NEW h \in 1 .. Len(t) PROVE u[h] = s[i + h]
    <3>1. h \in 1 .. (i + Len(t)) - (i + 1) + 1 /\ (i + 1) + h - 1 = i + h
      BY <1>1
    <3> QED BY <3>1, <2>3
  <2> QED BY <2>3, <2>4, <2>5
<1> HIDE DEF u
<1>4. u = t <=> \A h \in 1 .. Len(t) : s[i + h] = t[h]
  <2>1. ASSUME \A h \in 1 .. Len(t) : s[i + h] = t[h] PROVE u = t
    <3>1. \A h \in 1 .. Len(u) : u[h] = t[h]
      BY <2>1, <1>3
    <3> QED BY <3>1, <1>3, SeqEqual
  <2>2. ASSUME u = t PROVE \A h \in 1 .. Len(t) : s[i + h] = t[h]
    BY <2>2, <1>3
  <2> QED BY <2>1, <2>2
<1> QED BY <1>4 DEF u

\* What begins and ends where: s = p \o t \o r.
LEMMA StartsIn ==
  ASSUME NEW A, NEW p \in Seq(A), NEW t \in Seq(A), NEW r \in Seq(A)
  PROVE  R!StartsAt((p \o t) \o r, t, Len(p)) /\ Len((p \o t) \o r) = Len(p) + Len(t) + Len(r)
<1>1. /\ p \o t \in Seq(A) /\ Len(p \o t) = Len(p) + Len(t) /\ Len(p) \in Nat /\ Len(t) \in Nat
      /\ \A h \in 1 .. Len(t) : (p \o t)[Len(p) + h] = t[h]
  BY ConcatProperties
<1> DEFINE u == p \o t
<1>2. u \in Seq(A) /\ Len(u) = Len(p) + Len(t)
  BY <1>1
<1> HIDE DEF u
<1>3. /\ u \o r \in Seq(A) /\ Len(u \o r) = Len(u) + Len(r) /\ Len(r) \in Nat
      /\ \A h \in 1 .. Len(u) : (u \o r)[h] = u[h]
  <2>0. u \in Seq(A) /\ r \in Seq(A) /\ Len(r) \in Nat /\ Len(u) \in Nat
    BY <1>2
  <2>1. /\ u \o r \in Seq(A) /\ Len(u \o r) = Len(u) + Len(r)
        /\ \A h \in 1 .. Len(u) + Len(r) : (u \o r)[h] = IF h <= Len(u) THEN u[h] ELSE r[h - Len(u)]
    BY ONLY <2>0, ConcatProperties
  <2>2. \A h \in 1 .. Len(u) : h \in 1 .. Len(u) + Len(r) /\ h <= Len(u)
    BY <2>0
  <2> QED BY <2>0, <2>1, <2>2
<1>4. ASSUME NEW h \in 1 .. Len(t) PROVE (u \o r)[Len(p) + h] = t[h]
  <2>1. Len(p) + h \in 1 .. Len(u)
    BY <1>1, <1>2
  <2> QED BY <2>1, <1>1, <1>3 DEF u
<1>5. Len(p) + Len(t) <= Len(u \o r)
  BY <1>1, <1>2, <1>3
<1>6. R!StartsAt(u \o r, t, Len(p))
  BY <1>1, <1>3, <1>4, <1>5, StartsMeans
<1> QED BY <1>1, <1>2, <1>3, <1>6 DEF u

\* What comes after t where it is found in s.
After(s, t, i) == SubSeq(s, i + Len(t) + 1, Len(s))

LEMMA StartsSplit ==
  ASSUME NEW A, NEW s \in Seq(A), NEW t \in Seq(A), NEW i \in Nat, R!StartsAt(s, t, i)
  PROVE  /\ SubSeq(s, 1, i) \in Seq(A) /\ Len(SubSeq(s, 1, i)) = i
         /\ After(s, t, i) \in Seq(A)
         /\ s = (SubSeq(s, 1, i) \o t) \o After(s, t, i)
         /\ Len(s) = i + Len(t) + Len(After(s, t, i))
<1>1. Len(s) \in Nat /\ Len(t) \in Nat /\ i + Len(t) <= Len(s)
      /\ SubSeq(s, i + 1, i + Len(t)) = t
  BY DEF R!StartsAt
<1> DEFINE p == SubSeq(s, 1, i)  r == SubSeq(s, i + Len(t) + 1, Len(s))
<1>2. p \in Seq(A) /\ Len(p) = i
  <2>1. i \in 0 .. Len(s)
    BY <1>1
  <2> QED BY <2>1, SplitAt
<1>3. r \in Seq(A) /\ s = SubSeq(s, 1, i + Len(t)) \o r /\ Len(r) = Len(s) - (i + Len(t))
  <2>1. i + Len(t) \in 0 .. Len(s)
    BY <1>1
  <2> QED BY <2>1, SplitAt
<1>4. SubSeq(s, 1, i + Len(t)) = p \o t
  <2>1. 1 \in 1 .. Len(s) + 1 /\ i \in 1 - 1 .. Len(s) /\ i + Len(t) \in i .. Len(s)
    BY <1>1
  <2>2. SubSeq(s, 1, i) \o SubSeq(s, i + 1, i + Len(t)) = SubSeq(s, 1, i + Len(t))
    BY <2>1, ConcatAdjacentSubSeq
  <2> QED BY <2>2, <1>1
<1> HIDE DEF p, r
<1>5. s = (p \o t) \o r
  BY <1>3, <1>4
<1>6. Len(s) = i + Len(t) + Len(r)
  BY <1>1, <1>3
<1> QED BY <1>2, <1>3, <1>5, <1>6 DEF p, r, After

LEMMA HeadMeans ==
  ASSUME NEW A, NEW s \in Seq(A), NEW t \in Seq(A)
  PROVE  R!StartsAt(s, t, 0) <=> Len(t) <= Len(s) /\ \A h \in 1 .. Len(t) : s[h] = t[h]
<1>1. R!StartsAt(s, t, 0) <=> /\ 0 + Len(t) <= Len(s)
                            /\ \A h \in 1 .. Len(t) : s[0 + h] = t[h]
  BY StartsMeans
<1>2. Len(t) \in Nat /\ \A h \in 1 .. Len(t) : 0 + h = h
  OBVIOUS
<1> QED BY <1>1, <1>2

Rest(s, t) == SubSeq(s, Len(t) + 1, Len(s))

LEMMA HeadSplits ==
  ASSUME NEW A, NEW s \in Seq(A), NEW t \in Seq(A), R!StartsAt(s, t, 0)
  PROVE  Rest(s, t) \in Seq(A) /\ s = t \o Rest(s, t) /\ Len(s) = Len(t) + Len(Rest(s, t))
<1> DEFINE p == SubSeq(s, 1, Len(t))  r == SubSeq(s, Len(t) + 1, Len(s))
<1>1. Len(s) \in Nat /\ Len(t) \in Nat /\ Len(t) <= Len(s) /\ \A h \in 1 .. Len(t) : s[h] = t[h]
  BY HeadMeans
<1>2. /\ p \in Seq(A) /\ Len(p) = Len(t) /\ r \in Seq(A) /\ Len(r) = Len(s) - Len(t)
      /\ s = p \o r /\ \A h \in 1 .. Len(t) : p[h] = s[h]
  <2>1. Len(t) \in 0 .. Len(s)
    BY <1>1
  <2> QED BY <2>1, SplitAt
<1> HIDE DEF p, r
<1>3. p = t
  <2>1. \A h \in 1 .. Len(p) : p[h] = t[h]
    BY <1>1, <1>2
  <2> QED BY <2>1, <1>2, SeqEqual
<1>4. Len(s) = Len(t) + Len(r)
  BY <1>1, <1>2
<1> QED BY <1>2, <1>3, <1>4 DEF r, Rest

LEMMA HeadTexts ==
  ASSUME R!ConstantsOK, NEW s \in Seq(Char), NEW t \in Seq(Char)
  PROVE  R!StartsAt(R!Encode(s), R!Encode(t), 0) <=> R!StartsAt(s, t, 0)
<1>1. R!Encode(s) \in Seq(R!Byte) /\ R!Encode(t) \in Seq(R!Byte) /\ 0 \in Nat
  BY EncodeType
<1>2. Len(s) \in Nat /\ Len(t) \in Nat /\ Len(R!Encode(s)) \in Nat /\ Len(R!Encode(t)) \in Nat
  BY <1>1
<1>3. ASSUME R!StartsAt(s, t, 0) PROVE R!StartsAt(R!Encode(s), R!Encode(t), 0)
  <2>2. PICK r \in Seq(Char) : s = t \o r
    BY <1>3, HeadSplits
  <2>3. R!Encode(s) = R!Encode(t) \o R!Encode(r) /\ R!Encode(r) \in Seq(R!Byte)
    BY <2>2, EncodeConcat, EncodeType
  <2>4. Len(R!Encode(t)) <= Len(R!Encode(s)) /\ \A h \in 1 .. Len(R!Encode(t)) : R!Encode(s)[h] = R!Encode(t)[h]
    BY <2>3, <1>1
  <2> QED BY <2>4, <1>1, HeadMeans
<1>4. ASSUME R!StartsAt(R!Encode(s), R!Encode(t), 0) PROVE R!StartsAt(s, t, 0)
  <2>0. PICK b, c : b = R!Encode(s) /\ c = R!Encode(t)
    OBVIOUS
  <2>1. Len(c) <= Len(b) /\ \A h \in 1 .. Len(c) : b[h] = c[h]
    BY <1>1, <1>4, <2>0, HeadMeans
  <2>2. PICK i \in Nat \ {0} :
          /\ i <= Len(s) + 1 /\ i <= Len(t) + 1
          /\ \A h \in 1 .. i - 1 : s[h] = t[h]
          /\ i > Len(s) \/ i > Len(t) \/ s[i] # t[i]
    BY FirstDifference
  <2>3. CASE i > Len(t)
    <3>1. i = Len(t) + 1 /\ Len(t) <= Len(s)
      BY <2>2, <2>3, <1>2
    <3>2. \A h \in 1 .. Len(t) : s[h] = t[h]
      BY <3>1, <2>2, <1>2
    <3> QED BY <3>1, <3>2, HeadMeans
  <2>4. CASE i <= Len(t) /\ i > Len(s)
    <3>1. i = Len(s) + 1 /\ Len(s) < Len(t) /\ \A h \in 1 .. Len(s) : t[h] = s[h]
      BY <2>2, <2>4, <1>2
    <3>2. R!StartsAt(t, s, 0)
      BY <3>1, <1>2, HeadMeans
    <3>3. PICK r \in Seq(Char) : t = s \o r /\ Len(t) = Len(s) + Len(r)
      BY <3>2, HeadSplits
    <3>5. R!Encode(t) = R!Encode(s) \o R!Encode(r) /\ R!Encode(r) \in Seq(R!Byte)
      BY <3>3, EncodeConcat, EncodeType
    <3>6. Len(R!Encode(t)) = Len(R!Encode(s)) + Len(R!Encode(r)) /\ Len(R!Encode(r)) \in Nat
      BY <3>5, <1>1
    <3>7. Len(r) \in Nat \ {0} /\ Len(r) <= Len(R!Encode(r))
      BY <3>1, <3>3, <1>2, EncodeLength
    <3> QED BY <3>6, <3>7, <2>0, <2>1, <1>2
  <2>5. CASE i <= Len(t) /\ i <= Len(s)
    <3>1. i \in 1 .. Len(s) /\ s[i] # t[i]
      BY <2>2, <2>5, <1>2
    <3>4. i <= Len(t) /\ \A h \in 1 .. i - 1 : s[h] = t[h]
      BY <2>2, <2>5
    <3>2. PICK k \in 1 .. Len(R!Encode(s)), j \in 1 .. Len(s[i]) :
             /\ k <= Len(R!Encode(t)) /\ j <= Len(t[i])
             /\ R!Encode(s)[k] = s[i][j] /\ R!Encode(t)[k] = t[i][j] /\ s[i][j] # t[i][j]
             /\ \A h \in 1 .. j - 1 : s[i][h] = t[i][h]
             /\ \A h \in 1 .. k - 1 : R!Encode(s)[h] = R!Encode(t)[h]
      BY <3>1, <3>4, BytesDiffer
    <3>3. k \in 1 .. Len(c) /\ b[k] # c[k]
      BY <3>2, <2>0, <1>2
    <3> QED BY <3>3, <2>1
  <2> QED BY <2>3, <2>4, <2>5, <2>2, <1>2
<1> QED BY <1>3, <1>4

LEMMA EncodeInjective ==
  ASSUME R!ConstantsOK, NEW s \in Seq(Char), NEW t \in Seq(Char), R!Encode(s) = R!Encode(t)
  PROVE  s = t
<1>1. R!Encode(s) \in Seq(R!Byte) /\ Len(s) \in Nat /\ Len(t) \in Nat
  BY EncodeType
<1>2. R!StartsAt(R!Encode(s), R!Encode(s), 0)
  BY <1>1, HeadMeans
<1>3. R!StartsAt(s, t, 0) /\ R!StartsAt(t, s, 0)
  BY <1>2, HeadTexts
<1>4. Len(t) <= Len(s) /\ Len(s) <= Len(t) /\ \A h \in 1 .. Len(t) : s[h] = t[h]
  BY <1>1, <1>3, HeadMeans
<1>5. Len(s) = Len(t) /\ \A h \in 1 .. Len(s) : s[h] = t[h]
  BY <1>1, <1>4
<1> QED BY <1>5, SeqEqual

\* A byte that continues no character starts one.
LEMMA CharStarts ==
  ASSUME R!ConstantsOK, NEW s \in Seq(Char), NEW k \in 1 .. Len(R!Encode(s)),
         R!Encode(s)[k] \notin R!Continuation
  PROVE  \E i \in 1 .. Len(s) : k = Len(Before(s, i)) + 1
<1> DEFINE Good == {t \in Seq(Char) : \A h \in 1 .. Len(R!Encode(t)) :
                   R!Encode(t)[h] \notin R!Continuation =>
                     \E i \in 1 .. Len(t) : h = Len(Before(t, i)) + 1}
<1>1. << >> \in Good
  BY EncodeEmpty, EmptySeq
<1>2. ASSUME NEW t \in Seq(Char), NEW c \in Char, t \in Good PROVE Append(t, c) \in Good
  <2>0. PICK b, u : b = R!Encode(t) /\ u = Append(t, c)
    OBVIOUS
  <2>1. R!Encode(u) = b \o c /\ b \in Seq(R!Byte) /\ c \in Seq(R!Byte)
    BY <2>0, EncodeAppend, EncodeType, CharIs
  <2>2. /\ Len(b) \in Nat /\ Len(c) \in Nat \ {0} /\ Len(R!Encode(u)) = Len(b) + Len(c)
        /\ \A h \in 1 .. Len(b) : R!Encode(u)[h] = b[h]
        /\ \A h \in 1 .. Len(c) : R!Encode(u)[Len(b) + h] = c[h]
    BY <2>1, CharIs
  <2>3. /\ u \in Seq(Char) /\ Len(u) = Len(t) + 1 /\ Len(t) \in Nat
        /\ \A h \in 1 .. Len(t) : u[h] = t[h]
    BY <2>0, AppendProperties
  <2>4. ASSUME NEW i \in 1 .. Len(t) + 1 PROVE SubSeq(u, 1, i - 1) = SubSeq(t, 1, i - 1)
    <3>1. i - 1 \in 0 .. Len(t) /\ i - 1 \in 0 .. Len(u)
      BY <2>3
    <3>2. /\ SubSeq(u, 1, i - 1) \in Seq(Char) /\ Len(SubSeq(u, 1, i - 1)) = i - 1
          /\ SubSeq(t, 1, i - 1) \in Seq(Char) /\ Len(SubSeq(t, 1, i - 1)) = i - 1
          /\ \A k_1 \in 1 .. i - 1 : SubSeq(u, 1, i - 1)[k_1] = u[k_1] /\ SubSeq(t, 1, i - 1)[k_1] = t[k_1]
      BY <3>1, <2>3, SplitAt
    <3>3. \A k_1 \in 1 .. i - 1 : u[k_1] = t[k_1]
      BY <2>3
    <3> QED BY <3>2, <3>3, SeqEqual
  <2>5. SubSeq(t, 1, Len(t)) = t
    BY SubSeqFull
  <2>6. ASSUME NEW h \in 1 .. Len(R!Encode(u)), R!Encode(u)[h] \notin R!Continuation
        PROVE  \E i \in 1 .. Len(u) : h = Len(Before(u, i)) + 1
    <3>1. CASE h <= Len(b)
      <4>1. h \in 1 .. Len(R!Encode(t)) /\ R!Encode(t)[h] \notin R!Continuation
        BY <3>1, <2>0, <2>2, <2>6
      <4>2. PICK i \in 1 .. Len(t) : h = Len(Before(t, i)) + 1
        BY <4>1, <1>2
      <4>3. i \in 1 .. Len(u) /\ i \in 1 .. Len(t) + 1
        BY <2>3
      <4>4. Before(u, i) = Before(t, i)
        BY <4>3, <2>4 DEF Before
      <4> QED BY <4>2, <4>3, <4>4
    <3>2. CASE h > Len(b)
      <4>1. PICK g \in 1 .. Len(c) : h = Len(b) + g
        <5>1. h - Len(b) \in 1 .. Len(c) /\ h = Len(b) + (h - Len(b))
          BY <3>2, <2>2
        <5> QED BY <5>1
      <4>2. c[g] \notin R!Continuation
        BY <4>1, <2>2, <2>6
      <4>3. g = 1
        BY <4>2, <2>2, CharIs
      <4>4. Len(t) + 1 \in 1 .. Len(u) /\ Len(t) + 1 \in 1 .. Len(t) + 1 /\ (Len(t) + 1) - 1 = Len(t)
        BY <2>3
      <4>5. Before(u, Len(t) + 1) = b
        BY <4>4, <2>0, <2>4, <2>5 DEF Before
      <4> QED BY <4>1, <4>3, <4>4, <4>5
    <3> QED BY <3>1, <3>2, <2>2
  <2> QED BY <2>0, <2>3, <2>6
<1> HIDE DEF Good
<1>3. Seq(Char) \subseteq Good
  BY <1>1, <1>2, TextInduction
<1> QED BY <1>3 DEF Good

----------------------------------------------------------------------------
\* A text within another is found at a character, and is there among the characters.
LEMMA WithinTexts ==
  ASSUME R!ConstantsOK, NEW s \in Seq(Char), NEW t \in Seq(Char), t # << >>, NEW j \in Nat,
         R!StartsAt(R!Encode(s), R!Encode(t), j)
  PROVE  \E i \in 0 .. Len(s) : j = Len(R!Encode(SubSeq(s, 1, i))) /\ R!StartsAt(s, t, i)
<1>1. PICK b, c : b = R!Encode(s) /\ c = R!Encode(t)
  OBVIOUS
<1>2. b \in Seq(R!Byte) /\ c \in Seq(R!Byte) /\ Len(b) \in Nat /\ Len(c) \in Nat
      /\ Len(s) \in Nat /\ Len(t) \in Nat \ {0}
  BY <1>1, EncodeType, EmptySeq
<1>3. j + Len(c) <= Len(b) /\ \A h \in 1 .. Len(c) : b[j + h] = c[h]
  BY <1>1, <1>2, StartsMeans
<1>4. Len(t) <= Len(c)
  BY <1>1, EncodeLength
<1>5. c[1] = t[1][1] /\ t[1] \in Char
  <2>1. 1 \in 1 .. Len(t) /\ t[1] \in Char /\ 1 \in 1 .. Len(t[1])
    <3>1. 1 \in 1 .. Len(t) /\ t[1] \in Char
      BY <1>2, ElementOfSeq
    <3> QED BY <3>1, CharIs
  <2>2. R!Encode(t)[Len(Before(t, 1)) + 1] = t[1][1]
    BY <2>1, EncodeAt
  <2>3. SubSeq(t, 1, 1 - 1) = << >>
    BY SubSeqEmpty
  <2>4. Len(Before(t, 1)) = 0
    BY <2>3, EncodeEmpty, EmptySeq DEF Before
  <2> QED BY <2>1, <2>2, <2>4, <1>1
<1>6. j + 1 \in 1 .. Len(R!Encode(s)) /\ R!Encode(s)[j + 1] \notin R!Continuation
  <2>1. 1 \in 1 .. Len(c) /\ j + 1 \in 1 .. Len(b)
    BY <1>2, <1>3, <1>4
  <2>2. b[j + 1] = c[1]
    BY <2>1, <1>3
  <2> QED BY <2>1, <2>2, <1>1, <1>5, CharIs
<1>7. PICK i \in 1 .. Len(s) : j + 1 = Len(Before(s, i)) + 1
  BY <1>6, CharStarts
<1>8. PICK m \in 0 .. Len(s) : m = i - 1
  BY <1>2
<1> DEFINE p == SubSeq(s, 1, m)  u == SubSeq(s, m + 1, Len(s))
<1>9. /\ p \in Seq(Char) /\ u \in Seq(Char) /\ s = p \o u
      /\ Len(p) = m /\ Len(u) = Len(s) - m /\ \A h \in 1 .. Len(s) - m : u[h] = s[m + h]
  BY <1>8, SplitAt
<1>10. Len(R!Encode(p)) \in Nat /\ j = Len(R!Encode(p))
  <2>1. Len(R!Encode(p)) \in Nat /\ Before(s, i) = R!Encode(p)
    BY <1>8, <1>9, EncodeLength DEF Before
  <2> QED BY <2>1, <1>7
<1> HIDE DEF u, p
<1>11. R!Encode(s) = R!Encode(p) \o R!Encode(u) /\ R!Encode(p) \in Seq(R!Byte) /\ R!Encode(u) \in Seq(R!Byte)
  BY <1>9, EncodeConcat, EncodeType
<1>12. PICK d : d = R!Encode(u)
  OBVIOUS
<1>13. /\ d \in Seq(R!Byte) /\ Len(d) \in Nat /\ Len(b) = j + Len(d)
       /\ \A h \in 1 .. Len(d) : b[j + h] = d[h]
  BY <1>1, <1>10, <1>11, <1>12
<1>14. Len(c) <= Len(d) /\ \A h \in 1 .. Len(c) : d[h] = c[h]
  BY <1>2, <1>3, <1>13
<1>15. R!StartsAt(u, t, 0)
  BY <1>1, <1>2, <1>9, <1>12, <1>13, <1>14, HeadMeans, HeadTexts
<1>16. Len(t) <= Len(u) /\ \A h \in 1 .. Len(t) : u[h] = t[h]
  BY <1>9, <1>15, HeadMeans
<1>17. m + Len(t) <= Len(s) /\ \A h \in 1 .. Len(t) : s[m + h] = t[h]
  BY <1>2, <1>9, <1>16
<1>18. R!StartsAt(s, t, m)
  BY <1>17, StartsMeans
<1> QED BY <1>10, <1>18 DEF p

LEMMA TextsWithin ==
  ASSUME R!ConstantsOK, NEW s \in Seq(Char), NEW t \in Seq(Char), NEW i \in Nat, R!StartsAt(s, t, i)
  PROVE  \E p \in Seq(Char), r \in Seq(Char) :
           /\ p = SubSeq(s, 1, i) /\ Len(s) = i + Len(t) + Len(r)
           /\ R!StartsAt(R!Encode(s), R!Encode(t), Len(R!Encode(p)))
           /\ Len(R!Encode(s)) = Len(R!Encode(p)) + Len(R!Encode(t)) + Len(R!Encode(r))
<1> DEFINE p == SubSeq(s, 1, i)  r == After(s, t, i)
<1>1. /\ p \in Seq(Char) /\ r \in Seq(Char) /\ s = (p \o t) \o r /\ Len(p) = i
      /\ Len(s) = i + Len(t) + Len(r)
  BY StartsSplit
<1>2. p = SubSeq(s, 1, i)
  OBVIOUS
<1> HIDE DEF p, r
<1>3. R!Encode(p \o t) = R!Encode(p) \o R!Encode(t) /\ p \o t \in Seq(Char)
  BY <1>1, EncodeConcat, ConcatProperties
<1>4. R!Encode(s) = (R!Encode(p) \o R!Encode(t)) \o R!Encode(r)
  BY <1>1, <1>3, EncodeConcat
<1>5. R!Encode(p) \in Seq(R!Byte) /\ R!Encode(t) \in Seq(R!Byte) /\ R!Encode(r) \in Seq(R!Byte)
  BY <1>1, EncodeType
<1>6. /\ R!StartsAt((R!Encode(p) \o R!Encode(t)) \o R!Encode(r), R!Encode(t), Len(R!Encode(p)))
      /\ Len((R!Encode(p) \o R!Encode(t)) \o R!Encode(r)) = Len(R!Encode(p)) + Len(R!Encode(t)) + Len(R!Encode(r))
  BY <1>5, StartsIn
<1>7. /\ R!StartsAt(R!Encode(s), R!Encode(t), Len(R!Encode(p)))
      /\ Len(R!Encode(s)) = Len(R!Encode(p)) + Len(R!Encode(t)) + Len(R!Encode(r))
  BY <1>4, <1>6
<1> QED BY <1>1, <1>2, <1>7

LEMMA ContainsTexts ==
  ASSUME R!ConstantsOK, NEW s \in Seq(Char), NEW t \in Seq(Char)
  PROVE  R!strstr(s, t) <=> \E i \in 0 .. Len(s) : R!StartsAt(s, t, i)
<1>1. ASSUME NEW i \in 0 .. Len(s), R!StartsAt(s, t, i) PROVE R!strstr(s, t)
  <2>1. PICK p \in Seq(Char), r \in Seq(Char) :
          /\ R!StartsAt(R!Encode(s), R!Encode(t), Len(R!Encode(p)))
          /\ Len(R!Encode(s)) = Len(R!Encode(p)) + Len(R!Encode(t)) + Len(R!Encode(r))
    BY <1>1, TextsWithin
  <2>2. Len(R!Encode(p)) \in 0 .. Len(R!Encode(s))
    BY <2>1, EncodeLength
  <2> QED BY <2>1, <2>2 DEF R!strstr
<1>2. ASSUME R!strstr(s, t) PROVE \E i \in 0 .. Len(s) : R!StartsAt(s, t, i)
  <2>1. PICK j \in 0 .. Len(R!Encode(s)) : R!StartsAt(R!Encode(s), R!Encode(t), j)
    BY <1>2 DEF R!strstr
  <2>2. CASE t # << >>
    BY <2>1, <2>2, WithinTexts, EncodeLength
  <2>3. CASE t = << >>
    <3>1. Len(t) = 0 /\ Len(s) \in Nat
      BY <2>3, EmptySeq
    <3>2. R!StartsAt(s, t, 0)
      <4>1. Len(t) <= Len(s) /\ \A h \in 1 .. Len(t) : s[h] = t[h]
        BY <3>1
      <4> QED BY <4>1, HeadMeans
    <3> QED BY <3>1, <3>2
  <2> QED BY <2>2, <2>3
<1> QED BY <1>1, <1>2

LEMMA TailTexts ==
  ASSUME R!ConstantsOK, NEW s \in Seq(Char), NEW t \in Seq(Char)
  PROVE  R!IsTail(s, t) <=> Len(t) <= Len(s) /\ R!StartsAt(s, t, Len(s) - Len(t))
<1>1. /\ Len(s) \in Nat /\ Len(t) \in Nat /\ Len(R!Encode(s)) \in Nat /\ Len(R!Encode(t)) \in Nat
  BY EncodeLength
<1>2. ASSUME Len(t) <= Len(s), R!StartsAt(s, t, Len(s) - Len(t)) PROVE R!IsTail(s, t)
  <2>1. Len(s) - Len(t) \in Nat
    BY <1>1, <1>2
  <2>2. PICK p \in Seq(Char), r \in Seq(Char) :
          /\ Len(s) = (Len(s) - Len(t)) + Len(t) + Len(r)
          /\ R!StartsAt(R!Encode(s), R!Encode(t), Len(R!Encode(p)))
          /\ Len(R!Encode(s)) = Len(R!Encode(p)) + Len(R!Encode(t)) + Len(R!Encode(r))
    BY <1>2, <2>1, TextsWithin
  <2>3. r = << >>
    BY <2>2, <1>1, EmptySeq
  <2>4. Len(R!Encode(r)) = 0 /\ Len(R!Encode(p)) \in Nat
    BY <2>3, EncodeEmpty, EmptySeq, EncodeLength
  <2>5. Len(R!Encode(p)) = Len(R!Encode(s)) - Len(R!Encode(t)) /\ Len(R!Encode(t)) <= Len(R!Encode(s))
    BY <2>2, <2>4, <1>1
  <2> QED BY <2>2, <2>5 DEF R!IsTail
<1>3. ASSUME R!IsTail(s, t) PROVE Len(t) <= Len(s) /\ R!StartsAt(s, t, Len(s) - Len(t))
  <2>1. CASE t = << >>
    <3>1. Len(t) = 0 /\ Len(s) - Len(t) = Len(s)
      BY <1>1, <2>1, EmptySeq
    <3>2. Len(s) + Len(t) <= Len(s) /\ \A h \in 1 .. Len(t) : s[Len(s) + h] = t[h]
      BY <3>1, <1>1
    <3>3. R!StartsAt(s, t, Len(s))
      BY <3>2, <1>1, StartsMeans
    <3> QED BY <3>1, <3>3, <1>1
  <2>2. CASE t # << >>
    <3>1. PICK j \in Nat : j = Len(R!Encode(s)) - Len(R!Encode(t)) /\ R!StartsAt(R!Encode(s), R!Encode(t), j)
      BY <1>1, <1>3 DEF R!IsTail
    <3>2. PICK i \in 0 .. Len(s) : j = Len(R!Encode(SubSeq(s, 1, i))) /\ R!StartsAt(s, t, i)
      BY <3>1, <2>2, WithinTexts
    <3>3. PICK p \in Seq(Char), r \in Seq(Char) :
            /\ p = SubSeq(s, 1, i) /\ Len(s) = i + Len(t) + Len(r)
            /\ Len(R!Encode(s)) = Len(R!Encode(p)) + Len(R!Encode(t)) + Len(R!Encode(r))
      BY <3>2, TextsWithin
    <3>4. Len(r) \in Nat /\ Len(R!Encode(r)) \in Nat /\ Len(r) <= Len(R!Encode(r))
      BY EncodeLength
    <3>5. Len(R!Encode(p)) = j
      BY <3>2, <3>3
    <3>6. Len(r) = 0
      BY <3>1, <3>3, <3>4, <3>5, <1>1
    <3>7. Len(t) <= Len(s) /\ i = Len(s) - Len(t)
      BY <3>3, <3>6, <1>1
    <3> QED BY <3>2, <3>7
  <2> QED BY <2>1, <2>2
<1> QED BY <1>2, <1>3

----------------------------------------------------------------------------
\* strcmp tells the first byte that is not the same.
LEMMA ComparedAt ==
  ASSUME NEW b \in Seq(R!Byte), NEW c \in Seq(R!Byte), NEW k \in 1 .. Len(b),
         \A h \in 1 .. k - 1 : h <= Len(c) /\ b[h] = c[h],
         k > Len(c) \/ b[k] # c[k]
  PROVE  R!Compared(b, c) = IF k > Len(c) THEN 1 ELSE IF b[k] < c[k] THEN -1 ELSE 1
<1> DEFINE differ == {i \in 1 .. Len(b) : i > Len(c) \/ b[i] # c[i]}
           first == CHOOSE i \in differ : \A h \in differ : i <= h
<1>1. Len(b) \in Nat /\ Len(c) \in Nat
  OBVIOUS
<1>2. k \in differ
  OBVIOUS
<1>3. \A h \in differ : k <= h
  <2>1. ASSUME NEW h \in differ, h < k PROVE FALSE
    <3>1. h \in 1 .. k - 1 /\ (h > Len(c) \/ b[h] # c[h])
      BY <2>1, <1>1
    <3>2. h <= Len(c) /\ b[h] = c[h]
      BY <3>1
    <3> QED BY <3>1, <3>2, <1>1
  <2> QED BY <2>1, <1>1
<1>4. \A i \in differ : (\A h \in differ : i <= h) => i = k
  BY <1>1, <1>2, <1>3
<1>5. R!Compared(b, c) = IF differ = {} THEN IF Len(b) < Len(c) THEN -1 ELSE 0
                       ELSE IF first > Len(c) THEN 1 ELSE IF b[first] < c[first] THEN -1 ELSE 1
  BY DEF R!Compared
<1> HIDE DEF differ
<1>6. first = k
  BY <1>2, <1>3, <1>4
<1> HIDE DEF first
<1> QED BY <1>2, <1>5, <1>6

LEMMA ComparedHead ==
  ASSUME NEW b \in Seq(R!Byte), NEW c \in Seq(R!Byte), R!StartsAt(c, b, 0)
  PROVE  R!Compared(b, c) = IF Len(b) < Len(c) THEN -1 ELSE 0
<1>1. Len(b) <= Len(c) /\ (\A h \in 1 .. Len(b) : c[h] = b[h]) /\ Len(b) \in Nat /\ Len(c) \in Nat
  BY HeadMeans
<1>2. {i \in 1 .. Len(b) : i > Len(c) \/ b[i] # c[i]} = {}
  BY <1>1
<1> QED BY <1>2 DEF R!Compared

LEMMA CharOrder ==
  ASSUME R!ConstantsOK, NEW c \in Char, NEW d \in Char, NEW j \in 1 .. Len(c), j <= Len(d),
         c[j] # d[j], \A h \in 1 .. j - 1 : c[h] = d[h]
  PROVE  R!Strings!CharLess(c, d) <=> c[j] < d[j]
<1>1. /\ c \in Seq(R!Byte) /\ d \in Seq(R!Byte) /\ Len(c) \in Nat /\ Len(d) \in Nat
      /\ \A h \in 1 .. Len(c) : c[h] \in Int
      /\ \A h \in 1 .. Len(d) : d[h] \in Int
  <2>1. c \in Seq(R!Byte) /\ d \in Seq(R!Byte) /\ Len(c) \in Nat /\ Len(d) \in Nat
    BY CharIs
  <2>2. (\A h \in 1 .. Len(c) : c[h] \in R!Byte) /\ (\A h \in 1 .. Len(d) : d[h] \in R!Byte)
    BY <2>1, ElementOfSeq
  <2>3. R!Byte \subseteq Int
    BY DEF R!Byte
  <2> QED BY <2>1, <2>2, <2>3
<1>2. ASSUME c[j] < d[j] PROVE R!Strings!CharLess(c, d)
  BY <1>2 DEF R!Strings!CharLess
<1>3. ASSUME R!Strings!CharLess(c, d) PROVE c[j] < d[j]
  <2>1. PICK i \in 1 .. Len(c) : i <= Len(d) /\ c[i] < d[i] /\ \A h \in 1 .. i - 1 : c[h] = d[h]
    BY <1>3 DEF R!Strings!CharLess
  <2>2. c[i] # d[i]
    BY <2>1, <1>1
  <2>3. ~ (i < j) /\ ~ (j < i)
    BY <2>1, <2>2, <1>1
  <2>4. i = j
    BY <2>3, <1>1
  <2> QED BY <2>1, <2>4
<1> QED BY <1>2, <1>3

\* No character is before itself.
LEMMA CharSame ==
  ASSUME R!ConstantsOK, NEW c \in Char
  PROVE  ~ R!Strings!CharLess(c, c)
<1>1. \A h \in 1 .. Len(c) : c[h] \in Int
  <2>1. c \in Seq(R!Byte)
    BY CharIs
  <2>2. R!Byte \subseteq Int
    BY DEF R!Byte
  <2> QED BY <2>1, <2>2, ElementOfSeq
<1> QED BY <1>1 DEF R!Strings!CharLess

\* Which of two texts is less is decided at the first difference.
LEMMA LessAt ==
  ASSUME R!ConstantsOK, NEW s \in Seq(Char), NEW t \in Seq(Char), NEW i \in Nat \ {0},
         i <= Len(s) + 1, i <= Len(t) + 1, \A h \in 1 .. i - 1 : s[h] = t[h],
         i > Len(s) \/ i > Len(t) \/ s[i] # t[i]
  PROVE  R!Strings!Less(s, t) <=> i <= Len(t) /\ (i <= Len(s) => R!Strings!CharLess(s[i], t[i]))
<1>1. Len(s) \in Nat /\ Len(t) \in Nat
  OBVIOUS
<1>2. ASSUME i <= Len(t), i <= Len(s) => R!Strings!CharLess(s[i], t[i])
      PROVE  R!Strings!Less(s, t)
  <2>1. i \in 1 .. Len(t)
    BY <1>1, <1>2
  <2> QED BY <2>1, <1>2 DEF R!Strings!Less
<1>3. ASSUME R!Strings!Less(s, t)
      PROVE  i <= Len(t) /\ (i <= Len(s) => R!Strings!CharLess(s[i], t[i]))
  <2>1. PICK k \in 1 .. Len(t) :
          /\ k <= Len(s) + 1
          /\ \A h \in 1 .. k - 1 : s[h] = t[h]
          /\ k <= Len(s) => R!Strings!CharLess(s[k], t[k])
    BY <1>3 DEF R!Strings!Less
  <2>2. ~ (k < i)
    <3>1. SUFFICES ASSUME k < i PROVE FALSE
      OBVIOUS
    <3>2. k \in 1 .. i - 1 /\ k \in 1 .. Len(s)
      BY <3>1, <2>1, <1>1
    <3>3. s[k] = t[k] /\ s[k] \in Char /\ R!Strings!CharLess(s[k], t[k])
      BY <3>2, <2>1, <1>1, ElementOfSeq
    <3>4. R!Strings!CharLess(s[k], s[k])
      BY <3>3
    <3> QED BY <3>3, <3>4, CharSame
  <2>3. ~ (i < k)
    <3>1. SUFFICES ASSUME i < k PROVE FALSE
      OBVIOUS
    <3>2. i <= Len(s) /\ i <= Len(t) /\ i \in 1 .. k - 1
      BY <3>1, <2>1, <1>1
    <3>3. s[i] = t[i]
      BY <3>2, <2>1
    <3> QED BY <3>2, <3>3, <1>1
  <2>4. i = k
    BY <2>2, <2>3
  <2> QED BY <2>1, <2>4
<1> QED BY <1>2, <1>3

LEMMA CompareTexts ==
  ASSUME R!ConstantsOK, NEW s \in Seq(Char), NEW t \in Seq(Char)
  PROVE  /\ R!strcmp(s, t) = IF R!Strings!Less(s, t) THEN -1 ELSE IF R!Strings!Less(t, s) THEN 1 ELSE 0
         /\ R!strcmp(s, t) = 0 <=> s = t
<1>1. PICK b \in Seq(R!Byte), c \in Seq(R!Byte) : b = R!Encode(s) /\ c = R!Encode(t)
  BY EncodeType
<1>2. /\ Len(s) \in Nat /\ Len(t) \in Nat /\ Len(b) \in Nat /\ Len(c) \in Nat
      /\ R!strcmp(s, t) = R!Compared(b, c)
  BY <1>1 DEF R!strcmp
<1>3. PICK i \in Nat \ {0} :
         /\ i <= Len(s) + 1 /\ i <= Len(t) + 1
         /\ \A h \in 1 .. i - 1 : s[h] = t[h]
         /\ i > Len(s) \/ i > Len(t) \/ s[i] # t[i]
  BY FirstDifference
<1>4. R!Strings!Less(s, t) <=> i <= Len(t) /\ (i <= Len(s) => R!Strings!CharLess(s[i], t[i]))
  BY <1>3, LessAt
<1>5. R!Strings!Less(t, s) <=> i <= Len(s) /\ (i <= Len(t) => R!Strings!CharLess(t[i], s[i]))
  <2>1. (\A h \in 1 .. i - 1 : t[h] = s[h]) /\ (i > Len(t) \/ i > Len(s) \/ t[i] # s[i])
    BY <1>3
  <2> QED BY <1>3, <2>1, LessAt
<1>6. CASE i > Len(s) /\ i > Len(t)
  <2>1. s = t
    <3>1. Len(s) = Len(t) /\ \A h \in 1 .. Len(s) : s[h] = t[h]
      BY <1>2, <1>3, <1>6
    <3> QED BY <3>1, SeqEqual
  <2>2. R!StartsAt(c, b, 0) /\ Len(b) = Len(c)
    <3>1. b = c
      BY <2>1, <1>1
    <3>2. Len(b) <= Len(c) /\ \A h \in 1 .. Len(b) : c[h] = b[h]
      BY <3>1, <1>2
    <3> QED BY <3>1, <3>2, HeadMeans
  <2>3. R!Compared(b, c) = 0
    BY <2>2, <1>2, ComparedHead
  <2>4. ~ R!Strings!Less(s, t) /\ ~ R!Strings!Less(t, s)
    BY <1>2, <1>4, <1>5, <1>6
  <2> QED BY <2>1, <2>3, <2>4, <1>2
<1>7. CASE i > Len(s) /\ i <= Len(t)
  <2>1. R!StartsAt(t, s, 0) /\ Len(s) < Len(t)
    <3>1. i = Len(s) + 1 /\ Len(s) < Len(t) /\ \A h \in 1 .. Len(s) : t[h] = s[h]
      BY <1>2, <1>3, <1>7
    <3>2. Len(s) <= Len(t)
      BY <3>1, <1>2
    <3>3. R!StartsAt(t, s, 0) <=> Len(s) <= Len(t) /\ \A h \in 1 .. Len(s) : t[h] = s[h]
      BY HeadMeans
    <3>4. R!StartsAt(t, s, 0)
      BY <3>1, <3>2, <3>3
    <3> QED BY <3>1, <3>4
  <2>2. PICK r \in Seq(Char) : t = s \o r /\ Len(t) = Len(s) + Len(r)
    <3>1. R!StartsAt(t, s, 0)
      BY <2>1
    <3>2. Rest(t, s) \in Seq(Char) /\ t = s \o Rest(t, s) /\ Len(t) = Len(s) + Len(Rest(t, s))
      BY <3>1, HeadSplits
    <3> QED BY <3>2
  <2>3. Len(r) \in Nat \ {0} /\ Len(r) <= Len(R!Encode(r)) /\ Len(R!Encode(r)) \in Nat
    BY <2>1, <2>2, <1>2, EncodeLength
  <2>4. c = b \o R!Encode(r) /\ R!Encode(r) \in Seq(R!Byte)
    BY <2>2, <1>1, EncodeConcat, EncodeType
  <2>5. Len(c) = Len(b) + Len(R!Encode(r))
    BY <2>4
  <2>6. R!StartsAt(c, b, 0)
    BY <2>1, <1>1, HeadTexts
  <2>7. R!Compared(b, c) = -1
    BY <2>3, <2>5, <2>6, <1>2, ComparedHead
  <2>8. R!Strings!Less(s, t) /\ s # t
    BY <2>1, <1>2, <1>4, <1>7
  <2> QED BY <2>7, <2>8, <1>2
<1>8. CASE i <= Len(s) /\ i > Len(t)
  <2>1. R!StartsAt(s, t, 0) /\ Len(t) < Len(s)
    <3>1. i = Len(t) + 1 /\ Len(t) < Len(s) /\ \A h \in 1 .. Len(t) : s[h] = t[h]
      BY <1>2, <1>3, <1>8
    <3>2. Len(t) <= Len(s)
      BY <3>1, <1>2
    <3>3. R!StartsAt(s, t, 0) <=> Len(t) <= Len(s) /\ \A h \in 1 .. Len(t) : s[h] = t[h]
      BY HeadMeans
    <3>4. R!StartsAt(s, t, 0)
      BY <3>1, <3>2, <3>3
    <3> QED BY <3>1, <3>4
  <2>2. PICK r \in Seq(Char) : s = t \o r /\ Len(s) = Len(t) + Len(r)
    <3>1. R!StartsAt(s, t, 0)
      BY <2>1
    <3>2. Rest(s, t) \in Seq(Char) /\ s = t \o Rest(s, t) /\ Len(s) = Len(t) + Len(Rest(s, t))
      BY <3>1, HeadSplits
    <3> QED BY <3>2
  <2>3. Len(r) \in Nat \ {0} /\ Len(r) <= Len(R!Encode(r)) /\ Len(R!Encode(r)) \in Nat
    BY <2>1, <2>2, <1>2, EncodeLength
  <2>4. b = c \o R!Encode(r) /\ R!Encode(r) \in Seq(R!Byte)
    BY <2>2, <1>1, EncodeConcat, EncodeType
  <2>5. Len(b) = Len(c) + Len(R!Encode(r))
    BY <2>4
  <2>6. Len(c) <= Len(b) /\ \A h \in 1 .. Len(c) : b[h] = c[h]
    BY <2>1, <1>1, HeadTexts, HeadMeans
  <2>7. PICK k \in 1 .. Len(b) : k = Len(c) + 1
    BY <2>3, <2>5, <1>2
  <2>8. (\A h \in 1 .. k - 1 : h <= Len(c) /\ b[h] = c[h]) /\ k > Len(c)
    BY <2>6, <2>7, <1>2
  <2>9. R!Compared(b, c) = 1
    BY <2>8, ComparedAt
  <2>10. ~ R!Strings!Less(s, t) /\ R!Strings!Less(t, s) /\ s # t
    BY <2>1, <1>2, <1>4, <1>5, <1>8
  <2> QED BY <2>9, <2>10, <1>2
<1>9. CASE i <= Len(s) /\ i <= Len(t)
  <2>1. i \in 1 .. Len(s) /\ i \in 1 .. Len(t) /\ s[i] # t[i] /\ s[i] \in Char /\ t[i] \in Char
    <3>1. i \in 1 .. Len(s) /\ i \in 1 .. Len(t) /\ s[i] # t[i]
      BY <1>2, <1>3, <1>9
    <3> QED BY <3>1, ElementOfSeq
  <2>2. PICK k \in 1 .. Len(b), j \in 1 .. Len(s[i]) :
          /\ k <= Len(c) /\ j <= Len(t[i])
          /\ b[k] = s[i][j] /\ c[k] = t[i][j] /\ s[i][j] # t[i][j]
          /\ \A h \in 1 .. j - 1 : s[i][h] = t[i][h]
          /\ \A h \in 1 .. k - 1 : b[h] = c[h]
    <3>1. PICK k \in 1 .. Len(R!Encode(s)), j \in 1 .. Len(s[i]) :
            /\ k <= Len(R!Encode(t)) /\ j <= Len(t[i])
            /\ R!Encode(s)[k] = s[i][j] /\ R!Encode(t)[k] = t[i][j] /\ s[i][j] # t[i][j]
            /\ \A h \in 1 .. j - 1 : s[i][h] = t[i][h]
            /\ \A h \in 1 .. k - 1 : R!Encode(s)[h] = R!Encode(t)[h]
      BY <2>1, <1>3, <1>9, BytesDiffer
    <3> QED BY <3>1, <1>1
  <2>3. b[k] \in Int /\ c[k] \in Int /\ b[k] # c[k] /\ k \in 1 .. Len(c)
    <3>1. k \in 1 .. Len(c) /\ b[k] # c[k]
      BY <2>2, <1>2
    <3>2. b[k] \in R!Byte /\ c[k] \in R!Byte
      BY <3>1, ElementOfSeq
    <3>3. R!Byte \subseteq Int
      BY DEF R!Byte
    <3> QED BY <3>1, <3>2, <3>3
  <2>4. R!Compared(b, c) = IF b[k] < c[k] THEN -1 ELSE 1
    <3>1. \A h \in 1 .. k - 1 : h <= Len(c) /\ b[h] = c[h]
      BY <2>2, <2>3, <1>2
    <3>2. R!Compared(b, c) = IF k > Len(c) THEN 1 ELSE IF b[k] < c[k] THEN -1 ELSE 1
      BY <3>1, <2>3, ComparedAt
    <3> QED BY <3>2, <2>3, <1>2
  <2>5. R!Strings!CharLess(s[i], t[i]) <=> b[k] < c[k]
    BY <2>1, <2>2, CharOrder
  <2>6. R!Strings!CharLess(t[i], s[i]) <=> c[k] < b[k]
    <3>0. Len(s[i]) \in Nat /\ Len(t[i]) \in Nat
      BY <2>1, CharIs
    <3>1. j \in 1 .. Len(t[i]) /\ j <= Len(s[i])
      BY <3>0, <2>2
    <3>2. t[i][j] # s[i][j] /\ \A h \in 1 .. j - 1 : t[i][h] = s[i][h]
      BY <2>2
    <3> QED BY <3>1, <3>2, <2>1, <2>2, CharOrder
  <2>7. s # t
    BY <2>1
  <2>8. (R!Strings!Less(s, t) <=> b[k] < c[k]) /\ (R!Strings!Less(t, s) <=> c[k] < b[k])
    BY <1>4, <1>5, <1>9, <2>5, <2>6
  <2> QED BY <2>3, <2>4, <2>7, <2>8, <1>2
<1> QED BY <1>2, <1>6, <1>7, <1>8, <1>9

----------------------------------------------------------------------------

\* Ropes are made of strings of less depth.
Deep(c) ==
  \A p \in StringAddr :
    /\ c[p].depth \in 0 .. MaxDepth
    /\ c[p].flat = NULL =>
         /\ c[p].left \in StringAddr /\ c[c[p].left].depth < c[p].depth
         /\ c[p].right \in StringAddr /\ c[c[p].right].depth < c[p].depth

LEMMA RopeInduction ==
  ASSUME NEW c, Deep(c), NEW Good,
         \A p \in StringAddr : (c[p].flat = NULL => c[p].left \in Good /\ c[p].right \in Good) => p \in Good
  PROVE  StringAddr \subseteq Good
<1> DEFINE T == {n \in Nat : \A p \in StringAddr : c[p].depth < n => p \in Good}
<1>1. 0 \in T
  BY DEF Deep
<1>2. ASSUME NEW n \in Nat, n \in T PROVE n + 1 \in T
  <2>1. ASSUME NEW p \in StringAddr, c[p].depth < n + 1 PROVE p \in Good
    <3>1. CASE c[p].flat = NULL
      <4>1. /\ c[p].left \in StringAddr /\ c[c[p].left].depth < c[p].depth /\ c[c[p].left].depth \in Nat
            /\ c[p].right \in StringAddr /\ c[c[p].right].depth < c[p].depth /\ c[c[p].right].depth \in Nat
            /\ c[p].depth \in Nat
        BY <3>1 DEF Deep
      <4>2. c[c[p].left].depth < n /\ c[c[p].right].depth < n
        BY <4>1, <2>1
      <4>3. c[p].left \in Good /\ c[p].right \in Good
        BY <4>1, <4>2, <1>2
      <4> QED BY <4>3
    <3>2. CASE c[p].flat # NULL
      BY <3>2
    <3> QED BY <3>1, <3>2
  <2> QED BY <2>1
<1> HIDE DEF T
<1>3. Nat \subseteq T
  BY <1>1, <1>2, SetInduction
<1>4. ASSUME NEW p \in StringAddr PROVE p \in Good
  <2>1. c[p].depth + 1 \in T /\ c[p].depth < c[p].depth + 1
    BY <1>3 DEF Deep
  <2> QED BY <2>1 DEF T
<1> QED BY <1>4

\* Recursion along ropes is well founded: f follows base and join.
Follows(c, f, base, join) ==
  \A p \in StringAddr :
    f[p] = IF c[p].flat # NULL THEN base[p] ELSE join[p][f[c[p].left]][f[c[p].right]]

LEMMA RopeRecursion ==
  ASSUME R!ConstantsOK, NEW c, Deep(c), NEW V, NEW base \in [StringAddr -> V],
         NEW join \in [StringAddr -> [V -> [V -> V]]]
  PROVE  \E f \in [StringAddr -> V] : Follows(c, f, base, join)
<1> DEFINE Eq(f, p) ==
             f[p] = IF c[p].flat # NULL THEN base[p] ELSE join[p][f[c[p].left]][f[c[p].right]]
           T == {n \in Nat : \E f \in [StringAddr -> V] : \A p \in StringAddr : c[p].depth < n => Eq(f, p)}
<1>0. \A p \in StringAddr : c[p].depth \in Nat /\ c[p].depth < MaxDepth + 1
  <2>1. MaxDepth \in Nat
    BY DEF R!ConstantsOK
  <2>2. ASSUME NEW p \in StringAddr PROVE c[p].depth \in Nat /\ c[p].depth < MaxDepth + 1
    <3>1. c[p].depth \in 0 .. MaxDepth
      BY DEF Deep
    <3> QED BY <2>1, <3>1
  <2> QED BY <2>2
<1>1. 0 \in T
  <2>1. ASSUME NEW p \in StringAddr, c[p].depth < 0 PROVE FALSE
    <3>1. c[p].depth \in Nat
      BY <1>0
    <3> QED BY <3>1, <2>1
  <2>2. \A p \in StringAddr : c[p].depth < 0 => Eq(base, p)
    BY <2>1
  <2> QED BY <2>2
<1>2. ASSUME NEW n \in Nat, n \in T PROVE n + 1 \in T
  <2>1. PICK f \in [StringAddr -> V] : \A p \in StringAddr : c[p].depth < n => Eq(f, p)
    BY <1>2
  <2> DEFINE g == [p \in StringAddr |-> IF c[p].flat # NULL THEN base[p]
                                  ELSE join[p][f[c[p].left]][f[c[p].right]]]
  <2>2. g \in [StringAddr -> V]
    BY DEF Deep
  <2>3. ASSUME NEW q \in StringAddr, c[q].depth < n PROVE g[q] = f[q]
    BY <2>1, <2>3
  <2>4. ASSUME NEW p \in StringAddr, c[p].depth < n + 1 PROVE Eq(g, p)
    <3>1. CASE c[p].flat = NULL
      <4>1. /\ c[p].left \in StringAddr /\ c[c[p].left].depth < c[p].depth /\ c[c[p].left].depth \in Nat
            /\ c[p].right \in StringAddr /\ c[c[p].right].depth < c[p].depth /\ c[c[p].right].depth \in Nat
            /\ c[p].depth \in Nat
        BY <3>1 DEF Deep
      <4>2. c[c[p].left].depth < n /\ c[c[p].right].depth < n
        BY <4>1, <2>4
      <4>3. g[c[p].left] = f[c[p].left] /\ g[c[p].right] = f[c[p].right]
        BY <4>1, <4>2, <2>3
      <4>4. g[p] = join[p][f[c[p].left]][f[c[p].right]]
        BY <3>1
      <4> HIDE DEF g
      <4> QED BY <3>1, <4>3, <4>4
    <3>2. CASE c[p].flat # NULL
      BY <3>2
    <3> QED BY <3>1, <3>2
  <2> HIDE DEF g, Eq
  <2> QED BY <2>2, <2>4
<1> HIDE DEF T, Eq
<1>3. Nat \subseteq T
  BY <1>1, <1>2, SetInduction
<1>4. MaxDepth + 1 \in T
  BY <1>3 DEF R!ConstantsOK
<1>5. PICK f \in [StringAddr -> V] : \A p \in StringAddr : c[p].depth < MaxDepth + 1 => Eq(f, p)
  BY <1>4 DEF T
<1>6. Follows(c, f, base, join)
  BY <1>5, <1>0 DEF Follows, Eq
<1> QED BY <1>6

\* The flat bytes of the objects c are texts.
Flat(c) == \A p \in StringAddr : c[p].flat \in Seq(Char) \cup {NULL}

\* The text of every object, and of a rope from its parts.
LEMMA FillBufferIs ==
  ASSUME R!ConstantsOK, NEW c, Deep(c), Flat(c)
  PROVE  \A p \in StringAddr :
           /\ R!FillBuffer(c, p) \in Seq(Char)
           /\ c[p].flat # NULL => R!FillBuffer(c, p) = c[p].flat
           /\ c[p].flat = NULL =>
                R!FillBuffer(c, p) = R!FillBuffer(c, c[p].left) \o R!FillBuffer(c, c[p].right)
<1> DEFINE V == Seq(Char)
           base == [p \in StringAddr |-> IF c[p].flat # NULL THEN c[p].flat ELSE << >>]
           join == [p \in StringAddr |-> [x \in V |-> [y \in V |-> x \o y]]]
           Is(f) == f = [p \in StringAddr |-> IF c[p].flat # NULL THEN c[p].flat
                                        ELSE f[c[p].left] \o f[c[p].right]]
           chars == CHOOSE f : Is(f)
<1>1. base \in [StringAddr -> V]
  BY DEF Flat
<1>2. join \in [StringAddr -> [V -> [V -> V]]]
  <2>1. \A x, y \in V : x \o y \in V
    BY ConcatProperties
  <2> HIDE DEF V
  <2> QED BY <2>1
<1>3. PICK f \in [StringAddr -> V] : Follows(c, f, base, join)
  <2> HIDE DEF V, base, join
  <2> QED BY <1>1, <1>2, RopeRecursion
<1>4. Is(f)
  <2>1. ASSUME NEW p \in StringAddr
        PROVE  f[p] = IF c[p].flat # NULL THEN c[p].flat ELSE f[c[p].left] \o f[c[p].right]
    <3>1. CASE c[p].flat # NULL
      BY <1>3, <3>1 DEF Follows
    <3>2. CASE c[p].flat = NULL
      <4>1. f[c[p].left] \in V /\ f[c[p].right] \in V
        BY <3>2, <1>3 DEF Deep
      <4>2. f[p] = join[p][f[c[p].left]][f[c[p].right]]
        BY <3>2, <1>3 DEF Follows
      <4> HIDE DEF V
      <4> QED BY <3>2, <4>1, <4>2
    <3> QED BY <3>1, <3>2
  <2> HIDE DEF V
  <2> QED BY <2>1, <1>3
<1>5. Is(chars)
  <2> HIDE DEF Is
  <2> QED BY <1>4
<1>6. \A p \in StringAddr : R!FillBuffer(c, p) = chars[p]
  BY DEF R!FillBuffer
<1> HIDE DEF chars
<1>7. \A p \in StringAddr : chars[p] = IF c[p].flat # NULL THEN c[p].flat
                                 ELSE chars[c[p].left] \o chars[c[p].right]
  BY <1>5
<1>8. StringAddr \subseteq {p \in StringAddr : chars[p] \in Seq(Char)}
  <2> DEFINE Good == {p \in StringAddr : chars[p] \in Seq(Char)}
  <2>1. ASSUME NEW p \in StringAddr, c[p].flat = NULL => c[p].left \in Good /\ c[p].right \in Good
        PROVE  p \in Good
    <3>1. CASE c[p].flat # NULL
      BY <3>1, <1>7 DEF Flat
    <3>2. CASE c[p].flat = NULL
      <4>1. chars[c[p].left] \in Seq(Char) /\ chars[c[p].right] \in Seq(Char)
        BY <3>2, <2>1
      <4>2. chars[p] = chars[c[p].left] \o chars[c[p].right]
        BY <3>2, <1>7
      <4>3. chars[p] \in Seq(Char)
        BY <4>1, <4>2, ConcatProperties
      <4> QED BY <4>3
    <3> QED BY <3>1, <3>2
  <2> HIDE DEF Good
  <2>2. StringAddr \subseteq Good
    BY <2>1, RopeInduction
  <2> QED BY <2>2 DEF Good
<1>9. ASSUME NEW p \in StringAddr, c[p].flat = NULL PROVE c[p].left \in StringAddr /\ c[p].right \in StringAddr
  BY <1>9 DEF Deep
<1> QED BY <1>6, <1>7, <1>8, <1>9

\* What the code reads for the bytes of an object, and the height of a rope,
\* when the objects are cell.
LEMMA ReadIs ==
  ASSUME R!ConstantsOK, Deep(cell)
  PROVE  \A p \in StringAddr :
           R!Read(p) = IF cell[p].flat # NULL THEN {p}
                     ELSE {p} \cup R!Read(cell[p].left) \cup R!Read(cell[p].right)
<1> DEFINE V == SUBSET StringAddr
           base == [p \in StringAddr |-> {p}]
           join == [p \in StringAddr |-> [x \in V |-> [y \in V |-> {p} \cup x \cup y]]]
           Is(f) == f = [p \in StringAddr |-> IF cell[p].flat # NULL THEN {p}
                                        ELSE {p} \cup f[cell[p].left] \cup f[cell[p].right]]
           cells == CHOOSE f : Is(f)
<1>1. base \in [StringAddr -> V]
  OBVIOUS
<1>2. join \in [StringAddr -> [V -> [V -> V]]]
  OBVIOUS
<1>3. PICK f \in [StringAddr -> V] : Follows(cell, f, base, join)
  <2> HIDE DEF V, base, join
  <2> QED BY <1>1, <1>2, RopeRecursion
<1>4. Is(f)
  <2>1. ASSUME NEW p \in StringAddr
        PROVE  f[p] = IF cell[p].flat # NULL THEN {p}
                      ELSE {p} \cup f[cell[p].left] \cup f[cell[p].right]
    <3>1. CASE cell[p].flat # NULL
      BY <1>3, <3>1 DEF Follows
    <3>2. CASE cell[p].flat = NULL
      <4>1. f[cell[p].left] \in V /\ f[cell[p].right] \in V
        BY <3>2, <1>3 DEF Deep
      <4>2. f[p] = join[p][f[cell[p].left]][f[cell[p].right]]
        BY <3>2, <1>3 DEF Follows
      <4> HIDE DEF V
      <4> QED BY <3>2, <4>1, <4>2
    <3> QED BY <3>1, <3>2
  <2> HIDE DEF V
  <2> QED BY <2>1, <1>3
<1>5. Is(cells)
  <2> HIDE DEF Is
  <2> QED BY <1>4
<1>6. \A p \in StringAddr : R!Read(p) = cells[p]
  BY DEF R!Read
<1> HIDE DEF cells
<1>7. \A p \in StringAddr : cells[p] = IF cell[p].flat # NULL THEN {p}
                                 ELSE {p} \cup cells[cell[p].left] \cup cells[cell[p].right]
  BY <1>5
<1>9. ASSUME NEW p \in StringAddr, cell[p].flat = NULL PROVE cell[p].left \in StringAddr /\ cell[p].right \in StringAddr
  BY <1>9 DEF Deep
<1> QED BY <1>6, <1>7, <1>9

LEMMA HeightIs ==
  ASSUME R!ConstantsOK, Deep(cell)
  PROVE  \A p \in StringAddr :
           /\ R!Height(p) \in Nat
           /\ R!Height(p) = IF cell[p].flat # NULL THEN 0
                          ELSE 1 + R!Larger(R!Height(cell[p].left), R!Height(cell[p].right))
<1> DEFINE V == Nat
           base == [p \in StringAddr |-> 0]
           join == [p \in StringAddr |-> [x \in V |-> [y \in V |-> 1 + R!Larger(x, y)]]]
           Is(f) == f = [p \in StringAddr |-> IF cell[p].flat # NULL THEN 0
                                ELSE 1 + R!Larger(f[cell[p].left], f[cell[p].right])]
           heights == CHOOSE f : Is(f)
<1>1. base \in [StringAddr -> V]
  OBVIOUS
<1>2. join \in [StringAddr -> [V -> [V -> V]]]
  <2>1. \A x, y \in V : 1 + R!Larger(x, y) \in V
    BY DEF R!Larger
  <2> HIDE DEF V
  <2> QED BY <2>1
<1>3. PICK f \in [StringAddr -> V] : Follows(cell, f, base, join)
  <2> HIDE DEF V, base, join
  <2> QED BY <1>1, <1>2, RopeRecursion
<1>4. Is(f)
  <2>1. ASSUME NEW p \in StringAddr
        PROVE  f[p] = IF cell[p].flat # NULL THEN 0
                      ELSE 1 + R!Larger(f[cell[p].left], f[cell[p].right])
    <3>1. CASE cell[p].flat # NULL
      BY <1>3, <3>1 DEF Follows
    <3>2. CASE cell[p].flat = NULL
      <4>1. f[cell[p].left] \in V /\ f[cell[p].right] \in V
        BY <3>2, <1>3 DEF Deep
      <4>2. f[p] = join[p][f[cell[p].left]][f[cell[p].right]]
        BY <3>2, <1>3 DEF Follows
      <4> HIDE DEF V
      <4> QED BY <3>2, <4>1, <4>2
    <3> QED BY <3>1, <3>2
  <2> HIDE DEF V
  <2> QED BY <2>1, <1>3
<1>5. Is(heights)
  <2> HIDE DEF Is
  <2> QED BY <1>4
<1>6. \A p \in StringAddr : R!Height(p) = heights[p]
  BY DEF R!Height
<1> HIDE DEF heights
<1>7. \A p \in StringAddr : heights[p] = IF cell[p].flat # NULL THEN 0
                        ELSE 1 + R!Larger(heights[cell[p].left], heights[cell[p].right])
  BY <1>5
<1>9. ASSUME NEW p \in StringAddr, cell[p].flat = NULL PROVE cell[p].left \in StringAddr /\ cell[p].right \in StringAddr
  BY <1>9 DEF Deep
<1>8. \A p \in StringAddr : R!Height(p) = IF cell[p].flat # NULL THEN 0
                        ELSE 1 + R!Larger(R!Height(cell[p].left), R!Height(cell[p].right))
  BY <1>6, <1>7, <1>9
<1> DEFINE Good == {p \in StringAddr : R!Height(p) \in Nat}
<1>10. ASSUME NEW p \in StringAddr, cell[p].flat = NULL => cell[p].left \in Good /\ cell[p].right \in Good
       PROVE  p \in Good
  <2>1. CASE cell[p].flat # NULL
    BY <2>1, <1>8
  <2>2. CASE cell[p].flat = NULL
    BY <2>2, <1>8, <1>10 DEF R!Larger
  <2> QED BY <2>1, <2>2
<1> HIDE DEF Good
<1>11. StringAddr \subseteq Good
  BY <1>10, RopeInduction
<1> QED BY <1>8, <1>11 DEF Good

----------------------------------------------------------------------------
(* The invariant.                                                           *)

Hashes == {0} \cup {R!HashOf(s) : s \in Seq(Char)}

Cells == [class : {"free", "String", "Concat"}, flat : Seq(Char) \cup {NULL},
          left : StringAddr \cup {NULL}, right : StringAddr \cup {NULL}, depth : 0 .. MaxDepth,
          blen : Nat, size : Nat, ascii : BOOLEAN, hashcode : Hashes]

Live(c) == {p \in StringAddr : c[p].class # "free"}

\* Objects that are not flat are ropes of objects that are not freed.
Whole(c) ==
  /\ c \in [StringAddr -> Cells]
  /\ \A p \in StringAddr :
       /\ c[p].class = "free" => c[p] = R!FREE
       /\ c[p].flat = NULL =>
            /\ c[p].left \in Live(c) /\ c[c[p].left].depth < c[p].depth
            /\ c[p].right \in Live(c) /\ c[c[p].right].depth < c[p].depth

\* The fields of an object describe the text s.
Describes(r, s) ==
  /\ r.blen = Len(R!Encode(s))
  /\ r.size = Len(s)
  /\ r.ascii = (r.blen = r.size)
  /\ r.hashcode \in {0, R!HashOf(s)}

Described(c) == \A p \in Live(c) : Describes(c[p], R!FillBuffer(c, p))

\* The shared strings of one byte have the text they are shared for.
Shared(c, i) == \A s \in DOMAIN i : i[s] \in Live(c) /\ R!FillBuffer(c, i[s]) = s

RopeInv == Whole(cell) /\ Described(cell) /\ held \subseteq Live(cell) /\ Shared(cell, interned)

LEMMA WholeIs ==
  ASSUME NEW c, Whole(c)
  PROVE  Deep(c) /\ Flat(c) /\ c \in [StringAddr -> Cells]
BY DEF Whole, Deep, Flat, Live, Cells

\* The text of an object that is not freed.
LEMMA TextOf ==
  ASSUME R!ConstantsOK, NEW c, Whole(c), NEW p \in StringAddr
  PROVE  /\ R!FillBuffer(c, p) \in Seq(Char) /\ R!FillBuffer(c, p) # NULL
         /\ c[p].flat # NULL => R!FillBuffer(c, p) = c[p].flat
         /\ c[p].flat = NULL =>
              R!FillBuffer(c, p) = R!FillBuffer(c, c[p].left) \o R!FillBuffer(c, c[p].right)
<1>1. Deep(c) /\ Flat(c)
  BY WholeIs
<1>2. /\ R!FillBuffer(c, p) \in Seq(Char)
      /\ c[p].flat # NULL => R!FillBuffer(c, p) = c[p].flat
      /\ c[p].flat = NULL =>
           R!FillBuffer(c, p) = R!FillBuffer(c, c[p].left) \o R!FillBuffer(c, c[p].right)
  BY <1>1, FillBufferIs
<1> QED BY <1>2 DEF R!ConstantsOK

\* The objects in K, ropes with their parts, are flattened or stay as they are.
Refills(c, d, K) ==
  \A p \in K :
    /\ p \in StringAddr
    /\ c[p].flat = NULL => c[p].left \in K /\ c[p].right \in K
    /\ \/ d[p].flat = R!FillBuffer(c, p)
       \/ d[p].flat = c[p].flat /\ d[p].left = c[p].left /\ d[p].right = c[p].right

LEMMA TextKept ==
  ASSUME R!ConstantsOK, NEW c, Whole(c), NEW d, Whole(d), NEW K, Refills(c, d, K)
  PROVE  \A p \in K : R!FillBuffer(d, p) = R!FillBuffer(c, p)
<1> USE DEF Refills
<1> DEFINE Good == {p \in StringAddr : p \in K => R!FillBuffer(d, p) = R!FillBuffer(c, p)}
<1>1. ASSUME NEW p \in StringAddr, c[p].flat = NULL => c[p].left \in Good /\ c[p].right \in Good
      PROVE  p \in Good
  <2>1. ASSUME p \in K, d[p].flat = R!FillBuffer(c, p) PROVE R!FillBuffer(d, p) = R!FillBuffer(c, p)
    <3>1. d[p].flat # NULL
      BY <2>1, TextOf
    <3> QED BY <3>1, <2>1, TextOf
  <2>2. ASSUME p \in K, d[p].flat = c[p].flat, d[p].left = c[p].left, d[p].right = c[p].right
        PROVE  R!FillBuffer(d, p) = R!FillBuffer(c, p)
    <3>1. CASE c[p].flat # NULL
      <4>1. R!FillBuffer(c, p) = c[p].flat
        BY <3>1, TextOf
      <4>2. R!FillBuffer(d, p) = d[p].flat
        BY <3>1, <2>2, TextOf
      <4> QED BY <4>1, <4>2, <2>2
    <3>2. CASE c[p].flat = NULL
      <4>1. R!FillBuffer(c, p) = R!FillBuffer(c, c[p].left) \o R!FillBuffer(c, c[p].right)
        BY <3>2, TextOf
      <4>2. R!FillBuffer(d, p) = R!FillBuffer(d, d[p].left) \o R!FillBuffer(d, d[p].right)
        BY <3>2, <2>2, TextOf
      <4>3. /\ R!FillBuffer(d, c[p].left) = R!FillBuffer(c, c[p].left)
            /\ R!FillBuffer(d, c[p].right) = R!FillBuffer(c, c[p].right)
        BY <3>2, <2>2, <1>1
      <4> QED BY <4>1, <4>2, <4>3, <2>2
    <3> QED BY <3>1, <3>2
  <2> QED BY <2>1, <2>2
<1> HIDE DEF Good
<1>2. StringAddr \subseteq Good
  BY <1>1, RopeInduction, WholeIs
<1> QED BY <1>2 DEF Good

\* Flattening objects and keeping their hashes changes nothing else.
LEMMA Refilled ==
  ASSUME R!ConstantsOK, NEW c, Whole(c), Described(c), NEW d \in [StringAddr -> Cells],
         \A p \in StringAddr :
           /\ c[p].class = "free" => d[p] = c[p]
           /\ d[p].class = c[p].class /\ d[p].depth = c[p].depth
           /\ d[p].left = c[p].left /\ d[p].right = c[p].right
           /\ d[p].blen = c[p].blen /\ d[p].size = c[p].size /\ d[p].ascii = c[p].ascii
           /\ d[p].flat \in {c[p].flat, R!FillBuffer(c, p)}
           /\ d[p].hashcode \in {c[p].hashcode, R!HashOf(R!FillBuffer(c, p))}
  PROVE  /\ Whole(d) /\ Described(d) /\ Live(d) = Live(c)
         /\ \A p \in StringAddr : R!FillBuffer(d, p) = R!FillBuffer(c, p)
<1>1. Live(d) = Live(c)
  BY DEF Live
<1>2. Whole(d)
  <2>1. ASSUME NEW p \in StringAddr
        PROVE  /\ d[p].class = "free" => d[p] = R!FREE
               /\ d[p].flat = NULL =>
                    /\ d[p].left \in Live(d) /\ d[d[p].left].depth < d[p].depth
                    /\ d[p].right \in Live(d) /\ d[d[p].right].depth < d[p].depth
    <3>1. d[p].class = "free" => d[p] = R!FREE
      BY DEF Whole
    <3>2. ASSUME d[p].flat = NULL
          PROVE  /\ d[p].left \in Live(d) /\ d[d[p].left].depth < d[p].depth
                 /\ d[p].right \in Live(d) /\ d[d[p].right].depth < d[p].depth
      <4>1. c[p].flat = NULL
        <5>1. R!FillBuffer(c, p) # NULL
          BY TextOf
        <5> QED BY <5>1, <3>2
      <4>2. /\ c[p].left \in Live(c) /\ c[c[p].left].depth < c[p].depth
            /\ c[p].right \in Live(c) /\ c[c[p].right].depth < c[p].depth
        BY <4>1 DEF Whole
      <4>3. c[p].left \in StringAddr /\ c[p].right \in StringAddr
        BY <4>2 DEF Live
      <4> QED BY <4>2, <4>3, <1>1
    <3> QED BY <3>1, <3>2
  <2> QED BY <2>1 DEF Whole
<1>3. \A p \in StringAddr : R!FillBuffer(d, p) = R!FillBuffer(c, p)
  <2>1. \A p \in StringAddr : c[p].flat = NULL => c[p].left \in StringAddr /\ c[p].right \in StringAddr
    BY DEF Whole, Live
  <2>2. Refills(c, d, StringAddr)
    BY <2>1 DEF Refills
  <2>3. \A K : Refills(c, d, K) => \A p \in K : R!FillBuffer(d, p) = R!FillBuffer(c, p)
    BY <1>2, TextKept
  <2> QED BY <2>2, <2>3
<1>4. Described(d)
  <2>1. ASSUME NEW p \in Live(d) PROVE Describes(d[p], R!FillBuffer(d, p))
    <3>1. p \in StringAddr /\ p \in Live(c)
      BY <1>1 DEF Live
    <3>2. Describes(c[p], R!FillBuffer(c, p)) /\ R!FillBuffer(d, p) = R!FillBuffer(c, p)
      BY <3>1, <1>3 DEF Described
    <3> QED BY <3>1, <3>2 DEF Describes
  <2> QED BY <2>1 DEF Described
<1> QED BY <1>1, <1>2, <1>3, <1>4

LEMMA GrcIs ==
  ASSUME R!ConstantsOK, Whole(cell), Described(cell), NEW os \in SUBSET Live(cell)
  PROVE  /\ R!Grc(os) \in [StringAddr -> Cells]
         /\ Whole(R!Grc(os)) /\ Described(R!Grc(os)) /\ Live(R!Grc(os)) = Live(cell)
         /\ \A p \in StringAddr : R!FillBuffer(R!Grc(os), p) = R!FillBuffer(cell, p)
<1> DEFINE d == R!Grc(os)
<1>0. cell \in [StringAddr -> Cells] /\ \A p \in StringAddr : R!FillBuffer(cell, p) \in Seq(Char)
  BY WholeIs, TextOf
<1>1. \A p \in StringAddr : d[p] = IF p \in os THEN [cell[p] EXCEPT !.flat = R!FillBuffer(cell, p)]
                             ELSE cell[p]
  BY <1>0 DEF R!Grc, R!Flattened
<1>2. d \in [StringAddr -> Cells]
  <2>1. ASSUME NEW p \in StringAddr PROVE d[p] \in Cells
    <3>1. cell[p] \in Cells /\ R!FillBuffer(cell, p) \in Seq(Char)
      BY <1>0
    <3>2. [cell[p] EXCEPT !.flat = R!FillBuffer(cell, p)] \in Cells
      BY <3>1 DEF Cells
    <3>3. d[p] = [cell[p] EXCEPT !.flat = R!FillBuffer(cell, p)] \/ d[p] = cell[p]
      BY <1>1
    <3> HIDE DEF d
    <3> QED BY <3>1, <3>2, <3>3
  <2>2. d = [p \in StringAddr |-> d[p]]
    BY DEF R!Grc
  <2> HIDE DEF d
  <2> QED BY <2>1, <2>2
<1> HIDE DEF d
<1>3. ASSUME NEW p \in StringAddr
      PROVE  /\ cell[p].class = "free" => d[p] = cell[p]
             /\ d[p].class = cell[p].class /\ d[p].depth = cell[p].depth
             /\ d[p].left = cell[p].left /\ d[p].right = cell[p].right
             /\ d[p].blen = cell[p].blen /\ d[p].size = cell[p].size
             /\ d[p].ascii = cell[p].ascii
             /\ d[p].flat \in {cell[p].flat, R!FillBuffer(cell, p)}
             /\ d[p].hashcode \in {cell[p].hashcode, R!HashOf(R!FillBuffer(cell, p))}
  <2>1. CASE p \in os
    <3>1. cell[p].class # "free" /\ cell[p] \in Cells
      BY <2>1, <1>0 DEF Live
    <3>2. d[p] = [cell[p] EXCEPT !.flat = R!FillBuffer(cell, p)]
      BY <2>1, <1>1
    <3> QED BY <3>1, <3>2 DEF Cells
  <2>2. CASE p \notin os
    BY <2>2, <1>1
  <2> QED BY <2>1, <2>2
<1>4. /\ Whole(d) /\ Described(d) /\ Live(d) = Live(cell)
      /\ \A p \in StringAddr : R!FillBuffer(d, p) = R!FillBuffer(cell, p)
  BY <1>2, <1>3, Refilled
<1> QED BY <1>2, <1>4 DEF d

\* d is c with the object r of text s, a flat string or a rope of two objects.
Makes(c, o, r, s, d) ==
  /\ o \in StringAddr /\ o \notin Live(c) /\ d = [c EXCEPT ![o] = r]
  /\ r \in Cells /\ r.class # "free" /\ Describes(r, s)
  /\ \/ r.flat = s /\ s # NULL
     \/ /\ r.flat = NULL
        /\ r.left \in Live(c) /\ c[r.left].depth < r.depth
        /\ r.right \in Live(c) /\ c[r.right].depth < r.depth
        /\ s = R!FillBuffer(c, r.left) \o R!FillBuffer(c, r.right)

LEMMA Allocated ==
  ASSUME R!ConstantsOK, NEW c, Whole(c), Described(c),
         NEW o, NEW r, NEW s, NEW d, Makes(c, o, r, s, d)
  PROVE  /\ Whole(d) /\ Described(d) /\ Live(d) = Live(c) \cup {o} /\ R!FillBuffer(d, o) = s
         /\ \A p \in Live(c) : R!FillBuffer(d, p) = R!FillBuffer(c, p)
<1> USE DEF Makes
<1>0. /\ c \in [StringAddr -> Cells] /\ d \in [StringAddr -> Cells] /\ Live(c) \subseteq StringAddr
      /\ d[o] = r /\ \A p \in StringAddr : p # o => d[p] = c[p]
  BY WholeIs DEF Live
<1>1. Live(d) = Live(c) \cup {o}
  BY <1>0 DEF Live
<1>2. Whole(d)
  <2>1. ASSUME NEW p \in StringAddr
        PROVE  /\ d[p].class = "free" => d[p] = R!FREE
               /\ d[p].flat = NULL =>
                    /\ d[p].left \in Live(d) /\ d[d[p].left].depth < d[p].depth
                    /\ d[p].right \in Live(d) /\ d[d[p].right].depth < d[p].depth
    <3>1. CASE p = o
      <4>1. ASSUME r.flat = NULL
            PROVE  /\ r.left \in Live(c) /\ c[r.left].depth < r.depth
                   /\ r.right \in Live(c) /\ c[r.right].depth < r.depth
        BY <4>1
      <4>2. r.flat = NULL => r.left # o /\ r.right # o /\ r.left \in StringAddr /\ r.right \in StringAddr
        BY <4>1, <1>0
      <4> QED BY <3>1, <4>1, <4>2, <1>0, <1>1
    <3>2. CASE p # o
      <4>1. /\ c[p].class = "free" => c[p] = R!FREE
            /\ c[p].flat = NULL =>
                 /\ c[p].left \in Live(c) /\ c[c[p].left].depth < c[p].depth
                 /\ c[p].right \in Live(c) /\ c[c[p].right].depth < c[p].depth
        BY DEF Whole
      <4>2. c[p].flat = NULL =>
              c[p].left # o /\ c[p].right # o /\ c[p].left \in StringAddr /\ c[p].right \in StringAddr
        BY <4>1, <1>0
      <4> QED BY <3>2, <4>1, <4>2, <1>0, <1>1
    <3> QED BY <3>1, <3>2
  <2> QED BY <2>1, <1>0 DEF Whole
<1>3. \A p \in Live(c) : R!FillBuffer(d, p) = R!FillBuffer(c, p)
  <2>1. \A p \in Live(c) : c[p].flat = NULL => c[p].left \in Live(c) /\ c[p].right \in Live(c)
    BY <1>0 DEF Whole
  <2>2. \A p \in Live(c) : p \in StringAddr /\ p # o
    BY <1>0
  <2>3. Refills(c, d, Live(c))
    BY <2>1, <2>2, <1>0 DEF Refills
  <2> QED BY <1>2, <2>3, TextKept
<1>4. R!FillBuffer(d, o) = s
  <2>1. CASE r.flat = s /\ s # NULL
    BY <2>1, <1>0, <1>2, TextOf
  <2>2. CASE /\ r.flat = NULL
             /\ r.left \in Live(c) /\ r.right \in Live(c)
             /\ s = R!FillBuffer(c, r.left) \o R!FillBuffer(c, r.right)
    <3>1. R!FillBuffer(d, o) = R!FillBuffer(d, r.left) \o R!FillBuffer(d, r.right)
      BY <2>2, <1>0, <1>2, TextOf
    <3> QED BY <3>1, <2>2, <1>3
  <2> QED BY <2>1, <2>2
<1>5. Described(d)
  <2>1. ASSUME NEW p \in Live(d) PROVE Describes(d[p], R!FillBuffer(d, p))
    <3>1. CASE p = o
      BY <3>1, <1>4, <1>0
    <3>2. CASE p # o
      <4>1. p \in Live(c) /\ d[p] = c[p]
        BY <3>2, <1>1, <1>0
      <4>2. Describes(c[p], R!FillBuffer(c, p)) /\ R!FillBuffer(d, p) = R!FillBuffer(c, p)
        BY <4>1, <1>3 DEF Described
      <4> QED BY <4>1, <4>2
    <3> QED BY <3>1, <3>2
  <2> QED BY <2>1 DEF Described
<1> QED BY <1>1, <1>2, <1>3, <1>4, <1>5

LEMMA StringCellIs ==
  ASSUME R!ConstantsOK, NEW s \in Seq(Char)
  PROVE  /\ R!StringCell(s) \in Cells /\ R!StringCell(s).class # "free"
         /\ R!StringCell(s).flat = s /\ s # NULL /\ Describes(R!StringCell(s), s)
<1>1. /\ Len(R!Encode(s)) \in Nat /\ Len(s) \in Nat
      /\ Len(R!Encode(s)) = Len(s) <=> \A k \in 1 .. Len(s) : Len(s[k]) = 1
  BY EncodeLength
<1>2. R!HashOf(s) \in Hashes /\ s # NULL /\ 0 \in 0 .. MaxDepth
  BY DEF Hashes, R!ConstantsOK
<1>3. R!StringCell(s) \in Cells
  BY <1>1, <1>2 DEF R!StringCell, Cells
<1>4. Describes(R!StringCell(s), s)
  BY <1>1 DEF R!StringCell, Describes
<1> QED BY <1>2, <1>3, <1>4 DEF R!StringCell

\* A string of characters of one byte is its bytes.
LEMMA AsciiAt ==
  ASSUME R!ConstantsOK, NEW s \in Seq(Char), Len(R!Encode(s)) = Len(s), NEW i \in 1 .. Len(s)
  PROVE  <<R!Encode(s)[i]>> = s[i]
<1>1. \A k \in 1 .. Len(s) : Len(s[k]) = 1
  BY EncodeLength
<1>2. SubSeq(s, 1, i - 1) \in Seq(Char) /\ Len(SubSeq(s, 1, i - 1)) = i - 1
      /\ \A k \in 1 .. i - 1 : SubSeq(s, 1, i - 1)[k] = s[k]
  <2>1. i - 1 \in 0 .. Len(s)
    OBVIOUS
  <2> QED BY <2>1, SplitAt
<1>3. Len(Before(s, i)) = i - 1
  <2>1. \A k \in 1 .. i - 1 : Len(SubSeq(s, 1, i - 1)[k]) = 1
    BY <1>1, <1>2
  <2> QED BY <2>1, <1>2, EncodeLength DEF Before
<1>4. R!Encode(s)[Len(Before(s, i)) + 1] = s[i][1]
  <2>1. 1 \in 1 .. Len(s[i])
    <3>1. Len(s[i]) = 1
      BY <1>1
    <3> QED BY <3>1
  <2> QED BY <2>1, EncodeAt
<1>5. R!Encode(s)[i] = s[i][1]
  BY <1>3, <1>4
<1>6. s[i] \in Seq(R!Byte) /\ Len(s[i]) = 1
  <2>1. s[i] \in Char
    BY ElementOfSeq
  <2> QED BY <2>1, <1>1, CharIs
<1>7. s[i] = <<s[i][1]>>
  BY <1>6
<1> QED BY <1>5, <1>7

\* Making a string of a text.
LEMMA AllocString ==
  ASSUME R!ConstantsOK, NEW c, Whole(c), Described(c), held \subseteq Live(c),
         Shared(c, interned), Live(c) = Live(cell), NEW s \in Seq(Char), NEW o \in StringAddr,
         R!alloc_String(c, s, o)
  PROVE  /\ RopeInv'
         /\ \A p \in Live(c) : p \in Live(cell') /\ R!FillBuffer(cell', p) = R!FillBuffer(c, p)
         /\ held' = held \cup {o} /\ o \in Live(cell') /\ R!FillBuffer(cell', o) = s
<1>1. CASE s \in DOMAIN interned
  <2>1. o = interned[s] /\ cell' = c /\ interned' = interned /\ held' = held \cup {o}
    BY <1>1 DEF R!alloc_String
  <2>2. o \in Live(c) /\ R!FillBuffer(c, o) = s
    BY <2>1, <1>1 DEF Shared
  <2> QED BY <2>1, <2>2 DEF RopeInv
<1>2. CASE s \notin DOMAIN interned
  <2>1. /\ cell[o] = R!FREE /\ cell' = [c EXCEPT ![o] = R!StringCell(s)] /\ held' = held \cup {o}
        /\ interned' = IF Len(R!Encode(s)) # 1 THEN interned
                       ELSE [t \in DOMAIN interned \cup {s} |-> IF t = s THEN o ELSE interned[t]]
    BY <1>2 DEF R!alloc_String, R!Unused
  <2>2. o \in StringAddr \ Live(c)
    BY <2>1 DEF Live, R!FREE
  <2>3. /\ R!StringCell(s) \in Cells /\ R!StringCell(s).class # "free"
        /\ R!StringCell(s).flat = s /\ s # NULL /\ Describes(R!StringCell(s), s)
    BY StringCellIs
  <2>4. /\ Whole(cell') /\ Described(cell') /\ Live(cell') = Live(c) \cup {o}
        /\ R!FillBuffer(cell', o) = s
        /\ \A p \in Live(c) : R!FillBuffer(cell', p) = R!FillBuffer(c, p)
    <3>1. Makes(c, o, R!StringCell(s), s, cell')
      BY <2>1, <2>2, <2>3 DEF Makes
    <3> QED BY <3>1, Allocated
  <2>5. Shared(cell', interned')
    <3>1. ASSUME NEW t \in DOMAIN interned'
          PROVE  interned'[t] \in Live(cell') /\ R!FillBuffer(cell', interned'[t]) = t
      <4>1. \/ t \in DOMAIN interned /\ interned'[t] = interned[t]
            \/ t = s /\ interned'[t] = o
        BY <2>1, <1>2, <3>1
      <4>2. t \in DOMAIN interned => interned[t] \in Live(c) /\ R!FillBuffer(c, interned[t]) = t
        BY DEF Shared
      <4> QED BY <4>1, <4>2, <2>4
    <3> QED BY <3>1 DEF Shared
  <2>6. held' \subseteq Live(cell')
    BY <2>1, <2>4
  <2>7. RopeInv'
    BY <2>4, <2>5, <2>6 DEF RopeInv
  <2> QED BY <2>1, <2>4, <2>7
<1> QED BY <1>1, <1>2

\* Making a rope of two strings.
LEMMA ConcatCellIs ==
  ASSUME R!ConstantsOK, Whole(cell), Described(cell), NEW l \in Live(cell), NEW r \in Live(cell),
         R!ConcatCell(l, r).depth <= MaxDepth
  PROVE  /\ R!ConcatCell(l, r) \in Cells /\ R!ConcatCell(l, r).class # "free"
         /\ R!ConcatCell(l, r).flat = NULL
         /\ R!ConcatCell(l, r).left = l /\ R!ConcatCell(l, r).right = r
         /\ cell[l].depth < R!ConcatCell(l, r).depth /\ cell[r].depth < R!ConcatCell(l, r).depth
         /\ Describes(R!ConcatCell(l, r), R!FillBuffer(cell, l) \o R!FillBuffer(cell, r))
<1> DEFINE s == R!FillBuffer(cell, l)
           t == R!FillBuffer(cell, r)
<1>1. l \in StringAddr /\ r \in StringAddr /\ cell[l] \in Cells /\ cell[r] \in Cells
  BY WholeIs DEF Live
<1>2. s \in Seq(Char) /\ t \in Seq(Char) /\ Describes(cell[l], s) /\ Describes(cell[r], t)
  BY <1>1, TextOf DEF Described
<1> HIDE DEF s, t
<1>3. /\ R!Encode(s \o t) = R!Encode(s) \o R!Encode(t) /\ Len(s \o t) = Len(s) + Len(t)
      /\ R!Encode(s) \in Seq(R!Byte) /\ R!Encode(t) \in Seq(R!Byte)
  BY <1>2, EncodeConcat, EncodeType, ConcatProperties
<1>4. Len(R!Encode(s \o t)) = Len(R!Encode(s)) + Len(R!Encode(t))
  BY <1>3, ConcatProperties
<1>5. PICK m, n, a, b \in Nat :
        /\ m = Len(s) /\ n = Len(t) /\ a = Len(R!Encode(s)) /\ b = Len(R!Encode(t))
        /\ m <= a /\ n <= b
  BY <1>2, EncodeLength
<1>6. Describes(R!ConcatCell(l, r), s \o t)
  <2>1. /\ cell[l].blen = a /\ cell[l].size = m /\ cell[l].ascii = (a = m)
        /\ cell[r].blen = b /\ cell[r].size = n /\ cell[r].ascii = (b = n)
    BY <1>2, <1>5 DEF Describes
  <2>2. Len(R!Encode(s \o t)) = a + b /\ Len(s \o t) = m + n
    BY <1>3, <1>4, <1>5
  <2>3. (cell[l].ascii /\ cell[r].ascii) = (a + b = m + n)
    <3>1. (a = m /\ b = n) <=> a + b = m + n
      BY <1>5
    <3>2. (cell[l].ascii <=> a = m) /\ (cell[r].ascii <=> b = n)
      BY <2>1
    <3> QED BY <3>1, <3>2
  <2> QED BY <2>1, <2>2, <2>3 DEF Describes, R!ConcatCell
<1>7. cell[l].depth \in 0 .. MaxDepth /\ cell[r].depth \in 0 .. MaxDepth /\ MaxDepth \in Nat
  BY <1>1 DEF Cells, R!ConstantsOK
<1>8. PICK d \in Nat : d = R!ConcatCell(l, r).depth /\ cell[l].depth < d /\ cell[r].depth < d
  BY <1>7 DEF R!ConcatCell, R!Larger
<1>9. R!ConcatCell(l, r) \in Cells
  <2>1. R!ConcatCell(l, r).depth \in 0 .. MaxDepth
    BY <1>7, <1>8
  <2>2. /\ cell[l].blen \in Nat /\ cell[r].blen \in Nat
        /\ cell[l].size \in Nat /\ cell[r].size \in Nat
    BY <1>1 DEF Cells
  <2>3. cell[l].blen + cell[r].blen \in Nat /\ cell[l].size + cell[r].size \in Nat
    BY <2>2
  <2>4. (cell[l].ascii /\ cell[r].ascii) \in BOOLEAN
    OBVIOUS
  <2>5. 0 \in Hashes
    BY DEF Hashes
  <2> QED BY <2>1, <2>3, <2>4, <2>5, <1>1 DEF Cells, R!ConcatCell
<1> QED BY <1>6, <1>8, <1>9 DEF R!ConcatCell, s, t

\* A collection flattens what it keeps.
LEMMA CollectStep ==
  ASSUME R!ConstantsOK, RopeInv, R!Collect
  PROVE  /\ RopeInv' /\ held' = held
         /\ \A p \in held : R!FillBuffer(cell', p) = R!FillBuffer(cell, p)
<1> DEFINE roots == held \cup {interned[s] : s \in DOMAIN interned}
<1>1. roots \subseteq Live(cell) /\ Live(cell) \subseteq StringAddr /\ Whole(cell)
  BY DEF RopeInv, Shared, Live
<1>2. /\ cell' = [o \in StringAddr |-> IF o \in roots THEN R!Flattened(cell, o)[o] ELSE R!FREE]
      /\ held' = held /\ interned' = interned
  BY DEF R!Collect
<1>3. \A s \in DOMAIN interned : interned[s] \in roots
  OBVIOUS
<1>4. held \subseteq roots
  OBVIOUS
<1> HIDE DEF roots
<1>5. cell \in [StringAddr -> Cells] /\ \A p \in StringAddr : R!FillBuffer(cell, p) \in Seq(Char)
  BY <1>1, WholeIs, TextOf
<1>6. ASSUME NEW p \in roots
      PROVE  /\ cell'[p] \in Cells /\ cell'[p].class = cell[p].class
             /\ cell'[p].flat = R!FillBuffer(cell, p) /\ cell'[p].depth = cell[p].depth
             /\ cell'[p].blen = cell[p].blen /\ cell'[p].size = cell[p].size
             /\ cell'[p].ascii = cell[p].ascii /\ cell'[p].hashcode = cell[p].hashcode
  <2>1. p \in StringAddr /\ cell[p] \in Cells /\ R!FillBuffer(cell, p) \in Seq(Char)
    BY <1>1, <1>5
  <2>2. cell'[p] = [cell[p] EXCEPT !.flat = R!FillBuffer(cell, p)]
    BY <2>1, <1>2, <1>5 DEF R!Flattened
  <2> QED BY <2>1, <2>2 DEF Cells
<1>7. \A p \in StringAddr : p \notin roots => cell'[p] = R!FREE
  BY <1>2
<1>8. R!FREE \in Cells /\ R!FREE.class = "free" /\ R!FREE.flat \in Seq(Char)
  <2>1. << >> \in Seq(Char) /\ 0 \in 0 .. MaxDepth
    BY EmptySeq DEF R!ConstantsOK
  <2> QED BY <2>1 DEF R!FREE, Cells, Hashes
<1>9. \A p \in StringAddr : cell'[p] \in Cells /\ cell'[p].flat \in Seq(Char)
  BY <1>5, <1>6, <1>7, <1>8
<1>10. \A p \in StringAddr : p \in Live(cell') <=> p \in roots
  BY <1>1, <1>6, <1>7, <1>8 DEF Live
<1>11. Whole(cell')
  <2>1. cell' \in [StringAddr -> Cells]
    BY <1>2, <1>9
  <2>2. \A p \in StringAddr : cell'[p].flat # NULL
    BY <1>9 DEF R!ConstantsOK
  <2>3. \A p \in StringAddr : cell'[p].class = "free" => cell'[p] = R!FREE
    BY <1>1, <1>6, <1>7 DEF Live
  <2> QED BY <2>1, <2>2, <2>3 DEF Whole
<1>12. \A p \in roots : R!FillBuffer(cell', p) = R!FillBuffer(cell, p)
  <2>1. ASSUME NEW p \in roots PROVE R!FillBuffer(cell', p) = R!FillBuffer(cell, p)
    <3>1. p \in StringAddr /\ cell'[p].flat # NULL
      BY <1>1, <1>9 DEF R!ConstantsOK
    <3>2. R!FillBuffer(cell', p) = cell'[p].flat
      BY <3>1, <1>11, TextOf
    <3> QED BY <3>2, <1>6
  <2> QED BY <2>1
<1>13. Described(cell')
  <2>1. ASSUME NEW p \in Live(cell') PROVE Describes(cell'[p], R!FillBuffer(cell', p))
    <3>1. p \in roots /\ p \in Live(cell)
      BY <1>1, <1>10 DEF Live
    <3>2. Describes(cell[p], R!FillBuffer(cell, p)) /\ R!FillBuffer(cell', p) = R!FillBuffer(cell, p)
      BY <3>1, <1>12 DEF Described, RopeInv
    <3> QED BY <3>1, <3>2, <1>6 DEF Describes
  <2> QED BY <2>1 DEF Described
<1>14. Shared(cell', interned')
  <2>1. ASSUME NEW s \in DOMAIN interned
        PROVE  interned[s] \in Live(cell') /\ R!FillBuffer(cell', interned[s]) = s
    <3>1. interned[s] \in roots /\ interned[s] \in StringAddr /\ R!FillBuffer(cell, interned[s]) = s
      BY <1>1, <1>3 DEF RopeInv, Shared
    <3> QED BY <3>1, <1>10, <1>12
  <2> QED BY <2>1, <1>2 DEF Shared
<1>15. held' \subseteq Live(cell')
  BY <1>1, <1>2, <1>4, <1>10
<1>16. RopeInv'
  BY <1>11, <1>13, <1>14, <1>15 DEF RopeInv
<1> QED BY <1>2, <1>4, <1>12, <1>16

----------------------------------------------------------------------------
(* What the requests answer.                                                *)

\* The text of p, if the program has it.
LEMMA HeldText ==
  ASSUME R!ConstantsOK, RopeInv, NEW p \in held
  PROVE  /\ p \in StringAddr /\ p \in Live(cell) /\ cell[p] \in Cells
         /\ R!text[p] = R!FillBuffer(cell, p) /\ R!text[p] \in Seq(Char)
         /\ Describes(cell[p], R!text[p])
<1>1. p \in Live(cell) /\ Whole(cell) /\ Described(cell)
  BY DEF RopeInv
<1>2. p \in StringAddr
  BY <1>1 DEF Live
<1>3. R!text[p] = R!FillBuffer(cell, p)
  BY <1>2 DEF R!text
<1> QED BY <1>1, <1>2, <1>3, WholeIs, TextOf DEF Described

\* A step that keeps every text.
LEMMA TextsStay ==
  ASSUME held' \subseteq StringAddr, held' = held,
         \A p \in held : R!FillBuffer(cell', p) = R!FillBuffer(cell, p)
  PROVE  R!text' = R!text
BY DEF R!text

\* A step that gives the program the object o with the text s.
LEMMA Given ==
  ASSUME NEW o \in StringAddr, NEW s, held' = held \cup {o}, R!FillBuffer(cell', o) = s,
         \A p \in held : R!FillBuffer(cell', p) = R!FillBuffer(cell, p)
  PROVE  R!Strings!Gives(o, s)
<1>1. R!text[o] \in {NULL, s}
  BY DEF R!text
<1>2. \A p \in StringAddr : R!text'[p] = IF p = o THEN s ELSE R!text[p]
  BY DEF R!text
<1>3. R!text' = [p \in StringAddr |-> R!text'[p]] /\ R!text = [p \in StringAddr |-> R!text[p]]
  BY DEF R!text
<1>4. R!text' = [R!text EXCEPT ![o] = s]
  BY <1>2, <1>3
<1> QED BY <1>1, <1>4 DEF R!Strings!Gives

\* Requests that leave the objects as they are, flatten some, or keep a hash.
LEMMA AnswersKeep ==
  ASSUME R!ConstantsOK, RopeInv, NEW c, NEW a, R!Answers(c, a),
         Whole(c), Described(c), Live(c) = Live(cell),
         \A p \in StringAddr : R!FillBuffer(c, p) = R!FillBuffer(cell, p)
  PROVE  RopeInv' /\ R!text' = R!text /\ answer' = a
<1>1. cell' = c /\ held' = held /\ interned' = interned /\ answer' = a
  BY DEF R!Answers
<1>2. held \subseteq Live(cell) /\ Live(cell) \subseteq StringAddr /\ Shared(cell, interned)
  BY DEF RopeInv, Live
<1>3. Shared(cell', interned')
  BY <1>1, <1>2 DEF Shared
<1>4. RopeInv'
  BY <1>1, <1>2, <1>3 DEF RopeInv
<1>5. R!text' = R!text
  BY <1>1, <1>2, TextsStay
<1> QED BY <1>1, <1>4, <1>5

LEMMA AnswersCell ==
  ASSUME R!ConstantsOK, RopeInv, NEW a, R!Answers(cell, a)
  PROVE  RopeInv' /\ R!text' = R!text /\ answer' = a
BY AnswersKeep DEF RopeInv

LEMMA AnswersGrc ==
  ASSUME R!ConstantsOK, RopeInv, NEW os, os \subseteq held, NEW a, R!Answers(R!Grc(os), a)
  PROVE  RopeInv' /\ R!text' = R!text /\ answer' = a
<1>1. os \in SUBSET Live(cell) /\ Whole(cell) /\ Described(cell)
  BY DEF RopeInv
<1>2. /\ Whole(R!Grc(os)) /\ Described(R!Grc(os)) /\ Live(R!Grc(os)) = Live(cell)
      /\ \A p \in StringAddr : R!FillBuffer(R!Grc(os), p) = R!FillBuffer(cell, p)
  BY <1>1, GrcIs
<1> QED BY <1>2, AnswersKeep

\* The code that works on bytes answers for the texts.
Asked(name) == name \in {"==", "compare", "startsWith", "endsWith", "contains"}

LEMMA Asks ==
  ASSUME NEW p, NEW q, NEW v, NEW name, Asked(name), R!text' = R!text,
         answer' = <<name, p, q, v>>, v = R!Strings!Relation(name, R!text[p], R!text[q])
  PROVE  R!Strings!Ask(answer')
<1> DEFINE right == R!Strings!Relation(name, R!text[p], R!text[q])
<1>1. PICK a : a = answer'
  OBVIOUS
<1>2. a[1] = name /\ a[2] = p /\ a[3] = q /\ a[4] = right
  BY <1>1
<1> HIDE DEF right
<1>3. a[4] = R!Strings!Relation(a[1], R!text[a[2]], R!text[a[3]])
  BY <1>2, Zenon DEF right
<1>4. a[1] \in {"==", "compare", "startsWith", "endsWith", "contains"}
  BY <1>2 DEF Asked
<1> QED BY <1>1, <1>3, <1>4, Zenon DEF R!Strings!Ask

LEMMA AsksForItself ==
  ASSUME NEW p, NEW q, NEW v \in BOOLEAN, R!text' = R!text, R!text[p] = R!text[q],
         answer' = <<"contains", p, q, v>>
  PROVE  R!Strings!Ask(answer')
BY DEF R!Strings!Ask

LEMMA EqualsStep ==
  ASSUME R!ConstantsOK, RopeInv, NEW p \in StringAddr, NEW q \in StringAddr, R!Equals(p, q)
  PROVE  RopeInv' /\ R!Strings!Ask(answer')
<1> DEFINE s == R!text[p]
           t == R!text[q]
           same == cell[p].class = "Concat" /\ p = q
           differ == \/ cell[p].size # cell[q].size
                     \/ cell[p].class = "Concat" /\ cell[p].blen # cell[q].blen
<1>1. p \in held /\ q \in held
  BY DEF R!Equals
<1>2. /\ s \in Seq(Char) /\ t \in Seq(Char) /\ R!FillBuffer(cell, p) = s /\ R!FillBuffer(cell, q) = t
      /\ cell[p].size = Len(s) /\ cell[q].size = Len(t)
      /\ cell[p].blen = Len(R!Encode(s)) /\ cell[q].blen = Len(R!Encode(t))
  BY <1>1, HeldText DEF Describes
<1>3. R!Strings!Relation("==", s, t) = (s = t)
  BY DEF R!Strings!Relation
<1>4. CASE same
  <2>1. R!Answers(cell, <<"==", p, q, same>>)
    BY <1>4 DEF R!Equals
  <2>2. same = (s = t)
    BY <1>4
  <2> HIDE DEF same, s, t
  <2>3. RopeInv' /\ R!text' = R!text /\ answer' = <<"==", p, q, same>>
    BY <2>1, AnswersCell
  <2> QED BY <2>2, <2>3, <1>3, Asks DEF Asked, s, t
<1>5. CASE ~ same /\ differ
  <2>1. R!Answers(cell, <<"==", p, q, same>>)
    BY <1>5 DEF R!Equals
  <2>2. same = (s = t)
    <3>1. s # t
      BY <1>5, <1>2
    <3> QED BY <3>1, <1>5
  <2> HIDE DEF same, s, t
  <2>3. RopeInv' /\ R!text' = R!text /\ answer' = <<"==", p, q, same>>
    BY <2>1, AnswersCell
  <2> QED BY <2>2, <2>3, <1>3, Asks DEF Asked, s, t
<1>6. CASE ~ same /\ ~ differ
  <2>1. R!Answers(R!Grc({p, q}), <<"==", p, q, R!strcmp(s, t) = 0>>)
    BY <1>6, <1>2 DEF R!Equals
  <2>2. (R!strcmp(s, t) = 0) = (s = t)
    <3>1. R!strcmp(s, t) = 0 <=> s = t
      BY <1>2, CompareTexts
    <3> HIDE DEF s, t
    <3> QED BY <3>1
  <2> HIDE DEF same, s, t
  <2>3. RopeInv' /\ R!text' = R!text /\ answer' = <<"==", p, q, R!strcmp(s, t) = 0>>
    BY <2>1, <1>1, AnswersGrc
  <2> QED BY <2>2, <2>3, <1>3, Asks DEF Asked, s, t
<1> QED BY <1>4, <1>5, <1>6

LEMMA CompareStep ==
  ASSUME R!ConstantsOK, RopeInv, NEW p \in StringAddr, NEW q \in StringAddr, R!Compare(p, q)
  PROVE  RopeInv' /\ R!Strings!Ask(answer')
<1> DEFINE s == R!text[p]
           t == R!text[q]
<1>1. p \in held /\ q \in held
  BY DEF R!Compare
<1>2. s \in Seq(Char) /\ t \in Seq(Char) /\ R!FillBuffer(cell, p) = s /\ R!FillBuffer(cell, q) = t
  BY <1>1, HeldText
<1>3. R!Strings!Relation("compare", s, t) = R!strcmp(s, t)
  <2>1. R!strcmp(s, t) = IF R!Strings!Less(s, t) THEN -1 ELSE IF R!Strings!Less(t, s) THEN 1 ELSE 0
    BY <1>2, CompareTexts
  <2> HIDE DEF s, t
  <2> QED BY <2>1 DEF R!Strings!Relation
<1>4. CASE p = q
  <2>1. R!Answers(cell, <<"compare", p, q, 0>>)
    BY <1>4 DEF R!Compare
  <2>2. R!strcmp(s, t) = 0
    <3>1. s = t
      BY <1>4
    <3> QED BY <3>1, <1>2, CompareTexts
  <2> HIDE DEF s, t
  <2>3. RopeInv' /\ R!text' = R!text /\ answer' = <<"compare", p, q, 0>>
    BY <2>1, AnswersCell
  <2> QED BY <2>2, <2>3, <1>3, Asks DEF Asked, s, t
<1>5. CASE p # q
  <2>1. R!Answers(R!Grc({p, q}), <<"compare", p, q, R!strcmp(s, t)>>)
    BY <1>5, <1>2 DEF R!Compare
  <2> HIDE DEF s, t
  <2>3. RopeInv' /\ R!text' = R!text /\ answer' = <<"compare", p, q, R!strcmp(s, t)>>
    BY <2>1, <1>1, AnswersGrc
  <2> QED BY <2>3, <1>3, Asks DEF Asked, s, t
<1> QED BY <1>4, <1>5

LEMMA ContainsStep ==
  ASSUME R!ConstantsOK, RopeInv, NEW p \in StringAddr, NEW q \in StringAddr, R!Contains(p, q)
  PROVE  RopeInv' /\ R!Strings!Ask(answer')
<1> DEFINE s == R!text[p]
           t == R!text[q]
<1>1. p \in held /\ q \in held
  BY DEF R!Contains
<1>2. /\ s \in Seq(Char) /\ t \in Seq(Char) /\ R!FillBuffer(cell, p) = s /\ R!FillBuffer(cell, q) = t
      /\ cell[p].size = Len(s) /\ cell[q].size = Len(t)
  BY <1>1, HeldText DEF Describes
<1>3. R!Strings!Relation("contains", s, t) = R!strstr(s, t)
  <2>1. R!strstr(s, t) <=> \E i \in 0 .. Len(s) : R!Strings!StartsAt(s, t, i)
    BY <1>2, ContainsTexts DEF R!StartsAt, R!Strings!StartsAt
  <2> HIDE DEF s, t
  <2>2. R!Strings!Relation("contains", s, t) = \E i \in 0 .. Len(s) : R!Strings!StartsAt(s, t, i)
    BY DEF R!Strings!Relation
  <2>3. R!strstr(s, t) \in BOOLEAN
    BY DEF R!strstr
  <2> QED BY <2>1, <2>2, <2>3
<1>4. CASE Len(s) <= Len(t)
  <2>1. R!Answers(cell, <<"contains", p, q, FALSE>>)
    BY <1>4, <1>2 DEF R!Contains
  <2>2. ASSUME s # t PROVE R!Strings!Relation("contains", s, t) = FALSE
    <3>1. ASSUME NEW i \in 0 .. Len(s), R!Strings!StartsAt(s, t, i) PROVE FALSE
      <4>1. i = 0 /\ Len(t) = Len(s)
        <5>1. i + Len(t) <= Len(s) /\ Len(s) \in Nat /\ Len(t) \in Nat
          BY <3>1, <1>2, LenProperties DEF R!Strings!StartsAt
        <5> HIDE DEF s, t
        <5> QED BY <5>1, <1>4
      <4>2. \A h \in 1 .. Len(t) : s[h] = t[h]
        <5>1. R!StartsAt(s, t, 0)
          BY <3>1, <4>1 DEF R!Strings!StartsAt, R!StartsAt
        <5> HIDE DEF s, t
        <5> QED BY <5>1, <1>2, HeadMeans
      <4>3. s = t
        <5> HIDE DEF s, t
        <5> QED BY <4>1, <4>2, <1>2, SeqEqual
      <4> QED BY <4>3, <2>2
    <3>2. R!strstr(s, t) \in BOOLEAN
      BY DEF R!strstr
    <3>3. R!strstr(s, t) <=> \E i \in 0 .. Len(s) : R!Strings!StartsAt(s, t, i)
      BY <1>2, ContainsTexts DEF R!StartsAt, R!Strings!StartsAt
    <3> HIDE DEF s, t
    <3> QED BY <3>1, <3>2, <3>3, <1>3
  <2> HIDE DEF s, t
  <2>3. RopeInv' /\ R!text' = R!text /\ answer' = <<"contains", p, q, FALSE>>
    BY <2>1, AnswersCell
  <2>4. CASE s # t
    BY <2>2, <2>3, <2>4, Asks DEF Asked, s, t
  <2>5. CASE s = t
    BY <2>3, <2>5, AsksForItself DEF s, t
  <2> QED BY <2>4, <2>5
<1>5. CASE ~ (Len(s) <= Len(t))
  <2>1. R!Answers(R!Grc({p, q}), <<"contains", p, q, R!strstr(s, t)>>)
    BY <1>5, <1>2 DEF R!Contains
  <2> HIDE DEF s, t
  <2>3. RopeInv' /\ R!text' = R!text /\ answer' = <<"contains", p, q, R!strstr(s, t)>>
    BY <2>1, <1>1, AnswersGrc
  <2> QED BY <2>3, <1>3, Asks DEF Asked, s, t
<1> QED BY <1>4, <1>5

LEMMA StartsWithStep ==
  ASSUME R!ConstantsOK, RopeInv, NEW p \in StringAddr, NEW q \in StringAddr, R!StartsWith(p, q)
  PROVE  RopeInv' /\ R!Strings!Ask(answer')
<1> DEFINE s == R!text[p]
           t == R!text[q]
<1>1. p \in held /\ q \in held
  BY DEF R!StartsWith
<1>2. s \in Seq(Char) /\ t \in Seq(Char) /\ R!FillBuffer(cell, p) = s /\ R!FillBuffer(cell, q) = t
  BY <1>1, HeldText
<1>3. R!Strings!Relation("startsWith", s, t) = R!IsHead(s, t)
  <2>1. R!IsHead(s, t) <=> R!Strings!StartsAt(s, t, 0)
    BY <1>2, HeadTexts DEF R!IsHead, R!StartsAt, R!Strings!StartsAt
  <2> HIDE DEF s, t
  <2>2. R!Strings!Relation("startsWith", s, t) = R!Strings!StartsAt(s, t, 0)
    BY DEF R!Strings!Relation
  <2>3. R!IsHead(s, t) \in BOOLEAN /\ R!Strings!StartsAt(s, t, 0) \in BOOLEAN
    BY DEF R!IsHead, R!StartsAt, R!Strings!StartsAt
  <2> QED BY <2>1, <2>2, <2>3
<1>4. R!Answers(R!Grc({p, q}), <<"startsWith", p, q, R!IsHead(s, t)>>)
  BY <1>2 DEF R!StartsWith
<1> HIDE DEF s, t
<1>5. RopeInv' /\ R!text' = R!text /\ answer' = <<"startsWith", p, q, R!IsHead(s, t)>>
  BY <1>4, <1>1, AnswersGrc
<1> QED BY <1>5, <1>3, Asks DEF Asked, s, t

LEMMA EndsWithStep ==
  ASSUME R!ConstantsOK, RopeInv, NEW p \in StringAddr, NEW q \in StringAddr, R!EndsWith(p, q)
  PROVE  RopeInv' /\ R!Strings!Ask(answer')
<1> DEFINE s == R!text[p]
           t == R!text[q]
           tail == Len(t) <= Len(s) /\ R!Strings!StartsAt(s, t, Len(s) - Len(t))
<1>1. p \in held /\ q \in held
  BY DEF R!EndsWith
<1>2. s \in Seq(Char) /\ t \in Seq(Char) /\ R!FillBuffer(cell, p) = s /\ R!FillBuffer(cell, q) = t
  BY <1>1, HeldText
<1>3. R!Strings!Relation("endsWith", s, t) = R!IsTail(s, t)
  <2>1. R!IsTail(s, t) <=> tail
    BY <1>2, TailTexts DEF R!StartsAt, R!Strings!StartsAt
  <2>2. R!Strings!Relation("endsWith", s, t) = tail
    BY DEF R!Strings!Relation
  <2>3. R!IsTail(s, t) \in BOOLEAN /\ tail \in BOOLEAN
    BY DEF R!IsTail
  <2> HIDE DEF s, t, tail
  <2> QED BY <2>1, <2>2, <2>3
<1>4. R!Answers(R!Grc({p, q}), <<"endsWith", p, q, R!IsTail(s, t)>>)
  BY <1>2 DEF R!EndsWith
<1> HIDE DEF s, t
<1>5. RopeInv' /\ R!text' = R!text /\ answer' = <<"endsWith", p, q, R!IsTail(s, t)>>
  BY <1>4, <1>1, AnswersGrc
<1> QED BY <1>5, <1>3, Asks DEF Asked, s, t

LEMMA HashStep ==
  ASSUME R!ConstantsOK, RopeInv, NEW p \in StringAddr, R!Hash(p)
  PROVE  RopeInv' /\ R!Strings!Ask(answer')
<1> DEFINE s == R!text[p]
           h == R!HashOf(s)
<1>1. p \in held
  BY DEF R!Hash
<1>2. /\ p \in Live(cell) /\ s \in Seq(Char) /\ R!FillBuffer(cell, p) = s
      /\ cell[p].hashcode \in {0, h}
  BY <1>1, HeldText DEF Describes
<1>3. h = R!HashBytes(R!Strings!Encode(s))
  BY DEF R!HashOf, R!Encode, R!Strings!Encode
<1> HIDE DEF s
<1>4. RopeInv' /\ R!text' = R!text /\ answer' = <<"hash", p, h>>
  <2>1. CASE cell[p].hashcode # 0
    <3>1. R!Answers(cell, <<"hash", p, h>>)
      BY <2>1, <1>2 DEF R!Hash
    <3> HIDE DEF h
    <3> QED BY <3>1, AnswersCell
  <2>2. CASE cell[p].hashcode = 0
    <3> DEFINE g == R!Grc({p})
               d == [g EXCEPT ![p].hashcode = h]
    <3>1. R!Answers(d, <<"hash", p, h>>)
      BY <2>2, <1>2 DEF R!Hash
    <3>2. {p} \in SUBSET Live(cell) /\ Whole(cell) /\ Described(cell)
      BY <1>2 DEF RopeInv
    <3>3. /\ g \in [StringAddr -> Cells] /\ Whole(g) /\ Described(g) /\ Live(g) = Live(cell)
          /\ \A q \in StringAddr : R!FillBuffer(g, q) = R!FillBuffer(cell, q)
      BY <3>2, GrcIs
    <3> HIDE DEF g
    <3>4. h \in Hashes
      BY <1>2 DEF Hashes
    <3> HIDE DEF h
    <3>5. \A q \in StringAddr : d[q] = IF q = p THEN [g[q] EXCEPT !.hashcode = h] ELSE g[q]
      BY <3>3
    <3>6. d \in [StringAddr -> Cells]
      <4>1. [g[p] EXCEPT !.hashcode = h] \in Cells
        BY <3>3, <3>4 DEF Cells
      <4> QED BY <4>1, <3>3
    <3> HIDE DEF d
    <3>7. ASSUME NEW q \in StringAddr
          PROVE  /\ g[q].class = "free" => d[q] = g[q]
                 /\ d[q].class = g[q].class /\ d[q].depth = g[q].depth
                 /\ d[q].left = g[q].left /\ d[q].right = g[q].right
                 /\ d[q].blen = g[q].blen /\ d[q].size = g[q].size /\ d[q].ascii = g[q].ascii
                 /\ d[q].flat \in {g[q].flat, R!FillBuffer(g, q)}
                 /\ d[q].hashcode \in {g[q].hashcode, R!HashOf(R!FillBuffer(g, q))}
      <4>1. CASE q = p
        <5>1. g[p].class # "free" /\ g[p] \in Cells /\ R!FillBuffer(g, p) = s
          BY <1>2, <3>3 DEF Live
        <5>2. d[p] = [g[p] EXCEPT !.hashcode = h] /\ h = R!HashOf(s)
          BY <3>5 DEF h
        <5> QED BY <4>1, <5>1, <5>2 DEF Cells
      <4>2. CASE q # p
        BY <4>2, <3>5
      <4> QED BY <4>1, <4>2
    <3>8. /\ Whole(d) /\ Described(d) /\ Live(d) = Live(g)
          /\ \A q \in StringAddr : R!FillBuffer(d, q) = R!FillBuffer(g, q)
      BY <3>3, <3>6, <3>7, Refilled
    <3>9. Live(d) = Live(cell) /\ \A q \in StringAddr : R!FillBuffer(d, q) = R!FillBuffer(cell, q)
      BY <3>3, <3>8
    <3> QED BY <3>1, <3>8, <3>9, AnswersKeep
  <2> QED BY <2>1, <2>2
<1> QED BY <1>3, <1>4 DEF R!Strings!Ask, s

LEMMA SizeStep ==
  ASSUME R!ConstantsOK, RopeInv, NEW p \in StringAddr, R!Size(p)
  PROVE  RopeInv' /\ R!Strings!Ask(answer')
<1>1. p \in held /\ R!Answers(cell, <<"size", p, cell[p].size>>)
  BY DEF R!Size
<1>2. cell[p].size = Len(R!text[p])
  BY <1>1, HeldText DEF Describes
<1>3. RopeInv' /\ R!text' = R!text /\ answer' = <<"size", p, cell[p].size>>
  BY <1>1, AnswersCell
<1> QED BY <1>2, <1>3 DEF R!Strings!Ask

LEMMA DoStep ==
  ASSUME R!ConstantsOK, RopeInv, NEW p \in StringAddr, R!Do(p)
  PROVE  RopeInv' /\ R!Strings!Ask(answer')
<1>1. p \in held /\ R!Answers(R!Grc({p}), <<"do", p, R!FillBuffer(cell, p)>>)
  BY DEF R!Do
<1>2. R!FillBuffer(cell, p) = R!text[p]
  BY <1>1, HeldText
<1>3. RopeInv' /\ R!text' = R!text /\ answer' = <<"do", p, R!FillBuffer(cell, p)>>
  <2>1. {p} \subseteq held
    BY <1>1
  <2> QED BY <1>1, <2>1, AnswersGrc
<1> QED BY <1>2, <1>3 DEF R!Strings!Ask

\* Requests that make a string, once the objects are c.
LEMMA MakeString ==
  ASSUME R!ConstantsOK, RopeInv, NEW c, Whole(c), Described(c), Live(c) = Live(cell),
         \A p \in StringAddr : R!FillBuffer(c, p) = R!FillBuffer(cell, p),
         NEW s \in Seq(Char), NEW o \in StringAddr, R!alloc_String(c, s, o)
  PROVE  RopeInv' /\ R!Strings!Gives(o, s)
<1>1. held \subseteq Live(cell) /\ Live(cell) \subseteq StringAddr /\ Shared(cell, interned)
  BY DEF RopeInv, Live
<1>2. held \subseteq Live(c) /\ Shared(c, interned)
  BY <1>1 DEF Shared
<1>3. /\ RopeInv'
      /\ \A p \in Live(c) : p \in Live(cell') /\ R!FillBuffer(cell', p) = R!FillBuffer(c, p)
      /\ held' = held \cup {o} /\ R!FillBuffer(cell', o) = s
  BY <1>2, AllocString
<1>4. \A p \in held : R!FillBuffer(cell', p) = R!FillBuffer(cell, p)
  BY <1>1, <1>3
<1> QED BY <1>3, <1>4, Given

LEMMA MakeFrom ==
  ASSUME R!ConstantsOK, RopeInv, NEW p \in held, NEW s \in Seq(Char), NEW o \in StringAddr,
         R!alloc_String(R!Grc({p}), s, o)
  PROVE  RopeInv' /\ R!Strings!Gives(o, s)
<1>1. {p} \in SUBSET Live(cell) /\ Whole(cell) /\ Described(cell)
  BY DEF RopeInv
<1>2. /\ Whole(R!Grc({p})) /\ Described(R!Grc({p})) /\ Live(R!Grc({p})) = Live(cell)
      /\ \A q \in StringAddr : R!FillBuffer(R!Grc({p}), q) = R!FillBuffer(cell, q)
  BY <1>1, GrcIs
<1> QED BY <1>2, MakeString

LEMMA LiteralStep ==
  ASSUME R!ConstantsOK, RopeInv, NEW s \in R!Short, NEW o \in StringAddr, R!Literal(s, o)
  PROVE  RopeInv' /\ R!Strings!Make(answer')
<1>1. s \in Seq(Char)
  <2>1. PICK n \in 0 .. MaxLiteral : s \in [1 .. n -> Char]
    BY DEF R!Short
  <2>2. n \in Nat
    BY <2>1 DEF R!ConstantsOK
  <2> QED BY <2>1, <2>2
<1>2. R!alloc_String(cell, s, o) /\ answer' = <<"literal", s, o>>
  BY DEF R!Literal
<1>3. RopeInv' /\ R!Strings!Gives(o, s)
  BY <1>1, <1>2, MakeString DEF RopeInv
<1> QED BY <1>2, <1>3 DEF R!Strings!Make

LEMMA AtStep ==
  ASSUME R!ConstantsOK, RopeInv, NEW p \in StringAddr, NEW i \in Nat, NEW o \in StringAddr, R!At(p, i, o)
  PROVE  RopeInv' /\ R!Strings!Make(answer')
<1> DEFINE s == R!text[p]
           c == IF cell[p].ascii THEN << <<R!Encode(s)[i]>> >> ELSE <<s[i]>>
<1>1. p \in held /\ i \in 1 .. cell[p].size /\ answer' = <<"at", p, i, o>>
  BY DEF R!At
<1>2. /\ s \in Seq(Char) /\ R!FillBuffer(cell, p) = s /\ Describes(cell[p], s)
      /\ cell[p] \in Cells
  BY <1>1, HeldText
<1>3. i \in 1 .. Len(s)
  BY <1>1, <1>2 DEF Describes
<1>4. c = <<s[i]>>
  <2>1. ASSUME cell[p].ascii PROVE <<R!Encode(s)[i]>> = s[i]
    <3>1. cell[p].blen = cell[p].size /\ cell[p].blen = Len(R!Encode(s)) /\ cell[p].size = Len(s)
      BY <1>2, <2>1 DEF Describes
    <3>2. Len(R!Encode(s)) = Len(s)
      BY <3>1
    <3> QED BY <3>2, <1>2, <1>3, AsciiAt
  <2> QED BY <2>1
<1>5. R!alloc_String(R!Grc({p}), c, o)
  BY <1>2 DEF R!At
<1>6. <<s[i]>> \in Seq(Char)
  <2>1. s[i] \in Char
    BY <1>2, <1>3, ElementOfSeq
  <2> QED BY <2>1
<1> HIDE DEF c
<1>7. RopeInv' /\ R!Strings!Gives(o, <<s[i]>>)
  BY <1>1, <1>4, <1>5, <1>6, MakeFrom
<1> QED BY <1>1, <1>7 DEF R!Strings!Make

LEMMA SubstringStep ==
  ASSUME R!ConstantsOK, RopeInv, NEW p \in StringAddr, NEW from \in Nat, NEW to \in Nat, NEW o \in StringAddr,
         R!Substring(p, from, to, o)
  PROVE  RopeInv' /\ R!Strings!Make(answer')
<1> DEFINE s  == R!text[p]
           n  == Len(s)
           st == R!Larger(from, 1) - 1
           en == R!Smaller(to - 1, n)
           first == IF from < 1 THEN 1 ELSE from
           last  == IF to > n THEN n ELSE to
           taken == SubSeq(s, first, last)
<1>1. p \in held /\ answer' = <<"substring", p, from, to, o>>
  BY DEF R!Substring
<1>2. s \in Seq(Char) /\ R!FillBuffer(cell, p) = s /\ cell[p].size = n /\ n \in Nat
  BY <1>1, HeldText DEF Describes
<1>3. R!alloc_String(R!Grc({p}), IF en < st THEN << >>
                             ELSE SubSeq(s, st + 1, R!Smaller(en + 1, n)), o)
  BY <1>2 DEF R!Substring
<1> HIDE DEF s
<1>4. first = st + 1 /\ first \in Nat \ {0} /\ last \in Nat /\ last <= n
  BY <1>2 DEF R!Larger
<1>5. (en < st => last < first) /\ (~ (en < st) => R!Smaller(en + 1, n) = last)
  BY <1>2 DEF R!Larger, R!Smaller
<1>6. taken \in Seq(Char) /\ Len(taken) = IF first <= last THEN last - first + 1 ELSE 0
  <2>1. \A k \in first .. last : s[k] \in Char
    BY <1>2, <1>4, ElementOfSeq
  <2>2. first \in Int /\ last \in Int
    BY <1>4
  <2> HIDE DEF first, last, n
  <2> QED BY <2>1, <2>2, <1>2, SubSeqProperties
<1>7. (IF en < st THEN << >> ELSE SubSeq(s, st + 1, R!Smaller(en + 1, n))) = taken
  <2>1. CASE en < st
    <3>1. last < first
      BY <2>1, <1>5
    <3>2. taken = << >>
      <4>1. Len(taken) = 0
        BY <3>1, <1>4, <1>6
      <4> HIDE DEF taken
      <4> QED BY <4>1, <1>6, EmptySeq
    <3> QED BY <2>1, <3>2
  <2>2. CASE ~ (en < st)
    BY <2>2, <1>4, <1>5
  <2> QED BY <2>1, <2>2
<1> HIDE DEF taken, first, last
<1>8. RopeInv' /\ R!Strings!Gives(o, taken)
  BY <1>1, <1>3, <1>6, <1>7, MakeFrom
<1>9. PICK a : a = answer' /\ a[1] = "substring" /\ a[2] = p /\ a[3] = from /\ a[4] = to /\ a[5] = o
  BY <1>1
<1>10. ASSUME from \in 1 .. n + 1
       PROVE  R!Strings!Gives(a[5], SubSeq(s, a[3], IF a[4] > Len(s) THEN Len(s) ELSE a[4]))
  <2>1. first = from
    BY <1>10, <1>2 DEF first
  <2>2. taken = SubSeq(s, a[3], IF a[4] > Len(s) THEN Len(s) ELSE a[4])
    BY <2>1, <1>9 DEF taken, last
  <2> QED BY <1>8, <1>9, <2>2
<1>11. R!Strings!Gives(a[5], R!text'[a[5]])
  <2>1. R!text'[o] = taken
    BY <1>8 DEF R!Strings!Gives, R!text
  <2> QED BY <2>1, <1>8, <1>9
<1>12. R!Strings!Make(a)
  BY <1>9, <1>10, <1>11 DEF R!Strings!Make, s
<1> QED BY <1>8, <1>9, <1>12

LEMMA ConcatStep ==
  ASSUME R!ConstantsOK, RopeInv, NEW l \in StringAddr, NEW r \in StringAddr, NEW o \in StringAddr, R!Concat(l, r, o)
  PROVE  RopeInv' /\ R!Strings!Make(answer')
<1> DEFINE s == R!text[l]
           t == R!text[r]
<1>1. l \in held /\ r \in held /\ answer' = <<"++", l, r, o>>
  BY DEF R!Concat
<1>2. /\ s \in Seq(Char) /\ R!FillBuffer(cell, l) = s /\ cell[l].size = Len(s) /\ l \in Live(cell)
      /\ t \in Seq(Char) /\ R!FillBuffer(cell, r) = t /\ cell[r].size = Len(t) /\ r \in Live(cell)
  BY <1>1, HeldText DEF Describes
<1> HIDE DEF s, t
<1>3. s \o t \in Seq(Char)
  BY <1>2, ConcatProperties
<1>4. RopeInv' /\ R!Strings!Gives(o, s \o t)
  <2>1. ASSUME UNCHANGED <<cell, held, interned>>, o \in held, R!FillBuffer(cell, o) = s \o t
        PROVE  RopeInv' /\ R!Strings!Gives(o, s \o t)
    <3>1. RopeInv'
      BY <2>1 DEF RopeInv, Whole, Described, Shared, Live
    <3>2. /\ held' = held \cup {o} /\ R!FillBuffer(cell', o) = s \o t
          /\ \A p \in held : R!FillBuffer(cell', p) = R!FillBuffer(cell, p)
      BY <2>1
    <3>3. R!Strings!Gives(o, s \o t)
      BY <3>2, Given
    <3> QED BY <3>1, <3>3
  <2>2. CASE cell[l].size = 0
    <3>1. o = r /\ UNCHANGED <<cell, held, interned>>
      BY <2>2 DEF R!Concat
    <3>2. s \o t = t
      <4>1. s = << >>
        BY <2>2, <1>2, EmptySeq
      <4> QED BY <4>1, <1>2, ConcatEmptySeq
    <3> QED BY <3>1, <3>2, <2>1, <1>1, <1>2
  <2>3. CASE cell[l].size # 0 /\ cell[r].size = 0
    <3>1. o = l /\ UNCHANGED <<cell, held, interned>>
      BY <2>3 DEF R!Concat
    <3>2. s \o t = s
      <4>1. t = << >>
        BY <2>3, <1>2, EmptySeq
      <4> QED BY <4>1, <1>2, ConcatEmptySeq
    <3> QED BY <3>1, <3>2, <2>1, <1>1, <1>2
  <2>4. CASE cell[l].size # 0 /\ cell[r].size # 0
    <3>1. IF R!ConcatCell(l, r).depth > MaxDepth
          THEN R!alloc_String(cell, s \o t, o)
          ELSE /\ o \in R!Unused
               /\ cell' = [cell EXCEPT ![o] = R!ConcatCell(l, r)]
               /\ held' = held \cup {o}
               /\ interned' = interned
      BY <2>4, <1>2 DEF R!Concat
    <3>2. CASE R!ConcatCell(l, r).depth > MaxDepth
      BY <3>1, <3>2, <1>3, MakeString DEF RopeInv
    <3>3. CASE ~ (R!ConcatCell(l, r).depth > MaxDepth)
      <4>1. Whole(cell) /\ Described(cell) /\ held \subseteq Live(cell) /\ Shared(cell, interned)
        BY DEF RopeInv
      <4>2. R!ConcatCell(l, r).depth <= MaxDepth
        <5>1. R!ConcatCell(l, r).depth \in Int /\ MaxDepth \in Int
          <6>1. cell[l].depth \in 0 .. MaxDepth /\ cell[r].depth \in 0 .. MaxDepth
            BY <4>1, WholeIs DEF Cells
          <6>2. MaxDepth \in Int
            BY DEF R!ConstantsOK
          <6>3. R!Larger(cell[l].depth, cell[r].depth) \in Int
            BY <6>1, <6>2 DEF R!Larger
          <6>4. R!ConcatCell(l, r).depth = 1 + R!Larger(cell[l].depth, cell[r].depth)
            BY DEF R!ConcatCell
          <6> QED BY <6>2, <6>3, <6>4
        <5> QED BY <5>1, <3>3
      <4>3. /\ R!ConcatCell(l, r) \in Cells /\ R!ConcatCell(l, r).class # "free"
            /\ R!ConcatCell(l, r).flat = NULL
            /\ R!ConcatCell(l, r).left = l /\ R!ConcatCell(l, r).right = r
            /\ cell[l].depth < R!ConcatCell(l, r).depth /\ cell[r].depth < R!ConcatCell(l, r).depth
            /\ Describes(R!ConcatCell(l, r), s \o t)
        BY <4>1, <4>2, <1>2, ConcatCellIs
      <4>4. /\ cell[o] = R!FREE /\ held' = held \cup {o} /\ interned' = interned
            /\ cell' = [cell EXCEPT ![o] = R!ConcatCell(l, r)]
        BY <3>1, <3>3 DEF R!Unused
      <4>5. o \notin Live(cell)
        BY <4>4 DEF Live, R!FREE
      <4>6. Makes(cell, o, R!ConcatCell(l, r), s \o t, cell')
        BY <4>3, <4>4, <4>5, <1>2 DEF Makes
      <4>7. /\ Whole(cell') /\ Described(cell') /\ Live(cell') = Live(cell) \cup {o}
            /\ R!FillBuffer(cell', o) = s \o t
            /\ \A p \in Live(cell) : R!FillBuffer(cell', p) = R!FillBuffer(cell, p)
        <5> DEFINE u == s \o t
                   k == R!ConcatCell(l, r)
        <5>1. Makes(cell, o, k, u, cell')
          BY <4>6
        <5> HIDE DEF u, k
        <5>2. /\ Whole(cell') /\ Described(cell') /\ Live(cell') = Live(cell) \cup {o}
              /\ R!FillBuffer(cell', o) = u
              /\ \A p \in Live(cell) : R!FillBuffer(cell', p) = R!FillBuffer(cell, p)
          BY <4>1, <5>1, Allocated
        <5> QED BY <5>2 DEF u
      <4>8. Shared(cell', interned')
        BY <4>1, <4>4, <4>7 DEF Shared
      <4>9. RopeInv'
        BY <4>1, <4>4, <4>7, <4>8 DEF RopeInv
      <4>10. \A p \in held : R!FillBuffer(cell', p) = R!FillBuffer(cell, p)
        BY <4>1, <4>7
      <4> QED BY <4>4, <4>7, <4>9, <4>10, Given
    <3> QED BY <3>2, <3>3
  <2> QED BY <2>2, <2>3, <2>4
<1> QED BY <1>1, <1>4 DEF R!Strings!Make, s, t

LEMMA DropStep ==
  ASSUME R!ConstantsOK, RopeInv, NEW o \in StringAddr, R!Drop(o)
  PROVE  RopeInv' /\ R!Strings!Drop(o)
<1>1. o \in held /\ held' = held \ {o} /\ UNCHANGED <<cell, interned, answer>>
  BY DEF R!Drop
<1>2. RopeInv'
  <2>1. held' \subseteq held
    BY <1>1
  <2> QED BY <1>1, <2>1 DEF RopeInv, Whole, Described, Shared, Live
<1>3. \A p \in StringAddr : R!text'[p] = IF p = o THEN NULL ELSE R!text[p]
  BY <1>1 DEF R!text
<1>4. R!text' = [p \in StringAddr |-> R!text'[p]] /\ R!text = [p \in StringAddr |-> R!text[p]]
  BY DEF R!text
<1>5. R!text' = [R!text EXCEPT ![o] = NULL]
  BY <1>3, <1>4
<1> QED BY <1>1, <1>2, <1>5 DEF R!Strings!Drop

LEMMA CollectKeeps ==
  ASSUME R!ConstantsOK, RopeInv, R!Collect
  PROVE  RopeInv' /\ UNCHANGED <<R!text, answer>>
<1>1. /\ RopeInv' /\ held' = held /\ answer' = answer
      /\ \A p \in held : R!FillBuffer(cell', p) = R!FillBuffer(cell, p)
  BY CollectStep DEF R!Collect
<1>2. held' \subseteq StringAddr
  BY <1>1 DEF RopeInv, Live
<1> QED BY <1>1, <1>2, TextsStay

LEMMA RopeInit ==
  ASSUME R!ConstantsOK, R!Init
  PROVE  RopeInv /\ R!Strings!Init
<1>1. R!FREE \in Cells /\ R!FREE.class = "free" /\ R!FREE.flat # NULL
  <2>1. << >> \in Seq(Char) /\ 0 \in 0 .. MaxDepth
    BY EmptySeq DEF R!ConstantsOK
  <2>2. << >> # NULL
    BY <2>1 DEF R!ConstantsOK
  <2> QED BY <2>1, <2>2 DEF R!FREE, Cells, Hashes
<1>2. /\ cell = [o \in StringAddr |-> R!FREE] /\ held = {} /\ interned = << >> /\ answer = <<"none">>
  BY DEF R!Init
<1>3. Whole(cell) /\ Live(cell) = {}
  BY <1>1, <1>2 DEF Whole, Live
<1>4. Described(cell) /\ Shared(cell, interned)
  <2>1. DOMAIN interned = {}
    BY <1>2
  <2> QED BY <2>1, <1>3 DEF Described, Shared
<1>5. R!text = [o \in StringAddr |-> NULL]
  BY <1>2 DEF R!text
<1> QED BY <1>2, <1>3, <1>4, <1>5 DEF RopeInv, R!Strings!Init

LEMMA RopeStep ==
  ASSUME R!ConstantsOK, RopeInv, R!Next
  PROVE  RopeInv' /\ (R!Strings!Next \/ UNCHANGED <<R!text, answer>>)
<1>1. ASSUME NEW s \in R!Short, NEW o \in StringAddr, R!Literal(s, o)
      PROVE  RopeInv' /\ R!Strings!Next
  BY <1>1, LiteralStep DEF R!Strings!Next
<1>2. ASSUME NEW l \in StringAddr, NEW r \in StringAddr, NEW o \in StringAddr, R!Concat(l, r, o)
      PROVE  RopeInv' /\ R!Strings!Next
  BY <1>2, ConcatStep DEF R!Strings!Next
<1>3. ASSUME NEW p \in StringAddr, NEW q \in StringAddr,
             \/ R!Equals(p, q) \/ R!Compare(p, q) \/ R!Contains(p, q)
             \/ R!StartsWith(p, q) \/ R!EndsWith(p, q)
      PROVE  RopeInv' /\ R!Strings!Next
  <2>1. RopeInv' /\ R!Strings!Ask(answer')
    BY <1>3, EqualsStep, CompareStep, ContainsStep, StartsWithStep, EndsWithStep
  <2> QED BY <2>1 DEF R!Strings!Next
<1>4. ASSUME NEW p \in StringAddr, R!Hash(p) \/ R!Size(p) \/ R!Do(p) PROVE RopeInv' /\ R!Strings!Next
  <2>1. RopeInv' /\ R!Strings!Ask(answer')
    BY <1>4, HashStep, SizeStep, DoStep
  <2> QED BY <2>1 DEF R!Strings!Next
<1>5. ASSUME NEW p \in StringAddr, R!Drop(p) PROVE RopeInv' /\ R!Strings!Next
  BY <1>5, DropStep DEF R!Strings!Next
<1>6. ASSUME NEW p \in StringAddr, NEW o \in StringAddr, NEW i \in 1 .. MaxLen, R!At(p, i, o)
      PROVE  RopeInv' /\ R!Strings!Next
  <2>1. i \in Nat
    BY DEF R!ConstantsOK
  <2> QED BY <2>1, <1>6, AtStep DEF R!Strings!Next
<1>7. ASSUME NEW p \in StringAddr, NEW o \in StringAddr, NEW from \in 0 .. MaxLen + 1,
             NEW to \in 0 .. MaxLen + 1, R!Substring(p, from, to, o)
      PROVE  RopeInv' /\ R!Strings!Next
  <2>1. from \in Nat /\ to \in Nat
    BY DEF R!ConstantsOK
  <2> QED BY <2>1, <1>7, SubstringStep DEF R!Strings!Next
<1>8. CASE R!Collect
  BY <1>8, CollectKeeps
<1> QED BY <1>1, <1>2, <1>3, <1>4, <1>5, <1>6, <1>7, <1>8 DEF R!Next

\* A reachable string reads only strings that are not freed, and its depth
\* bounds the recursion.
LEMMA RopeInvGives ==
  ASSUME R!ConstantsOK, RopeInv
  PROVE  R!PartsAreLive /\ R!FieldsAgree /\ R!DepthBounded
<1>1. Whole(cell) /\ Described(cell) /\ held \subseteq Live(cell) /\ Deep(cell)
  BY WholeIs DEF RopeInv
<1> DEFINE Good == {p \in StringAddr : /\ p \in Live(cell) => R!Read(p) \subseteq Live(cell)
                              /\ R!Height(p) <= cell[p].depth}
<1>2. ASSUME NEW p \in StringAddr, cell[p].flat = NULL => cell[p].left \in Good /\ cell[p].right \in Good
      PROVE  p \in Good
  <2>1. CASE cell[p].flat # NULL
    <3>1. R!Read(p) = {p} /\ R!Height(p) = 0 /\ cell[p].depth \in 0 .. MaxDepth
      BY <2>1, <1>1, ReadIs, HeightIs DEF Deep
    <3> QED BY <3>1
  <2>2. CASE cell[p].flat = NULL
    <3>1. /\ R!Read(p) = {p} \cup R!Read(cell[p].left) \cup R!Read(cell[p].right)
          /\ R!Height(p) = 1 + R!Larger(R!Height(cell[p].left), R!Height(cell[p].right))
      BY <2>2, <1>1, ReadIs, HeightIs
    <3>2. /\ cell[p].left \in Live(cell) /\ cell[cell[p].left].depth < cell[p].depth
          /\ cell[p].right \in Live(cell) /\ cell[cell[p].right].depth < cell[p].depth
      BY <2>2, <1>1 DEF Whole
    <3>3. cell[p].left \in StringAddr /\ cell[p].right \in StringAddr
      BY <3>2 DEF Live
    <3>4. /\ R!Read(cell[p].left) \subseteq Live(cell) /\ R!Read(cell[p].right) \subseteq Live(cell)
          /\ R!Height(cell[p].left) <= cell[cell[p].left].depth
          /\ R!Height(cell[p].right) <= cell[cell[p].right].depth
      BY <2>2, <1>2, <3>2
    <3>5. PICK a, b, m, n, d \in Nat :
            /\ a = R!Height(cell[p].left) /\ m = cell[cell[p].left].depth
            /\ b = R!Height(cell[p].right) /\ n = cell[cell[p].right].depth
            /\ d = cell[p].depth
      <4>1. /\ cell[p].depth \in Nat /\ cell[cell[p].left].depth \in Nat
            /\ cell[cell[p].right].depth \in Nat
        BY <3>3, <1>1 DEF Deep
      <4>2. R!Height(cell[p].left) \in Nat /\ R!Height(cell[p].right) \in Nat
        BY <3>3, <1>1, HeightIs
      <4> QED BY <4>1, <4>2
    <3>6. R!Height(p) <= cell[p].depth
      <4>1. a <= m /\ b <= n /\ m < d /\ n < d
        BY <3>2, <3>4, <3>5
      <4>2. 1 + R!Larger(a, b) <= d
        BY <4>1 DEF R!Larger
      <4> QED BY <4>2, <3>1, <3>5
    <3> QED BY <3>1, <3>4, <3>6
  <2> QED BY <2>1, <2>2
<1> HIDE DEF Good
<1>3. StringAddr \subseteq Good
  BY <1>1, <1>2, RopeInduction
<1>4. R!PartsAreLive
  BY <1>1, <1>3 DEF Good, R!PartsAreLive, Live
<1>5. R!DepthBounded
  BY <1>1, <1>3 DEF Good, R!DepthBounded, Deep, Live
<1>6. R!FieldsAgree
  BY <1>1 DEF Described, Describes, R!FieldsAgree
<1> QED BY <1>4, <1>5, <1>6

LEMMA RopeRuns == LibSpec => (OfStrings /\ []OfStrings /\ R!Spec) \/ []~OfStrings
<1>1. LibInit => (OfStrings /\ R!Init) \/ ~OfStrings
  BY DEF LibInit, OfStrings
<1>2. OfStrings /\ [LibNext]_libVars => OfStrings' /\ [R!Next]_R!vars
  BY DEF LibNext, MapNext, DictNext, SetNext, BuiltListNext, GraceListNext,
         ObjectNext, RopeNext, JsNext, libVars, ropeVars, R!vars, OfStrings
<1>3. ~OfStrings /\ [LibNext]_libVars => ~OfStrings'
  BY DEF LibNext, MapNext, DictNext, SetNext, BuiltListNext, GraceListNext,
         ObjectNext, RopeNext, JsNext, libVars, OfStrings
<1> QED BY <1>1, <1>2, <1>3, PTL DEF LibSpec, R!Spec

LEMMA RopeInductive ==
  ASSUME R!ConstantsOK, RopeInv, [R!Next]_R!vars
  PROVE  RopeInv' /\ [R!Strings!Next]_<<R!text, answer>>
<1>1. CASE R!Next
  BY <1>1, RopeStep
<1>2. CASE UNCHANGED R!vars
  <2>1. cell' = cell /\ held' = held /\ interned' = interned /\ answer' = answer
    BY <1>2 DEF R!vars
  <2>2. RopeInv'
    BY <2>1 DEF RopeInv, Whole, Described, Shared, Live
  <2>3. R!text' = R!text
    BY <2>1 DEF R!text
  <2> QED BY <2>1, <2>2, <2>3
<1> QED BY <1>1, <1>2

LEMMA RopesStay == R!Spec => []RopeInv
<1>1. R!Init => RopeInv
  BY RopeInit, LibrariesAssumption DEF LibrariesAssumption
<1>2. RopeInv /\ [R!Next]_R!vars => RopeInv'
  BY RopeInductive, LibrariesAssumption DEF LibrariesAssumption
<1> QED BY <1>1, <1>2, PTL DEF R!Spec

(* A rope the program still has is flat before any of its parts is freed.   *)
THEOREM RopePartsStay == LibSpec => []PartsAreLive
<1>1. RopeInv => R!PartsAreLive
  BY RopeInvGives, LibrariesAssumption DEF LibrariesAssumption
<1>2. (OfStrings => R!PartsAreLive) => PartsAreLive
  BY DEF PartsAreLive, OfStrings
<1> QED BY <1>1, <1>2, RopesStay, RopeRuns, PTL

(* The fields of a string describe the bytes it turns out to have, and      *)
(* flattening it recurses at most MaxDepth deep.                            *)
THEOREM StringFieldsAgree == LibSpec => []FieldsAgree
<1>1. RopeInv => R!FieldsAgree /\ R!DepthBounded
  BY RopeInvGives, LibrariesAssumption DEF LibrariesAssumption
<1>2. (OfStrings => R!FieldsAgree /\ R!DepthBounded) => FieldsAgree
  BY DEF FieldsAgree, OfStrings
<1> QED BY <1>1, <1>2, RopesStay, RopeRuns, PTL

(* Strings are immutable sequences of characters, however they are stored:  *)
(* requests answer what StringSpec says.                                    *)
THEOREM StringsAreStrings == LibSpec => IsString
<1>1. R!Spec => R!Strings!Init /\ [][R!Strings!Next]_<<R!text, answer>>
  <2>1. R!Init => R!Strings!Init
    BY RopeInit, LibrariesAssumption DEF LibrariesAssumption
  <2>2. RopeInv /\ [R!Next]_R!vars => [R!Strings!Next]_<<R!text, answer>>
    BY RopeInductive, LibrariesAssumption DEF LibrariesAssumption
  <2> QED BY <2>1, <2>2, RopesStay, PTL DEF R!Spec
<1>2. LibInit /\ OfStrings /\ R!Strings!Init => (kind = "rope" => R!Strings!Init)
  OBVIOUS
<1>3. ~OfStrings => (kind = "rope" => R!Strings!Init)
  BY DEF OfStrings
<1>4. [R!Strings!Next]_<<R!text, answer>>
        => [kind = "rope" => [R!Strings!Next]_<<R!text, answer>>]_libVars
  OBVIOUS
<1>5. ~OfStrings => [kind = "rope" => [R!Strings!Next]_<<R!text, answer>>]_libVars
  BY DEF OfStrings
<1> QED BY <1>1, <1>2, <1>3, <1>4, <1>5, RopeRuns, PTL DEF LibSpec, IsString
=============================================================================
