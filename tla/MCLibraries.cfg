CONSTANTS
  UNUSED = UNUSED
  REMOVED = REMOVED
  ABSENT = ABSENT
  NULL = NULL
  ERROR = ERROR
  SELF = SELF
  BLOCK = BLOCK
  v1 = v1
  v2 = v2
  ka = ka
  kb = kb
  kc = kc
  k0 = k0
  k1 = k1
  k4 = k4
  k5 = k5
  k7 = k7
  e0 = e0
  e1 = e1
  e4 = e4
  la = la
  lb = lb
  s1 = s1
  s2 = s2
  s3 = s3
  p1 = p1
  p2 = p2
  p3 = p3
  p4 = p4
  p5 = p5
  c1 = c1
  c2 = c2
  c3 = c3
  ma = ma
  mb = mb
  jmod = jmod
  jobj = jobj
  jsup = jsup
  Value = {v1, v2}
  Key = {k0, k1, k4, k5, k7}
  KeyHash <- MapHash
  MapCapacity = 4
  DictKey = {ka, kb, kc}
  DictCapacity = 4
  Programs <- Regular
  Element = {e0, e1, e4}
  ElementHash <- SetHash
  SetCapacity = 4
  StringAddr = {s1, s2, s3}
  Char <- Chars
  MaxDepth = 2
  HashBits = 8
  hash_init = 5
  MaxLiteral = 1
  MaxLen = 4
  Object = {jmod, jobj}
  JsPart = {jmod, jobj, jsup}
  Super <- JsSuper
  Name = {ma, mb}
  DEFAULT = DEFAULT
  Addr = {p1, p2, p3, p4, p5}
  Class = {c1, c2, c3}
  Parent <- Parents
  Defines <- Methods
  MaxNesting = 2
  JsDefines <- JsMethods
  Confidential = {mb}
  Missing = {"self", "super", "other"}
  Module = jmod
  MaxCalls = 2
  MaxFrames = 4
  MaxBlocks = 1
  List = {la, lb}
  InitialSpace = 1
  MaxSizes <- MaxSizeOf
  LIST = la
  MaxSize = 3
  MaxLoops = 1

SPECIFICATION LibSpec
VIEW StateView
SYMMETRY Symmetry

INVARIANTS
  TypeOK
  SearchesEnd
  SizeIsExact
  Findable
  SelfAndSuper
  RepresentationOK
  PartsAreLive
  FieldsAgree
  OuterInInitialisers
PROPERTIES
  FailFast
  IteratesAll
  IsMap
  IsSet
  ReturnGoesHomeInJs
  LoopsAreComplete
  DictionaryIsMap
  IsList
  IsString
  IsObject
