------------------------------- MODULE Ropes -------------------------------
(***************************************************************************)
(* The two representations of strings in gracelib.c: String, whose bytes   *)
(* follow its header, and ConcatString, which points to the two strings it *)
(* was made of until something needs its bytes or the collector marks it.  *)
(* The program's strings, which the collector finds, are the set held.     *)
(***************************************************************************)
EXTENDS Integers, Sequences

CONSTANTS
  Addr,       \* addresses a string object can be allocated at
  Char,       \* characters, as the sequences of bytes that encode them in UTF-8
  NULL,
  MaxDepth,   \* the depth beyond which ++ makes a String (100 in the code)
  HashBits,   \* the width of a hash (32 in the code)
  hash_init,  \* the hash of the empty string, drawn when the program starts
  MaxLiteral, \* bound on the length of a literal
  MaxLen      \* bound on the length of a string, in bytes

Byte == 1 .. 255
Continuation == 128 .. 191

(* getutf8charlen of a character that starts with byte b; where the code   *)
(* dies, at a continuation byte, there is no length either.                 *)
charlen(b) ==
  CASE b < 128       -> 1
    [] b \in 192 .. 223 -> 2
    [] b \in 224 .. 239 -> 3
    [] b \in 240 .. 247 -> 4
    [] OTHER         -> -1

\* Sources are UTF-8, and so are the strings that programs make of them.
Utf8(c) ==
  /\ c \in Seq(Byte) /\ c # << >>
  /\ Len(c) = charlen(c[1])
  /\ \A i \in 2 .. Len(c) : c[i] \in Continuation

ConstantsOK ==
  /\ NULL \notin Addr /\ NULL \notin Seq(Char)
  /\ \A c \in Char : Utf8(c)
  /\ MaxDepth \in Nat \ {0} /\ {HashBits, MaxLiteral, MaxLen} \subseteq Nat
  /\ hash_init \in 0 .. 2 ^ HashBits - 1

VARIABLES
  cell,      \* per address the object there, or FREE
  held,      \* the strings the program can reach
  interned,  \* String_Interned_1: the strings of one byte, roots for ever
  answer     \* see StringSpec

vars == <<cell, held, interned, answer>>

\* Freed memory is cleared.
FREE == [class |-> "free", flat |-> << >>, left |-> NULL, right |-> NULL, depth |-> 0,
         blen |-> 0, size |-> 0, ascii |-> FALSE, hashcode |-> 0]

Unused == {o \in Addr : cell[o] = FREE}
Larger(m, n)  == IF m > n THEN m ELSE n
Smaller(m, n) == IF m < n THEN m ELSE n

----------------------------------------------------------------------------
(* Bytes.  A text is a sequence of characters here, as getutf8charlen finds *)
(* them; Encode gives the bytes for the code that works on those.           *)

Encode(s) == LET bytes[n \in 0 .. Len(s)] == IF n = 0 THEN << >> ELSE bytes[n - 1] \o s[n]
             IN  bytes[Len(s)]

\* A char is signed, and the shift and the sums wrap around.
HashBytes(b) ==
  LET signed(c) == IF c < 128 THEN c ELSE c - 256
      hash[n \in 0 .. Len(b)] ==
        IF n = 0 THEN hash_init ELSE (hash[n - 1] * 33 + signed(b[n])) % 2 ^ HashBits
  IN  hash[Len(b)]

HashOf(s) == HashBytes(Encode(s))

\* strcmp, strstr and strncmp look at bytes.
Compared(b, c) ==
  LET differ == {i \in 1 .. Len(b) : i > Len(c) \/ b[i] # c[i]}
  IN  IF differ = {} THEN IF Len(b) < Len(c) THEN -1 ELSE 0
      ELSE LET i == CHOOSE i \in differ : \A h \in differ : i <= h
           IN  IF i > Len(c) THEN 1 ELSE IF b[i] < c[i] THEN -1 ELSE 1
strcmp(s, t) == Compared(Encode(s), Encode(t))

StartsAt(b, c, i) == i + Len(c) <= Len(b) /\ SubSeq(b, i + 1, i + Len(c)) = c
strstr(s, t)   == \E i \in 0 .. Len(Encode(s)) : StartsAt(Encode(s), Encode(t), i)
IsHead(s, t)   == StartsAt(Encode(s), Encode(t), 0)
IsTail(s, t)   == /\ Len(Encode(t)) <= Len(Encode(s))
                  /\ StartsAt(Encode(s), Encode(t), Len(Encode(s)) - Len(Encode(t)))

----------------------------------------------------------------------------
(* Objects.                                                                 *)

StringCell(s) ==
  [class |-> "String", flat |-> s, left |-> NULL, right |-> NULL, depth |-> 0,
   blen |-> Len(Encode(s)), size |-> Len(s),
   ascii |-> \A k \in 1 .. Len(s) : Len(s[k]) = 1, hashcode |-> HashOf(s)]

(* ConcatString__FillBuffer: the text of o when the objects are c.  Where   *)
(* the parts' blen are the lengths of their bytes, as FieldsAgree says, the *)
(* strncpys copy all of both.                                               *)
FillBuffer(c, o) ==
  LET chars[p \in Addr] ==
        IF c[p].flat # NULL THEN c[p].flat ELSE chars[c[p].left] \o chars[c[p].right]
  IN  chars[o]

\* ConcatString__Flatten, and grcstring; String objects are flat from the start.
Flattened(c, o) == [c EXCEPT ![o].flat = FillBuffer(c, o)]

Grc(os) ==
  [o \in Addr |-> IF o \in os THEN Flattened(cell, o)[o] ELSE cell[o]]

\* A plausible slip of alloc_ConcatString.
ConcatCell_EitherAscii(l, r) ==
  [class |-> "Concat", flat |-> NULL, left |-> l, right |-> r,
   depth |-> 1 + Larger(cell[l].depth, cell[r].depth),
   blen |-> cell[l].blen + cell[r].blen, size |-> cell[l].size + cell[r].size,
   ascii |-> cell[l].ascii \/ cell[r].ascii, hashcode |-> 0]

\* The depth of a String is 0 here: only ropes have that field.
ConcatCell(l, r) ==
  [class |-> "Concat", flat |-> NULL, left |-> l, right |-> r,
   depth |-> 1 + Larger(cell[l].depth, cell[r].depth),
   blen |-> cell[l].blen + cell[r].blen, size |-> cell[l].size + cell[r].size,
   ascii |-> cell[l].ascii /\ cell[r].ascii, hashcode |-> 0]

(* alloc_String gives the program the object o with the text s; c are the  *)
(* objects as the request has left them.  A string of one byte is shared.   *)
alloc_String(c, s, o) ==
  LET known == s \in DOMAIN interned
  IN  /\ IF known THEN o = interned[s] ELSE o \in Unused
      /\ cell' = IF known THEN c ELSE [c EXCEPT ![o] = StringCell(s)]
      /\ interned' = IF known \/ Len(Encode(s)) # 1 THEN interned
                     ELSE [t \in DOMAIN interned \cup {s} |-> IF t = s THEN o ELSE interned[t]]
      /\ held' = held \cup {o}

----------------------------------------------------------------------------
Init ==
  /\ cell = [o \in Addr |-> FREE]
  /\ held = {}
  /\ interned = << >>
  /\ answer = <<"none">>

\* A literal of the program, or a string another native has built.
Literal(s, o) == alloc_String(cell, s, o) /\ answer' = <<"literal", s, o>>

(* String_concat, once its argument is a string: alloc_ConcatString.        *)
Concat(l, r, o) ==
  /\ {l, r} \subseteq held
  /\ cell[l].blen + cell[r].blen <= MaxLen
  /\ CASE cell[l].size = 0 -> o = r /\ UNCHANGED <<cell, held, interned>>
       [] cell[l].size # 0 /\ cell[r].size = 0 -> o = l /\ UNCHANGED <<cell, held, interned>>
       [] OTHER ->
            IF ConcatCell(l, r).depth > MaxDepth
            THEN alloc_String(cell, FillBuffer(cell, l) \o FillBuffer(cell, r), o)
            ELSE /\ o \in Unused
                 /\ cell' = [cell EXCEPT ![o] = ConcatCell(l, r)]
                 /\ held' = held \cup {o}
                 /\ UNCHANGED interned
  /\ answer' = <<"++", l, r, o>>

Answers(c, a) == cell' = c /\ answer' = a /\ UNCHANGED <<held, interned>>

(* String_Equals and ConcatString_Equals; != is the opposite.               *)
Equals(p, q) ==
  LET differ == \/ cell[p].size # cell[q].size
                \/ cell[p].class = "Concat" /\ cell[p].blen # cell[q].blen
      same   == cell[p].class = "Concat" /\ p = q
  IN  /\ {p, q} \subseteq held
      /\ IF same \/ differ THEN Answers(cell, <<"==", p, q, same>>)
         ELSE Answers(Grc({p, q}),
                      <<"==", p, q, strcmp(FillBuffer(cell, p), FillBuffer(cell, q)) = 0>>)

(* String_Compare_int, behind compare, <, <=, > and >=.                     *)
Compare(p, q) ==
  /\ {p, q} \subseteq held
  /\ IF p = q THEN Answers(cell, <<"compare", p, q, 0>>)
     ELSE Answers(Grc({p, q}),
                  <<"compare", p, q, strcmp(FillBuffer(cell, p), FillBuffer(cell, q))>>)

(* String_Contains and ConcatString_Contains.                               *)
Contains(p, q) ==
  /\ {p, q} \subseteq held
  /\ IF cell[p].size <= cell[q].size THEN Answers(cell, <<"contains", p, q, FALSE>>)
     ELSE Answers(Grc({p, q}),
                  <<"contains", p, q, strstr(FillBuffer(cell, p), FillBuffer(cell, q))>>)

StartsWith(p, q) ==
  /\ {p, q} \subseteq held
  /\ Answers(Grc({p, q}),
             <<"startsWith", p, q, IsHead(FillBuffer(cell, p), FillBuffer(cell, q))>>)

EndsWith(p, q) ==
  /\ {p, q} \subseteq held
  /\ Answers(Grc({p, q}),
             <<"endsWith", p, q, IsTail(FillBuffer(cell, p), FillBuffer(cell, q))>>)

(* String_hashcode: a hash that is not 0 is kept.                           *)
Hash(p) ==
  /\ p \in held
  /\ IF cell[p].hashcode # 0 THEN Answers(cell, <<"hash", p, cell[p].hashcode>>)
     ELSE LET h == HashOf(FillBuffer(cell, p))
          IN  Answers([Grc({p}) EXCEPT ![p].hashcode = h], <<"hash", p, h>>)

Size(p) == p \in held /\ Answers(cell, <<"size", p, cell[p].size>>)

\* do and iterator: StringIter_next steps from character to character.
Do(p) == p \in held /\ Answers(Grc({p}), <<"do", p, FillBuffer(cell, p)>>)

(* String_at, after ConcatString_at has flattened a rope: the i-th byte of  *)
(* an ASCII string.  The code trusts the index: what a program finds that   *)
(* asks for a character which is not there is undefined, and left out.      *)
At(p, i, o) ==
  LET s == FillBuffer(cell, p)
  IN  /\ p \in held /\ i \in 1 .. cell[p].size
      /\ alloc_String(Grc({p}), IF cell[p].ascii THEN << <<Encode(s)[i]>> >> ELSE <<s[i]>>, o)
      /\ answer' = <<"at", p, i, o>>

\* String_substringFrom_to copies into char buf[cl * 4 + 1], the last byte for NUL.
InBuffer(s, cl) == Len(Encode(s)) + 1 <= cl * 4 + 1

\* A plausible slip: the character at the upper end is left out.
Substring_TakesOneLess(p, from, to, o) ==
  LET s  == FillBuffer(cell, p)
      st == Larger(from, 1) - 1
      en == Smaller(to - 1, cell[p].size)
      copied == IF en < st THEN << >> ELSE SubSeq(s, st + 1, en)
  IN  /\ p \in held
      /\ en < st \/ InBuffer(copied, en - st)
      /\ alloc_String(Grc({p}), copied, o)
      /\ answer' = <<"substring", p, from, to, o>>

(* String_substringFrom_to.  st and en count from 0, and characters st to   *)
(* en are copied; there is none to copy at en = size, where the string ends.*)
(* Requests whose characters do not fit the buffer are left out, as what    *)
(* they do is undefined: those for one character, and for few long ones.    *)
Substring(p, from, to, o) ==
  LET s  == FillBuffer(cell, p)
      st == Larger(from, 1) - 1
      en == Smaller(to - 1, cell[p].size)
      copied == IF en < st THEN << >>
                ELSE SubSeq(s, st + 1, Smaller(en + 1, cell[p].size))
  IN  /\ p \in held
      /\ en < st \/ InBuffer(copied, en - st)
      /\ alloc_String(Grc({p}), copied, o)
      /\ answer' = <<"substring", p, from, to, o>>

\* The program lets a string go.
Drop(o) ==
  /\ o \in held
  /\ held' = held \ {o}
  /\ UNCHANGED <<cell, interned, answer>>

\* A plausible slip of ConcatString__mark: it leaves the rope as it is.
Collect_MarksNothing ==
  /\ cell' = [o \in Addr |-> IF o \in held \cup {interned[s] : s \in DOMAIN interned}
                             THEN cell[o] ELSE FREE]
  /\ UNCHANGED <<held, interned, answer>>

(* A collection: ConcatString__mark flattens every rope it reaches and does *)
(* not go on to its parts; then what is not marked is freed.                *)
Collect ==
  /\ cell' = [o \in Addr |-> IF o \in held \cup {interned[s] : s \in DOMAIN interned}
                             THEN Flattened(cell, o)[o] ELSE FREE]
  /\ UNCHANGED <<held, interned, answer>>

Short == UNION {[1 .. n -> Char] : n \in 0 .. MaxLiteral}

Next ==
  \/ \E s \in Short, o \in Addr : Literal(s, o)
  \/ \E l, r, o \in Addr : Concat(l, r, o)
  \/ \E p, q \in Addr :
       Equals(p, q) \/ Compare(p, q) \/ Contains(p, q) \/ StartsWith(p, q) \/ EndsWith(p, q)
  \/ \E p \in Addr : Hash(p) \/ Size(p) \/ Do(p) \/ Drop(p)
  \/ \E p, o \in Addr, i \in 1 .. MaxLen : At(p, i, o)
  \/ \E p, o \in Addr, from, to \in 0 .. MaxLen + 1 : Substring(p, from, to, o)
  \/ Collect

Spec == Init /\ [][Next]_vars

----------------------------------------------------------------------------
(* What the code reads to get at the bytes of o.                            *)
Read(o) ==
  LET cells[p \in Addr] ==
        IF cell[p].flat # NULL THEN {p} ELSE {p} \cup cells[cell[p].left] \cup cells[cell[p].right]
  IN  cells[o]

Height(o) ==
  LET height[p \in Addr] ==
        IF cell[p].flat # NULL THEN 0
        ELSE 1 + Larger(height[cell[p].left], height[cell[p].right])
  IN  height[o]

(* The collector does not follow the pointers of a rope to its parts; a rope*)
(* the program still has is flat before any of its parts is freed.          *)
PartsAreLive == \A o \in held : \A p \in Read(o) : cell[p].class # "free"

(* Flattening recurses at most MaxDepth deep, also from within the          *)
(* collector.                                                               *)
DepthBounded ==
  \A o \in held : Height(o) <= cell[o].depth /\ cell[o].depth <= MaxDepth

(* The fields computed when a string is made, or when its hash is first     *)
(* requested, describe the bytes it turns out to have.                      *)
FieldsAgree ==
  \A o \in held :
    LET c == cell[o]
        s == FillBuffer(cell, o)
    IN  /\ c.blen = Len(Encode(s))
        /\ c.size = Len(s)
        /\ c.ascii = (c.blen = c.size)
        /\ c.hashcode \in {0, HashOf(s)}

(* Strings are immutable sequences of characters: flattening, sharing and   *)
(* collection never change one, and requests answer what StringSpec says,   *)
(* which leaves open where String_Contains and String_substringFrom_to      *)
(* differ from the JavaScript library.                                      *)
text == [o \in Addr |-> IF o \in held THEN FillBuffer(cell, o) ELSE NULL]
Strings == INSTANCE StringSpec WITH NONE <- NULL
IsString == Strings!Spec
=============================================================================
