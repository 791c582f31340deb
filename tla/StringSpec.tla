----------------------------- MODULE StringSpec -----------------------------
(***************************************************************************)
(* What strings promise: they are immutable sequences of characters.       *)
(* answer is the last request that computes something, with its arguments  *)
(* and what came back.  Two things are left open, for which the native     *)
(* library and that of JavaScript answer differently: whether a string     *)
(* contains itself, and what a substring is that starts out of bounds.     *)
(***************************************************************************)
EXTENDS Integers, Sequences

CONSTANTS
  Addr,          \* string objects
  Char,          \* characters, as the sequences of bytes that encode them
  NONE,          \* the text of an object the program does not have
  HashBytes(_)   \* the hash of a sequence of bytes

VARIABLES text, answer

Encode(s) == LET bytes[n \in 0 .. Len(s)] == IF n = 0 THEN << >> ELSE bytes[n - 1] \o s[n]
             IN  bytes[Len(s)]

StartsAt(s, t, i) == i + Len(t) <= Len(s) /\ SubSeq(s, i + 1, i + Len(t)) = t

\* The order of characters is that of their encodings.
CharLess(c, d) == \E i \in 1 .. Len(c) :
  i <= Len(d) /\ c[i] < d[i] /\ \A h \in 1 .. i - 1 : c[h] = d[h]
Less(s, t) ==
  \E i \in 1 .. Len(t) :
    /\ i <= Len(s) + 1
    /\ \A h \in 1 .. i - 1 : s[h] = t[h]
    /\ i <= Len(s) => CharLess(s[i], t[i])

Init == text = [o \in Addr |-> NONE] /\ answer = <<"none">>

\* An object with the text s, new or one the program already has.
Gives(o, s) ==
  /\ text[o] \in {NONE, s}
  /\ text' = [text EXCEPT ![o] = s]

\* The last text of a string the program lets go.
Drop(o) == UNCHANGED answer /\ text' = [text EXCEPT ![o] = NONE]

(* A request a = <<name, arguments, answer>> that makes a string.           *)
Make(a) ==
  \/ a[1] = "literal" /\ Gives(a[3], a[2])
  \/ a[1] = "++"      /\ Gives(a[4], text[a[2]] \o text[a[3]])
  \/ a[1] = "at"      /\ Gives(a[4], <<text[a[2]][a[3]]>>)
  \/ /\ a[1] = "substring"
     /\ LET s    == text[a[2]]
            last == IF a[4] > Len(s) THEN Len(s) ELSE a[4]
        IN  IF a[3] \in 1 .. Len(s) + 1 THEN Gives(a[5], SubSeq(s, a[3], last))
            ELSE Gives(a[5], text'[a[5]])

Relation(name, s, t) ==
  CASE name = "=="         -> s = t
    [] name = "compare"    -> IF Less(s, t) THEN -1 ELSE IF Less(t, s) THEN 1 ELSE 0
    [] name = "startsWith" -> StartsAt(s, t, 0)
    [] name = "endsWith"   -> Len(t) <= Len(s) /\ StartsAt(s, t, Len(s) - Len(t))
    [] name = "contains"   -> \E i \in 0 .. Len(s) : StartsAt(s, t, i)

\* A request that asks something of one string or of two.
Ask(a) ==
  /\ UNCHANGED text
  /\ \/ a[1] = "hash" /\ a[3] = HashBytes(Encode(text[a[2]]))
     \/ a[1] = "size" /\ a[3] = Len(text[a[2]])
     \/ a[1] = "do"   /\ a[3] = text[a[2]]
     \/ /\ a[1] \in {"==", "compare", "startsWith", "endsWith", "contains"}
        /\ \/ a[4] = Relation(a[1], text[a[2]], text[a[3]])
           \/ a[1] = "contains" /\ text[a[2]] = text[a[3]] /\ a[4] \in BOOLEAN

Next == (\E o \in Addr : Drop(o)) \/ Make(answer') \/ Ask(answer')

Spec == Init /\ [][Next]_<<text, answer>>
=============================================================================
