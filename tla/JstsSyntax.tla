----------------------------- MODULE JstsSyntax -----------------------------
(***************************************************************************)
(* _check_jsts_syntax, the scanner WriteCode validates a generated file    *)
(* with before it is built, one character per step, and what it is to      *)
(* decide: whether the text divides into strings, comments and code whose  *)
(* brackets nest.                                                          *)
(***************************************************************************)
EXTENDS Integers, Sequences, FiniteSets

CONSTANT MaxLength      \* bound: of the texts

ASSUME LengthAssumption == MaxLength \in Nat

(* The characters the scanner tells apart, one of two quotes left out, and *)
(* x for any other.                                                        *)
Openers == {"(", "{"}
Closers == {")", "}"}
Pair == [o \in Openers |-> IF o = "(" THEN ")" ELSE "}"]
Quotes == {"'", "tick"}
Chars == Openers \cup Closers \cup Quotes \cup {"/", "*", "backslash", "newline", "x"}

VARIABLES
  source,   \* the text
  i,        \* the next character
  mode,     \* what the flags say: "code", a quote, "block" or "line"
  escape,   \* the character before was a backslash, in a string
  stack,    \* open brackets
  verdict   \* "scanning", "error" or "none": the result

vars == <<source, i, mode, escape, stack, verdict>>

TypeOK ==
  /\ source \in Seq(Chars) /\ Len(source) <= MaxLength
  /\ i \in 1..Len(source) + 1
  /\ mode \in Quotes \cup {"code", "block", "line"}
  /\ escape \in BOOLEAN /\ (escape => mode \in Quotes)
  /\ stack \in Seq(Openers)
  /\ verdict \in {"scanning", "error", "none"}

Init ==
  /\ source \in UNION {[1..n -> Chars] : n \in 0..MaxLength}
  /\ i = 1 /\ mode = "code" /\ escape = FALSE /\ stack = <<>>
  /\ verdict = "scanning"

ch == source[i]
nxt == IF i < Len(source) THEN source[i + 1] ELSE "end"

(* A mutant of Width: any slash is taken for the begin of a comment. *)
WidthOfSlash == IF ch = "/" /\ mode = "code" THEN 2 ELSE 1

Width ==
  IF \/ mode = "code" /\ ch = "/" /\ nxt \in {"/", "*"}
     \/ mode = "block" /\ ch = "*" /\ nxt = "/"
  THEN 2 ELSE 1

Go(m, e, s) ==
  /\ i' = i + Width
  /\ mode' = m /\ escape' = e /\ stack' = s
  /\ UNCHANGED <<source, verdict>>

InString ==
  /\ mode \in Quotes
  /\ CASE escape -> Go(mode, FALSE, stack)
       [] ~escape /\ ch = "backslash" -> Go(mode, TRUE, stack)
       [] OTHER -> Go(IF ch = mode THEN "code" ELSE mode, escape, stack)

InComment ==
  \/ mode = "block" /\ Go(IF Width = 2 THEN "code" ELSE mode, FALSE, stack)
  \/ mode = "line" /\ Go(IF ch = "newline" THEN "code" ELSE mode, FALSE, stack)

Mismatch == ch \in Closers /\ (stack = <<>> \/ Pair[stack[Len(stack)]] # ch)

InCode ==
  /\ mode = "code"
  /\ CASE Width = 2 -> Go(IF nxt = "/" THEN "line" ELSE "block", FALSE, stack)
       [] ch \in Quotes -> Go(ch, FALSE, stack)
       [] ch \in Openers -> Go(mode, FALSE, Append(stack, ch))
       [] ch \in Closers /\ ~Mismatch -> Go(mode, FALSE, SubSeq(stack, 1, Len(stack) - 1))
       [] Mismatch -> /\ verdict' = "error"
                      /\ UNCHANGED <<source, i, mode, escape, stack>>
       [] OTHER -> Width = 1 /\ Go(mode, FALSE, stack)

(* A mutant of Unfinished: an open block comment is let through. *)
UnfinishedString == mode \in Quotes \/ stack # <<>>

Unfinished == mode \in Quotes \cup {"block"} \/ stack # <<>>

AtEnd ==
  /\ i > Len(source)
  /\ verdict' = IF Unfinished THEN "error" ELSE "none"
  /\ UNCHANGED <<source, i, mode, escape, stack>>

Next ==
  /\ verdict = "scanning"
  /\ \/ i <= Len(source) /\ (InString \/ InComment \/ InCode)
     \/ AtEnd

Spec == Init /\ [][Next]_vars

-----------------------------------------------------------------------------
(* The reference: a division of the text s into tokens. *)

(* s[k] follows an odd number of backslashes, those from a on counted. *)
Escaped(s, a, k) ==
  \E b \in a..k - 1 :
    /\ \A j \in b..k - 1 : s[j] = "backslash"
    /\ b = a \/ s[b - 1] # "backslash"
    /\ (k - b) % 2 = 1

StringToken(s, a, b) ==
  /\ s[a] \in Quotes /\ b > a /\ s[b] = s[a] /\ ~Escaped(s, a + 1, b)
  /\ \A k \in a + 1..b - 1 : s[k] = s[a] => Escaped(s, a + 1, k)

Marks(s, k, x, y) == k < Len(s) /\ s[k] = x /\ s[k + 1] = y

LineComment(s, a, b) ==
  /\ Marks(s, a, "/", "/") /\ b > a
  /\ \A k \in a..b : s[k] # "newline"
  /\ b = Len(s) \/ s[b + 1] = "newline"

BlockComment(s, a, b) ==
  /\ Marks(s, a, "/", "*") /\ b >= a + 3 /\ Marks(s, b - 1, "*", "/")
  /\ \A k \in a + 2..b - 2 : ~Marks(s, k, "*", "/")

CodeToken(s, a) ==
  s[a] \notin Quotes /\ ~Marks(s, a, "/", "/") /\ ~Marks(s, a, "/", "*")

(* B: the positions tokens begin at. *)
Division(s, B) ==
  /\ B \subseteq DOMAIN s /\ (s # <<>> => 1 \in B)
  /\ \A a \in B :
       LET later == {k \in B : k > a}
           b == IF later = {} THEN Len(s)
                ELSE (CHOOSE k \in later : \A j \in later : k <= j) - 1
       IN  \/ a = b /\ CodeToken(s, a)
           \/ StringToken(s, a, b) \/ LineComment(s, a, b) \/ BlockComment(s, a, b)

(* The brackets at the positions C nest. *)
Depth(s, C, k) ==
  Cardinality({j \in C : j <= k /\ s[j] \in Openers})
    - Cardinality({j \in C : j <= k /\ s[j] \in Closers})

Nest(s, C) ==
  /\ \A k \in C : Depth(s, C, k) >= 0
  /\ Depth(s, C, Len(s)) = 0
  /\ \A o \in C : s[o] \in Openers =>
       \E c \in C : /\ c > o /\ s[c] = Pair[s[o]]
                    /\ Depth(s, C, c) = Depth(s, C, o) - 1
                    /\ \A k \in o..c - 1 : Depth(s, C, k) >= Depth(s, C, o)

WellFormed(s) ==
  \E B \in SUBSET DOMAIN s :
    Division(s, B) /\ Nest(s, {a \in B : CodeToken(s, a)})

(* The scanner accepts a text exactly if it divides into strings, comments    *)
(* and code that nests (_check_jsts_syntax, write_code.py:1418).              *)
AcceptsWellFormed ==
  /\ verdict = "none" => WellFormed(source)
  /\ verdict = "error" => ~WellFormed(source)

=============================================================================
