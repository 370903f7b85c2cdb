--------------------------- MODULE JstsSyntaxProofs ---------------------------
(***************************************************************************)
(* Proof that the scanner accepts exactly the texts that divide into       *)
(* strings, comments and code whose brackets nest, for texts of any        *)
(* length.                                                                 *)
(***************************************************************************)
EXTENDS JstsSyntax, FiniteSetTheorems, WellFoundedInduction, TLAPS

Text == Seq(Chars)

Below == OpToRel(<, Nat)

(* Among natural numbers there is a least one. *)
LEMMA Least ==
  ASSUME NEW S, S \subseteq Nat, S # {}
  PROVE  \E m \in S : \A j \in S : m <= j
<1>1. IsWellFoundedOn(Below, Nat)
  BY NatLessThanWellFounded DEF Below
<1>2. PICK m \in S : \A y \in S : ~ (<<y, m>> \in Below)
  BY <1>1, WFMin
<1>3. ASSUME NEW j \in S PROVE m <= j
  <2>1. j < m => <<j, m>> \in Below
    BY DEF Below, OpToRel
  <2>2. j \in Nat /\ m \in Nat
    OBVIOUS
  <2>3. QED BY <1>2, <2>1, <2>2
<1>4. QED BY <1>3

-----------------------------------------------------------------------------
(* The variables keep their types. *)

(* Two characters are taken where a comment begins or ends.                *)
Wide == \/ mode = "code" /\ ch = "/" /\ nxt \in {"/", "*"}
        \/ mode = "block" /\ ch = "*" /\ nxt = "/"

LEMMA Widths == (Wide => Width = 2) /\ (~Wide => Width = 1)
BY Zenon DEF Wide, Width

(* Brackets are code of their own. *)
LEMMA BracketChar ==
  ASSUME NEW c \in Openers \cup Closers
  PROVE  /\ c \notin Quotes /\ c # "/" /\ c # "*" /\ c # "newline"
         /\ c \in Openers => c \notin Closers
BY DEF Openers, Closers, Quotes

(* A bracket is taken alone. *)
LEMMA BracketWidth == ch \in Openers \cup Closers => Width = 1
BY BracketChar, Widths DEF Wide

(* The character after the next is there if it is anything. *)
LEMMA NextIsThere ==
  ASSUME TypeOK, i <= Len(source)
  PROVE  /\ ch \in Chars /\ i \in 1..Len(source) /\ i \in DOMAIN source
         /\ Width \in {1, 2} /\ (Width = 2 => i < Len(source))
BY DEF TypeOK, ch, Width, nxt

(* A bracket that is closed leaves the ones below it. *)
LEMMA PopType ==
  ASSUME stack \in Seq(Openers), stack # <<>>
  PROVE  SubSeq(stack, 1, Len(stack) - 1) \in Seq(Openers)
OBVIOUS

(* A step of the scanner keeps the types. *)
LEMMA GoType ==
  ASSUME TypeOK, i <= Len(source), NEW m \in Quotes \cup {"code", "block", "line"},
         NEW e \in BOOLEAN, e => m \in Quotes, NEW st \in Seq(Openers), Go(m, e, st)
  PROVE  TypeOK'
BY NextIsThere DEF Go, TypeOK

(* What the scanner does with a character of code. *)
LEMMA CodeSteps ==
  ASSUME InCode
  PROVE  /\ mode = "code"
         /\ \/ Width = 2 /\ Go(IF nxt = "/" THEN "line" ELSE "block", FALSE, stack)
            \/ Width = 1 /\ ch \in Quotes /\ Go(ch, FALSE, stack)
            \/ Width = 1 /\ ch \in Openers /\ Go(mode, FALSE, Append(stack, ch))
            \/ /\ Width = 1 /\ ch \in Closers /\ ~Mismatch
               /\ Go(mode, FALSE, SubSeq(stack, 1, Len(stack) - 1))
            \/ /\ Width = 1 /\ Mismatch /\ verdict' = "error"
               /\ UNCHANGED <<source, i, mode, escape, stack>>
            \/ /\ Width = 1 /\ ch \notin Quotes \cup Openers \cup Closers
               /\ Go(mode, FALSE, stack)
<1> DEFINE two == Go(IF nxt = "/" THEN "line" ELSE "block", FALSE, stack)
           open == Go(ch, FALSE, stack)
           push == Go(mode, FALSE, Append(stack, ch))
           pop == Go(mode, FALSE, SubSeq(stack, 1, Len(stack) - 1))
           stop == verdict' = "error" /\ UNCHANGED <<source, i, mode, escape, stack>>
           on == Go(mode, FALSE, stack)
<1>1. /\ mode = "code"
      /\ CASE Width = 2 -> two
           [] ch \in Quotes -> open
           [] ch \in Openers -> push
           [] ch \in Closers /\ ~Mismatch -> pop
           [] Mismatch -> stop
           [] OTHER -> Width = 1 /\ on
  BY DEF InCode
<1>2. Width = 2 \/ Width = 1
  BY Widths
<1>3. ch \in Openers \cup Closers => Width = 1 /\ ch \notin Quotes
  BY BracketChar, BracketWidth
<1>4. ch \in Openers => ch \notin Closers
  BY BracketChar
<1>5. Mismatch => ch \in Closers
  BY DEF Mismatch
<1>6. Width = 2 => ch \notin Quotes \cup Openers \cup Closers
  <2>1. mode = "code"
    BY <1>1
  <2>2. Wide => ch = "/"
    BY <2>1 DEF Wide
  <2>3. ch = "/" => ch \notin Quotes \cup Openers \cup Closers
    BY DEF Quotes, Openers, Closers
  <2>4. QED BY <2>2, <2>3, Widths
<1>7. CASE Width = 2
  BY <1>1, <1>5, <1>6, <1>7
<1>8. CASE ch \in Quotes
  BY <1>1, <1>2, <1>3, <1>5, <1>6, <1>8
<1>9. CASE ch \in Openers
  BY <1>1, <1>3, <1>4, <1>5, <1>9
<1>10. CASE ch \in Closers
  BY <1>1, <1>3, <1>4, <1>10
<1>11. CASE Width = 1 /\ ch \notin Quotes \cup Openers \cup Closers
  BY <1>1, <1>5, <1>11
<1>12. QED BY <1>2, <1>7, <1>8, <1>9, <1>10, <1>11
(* Every step keeps the types. *)
LEMMA TypeStep ==
  ASSUME TypeOK, [Next]_vars
  PROVE  TypeOK'
<1>1. CASE i <= Len(source) /\ InString
  <2>1. mode \in Quotes \cup {"code", "block", "line"} /\ stack \in Seq(Openers)
        /\ escape \in BOOLEAN
    BY DEF TypeOK
  <2>2. CASE escape
    BY <1>1, <2>1, <2>2, GoType DEF InString
  <2>3. CASE ~escape /\ ch = "backslash"
    BY <1>1, <2>1, <2>3, GoType DEF InString
  <2>4. CASE ~escape /\ ch # "backslash"
    BY <1>1, <2>1, <2>4, GoType DEF InString
  <2>5. QED BY <2>1, <2>2, <2>3, <2>4
<1>2. CASE i <= Len(source) /\ InComment
  BY <1>2, GoType DEF InComment, TypeOK
<1>3. CASE i <= Len(source) /\ InCode
  <2>1. stack \in Seq(Openers) /\ FALSE \in BOOLEAN
    BY DEF TypeOK
  <2>2. ch \in Openers => Append(stack, ch) \in Seq(Openers)
    BY <2>1
  <2>3. ch \in Closers /\ ~Mismatch => SubSeq(stack, 1, Len(stack) - 1) \in Seq(Openers)
    BY <2>1, PopType DEF Mismatch
  <2>4. ASSUME NEW m \in Quotes \cup {"code", "block", "line"}, NEW st \in Seq(Openers),
               Go(m, FALSE, st)
        PROVE  TypeOK'
    BY <1>3, <2>4, GoType
  <2>5. ASSUME verdict' = "error" /\ UNCHANGED <<source, i, mode, escape, stack>>
        PROVE  TypeOK'
    BY <2>5 DEF TypeOK
  <2>6. QED BY <1>3, <2>1, <2>2, <2>3, <2>4, <2>5, CodeSteps
<1>4. CASE AtEnd
  BY <1>4 DEF AtEnd, TypeOK
<1>5. CASE UNCHANGED vars
  BY <1>5 DEF vars, TypeOK
<1>6. QED BY <1>1, <1>2, <1>3, <1>4, <1>5 DEF Next

(* The start has the types. *)
LEMMA InitType == Init => TypeOK
<1> SUFFICES ASSUME Init PROVE TypeOK
  OBVIOUS
<1>1. PICK n \in 0..MaxLength : source \in [1..n -> Chars]
  BY DEF Init
<1>2. source \in Seq(Chars) /\ Len(source) = n
  BY <1>1, LengthAssumption
<1>3. i = 1 /\ 1 \in 1..Len(source) + 1 /\ Len(source) <= MaxLength
  BY <1>1, <1>2, LengthAssumption DEF Init
<1>4. stack = <<>> /\ <<>> \in Seq(Openers) /\ escape = FALSE
      /\ mode = "code" /\ verdict = "scanning"
  BY DEF Init
<1>5. QED BY <1>2, <1>3, <1>4 DEF TypeOK

(* The scanner stays within the text, and its flags within their values. *)
THEOREM ScannerTyped == Spec => []TypeOK
<1>1. TypeOK /\ [Next]_vars => TypeOK'
  BY TypeStep
<1>2. QED BY InitType, <1>1, PTL DEF Spec

-----------------------------------------------------------------------------
(* Backslashes. *)

(* Nothing precedes the place counting starts at. *)
LEMMA EscapedStart ==
  ASSUME NEW s, NEW a \in Nat
  PROVE  ~Escaped(s, a, a)
BY DEF Escaped

(* The flag of the scanner alternates along backslashes. *)
LEMMA EscapedStep ==
  ASSUME NEW s, NEW a \in Nat, NEW k \in Nat, a <= k
  PROVE  Escaped(s, a, k + 1) <=> s[k] = "backslash" /\ ~Escaped(s, a, k)
<1> DEFINE Run(b, c) == \A j \in b..c - 1 : s[j] = "backslash"
           First(b) == b = a \/ s[b - 1] # "backslash"
<1>1. /\ Escaped(s, a, k)
         <=> \E b \in a..k - 1 : Run(b, k) /\ First(b) /\ (k - b) % 2 = 1
      /\ Escaped(s, a, k + 1)
         <=> \E b \in a..k : Run(b, k + 1) /\ First(b) /\ (k + 1 - b) % 2 = 1
  BY DEF Escaped
<1>2. ASSUME Escaped(s, a, k + 1), Escaped(s, a, k) PROVE FALSE
  <2>1. PICK b \in a..k : Run(b, k + 1) /\ First(b) /\ (k + 1 - b) % 2 = 1
    BY <1>1, <1>2
  <2>2. PICK c \in a..k - 1 : Run(c, k) /\ First(c) /\ (k - c) % 2 = 1
    BY <1>1, <1>2
  <2>3. b <= c
    <3>1. CASE c < b
      <4>1. b - 1 \in c..k - 1 /\ b # a
        BY <3>1
      <4>2. QED BY <2>1, <2>2, <4>1
    <3>2. QED BY <3>1
  <2>4. c <= b
    <3>1. CASE b < c
      <4>1. c - 1 \in b..k /\ c # a
        BY <3>1
      <4>2. QED BY <2>1, <2>2, <4>1
    <3>2. QED BY <3>1
  <2>5. b = c
    BY <2>3, <2>4
  <2>6. QED BY <2>1, <2>2, <2>5
<1>3. Escaped(s, a, k + 1) => s[k] = "backslash"
  BY <1>1
<1>4. ASSUME s[k] = "backslash", ~Escaped(s, a, k) PROVE Escaped(s, a, k + 1)
  <2> DEFINE S == {b \in a..k : Run(b, k + 1)}
  <2>1. k \in S /\ S \subseteq Nat
    BY <1>4
  <2>2. PICK b \in S : \A c \in S : b <= c
    BY <2>1, Least
  <2>3. First(b)
    <3>1. CASE b # a /\ s[b - 1] = "backslash"
      <4>1. b - 1 \in a..k /\ Run(b - 1, k + 1)
        BY <2>2, <3>1
      <4>2. QED BY <2>2, <4>1
    <3>2. QED BY <3>1
  <2>4. b # k => b \in a..k - 1 /\ Run(b, k)
    BY <2>2
  <2>5. b = k \/ (k - b) % 2 # 1
    BY <1>1, <1>4, <2>3, <2>4
  <2>6. (k + 1 - b) % 2 = 1
    BY <2>2, <2>5
  <2>7. QED BY <1>1, <2>2, <2>3, <2>6
<1>5. QED BY <1>2, <1>3, <1>4

-----------------------------------------------------------------------------
(* Divisions. *)

Token(s, a, b) ==
  \/ a = b /\ CodeToken(s, a)
  \/ StringToken(s, a, b) \/ LineComment(s, a, b) \/ BlockComment(s, a, b)

(* The places T divide the text before t. *)
Chain(s, T, t) ==
  /\ T \subseteq 1..t - 1 /\ 1 \in T \cup {t}
  /\ \A a \in T : \E e \in a..t - 1 :
       /\ Token(s, a, e) /\ e + 1 \in T \cup {t}
       /\ \A k \in T : k <= a \/ k > e

(* A token more. *)
LEMMA ChainToken ==
  ASSUME NEW s, NEW t \in Nat \ {0}, NEW T, Chain(s, T, t),
         NEW e \in Nat, t <= e, Token(s, t, e)
  PROVE  Chain(s, T \cup {t}, e + 1)
<1> DEFINE U == T \cup {t}
<1>1. U \subseteq 1..e /\ 1 \in U
  BY DEF Chain
<1>2. ASSUME NEW a \in T
      PROVE  \E x \in a..e : /\ Token(s, a, x) /\ x + 1 \in U
                             /\ \A k \in U : k <= a \/ k > x
  <2>1. PICK x \in a..t - 1 : /\ Token(s, a, x) /\ x + 1 \in U
                              /\ \A k \in T : k <= a \/ k > x
    BY <1>2 DEF Chain
  <2>2. a \in 1..t - 1
    BY DEF Chain
  <2>3. x \in a..e /\ \A k \in U : k <= a \/ k > x
    BY <2>1, <2>2
  <2>4. QED BY <2>1, <2>3
<1>3. \A k \in U : k <= t \/ k > e
  BY DEF Chain
<1>4. \A a \in U : \E x \in a..e : /\ Token(s, a, x) /\ x + 1 \in U \cup {e + 1}
                                   /\ \A k \in U : k <= a \/ k > x
  BY <1>2, <1>3
<1>5. QED BY <1>1, <1>4 DEF Chain

(* A division is a chain to the end. *)
LEMMA DivisionChain ==
  ASSUME NEW s \in Text, NEW B \in SUBSET DOMAIN s
  PROVE  Division(s, B) <=> Chain(s, B, Len(s) + 1)
<1> DEFINE n == Len(s)
           later(a) == {k \in B : k > a}
           first(a) == CHOOSE k \in later(a) : \A j \in later(a) : k <= j
           end(a) == IF later(a) = {} THEN n ELSE first(a) - 1
<1>1. n \in Nat /\ DOMAIN s = 1..n /\ B \subseteq 1..n
  BY DEF Text
<1>2. s # <<>> <=> n # 0
  BY DEF Text
<1>3. Division(s, B) <=> (n # 0 => 1 \in B) /\ \A a \in B : Token(s, a, end(a))
  BY <1>1, <1>2 DEF Division, Token
<1>4. ASSUME NEW a \in B
      PROVE  /\ end(a) \in a..n /\ end(a) + 1 \in B \cup {n + 1}
             /\ \A k \in B : k <= a \/ k > end(a)
  <2>1. CASE later(a) = {}
    BY <1>1, <2>1
  <2>2. CASE later(a) # {}
    <3>1. later(a) \subseteq Nat
      BY <1>1
    <3>2. \E k \in later(a) : \A j \in later(a) : k <= j
      BY <2>2, <3>1, Least
    <3>3. first(a) \in later(a) /\ \A j \in later(a) : first(a) <= j
      BY <3>2
    <3>4. end(a) = first(a) - 1
      BY <2>2
    <3> HIDE DEF first, end
    <3>5. QED BY <1>1, <3>3, <3>4
  <2>3. QED BY <2>1, <2>2
<1> HIDE DEF end
<1>5. ASSUME NEW a \in B, NEW e \in a..n, e + 1 \in B \cup {n + 1},
             \A k \in B : k <= a \/ k > e
      PROVE  e = end(a)
  <2>1. e <= end(a)
    BY <1>1, <1>4, <1>5
  <2>2. end(a) <= e
    BY <1>1, <1>4, <1>5
  <2>3. QED BY <1>1, <1>4, <2>1, <2>2
<1>6. ASSUME Division(s, B) PROVE Chain(s, B, n + 1)
  <2>1. 1 \in B \cup {n + 1}
    BY <1>1, <1>3, <1>6
  <2>2. QED BY <1>1, <1>3, <1>4, <1>6, <2>1 DEF Chain
<1>7. ASSUME Chain(s, B, n + 1) PROVE Division(s, B)
  <2>1. ASSUME NEW a \in B PROVE Token(s, a, end(a))
    <3>1. PICK e \in a..n : /\ Token(s, a, e) /\ e + 1 \in B \cup {n + 1}
                            /\ \A k \in B : k <= a \/ k > e
      BY <1>1, <1>7, <2>1 DEF Chain
    <3>2. e = end(a)
      BY <1>5, <3>1
    <3>3. QED BY <3>1, <3>2
  <2>2. n # 0 => 1 \in B
    BY <1>1, <1>7 DEF Chain
  <2>3. QED BY <1>3, <2>1, <2>2
<1>8. QED BY <1>6, <1>7

(* What begins with a character of code is that character. *)
LEMMA CodeOnly ==
  ASSUME NEW s, NEW a, NEW b, CodeToken(s, a), Token(s, a, b)
  PROVE  b = a
BY DEF Token, CodeToken, StringToken, LineComment, BlockComment

(* What begins with a quote is a string. *)
LEMMA StringOnly ==
  ASSUME NEW s, NEW a, NEW b, s[a] \in Quotes, Token(s, a, b)
  PROVE  StringToken(s, a, b)
BY DEF Token, CodeToken, LineComment, BlockComment, Marks, Quotes

(* What begins with the marks of a comment is that comment. *)
LEMMA CommentOnly ==
  ASSUME NEW s, NEW a, NEW b, Token(s, a, b)
  PROVE  /\ Marks(s, a, "/", "/") => LineComment(s, a, b)
         /\ Marks(s, a, "/", "*") => BlockComment(s, a, b)
BY DEF Token, CodeToken, StringToken, LineComment, BlockComment, Marks, Quotes

(* Every division of the whole text divides what is before t as T does.    *)
Forced(s, T, t) ==
  \A B \in SUBSET DOMAIN s : Chain(s, B, Len(s) + 1) =>
     B \cap 1..t - 1 = T /\ t \in B \cup {Len(s) + 1}

(* A token more, if it can end nowhere else. *)
LEMMA ForcedToken ==
  ASSUME NEW s \in Text, NEW T, NEW t \in 1..Len(s), Forced(s, T, t),
         NEW e \in t..Len(s), \A x \in t..Len(s) : Token(s, t, x) => x = e
  PROVE  Forced(s, T \cup {t}, e + 1)
<1> DEFINE n == Len(s)
<1>1. n \in Nat /\ DOMAIN s = 1..n
  BY DEF Text
<1> SUFFICES ASSUME NEW B \in SUBSET DOMAIN s, Chain(s, B, n + 1)
             PROVE  B \cap 1..e = T \cup {t} /\ e + 1 \in B \cup {n + 1}
  BY <1>1 DEF Forced
<1>2. B \cap 1..t - 1 = T /\ t \in B
  BY <1>1 DEF Forced
<1>3. PICK x \in t..n : /\ Token(s, t, x) /\ x + 1 \in B \cup {n + 1}
                        /\ \A k \in B : k <= t \/ k > x
  BY <1>1, <1>2 DEF Chain
<1>4. x = e
  BY <1>3
<1>5. \A k \in B : k \in 1..n /\ (k <= e => k \in T \cup {t})
  BY <1>1, <1>2, <1>3, <1>4
<1>6. \A k \in T \cup {t} : k \in B /\ k \in 1..e
  BY <1>1, <1>2
<1>7. QED BY <1>3, <1>4, <1>5, <1>6

-----------------------------------------------------------------------------
(* Brackets. *)

(* The places C are before b. *)
Before(C, b) == C \subseteq 1..b - 1

(* Those of C before b are D. *)
Begins(C, b, D) == C \subseteq Nat \ {0} /\ C \cap 1..b - 1 = D

(* The depth at k is that of the places up to k. *)
LEMMA DepthPrefix ==
  ASSUME NEW s, NEW b \in Nat, NEW C, NEW D, Begins(C, b, D),
         NEW k \in Nat, k < b
  PROVE  Depth(s, C, k) = Depth(s, D, k)
<1>1. \A j \in C : j <= k => j \in D
  BY DEF Begins
<1>2. D \subseteq C
  BY DEF Begins
<1>3. {j \in C : j <= k /\ s[j] \in Openers} = {j \in D : j <= k /\ s[j] \in Openers}
  BY <1>1, <1>2
<1>4. {j \in C : j <= k /\ s[j] \in Closers} = {j \in D : j <= k /\ s[j] \in Closers}
  BY <1>1, <1>2
<1>5. QED BY <1>3, <1>4 DEF Depth

(* The places of some kind are finitely many. *)
LEMMA FiniteCount ==
  ASSUME NEW n \in Nat, NEW S, S \subseteq 1..n
  PROVE  IsFiniteSet(S) /\ Cardinality(S) \in Nat
<1>1. IsFiniteSet(1..n)
  BY FS_Interval
<1>2. IsFiniteSet(S)
  BY <1>1, FS_Subset
<1>3. QED BY <1>2, FS_CardinalityType

(* The depth is a number, and stays after the last of the places. *)
LEMMA DepthFlat ==
  ASSUME NEW s, NEW b \in Nat \ {0}, NEW C, Before(C, b)
  PROVE  /\ \A k \in Nat : Depth(s, C, k) \in Int
         /\ \A k \in Nat : k >= b - 1 => Depth(s, C, k) = Depth(s, C, b - 1)
<1>1. ASSUME NEW k \in Nat PROVE Depth(s, C, k) \in Int
  <2> DEFINE S == {j \in C : j <= k /\ s[j] \in Openers}
             R == {j \in C : j <= k /\ s[j] \in Closers}
  <2>1. S \subseteq C /\ R \subseteq C
    OBVIOUS
  <2>2. Depth(s, C, k) = Cardinality(S) - Cardinality(R)
    BY DEF Depth
  <2> HIDE DEF S, R
  <2>3. S \subseteq 1..b - 1 /\ R \subseteq 1..b - 1
    BY <2>1 DEF Before
  <2>4. b - 1 \in Nat
    OBVIOUS
  <2>5. Cardinality(S) \in Nat /\ Cardinality(R) \in Nat
    BY <2>3, <2>4, FiniteCount
  <2>6. QED BY <2>2, <2>5
<1>2. ASSUME NEW k \in Nat, k >= b - 1 PROVE Depth(s, C, k) = Depth(s, C, b - 1)
  <2>1. \A j \in C : j <= k /\ j <= b - 1
    BY <1>2 DEF Before
  <2>2. {j \in C : j <= k /\ s[j] \in Openers} = {j \in C : j <= b - 1 /\ s[j] \in Openers}
    BY <2>1
  <2>3. {j \in C : j <= k /\ s[j] \in Closers} = {j \in C : j <= b - 1 /\ s[j] \in Closers}
    BY <2>1
  <2>4. QED BY <2>2, <2>3 DEF Depth
<1>3. QED BY <1>1, <1>2

(* The depth before is the same with a place more at the end. *)
LEMMA DepthBelow ==
  ASSUME NEW s, NEW b \in Nat \ {0}, NEW C, Before(C, b)
  PROVE  \A k \in 0..b - 1 : Depth(s, C \cup {b}, k) = Depth(s, C, k)
<1>0. \A j \in C : j \in Nat /\ j # 0 /\ j <= b - 1
  BY DEF Before
<1>1. C \cup {b} \subseteq Nat \ {0}
  BY <1>0
<1>2. ASSUME NEW j \in C \cup {b} PROVE j \in 1..b - 1 <=> j \in C
  BY <1>0
<1>3. (C \cup {b}) \cap 1..b - 1 = C
  BY <1>2
<1>4. Begins(C \cup {b}, b, C)
  BY <1>1, <1>3 DEF Begins
<1>5. QED BY <1>4, DepthPrefix

(* One more place at the end. *)
LEMMA DepthStep ==
  ASSUME NEW s, NEW b \in Nat \ {0}, NEW C, Before(C, b)
  PROVE  /\ s[b] \in Openers => Depth(s, C \cup {b}, b) = Depth(s, C, b - 1) + 1
         /\ s[b] \in Closers => Depth(s, C \cup {b}, b) = Depth(s, C, b - 1) - 1
         /\ s[b] \notin Openers \cup Closers => Depth(s, C \cup {b}, b) = Depth(s, C, b - 1)
<1> DEFINE X == {j \in C : j <= b - 1 /\ s[j] \in Openers}
           Y == {j \in C : j <= b - 1 /\ s[j] \in Closers}
           XX == {j \in C \cup {b} : j <= b /\ s[j] \in Openers}
           YY == {j \in C \cup {b} : j <= b /\ s[j] \in Closers}
<1>1. /\ \A j \in C : j \in Nat /\ j # 0 /\ j <= b - 1 /\ j <= b /\ j # b
      /\ b - 1 \in Nat /\ b <= b
  BY DEF Before
<1>2. /\ s[b] \in Openers => XX = X \cup {b}
      /\ s[b] \notin Openers => XX = X
      /\ s[b] \in Closers => YY = Y \cup {b}
      /\ s[b] \notin Closers => YY = Y
  BY <1>1, Zenon
<1>3. X \subseteq C /\ Y \subseteq C
  OBVIOUS
<1>4. /\ Depth(s, C \cup {b}, b) = Cardinality(XX) - Cardinality(YY)
      /\ Depth(s, C, b - 1) = Cardinality(X) - Cardinality(Y)
  BY DEF Depth
<1> HIDE DEF X, Y, XX, YY
<1>5. X \subseteq 1..b - 1 /\ Y \subseteq 1..b - 1 /\ b \notin X /\ b \notin Y
  BY <1>1, <1>3 DEF Before
<1>6. /\ Cardinality(X) \in Nat /\ Cardinality(X \cup {b}) = Cardinality(X) + 1
      /\ Cardinality(Y) \in Nat /\ Cardinality(Y \cup {b}) = Cardinality(Y) + 1
  BY <1>1, <1>5, FiniteCount, FS_AddElement
<1>7. ~ (s[b] \in Openers /\ s[b] \in Closers)
  BY BracketChar
<1> DEFINE x == Cardinality(X)
           y == Cardinality(Y)
<1>8. /\ s[b] \in Openers => Cardinality(XX) = x + 1 /\ Cardinality(YY) = y
      /\ s[b] \in Closers => Cardinality(XX) = x /\ Cardinality(YY) = y + 1
      /\ s[b] \notin Openers \cup Closers => Cardinality(XX) = x /\ Cardinality(YY) = y
      /\ x \in Nat /\ y \in Nat
  BY <1>2, <1>6, <1>7
<1>9. Depth(s, C, b - 1) = x - y
  BY <1>4
<1> HIDE DEF x, y
<1>10. QED BY <1>4, <1>8, <1>9

(* The opener at o has its closer before b. *)
Matched(s, C, o, b) ==
  \E c \in C : /\ c > o /\ c < b /\ s[c] = Pair[s[o]]
               /\ Depth(s, C, c) = Depth(s, C, o) - 1
               /\ \A k \in o..c - 1 : Depth(s, C, k) >= Depth(s, C, o)

(* The opener at o is still open at b, and on the stack st at its depth.   *)
OpenAt(s, C, o, b, st) ==
  /\ Depth(s, C, o) \in 1..Len(st) /\ st[Depth(s, C, o)] = s[o]
  /\ \A k \in o..b - 1 : Depth(s, C, k) >= Depth(s, C, o)

(* The brackets at the places C, all before b, nest as far as they go, and *)
(* st holds those still open.                                              *)
Balance(s, C, b, st) ==
  /\ \A k \in C : Depth(s, C, k) >= 0
  /\ Depth(s, C, b - 1) = Len(st)
  /\ \A o \in C : s[o] \in Openers => Matched(s, C, o, b) \/ OpenAt(s, C, o, b, st)
  /\ \A d \in 1..Len(st) : \E o \in C :
       s[o] \in Openers /\ Depth(s, C, o) = d /\ OpenAt(s, C, o, b, st)

(* Nothing is open before the first character. *)
LEMMA BalanceStart ==
  ASSUME NEW s
  PROVE  Balance(s, {}, 1, <<>>)
<1>1. Depth(s, {}, 0) = 0
  <2>1. {j \in {} : j <= 0 /\ s[j] \in Openers} = {} /\ {j \in {} : j <= 0 /\ s[j] \in Closers} = {}
    OBVIOUS
  <2>2. Cardinality({}) = 0
    BY FS_EmptySet
  <2>3. QED BY <2>1, <2>2 DEF Depth
<1>2. QED BY <1>1 DEF Balance

(* Text that is no code changes nothing. *)
LEMMA BalanceLater ==
  ASSUME NEW s, NEW b \in Nat \ {0}, NEW C, Before(C, b),
         NEW st \in Seq(Openers), Balance(s, C, b, st), NEW e \in Nat, b <= e
  PROVE  Balance(s, C, e, st)
<1> DEFINE d(k) == Depth(s, C, k)
<1>1. \A k \in Nat : d(k) \in Int /\ (k >= b - 1 => d(k) = d(b - 1))
  BY DepthFlat
<1>2. d(b - 1) = Len(st) /\ \A j \in C : j \in Nat
  BY DEF Balance, Before
<1>3. d(e - 1) = Len(st)
  BY <1>1, <1>2
<1>4. ASSUME NEW o \in C, Matched(s, C, o, b) PROVE Matched(s, C, o, e)
  <2>1. PICK c \in C : /\ c > o /\ c < b /\ s[c] = Pair[s[o]] /\ d(c) = d(o) - 1
                       /\ \A k \in o..c - 1 : d(k) >= d(o)
    BY <1>4 DEF Matched
  <2> HIDE DEF d
  <2>2. c \in Nat /\ c < e
    BY <1>2, <2>1
  <2>3. QED BY <2>1, <2>2 DEF Matched, d
<1>5. ASSUME NEW o \in C, OpenAt(s, C, o, b, st) PROVE OpenAt(s, C, o, e, st)
  <2>1. d(o) \in 1..Len(st) /\ st[d(o)] = s[o] /\ \A k \in o..b - 1 : d(k) >= d(o)
    BY <1>5 DEF OpenAt
  <2> HIDE DEF d
  <2>2. ASSUME NEW k \in o..e - 1 PROVE d(k) >= d(o)
    <3>1. o \in Nat /\ k \in Nat
      BY <1>2
    <3>2. CASE k <= b - 1
      BY <2>1, <3>1, <3>2
    <3>3. CASE k >= b - 1
      <4>1. d(k) = Len(st)
        BY <1>1, <1>2, <3>1, <3>3
      <4>2. QED BY <2>1, <4>1
    <3>4. QED BY <3>1, <3>2, <3>3
  <2>3. QED BY <2>1, <2>2 DEF OpenAt, d
<1>6. QED BY <1>3, <1>4, <1>5 DEF Balance

(* A place more does not unmatch an opener. *)
LEMMA MatchedMore ==
  ASSUME NEW s, NEW b \in Nat \ {0}, NEW C, Before(C, b),
         NEW o \in C, Matched(s, C, o, b)
  PROVE  Matched(s, C \cup {b}, o, b + 1)
<1> DEFINE E == C \cup {b}
           d(k) == Depth(s, C, k)
           x(k) == Depth(s, E, k)
<1>1. \A k \in 0..b - 1 : x(k) = d(k)
  BY DepthBelow
<1>2. PICK c \in C : /\ c > o /\ c < b /\ s[c] = Pair[s[o]] /\ d(c) = d(o) - 1
                     /\ \A k \in o..c - 1 : d(k) >= d(o)
  BY DEF Matched
<1> HIDE DEF d, x
<1>3. o \in 1..b - 1 /\ c \in 1..b - 1
  BY DEF Before
<1>4. x(c) = x(o) - 1 /\ \A k \in o..c - 1 : x(k) >= x(o)
  BY <1>1, <1>2, <1>3
<1>5. c \in E /\ c < b + 1
  BY <1>3
<1>6. QED BY <1>2, <1>4, <1>5 DEF Matched, x

(* An opener stays open while the depth stays at least its own. *)
LEMMA OpenMore ==
  ASSUME NEW s, NEW b \in Nat \ {0}, NEW C, Before(C, b),
         NEW st, NEW o \in C, OpenAt(s, C, o, b, st),
         NEW u, Depth(s, C, o) \in 1..Len(u), u[Depth(s, C, o)] = st[Depth(s, C, o)],
         Depth(s, C \cup {b}, b) >= Depth(s, C, o)
  PROVE  OpenAt(s, C \cup {b}, o, b + 1, u)
<1> DEFINE E == C \cup {b}
           d(k) == Depth(s, C, k)
           x(k) == Depth(s, E, k)
<1>1. \A k \in 0..b - 1 : x(k) = d(k)
  BY DepthBelow
<1>2. st[d(o)] = s[o] /\ \A k \in o..b - 1 : d(k) >= d(o)
  BY DEF OpenAt
<1>3. d(o) \in 1..Len(u) /\ u[d(o)] = st[d(o)] /\ x(b) >= d(o)
  OBVIOUS
<1> HIDE DEF d, x
<1>4. o \in 1..b - 1
  BY DEF Before
<1>5. x(o) = d(o)
  BY <1>1, <1>4
<1>6. ASSUME NEW k \in o..b + 1 - 1 PROVE x(k) >= x(o)
  <2>1. CASE k = b
    BY <1>3, <1>5, <2>1
  <2>2. CASE k # b
    BY <1>1, <1>2, <1>4, <1>5, <2>2
  <2>3. QED BY <2>1, <2>2
<1>7. x(o) \in 1..Len(u) /\ u[x(o)] = s[o]
  BY <1>2, <1>3, <1>5
<1>8. \A k \in o..b + 1 - 1 : Depth(s, E, k) >= Depth(s, E, o)
  BY <1>6 DEF x
<1>9. Depth(s, E, o) \in 1..Len(u) /\ u[Depth(s, E, o)] = s[o]
  BY <1>7 DEF x
<1> HIDE DEF E
<1>10. OpenAt(s, E, o, b + 1, u)
  BY <1>8, <1>9 DEF OpenAt
<1>11. QED BY <1>10 DEF E

(* What Balance says, place by place. *)
LEMMA BalanceBefore ==
  ASSUME NEW s, NEW b \in Nat \ {0}, NEW C, Before(C, b), NEW st \in Seq(Openers),
         Balance(s, C, b, st)
  PROVE  /\ \A k \in C : Depth(s, C, k) >= 0 /\ Depth(s, C \cup {b}, k) = Depth(s, C, k)
         /\ Depth(s, C, b - 1) = Len(st) /\ Len(st) \in Nat
         /\ \A o \in C : s[o] \in Openers => Matched(s, C, o, b) \/ OpenAt(s, C, o, b, st)
<1>1. \A k \in C : k \in 0..b - 1
  BY DEF Before
<1>2. \A k \in C : Depth(s, C \cup {b}, k) = Depth(s, C, k)
  BY <1>1, DepthBelow
<1>3. /\ \A k \in C : Depth(s, C, k) >= 0
      /\ Depth(s, C, b - 1) = Len(st)
      /\ \A o \in C : s[o] \in Openers => Matched(s, C, o, b) \/ OpenAt(s, C, o, b, st)
  BY Zenon DEF Balance
<1>4. Len(st) \in Nat
  OBVIOUS
<1>5. QED BY <1>2, <1>3, <1>4

(* What makes an opener open at e. *)
LEMMA OpenIntro ==
  ASSUME NEW s, NEW E, NEW o, NEW e, NEW u,
         Depth(s, E, o) \in 1..Len(u), u[Depth(s, E, o)] = s[o],
         \A k \in o..e - 1 : Depth(s, E, k) >= Depth(s, E, o)
  PROVE  OpenAt(s, E, o, e, u)
BY DEF OpenAt

(* Balance at e, said of the place b before it. *)
LEMMA BalanceIntro ==
  ASSUME NEW s, NEW b, NEW E, NEW u, NEW e, e - 1 = b,
         \A k \in E : Depth(s, E, k) >= 0,
         Depth(s, E, b) = Len(u),
         \A o \in E : s[o] \in Openers => Matched(s, E, o, e) \/ OpenAt(s, E, o, e, u),
         \A j \in 1..Len(u) : \E o \in E :
           s[o] \in Openers /\ Depth(s, E, o) = j /\ OpenAt(s, E, o, e, u)
  PROVE  Balance(s, E, e, u)
BY DEF Balance

(* An opener goes on the stack. *)
LEMMA BalancePush ==
  ASSUME NEW s, NEW b \in Nat \ {0}, NEW C, Before(C, b),
         NEW st \in Seq(Openers), Balance(s, C, b, st), s[b] \in Openers
  PROVE  Balance(s, C \cup {b}, b + 1, Append(st, s[b]))
<1> DEFINE E == C \cup {b}
           n == Len(st)
           u == Append(st, s[b])
           d(k) == Depth(s, C, k)
           x(k) == Depth(s, E, k)
<1>1. /\ \A k \in C : d(k) >= 0 /\ x(k) = d(k)
      /\ d(b - 1) = n /\ n \in Nat
      /\ \A o \in C : s[o] \in Openers => Matched(s, C, o, b) \/ OpenAt(s, C, o, b, st)
  BY BalanceBefore
<1>2. x(b) = n + 1
  BY <1>1, DepthStep
<1>3. Len(u) = n + 1 /\ u[n + 1] = s[b] /\ \A j \in 1..n : u[j] = st[j]
  OBVIOUS
<1>4. ASSUME NEW o \in C, OpenAt(s, C, o, b, st) PROVE OpenAt(s, E, o, b + 1, u)
  <2>1. d(o) \in 1..n
    BY <1>4 DEF OpenAt
  <2>2. d(o) \in 1..Len(u) /\ u[d(o)] = st[d(o)] /\ x(b) >= d(o)
    BY <1>1, <1>2, <1>3, <2>1
  <2>3. QED BY <1>4, <2>2, OpenMore
<1>5. OpenAt(s, E, b, b + 1, u)
  <2>1. x(b) \in 1..Len(u) /\ u[x(b)] = s[b] /\ x(b) >= x(b)
    BY <1>1, <1>2, <1>3
  <2>2. \A k \in b..b + 1 - 1 : k = b
    OBVIOUS
  <2> HIDE DEF u, E
  <2>3. \A k \in b..b + 1 - 1 : x(k) >= x(b)
    BY <2>1, <2>2, Zenon
  <2>4. QED BY <2>1, <2>3, OpenIntro
<1>6. \A o \in E : s[o] \in Openers => Matched(s, E, o, b + 1) \/ OpenAt(s, E, o, b + 1, u)
  BY <1>1, <1>4, <1>5, MatchedMore
<1>7. ASSUME NEW j \in 1..Len(u)
      PROVE  \E o \in E : s[o] \in Openers /\ x(o) = j /\ OpenAt(s, E, o, b + 1, u)
  <2>1. CASE j = n + 1
    BY <1>2, <1>5, <2>1
  <2>2. CASE j # n + 1
    <3>1. j \in 1..n
      BY <1>1, <1>3, <2>2
    <3>2. PICK o \in C : s[o] \in Openers /\ d(o) = j /\ OpenAt(s, C, o, b, st)
      BY <3>1 DEF Balance
    <3>3. QED BY <1>1, <1>4, <3>2
  <2>3. QED BY <2>1, <2>2
<1>8. x(b) >= 0 /\ x(b) = Len(u)
  BY <1>1, <1>2, <1>3
<1>9. \A k \in E : x(k) >= 0
  BY <1>1, <1>8, Zenon
<1> HIDE DEF u, E
<1>10. Balance(s, E, b + 1, u)
  BY <1>6, <1>7, <1>8, <1>9, b + 1 - 1 = b, BalanceIntro
<1>11. QED BY <1>10 DEF u, E

(* A closer of the bracket on top of the stack takes it off. *)
LEMMA BalancePop ==
  ASSUME NEW s, NEW b \in Nat \ {0}, NEW C, Before(C, b),
         NEW st \in Seq(Openers), Balance(s, C, b, st),
         st # <<>>, s[b] \in Closers, s[b] = Pair[st[Len(st)]]
  PROVE  Balance(s, C \cup {b}, b + 1, SubSeq(st, 1, Len(st) - 1))
<1> DEFINE E == C \cup {b}
           n == Len(st)
           u == SubSeq(st, 1, n - 1)
           d(k) == Depth(s, C, k)
           x(k) == Depth(s, E, k)
<1>1. /\ \A k \in C : d(k) >= 0 /\ x(k) = d(k)
      /\ d(b - 1) = n /\ n \in Nat
      /\ \A o \in C : s[o] \in Openers => Matched(s, C, o, b) \/ OpenAt(s, C, o, b, st)
  BY BalanceBefore
<1>2. n >= 1
  BY <1>1
<1>3. x(b) = n - 1
  BY <1>1, DepthStep
<1>4. Len(u) = n - 1 /\ \A j \in 1..n - 1 : u[j] = st[j]
  BY <1>1, <1>2
<1>5. ASSUME NEW o \in C, OpenAt(s, C, o, b, st), d(o) # n PROVE OpenAt(s, E, o, b + 1, u)
  <2>1. d(o) \in 1..n
    BY <1>5 DEF OpenAt
  <2>2. d(o) \in 1..Len(u) /\ u[d(o)] = st[d(o)] /\ x(b) >= d(o)
    BY <1>1, <1>3, <1>4, <1>5, <2>1
  <2>3. QED BY <1>5, <2>2, OpenMore
<1>6. ASSUME NEW o \in C, OpenAt(s, C, o, b, st), d(o) = n PROVE Matched(s, E, o, b + 1)
  <2>1. st[n] = s[o] /\ \A k \in o..b - 1 : d(k) >= n
    BY <1>6 DEF OpenAt
  <2>2. o \in 1..b - 1
    BY DEF Before
  <2>3. \A k \in 0..b - 1 : x(k) = d(k)
    BY DepthBelow
  <2> HIDE DEF d, x
  <2>4. \A k \in o..b - 1 : x(k) >= x(o)
    BY <1>6, <2>1, <2>2, <2>3
  <2>5. b > o /\ b < b + 1 /\ s[b] = Pair[s[o]] /\ x(b) = x(o) - 1 /\ b \in E
    BY <1>3, <1>6, <2>1, <2>2, <2>3
  <2>6. QED BY <2>4, <2>5 DEF Matched, x
<1>7. s[b] \notin Openers
  BY BracketChar
<1>8. \A o \in E : s[o] \in Openers => Matched(s, E, o, b + 1) \/ OpenAt(s, E, o, b + 1, u)
  BY <1>1, <1>5, <1>6, <1>7, MatchedMore
<1>9. ASSUME NEW j \in 1..Len(u)
      PROVE  \E o \in E : s[o] \in Openers /\ x(o) = j /\ OpenAt(s, E, o, b + 1, u)
  <2>1. j \in 1..n /\ j # n
    BY <1>1, <1>4
  <2>2. PICK o \in C : s[o] \in Openers /\ d(o) = j /\ OpenAt(s, C, o, b, st)
    BY <2>1 DEF Balance
  <2>3. QED BY <1>1, <1>5, <2>1, <2>2
<1>10. x(b) >= 0 /\ x(b) = Len(u)
  BY <1>1, <1>2, <1>3, <1>4
<1>11. \A k \in E : x(k) >= 0
  BY <1>1, <1>10, Zenon
<1> HIDE DEF u, E
<1>12. Balance(s, E, b + 1, u)
  BY <1>8, <1>9, <1>10, <1>11, b + 1 - 1 = b, BalanceIntro
<1>13. QED BY <1>12 DEF u, E

(* Code that is no bracket changes nothing. *)
LEMMA BalanceOther ==
  ASSUME NEW s, NEW b \in Nat \ {0}, NEW C, Before(C, b),
         NEW st \in Seq(Openers), Balance(s, C, b, st), s[b] \notin Openers \cup Closers
  PROVE  Balance(s, C \cup {b}, b + 1, st)
<1> DEFINE E == C \cup {b}
           n == Len(st)
           d(k) == Depth(s, C, k)
           x(k) == Depth(s, E, k)
<1>1. /\ \A k \in C : d(k) >= 0 /\ x(k) = d(k)
      /\ d(b - 1) = n /\ n \in Nat
      /\ \A o \in C : s[o] \in Openers => Matched(s, C, o, b) \/ OpenAt(s, C, o, b, st)
  BY BalanceBefore
<1>2. x(b) = n
  BY <1>1, DepthStep
<1>3. ASSUME NEW o \in C, OpenAt(s, C, o, b, st) PROVE OpenAt(s, E, o, b + 1, st)
  <2>1. d(o) \in 1..n
    BY <1>3 DEF OpenAt
  <2>2. x(b) >= d(o)
    BY <1>1, <1>2, <2>1
  <2>3. QED BY <1>3, <2>1, <2>2, OpenMore
<1>4. \A o \in E : s[o] \in Openers => Matched(s, E, o, b + 1) \/ OpenAt(s, E, o, b + 1, st)
  BY <1>1, <1>3, MatchedMore
<1>5. ASSUME NEW j \in 1..n
      PROVE  \E o \in E : s[o] \in Openers /\ x(o) = j /\ OpenAt(s, E, o, b + 1, st)
  <2>1. PICK o \in C : s[o] \in Openers /\ d(o) = j /\ OpenAt(s, C, o, b, st)
    BY DEF Balance
  <2>2. QED BY <1>1, <1>3, <2>1
<1>6. x(b) >= 0 /\ x(b) = Len(st)
  BY <1>1, <1>2
<1>7. \A k \in E : x(k) >= 0
  BY <1>1, <1>6, Zenon
<1> HIDE DEF E
<1>8. Balance(s, E, b + 1, st)
  BY <1>4, <1>5, <1>6, <1>7, b + 1 - 1 = b, BalanceIntro
<1>9. QED BY <1>8 DEF E

(* With nothing left open the brackets nest. *)
LEMMA BalanceNests ==
  ASSUME NEW s \in Text, NEW C, Before(C, Len(s) + 1), Balance(s, C, Len(s) + 1, <<>>)
  PROVE  Nest(s, C)
<1>1. Len(s) + 1 - 1 = Len(s) /\ Len(<<>>) = 0
  BY DEF Text
<1>2. Depth(s, C, Len(s)) = 0 /\ \A k \in C : Depth(s, C, k) >= 0
  BY <1>1 DEF Balance
<1>3. ASSUME NEW o \in C, s[o] \in Openers PROVE Matched(s, C, o, Len(s) + 1)
  <2>1. Matched(s, C, o, Len(s) + 1) \/ OpenAt(s, C, o, Len(s) + 1, <<>>)
    BY <1>3 DEF Balance
  <2>2. ~OpenAt(s, C, o, Len(s) + 1, <<>>)
    BY <1>1 DEF OpenAt
  <2>3. QED BY <2>1, <2>2
<1>4. QED BY <1>2, <1>3 DEF Nest, Matched

(* With something left open they do not. *)
LEMMA BalanceOpen ==
  ASSUME NEW s \in Text, NEW C, NEW st \in Seq(Openers), st # <<>>,
         Balance(s, C, Len(s) + 1, st)
  PROVE  ~Nest(s, C)
<1>1. Len(s) + 1 - 1 = Len(s) /\ Len(st) # 0
  BY DEF Text
<1>2. Depth(s, C, Len(s)) # 0
  BY <1>1 DEF Balance
<1>3. QED BY <1>2 DEF Nest

(* Nor do they with a closer that does not match the top of the stack,     *)
(* whatever follows it.                                                    *)
LEMMA BalanceMismatch ==
  ASSUME NEW s, NEW b \in Nat \ {0}, NEW C, Before(C, b), NEW st \in Seq(Openers),
         Balance(s, C, b, st), s[b] \in Closers,
         st = <<>> \/ Pair[st[Len(st)]] # s[b],
         NEW D, D \subseteq Nat \ {0}, D \cap 1..b = C \cup {b}
  PROVE  ~Nest(s, D)
<1> DEFINE E == C \cup {b}
           n == Len(st)
           d(k) == Depth(s, C, k)
           x(k) == Depth(s, D, k)
<1>1. Begins(D, b + 1, E) /\ b + 1 \in Nat /\ b \in D /\ b \in Nat
  <2>1. b + 1 - 1 = b
    OBVIOUS
  <2>2. QED BY <2>1 DEF Begins
<1>2. \A k \in Nat : k < b + 1 => x(k) = Depth(s, E, k)
  BY <1>1, DepthPrefix
<1>3. \A k \in 0..b - 1 : Depth(s, E, k) = d(k)
  BY DepthBelow
<1>4. d(b - 1) = n /\ n \in Nat
  BY BalanceBefore
<1>5. Depth(s, E, b) = n - 1
  BY <1>4, DepthStep
<1>6. x(b) = n - 1
  <2>1. b < b + 1
    OBVIOUS
  <2>2. QED BY <1>1, <1>2, <1>5, <2>1, Zenon
<1>7. \A k \in 0..b - 1 : x(k) = d(k)
  <2>1. \A k \in 0..b - 1 : k \in Nat /\ k < b + 1
    OBVIOUS
  <2>2. QED BY <1>2, <1>3, <2>1, Zenon
<1>8. CASE st = <<>>
  <2>1. ~ (x(b) >= 0)
    BY <1>6, <1>8
  <2>2. QED BY <1>1, <2>1 DEF Nest
<1>9. CASE st # <<>> /\ Pair[st[n]] # s[b]
  <2>1. n \in 1..n
    BY <1>4, <1>9
  <2>2. PICK o \in C : s[o] \in Openers /\ d(o) = n /\ OpenAt(s, C, o, b, st)
    BY <2>1 DEF Balance
  <2>3. st[n] = s[o] /\ \A k \in o..b - 1 : d(k) >= n
    BY <2>2 DEF OpenAt
  <2>4. o \in 1..b - 1 /\ o \in D
    BY DEF Before
  <2> SUFFICES ASSUME Nest(s, D) PROVE FALSE
    OBVIOUS
  <2>5. PICK c \in D : /\ c > o /\ s[c] = Pair[s[o]] /\ x(c) = x(o) - 1
                       /\ \A k \in o..c - 1 : x(k) >= x(o)
    BY <2>2, <2>4 DEF Nest
  <2> HIDE DEF d, x
  <2>6. c \in Nat /\ x(o) = n
    BY <1>7, <2>2, <2>4
  <2>7. CASE c < b
    <3>1. c \in o..b - 1 /\ c \in 0..b - 1
      BY <2>4, <2>5, <2>6, <2>7
    <3>2. d(c) >= n /\ d(c) = n - 1
      BY <1>7, <2>3, <2>5, <2>6, <3>1
    <3>3. QED BY <1>4, <3>2
  <2>8. CASE c = b
    BY <1>9, <2>3, <2>5, <2>8
  <2>9. CASE c > b
    <3>1. b \in o..c - 1
      BY <2>4, <2>6, <2>9
    <3>2. x(b) >= n
      BY <2>5, <2>6, <3>1
    <3>3. QED BY <1>4, <1>6, <3>2
  <2>10. QED BY <2>6, <2>7, <2>8, <2>9
<1>10. QED BY <1>8, <1>9

-----------------------------------------------------------------------------
(* The scanner. *)

CodeOf(s, T) == {a \in T : CodeToken(s, a)}

(* The text before t divides at T, in no other way that lasts, and st is   *)
(* what its brackets leave open.                                           *)
Scanned(s, T, t, st) ==
  /\ Chain(s, T, t) /\ Forced(s, T, t)
  /\ Balance(s, CodeOf(s, T), t, st)

(* The token at t is not over before j, with the flags m and e.            *)
Inside(s, t, j, m, e) ==
  \/ m = "code" /\ t = j
  \/ /\ m \in Quotes /\ t < j /\ s[t] = m /\ (e <=> Escaped(s, t + 1, j))
     /\ \A k \in t + 1..j - 1 : s[k] = m => Escaped(s, t + 1, k)
  \/ /\ m = "line" /\ t + 2 <= j /\ Marks(s, t, "/", "/")
     /\ \A k \in t..j - 1 : s[k] # "newline"
  \/ /\ m = "block" /\ t + 2 <= j /\ Marks(s, t, "/", "*")
     /\ \A k \in t + 2..j - 1 : ~Marks(s, k, "*", "/")

(* The case of a string. *)
LEMMA InsideString ==
  ASSUME NEW s, NEW t, NEW j, NEW m \in Quotes, NEW e, t < j, s[t] = m,
         e <=> Escaped(s, t + 1, j),
         \A k \in t + 1..j - 1 : s[k] = m => Escaped(s, t + 1, k)
  PROVE  Inside(s, t, j, m, e)
BY DEF Inside

(* The cases of the comments. *)
LEMMA InsideComment ==
  ASSUME NEW s, NEW t, NEW j, NEW e, t + 2 <= j
  PROVE  /\ Marks(s, t, "/", "/") /\ (\A k \in t..j - 1 : s[k] # "newline")
              => Inside(s, t, j, "line", e)
         /\ Marks(s, t, "/", "*") /\ (\A k \in t + 2..j - 1 : ~Marks(s, k, "*", "/"))
              => Inside(s, t, j, "block", e)
BY DEF Inside

ScanInv ==
  verdict = "scanning" =>
    \E t \in 1..i : \E T \in SUBSET (1..t - 1) :
      Scanned(source, T, t, stack) /\ Inside(source, t, i, mode, escape)

(* The code of a division before b is before b. *)
LEMMA CodeBefore ==
  ASSUME NEW s, NEW T, NEW t, Chain(s, T, t)
  PROVE  Before(CodeOf(s, T), t)
BY DEF Before, CodeOf, Chain

(* One token more that is no code. *)
LEMMA TakeToken ==
  ASSUME NEW s \in Text, NEW t \in 1..Len(s), NEW T, NEW st \in Seq(Openers),
         Scanned(s, T, t, st), NEW e \in t..Len(s), Token(s, t, e), ~CodeToken(s, t),
         \A x \in t..Len(s) : Token(s, t, x) => x = e
  PROVE  Scanned(s, T \cup {t}, e + 1, st)
<1>1. e \in Nat /\ t \in Nat \ {0} /\ t <= e /\ e + 1 \in Nat /\ t <= e + 1
  BY DEF Text
<1>2. Chain(s, T \cup {t}, e + 1)
  BY <1>1, ChainToken DEF Scanned
<1>3. Forced(s, T \cup {t}, e + 1)
  BY ForcedToken DEF Scanned
<1>4. CodeOf(s, T \cup {t}) = CodeOf(s, T)
  BY DEF CodeOf
<1>5. Balance(s, CodeOf(s, T), e + 1, st)
  BY <1>1, BalanceLater, CodeBefore DEF Scanned
<1>6. QED BY <1>2, <1>3, <1>4, <1>5 DEF Scanned

(* One character of code more. *)
LEMMA TakeCode ==
  ASSUME NEW s \in Text, NEW t \in 1..Len(s), NEW T, NEW st,
         Scanned(s, T, t, st), CodeToken(s, t),
         NEW u, Balance(s, CodeOf(s, T) \cup {t}, t + 1, u)
  PROVE  Scanned(s, T \cup {t}, t + 1, u)
<1>1. t \in Nat \ {0} /\ t \in Nat /\ t <= t /\ t \in t..Len(s)
  BY DEF Text
<1>2. Token(s, t, t) /\ \A x \in t..Len(s) : Token(s, t, x) => x = t
  BY CodeOnly DEF Token
<1>3. Chain(s, T \cup {t}, t + 1)
  BY <1>1, <1>2, ChainToken DEF Scanned
<1>4. Forced(s, T \cup {t}, t + 1)
  BY <1>1, <1>2, ForcedToken DEF Scanned
<1>5. CodeOf(s, T \cup {t}) = CodeOf(s, T) \cup {t}
  BY DEF CodeOf
<1>6. QED BY <1>3, <1>4, <1>5 DEF Scanned

(* The string at t ends at the first quote that is not escaped. *)
LEMMA StringEnds ==
  ASSUME NEW s \in Text, NEW t \in 1..Len(s), NEW j \in 1..Len(s), t < j,
         s[t] \in Quotes, s[j] = s[t], ~Escaped(s, t + 1, j),
         \A k \in t + 1..j - 1 : s[k] = s[t] => Escaped(s, t + 1, k)
  PROVE  Token(s, t, j) /\ \A x \in t..Len(s) : Token(s, t, x) => x = j
<1>1. Token(s, t, j)
  BY DEF Token, StringToken
<1>2. ASSUME NEW x \in t..Len(s), Token(s, t, x) PROVE x = j
  <2>1. /\ x > t /\ s[x] = s[t] /\ ~Escaped(s, t + 1, x)
        /\ \A k \in t + 1..x - 1 : s[k] = s[t] => Escaped(s, t + 1, k)
    BY <1>2, StringOnly DEF StringToken
  <2>2. t \in Nat /\ x \in Nat /\ j \in Nat
    BY DEF Text
  <2>3. x < j => x \in t + 1..j - 1
    BY <2>1, <2>2
  <2>4. j < x => j \in t + 1..x - 1
    BY <2>2
  <2>5. QED BY <2>1, <2>2, <2>3, <2>4
<1>3. QED BY <1>1, <1>2

(* The comment at t ends before the line does. *)
LEMMA LineEnds ==
  ASSUME NEW s \in Text, NEW t \in 1..Len(s), NEW j \in 1..Len(s) + 1, t + 2 <= j,
         Marks(s, t, "/", "/"), \A k \in t..j - 1 : s[k] # "newline",
         j = Len(s) + 1 \/ s[j] = "newline"
  PROVE  Token(s, t, j - 1) /\ \A x \in t..Len(s) : Token(s, t, x) => x = j - 1
<1>1. t \in Nat /\ j \in Nat /\ Len(s) \in Nat /\ j - 1 \in Nat /\ j - 1 + 1 = j
  BY DEF Text
<1>2. Token(s, t, j - 1)
  <2>1. j - 1 > t /\ (j - 1 = Len(s) \/ s[j - 1 + 1] = "newline")
    BY <1>1
  <2>2. LineComment(s, t, j - 1)
    BY <2>1 DEF LineComment
  <2>3. QED BY <2>2 DEF Token
<1>3. ASSUME NEW x \in t..Len(s), Token(s, t, x) PROVE x = j - 1
  <2>1. /\ \A k \in t..x : s[k] # "newline"
        /\ x = Len(s) \/ s[x + 1] = "newline"
    BY <1>3, CommentOnly DEF LineComment
  <2>2. x \in Nat
    BY <1>1
  <2>3. x < j
    <3>1. CASE j <= x
      <4>1. j \in t..x /\ j # Len(s) + 1
        BY <1>1, <2>2, <3>1
      <4>2. QED BY <2>1, <4>1
    <3>2. QED BY <1>1, <2>2, <3>1
  <2>4. ~ (x < j - 1)
    <3>1. CASE x < j - 1
      <4>1. x + 1 \in t..j - 1 /\ x # Len(s)
        BY <1>1, <2>2, <3>1
      <4>2. QED BY <2>1, <4>1
    <3>2. QED BY <3>1
  <2>5. QED BY <1>1, <2>2, <2>3, <2>4
<1>4. QED BY <1>2, <1>3

(* The comment at t ends with its first closing mark. *)
LEMMA BlockEnds ==
  ASSUME NEW s \in Text, NEW t \in 1..Len(s), NEW j \in 1..Len(s), t + 2 <= j,
         Marks(s, t, "/", "*"), Marks(s, j, "*", "/"),
         \A k \in t + 2..j - 1 : ~Marks(s, k, "*", "/")
  PROVE  /\ j + 1 \in t..Len(s) /\ Token(s, t, j + 1)
         /\ \A x \in t..Len(s) : Token(s, t, x) => x = j + 1
<1>1. /\ t \in Nat /\ j \in Nat /\ Len(s) \in Nat /\ j < Len(s)
      /\ j + 1 - 1 = j /\ j + 1 - 2 = j - 1 /\ j + 1 >= t + 3
  BY DEF Text, Marks
<1>2. Token(s, t, j + 1)
  <2>1. BlockComment(s, t, j + 1)
    BY <1>1 DEF BlockComment
  <2>2. QED BY <2>1 DEF Token
<1>3. ASSUME NEW x \in t..Len(s), Token(s, t, x) PROVE x = j + 1
  <2>1. /\ x >= t + 3 /\ Marks(s, x - 1, "*", "/")
        /\ \A k \in t + 2..x - 2 : ~Marks(s, k, "*", "/")
    BY <1>3, CommentOnly DEF BlockComment
  <2>2. x \in Nat
    BY <1>1
  <2>3. ~ (x - 1 < j)
    <3>1. CASE x - 1 < j
      <4>1. x - 1 \in t + 2..j - 1
        BY <1>1, <2>1, <2>2, <3>1
      <4>2. QED BY <2>1, <4>1
    <3>2. QED BY <3>1
  <2>4. ~ (j < x - 1)
    <3>1. CASE j < x - 1
      <4>1. j \in t + 2..x - 2
        BY <1>1, <2>2, <3>1
      <4>2. QED BY <2>1, <4>1
    <3>2. QED BY <3>1
  <2>5. QED BY <1>1, <2>2, <2>3, <2>4
<1>4. QED BY <1>1, <1>2, <1>3

(* A string or a block comment that is open at the end of the text is no   *)
(* token.                                                                  *)
LEMMA OpenEnd ==
  ASSUME NEW s \in Text, NEW t \in 1..Len(s), NEW m \in Quotes \cup {"block"}, NEW e,
         Inside(s, t, Len(s) + 1, m, e), NEW x \in t..Len(s)
  PROVE  ~Token(s, t, x)
<1>1. t \in Nat /\ Len(s) \in Nat /\ x \in Nat
  BY DEF Text
<1> SUFFICES ASSUME Token(s, t, x) PROVE FALSE
  OBVIOUS
<1>2. CASE m \in Quotes
  <2>1. /\ s[t] = m
        /\ \A k \in t + 1..Len(s) + 1 - 1 : s[k] = m => Escaped(s, t + 1, k)
    BY <1>2 DEF Inside, Quotes
  <2>2. x > t /\ s[x] = s[t] /\ ~Escaped(s, t + 1, x)
    BY <1>2, <2>1, StringOnly DEF StringToken
  <2>3. x \in t + 1..Len(s) + 1 - 1
    BY <1>1, <2>2
  <2>4. QED BY <2>1, <2>2, <2>3
<1>3. CASE m = "block"
  <2>1. /\ Marks(s, t, "/", "*")
        /\ \A k \in t + 2..Len(s) + 1 - 1 : ~Marks(s, k, "*", "/")
    BY <1>3 DEF Inside, Quotes
  <2>2. x >= t + 3 /\ Marks(s, x - 1, "*", "/")
    BY <2>1, CommentOnly DEF BlockComment
  <2>3. x - 1 \in t + 2..Len(s) + 1 - 1
    BY <1>1, <2>2
  <2>4. QED BY <2>1, <2>2, <2>3
<1>4. QED BY <1>2, <1>3

(* A division of the text is one the scanner has followed so far. *)
LEMMA DivisionForced ==
  ASSUME NEW s \in Text, NEW T, NEW t \in Nat, NEW st, Scanned(s, T, t, st),
         NEW B \in SUBSET DOMAIN s, Division(s, B)
  PROVE  /\ Chain(s, B, Len(s) + 1)
         /\ B \cap 1..t - 1 = T /\ t \in B \cup {Len(s) + 1}
BY DivisionChain DEF Scanned, Forced

(* There is none without a token at t. *)
LEMMA NoToken ==
  ASSUME NEW s \in Text, NEW T, NEW t \in 1..Len(s), NEW st, Scanned(s, T, t, st),
         \A x \in t..Len(s) : ~Token(s, t, x)
  PROVE  ~WellFormed(s)
<1> SUFFICES ASSUME NEW B \in SUBSET DOMAIN s, Division(s, B) PROVE FALSE
  BY DEF WellFormed
<1>1. t \in Nat /\ t # Len(s) + 1 /\ Len(s) + 1 - 1 = Len(s)
  BY DEF Text
<1>2. Chain(s, B, Len(s) + 1) /\ t \in B
  BY <1>1, DivisionForced
<1>3. \E x \in t..Len(s) + 1 - 1 : Token(s, t, x)
  BY <1>2 DEF Chain
<1>4. QED BY <1>1, <1>3

(* Nor when its code has a closer that does not match. *)
LEMMA NoMatch ==
  ASSUME NEW s \in Text, NEW T, NEW b \in 1..Len(s), NEW st \in Seq(Openers),
         Scanned(s, T, b, st), s[b] \in Closers,
         st = <<>> \/ Pair[st[Len(st)]] # s[b]
  PROVE  ~WellFormed(s)
<1> SUFFICES ASSUME NEW B \in SUBSET DOMAIN s, Division(s, B) PROVE ~Nest(s, CodeOf(s, B))
  BY DEF WellFormed, CodeOf
<1>1. b \in Nat /\ b \in Nat \ {0} /\ b # Len(s) + 1 /\ Len(s) \in Nat
  BY DEF Text
<1>2. B \cap 1..b - 1 = T /\ b \in B
  BY <1>1, DivisionForced
<1>3. CodeToken(s, b)
  BY BracketChar DEF CodeToken, Marks
<1>4. B \subseteq Nat \ {0} /\ DOMAIN s = 1..Len(s)
  BY DEF Text
<1> DEFINE C == CodeOf(s, T)
           D == CodeOf(s, B)
<1>5. D \subseteq Nat \ {0}
  BY <1>4 DEF CodeOf
<1>6. ASSUME NEW k PROVE k \in D \cap 1..b <=> k \in C \cup {b}
  <2>1. k \in 1..b <=> k \in 1..b - 1 \/ k = b
    BY <1>1
  <2>2. k \in T <=> k \in B /\ k \in 1..b - 1
    BY <1>2
  <2>3. QED BY <1>2, <1>3, <2>1, <2>2 DEF CodeOf
<1>7. D \cap 1..b = C \cup {b}
  BY <1>6
<1>8. Balance(s, C, b, st) /\ Before(C, b)
  BY CodeBefore DEF Scanned
<1> HIDE DEF C, D
<1>9. ~Nest(s, D)
  BY <1>1, <1>5, <1>7, <1>8, BalanceMismatch
<1>10. QED BY <1>9 DEF D

(* What is scanned to the end is the only division, and the stack tells    *)
(* whether its code nests.                                                 *)
LEMMA ScannedAll ==
  ASSUME NEW s \in Text, NEW T, NEW st \in Seq(Openers), Scanned(s, T, Len(s) + 1, st)
  PROVE  WellFormed(s) <=> st = <<>>
<1> DEFINE n == Len(s)
<1>1. n \in Nat /\ n + 1 \in Nat /\ n + 1 - 1 = n /\ DOMAIN s = 1..n
  BY DEF Text
<1>2. Chain(s, T, n + 1) /\ T \in SUBSET DOMAIN s
  BY <1>1 DEF Scanned, Chain
<1>3. ASSUME st = <<>> PROVE WellFormed(s)
  <2>1. Division(s, T)
    BY <1>2, DivisionChain
  <2>2. Before(CodeOf(s, T), n + 1)
    BY <1>2, CodeBefore
  <2>3. Nest(s, CodeOf(s, T))
    BY <1>3, <2>2, BalanceNests DEF Scanned
  <2>4. QED BY <1>2, <2>1, <2>3 DEF WellFormed, CodeOf
<1>4. ASSUME st # <<>>, NEW B \in SUBSET DOMAIN s, Division(s, B)
      PROVE  ~Nest(s, CodeOf(s, B))
  <2>1. B \cap 1..n + 1 - 1 = T
    BY <1>1, <1>4, DivisionForced
  <2>2. B = T
    BY <1>1, <2>1
  <2>3. QED BY <1>4, <2>2, BalanceOpen DEF Scanned
<1>5. QED BY <1>3, <1>4 DEF WellFormed, CodeOf

-----------------------------------------------------------------------------
(* The steps. *)

(* What ScanInv needs after a step. *)
LEMMA ScanNext ==
  ASSUME NEW t \in 1..i', NEW T, Scanned(source', T, t, stack'),
         Inside(source', t, i', mode', escape')
  PROVE  ScanInv'
<1>1. T \in SUBSET (1..t - 1)
  BY DEF Scanned, Chain
<1>2. QED BY <1>1 DEF ScanInv

(* The start has scanned nothing. *)
LEMMA ScanInit == Init => ScanInv
<1> SUFFICES ASSUME Init PROVE ScanInv
  OBVIOUS
<1>1. i = 1 /\ mode = "code" /\ stack = <<>>
  BY DEF Init
<1>2. Chain(source, {}, 1)
  BY DEF Chain
<1>3. Forced(source, {}, 1)
  <2>1. ASSUME NEW B \in SUBSET DOMAIN source, Chain(source, B, Len(source) + 1)
        PROVE  B \cap 1..1 - 1 = {} /\ 1 \in B \cup {Len(source) + 1}
    BY <2>1 DEF Chain
  <2>2. QED BY <2>1 DEF Forced
<1>4. CodeOf(source, {}) = {}
  BY DEF CodeOf
<1>5. Scanned(source, {}, 1, stack)
  BY <1>1, <1>2, <1>3, <1>4, BalanceStart DEF Scanned
<1>6. Inside(source, 1, i, mode, escape)
  BY <1>1 DEF Inside
<1>7. QED BY <1>1, <1>5, <1>6 DEF ScanInv

(* Where the scanner is, while it scans. *)
LEMMA Here ==
  ASSUME TypeOK, ScanInv, verdict = "scanning"
  PROVE  /\ source \in Text /\ i \in 1..Len(source) + 1 /\ Len(source) \in Nat
         /\ stack \in Seq(Openers)
         /\ \E t \in 1..i : \E T :
              Scanned(source, T, t, stack) /\ Inside(source, t, i, mode, escape)
BY DEF TypeOK, ScanInv, Text

(* A step within a token: the token goes on. *)
LEMMA Within ==
  ASSUME NEW t \in 1..i, NEW T, i \in Nat, Scanned(source, T, t, stack),
         source' = source, stack' = stack, i' \in Nat, i <= i',
         Inside(source, t, i', mode', escape')
  PROVE  ScanInv'
<1>1. t \in 1..i'
  OBVIOUS
<1>2. Scanned(source', T, t, stack') /\ Inside(source', t, i', mode', escape')
  OBVIOUS
<1>3. QED BY <1>1, <1>2, ScanNext

(* In a string. *)
LEMMA StringStep ==
  ASSUME TypeOK, ScanInv, verdict = "scanning", i <= Len(source), InString
  PROVE  ScanInv'
<1>0. PICK t \in 1..i :
        \E T : Scanned(source, T, t, stack) /\ Inside(source, t, i, mode, escape)
  BY Here
<1>1. PICK T : Scanned(source, T, t, stack) /\ Inside(source, t, i, mode, escape)
  BY <1>0
<1>2. /\ source \in Text /\ i \in 1..Len(source) /\ i \in Nat /\ Len(source) \in Nat
      /\ stack \in Seq(Openers) /\ t \in Nat /\ t \in 1..Len(source)
  BY Here
<1>3. mode \in Quotes /\ mode # "code" /\ mode # "line" /\ mode # "block" /\ mode # "backslash"
  BY DEF InString, Quotes
<1>4. /\ t < i /\ source[t] = mode /\ (escape <=> Escaped(source, t + 1, i))
      /\ \A k \in t + 1..i - 1 : source[k] = mode => Escaped(source, t + 1, k)
  BY <1>1, <1>3 DEF Inside
<1>5. Width = 1
  BY <1>3, Widths DEF Wide
<1>6. Escaped(source, t + 1, i + 1) <=> ch = "backslash" /\ ~escape
  <2>1. t + 1 \in Nat /\ t + 1 <= i
    BY <1>2, <1>4
  <2> DEFINE a == t + 1
  <2> HIDE DEF a
  <2>2. Escaped(source, a, i + 1) <=> source[i] = "backslash" /\ ~Escaped(source, a, i)
    BY <1>2, <2>1, EscapedStep DEF a
  <2>3. QED BY <1>4, <2>2 DEF ch, a
<1>7. ASSUME NEW e \in BOOLEAN, Go(mode, e, stack), e <=> ch = "backslash" /\ ~escape,
             ch = mode => escape
      PROVE  ScanInv'
  <2>1. i' = i + 1 /\ mode' = mode /\ escape' = e /\ stack' = stack /\ source' = source
    BY <1>5, <1>7 DEF Go
  <2> DEFINE j == i + 1
  <2>2. \A k \in t + 1..j - 1 : k \in t + 1..i - 1 \/ k = i
    BY <1>2
  <2>3. (e <=> Escaped(source, t + 1, j)) /\ t < j
    BY <1>2, <1>4, <1>6, <1>7
  <2> HIDE DEF j
  <2>4. \A k \in t + 1..j - 1 : source[k] = mode => Escaped(source, t + 1, k)
    BY <1>4, <1>7, <2>2 DEF ch
  <2>5. Inside(source, t, j, mode, e)
    BY <1>3, <1>4, <2>3, <2>4, InsideString
  <2>6. Inside(source, t, i', mode', escape') /\ i' \in Nat /\ i <= i'
    BY <1>2, <2>1, <2>5 DEF j
  <2>7. QED BY <1>1, <1>2, <2>1, <2>6, Within
<1>8. CASE ~escape /\ ch = mode
  <2>1. Go("code", escape, stack)
    BY <1>3, <1>8 DEF InString
  <2>2. i' = i + 1 /\ mode' = "code" /\ stack' = stack /\ source' = source
    BY <1>5, <2>1 DEF Go
  <2>3. source[t] \in Quotes /\ source[i] = source[t] /\ ~Escaped(source, t + 1, i)
        /\ \A k \in t + 1..i - 1 : source[k] = source[t] => Escaped(source, t + 1, k)
    BY <1>3, <1>4, <1>8 DEF ch
  <2>4. Token(source, t, i) /\ \A x \in t..Len(source) : Token(source, t, x) => x = i
    BY <1>2, <1>4, <2>3, StringEnds
  <2>5. ~CodeToken(source, t) /\ i \in t..Len(source)
    BY <1>2, <1>4, <2>3 DEF CodeToken
  <2>6. Scanned(source, T \cup {t}, i + 1, stack)
    BY <1>1, <1>2, <2>4, <2>5, TakeToken
  <2>7. i + 1 \in 1..i' /\ Inside(source, i + 1, i', mode', escape')
    BY <1>2, <2>2 DEF Inside
  <2>8. QED BY <2>2, <2>6, <2>7, ScanNext
<1>9. escape \in BOOLEAN
  BY DEF TypeOK
<1>10. CASE escape
  BY <1>7, <1>9, <1>10 DEF InString
<1>11. CASE ~escape /\ ch = "backslash"
  BY <1>3, <1>7, <1>11 DEF InString
<1>12. CASE ~escape /\ ch # "backslash" /\ ch # mode
  BY <1>7, <1>9, <1>12 DEF InString
<1>13. QED BY <1>8, <1>10, <1>11, <1>12

(* The marks of a comment make no code. *)
LEMMA MarksToken ==
  ASSUME NEW s, NEW t, Marks(s, t, "/", "/") \/ Marks(s, t, "/", "*")
  PROVE  ~CodeToken(s, t)
BY DEF CodeToken

(* In a comment to the end of the line. *)
LEMMA LineStep ==
  ASSUME TypeOK, ScanInv, verdict = "scanning", i <= Len(source), mode = "line",
         Go(IF ch = "newline" THEN "code" ELSE mode, FALSE, stack)
  PROVE  ScanInv'
<1>0. PICK t \in 1..i :
        \E T : Scanned(source, T, t, stack) /\ Inside(source, t, i, mode, escape)
  BY Here
<1>1. PICK T : Scanned(source, T, t, stack) /\ Inside(source, t, i, mode, escape)
  BY <1>0
<1>2. /\ source \in Text /\ i \in 1..Len(source) /\ i \in Nat /\ Len(source) \in Nat
      /\ i \in 1..Len(source) + 1
      /\ stack \in Seq(Openers) /\ t \in Nat /\ t \in 1..Len(source)
  BY Here
<1>3. /\ t + 2 <= i /\ Marks(source, t, "/", "/")
      /\ \A k \in t..i - 1 : source[k] # "newline"
  BY <1>1 DEF Inside, Quotes
<1>4. i' = i + 1 /\ stack' = stack /\ source' = source
  BY Widths DEF Wide, Go
<1>5. CASE ch # "newline"
  <2> DEFINE j == i + 1
  <2>1. mode' = "line" /\ t + 2 <= j
    BY <1>2, <1>3, <1>5 DEF Go
  <2>2. \A k \in t..j - 1 : k \in t..i - 1 \/ k = i
    BY <1>2
  <2> HIDE DEF j
  <2>3. \A k \in t..j - 1 : source[k] # "newline"
    BY <1>3, <1>5, <2>2 DEF ch
  <2>4. Inside(source, t, j, "line", escape')
    BY <1>3, <2>1, <2>3, InsideComment
  <2>5. Inside(source, t, i', mode', escape') /\ i' \in Nat /\ i <= i'
    BY <1>2, <1>4, <2>1, <2>4 DEF j
  <2>6. QED BY <1>1, <1>2, <1>4, <2>5, Within
<1>6. CASE ch = "newline"
  <2>1. mode' = "code" /\ source[i] = "newline"
    BY <1>6 DEF Go, ch
  <2>2. Token(source, t, i - 1) /\ \A x \in t..Len(source) : Token(source, t, x) => x = i - 1
    BY <1>2, <1>3, <2>1, LineEnds
  <2>3. i - 1 \in t..Len(source) /\ i - 1 + 1 = i /\ ~CodeToken(source, t)
    BY <1>2, <1>3, MarksToken
  <2> DEFINE U == T \cup {t}
  <2>4. Scanned(source, U, i - 1 + 1, stack)
    BY <1>1, <1>2, <2>2, <2>3, TakeToken
  <2>5. Scanned(source, U, i, stack)
    BY <2>3, <2>4
  <2> HIDE DEF U
  <2>6. CodeToken(source, i) /\ source[i] \notin Openers \cup Closers
    BY <2>1 DEF CodeToken, Marks, Quotes, Openers, Closers
  <2>7. Balance(source, CodeOf(source, U) \cup {i}, i + 1, stack)
    <3>1. Balance(source, CodeOf(source, U), i, stack) /\ Before(CodeOf(source, U), i)
      BY <2>5, CodeBefore DEF Scanned
    <3>2. i \in Nat \ {0}
      BY <1>2
    <3>3. QED BY <1>2, <2>6, <3>1, <3>2, BalanceOther
  <2>8. Scanned(source, U \cup {i}, i + 1, stack)
    BY <1>2, <2>5, <2>6, <2>7, TakeCode
  <2>9. i + 1 \in 1..i' /\ Inside(source, i + 1, i', mode', escape')
    BY <1>2, <1>4, <2>1 DEF Inside
  <2>10. QED BY <1>4, <2>8, <2>9, ScanNext
<1>7. QED BY <1>5, <1>6

(* In a block comment. *)
LEMMA BlockStep ==
  ASSUME TypeOK, ScanInv, verdict = "scanning", i <= Len(source), mode = "block",
         Go(IF Width = 2 THEN "code" ELSE mode, FALSE, stack)
  PROVE  ScanInv'
<1>0. PICK t \in 1..i :
        \E T : Scanned(source, T, t, stack) /\ Inside(source, t, i, mode, escape)
  BY Here
<1>1. PICK T : Scanned(source, T, t, stack) /\ Inside(source, t, i, mode, escape)
  BY <1>0
<1>2. /\ source \in Text /\ i \in 1..Len(source) /\ i \in Nat /\ Len(source) \in Nat
      /\ stack \in Seq(Openers) /\ t \in Nat /\ t \in 1..Len(source)
  BY Here
<1>3. /\ t + 2 <= i /\ Marks(source, t, "/", "*")
      /\ \A k \in t + 2..i - 1 : ~Marks(source, k, "*", "/")
  BY <1>1 DEF Inside, Quotes
<1>4. i' = i + Width /\ stack' = stack /\ source' = source
  BY DEF Go
<1>5. Wide <=> Marks(source, i, "*", "/")
  BY <1>2 DEF Wide, Marks, ch, nxt
<1>6. CASE ~Wide
  <2> DEFINE j == i + 1
  <2>1. Width = 1
    BY <1>6, Widths
  <2>2. i' = j /\ mode' = "block" /\ t + 2 <= j
    BY <1>2, <1>3, <1>4, <2>1 DEF Go
  <2>3. \A k \in t + 2..j - 1 : k \in t + 2..i - 1 \/ k = i
    BY <1>2
  <2> HIDE DEF j
  <2>4. \A k \in t + 2..j - 1 : ~Marks(source, k, "*", "/")
    BY <1>3, <1>5, <1>6, <2>3
  <2>5. Inside(source, t, j, "block", escape')
    BY <1>3, <2>2, <2>4, InsideComment
  <2>6. Inside(source, t, i', mode', escape') /\ i' \in Nat /\ i <= i'
    BY <1>2, <2>2, <2>5 DEF j
  <2>7. QED BY <1>1, <1>2, <1>4, <2>6, Within
<1>7. CASE Wide
  <2>1. Width = 2
    BY <1>7, Widths
  <2>2. i' = i + 2 /\ mode' = "code"
    BY <1>4, <2>1 DEF Go
  <2>3. /\ i + 1 \in t..Len(source) /\ Token(source, t, i + 1)
        /\ \A x \in t..Len(source) : Token(source, t, x) => x = i + 1
    BY <1>2, <1>3, <1>5, <1>7, BlockEnds
  <2>4. ~CodeToken(source, t)
    BY <1>3, MarksToken
  <2>5. Scanned(source, T \cup {t}, i + 1 + 1, stack)
    BY <1>1, <1>2, <2>3, <2>4, TakeToken
  <2>6. i' = i + 1 + 1 /\ i + 1 + 1 \in 1..i'
    BY <1>2, <2>2
  <2>7. Inside(source, i + 1 + 1, i', mode', escape')
    BY <2>2, <2>6 DEF Inside
  <2>8. QED BY <1>4, <2>5, <2>6, <2>7, ScanNext
<1>8. QED BY <1>6, <1>7

(* In code: the character at i begins a token. *)
LEMMA CodeHere ==
  ASSUME TypeOK, ScanInv, verdict = "scanning", i <= Len(source), mode = "code"
  PROVE  /\ source \in Text /\ i \in 1..Len(source) /\ i \in Nat \ {0} /\ Len(source) \in Nat
         /\ stack \in Seq(Openers)
         /\ \E T : /\ Scanned(source, T, i, stack)
                   /\ Balance(source, CodeOf(source, T), i, stack)
                   /\ Before(CodeOf(source, T), i)
<1>0. PICK t \in 1..i :
        \E T : Scanned(source, T, t, stack) /\ Inside(source, t, i, mode, escape)
  BY Here
<1>1. PICK T : Scanned(source, T, t, stack) /\ Inside(source, t, i, mode, escape)
  BY <1>0
<1>2. t = i
  BY <1>1 DEF Inside, Quotes
<1>3. Balance(source, CodeOf(source, T), i, stack) /\ Before(CodeOf(source, T), i)
  BY <1>1, <1>2, CodeBefore DEF Scanned
<1>4. QED BY <1>1, <1>2, <1>3, Here

(* In code, but for the bracket that does not match. *)
LEMMA CodeStep ==
  ASSUME TypeOK, ScanInv, verdict = "scanning", i <= Len(source), InCode,
         verdict' = "scanning"
  PROVE  ScanInv'
<1>1. mode = "code"
  BY DEF InCode
<1>2. /\ source \in Text /\ i \in 1..Len(source) /\ i \in Nat \ {0} /\ Len(source) \in Nat
      /\ stack \in Seq(Openers)
  BY <1>1, CodeHere
<1>3. PICK T : /\ Scanned(source, T, i, stack)
               /\ Balance(source, CodeOf(source, T), i, stack)
               /\ Before(CodeOf(source, T), i)
  BY <1>1, CodeHere
<1> DEFINE C == CodeOf(source, T)
<1>4. ASSUME NEW u, Width = 1, Go("code", FALSE, u), CodeToken(source, i),
             Balance(source, C \cup {i}, i + 1, u)
      PROVE  ScanInv'
  <2>1. i' = i + 1 /\ mode' = "code" /\ stack' = u /\ source' = source
    BY <1>4 DEF Go
  <2>2. Scanned(source, T \cup {i}, i + 1, u)
    BY <1>2, <1>3, <1>4, TakeCode
  <2>3. i + 1 \in 1..i' /\ Inside(source, i + 1, i', mode', escape')
    BY <1>2, <2>1 DEF Inside
  <2>4. QED BY <2>1, <2>2, <2>3, ScanNext
<1>5. ASSUME Width = 2, Go(IF nxt = "/" THEN "line" ELSE "block", FALSE, stack)
      PROVE  ScanInv'
  <2>1. i' = i + 2 /\ stack' = stack /\ source' = source
        /\ mode' = (IF nxt = "/" THEN "line" ELSE "block")
    BY <1>5 DEF Go
  <2>2. Wide
    BY <1>5, Widths
  <2>3. ch = "/" /\ nxt \in {"/", "*"}
    BY <1>1, <2>2 DEF Wide
  <2>4. Marks(source, i, "/", nxt)
    BY <1>2, <2>3 DEF Marks, ch, nxt
  <2> DEFINE j == i + 2
  <2>5. i + 2 <= j /\ \A k \in i..j - 1 : k = i \/ k = i + 1
    BY <1>2
  <2>6. \A k \in i + 2..j - 1 : FALSE
    BY <1>2
  <2> HIDE DEF j
  <2>7. Inside(source, i, j, mode', escape') => ScanInv'
    <3>1. i \in 1..i /\ i \in Nat /\ i' \in Nat /\ i <= i'
      BY <1>2, <2>1
    <3>2. QED BY <1>3, <2>1, <3>1, Within DEF j
  <2>8. CASE nxt = "/"
    <3>1. source[i] # "newline" /\ source[i + 1] # "newline"
      BY <2>4, <2>8 DEF Marks
    <3>2. \A k \in i..j - 1 : source[k] # "newline"
      BY <2>5, <3>1
    <3>3. Inside(source, i, j, "line", escape')
      BY <2>4, <2>5, <2>8, <3>2, InsideComment
    <3>4. QED BY <2>1, <2>7, <2>8, <3>3
  <2>9. CASE nxt = "*"
    <3>1. Inside(source, i, j, "block", escape')
      BY <2>4, <2>5, <2>6, <2>9, InsideComment
    <3>2. QED BY <2>1, <2>7, <2>9, <3>1
  <2>10. QED BY <2>3, <2>8, <2>9
<1>6. ASSUME Width = 1, ch \in Quotes, Go(ch, FALSE, stack)
      PROVE  ScanInv'
  <2> DEFINE j == i + 1
  <2>1. i' = j /\ mode' = ch /\ escape' = FALSE /\ stack' = stack /\ source' = source
    BY <1>6 DEF Go
  <2>2. ~Escaped(source, j, j)
    BY <1>2, EscapedStart
  <2>3. i < j /\ i + 1 = j /\ \A k \in i + 1..j - 1 : FALSE
    BY <1>2
  <2> HIDE DEF j
  <2>4. source[i] = ch /\ (FALSE <=> Escaped(source, i + 1, j))
    BY <2>2, <2>3 DEF ch
  <2>5. Inside(source, i, j, ch, FALSE)
    BY <1>6, <2>3, <2>4, InsideString
  <2>6. i \in 1..i /\ i \in Nat /\ i' \in Nat /\ i <= i'
    BY <1>2, <2>1 DEF j
  <2>7. QED BY <1>3, <2>1, <2>5, <2>6, Within
<1>7. ASSUME ch \in Openers \cup Closers PROVE CodeToken(source, i)
  BY <1>7, BracketChar DEF CodeToken, Marks, ch
<1>8. ASSUME Width = 1, ch \in Openers, Go(mode, FALSE, Append(stack, ch))
      PROVE  ScanInv'
  <2>1. Balance(source, C \cup {i}, i + 1, Append(stack, ch))
    BY <1>2, <1>3, <1>8, BalancePush DEF ch
  <2>2. QED BY <1>1, <1>4, <1>7, <1>8, <2>1
<1>9. ASSUME Width = 1, ch \in Closers, ~Mismatch,
             Go(mode, FALSE, SubSeq(stack, 1, Len(stack) - 1))
      PROVE  ScanInv'
  <2>1. stack # <<>> /\ Pair[stack[Len(stack)]] = source[i] /\ source[i] \in Closers
    BY <1>9 DEF Mismatch, ch
  <2>2. Balance(source, C \cup {i}, i + 1, SubSeq(stack, 1, Len(stack) - 1))
    BY <1>2, <1>3, <2>1, BalancePop
  <2>3. QED BY <1>1, <1>4, <1>7, <1>9, <2>2
<1>10. ASSUME Width = 1, ch \notin Quotes \cup Openers \cup Closers, Go(mode, FALSE, stack)
       PROVE  ScanInv'
  <2>1. ~Wide
    BY <1>10, Widths
  <2>2. CodeToken(source, i)
    BY <1>1, <1>2, <1>10, <2>1 DEF Wide, CodeToken, Marks, ch, nxt
  <2>3. Balance(source, C \cup {i}, i + 1, stack)
    BY <1>2, <1>3, <1>10, BalanceOther DEF ch
  <2>4. QED BY <1>1, <1>4, <1>10, <2>2, <2>3
<1>11. QED BY <1>5, <1>6, <1>8, <1>9, <1>10, CodeSteps

(* A bracket that does not match is an error of the text. *)
LEMMA ErrorStep ==
  ASSUME TypeOK, ScanInv, verdict = "scanning", i <= Len(source), InCode,
         verdict' # "scanning"
  PROVE  AcceptsWellFormed'
<1>1. mode = "code"
  BY DEF InCode
<1>2. Mismatch /\ verdict' = "error" /\ source' = source
  BY CodeSteps DEF Go
<1>3. PICK T : Scanned(source, T, i, stack)
  BY <1>1, CodeHere
<1>4. ~WellFormed(source)
  BY <1>1, <1>2, <1>3, CodeHere, NoMatch DEF Mismatch, ch
<1>5. QED BY <1>2, <1>4 DEF AcceptsWellFormed

(* The end of the text decides. *)
LEMMA EndStep ==
  ASSUME TypeOK, ScanInv, verdict = "scanning", AtEnd
  PROVE  AcceptsWellFormed'
<1>0. PICK t \in 1..i :
        \E T : Scanned(source, T, t, stack) /\ Inside(source, t, i, mode, escape)
  BY Here
<1>1. PICK T : Scanned(source, T, t, stack) /\ Inside(source, t, i, mode, escape)
  BY <1>0
<1>2. /\ source \in Text /\ i = Len(source) + 1 /\ Len(source) \in Nat
      /\ stack \in Seq(Openers) /\ t \in Nat
  BY Here DEF AtEnd
<1>3. /\ source' = source
      /\ verdict' = IF Unfinished THEN "error" ELSE "none"
  BY DEF AtEnd
<1>4. mode \in Quotes \cup {"code", "block", "line"}
  BY DEF TypeOK
<1>5. WellFormed(source) <=> ~Unfinished
  <2>1. CASE mode \in Quotes \cup {"block"}
    <3>1. t \in 1..Len(source)
      BY <1>1, <1>2, <2>1 DEF Inside, Quotes
    <3>2. \A x \in t..Len(source) : ~Token(source, t, x)
      BY <1>1, <1>2, <2>1, <3>1, OpenEnd
    <3>3. ~WellFormed(source)
      BY <1>1, <1>2, <3>1, <3>2, NoToken
    <3>4. QED BY <2>1, <3>3 DEF Unfinished
  <2>2. CASE mode = "code"
    <3>1. t = Len(source) + 1
      BY <1>1, <1>2, <2>2 DEF Inside, Quotes
    <3>2. WellFormed(source) <=> stack = <<>>
      BY <1>1, <1>2, <3>1, ScannedAll
    <3>3. QED BY <2>2, <3>2 DEF Unfinished, Quotes
  <2>3. CASE mode = "line"
    <3>1. /\ t + 2 <= i /\ Marks(source, t, "/", "/")
          /\ \A k \in t..i - 1 : source[k] # "newline"
      BY <1>1, <2>3 DEF Inside, Quotes
    <3>2. /\ t \in 1..Len(source) /\ i \in 1..Len(source) + 1
          /\ i - 1 \in t..Len(source) /\ i - 1 + 1 = Len(source) + 1
      BY <1>2, <3>1
    <3>3. Token(source, t, i - 1) /\ \A x \in t..Len(source) : Token(source, t, x) => x = i - 1
      BY <1>2, <3>1, <3>2, LineEnds
    <3>4. ~CodeToken(source, t)
      BY <3>1, MarksToken
    <3>5. Scanned(source, T \cup {t}, i - 1 + 1, stack)
      BY <1>1, <1>2, <3>2, <3>3, <3>4, TakeToken
    <3>6. WellFormed(source) <=> stack = <<>>
      BY <1>2, <3>2, <3>5, ScannedAll
    <3>7. QED BY <2>3, <3>6 DEF Unfinished, Quotes
  <2>4. QED BY <1>4, <2>1, <2>2, <2>3
<1>6. QED BY <1>3, <1>5 DEF AcceptsWellFormed

IInv == TypeOK /\ ScanInv /\ AcceptsWellFormed

(* Every step keeps what has been scanned, and ends with the right verdict. *)
LEMMA ScanStep ==
  ASSUME IInv, [Next]_vars
  PROVE  ScanInv' /\ AcceptsWellFormed'
<1>1. TypeOK /\ ScanInv
  BY DEF IInv
<1>2. ASSUME verdict' = "scanning" PROVE AcceptsWellFormed'
  BY <1>2 DEF AcceptsWellFormed
<1>3. ASSUME verdict' # "scanning" PROVE ScanInv'
  BY <1>3 DEF ScanInv
<1>4. CASE verdict = "scanning" /\ i <= Len(source) /\ InString
  <2>1. verdict' = "scanning"
    BY <1>4 DEF InString, Go
  <2>2. QED BY <1>1, <1>2, <1>4, <2>1, StringStep
<1>5. CASE verdict = "scanning" /\ i <= Len(source) /\ InComment
  <2>1. verdict' = "scanning"
    BY <1>5 DEF InComment, Go
  <2>2. QED BY <1>1, <1>2, <1>5, <2>1, LineStep, BlockStep DEF InComment
<1>6. CASE verdict = "scanning" /\ i <= Len(source) /\ InCode
  BY <1>1, <1>2, <1>3, <1>6, CodeStep, ErrorStep
<1>7. CASE verdict = "scanning" /\ AtEnd
  <2>1. verdict' # "scanning"
    BY <1>7 DEF AtEnd
  <2>2. QED BY <1>1, <1>3, <1>7, <2>1, EndStep
<1>8. CASE UNCHANGED vars
  BY <1>8 DEF IInv, vars, ScanInv, AcceptsWellFormed
<1>9. QED BY <1>4, <1>5, <1>6, <1>7, <1>8 DEF Next

(* The scanner accepts a text exactly if it divides into strings, comments *)
(* and code that nests, however long the text (_check_jsts_syntax,         *)
(* write_code.py:1418).                                                    *)
THEOREM ScannerDecides == Spec => []AcceptsWellFormed
<1>1. Init => IInv
  BY InitType, ScanInit DEF IInv, Init, AcceptsWellFormed
<1>2. IInv /\ [Next]_vars => IInv'
  BY ScanStep, TypeStep DEF IInv
<1>3. IInv => AcceptsWellFormed
  BY DEF IInv
<1>4. QED BY <1>1, <1>2, <1>3, PTL DEF Spec

=============================================================================
