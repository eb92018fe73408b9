----------------------------- MODULE LexerProofs -----------------------------
(***************************************************************************)
(* Proofs about Lexer.  A line is laid out as its lexemes one after        *)
(* another: Layout names the position after each of them.  While the lexer *)
(* runs it stands at one of these positions, with the tokens of the        *)
(* lexemes before it (Reads).  That chomp stops exactly where the next     *)
(* lexeme ends, or swallows symbols after an operation, is shown for each  *)
(* kind of lexeme in turn (the Chomps lemmas).                             *)
(***************************************************************************)
EXTENDS Lexer, Lemmas, TLAPS

(***************************************************************************)
(* The line and its lexemes                                                *)
(***************************************************************************)
\* The characters that matter.
Blank     == " "
Tick      == "'"
Double    == "\""
Point     == "."
Backslash == "\\"

SourceOK ==
  /\ Len(source) \in Nat
  /\ source \in [1 .. Len(source) -> [lexeme : Lexemes, spaced : BOOLEAN]]

Writing == [i \in DOMAIN source |-> Written(source[i])]

\* b[i] is where lexeme i ends.
Layout(b) ==
  /\ SourceOK
  /\ line \in Seq(Chars)
  /\ Concatenates(line, Writing, Len(source), b)

\* Where lexeme i starts.
From(b, i) == b[i - 1] + (IF source[i].spaced THEN 2 ELSE 1)

\* Lexeme i stands in the line from one position to before another.
Placed(i, from, next) ==
  /\ i \in 1 .. Len(source)
  /\ from \in 1 .. Len(line) /\ next \in from + 1 .. Len(line) + 1
  /\ next = from + Len(Spell(i))
  /\ \A j \in 1 .. Len(Spell(i)) : line[from + j - 1] = Spell(i)[j]
  /\ next <= Len(line) =>
       /\ i + 1 \in 1 .. Len(source)
       /\ line[next] = IF source[i + 1].spaced THEN Blank ELSE Spell(i + 1)[1]
  /\ next = Len(line) + 1 => i = Len(source)

LEMMA Characters ==
  /\ {Blank, Tick, Double, Point, Backslash} \subseteq Chars
  /\ {Blank, Tick, Double, Point, Backslash} \cap (Digits \cup Letters) = {}
  /\ Digits \cap Letters = {}
  /\ Tick # Double /\ Tick # Blank /\ Double # Blank /\ Point # Tick /\ Point # Double
  /\ Point # Blank /\ Backslash # Tick /\ Backslash # Double
  /\ Quotes = {Tick, Double}
<1>1. {Blank, Tick, Double, Point, Backslash} \subseteq Chars
  BY CharsAssumption, Zenon DEF Blank, Tick, Double, Point, Backslash
<1>2. /\ Code[Blank] = 32 /\ Code[Double] = 34 /\ Code[Tick] = 39 /\ Code[Point] = 46
      /\ Code[Backslash] = 92
  BY AsciiAssumption, Zenon DEF Blank, Tick, Double, Point, Backslash
<1>3. {Blank, Tick, Double, Point, Backslash} \cap (Digits \cup Letters) = {}
  BY <1>2 DEF Digits, Letters
<1>4. Digits \cap Letters = {}
  <2>1. \A n \in 48 .. 57 : n \notin 65 .. 90 \cup 97 .. 122 \cup {95}
    OBVIOUS
  <2>2. QED
    BY <2>1 DEF Digits, Letters
<1>5. Quotes = {Tick, Double}
  BY Zenon DEF Quotes, Tick, Double
<1>6. QED
  BY <1>1, <1>2, <1>3, <1>4, <1>5

LEMMA Prepended ==
  ASSUME NEW T, NEW c \in T, NEW s \in Seq(T)
  PROVE  /\ <<c>> \o s \in Seq(T) /\ Len(<<c>> \o s) = Len(s) + 1
         /\ (<<c>> \o s)[1] = c
         /\ \A j \in 1 .. Len(s) : (<<c>> \o s)[j + 1] = s[j]
<1>1. PICK x : x = <<c>>
  OBVIOUS
<1>2. x \in Seq(T) /\ Len(x) = 1 /\ x[1] = c
  BY <1>1
<1>3. ASSUME NEW y \in Seq(T), Len(y) = 1
      PROVE  /\ y \o s \in Seq(T) /\ Len(y \o s) = Len(s) + 1
             /\ (y \o s)[1] = y[1]
             /\ \A j \in 1 .. Len(s) : (y \o s)[j + 1] = s[j]
  <2>1. \A j \in 1 .. Len(s) : j + 1 = Len(y) + j
    BY <1>3
  <2>2. y \o s \in Seq(T) /\ Len(y \o s) = Len(y) + Len(s)
    OBVIOUS
  <2>3. \A j \in 1 .. Len(y) : (y \o s)[j] = y[j]
    OBVIOUS
  <2>4. \A j \in 1 .. Len(s) : (y \o s)[Len(y) + j] = s[j]
    OBVIOUS
  <2>5. QED
    BY <1>3, <2>1, <2>2, <2>3, <2>4
<1>4. QED
  BY <1>1, <1>2, <1>3

LEMMA SpellIs ==
  ASSUME SourceOK, NEW i \in 1 .. Len(source)
  PROVE  /\ Spell(i) \in Seq(Chars) /\ Len(Spell(i)) \in Nat \ {0}
         /\ \A j \in 1 .. Len(Spell(i)) : Spell(i)[j] \in Chars
         /\ source[i].lexeme \in Lexemes /\ source[i].spaced \in BOOLEAN
         /\ Writing[i] \in Seq(Chars)
         /\ Len(Writing[i]) = IF source[i].spaced THEN Len(Spell(i)) + 1 ELSE Len(Spell(i))
         /\ source[i].spaced =>
              /\ Writing[i][1] = Blank
              /\ \A j \in 1 .. Len(Spell(i)) : Writing[i][j + 1] = Spell(i)[j]
         /\ ~source[i].spaced => Writing[i] = Spell(i)
<1>1. source[i] \in [lexeme : Lexemes, spaced : BOOLEAN] /\ i \in DOMAIN source
  BY DEF SourceOK
<1>2. source[i].lexeme \in Lexemes /\ source[i].spaced \in BOOLEAN
  BY <1>1
<1>3. Spell(i) \in Seq(Chars) \ {<<>>}
  BY <1>2, LexemesAssumption DEF Spell
<1>4. Spell(i) \in Seq(Chars) /\ Len(Spell(i)) \in Nat \ {0}
      /\ \A j \in 1 .. Len(Spell(i)) : Spell(i)[j] \in Chars
  <2>1. ASSUME NEW T, NEW s \in Seq(T) \ {<<>>}
        PROVE  s \in Seq(T) /\ Len(s) \in Nat \ {0} /\ \A j \in 1 .. Len(s) : s[j] \in T
    OBVIOUS
  <2>2. QED
    BY <1>3, <2>1
<1>5. Writing[i] = IF source[i].spaced THEN <<Blank>> \o Spell(i) ELSE Spell(i)
  <2>1. Writing[i] = Written(source[i])
    BY <1>1 DEF Writing
  <2>2. QED
    BY <2>1, Zenon DEF Written, Spell, Blank
<1>6. Blank \in Chars
  BY Characters
<1>7. CASE source[i].spaced
  <2>1. Writing[i] = <<Blank>> \o Spell(i)
    BY <1>5, <1>7
  <2>2. PICK w : w = Writing[i]
    OBVIOUS
  <2>3. /\ w \in Seq(Chars) /\ Len(w) = Len(Spell(i)) + 1 /\ w[1] = Blank
        /\ \A j \in 1 .. Len(Spell(i)) : w[j + 1] = Spell(i)[j]
    BY <1>4, <1>6, <2>1, <2>2, Prepended
  <2>4. QED
    BY <1>2, <1>4, <1>7, <2>2, <2>3
<1>8. CASE ~source[i].spaced
  <2>1. Writing[i] = Spell(i)
    BY <1>5, <1>8
  <2>2. QED
    BY <1>2, <1>4, <1>8, <2>1
<1>9. QED
  BY <1>7, <1>8

LEMMA LayoutExists ==
  ASSUME SourceOK, line = FlattenSeq(Writing)
  PROVE  \E b : Layout(b)
<1> DEFINE n == Len(source)
<1>1. DOMAIN source = 1 .. n /\ n \in Nat
  BY DEF SourceOK
<1>2. Writing \in [1 .. n -> Seq(Chars)]
  <2>1. Writing = [i \in 1 .. n |-> Writing[i]]
    BY <1>1 DEF Writing
  <2>2. \A i \in 1 .. n : Writing[i] \in Seq(Chars)
    BY SpellIs
  <2> HIDE DEF n
  <2>3. QED
    BY <2>1, <2>2
<1> HIDE DEF n
<1>3. line \in Seq(Chars) /\ \E b : Concatenates(line, Writing, n, b)
  BY <1>1, <1>2, Flattens
<1>4. QED
  BY <1>3 DEF Layout, n

LEMMA LexemePlaced ==
  ASSUME NEW b, Layout(b), NEW i \in 1 .. Len(source)
  PROVE  /\ b[i - 1] \in Nat /\ b[i] \in Nat
         /\ b[i - 1] + 1 \in 1 .. Len(line)
         /\ Placed(i, From(b, i), b[i] + 1)
         /\ From(b, i) \in {b[i - 1] + 1, b[i - 1] + 2}
         /\ From(b, i) = b[i - 1] + 2 => line[b[i - 1] + 1] = Blank
<1> DEFINE n == Len(source)
<1>1. SourceOK /\ n \in Nat
  BY DEF Layout, SourceOK
<1>2. /\ b \in [0 .. n -> Nat] /\ b[0] = 0 /\ b[n] = Len(line)
      /\ \A m \in 1 .. n : b[m] = b[m - 1] + Len(Writing[m])
      /\ \A m \in 1 .. n : \A j \in 1 .. Len(Writing[m]) : line[b[m - 1] + j] = Writing[m][j]
  BY DEF Layout, Concatenates
<1>3. ASSUME NEW m \in 1 .. n
      PROVE  /\ b[m - 1] \in Nat /\ b[m] \in Nat
             /\ b[m] = b[m - 1] + Len(Spell(m)) + (IF source[m].spaced THEN 1 ELSE 0)
             /\ Len(Spell(m)) \in Nat \ {0}
             /\ line[b[m - 1] + 1] = IF source[m].spaced THEN Blank ELSE Spell(m)[1]
             /\ \A j \in 1 .. Len(Spell(m)) : line[From(b, m) + j - 1] = Spell(m)[j]
  <2>1. Spell(m) \in Seq(Chars) /\ Len(Spell(m)) \in Nat \ {0} /\ source[m].spaced \in BOOLEAN
    BY <1>1, SpellIs
  <2>2. m - 1 \in 0 .. n /\ m \in 0 .. n
    BY <1>1
  <2>3. b[m - 1] \in Nat /\ b[m] \in Nat
    BY <1>2, <2>2
  <2>5. b[m] = b[m - 1] + Len(Writing[m])
        /\ \A j \in 1 .. Len(Writing[m]) : line[b[m - 1] + j] = Writing[m][j]
    BY <1>2
  <2>6. CASE source[m].spaced
    <3>1. /\ Len(Writing[m]) = Len(Spell(m)) + 1 /\ Writing[m][1] = Blank
          /\ \A j \in 1 .. Len(Spell(m)) : Writing[m][j + 1] = Spell(m)[j]
      BY <1>1, <2>6, SpellIs
    <3>2. From(b, m) = b[m - 1] + 2
      BY <2>6 DEF From
    <3>3. ASSUME NEW j \in 1 .. Len(Spell(m)) PROVE line[From(b, m) + j - 1] = Spell(m)[j]
      <4>1. j + 1 \in 1 .. Len(Writing[m])
        BY <2>1, <3>1
      <4>2. j \in Nat
        BY <2>1
      <4>3. From(b, m) + j - 1 = b[m - 1] + (j + 1)
        BY <2>3, <3>2, <4>2
      <4>4. QED
        BY <2>5, <3>1, <4>1, <4>3
    <3>4. 1 \in 1 .. Len(Writing[m])
      BY <2>1, <3>1
    <3>5. line[b[m - 1] + 1] = Blank
      BY <2>5, <3>1, <3>4
    <3>6. b[m] = b[m - 1] + Len(Spell(m)) + 1
      <4>1. PICK p \in Nat : p = b[m - 1]
        BY <2>3
      <4>2. PICK l \in Nat \ {0} : l = Len(Spell(m))
        BY <2>1
      <4>3. b[m] = p + (l + 1)
        BY <2>5, <3>1, <4>1, <4>2
      <4>4. QED
        BY <4>1, <4>2, <4>3
    <3>7. QED
      BY <2>1, <2>3, <2>6, <3>3, <3>5, <3>6
  <2>7. CASE ~source[m].spaced
    <3>1. Writing[m] = Spell(m) /\ From(b, m) = b[m - 1] + 1
      BY <1>1, <2>7, SpellIs DEF From
    <3>2. \A j \in 1 .. Len(Spell(m)) : From(b, m) + j - 1 = b[m - 1] + j
      BY <2>3, <3>1
    <3>3. 1 \in 1 .. Len(Spell(m))
      BY <2>1
    <3>4. QED
      BY <2>1, <2>3, <2>5, <2>7, <3>1, <3>2, <3>3
  <2>8. QED
    BY <2>6, <2>7
<1>4. ASSUME NEW m \in 0 .. n PROVE b[m] <= Len(line)
  <2> DEFINE S == {d \in Nat : d <= n => b[n - d] <= Len(line)}
  <2>1. Len(line) \in Nat
    BY DEF Layout
  <2>2. 0 \in S
    BY <1>1, <1>2, <2>1
  <2>3. ASSUME NEW d \in S, d \in Nat PROVE d + 1 \in S
    <3>1. SUFFICES ASSUME d + 1 <= n PROVE b[n - (d + 1)] <= Len(line)
      OBVIOUS
    <3>2. n - d \in 1 .. n /\ n - d - 1 = n - (d + 1)
      BY <1>1, <2>3, <3>1
    <3>3. PICK e \in 1 .. n : e = n - d
      BY <3>2
    <3>4. b[e] = b[e - 1] + Len(Spell(e)) + (IF source[e].spaced THEN 1 ELSE 0)
          /\ Len(Spell(e)) \in Nat /\ b[e - 1] \in Nat /\ b[e] \in Nat
      BY <1>3
    <3>5. b[e - 1] <= b[e]
      BY <3>4
    <3>6. b[e] <= Len(line)
      BY <1>1, <2>3, <3>1, <3>3
    <3>7. QED
      BY <2>1, <3>2, <3>3, <3>4, <3>5, <3>6
  <2> HIDE DEF S
  <2>4. Nat \subseteq S
    BY <2>2, <2>3, SetInduction
  <2>5. n - m \in Nat /\ n - m <= n /\ n - (n - m) = m
    BY <1>1
  <2>6. QED
    BY <2>4, <2>5 DEF S
<1>5. i \in 1 .. n /\ i \in 0 .. n
  OBVIOUS
<1> DEFINE from == From(b, i)
           next == b[i] + 1
<1>6. /\ b[i - 1] \in Nat /\ b[i] \in Nat /\ Len(Spell(i)) \in Nat \ {0} /\ source[i].spaced \in BOOLEAN
      /\ b[i] = b[i - 1] + Len(Spell(i)) + (IF source[i].spaced THEN 1 ELSE 0)
      /\ b[i] <= Len(line) /\ Len(line) \in Nat
  <2>1. Len(line) \in Nat
    BY DEF Layout
  <2>2. QED
    BY <1>1, <1>3, <1>4, <1>5, <2>1, SpellIs
<1>7. /\ from \in {b[i - 1] + 1, b[i - 1] + 2}
      /\ from = b[i - 1] + 2 => source[i].spaced
      /\ next = from + Len(Spell(i)) /\ from \in 1 .. Len(line) /\ next \in from + 1 .. Len(line) + 1
      /\ b[i - 1] + 1 \in 1 .. Len(line)
  <2>1. PICK p \in Nat : p = b[i - 1]
    BY <1>6
  <2>2. PICK l \in Nat \ {0} : l = Len(Spell(i))
    BY <1>6
  <2>3. PICK e \in Nat : e = Len(line)
    BY <1>6
  <2>4. PICK d \in {0, 1} : d = (IF source[i].spaced THEN 1 ELSE 0)
    OBVIOUS
  <2>5. b[i] = p + l + d /\ b[i] <= e
    BY <1>6, <2>1, <2>2, <2>3, <2>4
  <2>6. from = p + d + 1 /\ (d = 1 => source[i].spaced)
    <3>1. CASE source[i].spaced
      BY <2>1, <2>4, <3>1 DEF From
    <3>2. CASE ~source[i].spaced
      BY <2>1, <2>4, <3>2 DEF From
    <3>3. QED
      BY <3>1, <3>2
  <2> HIDE DEF from
  <2>7. next = p + l + d + 1
    BY <2>5
  <2> HIDE DEF next
  <2>8. from \in {p + 1, p + 2} /\ (from = p + 2 => d = 1)
    BY <2>6
  <2>9. next = from + l /\ from \in 1 .. e /\ next \in from + 1 .. e + 1 /\ p + 1 \in 1 .. e
    BY <2>5, <2>6, <2>7
  <2>10. QED
    BY <2>1, <2>2, <2>3, <2>6, <2>8, <2>9
<1>8. next <= Len(line) => i + 1 \in 1 .. n
  BY <1>1, <1>2, <1>5, <1>6
<1>9. next <= Len(line) => line[next] = IF source[i + 1].spaced THEN Blank ELSE Spell(i + 1)[1]
  <2>1. SUFFICES ASSUME next <= Len(line)
                 PROVE  line[next] = IF source[i + 1].spaced THEN Blank ELSE Spell(i + 1)[1]
    OBVIOUS
  <2>2. PICK m \in 1 .. n : m = i + 1 /\ m - 1 = i
    BY <1>8, <2>1
  <2>3. line[b[m - 1] + 1] = IF source[m].spaced THEN Blank ELSE Spell(m)[1]
    BY <1>3
  <2>4. QED
    BY <2>2, <2>3
<1>10. next = Len(line) + 1 => i = n
  <2>1. SUFFICES ASSUME next = Len(line) + 1, i # n PROVE FALSE
    OBVIOUS
  <2>2. PICK m \in 1 .. n : m = i + 1 /\ m - 1 = i
    BY <1>1, <1>5, <2>1
  <2>3. b[m] = b[m - 1] + Len(Spell(m)) + (IF source[m].spaced THEN 1 ELSE 0) /\ Len(Spell(m)) \in Nat \ {0}
        /\ b[m] <= Len(line) /\ b[m] \in Nat
    <3>1. m \in 0 .. n
      BY <1>1
    <3>2. QED
      BY <1>3, <1>4, <3>1
  <2>4. QED
    BY <1>6, <2>1, <2>2, <2>3
<1>11. from = b[i - 1] + 2 => line[b[i - 1] + 1] = Blank
  <2>1. line[b[i - 1] + 1] = IF source[i].spaced THEN Blank ELSE Spell(i)[1]
    BY <1>3, <1>5
  <2>2. QED
    BY <1>6, <1>7, <2>1
<1>12. \A j \in 1 .. Len(Spell(i)) : line[from + j - 1] = Spell(i)[j]
  BY <1>3, <1>5
<1> HIDE DEF from, next
<1>13. Placed(i, from, next)
  BY <1>5, <1>7, <1>8, <1>9, <1>10, <1>12 DEF Placed, n
<1>14. /\ b[i - 1] \in Nat /\ b[i] \in Nat /\ b[i - 1] + 1 \in 1 .. Len(line)
       /\ from \in {b[i - 1] + 1, b[i - 1] + 2}
       /\ from = b[i - 1] + 2 => line[b[i - 1] + 1] = Blank
  BY <1>6, <1>7, <1>11
<1>15. QED
  BY <1>13, <1>14 DEF from, next

(***************************************************************************)
(* The search for the end of a token                                       *)
(***************************************************************************)
LEMMA FirstInIs ==
  ASSUME line \in Seq(Chars), NEW S, NEW i \in 1 .. Len(line) + 1, NEW m \in i .. Len(line) + 1,
         \A j \in i .. m - 1 : line[j] \notin S, m <= Len(line) => line[m] \in S
  PROVE  FirstIn(S, i) = m
<1> DEFINE U == {j \in i .. Len(line) : line[j] \in S} \cup {Len(line) + 1}
<1>1. Len(line) \in Nat
  OBVIOUS
<1>2. U \in SUBSET Nat
  BY <1>1
<1>3. m \in U
  BY <1>1
<1>4. ASSUME NEW y \in U PROVE m <= y
  <2>1. y \in Nat /\ m \in Nat
    BY <1>1
  <2>2. y < m => y \in i .. m - 1 /\ line[y] \in S
    BY <1>1, <2>1
  <2>3. QED
    BY <2>1, <2>2
<1> HIDE DEF U
<1>5. Min(U) = m
  BY <1>2, <1>3, <1>4, MinIs
<1>6. QED
  BY <1>5 DEF FirstIn, U

LEMMA FirstInBounds ==
  ASSUME line \in Seq(Chars), NEW S, NEW i \in 1 .. Len(line) + 1
  PROVE  FirstIn(S, i) \in i .. Len(line) + 1
<1> DEFINE U == {j \in i .. Len(line) : line[j] \in S} \cup {Len(line) + 1}
<1>1. Len(line) \in Nat /\ Len(line) + 1 \in i .. Len(line) + 1
  OBVIOUS
<1>2. U \in SUBSET Nat /\ U # {} /\ U \subseteq i .. Len(line) + 1
  BY <1>1
<1> HIDE DEF U
<1>3. Min(U) \in U
  BY <1>2, MinExists
<1>4. FirstIn(S, i) = Min(U)
  BY DEF FirstIn, U
<1>5. QED
  BY <1>2, <1>3, <1>4

LEMMA FirstInStops ==
  ASSUME line \in Seq(Chars), NEW S, NEW i \in 1 .. Len(line) + 1
  PROVE  /\ \A j \in i .. FirstIn(S, i) - 1 : line[j] \notin S
         /\ FirstIn(S, i) <= Len(line) => line[FirstIn(S, i)] \in S
<1> DEFINE U == {j \in i .. Len(line) : line[j] \in S} \cup {Len(line) + 1}
<1>1. Len(line) \in Nat
  OBVIOUS
<1>2. U \in SUBSET Nat /\ U # {} /\ \A j \in U : j <= Len(line) => line[j] \in S
  BY <1>1
<1>3. FirstIn(S, i) = Min(U)
  BY DEF FirstIn
<1>4. FirstIn(S, i) \in i .. Len(line) + 1
  BY FirstInBounds
<1>5. ASSUME NEW j \in i .. FirstIn(S, i) - 1, line[j] \in S PROVE FALSE
  <2>1. j \in U /\ j < FirstIn(S, i)
    BY <1>1, <1>4, <1>5
  <2> HIDE DEF U
  <2>2. Min(U) <= j
    BY <1>2, <2>1, MinExists
  <2>3. QED
    BY <1>3, <1>4, <2>1, <2>2
<1> HIDE DEF U
<1>6. Min(U) \in U
  BY <1>2, MinExists
<1>7. QED
  BY <1>2, <1>3, <1>5, <1>6

LEMMA FirstOutIs ==
  ASSUME line \in Seq(Chars), NEW S, NEW i \in 1 .. Len(line) + 1, NEW m \in i .. Len(line) + 1,
         \A j \in i .. m - 1 : line[j] \in S, m <= Len(line) => line[m] \notin S
  PROVE  FirstOut(S, i) = m
<1>1. \A j \in 1 .. Len(line) : line[j] \in Chars
  OBVIOUS
<1>2. m <= Len(line) => line[m] \in Chars \ S
  BY <1>1
<1>3. FirstIn(Chars \ S, i) = m
  BY <1>2, FirstInIs
<1>4. QED
  BY <1>3 DEF FirstOut

LEMMA StartIs ==
  ASSUME NEW b, Layout(b), NEW i \in 1 .. Len(source), at = b[i - 1] + 1, Spell(i)[1] # Blank
  PROVE  Start = From(b, i)
<1> DEFINE from == From(b, i)
<1>1. line \in Seq(Chars) /\ Len(line) \in Nat
  BY DEF Layout
<1>2. /\ b[i - 1] \in Nat /\ at \in 1 .. Len(line) /\ Placed(i, from, b[i] + 1)
      /\ from \in {at, at + 1} /\ (from = at + 1 => line[at] = Blank)
  <2>1. /\ b[i - 1] \in Nat /\ b[i - 1] + 1 \in 1 .. Len(line) /\ Placed(i, From(b, i), b[i] + 1)
        /\ From(b, i) \in {b[i - 1] + 1, b[i - 1] + 2}
        /\ From(b, i) = b[i - 1] + 2 => line[b[i - 1] + 1] = Blank
    BY LexemePlaced
  <2>2. b[i - 1] + 2 = at + 1
    BY <2>1
  <2>3. QED
    BY <2>1, <2>2
<1> HIDE DEF from
<1>3. from \in 1 .. Len(line) /\ line[from] = Spell(i)[1]
  <2>1. /\ from \in 1 .. Len(line) /\ \A j \in 1 .. Len(Spell(i)) : line[from + j - 1] = Spell(i)[j]
    BY <1>2 DEF Placed
  <2>2. 1 \in 1 .. Len(Spell(i))
    BY SpellIs DEF Layout
  <2>3. from + 1 - 1 = from
    BY <2>1
  <2>4. QED
    BY <2>1, <2>2, <2>3
<1>4. \A j \in at .. from - 1 : line[j] \in {Blank}
  BY <1>1, <1>2
<1>5. FirstOut({Blank}, at) = from
  <2>1. at \in 1 .. Len(line) + 1 /\ from \in at .. Len(line) + 1 /\ line[from] \notin {Blank}
    BY <1>1, <1>2, <1>3
  <2>2. QED
    BY <1>1, <1>4, <2>1, FirstOutIs
<1>6. Start = FirstOut({Blank}, at)
  BY Zenon DEF Start, Blank
<1>7. QED
  BY <1>5, <1>6 DEF from

LEMMA PresumedIs ==
  ASSUME NEW c
  PROVE  /\ c \in Digits => PresumedBy(c) = "number"
         /\ c \in Letters => PresumedBy(c) = "word"
         /\ c = Tick => PresumedBy(c) = "char"
         /\ c = Double => PresumedBy(c) = "string"
         /\ c \notin Digits \cup Letters \cup Quotes => PresumedBy(c) = "operation"
         /\ PresumedBy(c) \in {"number", "word", "char", "string", "operation"}
<1>1. PresumedBy(c) =
        CASE c \in Digits  -> "number"
          [] c \in Letters -> "word"
          [] c = Tick      -> "char"
          [] c = Double    -> "string"
          [] OTHER         -> "operation"
  BY Zenon DEF PresumedBy, Tick, Double
<1>2. /\ Digits \cap Letters = {} /\ {Tick, Double} \cap (Digits \cup Letters) = {}
      /\ Tick # Double /\ Quotes = {Tick, Double}
  BY Characters
<1>3. QED
  BY <1>1, <1>2

\* The lexer is at lexeme i, which ends before e.
At(i, e) == SourceOK /\ line \in Seq(Chars) /\ Placed(i, Start, e)

LEMMA AtIs ==
  ASSUME NEW i, NEW e, At(i, e)
  PROVE  /\ i \in 1 .. Len(source) /\ Len(line) \in Nat
         /\ Spell(i) \in Seq(Chars) /\ Len(Spell(i)) \in Nat \ {0}
         /\ Start \in 1 .. Len(line) /\ e \in Start + 1 .. Len(line) + 1
         /\ e = Start + Len(Spell(i))
         /\ \A j \in Start .. e - 1 :
              j - Start + 1 \in 1 .. Len(Spell(i)) /\ line[j] = Spell(i)[j - Start + 1]
         /\ line[Start] = Spell(i)[1] /\ line[e - 1] = Last(Spell(i))
         /\ SubSeq(line, Start, e - 1) = Spell(i)
<1> DEFINE s == Start
           text == Spell(i)
           m == Len(text)
<1>1. i \in 1 .. Len(source) /\ Len(line) \in Nat /\ line \in Seq(Chars)
  BY DEF At, Placed
<1>2. text \in Seq(Chars) /\ m \in Nat \ {0}
  BY <1>1, SpellIs DEF At
<1>3. /\ s \in 1 .. Len(line) /\ e \in s + 1 .. Len(line) + 1 /\ e = s + m
      /\ \A j \in 1 .. m : line[s + j - 1] = text[j]
  BY DEF At, Placed
<1> HIDE DEF s
<1>4. ASSUME NEW j \in s .. e - 1
      PROVE  j - s + 1 \in 1 .. m /\ line[j] = text[j - s + 1]
  <2> HIDE DEF text, m
  <2>1. j - s + 1 \in 1 .. m
    BY <1>2, <1>3
  <2>2. s + (j - s + 1) - 1 = j
    BY <1>3
  <2>3. QED
    BY <1>3, <2>1, <2>2
<1>5. line[s] = text[1]
  <2>1. 1 \in 1 .. m /\ s + 1 - 1 = s
    BY <1>2, <1>3
  <2>2. QED
    BY <1>3, <2>1
<1>6. line[e - 1] = Last(text)
  <2>1. m \in 1 .. m /\ s + m - 1 = e - 1
    BY <1>2, <1>3
  <2>2. QED
    BY <1>3, <2>1 DEF Last
<1>7. SubSeq(line, s, e - 1) = text
  <2> DEFINE t == SubSeq(line, s, e - 1)
  <2>1. /\ e - 1 \in s - 1 .. Len(line) /\ s \in 1 .. Len(line) + 1 /\ e - 1 - s + 1 = m
    <3> HIDE DEF text, m
    <3>1. QED
      BY <1>1, <1>2, <1>3
  <2>2. /\ t \in Seq(Chars) /\ Len(t) = e - 1 - s + 1
        /\ \A j \in 1 .. e - 1 - s + 1 : t[j] = line[s + j - 1]
    BY <1>1, <2>1, PartOf
  <2>3. IsSeq(t) /\ IsSeq(text)
    <3> HIDE DEF t, text
    <3>1. QED
      BY <1>2, <2>2, SeqParts
  <2> HIDE DEF t
  <2>4. Len(t) = m /\ \A j \in 1 .. m : t[j] = text[j]
    BY <1>3, <2>1, <2>2
  <2>5. t = text
    BY <2>3, <2>4, SameSeq
  <2>6. QED
    BY <2>5 DEF t
<1>8. QED
  BY <1>1, <1>2, <1>3, <1>4, <1>5, <1>6, <1>7 DEF s

LEMMA EndIs ==
  /\ Presumed = "number" => End = FirstOut(Digits, Start)
  /\ Presumed = "word" => End = FirstOut(Letters \cup Digits, Start)
  /\ Presumed = "operation" => End = FirstIn(Digits \cup Letters \cup {Blank}, Start)
  /\ Presumed \in {"char", "string"} => End = Min(Closes) + 1
  /\ Endless <=> \/ Presumed \in {"char", "string"} /\ Closes = {}
                 \/ Presumed = "number" /\ End <= Len(line) /\ line[End] = Point
<1>1. End = CASE Presumed = "number"    -> FirstOut(Digits, Start)
              [] Presumed = "word"      -> FirstOut(Letters \cup Digits, Start)
              [] Presumed = "operation" -> FirstIn(Digits \cup Letters \cup {Blank}, Start)
              [] OTHER                  -> Min(Closes) + 1
  BY Zenon DEF End, EndOfWord, Blank
<1>2. Endless <=> \/ Presumed \in {"char", "string"} /\ Closes = {}
                  \/ Presumed = "number" /\ End <= Len(line) /\ line[End] = Point
  BY Zenon DEF Endless, Point
<1>3. QED
  BY <1>1, <1>2

LEMMA ChompsPlain ==
  ASSUME NEW i, NEW e, At(i, e), NEW S, AllIn(Spell(i), S), e <= Len(line) => line[e] \notin S
  PROVE  FirstOut(S, Start) = e
<1>1. /\ Start \in 1 .. Len(line) /\ e \in Start + 1 .. Len(line) + 1 /\ Len(line) \in Nat
      /\ \A j \in Start .. e - 1 :
           j - Start + 1 \in 1 .. Len(Spell(i)) /\ line[j] = Spell(i)[j - Start + 1]
      /\ DOMAIN Spell(i) = 1 .. Len(Spell(i)) /\ line \in Seq(Chars)
  BY AtIs, SeqParts DEF At
<1>2. \A j \in Start .. e - 1 : line[j] \in S
  BY <1>1 DEF AllIn
<1>3. Start \in 1 .. Len(line) + 1 /\ e \in Start .. Len(line) + 1
  BY <1>1
<1>4. QED
  BY <1>1, <1>2, <1>3, FirstOutIs

LEMMA ChompsNumber ==
  ASSUME NEW i, NEW e, At(i, e), Spell(i)[1] \in Digits, AllIn(Spell(i), Digits),
         e <= Len(line) => line[e] \notin Digits \cup {Point}
  PROVE  Presumed = "number" /\ End = e /\ ~Endless
<1>1. Presumed = "number"
  BY AtIs, PresumedIs DEF Presumed
<1>2. End = e
  BY <1>1, ChompsPlain, EndIs
<1>3. e \in Start + 1 .. Len(line) + 1 /\ Start \in 1 .. Len(line)
  BY AtIs
<1>4. ~Endless
  BY <1>1, <1>2, EndIs
<1>5. QED
  BY <1>1, <1>2, <1>4

LEMMA ChompsWord ==
  ASSUME NEW i, NEW e, At(i, e), Spell(i)[1] \in Letters, AllIn(Spell(i), Letters \cup Digits),
         e <= Len(line) => line[e] \notin Letters \cup Digits
  PROVE  Presumed = "word" /\ End = e /\ ~Endless
<1>1. Presumed = "word"
  BY AtIs, PresumedIs DEF Presumed
<1>2. End = e
  BY <1>1, ChompsPlain, EndIs
<1>3. ~Endless
  BY <1>1, EndIs
<1>4. QED
  BY <1>1, <1>2, <1>3

\* Between the quotes there is none.
LEMMA ChompsQuoted ==
  ASSUME NEW i, NEW e, At(i, e), Spell(i)[1] \in Quotes, Last(Spell(i)) = Spell(i)[1],
         Len(Spell(i)) > 2, \A j \in 2 .. Len(Spell(i)) - 1 : Spell(i)[j] # Spell(i)[1]
  PROVE  Presumed \in {"char", "string"} /\ End = e /\ ~Endless
<1> DEFINE s == Start
           text == Spell(i)
           m == Len(text)
<1>1. Presumed \in {"char", "string"}
  BY AtIs, PresumedIs, Characters DEF Presumed
<1>2. /\ s \in 1 .. Len(line) /\ e \in s + 1 .. Len(line) + 1 /\ Len(line) \in Nat
      /\ e = s + m /\ m \in Nat \ {0}
      /\ \A j \in s .. e - 1 : j - s + 1 \in 1 .. m /\ line[j] = text[j - s + 1]
      /\ line[s] = text[1] /\ line[e - 1] = text[1]
  BY AtIs
<1>3. m > 2 /\ \A j \in 2 .. m - 1 : text[j] # text[1]
  OBVIOUS
<1> HIDE DEF s, text, m
<1>4. ASSUME NEW j \in s + 1 .. e - 2 PROVE line[j] # line[s]
  <2>1. j \in s .. e - 1 /\ j - s + 1 \in 2 .. m - 1
    BY <1>2
  <2>2. QED
    BY <1>2, <1>3, <2>1
<1>5. Closes = {j \in s + 1 .. Len(line) : line[j] = line[s] /\ line[j - 1] # line[s]}
  BY DEF Closes, s
<1>6. e - 1 \in Closes
  <2>1. e - 1 \in s + 1 .. Len(line) /\ e - 1 - 1 \in s + 1 .. e - 2
    BY <1>2, <1>3
  <2>2. line[e - 1 - 1] # line[s]
    BY <1>4, <2>1
  <2>3. QED
    BY <1>2, <1>5, <2>1, <2>2
<1>7. \A j \in Closes : e - 1 <= j
  <2>1. SUFFICES ASSUME NEW j \in Closes, ~(e - 1 <= j) PROVE FALSE
    OBVIOUS
  <2>2. j \in s + 1 .. Len(line) /\ line[j] = line[s]
    BY <1>5
  <2>3. j \in s + 1 .. e - 2
    BY <1>2, <2>1, <2>2
  <2>4. QED
    BY <1>4, <2>2, <2>3
<1>8. Closes \in SUBSET Nat
  BY <1>2, <1>5
<1>9. Min(Closes) = e - 1
  BY <1>6, <1>7, <1>8, MinIs
<1>10. End = e
  <2>1. e - 1 + 1 = e
    BY <1>2
  <2>2. QED
    BY <1>1, <1>9, <2>1, EndIs
<1>11. ~Endless
  BY <1>1, <1>6, EndIs
<1>12. QED
  BY <1>1, <1>10, <1>11

\* Symbols after an operation are read with it.
LEMMA ChompsOperation ==
  ASSUME NEW i, NEW e, At(i, e), AllIn(Spell(i), Symbols \ (Quotes \cup {Point}))
  PROVE  /\ Presumed = "operation" /\ ~Endless
         /\ \/ End = e
            \/ /\ e <= Len(line) /\ line[e] \in Symbols
               /\ End \in e + 1 .. Len(line) + 1
<1> DEFINE S == Digits \cup Letters \cup {Blank}
<1>1. /\ Start \in 1 .. Len(line) /\ e \in Start + 1 .. Len(line) + 1 /\ Len(line) \in Nat
      /\ \A j \in Start .. e - 1 :
           j - Start + 1 \in 1 .. Len(Spell(i)) /\ line[j] = Spell(i)[j - Start + 1]
      /\ line[Start] = Spell(i)[1]
      /\ DOMAIN Spell(i) = 1 .. Len(Spell(i)) /\ line \in Seq(Chars) /\ Len(Spell(i)) \in Nat \ {0}
  BY AtIs, SeqParts DEF At
<1>2. Symbols = Chars \ S
  BY Zenon DEF Symbols, Blank
<1>3. \A j \in Start .. e - 1 : line[j] \in Symbols /\ line[j] \notin S
  BY <1>1, <1>2 DEF AllIn
<1>4. Presumed = "operation"
  <2>1. 1 \in DOMAIN Spell(i)
    BY <1>1
  <2>2. Spell(i)[1] \in Chars \ (S \cup Quotes)
    BY <1>2, <2>1 DEF AllIn
  <2>3. QED
    BY <1>1, <2>2, PresumedIs DEF Presumed
<1>5. End = FirstIn(S, Start) /\ ~Endless
  BY <1>4, EndIs
<1> HIDE DEF S
<1>6. Start \in 1 .. Len(line) + 1 /\ e \in Start .. Len(line) + 1 /\ \A j \in 1 .. Len(line) : line[j] \in Chars
  BY <1>1
<1>7. CASE e <= Len(line) /\ line[e] \notin S
  <2>1. /\ End \in Start .. Len(line) + 1
        /\ End <= Len(line) => line[End] \in S
    BY <1>1, <1>5, <1>6, FirstInBounds, FirstInStops
  <2>2. End \notin Start .. e
    <3>1. \A j \in Start .. e : j = e \/ j \in Start .. e - 1
      BY <1>1
    <3>2. \A j \in Start .. e : j <= Len(line) /\ line[j] \notin S
      BY <1>1, <1>3, <1>7, <3>1
    <3>3. QED
      BY <2>1, <3>2
  <2>3. End \in e + 1 .. Len(line) + 1
    BY <1>1, <2>1, <2>2
  <2>4. line[e] \in Symbols
    BY <1>1, <1>2, <1>6, <1>7
  <2>5. QED
    BY <1>4, <1>5, <1>7, <2>3, <2>4
<1>8. CASE ~(e <= Len(line) /\ line[e] \notin S)
  <2>1. FirstIn(S, Start) = e
    BY <1>1, <1>3, <1>6, <1>8, FirstInIs
  <2>2. QED
    BY <1>4, <1>5, <2>1
<1>9. QED
  BY <1>7, <1>8

(***************************************************************************)
(* What the assumptions say of the lexemes of a line                       *)
(***************************************************************************)
OfSymbols(text) == AllIn(text, Symbols \ (Quotes \cup {Point}))

LEMMA OperationIs ==
  ASSUME NEW o \in Operations, o[1] \notin Letters
  PROVE  /\ o \in Seq(Chars) /\ Len(o) \in Nat \ {0} /\ OfSymbols(o)
         /\ \A m \in 1 .. Len(o) : SubSeq(o, 1, m) \in Operations
<1>1. o \in Seq(Chars) \ {<<>>}
  BY SpellingsAssumption
<1>2. o \in Seq(Chars) /\ Len(o) \in Nat \ {0}
  BY <1>1
<1>3. OfSymbols(o) /\ \A m \in 1 .. Len(o) : SubSeq(o, 1, m) \in Operations
  BY OperationsAssumption, Zenon DEF OfSymbols, Point
<1>4. QED
  BY <1>2, <1>3

LEMMA CommentIs ==
  /\ Comment \in Operations /\ Comment[1] \notin Letters /\ OfSymbols(Comment)
  /\ Comment \in Seq(Chars) /\ Len(Comment) \in Nat \ {0} /\ Len(Comment) < MaxText
  /\ \A o \in Operations : ~IsStrictPrefix(Comment, o)
  /\ Tokenized("operation", Comment) # NoToken
<1>1. /\ Comment \in Operations /\ Comment[1] \notin Letters /\ Len(Comment) < MaxText
      /\ \A o \in Operations : ~IsStrictPrefix(Comment, o)
      /\ Named("operation", Comment) # NoToken
  BY CommentAssumption
<1>2. Tokenized("operation", Comment) = Named("operation", Comment)
  BY <1>1 DEF Tokenized, Found
<1>3. QED
  BY <1>1, <1>2, OperationIs

LEMMA SymbolsAre ==
  ASSUME NEW c \in Symbols
  PROVE  c \in Chars /\ c \notin Digits \cup Letters /\ c # Blank
<1>1. Symbols = Chars \ (Digits \cup Letters \cup {Blank})
  BY Zenon DEF Symbols, Blank
<1>2. QED
  BY <1>1

\* The four kinds of lexemes.
IsNumber(text) == text[1] \in Digits /\ AllIn(text, Digits)
IsWord(text)   == text[1] \in Letters /\ AllIn(text, Letters \cup Digits)
IsQuoted(text) ==
  /\ text[1] \in Quotes /\ Last(text) = text[1] /\ Len(text) > 2
  /\ \A j \in 2 .. Len(text) - 1 : text[j] # text[1]
IsOperation(text) == text \in Operations /\ text[1] \notin Letters

LEMMA KindOf ==
  ASSUME NEW text \in Seq(Chars), text # <<>>, Formed(text), ~Quoting(text)
  PROVE  IsNumber(text) \/ IsWord(text) \/ IsQuoted(text) \/ IsOperation(text)
<1>1. Formed(text) <=>
        CASE text[1] \in Digits  -> AllIn(text, Digits)
          [] text[1] \in Letters -> AllIn(text, Letters \cup Digits)
          [] text[1] \in Quotes  ->
               /\ Last(text) = text[1]
               /\ Len(text) > 2 \/ text = <<Double, Double>>
               /\ \A i \in 2 .. Len(text) - 1 : text[i] = text[1] => text[i - 1] = Backslash
          [] OTHER               -> text \in Operations
  BY Zenon DEF Formed, Double, Backslash
<1>2. Quoting(text) <=>
        \/ text = <<Double, Double>>
        \/ \E i \in 2 .. Len(text) - 1 : text[i - 1] = Backslash /\ text[i] = text[1]
  BY Zenon DEF Quoting, Double, Backslash
<1>3. CASE text[1] \in Digits
  <2>1. text[1] \notin Letters /\ text[1] \notin Quotes
    BY <1>3, Characters
  <2>2. QED
    BY <1>1, <1>3, <2>1 DEF IsNumber
<1>4. CASE text[1] \in Letters /\ text[1] \notin Digits
  <2>1. text[1] \notin Digits /\ text[1] \notin Quotes
    BY <1>4, Characters
  <2>2. QED
    BY <1>1, <1>4, <2>1 DEF IsWord
<1>5. CASE text[1] \in Quotes
  <2>1. text[1] \notin Digits /\ text[1] \notin Letters
    BY <1>5, Characters
  <2>2. /\ Last(text) = text[1]
        /\ Len(text) > 2 \/ text = <<Double, Double>>
        /\ \A i \in 2 .. Len(text) - 1 : text[i] = text[1] => text[i - 1] = Backslash
    BY <1>1, <1>5, <2>1
  <2>3. QED
    BY <1>2, <1>5, <2>2, Zenon DEF IsQuoted
<1>6. CASE text[1] \notin Digits /\ text[1] \notin Letters /\ text[1] \notin Quotes
  BY <1>1, <1>6 DEF IsOperation
<1>7. QED
  BY <1>3, <1>4, <1>5, <1>6

ReadCount == Min(Comments \cup {Len(source) + 1}) - 1

LEMMA ReadIs ==
  ASSUME SourceOK
  PROVE  /\ ReadCount \in 0 .. Len(source) /\ Read = 1 .. ReadCount /\ Cardinality(Read) = ReadCount
         /\ Comments = {i \in 1 .. Len(source) : Spell(i) = Comment}
         /\ \A i \in Read : i \in 1 .. Len(source) /\ i \notin Comments
         /\ \A i \in Read : i < Len(source) => i + 1 \in Read \cup Comments
         /\ ReadCount < Len(source) => ReadCount + 1 \in Comments
<1> DEFINE n == Len(source)
           U == Comments \cup {n + 1}
<1>1. n \in Nat /\ DOMAIN source = 1 .. n
  BY DEF SourceOK
<1>2. Comments = {i \in 1 .. n : Spell(i) = Comment}
  BY <1>1 DEF Comments, Spell
<1>3. U \in SUBSET Nat /\ U # {} /\ U \subseteq 1 .. n + 1
  BY <1>1, <1>2
<1>4. ReadCount = Min(U) - 1 /\ Read = 1 .. ReadCount
  BY DEF ReadCount, Read
<1> HIDE DEF U
<1>5. Min(U) \in U /\ \A y \in U : Min(U) <= y
  BY <1>3, MinExists
<1>6. PICK m \in 1 .. n + 1 : m = Min(U)
  BY <1>3, <1>5
<1>7. ReadCount \in 0 .. n /\ ReadCount \in Nat
  BY <1>1, <1>4, <1>6
<1>8. Cardinality(Read) = ReadCount
  <2>1. Cardinality(1 .. ReadCount) = ReadCount
    <3>1. PICK r \in Nat : r = ReadCount
      BY <1>7
    <3>2. Cardinality(1 .. r) = r
      BY FS_Interval
    <3>3. QED
      BY <3>1, <3>2
  <2>2. QED
    BY <1>4, <2>1
<1>9. ASSUME NEW i \in Read PROVE i \in 1 .. n /\ i \notin Comments
  <2>1. i \in 1 .. n /\ i < m
    BY <1>1, <1>4, <1>6
  <2>2. i \notin U
    BY <1>5, <1>6, <2>1
  <2>3. QED
    BY <2>1, <2>2 DEF U
<1>10. ReadCount < n => ReadCount + 1 \in Comments
  <2>1. SUFFICES ASSUME ReadCount < n PROVE ReadCount + 1 \in Comments
    OBVIOUS
  <2>2. ReadCount + 1 = m /\ m # n + 1
    BY <1>1, <1>4, <1>6, <2>1
  <2>3. QED
    BY <1>5, <1>6, <2>2 DEF U
<1>11. ASSUME NEW i \in Read, i < n PROVE i + 1 \in Read \cup Comments
  <2>1. i \in 1 .. ReadCount
    BY <1>4
  <2>2. i + 1 \in 1 .. ReadCount \/ i = ReadCount
    BY <1>7, <2>1
  <2>3. QED
    BY <1>4, <1>10, <1>11, <2>2
<1>12. QED
  BY <1>2, <1>4, <1>7, <1>8, <1>9, <1>10, <1>11

\* The lexemes of the line mean something, and keep apart.
Meaningful == ConvertsLexemes /\ Sound /\ Separate

LEMMA LexemeIs ==
  ASSUME SourceOK, Meaningful, NEW i \in Read
  PROVE  /\ i \in 1 .. Len(source)
         /\ Tokenized(PresumedBy(Spell(i)[1]), Spell(i)) = source[i].lexeme.token
         /\ source[i].lexeme.token # NoToken
         /\ IsNumber(Spell(i)) \/ IsWord(Spell(i)) \/ IsQuoted(Spell(i)) \/ IsOperation(Spell(i))
         /\ Spell(i)[1] # Blank /\ Spell(i)[1] # Point
<1>1. i \in 1 .. Len(source)
  BY ReadIs
<1>2. source[i].lexeme.token # NoToken /\ ~Quoting(Spell(i))
  BY DEF Meaningful, Sound
<1>3. source[i].lexeme \in Lexemes /\ Spell(i) \in Seq(Chars) /\ Len(Spell(i)) \in Nat \ {0}
      /\ source[i].lexeme.text = Spell(i)
  BY <1>1, SpellIs DEF Spell
<1>4. Tokenized(PresumedBy(Spell(i)[1]), Spell(i)) = source[i].lexeme.token
  BY <1>2, <1>3 DEF Meaningful, ConvertsLexemes
<1>5. Formed(Spell(i))
  BY <1>2, <1>3, LexemesAssumption
<1>6. Spell(i) # <<>>
  BY <1>3
<1>7. IsNumber(Spell(i)) \/ IsWord(Spell(i)) \/ IsQuoted(Spell(i)) \/ IsOperation(Spell(i))
  BY <1>2, <1>3, <1>5, <1>6, KindOf
<1>8. Spell(i)[1] # Blank /\ Spell(i)[1] # Point
  <2>1. CASE IsNumber(Spell(i)) \/ IsWord(Spell(i)) \/ IsQuoted(Spell(i))
    BY <2>1, Characters DEF IsNumber, IsWord, IsQuoted
  <2>2. CASE IsOperation(Spell(i))
    <3>1. OfSymbols(Spell(i))
      BY <2>2, OperationIs DEF IsOperation
    <3>2. 1 \in DOMAIN Spell(i)
      BY <1>3
    <3>3. Spell(i)[1] \in Symbols \ (Quotes \cup {Point})
      BY <3>1, <3>2 DEF OfSymbols, AllIn
    <3>4. QED
      BY <3>3, SymbolsAre
  <2>3. QED
    BY <1>7, <2>1, <2>2
<1>9. QED
  BY <1>1, <1>2, <1>4, <1>7, <1>8

(***************************************************************************)
(* One lexeme                                                              *)
(***************************************************************************)

\* What follows a lexeme in the line cannot be taken for a part of it, except
\* after an operation.
LEMMA Apart ==
  ASSUME SourceOK, Meaningful, NEW i \in Read, NEW e, At(i, e), e <= Len(line)
  PROVE  /\ line[e] # Point
         /\ Last(Spell(i)) \in Digits \cup Letters => line[e] \notin Digits \cup Letters
<1> DEFINE n == Len(source)
<1>1. /\ i + 1 \in 1 .. n /\ i \in 1 .. n
      /\ line[e] = IF source[i + 1].spaced THEN Blank ELSE Spell(i + 1)[1]
  BY DEF At, Placed
<1>2. i < n /\ n \in Nat
  BY <1>1 DEF SourceOK
<1>3. Blank # Point /\ Blank \notin Digits \cup Letters
  BY Characters
<1>4. CASE source[i + 1].spaced
  BY <1>1, <1>3, <1>4
<1>5. CASE ~source[i + 1].spaced
  <2>1. line[e] = Spell(i + 1)[1]
    BY <1>1, <1>5
  <2>2. ~Merges(i)
    BY <1>2 DEF Meaningful, Separate
  <2>3. ~({Last(Spell(i)), Head(Spell(i + 1))} \subseteq Digits \cup Letters)
    BY <1>5, <2>2 DEF Merges
  <2>4. Head(Spell(i + 1)) = Spell(i + 1)[1]
    BY <1>1, SpellIs
  <2>5. Spell(i + 1)[1] # Point
    <3>1. i + 1 \in Read \cup Comments
      BY <1>2, ReadIs
    <3>2. CASE i + 1 \in Read
      BY <3>2, LexemeIs
    <3>3. CASE i + 1 \in Comments
      <4>1. Spell(i + 1) = Comment
        BY <3>3, ReadIs
      <4>2. 1 \in DOMAIN Comment
        BY CommentIs
      <4>3. Comment[1] \in Symbols \ (Quotes \cup {Point})
        BY <4>2, CommentIs DEF OfSymbols, AllIn
      <4>4. QED
        BY <4>1, <4>3
    <3>4. QED
      BY <3>1, <3>2, <3>3
  <2>6. QED
    BY <2>1, <2>3, <2>4, <2>5
<1>6. QED
  BY <1>4, <1>5

\* Symbols read with an operation make it another text, which goes on as the
\* line does.
LEMMA Swallows ==
  ASSUME NEW i, NEW e, At(i, e), IsOperation(Spell(i)),
         e <= Len(line), line[e] \in Symbols, End \in e + 1 .. Len(line) + 1
  PROVE  /\ RunsOn(i)
         /\ IsStrictPrefix(Spell(i), Text)
         /\ Text[1] = Spell(i)[1] /\ Len(Text) \in Nat /\ Len(Spell(i)) + 1 \in 1 .. Len(Text)
         /\ IsStrictPrefix(Spell(i), SubSeq(Text, 1, Len(Spell(i)) + 1))
         /\ IsPrefix(SubSeq(Text, 1, Len(Spell(i)) + 1), Spell(i) \o Spell(i + 1))
<1> DEFINE n == Len(source)
           s == Start
           text == Spell(i)
           m == Len(text)
<1>1. /\ i \in 1 .. n /\ Len(line) \in Nat /\ line \in Seq(Chars)
      /\ text \in Seq(Chars) /\ m \in Nat \ {0}
      /\ s \in 1 .. Len(line) /\ e \in s + 1 .. Len(line) + 1 /\ e = s + m
      /\ \A j \in s .. e - 1 : j - s + 1 \in 1 .. m /\ line[j] = text[j - s + 1]
      /\ line[s] = text[1] /\ SubSeq(line, s, e - 1) = text
  BY AtIs DEF At
<1>2. /\ i + 1 \in 1 .. n
      /\ line[e] = IF source[i + 1].spaced THEN Blank ELSE Spell(i + 1)[1]
  BY DEF At, Placed
<1>3. ~source[i + 1].spaced /\ line[e] = Spell(i + 1)[1]
  <2>1. line[e] # Blank
    BY SymbolsAre
  <2>2. QED
    BY <1>2, <2>1
<1>4. RunsOn(i)
  <2>1. i < n
    BY <1>1, <1>2
  <2>2. Last(text) \in Symbols
    <3>1. OfSymbols(text) /\ m \in DOMAIN text
      BY <1>1, OperationIs DEF IsOperation
    <3>2. text[m] \in Symbols
      BY <3>1 DEF OfSymbols, AllIn
    <3>3. QED
      BY <3>2 DEF Last
  <2>3. Head(Spell(i + 1)) = Spell(i + 1)[1]
    BY <1>2, SpellIs DEF At
  <2>4. QED
    BY <1>3, <2>1, <2>2, <2>3 DEF RunsOn, IsOperation
<1> DEFINE t == Text
<1>5. /\ t \in Seq(Chars) /\ Len(t) = End - s /\ m + 1 \in 1 .. Len(t) /\ Len(t) \in Nat
      /\ \A j \in 1 .. End - s : t[j] = line[s + j - 1]
  <2>1. /\ s \in 1 .. Len(line) + 1 /\ End - 1 \in s - 1 .. Len(line) /\ End - 1 - s + 1 = End - s
        /\ End - s \in Nat /\ m + 1 \in 1 .. End - s
    <3> HIDE DEF s, m
    <3>1. QED
      BY <1>1
  <2>2. /\ t \in Seq(Chars) /\ Len(t) = End - 1 - s + 1
        /\ \A j \in 1 .. End - 1 - s + 1 : t[j] = line[s + j - 1]
    BY <1>1, <2>1, PartOf DEF Text
  <2> HIDE DEF s, m, t
  <2>3. QED
    BY <2>1, <2>2
<1> HIDE DEF t, m, s, text
<1>6. \A j \in 1 .. m : t[j] = text[j]
  <2>1. SUFFICES ASSUME NEW j \in 1 .. m PROVE t[j] = text[j]
    OBVIOUS
  <2>2. s + j - 1 \in s .. e - 1 /\ s + j - 1 - s + 1 = j /\ j \in 1 .. End - s
    BY <1>1, <1>5
  <2>3. line[s + j - 1] = text[j]
    <3>1. PICK p \in s .. e - 1 : p = s + j - 1
      BY <2>2, Zenon
    <3>4. p - s + 1 = j
      BY <1>1, <3>1
    <3>2. line[p] = text[p - s + 1]
      BY <1>1
    <3>3. QED
      BY <3>1, <3>2, <3>4
  <2>4. QED
    BY <1>5, <2>2, <2>3
<1>7. t[m + 1] = Spell(i + 1)[1]
  <2>1. m + 1 \in 1 .. End - s /\ s + (m + 1) - 1 = e
    BY <1>1, <1>5
  <2>2. QED
    BY <1>3, <1>5, <2>1
<1>8. ASSUME NEW u \in Seq(Chars), Len(u) \in Nat, m + 1 <= Len(u), \A j \in 1 .. m : u[j] = text[j]
      PROVE  IsStrictPrefix(text, u)
  <2>1. SubSeq(u, 1, m) \in Seq(Chars) /\ Len(SubSeq(u, 1, m)) = m
        /\ \A j \in 1 .. m : SubSeq(u, 1, m)[j] = u[j]
    <3>1. 1 \in 1 .. Len(u) + 1 /\ m \in 1 - 1 .. Len(u) /\ m - 1 + 1 = m /\ \A j \in 1 .. m : 1 + j - 1 = j
      BY <1>1, <1>8
    <3>2. /\ SubSeq(u, 1, m) \in Seq(Chars) /\ Len(SubSeq(u, 1, m)) = m - 1 + 1
          /\ \A j \in 1 .. m - 1 + 1 : SubSeq(u, 1, m)[j] = u[1 + j - 1]
      BY <3>1, PartOf
    <3>3. QED
      BY <3>1, <3>2
  <2>2. SubSeq(text, 1, m) = text
    BY <1>1 DEF m
  <2>3. SubSeq(u, 1, m) = text
    <3>1. IsSeq(SubSeq(u, 1, m)) /\ IsSeq(text)
      BY <1>1, <2>1, SeqParts
    <3>2. Len(text) = m
      BY DEF m
    <3>3. QED
      BY <1>8, <2>1, <3>1, <3>2, SameSeq
  <2>4. text # u
    BY <1>1, <1>8 DEF m
  <2>5. Len(text) = m /\ m <= Len(u)
    BY <1>1, <1>8 DEF m
  <2>6. Len(text) <= Len(u) /\ SubSeq(text, 1, Len(text)) = SubSeq(u, 1, Len(text))
    BY <2>2, <2>3, <2>5, Zenon
  <2>7. QED
    BY <2>4, <2>6, Zenon DEF IsStrictPrefix, IsPrefix
<1>9. IsStrictPrefix(text, t)
  BY <1>1, <1>5, <1>6, <1>8
<1> DEFINE o == SubSeq(t, 1, m + 1)
<1>10. /\ o \in Seq(Chars) /\ Len(o) = m + 1
       /\ \A j \in 1 .. m : o[j] = text[j]
       /\ o[m + 1] = Spell(i + 1)[1]
  <2>1. /\ 1 \in 1 .. Len(t) + 1 /\ m + 1 \in 1 - 1 .. Len(t) /\ m + 1 - 1 + 1 = m + 1
        /\ \A j \in 1 .. m + 1 : 1 + j - 1 = j
        /\ \A j \in 1 .. m : j \in 1 .. m + 1
        /\ m + 1 \in 1 .. m + 1
    BY <1>1, <1>5
  <2>2. /\ o \in Seq(Chars) /\ Len(o) = m + 1 - 1 + 1
        /\ \A j \in 1 .. m + 1 - 1 + 1 : o[j] = t[1 + j - 1]
    BY <1>5, <2>1, PartOf
  <2> HIDE DEF o
  <2>3. QED
    BY <1>6, <1>7, <2>1, <2>2
<1> HIDE DEF o
<1>11. IsStrictPrefix(text, o)
  <2>1. Len(o) \in Nat /\ m + 1 <= Len(o)
    BY <1>1, <1>10
  <2>2. QED
    BY <1>8, <1>10, <2>1
<1>12. IsPrefix(o, text \o Spell(i + 1))
  <2>1. Spell(i + 1) \in Seq(Chars) /\ Len(Spell(i + 1)) \in Nat \ {0}
    BY <1>2, SpellIs DEF At
  <2> DEFINE w == text \o Spell(i + 1)
  <2>2. /\ w \in Seq(Chars) /\ Len(w) = m + Len(Spell(i + 1)) /\ w[m + 1] = Spell(i + 1)[1]
        /\ \A j \in 1 .. m : w[j] = text[j]
    <3>1. ASSUME NEW x \in Seq(Chars), NEW y \in Seq(Chars), Len(y) # 0
          PROVE  /\ x \o y \in Seq(Chars) /\ Len(x \o y) = Len(x) + Len(y)
                 /\ (x \o y)[Len(x) + 1] = y[1]
                 /\ \A j \in 1 .. Len(x) : (x \o y)[j] = x[j]
      BY <3>1
    <3>2. QED
      BY <1>1, <2>1, <3>1 DEF m
  <2> HIDE DEF w
  <2>3. SubSeq(w, 1, m + 1) = o
    <3>1. /\ 1 \in 1 .. Len(w) + 1 /\ m + 1 \in 1 - 1 .. Len(w) /\ m + 1 - 1 + 1 = m + 1
          /\ \A j \in 1 .. m + 1 : 1 + j - 1 = j
          /\ \A j \in 1 .. m + 1 : j \in 1 .. m \/ j = m + 1
      BY <1>1, <2>1, <2>2
    <3> DEFINE x == SubSeq(w, 1, m + 1)
    <3>6. /\ x \in Seq(Chars) /\ Len(x) = m + 1 - 1 + 1
          /\ \A j \in 1 .. m + 1 - 1 + 1 : x[j] = w[1 + j - 1]
      BY <2>2, <3>1, PartOf
    <3> HIDE DEF x
    <3>2. x \in Seq(Chars) /\ Len(x) = m + 1 /\ \A j \in 1 .. m + 1 : x[j] = w[j]
      BY <3>1, <3>6
    <3>3. \A j \in 1 .. m + 1 : x[j] = o[j]
      BY <1>10, <2>2, <3>1, <3>2
    <3>4. IsSeq(x) /\ IsSeq(o)
      BY <1>10, <3>2, SeqParts
    <3>5. x = o
      BY <1>10, <3>2, <3>3, <3>4, SameSeq
    <3>7. QED
      BY <3>5 DEF x
  <2>4. SubSeq(o, 1, Len(o)) = o
    BY <1>10
  <2>5. Len(o) <= Len(w)
    BY <1>1, <1>10, <2>1, <2>2
  <2>6. IsPrefix(o, w)
    BY <1>10, <2>3, <2>4, <2>5 DEF IsPrefix
  <2>7. QED
    BY <2>6 DEF w
<1>13. t[1] = text[1]
  <2>1. 1 \in 1 .. m
    BY <1>1
  <2>2. QED
    BY <1>6, <2>1
<1>14. QED
  BY <1>4, <1>5, <1>9, <1>11, <1>12, <1>13 DEF o, t, m, text

\* What presumes an operation and spells none is no token.
LEMMA NoOperation ==
  ASSUME NEW text, text \notin Operations
  PROVE  Tokenized("operation", text) = NoToken
<1>1. Found("operation", text) = NoToken
  <2>1. /\ ~(text \in Operations)
        /\ "operation" = "operation" /\ text \notin Operations
        /\ ~("operation" # "operation" /\ text \in Attributes \ Operations)
        /\ ~("operation" # "operation" /\ text \in Types \ (Operations \cup Attributes))
    OBVIOUS
  <2>2. QED
    BY <2>1 DEF Found
<1>2. Tokenized("operation", text) = Found("operation", text)
  BY DEF Tokenized
<1>3. QED
  BY <1>1, <1>2

\* Chomp and tokenize at lexeme i: it is read, or symbols after it make it
\* something that means nothing.
LEMMA ReadsLexeme ==
  ASSUME SourceOK, Meaningful, NEW i \in Read, NEW e, At(i, e)
  PROVE  /\ Start <= Len(line) /\ ~Endless
         /\ \/ /\ End = e /\ Text = Spell(i)
               /\ Token = source[i].lexeme.token /\ Token # NoToken /\ Text # Comment
            \/ RunsOn(i) /\ Token = NoToken /\ Text # Comment
<1>1. /\ i \in 1 .. Len(source)
      /\ Tokenized(PresumedBy(Spell(i)[1]), Spell(i)) = source[i].lexeme.token
      /\ source[i].lexeme.token # NoToken
      /\ IsNumber(Spell(i)) \/ IsWord(Spell(i)) \/ IsQuoted(Spell(i)) \/ IsOperation(Spell(i))
  BY LexemeIs
<1>2. /\ Start \in 1 .. Len(line) /\ e \in Start + 1 .. Len(line) + 1 /\ Len(line) \in Nat
      /\ line[Start] = Spell(i)[1] /\ SubSeq(line, Start, e - 1) = Spell(i)
      /\ Spell(i) \in Seq(Chars) /\ Len(Spell(i)) \in Nat \ {0}
  BY AtIs
<1>3. Presumed = PresumedBy(Spell(i)[1])
  BY <1>2 DEF Presumed
<1>4. Spell(i) # Comment
  BY <1>1, ReadIs
<1>5. ASSUME End = e, ~Endless
      PROVE  /\ Start <= Len(line) /\ ~Endless /\ End = e /\ Text = Spell(i)
             /\ Token = source[i].lexeme.token /\ Token # NoToken /\ Text # Comment
  <2>1. Text = Spell(i)
    BY <1>2, <1>5, Zenon DEF Text
  <2>2. Token = source[i].lexeme.token
    BY <1>1, <1>3, <2>1, Zenon DEF Token
  <2>3. Start <= Len(line)
    BY <1>2
  <2>4. QED
    BY <1>1, <1>4, <1>5, <2>1, <2>2, <2>3
<1>6. Last(Spell(i)) = Spell(i)[Len(Spell(i))] /\ Len(Spell(i)) \in DOMAIN Spell(i)
  BY <1>2 DEF Last
<1>7. CASE IsNumber(Spell(i))
  <2>1. Last(Spell(i)) \in Digits
    BY <1>6, <1>7 DEF IsNumber, AllIn
  <2>2. e <= Len(line) => line[e] \notin Digits \cup {Point}
    BY <2>1, Apart
  <2>3. End = e /\ ~Endless
    BY <1>7, <2>2, ChompsNumber DEF IsNumber
  <2>4. QED
    BY <1>5, <2>3
<1>8. CASE IsWord(Spell(i))
  <2>1. Last(Spell(i)) \in Digits \cup Letters
    BY <1>6, <1>8 DEF IsWord, AllIn
  <2>2. e <= Len(line) => line[e] \notin Letters \cup Digits
    BY <2>1, Apart
  <2>3. End = e /\ ~Endless
    BY <1>8, <2>2, ChompsWord DEF IsWord
  <2>4. QED
    BY <1>5, <2>3
<1>9. CASE IsQuoted(Spell(i))
  <2>1. End = e /\ ~Endless
    BY <1>9, ChompsQuoted DEF IsQuoted
  <2>2. QED
    BY <1>5, <2>1
<1>10. CASE IsOperation(Spell(i))
  <2>1. OfSymbols(Spell(i))
    BY <1>10, OperationIs DEF IsOperation
  <2>2. /\ Presumed = "operation" /\ ~Endless
        /\ \/ End = e
           \/ /\ e <= Len(line) /\ line[e] \in Symbols
              /\ End \in e + 1 .. Len(line) + 1
    BY <2>1, ChompsOperation DEF OfSymbols
  <2>3. CASE End = e
    BY <1>5, <2>2, <2>3
  <2>4. CASE e <= Len(line) /\ line[e] \in Symbols /\ End \in e + 1 .. Len(line) + 1
    <3>1. /\ RunsOn(i) /\ Text[1] = Spell(i)[1]
          /\ Len(Text) \in Nat /\ Len(Spell(i)) + 1 \in 1 .. Len(Text)
          /\ IsStrictPrefix(Spell(i), SubSeq(Text, 1, Len(Spell(i)) + 1))
          /\ IsPrefix(SubSeq(Text, 1, Len(Spell(i)) + 1), Spell(i) \o Spell(i + 1))
      BY <1>10, <2>4, Swallows
    <3>2. Text \notin Operations
      <4>1. SUFFICES ASSUME Text \in Operations PROVE FALSE
        OBVIOUS
      <4>2. SubSeq(Text, 1, Len(Spell(i)) + 1) \in Operations
        BY <1>10, <3>1, <4>1, OperationIs DEF IsOperation
      <4>3. Merges(i)
        BY <3>1, <4>2, Zenon DEF Merges, RunsOn
      <4>4. i < Len(source)
        BY <3>1 DEF RunsOn
      <4>5. QED
        BY <4>3, <4>4 DEF Meaningful, Separate
    <3>3. Token = NoToken
      BY <2>2, <3>2, NoOperation DEF Token
    <3>4. Start <= Len(line)
      BY <1>2
    <3>5. Text # Comment
      BY <3>2, CommentIs
    <3>6. QED
      BY <2>2, <3>1, <3>3, <3>4, <3>5
  <2>5. QED
    BY <2>2, <2>3, <2>4
<1>11. QED
  BY <1>1, <1>7, <1>8, <1>9, <1>10

\* At a comment, the same.
LEMMA ReadsComment ==
  ASSUME SourceOK, NEW i \in Comments, NEW e, At(i, e)
  PROVE  /\ Start <= Len(line) /\ ~Endless
         /\ \/ Text = Comment /\ Token # NoToken
            \/ RunsOn(i) /\ Token = NoToken /\ Text # Comment
<1>1. /\ Start \in 1 .. Len(line) /\ e \in Start + 1 .. Len(line) + 1 /\ Len(line) \in Nat
      /\ SubSeq(line, Start, e - 1) = Spell(i)
  BY AtIs
<1>2. Spell(i) = Comment
  BY ReadIs
<1>3. /\ Presumed = "operation" /\ ~Endless
      /\ \/ End = e
         \/ /\ e <= Len(line) /\ line[e] \in Symbols
            /\ End \in e + 1 .. Len(line) + 1
  BY <1>2, CommentIs, ChompsOperation DEF OfSymbols
<1>4. CASE End = e
  <2>1. Text = Comment
    BY <1>1, <1>2, <1>4 DEF Text
  <2>2. Token # NoToken
    BY <1>3, <2>1, CommentIs DEF Token
  <2>3. QED
    BY <1>1, <1>3, <2>1, <2>2
<1>5. CASE e <= Len(line) /\ line[e] \in Symbols /\ End \in e + 1 .. Len(line) + 1
  <2>1. RunsOn(i) /\ IsStrictPrefix(Comment, Text)
    BY <1>2, <1>5, CommentIs, Swallows DEF IsOperation
  <2>2. Text \notin Operations /\ Text # Comment
    BY <2>1, CommentIs
  <2>3. Token = NoToken
    BY <1>3, <2>2, NoOperation DEF Token
  <2>4. QED
    BY <1>1, <1>3, <2>1, <2>2, <2>3
<1>6. QED
  BY <1>3, <1>4, <1>5


\* A token has its kind, whatever it was made of.
IsToken(t) ==
  t = NoToken \/ t.kind \in {"operation", "attribute", "type", "word", "string", "literal"}

LEMMA TokenIs ==
  ASSUME NEW presumed, NEW text
  PROVE  IsToken(Tokenized(presumed, text))
<1>1. ASSUME NEW n PROVE IsToken(Literal(n))
  BY DEF IsToken, Literal
<1>2. IsToken(Number(text))
  BY <1>1 DEF Number
<1>3. IsToken(Quoted(text))
  <2>1. ASSUME NEW t PROVE IsToken(String(t))
    BY DEF IsToken, String
  <2>2. IsToken(NoToken)
    BY DEF IsToken
  <2>3. QED
    BY <2>1, <2>2, Zenon DEF Quoted
<1>4. IsToken(Character(text))
  <2>1. ASSUME NEW base, NEW max PROVE IsToken(Escaped(text, base, max))
    <3>1. IsToken(NoToken)
      BY DEF IsToken
    <3>2. QED
      BY <1>1, <3>1, Zenon DEF Escaped
  <2>2. IsToken(NoToken)
    BY DEF IsToken
  <2>3. QED
    BY <1>1, <2>1, <2>2, Zenon DEF Character
<1>5. IsToken(Found(presumed, text))
  BY DEF IsToken, Found, Named
<1>6. QED
  BY <1>2, <1>3, <1>4, <1>5 DEF Tokenized

\* A token that ends does so in the line, or where it does.
LEMMA EndBounds ==
  ASSUME line \in Seq(Chars), at \in 1 .. Len(line) + 1, Start <= Len(line), ~Endless
  PROVE  Start \in 1 .. Len(line) /\ End \in 1 .. Len(line) + 1
<1>1. Start \in at .. Len(line) + 1
  <2>1. Start = FirstOut({Blank}, at)
    BY Zenon DEF Start, Blank
  <2>2. QED
    BY <2>1, FirstInBounds DEF FirstOut
<1>2. Start \in 1 .. Len(line) /\ Len(line) \in Nat
  BY <1>1
<1>3. PICK s \in 1 .. Len(line) : s = Start
  BY <1>2
<1>4. ASSUME NEW S PROVE FirstIn(S, Start) \in 1 .. Len(line) + 1
  <2>1. s \in 1 .. Len(line) + 1
    BY <1>2, <1>3
  <2>2. FirstIn(S, s) \in s .. Len(line) + 1
    BY <2>1, FirstInBounds
  <2>3. QED
    BY <1>2, <1>3, <2>2
<1>5. CASE Presumed \in {"number", "word", "operation"}
  <2>1. ASSUME NEW S PROVE FirstOut(S, Start) \in 1 .. Len(line) + 1
    BY <1>4 DEF FirstOut
  <2>2. \/ End = FirstOut(Digits, Start) \/ End = FirstOut(Letters \cup Digits, Start)
        \/ End = FirstIn(Digits \cup Letters \cup {Blank}, Start)
    BY <1>5, EndIs
  <2>3. /\ FirstOut(Digits, Start) \in 1 .. Len(line) + 1
        /\ FirstOut(Letters \cup Digits, Start) \in 1 .. Len(line) + 1
        /\ FirstIn(Digits \cup Letters \cup {Blank}, Start) \in 1 .. Len(line) + 1
    BY <1>4, <2>1, Zenon
  <2>4. QED
    BY <1>2, <2>2, <2>3, Zenon
<1>6. CASE Presumed \in {"char", "string"}
  <2>1. Closes # {} /\ End = Min(Closes) + 1
    BY <1>6, EndIs
  <2>2. Closes \in SUBSET Nat /\ Closes \subseteq 1 .. Len(line)
    BY <1>2, <1>3 DEF Closes
  <2>3. Min(Closes) \in 1 .. Len(line)
    BY <2>1, <2>2, MinExists
  <2>4. QED
    BY <1>2, <2>1, <2>3
<1>7. Presumed \in {"number", "word", "char", "string", "operation"}
  BY PresumedIs DEF Presumed
<1>8. QED
  BY <1>2, <1>5, <1>6, <1>7


(***************************************************************************)
(* The invariant                                                           *)
(***************************************************************************)

\* Why a line of meaningful lexemes may be refused.
Refusable ==
  \/ \E i \in Read \cup Comments : RunsOn(i)
  \/ \E i \in Read : Len(Spell(i)) >= MaxText
  \/ Cardinality(Read) >= MaxTokens

\* The tokens are those of the lexemes before the position.
Reads(b) ==
  /\ Len(tokens) \in 0 .. ReadCount
  /\ \A i \in 1 .. Len(tokens) : tokens[i] = source[i].lexeme.token
  /\ status = "run" => at = b[Len(tokens)] + 1
  /\ status = "ok" => Len(tokens) = ReadCount
  /\ status \in {"EINVAL", "EXFULL", "corrupt"} => Refusable

Kept(b) ==
  /\ Layout(b)
  /\ TypeOK
  /\ IsSeq(tokens)
  /\ Meaningful => Reads(b)

IInv == \E b : Kept(b)

\* Where the lexer stands between two lexemes: at the next one that is read,
\* at the comment, or at the end of the line.
LEMMA Stands ==
  ASSUME NEW b, Kept(b), Meaningful, status = "run"
  PROVE  \/ /\ Len(tokens) + 1 \in Read
            /\ At(Len(tokens) + 1, b[Len(tokens) + 1] + 1)
         \/ /\ Len(tokens) = ReadCount /\ ReadCount + 1 \in Comments
            /\ At(ReadCount + 1, b[ReadCount + 1] + 1)
         \/ Len(tokens) = ReadCount /\ Start > Len(line)
<1> DEFINE k == Len(tokens)
<1>1. /\ Layout(b) /\ SourceOK /\ line \in Seq(Chars) /\ Len(line) \in Nat
      /\ k \in 0 .. ReadCount /\ at = b[k] + 1
      /\ Len(source) \in Nat /\ ReadCount \in 0 .. Len(source) /\ Read = 1 .. ReadCount
  BY ReadIs DEF Kept, Reads, Layout, SourceOK
<1> HIDE DEF k
<1>2. ASSUME NEW i \in 1 .. Len(source), at = b[i - 1] + 1, Spell(i)[1] # Blank
      PROVE  At(i, b[i] + 1)
  <2>1. Start = From(b, i)
    BY <1>1, <1>2, StartIs
  <2>2. Placed(i, From(b, i), b[i] + 1)
    BY <1>1, LexemePlaced
  <2>3. QED
    BY <1>1, <2>1, <2>2 DEF At
<1>3. CASE k < ReadCount
  <2>1. k + 1 \in Read /\ k + 1 \in 1 .. Len(source) /\ k + 1 - 1 = k
    BY <1>1, <1>3
  <2>2. Spell(k + 1)[1] # Blank
    BY <1>1, <2>1, LexemeIs
  <2>3. At(k + 1, b[k + 1] + 1)
    BY <1>1, <1>2, <2>1, <2>2
  <2>4. QED
    BY <2>1, <2>3 DEF k
<1>4. CASE k = ReadCount /\ ReadCount < Len(source)
  <2>1. k + 1 \in Comments /\ k + 1 \in 1 .. Len(source) /\ k + 1 - 1 = k /\ Spell(k + 1) = Comment
    BY <1>1, <1>4, ReadIs
  <2>2. Comment[1] # Blank
    <3>1. 1 \in DOMAIN Comment
      BY CommentIs
    <3>2. Comment[1] \in Symbols
      BY <3>1, CommentIs DEF OfSymbols, AllIn
    <3>3. QED
      BY <3>2, SymbolsAre
  <2>3. At(k + 1, b[k + 1] + 1)
    BY <1>1, <1>2, <2>1, <2>2
  <2>4. QED
    BY <1>4, <2>1, <2>3 DEF k
<1>5. CASE k = ReadCount /\ ReadCount = Len(source)
  <2>1. b[Len(source)] = Len(line)
    BY <1>1 DEF Layout, Concatenates
  <2>2. at = Len(line) + 1
    BY <1>1, <1>5, <2>1
  <2>3. FirstOut({Blank}, at) = Len(line) + 1
    <3>1. /\ at \in 1 .. Len(line) + 1 /\ Len(line) + 1 \in at .. Len(line) + 1
          /\ ~(Len(line) + 1 <= Len(line)) /\ at .. Len(line) + 1 - 1 = {}
      BY <1>1, <2>2
    <3>2. \A j \in at .. Len(line) + 1 - 1 : line[j] \in {Blank}
      BY <3>1
    <3>3. QED
      BY <1>1, <3>1, <3>2, FirstOutIs
  <2>4. Start = FirstOut({Blank}, at)
    BY Zenon DEF Start, Blank
  <2>5. Start > Len(line)
    BY <1>1, <2>3, <2>4
  <2>6. QED
    BY <1>5, <2>5 DEF k
<1>6. QED
  BY <1>1, <1>3, <1>4, <1>5

\* What a step does to the line it reads: nothing.
LEMMA SourceKept ==
  ASSUME UNCHANGED <<line, source>>
  PROVE  /\ \A b : Layout(b) => Layout(b)'
         /\ Meaningful' => Meaningful
         /\ ReadCount' = ReadCount
         /\ Refusable => Refusable'
<1>1. \A b : Layout(b) => Layout(b)'
  BY DEF Layout, SourceOK, Writing, Written, Concatenates
<1>2. Comments' = Comments
  BY DEF Comments
<1>3. ReadCount' = ReadCount /\ Read' = Read
  BY <1>2 DEF ReadCount, Read
<1>4. \A i : Spell(i)' = Spell(i)
  BY DEF Spell
<1>5. Meaningful' => Meaningful
  BY <1>3, <1>4 DEF Meaningful, ConvertsLexemes, Sound, Separate, Merges
<1>6. Refusable => Refusable'
  BY <1>2, <1>3, <1>4 DEF Refusable, RunsOn
<1>7. QED
  BY <1>1, <1>3, <1>5, <1>6


\* The lexer stops, and may.
LEMMA Stopped ==
  ASSUME NEW b, Kept(b), NEW s \in {"ok", "EINVAL", "EXFULL", "ENOMEM", "crashed", "corrupt"},
         Stop(s),
         Meaningful => /\ s = "ok" => Len(tokens) = ReadCount
                       /\ s \in {"EINVAL", "EXFULL", "corrupt"} => Refusable
  PROVE  IInv'
<1>1. status' = s /\ UNCHANGED <<line, at, tokens, source>>
  BY DEF Stop
<1>2. Layout(b)' /\ (Meaningful' => Meaningful) /\ ReadCount' = ReadCount /\ (Refusable => Refusable')
  BY <1>1, SourceKept DEF Kept
<1>3. TypeOK'
  BY <1>1 DEF Kept, TypeOK
<1>4. IsSeq(tokens)'
  BY <1>1 DEF Kept, IsSeq
<1>5. Meaningful' => Reads(b)'
  BY <1>1, <1>2 DEF Kept, Reads
<1>6. Kept(b)'
  BY <1>2, <1>3, <1>4, <1>5 DEF Kept
<1>7. QED
  BY <1>6 DEF IInv

\* The line was not written as the lexer needs it, or holds too much.
LEMMA Refused ==
  ASSUME NEW b, Kept(b), Meaningful, status = "run"
  PROVE  /\ ~HasRoom => Refusable
         /\ Start > Len(line) => Len(tokens) = ReadCount
         /\ Start <= Len(line) => ~Endless
         /\ Chomped /\ Len(Text) >= MaxText => Refusable
         /\ Copied /\ Token = NoToken => Refusable
         /\ Copied /\ Text = Comment /\ Token # NoToken => Len(tokens) = ReadCount
         /\ Text = Comment /\ Start <= Len(line) => Token # NoToken
<1> DEFINE k == Len(tokens)
<1>1. /\ SourceOK /\ line \in Seq(Chars) /\ Len(line) \in Nat
      /\ k \in 0 .. ReadCount /\ ReadCount \in Nat /\ Cardinality(Read) = ReadCount
      /\ MaxTokens \in Nat /\ MaxText \in Nat
  BY ReadIs, LimitsAssumption DEF Kept, Reads, Layout
<1>2. ~HasRoom => Refusable
  BY <1>1 DEF HasRoom, Refusable
<1>3. CASE k + 1 \in Read /\ At(k + 1, b[k + 1] + 1)
  <2>1. /\ Start <= Len(line) /\ ~Endless /\ Text # Comment
        /\ \/ Text = Spell(k + 1) /\ Token # NoToken
           \/ RunsOn(k + 1) /\ Token = NoToken
    BY <1>1, <1>3, ReadsLexeme
  <2>2. Start \in 1 .. Len(line)
    BY <1>3, AtIs
  <2>3. RunsOn(k + 1) => Refusable
    BY <1>3 DEF Refusable
  <2>4. Text = Spell(k + 1) /\ Len(Text) >= MaxText => Refusable
    BY <1>3 DEF Refusable
  <2> HIDE DEF k
  <2>5. QED
    BY <1>1, <1>2, <2>1, <2>2, <2>3, <2>4 DEF Chomped, Copied
<1>4. CASE k = ReadCount /\ ReadCount + 1 \in Comments /\ At(ReadCount + 1, b[ReadCount + 1] + 1)
  <2>1. /\ Start <= Len(line) /\ ~Endless
        /\ \/ Text = Comment /\ Token # NoToken
           \/ RunsOn(ReadCount + 1) /\ Token = NoToken /\ Text # Comment
    BY <1>1, <1>4, ReadsComment
  <2>2. RunsOn(ReadCount + 1) => Refusable
    BY <1>4 DEF Refusable
  <2>3. Len(Comment) < MaxText /\ Len(Comment) \in Nat
    BY CommentIs
  <2>4. QED
    BY <1>1, <1>2, <1>4, <2>1, <2>2, <2>3 DEF Chomped, Copied
<1>5. CASE k = ReadCount /\ Start > Len(line)
  <2>1. ~(Start <= Len(line))
    <3>1. Kept(b) /\ at \in 1 .. Len(line) + 1
      BY DEF Kept, TypeOK
    <3>2. FirstOut({Blank}, at) \in at .. Len(line) + 1 /\ Start = FirstOut({Blank}, at)
      BY <1>1, <3>1, FirstInBounds, Zenon DEF FirstOut, Start, Blank
    <3>3. QED
      BY <1>1, <1>5, <3>1, <3>2
  <2>2. QED
    BY <1>2, <1>5, <2>1 DEF Chomped, Copied
<1>6. QED
  BY <1>3, <1>4, <1>5, Stands


\* A token is read: it is that of the next lexeme, and the position is where
\* that one ends.
LEMMA ReadOn ==
  ASSUME NEW b, Kept(b), ReadToken
  PROVE  IInv'
<1>1. /\ status = "run" /\ Len(tokens) < MaxTokens /\ Start <= Len(line) /\ ~Endless
      /\ Token # NoToken /\ Text # Comment
      /\ tokens' = Append(tokens, Token) /\ at' = End
      /\ UNCHANGED <<line, status, source>>
  BY DEF ReadToken, Copied, Chomped, Running, HasRoom
<1>2. /\ Layout(b) /\ TypeOK /\ IsSeq(tokens) /\ line \in Seq(Chars) /\ at \in 1 .. Len(line) + 1
      /\ Len(tokens) \in Nat /\ MaxTokens \in Nat
  BY IsSeqMeans, LimitsAssumption DEF Kept, TypeOK
<1>3. /\ Layout(b)' /\ (Meaningful' => Meaningful) /\ ReadCount' = ReadCount
  BY <1>1, <1>2, SourceKept
<1>4. /\ IsSeq(tokens') /\ Len(tokens') = Len(tokens) + 1
      /\ \A i \in 1 .. Len(tokens) : tokens'[i] = tokens[i]
      /\ tokens'[Len(tokens) + 1] = Token
      /\ DOMAIN tokens' = 1 .. Len(tokens') /\ DOMAIN tokens = 1 .. Len(tokens)
  BY <1>1, <1>2, AppendIs, IsSeqMeans
<1>5. TypeOK'
  <2>1. at' \in 1 .. Len(line) + 1
    BY <1>1, <1>2, EndBounds
  <2>2. Token.kind \in {"operation", "attribute", "type", "word", "string", "literal"}
    BY <1>1, TokenIs DEF IsToken, Token
  <2>3. \A i \in DOMAIN tokens' :
          tokens'[i].kind \in {"operation", "attribute", "type", "word", "string", "literal"}
    <3>1. \A i \in DOMAIN tokens' : i \in DOMAIN tokens \/ i = Len(tokens) + 1
      BY <1>2, <1>4
    <3>2. \A i \in DOMAIN tokens :
            tokens[i].kind \in {"operation", "attribute", "type", "word", "string", "literal"}
      BY <1>2 DEF TypeOK
    <3>3. QED
      BY <1>4, <2>2, <3>1, <3>2
  <2>4. Len(tokens') <= MaxTokens
    BY <1>1, <1>2, <1>4
  <2>5. QED
    BY <1>1, <1>2, <2>1, <2>3, <2>4 DEF TypeOK
<1>6. ASSUME Meaningful PROVE Reads(b)'
  <2>1. Reads(b) /\ SourceOK /\ ReadCount \in Nat
    BY <1>6, ReadIs DEF Kept, Layout
  <2> DEFINE k == Len(tokens) + 1
  <2>2. k \in Read /\ At(k, b[k] + 1)
    <3>1. CASE Len(tokens) = ReadCount /\ ReadCount + 1 \in Comments /\ At(ReadCount + 1, b[ReadCount + 1] + 1)
      BY <1>1, <2>1, <3>1, ReadsComment
    <3>2. CASE Start > Len(line)
      BY <1>1, <1>2, <3>2, EndBounds
    <3>3. QED
      BY <1>1, <1>6, <3>1, <3>2, Stands
  <2>3. End = b[k] + 1 /\ Token = source[k].lexeme.token
    BY <1>1, <1>6, <2>1, <2>2, ReadsLexeme
  <2>4. Len(tokens') = k /\ k \in 0 .. ReadCount
    BY <1>4, <2>1, <2>2, ReadIs
  <2>5. \A i \in 1 .. Len(tokens') : tokens'[i] = source'[i].lexeme.token
    <3>1. \A i \in 1 .. Len(tokens) : tokens[i] = source[i].lexeme.token
      BY <2>1 DEF Reads
    <3>2. \A i \in 1 .. Len(tokens') : i \in 1 .. Len(tokens) \/ i = Len(tokens) + 1
      BY <1>2, <1>4
    <3>3. QED
      BY <1>1, <1>4, <2>3, <3>1, <3>2
  <2>6. status' = "run" /\ at' = b[Len(tokens')] + 1
    BY <1>1, <2>3, <2>4
  <2> HIDE DEF k
  <2>7. QED
    BY <1>3, <2>4, <2>5, <2>6 DEF Reads
<1>7. Kept(b)'
  BY <1>3, <1>4, <1>5, <1>6 DEF Kept
<1>8. QED
  BY <1>7 DEF IInv

LEMMA InvInit == Init => IInv
<1>1. SUFFICES ASSUME Init PROVE IInv
  OBVIOUS
<1>2. PICK n \in 0 .. MaxLexemes : source \in [1 .. n -> [lexeme : Lexemes, spaced : BOOLEAN]]
  BY <1>1 DEF Init
<1>3. SourceOK
  <2>1. n \in Nat
    BY <1>2, LimitsAssumption
  <2>2. DOMAIN source = 1 .. n
    BY <1>2
  <2>3. Len(source) = n
    BY <2>1, <2>2
  <2>4. QED
    BY <1>2, <2>1, <2>3 DEF SourceOK
<1>4. line = FlattenSeq(Writing)
  BY <1>1 DEF Init, Writing
<1>5. PICK b : Layout(b)
  BY <1>3, <1>4, LayoutExists
<1>6. line \in Seq(Chars) /\ Len(line) \in Nat /\ at = 1 /\ tokens = <<>> /\ status = "run"
  BY <1>1, <1>5 DEF Init, Layout
<1>7. Len(tokens) = 0 /\ DOMAIN tokens = {} /\ IsSeq(tokens) /\ MaxTokens \in Nat
  BY <1>6, LimitsAssumption DEF IsSeq
<1>8. TypeOK
  BY <1>6, <1>7 DEF TypeOK
<1>9. Reads(b)
  <2>1. b[0] = 0
    BY <1>5 DEF Layout, Concatenates
  <2>2. 0 \in 0 .. ReadCount
    BY <1>3, ReadIs
  <2>3. QED
    BY <1>6, <1>7, <2>1, <2>2 DEF Reads
<1>10. QED
  BY <1>5, <1>7, <1>8, <1>9 DEF IInv, Kept

LEMMA InvNext == IInv /\ [Next]_vars => IInv'
<1>1. SUFFICES ASSUME IInv, [Next]_vars PROVE IInv'
  OBVIOUS
<1>2. PICK b : Kept(b)
  BY <1>1 DEF IInv
<1>3. CASE Full
  BY <1>2, <1>3, Refused, Stopped DEF Full
<1>4. CASE EndOfLine
  BY <1>2, <1>4, Refused, Stopped DEF EndOfLine, Running
<1>5. CASE Unended
  BY <1>2, <1>5, Refused, Stopped DEF Unended, Running
<1>6. CASE TooLong
  <2>1. Len(Text) - 1 > MaxText => Len(Text) >= MaxText
    <3>1. /\ line \in Seq(Chars) /\ at \in 1 .. Len(line) + 1 /\ Start <= Len(line) /\ ~Endless
          /\ MaxText \in Nat
      BY <1>2, <1>6, LimitsAssumption DEF Kept, TypeOK, TooLong, Chomped
    <3>2. Start \in Nat /\ End - 1 \in Int
      BY <3>1, EndBounds
    <3>3. Len(Text) \in Nat
      BY <3>1, <3>2 DEF Text
    <3>4. QED
      BY <3>1, <3>3
  <2>2. QED
    BY <1>2, <1>6, <2>1, Refused, Stopped DEF TooLong, Chomped, Running
<1>7. CASE Overruns
  BY <1>2, <1>7, Refused, Stopped, LimitsAssumption DEF Overruns, Chomped, Running
<1>8. CASE OutOfMemory
  BY <1>2, <1>8, Stopped DEF OutOfMemory
<1>9. CASE Crash
  BY <1>2, <1>9, Stopped DEF Crash
<1>10. CASE Unknown
  BY <1>2, <1>10, Refused, Stopped DEF Unknown, Copied, Chomped, Running
<1>11. CASE ReadComment
  BY <1>2, <1>11, Refused, Stopped DEF ReadComment, Copied, Chomped, Running
<1>12. CASE ReadToken
  BY <1>2, <1>12, ReadOn
<1>13. CASE UNCHANGED vars
  <2>1. UNCHANGED <<line, at, tokens, status, source>>
    BY <1>13 DEF vars
  <2>2. /\ Layout(b)' /\ (Meaningful' => Meaningful) /\ ReadCount' = ReadCount
        /\ (Refusable => Refusable')
    BY <1>2, <2>1, SourceKept DEF Kept
  <2>3. TypeOK' /\ IsSeq(tokens)'
    BY <1>2, <2>1 DEF Kept, TypeOK, IsSeq
  <2>4. Meaningful' => Reads(b)'
    BY <1>2, <2>1, <2>2 DEF Kept, Reads
  <2>5. QED
    BY <2>2, <2>3, <2>4 DEF IInv, Kept
<1>14. QED
  BY <1>1, <1>3, <1>4, <1>5, <1>6, <1>7, <1>8, <1>9, <1>10, <1>11, <1>12, <1>13 DEF Next


(***************************************************************************)
(* The theorems                                                            *)
(***************************************************************************)

\* The position stays in the line, the tokens fit their array, and each is of
\* a kind (vltl_lexer_line_convert).
THEOREM TypeCorrect == Spec => []TypeOK
<1>1. IInv => TypeOK
  BY DEF IInv, Kept
<1>2. QED
  BY InvInit, InvNext, <1>1, PTL DEF Spec

\* Given that each lexeme is converted to its meaning when it stands alone,
\* lines of any length, with any spaces, are read as they were meant, or
\* refused (vltl_lexer_token_chomp).
THEOREM ReadAsMeant ==
  ASSUME ConvertsLexemes
  PROVE  Spec => []NeverMisread
<1>1. ASSUME IInv PROVE NeverMisread
  <2>1. SUFFICES ASSUME Sound, Separate
                 PROVE  IsPrefix(tokens, Meaning) /\ (status = "ok" => tokens = Meaning)
    BY DEF NeverMisread
  <2>2. PICK b : Kept(b)
    BY <1>1 DEF IInv
  <2>3. /\ Reads(b) /\ SourceOK /\ IsSeq(tokens) /\ Len(tokens) \in Nat
        /\ DOMAIN tokens = 1 .. Len(tokens)
    BY <2>1, <2>2, IsSeqMeans DEF Kept, Layout, Meaningful
  <2>4. /\ ReadCount \in Nat /\ Read = 1 .. ReadCount /\ Len(tokens) \in 0 .. ReadCount
    BY <2>3, ReadIs DEF Reads
  <2>5. /\ DOMAIN Meaning = 1 .. ReadCount /\ \A i \in 1 .. ReadCount : Meaning[i] = source[i].lexeme.token
    BY <2>4 DEF Meaning
  <2>6. IsSeq(Meaning) /\ Len(Meaning) = ReadCount
    BY <2>4, <2>5 DEF IsSeq, Meaning
  <2>7. \A i \in 1 .. Len(tokens) : tokens[i] = Meaning[i]
    <3>1. \A i \in 1 .. Len(tokens) : tokens[i] = source[i].lexeme.token
      BY <2>3 DEF Reads
    <3>2. \A i \in 1 .. Len(tokens) : i \in 1 .. ReadCount
      BY <2>4
    <3>3. QED
      BY <2>5, <3>1, <3>2, Zenon
  <2>8. IsPrefix(tokens, Meaning)
    <3>1. SubSeq(tokens, 1, Len(tokens)) = SubSeq(Meaning, 1, Len(tokens))
      BY <2>3, <2>4, <2>6, <2>7 DEF IsSeq
    <3>2. QED
      BY <2>3, <2>4, <2>6, <3>1 DEF IsPrefix
  <2>9. status = "ok" => tokens = Meaning
    <3>1. SUFFICES ASSUME status = "ok" PROVE tokens = Meaning
      OBVIOUS
    <3>2. Len(tokens) = ReadCount
      BY <2>3, <3>1 DEF Reads
    <3>3. QED
      BY <2>3, <2>6, <2>7, <3>2, SameSeq
  <2>10. QED
    BY <2>8, <2>9
<1>2. IInv => NeverMisread
  BY <1>1
<1>3. QED
  BY InvInit, InvNext, <1>2, PTL DEF Spec

\* And those refused are lines with an operator directly before another one or
\* before a quote, with a lexeme too long, or with too many tokens.
THEOREM RefusedAsMeant ==
  ASSUME ConvertsLexemes
  PROVE  Spec => []RefusedOnlyRunTogether
<1>1. IInv => RefusedOnlyRunTogether
  BY DEF IInv, Kept, Meaningful, Reads, Refusable, RefusedOnlyRunTogether
<1>2. QED
  BY InvInit, InvNext, <1>1, PTL DEF Spec

=============================================================================
