-------------------------- MODULE CompileFileProofs --------------------------
(***************************************************************************)
(* Proofs about CompileFile, for every length of the source, every set of  *)
(* names and every capacity of the queues and of the bodies.               *)
(*                                                                         *)
(* The invariant says what the queues still hold (Lined), what the tables  *)
(* know (Known), where in a function the driver is (Inside) and which of   *)
(* the lines that were not queued it has compiled (Reached).  Until a      *)
(* line fails they are about: after that nothing happens.                  *)
(***************************************************************************)
EXTENDS CompileFile, FiniteSetTheorems, TLAPS

Elements(q)   == {q[i] : i \in DOMAIN q}
Increasing(q) == \A i, j \in DOMAIN q : i < j => q[i] < q[j]

\* The lines of kind k up to line n.
Seen(k, n) == {m \in LinesOf(k) : m <= n}

\* What the tables say of a name that a line of kind k declares.
Makes(k) == IF k = "external" THEN "function" ELSE k

\* The pass over the lines of kind k is over.
Passed(k) ==
  \/ phase = "done"
  \/ phase = "function" /\ k # "function"
  \/ phase = "external" /\ k \in {"constant", "global"}
  \/ phase = "global" /\ k = "constant"

\* The function whose header is line h was begun.
Started(h) == h \in LinesOf("function") /\ Queued(h) /\ times[h] = 1

Typed ==
  /\ TypeOK
  /\ pos <= Len(source) /\ current <= Len(source)
  /\ function <=> level > 0
  /\ function => phase \in {"function", "failed"} /\ current > 0

\* Each queue holds the declarations it had room for and that are not compiled.
Lined ==
  /\ \A k \in Declarations : Increasing(queues[k])
  /\ phase = "classify" =>
       \A k \in Declarations :
         /\ Elements(queues[k]) = {l \in Seen(k, pos) : Queued(l)}
         /\ Len(queues[k]) = IF Cardinality(Seen(k, pos)) <= QueueCap
                             THEN Cardinality(Seen(k, pos)) ELSE QueueCap
  /\ phase = "classify" => times = [l \in 1 .. MaxLines |-> 0]
  /\ phase \notin {"classify", "failed"} =>
       \A k \in Declarations :
         /\ Elements(queues[k]) = {l \in LinesOf(k) : Queued(l) /\ times[l] = 0}
         /\ Passed(k) => queues[k] = <<>>

\* A compiled declaration has defined its name, and nothing else has.
Known ==
  phase # "failed" =>
    /\ \A l \in DOMAIN source : source[l].kind \in Declarations =>
         \/ times[l] = 0
         \/ times[l] = 1 /\ table[source[l].name] = Makes(source[l].kind)
    /\ \A x \in Names : table[x] # "unknown" =>
         \E l \in DOMAIN source :
           source[l].kind \in Declarations /\ source[l].name = x /\ times[l] = 1

\* The driver is inside the function whose header is line h: the nesting is
\* what the braces since then make it.
At(h) ==
  /\ Started(h) /\ pos = current /\ h <= current
  /\ level + Braces(h, current, {"close"}) = Braces(h, current, {"open", "function"})
  /\ \A l \in h .. current : Braces(h, l, {"open", "function"}) > Braces(h, l, {"close"})
  /\ \A g \in LinesOf("function") : Queued(g) /\ g < h => times[g] = 1

Inside == Balanced /\ phase = "function" /\ function => \E h \in DOMAIN source : At(h)

\* Line l is in a function that was begun, and not still ahead in it.
Covered(l) ==
  \E h \in DOMAIN source :
    /\ Started(h) /\ InFunctionOf(h, l)
    /\ ~(function /\ InFunctionOf(h, current) /\ current < l)

Reached ==
  Balanced /\ phase # "failed" =>
    \A l \in DOMAIN source : ~Queued(l) => times[l] = IF Covered(l) THEN 1 ELSE 0

IInv == Typed /\ Lined /\ Known /\ Inside /\ Reached

-----------------------------------------------------------------------------
(***************************************************************************)
(* Queues                                                                  *)
(***************************************************************************)
LEMMA HeadIsLeast ==
  ASSUME NEW q \in Seq(Nat), q # <<>>, Increasing(q)
  PROVE  /\ Head(q) \in Elements(q) /\ \A e \in Elements(q) : Head(q) <= e
         /\ Elements(Tail(q)) = Elements(q) \ {Head(q)}
         /\ Increasing(Tail(q))
<1> DEFINE n == Len(q)
           t == Tail(q)
<1>1. /\ n \in Nat /\ n > 0 /\ DOMAIN q = 1 .. n /\ DOMAIN t = 1 .. n - 1
      /\ Head(q) = q[1] /\ 1 \in 1 .. n
      /\ \A i \in 1 .. n - 1 : t[i] = q[i + 1] /\ i + 1 \in 1 .. n
      /\ \A i \in 1 .. n : q[i] \in Nat
  OBVIOUS
<1> HIDE DEF n, t
<1>2. ASSUME NEW i \in 1 .. n, i # 1 PROVE q[1] < q[i]
  <2>1. 1 < i
    BY <1>1, <1>2
  <2>2. QED
    BY <1>1, <2>1 DEF Increasing
<1>3. Head(q) \in Elements(q) /\ \A e \in Elements(q) : Head(q) <= e
  <2>1. \A i \in 1 .. n : q[1] <= q[i]
    BY <1>1, <1>2
  <2>2. QED
    BY <1>1, <2>1 DEF Elements
<1>4. Elements(t) = Elements(q) \ {Head(q)}
  <2>1. ASSUME NEW e \in Elements(t) PROVE e \in Elements(q) /\ e # Head(q)
    <3>1. PICK i \in 1 .. n - 1 : e = t[i]
      BY <1>1 DEF Elements
    <3>2. i + 1 \in 1 .. n /\ i + 1 # 1 /\ e = q[i + 1]
      BY <1>1, <3>1
    <3>3. q[1] < q[i + 1] /\ q[1] \in Nat /\ q[i + 1] \in Nat
      BY <1>1, <1>2, <3>2
    <3>4. e \in Elements(q)
      BY <1>1, <3>2 DEF Elements
    <3>5. QED
      BY <1>1, <3>2, <3>3, <3>4
  <2>2. ASSUME NEW e \in Elements(q), e # Head(q) PROVE e \in Elements(t)
    <3>1. PICK i \in 1 .. n : e = q[i]
      BY <1>1 DEF Elements
    <3>2. i - 1 \in 1 .. n - 1 /\ i - 1 + 1 = i
      BY <1>1, <2>2, <3>1
    <3>3. t[i - 1] = e
      BY <1>1, <3>1, <3>2
    <3>4. QED
      BY <1>1, <3>2, <3>3 DEF Elements
  <2>3. QED
    BY <2>1, <2>2
<1>5. Increasing(t)
  <2>1. ASSUME NEW i \in 1 .. n - 1, NEW j \in 1 .. n - 1, i < j PROVE t[i] < t[j]
    <3>1. i + 1 \in 1 .. n /\ j + 1 \in 1 .. n /\ i + 1 < j + 1
      BY <1>1, <2>1
    <3>2. q[i + 1] < q[j + 1]
      BY <1>1, <3>1 DEF Increasing
    <3>3. QED
      BY <1>1, <3>2
  <2>2. QED
    BY <1>1, <2>1 DEF Increasing
<1>6. QED
  BY <1>3, <1>4, <1>5 DEF t

LEMMA AppendIs ==
  ASSUME NEW q \in Seq(Nat), NEW n \in Nat, Increasing(q), \A e \in Elements(q) : e < n
  PROVE  /\ Elements(Append(q, n)) = Elements(q) \cup {n}
         /\ Increasing(Append(q, n))
         /\ Len(Append(q, n)) = Len(q) + 1
<1> DEFINE t == Append(q, n)
           L == Len(q)
<1>1. /\ L \in Nat /\ DOMAIN q = 1 .. L /\ DOMAIN t = 1 .. L + 1 /\ Len(t) = L + 1
      /\ \A i \in 1 .. L : t[i] = q[i] /\ i \in 1 .. L + 1
      /\ t[L + 1] = n /\ L + 1 \in 1 .. L + 1
      /\ \A i \in 1 .. L + 1 : i \in 1 .. L \/ i = L + 1
  OBVIOUS
<1> HIDE DEF t, L
<1>2. Elements(t) = Elements(q) \cup {n}
  BY <1>1 DEF Elements
<1>3. ASSUME NEW i \in 1 .. L + 1, NEW j \in 1 .. L + 1, i < j PROVE t[i] < t[j]
  <2>1. i \in 1 .. L
    BY <1>1, <1>3
  <2>2. CASE j \in 1 .. L
    BY <1>1, <1>3, <2>1, <2>2 DEF Increasing
  <2>3. CASE j = L + 1
    <3>1. q[i] \in Elements(q)
      BY <1>1, <2>1 DEF Elements
    <3>2. QED
      BY <1>1, <2>1, <2>3, <3>1
  <2>4. QED
    BY <1>1, <2>2, <2>3
<1>4. QED
  BY <1>1, <1>2, <1>3 DEF Increasing, t, L

-----------------------------------------------------------------------------
(***************************************************************************)
(* Braces                                                                  *)
(***************************************************************************)
LEMMA BracesType ==
  ASSUME NEW i \in Nat, NEW j \in Nat, NEW K
  PROVE  /\ Braces(i, j, K) \in Nat
         /\ IsFiniteSet({l \in i .. j : source[l].kind \in K})
<1>1. i \in Int /\ j \in Int
  OBVIOUS
<1>2. IsFiniteSet(i .. j)
  BY <1>1, FS_Interval
<1>3. IsFiniteSet({l \in i .. j : source[l].kind \in K})
  <2>1. {l \in i .. j : source[l].kind \in K} \subseteq i .. j
    OBVIOUS
  <2>2. QED
    BY <1>2, <2>1, FS_Subset
<1>4. QED
  BY <1>3, FS_CardinalityType DEF Braces

\* One line more.
LEMMA BracesNext ==
  ASSUME NEW i \in Nat, NEW j \in Nat, i <= j + 1, NEW K
  PROVE  Braces(i, j + 1, K) =
           IF source[j + 1].kind \in K THEN Braces(i, j, K) + 1 ELSE Braces(i, j, K)
<1> DEFINE S == {l \in i .. j : source[l].kind \in K}
           T == {l \in i .. j + 1 : source[l].kind \in K}
<1>1. IsFiniteSet(S)
  BY BracesType
<1>2. \A l : l \in i .. j + 1 <=> l \in i .. j \/ l = j + 1
  OBVIOUS
<1>3. j + 1 \notin S
  OBVIOUS
<1>4. CASE source[j + 1].kind \in K
  <2>1. T = S \cup {j + 1}
    BY <1>2, <1>4
  <2>2. Cardinality(T) = Cardinality(S) + 1
    <3> HIDE DEF S, T
    <3>1. QED
      BY <1>1, <1>3, <2>1, FS_AddElement
  <2>3. QED
    BY <1>4, <2>2 DEF Braces
<1>5. CASE source[j + 1].kind \notin K
  <2>1. T = S
    BY <1>2, <1>5
  <2>2. QED
    BY <1>5, <2>1 DEF Braces
<1>6. QED
  BY <1>4, <1>5

LEMMA BracesOne ==
  ASSUME NEW i \in Nat, NEW K
  PROVE  Braces(i, i, K) = IF source[i].kind \in K THEN 1 ELSE 0
<1>1. i .. i = {i}
  OBVIOUS
<1>2. CASE source[i].kind \in K
  <2>1. {l \in i .. i : source[l].kind \in K} = {i}
    BY <1>1, <1>2
  <2>2. QED
    BY <1>2, <2>1, FS_Singleton DEF Braces
<1>3. CASE source[i].kind \notin K
  <2>1. {l \in i .. i : source[l].kind \in K} = {}
    BY <1>1, <1>3
  <2>2. QED
    BY <1>3, <2>1, FS_EmptySet DEF Braces
<1>4. QED
  BY <1>2, <1>3

LEMMA EndsOnce ==
  ASSUME NEW h \in Nat, NEW m \in Nat, NEW n \in Nat, h <= m, h <= n, Ends(h, m), Ends(h, n)
  PROVE  m = n
<1>1. \A j \in Nat : Braces(h, j, {"open", "function"}) \in Nat /\ Braces(h, j, {"close"}) \in Nat
  BY BracesType
<1>2. ASSUME NEW a \in Nat, NEW b \in Nat, h <= a, a < b, Ends(h, a), Ends(h, b) PROVE FALSE
  <2>1. a \in h .. b - 1
    BY <1>2
  <2>2. Braces(h, a, {"open", "function"}) > Braces(h, a, {"close"})
    BY <1>2, <2>1 DEF Ends
  <2>3. Braces(h, a, {"open", "function"}) = Braces(h, a, {"close"})
    BY <1>2 DEF Ends
  <2>4. QED
    BY <1>1, <2>2, <2>3
<1>3. m < n \/ n < m \/ m = n
  OBVIOUS
<1>4. QED
  BY <1>2, <1>3

\* In a balanced source no two functions share a line.
LEMMA Disjoint ==
  ASSUME source \in Seq(Lines), Balanced, NEW h \in LinesOf("function"), NEW g \in LinesOf("function"), NEW l,
         InFunctionOf(h, l), InFunctionOf(g, l)
  PROVE  h = g
<1>1. DOMAIN source = 1 .. Len(source) /\ Len(source) \in Nat
  OBVIOUS
<1>2. ASSUME NEW a \in LinesOf("function"), NEW b \in LinesOf("function"), a < b,
             InFunctionOf(a, l), InFunctionOf(b, l)
      PROVE  FALSE
  <2>1. a \in Nat /\ b \in Nat
    BY <1>1 DEF LinesOf
  <2>2. PICK m \in a .. Len(source) : l \in a .. m /\ Ends(a, m)
    BY <1>2 DEF InFunctionOf
  <2>3. PICK n \in a .. Len(source) : Ends(a, n) /\ Braces(a, n, {"function"}) = 1
    BY DEF Balanced
  <2>4. m = n
    BY <1>1, <2>1, <2>2, <2>3, EndsOnce
  <2>5. b <= l
    BY <1>2, <2>1 DEF InFunctionOf
  <2>6. a \in a .. n /\ b \in a .. n
    BY <1>1, <1>2, <2>1, <2>2, <2>4, <2>5
  <2> DEFINE S == {i \in a .. n : source[i].kind \in {"function"}}
  <2>7. a \in S /\ b \in S
    BY <2>6 DEF LinesOf
  <2>8. IsFiniteSet(S) /\ Cardinality(S) = 1
    <3>1. n \in Nat
      BY <1>1, <2>1
    <3>2. IsFiniteSet(S)
      BY <2>1, <3>1, BracesType
    <3>3. Braces(a, n, {"function"}) = Cardinality(S)
      BY DEF Braces
    <3>4. QED
      BY <2>3, <3>2, <3>3
  <2> HIDE DEF S
  <2>9. \E x : S = {x}
    BY <2>8, FS_Singleton
  <2>10. QED
    BY <1>2, <2>1, <2>7, <2>9
<1>3. h \in Nat /\ g \in Nat
  BY <1>1 DEF LinesOf
<1>4. h < g \/ g < h \/ h = g
  BY <1>3
<1>5. QED
  BY <1>2, <1>4

\* A function holds its own header, and no other.
LEMMA OwnHeader ==
  ASSUME source \in Seq(Lines), Balanced, NEW h \in LinesOf("function")
  PROVE  /\ InFunctionOf(h, h)
         /\ \A g \in LinesOf("function") : InFunctionOf(h, g) => g = h
<1>1. ASSUME NEW g \in LinesOf("function") PROVE InFunctionOf(g, g)
  <2>1. g \in Nat /\ Len(source) \in Nat
    BY DEF LinesOf
  <2>2. PICK m \in g .. Len(source) : Ends(g, m)
    BY DEF Balanced
  <2>3. g \in g .. m
    BY <2>1, <2>2
  <2>4. QED
    BY <2>2, <2>3 DEF InFunctionOf
<1>2. QED
  BY <1>1, Disjoint

-----------------------------------------------------------------------------
(***************************************************************************)
(* Compiling one line                                                      *)
(***************************************************************************)
LEMMA SourceIs ==
  ASSUME source \in Sources
  PROVE  /\ source \in Seq(Lines) /\ Len(source) \in 0 .. MaxLines
         /\ DOMAIN source = 1 .. Len(source)
         /\ \A l \in DOMAIN source : source[l] \in Lines
<1>1. PICK n \in 0 .. MaxLines : source \in [1 .. n -> Lines]
  BY DEF Sources
<1>2. n \in Nat
  BY <1>1, MaxLinesAssumption
<1>3. source \in Seq(Lines) /\ Len(source) = n /\ DOMAIN source = 1 .. n
  BY <1>1, <1>2
<1>4. QED
  BY <1>1, <1>3

LEMMA LineIs ==
  ASSUME NEW l \in Lines
  PROVE  /\ l.kind \in Declarations \cup {"open", "close", "use", "illegible"}
         /\ l.kind \in Declarations \cup {"use"} => l.name \in Names
         /\ l.kind \in {"constant", "global"} => l.needs \in Names \cup {NoName}
  BY DEF Lines, Declarations

\* A line fails and changes nothing, or defines its name and moves the nesting.
Failing == phase' = "failed" /\ UNCHANGED <<level, function, table>>

Passing(l) ==
  /\ phase' = phase
  /\ l.kind \in Declarations =>
       table[l.name] = "unknown" /\ table' = [table EXCEPT ![l.name] = Makes(l.kind)]
  /\ l.kind \notin Declarations => table' = table
  /\ l.kind \notin {"function", "open", "close"} => UNCHANGED <<level, function>>
  /\ l.kind = "function" => level = 0 /\ level' = 1 /\ function' = TRUE
  /\ l.kind = "open" => level < BodyCap + 1 /\ level' = level + 1 /\ function' = function
  /\ l.kind = "close" => level' = level - 1 /\ function' = (level' > 0)

\* What makes a line fail.
Blamed(l) ==
  \/ l.kind \in Declarations /\ table[l.name] # "unknown"
  \/ l.kind \in {"constant", "global"} /\ l.needs # NoName /\ table[l.needs] # "constant"
  \/ l.kind = "function" /\ level # 0
  \/ l.kind = "open" /\ ~(level < BodyCap + 1)
  \/ l.kind = "use" /\ table[l.name] = "unknown"
  \/ l.kind = "illegible"

Counted(n) == times' = [times EXCEPT ![n] = IF @ = 2 THEN 2 ELSE @ + 1]

LEMMA Effects ==
  ASSUME NEW n, source[n] \in Lines, CompileLine(n)
  PROVE  /\ Counted(n)
         /\ Passing(source[n]) \/ (Failing /\ Blamed(source[n]))
<1> DEFINE l == source[n]
<1>1. /\ Counted(n)
      /\ CASE l.kind \in {"constant", "global"} -> CompileValue(l)
           [] l.kind = "external" -> CompileExternal(l)
           [] l.kind = "function" -> CompileHeader(l)
           [] l.kind = "open" -> CompileOpen
           [] l.kind = "close" -> CompileClose
           [] l.kind = "use" -> CompileUse(l)
           [] l.kind = "illegible" -> GiveUp
  BY DEF CompileLine, Counted
<1>2. l.kind \in {"constant", "global", "external", "function", "open", "close", "use",
                 "illegible"}
  BY LineIs DEF Declarations
<1> HIDE DEF l
<1>3. CASE l.kind \in {"constant", "global"}
  <2>1. CompileValue(l)
    BY <1>1, <1>3
  <2>2. CASE Unknown(l.name) /\ (l.needs = NoName \/ table[l.needs] = "constant")
    <3>1. Define(l.name, l.kind)
      BY <2>1, <2>2 DEF CompileValue
    <3>2. Passing(l)
      BY <1>3, <2>2, <3>1 DEF Define, Unknown, Passing, Declarations, Makes
    <3>3. QED
      BY <1>1, <3>2 DEF l
  <2>3. CASE ~(Unknown(l.name) /\ (l.needs = NoName \/ table[l.needs] = "constant"))
    <3>1. GiveUp
      BY <2>1, <2>3 DEF CompileValue
    <3>2. Failing /\ Blamed(l)
      BY <1>3, <2>3, <3>1 DEF GiveUp, Failing, Blamed, Unknown, Declarations
    <3>3. QED
      BY <1>1, <3>2 DEF l
  <2>4. QED
    BY <2>2, <2>3
<1>4. CASE l.kind = "external"
  <2>1. CompileExternal(l)
    BY <1>1, <1>4
  <2>2. Passing(l) \/ (Failing /\ Blamed(l))
    BY <1>4, <2>1
    DEF CompileExternal, Define, GiveUp, Unknown, Passing, Failing, Blamed, Declarations, Makes
  <2>3. QED
    BY <1>1, <2>2 DEF l
<1>5. CASE l.kind = "function"
  <2>1. CompileHeader(l)
    BY <1>1, <1>5
  <2>2. Passing(l) \/ (Failing /\ Blamed(l))
    BY <1>5, <2>1
    DEF CompileHeader, GiveUp, Unknown, Passing, Failing, Blamed, Declarations, Makes
  <2>3. QED
    BY <1>1, <2>2 DEF l
<1>6. CASE l.kind = "open"
  <2>1. CompileOpen
    BY <1>1, <1>6
  <2>2. Passing(l) \/ (Failing /\ Blamed(l))
    BY <1>6, <2>1 DEF CompileOpen, GiveUp, Passing, Failing, Blamed, Declarations
  <2>3. QED
    BY <1>1, <2>2 DEF l
<1>7. CASE l.kind = "close"
  <2>1. CompileClose
    BY <1>1, <1>7
  <2>2. Passing(l)
    BY <1>7, <2>1 DEF CompileClose, Passing, Declarations
  <2>3. QED
    BY <1>1, <2>2 DEF l
<1>8. CASE l.kind = "use"
  <2>1. CompileUse(l)
    BY <1>1, <1>8
  <2>2. Passing(l) \/ (Failing /\ Blamed(l))
    BY <1>8, <2>1 DEF CompileUse, Keep, GiveUp, Unknown, Passing, Failing, Blamed, Declarations
  <2>3. QED
    BY <1>1, <2>2 DEF l
<1>9. CASE l.kind = "illegible"
  <2>1. GiveUp
    BY <1>1, <1>9
  <2>2. Failing /\ Blamed(l)
    BY <1>9, <2>1 DEF GiveUp, Failing, Blamed
  <2>3. QED
    BY <1>1, <2>2 DEF l
<1>10. QED
  BY <1>2, <1>3, <1>4, <1>5, <1>6, <1>7, <1>8, <1>9

LEMMA CountedIs ==
  ASSUME times \in [1 .. MaxLines -> 0 .. 2], NEW n \in 1 .. MaxLines, Counted(n)
  PROVE  /\ times' \in [1 .. MaxLines -> 0 .. 2]
         /\ times[n] = 0 => times'[n] = 1
         /\ times[n] # 0 => times'[n] = 2
         /\ \A l \in 1 .. MaxLines : l # n => times'[l] = times[l]
<1>1. times[n] \in {0, 1, 2}
  OBVIOUS
<1>2. (IF times[n] = 2 THEN 2 ELSE times[n] + 1) \in 0 .. 2
  BY <1>1
<1>3. QED
  BY <1>1, <1>2 DEF Counted

\* A line is compiled from a queue, outside functions, or inside a function.
Where(n) ==
  /\ phase \in Declarations /\ n \in DOMAIN source
  /\ \/ function /\ phase = "function"
     \/ ~function /\ source[n].kind = phase

LEMMA LineTyped ==
  ASSUME Typed, NEW n, Where(n), CompileLine(n)
  PROVE  /\ phase' \in Phases /\ level' \in 0 .. BodyCap + 1 /\ function' \in BOOLEAN
         /\ table' \in [Names -> Meanings] /\ times' \in [1 .. MaxLines -> 0 .. 2]
         /\ function' <=> level' > 0
         /\ function' => phase' \in {"function", "failed"}
<1>1. /\ source \in Sources /\ phase \in Phases /\ level \in 0 .. BodyCap + 1
      /\ function \in BOOLEAN /\ table \in [Names -> Meanings]
      /\ times \in [1 .. MaxLines -> 0 .. 2]
      /\ (function <=> level > 0) /\ (function => phase \in {"function", "failed"})
  BY DEF Typed, TypeOK
<1>2. n \in 1 .. MaxLines /\ source[n] \in Lines
  BY <1>1, SourceIs, MaxLinesAssumption DEF Where
<1>3. times' \in [1 .. MaxLines -> 0 .. 2]
  BY <1>1, <1>2, Effects, CountedIs
<1>4. CASE Failing
  BY <1>1, <1>3, <1>4 DEF Failing, Phases
<1>5. CASE Passing(source[n])
  <2> DEFINE k == source[n].kind
  <2>1. k \in Declarations \cup {"open", "close", "use", "illegible"}
    BY <1>2, LineIs
  <2>2. table' \in [Names -> Meanings]
    <3>1. CASE k \in Declarations
      <4>1. source[n].name \in Names
        BY <1>2, <3>1, LineIs
      <4>2. Makes(k) \in Meanings
        BY <3>1 DEF Makes, Meanings, Declarations
      <4>3. table' = [table EXCEPT ![source[n].name] = Makes(k)]
        BY <1>5, <3>1 DEF Passing
      <4>4. QED
        BY <1>1, <4>1, <4>2, <4>3
    <3>2. CASE k \notin Declarations
      BY <1>1, <1>5, <3>2 DEF Passing
    <3>3. QED
      BY <3>1, <3>2
  <2>3. phase' = phase
    BY <1>5 DEF Passing
  <2>4. k \in {"function", "open", "close"} => phase = "function" /\ (k # "function" => function)
    BY DEF Where, Declarations
  <2>5. CASE k \notin {"function", "open", "close"}
    <3>1. level' = level /\ function' = function
      BY <1>5, <2>5 DEF Passing
    <3>2. QED
      BY <1>1, <1>3, <2>2, <2>3, <3>1
  <2>6. CASE k = "function"
    <3>1. level' = 1 /\ function' = TRUE
      BY <1>5, <2>6 DEF Passing
    <3>2. QED
      BY <1>1, <1>3, <2>2, <2>3, <2>4, <2>6, <3>1, BodyCapAssumption
  <2>7. CASE k = "open"
    <3>1. level < BodyCap + 1 /\ level' = level + 1 /\ function' = function
      BY <1>5, <2>7 DEF Passing
    <3>2. QED
      BY <1>1, <1>3, <2>2, <2>3, <2>4, <2>7, <3>1, BodyCapAssumption
  <2>8. CASE k = "close"
    <3>1. level' = level - 1 /\ function' = (level' > 0) /\ level > 0
      BY <1>1, <1>5, <2>4, <2>8 DEF Passing
    <3>2. level' \in 0 .. BodyCap + 1
      BY <1>1, <3>1, BodyCapAssumption
    <3>3. function' \in BOOLEAN /\ (function' <=> level' > 0)
      <4>1. function' = (level' > 0)
        BY <3>1
      <4>2. level' \in Nat
        BY <3>2
      <4>3. function' \in BOOLEAN
        BY <4>1, <4>2
      <4>4. level' > 0 => function'
        BY <4>1, <4>2
      <4>5. ~(level' > 0) => ~function'
        BY <4>1, <4>2
      <4>6. QED
        BY <4>3, <4>4, <4>5
    <3>4. phase' = "function" /\ phase' \in Phases
      BY <1>1, <2>3, <2>4, <2>8
    <3>5. QED
      BY <1>3, <2>2, <3>2, <3>3, <3>4
  <2>9. QED
    BY <2>5, <2>6, <2>7, <2>8
<1>6. QED
  BY <1>2, <1>4, <1>5, Effects

\* The line that is sought, and what its queue holds after it.
LEMMA QueuedLine ==
  ASSUME Typed, Lined, CompileQueued
  PROVE  LET l == Head(queues[phase])
         IN /\ Where(l) /\ CompileLine(l) /\ l \in LinesOf(phase) /\ Queued(l)
            /\ times[l] = 0 /\ ~function
            /\ pos' = l /\ current' = l /\ source' = source
            /\ queues' = [queues EXCEPT ![phase] = Tail(@)]
            /\ queues[phase] \in Seq(Nat) /\ queues[phase] # <<>> /\ Increasing(queues[phase])
            /\ \A m \in LinesOf(phase) : Queued(m) /\ m < l => times[m] # 0
<1> DEFINE q == queues[phase]
           l == Head(q)
<1>1. /\ phase \in Declarations /\ ~function /\ q # <<>> /\ CompileLine(l)
      /\ pos' = l /\ current' = l /\ source' = source
      /\ queues' = [queues EXCEPT ![phase] = Tail(@)]
  BY DEF CompileQueued, Seek
<1>2. q \in Seq(Nat)
  <2>1. q \in Seq(1 .. MaxLines)
    BY <1>1 DEF Typed, TypeOK
  <2>2. QED
    BY <2>1, MaxLinesAssumption
<1>3. Increasing(q) /\ Elements(q) = {m \in LinesOf(phase) : Queued(m) /\ times[m] = 0}
  BY <1>1 DEF Lined, Declarations
<1> HIDE DEF q
<1>4. l \in Elements(q) /\ \A e \in Elements(q) : l <= e
  BY <1>1, <1>2, <1>3, HeadIsLeast
<1>5. l \in LinesOf(phase) /\ Queued(l) /\ times[l] = 0
  BY <1>3, <1>4
<1>6. Where(l)
  BY <1>1, <1>5 DEF Where, LinesOf
<1>7. ASSUME NEW m \in LinesOf(phase), Queued(m), m < l, times[m] = 0 PROVE FALSE
  <2>1. l <= m
    BY <1>3, <1>4, <1>7
  <2>2. m \in Nat /\ l \in Nat
    BY <1>5, SourceIs DEF LinesOf, Typed, TypeOK
  <2>3. QED
    BY <1>7, <2>1, <2>2
<1>8. QED
  BY <1>1, <1>2, <1>3, <1>5, <1>6, <1>7 DEF q

\* The line that is read inside a function.
LEMMA BodyLine ==
  ASSUME Typed, CompileBodyLine
  PROVE  /\ Where(current') /\ CompileLine(current') /\ function /\ phase = "function"
         /\ pos' \in 0 .. Len(source) /\ source' = source /\ queues' = queues
         /\ pos < Len(source) => pos' = pos + 1 /\ current' = pos + 1
<1>1. /\ phase = "function" /\ function /\ CompileLine(current')
      /\ pos' = IF pos < Len(source) THEN pos + 1 ELSE pos
      /\ current' = IF pos < Len(source) THEN pos + 1 ELSE current
      /\ source' = source /\ queues' = queues
  BY DEF CompileBodyLine
<1>2. /\ pos \in Nat /\ pos <= Len(source) /\ current \in Nat /\ current <= Len(source)
      /\ current > 0 /\ Len(source) \in Nat /\ DOMAIN source = 1 .. Len(source)
  BY <1>1, SourceIs, MaxLinesAssumption DEF Typed, TypeOK
<1>3. current' \in 1 .. Len(source) /\ pos' \in 0 .. Len(source)
  BY <1>1, <1>2
<1>4. Where(current')
  BY <1>1, <1>2, <1>3 DEF Where, Declarations
<1>5. QED
  BY <1>1, <1>3, <1>4

LEMMA TypedNext ==
  ASSUME Typed, Lined, Next
  PROVE  Typed'
<1>1. /\ source \in Sources /\ Len(source) \in 0 .. MaxLines /\ DOMAIN source = 1 .. Len(source)
      /\ phase \in Phases /\ pos \in 0 .. MaxLines /\ current \in 0 .. MaxLines
      /\ queues \in [Declarations -> Seq(1 .. MaxLines)]
      /\ pos <= Len(source) /\ current <= Len(source) /\ Len(source) <= MaxLines
  BY SourceIs, MaxLinesAssumption DEF Typed, TypeOK
<1>2. CASE Classify
  <2>1. pos + 1 \in 1 .. MaxLines /\ pos + 1 <= Len(source) /\ pos + 1 \in 0 .. MaxLines
    BY <1>1, <1>2, MaxLinesAssumption DEF Classify
  <2>2. queues' \in [Declarations -> Seq(1 .. MaxLines)]
    <3> DEFINE k == source[pos + 1].kind
    <3>1. CASE k \in Declarations /\ ~QueueFull(queues[k])
      <4>1. queues' = [queues EXCEPT ![k] = Append(queues[k], pos + 1)]
        BY <1>2, <3>1 DEF Classify
      <4>2. Append(queues[k], pos + 1) \in Seq(1 .. MaxLines)
        BY <1>1, <2>1, <3>1
      <4> HIDE DEF k
      <4>3. QED
        BY <1>1, <4>1, <4>2
    <3>2. CASE ~(k \in Declarations /\ ~QueueFull(queues[k]))
      BY <1>1, <1>2, <3>2 DEF Classify
    <3>3. QED
      BY <3>1, <3>2
  <2>3. QED
    BY <1>2, <2>1, <2>2 DEF Classify, Typed, TypeOK, Phases
<1>3. CASE EndOfSource
  BY <1>3 DEF EndOfSource, Typed, TypeOK, Phases, Declarations
<1>4. CASE CompileQueued
  <2> DEFINE l == Head(queues[phase])
  <2>1. /\ Where(l) /\ CompileLine(l) /\ pos' = l /\ current' = l /\ source' = source
        /\ queues' = [queues EXCEPT ![phase] = Tail(queues[phase])]
        /\ queues[phase] # <<>>
    BY <1>4, QueuedLine
  <2> HIDE DEF l
  <2>2. l \in 1 .. Len(source) /\ phase \in Declarations
    BY <1>1, <2>1 DEF Where
  <2>3. queues' \in [Declarations -> Seq(1 .. MaxLines)]
    <3>1. Tail(queues[phase]) \in Seq(1 .. MaxLines)
      BY <1>1, <2>1, <2>2
    <3>2. QED
      BY <1>1, <2>1, <2>2, <3>1
  <2>4. l \in 0 .. MaxLines /\ l <= Len(source) /\ l > 0
    BY <1>1, <2>2, MaxLinesAssumption
  <2>5. QED
    BY <1>1, <2>1, <2>3, <2>4, LineTyped DEF Typed, TypeOK
<1>5. CASE CompileBodyLine
  <2>1. /\ Where(current') /\ CompileLine(current')
        /\ pos' \in 0 .. Len(source) /\ source' = source /\ queues' = queues
    BY <1>5, BodyLine
  <2>2. current' \in 1 .. Len(source)
    BY <1>1, <2>1 DEF Where
  <2>3. /\ current' \in 0 .. MaxLines /\ current' <= Len(source) /\ current' > 0
        /\ pos' \in 0 .. MaxLines /\ pos' <= Len(source)
    BY <1>1, <2>1, <2>2, MaxLinesAssumption
  <2>4. QED
    BY <1>1, <2>1, <2>3, LineTyped DEF Typed, TypeOK
<1>6. CASE EndOfPass
  <2>1. phase' \in Phases
    BY <1>6 DEF EndOfPass, NextPass, Phases, Declarations
  <2>2. QED
    BY <1>6, <2>1 DEF EndOfPass, Typed, TypeOK
<1>7. QED
  BY <1>2, <1>3, <1>4, <1>5, <1>6 DEF Next

-----------------------------------------------------------------------------
(***************************************************************************)
(* What the tables know                                                    *)
(***************************************************************************)
\* A declaration that passes had not been compiled before.
LEMMA PassesOnce ==
  ASSUME Typed, Known, NEW n, Where(n), CompileLine(n), Passing(source[n]),
         source[n].kind \in Declarations
  PROVE  times[n] = 0 /\ times'[n] = 1
<1>1. n \in DOMAIN source /\ n \in 1 .. MaxLines /\ source[n] \in Lines
  BY SourceIs, MaxLinesAssumption DEF Where, Typed, TypeOK
<1>2. table[source[n].name] = "unknown"
  BY DEF Passing
<1>3. \/ times[n] = 0
      \/ times[n] = 1 /\ table[source[n].name] = Makes(source[n].kind)
  BY <1>1 DEF Known, Where, Declarations
<1>4. Makes(source[n].kind) # "unknown"
  BY DEF Makes, Declarations
<1>5. times[n] = 0
  BY <1>2, <1>3, <1>4
<1>6. QED
  BY <1>1, <1>5, Effects, CountedIs DEF Typed, TypeOK

LEMMA KnownLine ==
  ASSUME Typed, Known, NEW n, Where(n), CompileLine(n), source' = source
  PROVE  Known'
<1>1. /\ n \in DOMAIN source /\ DOMAIN source \subseteq 1 .. MaxLines
      /\ \A l \in DOMAIN source : source[l] \in Lines
      /\ phase # "failed" /\ table \in [Names -> Meanings]
      /\ times \in [1 .. MaxLines -> 0 .. 2]
  BY SourceIs, MaxLinesAssumption DEF Where, Typed, TypeOK, Declarations
<1>2. SUFFICES ASSUME phase' # "failed" PROVE Known'
  BY DEF Known
<1>3. Passing(source[n]) /\ Counted(n)
  BY <1>1, <1>2, Effects DEF Failing
<1>4. \A l \in DOMAIN source : l # n => times'[l] = times[l]
  BY <1>1, <1>3, CountedIs
<1>5. \A l \in DOMAIN source : source[l].kind \in Declarations =>
        \/ times[l] = 0
        \/ times[l] = 1 /\ table[source[l].name] = Makes(source[l].kind)
  BY <1>1 DEF Known
<1>6. \A k \in Declarations : Makes(k) # "unknown"
  BY DEF Makes, Declarations
<1>7. CASE source[n].kind \notin Declarations
  <2>1. table' = table
    BY <1>3, <1>7 DEF Passing
  <2>2. \A l \in DOMAIN source : source[l].kind \in Declarations => times'[l] = times[l]
    BY <1>4, <1>7
  <2>3. QED
    BY <1>1, <2>1, <2>2 DEF Known
<1>8. CASE source[n].kind \in Declarations
  <2> DEFINE x == source[n].name
  <2>1. /\ table[x] = "unknown" /\ table' = [table EXCEPT ![x] = Makes(source[n].kind)]
        /\ x \in Names
    BY <1>1, <1>3, <1>8, LineIs DEF Passing
  <2>2. times[n] = 0 /\ times'[n] = 1
    BY <1>3, <1>8, PassesOnce
  <2>3. /\ table'[x] = Makes(source[n].kind)
        /\ \A y \in Names : y # x => table'[y] = table[y]
    BY <1>1, <2>1
  <2>4. ASSUME NEW l \in DOMAIN source, source[l].kind \in Declarations
        PROVE  \/ times'[l] = 0
               \/ times'[l] = 1 /\ table'[source[l].name] = Makes(source[l].kind)
    <3>1. CASE l = n
      BY <2>2, <2>3, <3>1
    <3>2. CASE l # n
      <4>1. times'[l] = times[l] /\ source[l].name \in Names
        BY <1>1, <1>4, <2>4, <3>2, LineIs
      <4>2. CASE times[l] = 0
        BY <4>1, <4>2
      <4>3. CASE times[l] = 1 /\ table[source[l].name] = Makes(source[l].kind)
        <5>1. source[l].name # x
          BY <1>6, <2>1, <2>4, <4>3
        <5>2. QED
          BY <2>3, <4>1, <4>3, <5>1
      <4>4. QED
        BY <1>5, <2>4, <4>2, <4>3
    <3>3. QED
      BY <3>1, <3>2
  <2>5. ASSUME NEW y \in Names, table'[y] # "unknown"
        PROVE  \E l \in DOMAIN source :
                 source[l].kind \in Declarations /\ source[l].name = y /\ times'[l] = 1
    <3>1. CASE y = x
      BY <1>1, <1>8, <2>2, <3>1
    <3>2. CASE y # x
      <4>1. table[y] # "unknown"
        BY <2>3, <2>5, <3>2
      <4>2. PICK l \in DOMAIN source :
              source[l].kind \in Declarations /\ source[l].name = y /\ times[l] = 1
        BY <1>1, <4>1 DEF Known
      <4>3. l # n
        BY <3>2, <4>2
      <4>4. QED
        BY <1>4, <4>2, <4>3
    <3>3. QED
      BY <3>1, <3>2
  <2>6. QED
    BY <2>4, <2>5 DEF Known
<1>9. QED
  BY <1>7, <1>8

LEMMA KnownNext ==
  ASSUME Typed, Lined, Known, Next
  PROVE  Known'
<1>1. CASE Classify
  BY <1>1 DEF Classify, Known
<1>2. CASE EndOfSource
  BY <1>2 DEF EndOfSource, Known
<1>3. CASE CompileQueued
  BY <1>3, QueuedLine, KnownLine
<1>4. CASE CompileBodyLine
  BY <1>4, BodyLine, KnownLine
<1>5. CASE EndOfPass
  BY <1>5 DEF EndOfPass, Known, Declarations
<1>6. QED
  BY <1>1, <1>2, <1>3, <1>4, <1>5 DEF Next

-----------------------------------------------------------------------------
(***************************************************************************)
(* What the queues hold                                                    *)
(***************************************************************************)
LEMMA SameSource ==
  ASSUME source' = source
  PROVE  /\ \A k : LinesOf(k)' = LinesOf(k)
         /\ \A l : Queued(l)' <=> Queued(l)
         /\ \A i, j, K : Braces(i, j, K)' = Braces(i, j, K)
         /\ \A h, l : InFunctionOf(h, l)' <=> InFunctionOf(h, l)
         /\ Balanced' <=> Balanced
  BY DEF LinesOf, Queued, Braces, InFunctionOf, Ends, Balanced

LEMMA SeenIs ==
  ASSUME Typed, NEW k, NEW n \in Nat
  PROVE  /\ IsFiniteSet(Seen(k, n)) /\ Cardinality(Seen(k, n)) \in Nat
         /\ n + 1 \notin Seen(k, n)
         /\ n + 1 \in LinesOf(k) => /\ Seen(k, n + 1) = Seen(k, n) \cup {n + 1}
                                    /\ Cardinality(Seen(k, n + 1)) = Cardinality(Seen(k, n)) + 1
         /\ n + 1 \notin LinesOf(k) => Seen(k, n + 1) = Seen(k, n)
<1>1. LinesOf(k) \subseteq Nat
  BY SourceIs DEF LinesOf, Typed, TypeOK
<1>2. IsFiniteSet(Seen(k, n))
  <2>1. IsFiniteSet(0 .. n)
    BY FS_Interval
  <2>2. Seen(k, n) \subseteq 0 .. n
    BY <1>1 DEF Seen
  <2>3. QED
    BY <2>1, <2>2, FS_Subset
<1>3. Cardinality(Seen(k, n)) \in Nat
  BY <1>2, FS_CardinalityType
<1>4. n + 1 \notin Seen(k, n)
  BY DEF Seen
<1>5. \A m \in Nat : m <= n + 1 <=> m <= n \/ m = n + 1
  OBVIOUS
<1>6. ASSUME n + 1 \in LinesOf(k)
      PROVE  /\ Seen(k, n + 1) = Seen(k, n) \cup {n + 1}
             /\ Cardinality(Seen(k, n + 1)) = Cardinality(Seen(k, n)) + 1
  <2>1. Seen(k, n + 1) = Seen(k, n) \cup {n + 1}
    BY <1>1, <1>5, <1>6 DEF Seen
  <2>2. QED
    BY <1>2, <1>4, <2>1, FS_AddElement
<1>7. ASSUME n + 1 \notin LinesOf(k) PROVE Seen(k, n + 1) = Seen(k, n)
  BY <1>1, <1>5, <1>7 DEF Seen
<1>8. QED
  BY <1>2, <1>3, <1>4, <1>6, <1>7

LEMMA ClassifyLined ==
  ASSUME Typed, Lined, Classify
  PROVE  Lined'
<1> DEFINE n == pos + 1
           k == source[n].kind
<1>1. /\ phase = "classify" /\ phase' \in {"classify", "failed"}
      /\ source' = source /\ times' = times
      /\ pos' = n
      /\ queues' = IF k \in Declarations /\ ~QueueFull(queues[k])
                   THEN [queues EXCEPT ![k] = Append(queues[k], n)] ELSE queues
  BY DEF Classify
<1>2. /\ DOMAIN source = 1 .. Len(source) /\ pos \in Nat /\ n \in DOMAIN source
      /\ queues \in [Declarations -> Seq(1 .. MaxLines)]
  BY SourceIs, MaxLinesAssumption DEF Typed, TypeOK, Classify
<1>3. /\ \A j \in Declarations :
           /\ Increasing(queues[j])
           /\ Elements(queues[j]) = {l \in Seen(j, pos) : Queued(l)}
           /\ Len(queues[j]) = IF Cardinality(Seen(j, pos)) <= QueueCap
                               THEN Cardinality(Seen(j, pos)) ELSE QueueCap
  BY <1>1 DEF Lined
<1> HIDE DEF n
<1>4. \A j \in Declarations : n \in LinesOf(j) <=> j = k
  BY <1>2 DEF LinesOf
<1> HIDE DEF k
<1>5. ASSUME NEW j \in Declarations
      PROVE  /\ Increasing(queues'[j])
             /\ Elements(queues'[j]) = {l \in Seen(j, n) : Queued(l)}
             /\ Len(queues'[j]) = IF Cardinality(Seen(j, n)) <= QueueCap
                                  THEN Cardinality(Seen(j, n)) ELSE QueueCap
  <2> DEFINE q == queues[j]
             c == Cardinality(Seen(j, pos))
  <2>1. /\ Increasing(q) /\ Elements(q) = {l \in Seen(j, pos) : Queued(l)}
        /\ Len(q) = IF c <= QueueCap THEN c ELSE QueueCap
        /\ q \in Seq(Nat)
    <3>1. q \in Seq(1 .. MaxLines)
      BY <1>2
    <3>2. q \in Seq(Nat)
      <4> HIDE DEF q
      <4>1. QED
        BY <3>1, MaxLinesAssumption
    <3>3. QED
      BY <1>3, <3>2
  <2>2. CASE j # k
    <3>1. queues'[j] = q
      BY <1>1, <1>2, <2>2
    <3>2. Seen(j, n) = Seen(j, pos)
      BY <1>2, <1>4, <2>2, SeenIs DEF n
    <3>3. QED
      BY <2>1, <3>1, <3>2
  <2>3. CASE j = k
    <3>1. /\ Seen(j, n) = Seen(j, pos) \cup {n} /\ Cardinality(Seen(j, n)) = c + 1
          /\ c \in Nat
      BY <1>2, <1>4, <2>3, SeenIs DEF n
    <3>2. Queued(n) <=> c + 1 <= QueueCap
      <4>1. Queued(n) <=> Cardinality(Seen(j, n)) <= QueueCap
        BY <2>3 DEF Queued, Seen, k
      <4>2. QED
        BY <3>1, <4>1
    <3> HIDE DEF q, c
    <3>3. CASE c + 1 <= QueueCap
      <4>1. Len(q) = c /\ ~QueueFull(q)
        BY <2>1, <3>1, <3>3, QueueCapAssumption DEF QueueFull
      <4>2. queues'[j] = Append(q, n)
        BY <1>1, <1>2, <2>3, <4>1 DEF q
      <4>3. \A e \in Elements(q) : e < n
        <5>1. \A e \in Seen(j, pos) : e \in Nat /\ e <= pos
          BY <1>2 DEF Seen, LinesOf
        <5>2. QED
          BY <1>2, <2>1, <5>1 DEF n
      <4>4. n \in Nat
        BY <1>2 DEF n
      <4>5. /\ Elements(Append(q, n)) = Elements(q) \cup {n}
            /\ Increasing(Append(q, n)) /\ Len(Append(q, n)) = Len(q) + 1
        BY <2>1, <4>3, <4>4, AppendIs
      <4>6. Elements(Append(q, n)) = {l \in Seen(j, n) : Queued(l)}
        BY <2>1, <3>1, <3>2, <3>3, <4>5
      <4>7. QED
        BY <3>1, <3>3, <4>1, <4>2, <4>5, <4>6
    <3>4. CASE ~(c + 1 <= QueueCap)
      <4>1. Len(q) = QueueCap
        BY <2>1, <3>1, <3>4, QueueCapAssumption
      <4>2. queues'[j] = q
        BY <1>1, <2>3, <4>1 DEF QueueFull, q
      <4>3. Elements(q) = {l \in Seen(j, n) : Queued(l)}
        BY <2>1, <3>1, <3>2, <3>4
      <4>4. QED
        BY <2>1, <3>1, <3>4, <4>1, <4>2, <4>3
    <3>5. QED
      BY <3>3, <3>4
  <2>4. QED
    BY <2>2, <2>3
<1>6. \A j \in Declarations :
        /\ Increasing(queues[j])'
        /\ Elements(queues[j])' = {l \in Seen(j, pos) : Queued(l)}'
        /\ Len(queues[j])' = (IF Cardinality(Seen(j, pos)) <= QueueCap
                              THEN Cardinality(Seen(j, pos)) ELSE QueueCap)'
  <2>1. \A j \in Declarations : Seen(j, pos)' = Seen(j, n) 
    BY <1>1 DEF Seen, LinesOf
  <2>2. \A l : Queued(l)' <=> Queued(l)
    BY <1>1, SameSource
  <2>3. QED
    BY <1>5, <2>1, <2>2 DEF Increasing, Elements
<1>7. times' = [l \in 1 .. MaxLines |-> 0]
  BY <1>1 DEF Lined
<1>8. QED
  BY <1>1, <1>6, <1>7 DEF Lined

\* What is left to show of the queues once the source is read for the first time.
LEMMA LinedLater ==
  ASSUME source' = source, phase' # "classify",
         \A k \in Declarations : Increasing(queues'[k]),
         phase' # "failed" =>
           \A k \in Declarations :
             /\ Elements(queues'[k]) = {l \in LinesOf(k) : Queued(l) /\ times'[l] = 0}
             /\ Passed(k)' => queues'[k] = <<>>
  PROVE  Lined'
<1>1. /\ \A k : LinesOf(k)' = LinesOf(k)
      /\ \A l : Queued(l)' <=> Queued(l)
  BY SameSource
<1>2. \A k \in Declarations : Increasing(queues[k])' /\ Elements(queues[k])' = Elements(queues'[k])
  BY DEF Increasing, Elements
<1>3. phase' # "failed" =>
        \A k \in Declarations :
          /\ Elements(queues[k])' = {l \in LinesOf(k) : Queued(l) /\ times[l] = 0}'
          /\ Passed(k)' => queues'[k] = <<>>
  BY <1>1, <1>2
<1>4. QED
  BY <1>2, <1>3 DEF Lined

\* The lines of a kind that are queued and not compiled.
Waiting(k) == {l \in LinesOf(k) : Queued(l) /\ times[l] = 0}

LEMMA QueuedLined ==
  ASSUME Typed, Lined, Known, CompileQueued
  PROVE  Lined'
<1> DEFINE l == Head(queues[phase])
<1>1. /\ Where(l) /\ CompileLine(l) /\ l \in LinesOf(phase) /\ Queued(l)
      /\ times[l] = 0 /\ source' = source
      /\ queues' = [queues EXCEPT ![phase] = Tail(queues[phase])]
      /\ queues[phase] \in Seq(Nat) /\ queues[phase] # <<>> /\ Increasing(queues[phase])
  BY QueuedLine
<1>2. /\ Increasing(Tail(queues[phase]))
      /\ Elements(Tail(queues[phase])) = Elements(queues[phase]) \ {l}
  BY <1>1, HeadIsLeast
<1> HIDE DEF l
<1>3. /\ phase \in Declarations /\ phase \notin {"classify", "failed"}
      /\ l \in 1 .. MaxLines /\ source[l] \in Lines /\ source[l].kind = phase
      /\ queues \in [Declarations -> Seq(1 .. MaxLines)]
      /\ times \in [1 .. MaxLines -> 0 .. 2]
      /\ \A k : LinesOf(k) \subseteq 1 .. MaxLines
  BY <1>1, SourceIs, MaxLinesAssumption DEF Where, LinesOf, Typed, TypeOK, Declarations
<1>4. \A k \in Declarations : Increasing(queues[k]) /\ Elements(queues[k]) = Waiting(k)
  BY <1>3 DEF Lined, Waiting
<1>5. \A k \in Declarations : queues'[k] = IF k = phase THEN Tail(queues[phase]) ELSE queues[k]
  BY <1>1, <1>3
<1>6. \A k \in Declarations : Increasing(queues'[k])
  BY <1>2, <1>4, <1>5
<1>7. Counted(l) /\ (Passing(source[l]) \/ Failing)
  BY <1>1, <1>3, Effects
<1>8. times'[l] = 1 /\ \A m \in 1 .. MaxLines : m # l => times'[m] = times[m]
  BY <1>1, <1>3, <1>7, CountedIs
<1>9. phase' # "classify" /\ (phase' # "failed" => phase' = phase)
  BY <1>3, <1>7 DEF Failing, Passing
<1>10. ASSUME phase' # "failed", NEW k \in Declarations
       PROVE  /\ Elements(queues'[k]) = {m \in LinesOf(k) : Queued(m) /\ times'[m] = 0}
              /\ Passed(k)' => queues'[k] = <<>>
  <2>1. phase' = phase
    BY <1>9, <1>10
  <2>2. CASE k = phase
    <3>1. Elements(queues'[k]) = Waiting(k) \ {l}
      BY <1>2, <1>4, <1>5, <2>2
    <3>2. \A m \in LinesOf(k) : times'[m] = 0 <=> m # l /\ times[m] = 0
      BY <1>3, <1>8
    <3>3. ~Passed(k)'
      BY <1>3, <2>1, <2>2 DEF Passed, Declarations
    <3>4. QED
      BY <3>1, <3>2, <3>3 DEF Waiting
  <2>3. CASE k # phase
    <3>1. l \notin LinesOf(k)
      BY <1>3, <2>3 DEF LinesOf
    <3>2. \A m \in LinesOf(k) : times'[m] = times[m]
      BY <1>3, <1>8, <3>1
    <3>3. Elements(queues'[k]) = Waiting(k)
      BY <1>4, <1>5, <2>3
    <3>4. Passed(k)' <=> Passed(k)
      BY <2>1 DEF Passed
    <3>5. Passed(k) => queues'[k] = <<>>
      BY <1>3, <1>5, <2>3 DEF Lined
    <3>6. QED
      BY <3>2, <3>3, <3>4, <3>5 DEF Waiting
  <2>4. QED
    BY <2>2, <2>3
<1>11. QED
  BY <1>1, <1>6, <1>9, <1>10, LinedLater

\* A queued declaration inside a function does not pass.
LEMMA NotQueuedInside ==
  ASSUME Typed, Lined, Known, CompileBodyLine, phase' # "failed"
  PROVE  /\ Passing(source[current']) /\ Counted(current')
         /\ source[current'].kind # "function" /\ ~Queued(current')
<1> DEFINE n == current'
           k == source[n].kind
<1>1. Where(n) /\ CompileLine(n) /\ function /\ phase = "function"
  BY BodyLine
<1> HIDE DEF n
<1>2. n \in DOMAIN source /\ source[n] \in Lines /\ (function <=> level > 0) /\ level \in Nat
  BY <1>1, SourceIs, BodyCapAssumption DEF Where, Typed, TypeOK
<1>3. Passing(source[n]) /\ Counted(n)
  BY <1>1, <1>2, Effects DEF Failing
<1>4. k # "function"
  BY <1>1, <1>2, <1>3 DEF Passing
<1>5. ASSUME Queued(n) PROVE FALSE
  <2>1. k \in Declarations
    BY <1>5 DEF Queued
  <2>2. times[n] = 0
    BY <1>1, <1>3, <2>1, PassesOnce
  <2>3. n \in Elements(queues[k])
    BY <1>1, <1>2, <1>5, <2>1, <2>2 DEF Lined, LinesOf
  <2>4. queues[k] = <<>>
    BY <1>1, <1>4, <2>1 DEF Lined, Passed, Declarations
  <2>5. QED
    BY <2>3, <2>4 DEF Elements
<1>6. QED
  BY <1>3, <1>4, <1>5 DEF n

LEMMA BodyLined ==
  ASSUME Typed, Lined, Known, CompileBodyLine
  PROVE  Lined'
<1> DEFINE n == current'
<1>1. /\ Where(n) /\ CompileLine(n) /\ phase = "function"
      /\ source' = source /\ queues' = queues
  BY BodyLine
<1> HIDE DEF n
<1>2. /\ n \in 1 .. MaxLines /\ source[n] \in Lines
      /\ times \in [1 .. MaxLines -> 0 .. 2]
      /\ \A k : LinesOf(k) \subseteq 1 .. MaxLines
  BY <1>1, SourceIs, MaxLinesAssumption DEF Where, LinesOf, Typed, TypeOK
<1>3. phase' = "function" \/ phase' = "failed"
  BY <1>1, <1>2, Effects DEF Passing, Failing
<1>4. \A k \in Declarations : Increasing(queues'[k])
  BY <1>1 DEF Lined
<1>5. ASSUME phase' # "failed", NEW k \in Declarations
      PROVE  /\ Elements(queues'[k]) = {m \in LinesOf(k) : Queued(m) /\ times'[m] = 0}
             /\ Passed(k)' => queues'[k] = <<>>
  <2>1. ~Queued(n) /\ Counted(n)
    BY <1>5, NotQueuedInside DEF n
  <2>2. \A m \in LinesOf(k) : Queued(m) => times'[m] = times[m]
    BY <1>2, <2>1, CountedIs
  <2>3. /\ Elements(queues[k]) = {m \in LinesOf(k) : Queued(m) /\ times[m] = 0}
        /\ Passed(k) => queues[k] = <<>>
    BY <1>1 DEF Lined
  <2>4. Passed(k)' <=> Passed(k)
    BY <1>1, <1>3, <1>5 DEF Passed
  <2>5. QED
    BY <1>1, <2>2, <2>3, <2>4
<1>6. QED
  BY <1>1, <1>3, <1>4, <1>5, LinedLater

LEMMA LinedNext ==
  ASSUME Typed, Lined, Known, Next
  PROVE  Lined'
<1>1. CASE EndOfSource
  <2>1. /\ phase = "classify" /\ phase' = "constant" /\ source' = source
        /\ queues' = queues /\ times' = times /\ pos = Len(source)
    BY <1>1 DEF EndOfSource
  <2>2. ASSUME NEW k \in Declarations
        PROVE  /\ Increasing(queues'[k])
               /\ Elements(queues'[k]) = {l \in LinesOf(k) : Queued(l) /\ times'[l] = 0}
               /\ ~Passed(k)'
    <3>1. DOMAIN source = 1 .. Len(source) /\ Len(source) <= MaxLines /\ Len(source) \in Nat
      BY SourceIs, MaxLinesAssumption DEF Typed, TypeOK
    <3>2. Seen(k, pos) = LinesOf(k) /\ LinesOf(k) \subseteq 1 .. MaxLines
      BY <2>1, <3>1, MaxLinesAssumption DEF Seen, LinesOf
    <3>3. Elements(queues[k]) = {l \in Seen(k, pos) : Queued(l)} /\ Increasing(queues[k])
      BY <2>1 DEF Lined
    <3>4. \A l \in LinesOf(k) : times[l] = 0
      BY <2>1, <3>2 DEF Lined
    <3>5. ~Passed(k)'
      BY <2>1 DEF Passed
    <3>6. QED
      BY <2>1, <3>2, <3>3, <3>4, <3>5
  <2>3. QED
    BY <2>1, <2>2, LinedLater
<1>2. CASE EndOfPass
  <2>1. /\ phase \in Declarations /\ queues[phase] = <<>> /\ phase' = NextPass[phase]
        /\ source' = source /\ queues' = queues /\ times' = times
    BY <1>2 DEF EndOfPass
  <2>2. phase \notin {"classify", "failed"} /\ phase' # "classify"
    BY <2>1 DEF NextPass, Declarations
  <2>3. \A k \in Declarations : Passed(k)' => Passed(k) \/ k = phase
    BY <2>1 DEF NextPass, Declarations, Passed
  <2>4. \A k \in Declarations :
          /\ Increasing(queues[k])
          /\ Elements(queues[k]) = {l \in LinesOf(k) : Queued(l) /\ times[l] = 0}
          /\ Passed(k) => queues[k] = <<>>
    BY <2>2 DEF Lined
  <2>5. QED
    BY <2>1, <2>2, <2>3, <2>4, LinedLater
<1>3. QED
  BY <1>1, <1>2, ClassifyLined, QueuedLined, BodyLined DEF Next

-----------------------------------------------------------------------------
(***************************************************************************)
(* Inside a function                                                       *)
(***************************************************************************)
\* The function that is open has lines to come.
LEMMA Ahead ==
  ASSUME Typed, Balanced, NEW h, At(h)
  PROVE  /\ h \in LinesOf("function") /\ h \in Nat /\ current \in Nat /\ h <= current
         /\ current < Len(source) /\ Len(source) \in Nat
         /\ InFunctionOf(h, current) /\ InFunctionOf(h, current + 1)
<1>1. /\ DOMAIN source = 1 .. Len(source) /\ Len(source) \in Nat
      /\ current \in Nat /\ h \in LinesOf("function") /\ h <= current
  BY SourceIs, MaxLinesAssumption DEF Typed, TypeOK, At, Started
<1>2. h \in Nat
  BY <1>1 DEF LinesOf
<1>3. PICK m \in h .. Len(source) : Ends(h, m)
  BY <1>1 DEF Balanced
<1>4. m \in Nat /\ h <= m /\ m <= Len(source)
  BY <1>1, <1>2
<1>5. m > current
  <2>1. Braces(h, m, {"open", "function"}) = Braces(h, m, {"close"})
    BY <1>3 DEF Ends
  <2>2. Braces(h, m, {"close"}) \in Nat
    BY <1>2, <1>4, BracesType
  <2>3. m \notin h .. current
    BY <2>1, <2>2 DEF At
  <2>4. QED
    BY <1>1, <1>2, <1>4, <2>3
<1>6. current \in h .. m /\ current + 1 \in h .. m
  BY <1>1, <1>2, <1>4, <1>5
<1>7. QED
  BY <1>1, <1>2, <1>3, <1>4, <1>5, <1>6 DEF InFunctionOf

LEMMA InFunctionBelow ==
  ASSUME source \in Seq(Lines), NEW h \in Nat, NEW l \in Nat, NEW n \in Nat,
         h <= l, l <= n, InFunctionOf(h, n)
  PROVE  InFunctionOf(h, l)
<1>1. PICK m \in h .. Len(source) : n \in h .. m /\ Ends(h, m)
  BY DEF InFunctionOf
<1>2. l \in h .. m
  BY <1>1
<1>3. QED
  BY <1>1, <1>2 DEF InFunctionOf

LEMMA AtLater ==
  ASSUME NEW h, source' = source, h \in LinesOf("function"), Queued(h), times'[h] = 1,
         pos' = current', h <= current',
         level' + Braces(h, current', {"close"}) = Braces(h, current', {"open", "function"}),
         \A l \in h .. current' : Braces(h, l, {"open", "function"}) > Braces(h, l, {"close"}),
         \A g \in LinesOf("function") : Queued(g) /\ g < h => times'[g] = 1
  PROVE  At(h)'
<1>1. /\ \A k : LinesOf(k)' = LinesOf(k)
      /\ \A l : Queued(l)' <=> Queued(l)
      /\ \A i, j, K : Braces(i, j, K)' = Braces(i, j, K)
  BY SameSource
<1>2. /\ Braces(h, current, {"close"})' = Braces(h, current', {"close"})
      /\ Braces(h, current, {"open", "function"})' = Braces(h, current', {"open", "function"})
  BY DEF Braces
<1>3. QED
  BY <1>1, <1>2 DEF At, Started

LEMMA InsideBegins ==
  ASSUME Typed, Lined, Known, CompileQueued, phase' = "function"
  PROVE  \E h \in DOMAIN source : At(h)'
<1>1. PICK h \in DOMAIN source :
        /\ Where(h) /\ CompileLine(h) /\ h \in LinesOf(phase) /\ Queued(h)
        /\ times[h] = 0 /\ source' = source /\ pos' = h /\ current' = h
        /\ \A m \in LinesOf(phase) : Queued(m) /\ m < h => times[m] # 0
  BY QueuedLine DEF Where
<1>2. /\ h \in DOMAIN source /\ h \in Nat /\ h \in 1 .. MaxLines /\ source[h] \in Lines
      /\ times \in [1 .. MaxLines -> 0 .. 2]
      /\ LinesOf("function") \subseteq 1 .. MaxLines
  BY <1>1, SourceIs, MaxLinesAssumption DEF Where, LinesOf, Typed, TypeOK
<1>3. Passing(source[h]) /\ Counted(h) /\ phase = "function" /\ source[h].kind = "function"
  <2>1. Passing(source[h]) /\ Counted(h)
    BY <1>1, <1>2, Effects DEF Failing
  <2>2. phase = "function"
    BY <2>1 DEF Passing
  <2>3. QED
    BY <1>1, <2>1, <2>2 DEF LinesOf
<1>4. level' = 1
  BY <1>3 DEF Passing
<1>5. Braces(h, h, {"close"}) = 0 /\ Braces(h, h, {"open", "function"}) = 1
  BY <1>2, <1>3, BracesOne
<1>6. \A l \in h .. h : l = h
  BY <1>2
<1>7. times'[h] = 1 /\ \A l \in 1 .. MaxLines : l # h => times'[l] = times[l]
  BY <1>1, <1>2, <1>3, CountedIs
<1>8. ASSUME NEW g \in LinesOf("function"), Queued(g), g < h PROVE times'[g] = 1
  <2>1. times[g] # 0 /\ g # h /\ g \in DOMAIN source /\ source[g].kind = "function"
    BY <1>1, <1>3, <1>8 DEF LinesOf
  <2>2. times[g] = 1
    BY <1>3, <2>1 DEF Known, Declarations
  <2>3. QED
    BY <1>2, <1>7, <2>1, <2>2
<1>9. /\ h \in LinesOf("function") /\ pos' = current' /\ h <= current'
      /\ level' + Braces(h, current', {"close"}) = Braces(h, current', {"open", "function"})
      /\ \A l \in h .. current' : Braces(h, l, {"open", "function"}) > Braces(h, l, {"close"})
  BY <1>1, <1>2, <1>3, <1>4, <1>5, <1>6
<1>10. At(h)'
  BY <1>1, <1>7, <1>8, <1>9, AtLater
<1>11. QED
  BY <1>10

\* The next line of a function keeps count of its braces, up to the last.
LEMMA InsideGoesOn ==
  ASSUME Typed, Lined, Known, Balanced, NEW h, At(h), CompileBodyLine, phase' # "failed"
  PROVE  /\ current' = current + 1 /\ pos' = current'
         /\ function' => At(h)'
         /\ ~function' => Ends(h, current')
<1> DEFINE n == current + 1
<1>1. /\ h \in LinesOf("function") /\ h \in Nat /\ current \in Nat /\ h <= current
      /\ current < Len(source) /\ Len(source) \in Nat
      /\ InFunctionOf(h, current) /\ InFunctionOf(h, n)
  BY Ahead
<1>2. /\ Where(current') /\ CompileLine(current') /\ function /\ phase = "function"
      /\ pos' = n /\ current' = n /\ source' = source
  <2>1. pos = current
    BY DEF At
  <2>2. QED
    BY <1>1, <2>1, BodyLine
<1>3. /\ Passing(source[n]) /\ Counted(n) /\ source[n].kind # "function"
  BY <1>2, NotQueuedInside
<1> HIDE DEF n
<1>4. /\ n \in Nat /\ n \in 1 .. MaxLines /\ source[n] \in Lines
      /\ times \in [1 .. MaxLines -> 0 .. 2] /\ level \in Nat /\ level > 0
      /\ LinesOf("function") \subseteq 1 .. MaxLines
      /\ n = current + 1 /\ h # n
  <2>1. n \in DOMAIN source
    BY <1>2 DEF Where
  <2>2. QED
    BY <1>1, <1>2, <2>1, SourceIs, MaxLinesAssumption, BodyCapAssumption
    DEF LinesOf, Typed, TypeOK, n
<1>5. /\ level' \in Nat /\ function' \in BOOLEAN /\ (function' <=> level' > 0)
  <2>1. level' \in 0 .. BodyCap + 1 /\ function' \in BOOLEAN /\ (function' <=> level' > 0)
    BY <1>2, LineTyped
  <2>2. QED
    BY <2>1, BodyCapAssumption
<1> DEFINE o == Braces(h, current, {"open", "function"})
           c == Braces(h, current, {"close"})
           p == Braces(h, n, {"open", "function"})
           d == Braces(h, n, {"close"})
<1>6. /\ o \in Nat /\ c \in Nat /\ p \in Nat /\ d \in Nat
      /\ p = IF source[n].kind \in {"open", "function"} THEN o + 1 ELSE o
      /\ d = IF source[n].kind \in {"close"} THEN c + 1 ELSE c
  <2>1. h <= current + 1
    BY <1>1
  <2>2. ASSUME NEW K
        PROVE  /\ Braces(h, current, K) \in Nat /\ Braces(h, n, K) \in Nat
               /\ Braces(h, n, K) = IF source[n].kind \in K THEN Braces(h, current, K) + 1
                                    ELSE Braces(h, current, K)
    <3>1. Braces(h, current, K) \in Nat /\ Braces(h, n, K) \in Nat
      BY <1>1, <1>4, BracesType
    <3>2. Braces(h, current + 1, K) =
            IF source[current + 1].kind \in K THEN Braces(h, current, K) + 1
            ELSE Braces(h, current, K)
      BY <1>1, <2>1, BracesNext
    <3>3. QED
      BY <1>4, <3>1, <3>2
  <2>3. QED
    BY <2>2
<1>7. level + c = o
  BY DEF At
<1> HIDE DEF o, c, p, d
<1>8. level' + d = p
  <2>1. CASE source[n].kind = "open"
    BY <1>3, <1>4, <1>6, <1>7, <2>1 DEF Passing
  <2>2. CASE source[n].kind = "close"
    <3>1. level' = level - 1
      BY <1>3, <2>2 DEF Passing
    <3>2. QED
      BY <1>4, <1>5, <1>6, <1>7, <2>2, <3>1
  <2>3. CASE source[n].kind \notin {"open", "close"}
    <3>1. level' = level
      BY <1>3, <2>3 DEF Passing
    <3>2. QED
      BY <1>3, <1>6, <1>7, <2>3, <3>1
  <2>4. QED
    BY <2>1, <2>2, <2>3
<1>9. \A l \in h .. current : Braces(h, l, {"open", "function"}) > Braces(h, l, {"close"})
  BY DEF At
<1>10. ASSUME function' PROVE At(h)'
  <2>1. p > d
    BY <1>5, <1>6, <1>8, <1>10
  <2>2. \A l \in h .. n : l \in h .. current \/ l = n
    BY <1>1, <1>4
  <2>3. \A l \in h .. n : Braces(h, l, {"open", "function"}) > Braces(h, l, {"close"})
    BY <1>9, <2>1, <2>2 DEF p, d
  <2>4. \A l \in 1 .. MaxLines : l # n => times'[l] = times[l]
    BY <1>3, <1>4, CountedIs
  <2>5. times[h] = 1 /\ Queued(h) /\ \A g \in LinesOf("function") : Queued(g) /\ g < h => times[g] = 1
    BY DEF At, Started
  <2>6. \A g \in LinesOf("function") : g # n
    BY <1>3 DEF LinesOf
  <2>7. times'[h] = 1 /\ \A g \in LinesOf("function") : Queued(g) /\ g < h => times'[g] = 1
    BY <1>1, <1>4, <2>4, <2>5, <2>6
  <2>8. h <= n
    BY <1>1, <1>4
  <2>9. QED
    BY <1>1, <1>2, <1>8, <2>3, <2>5, <2>7, <2>8, AtLater DEF p, d
<1>11. ASSUME ~function' PROVE Ends(h, n)
  <2>1. p = d
    <3>1. level' = 0
      BY <1>5, <1>11
    <3>2. QED
      BY <1>6, <1>8, <3>1
  <2>2. h .. n - 1 = h .. current
    BY <1>1, <1>4
  <2>3. QED
    BY <1>9, <2>1, <2>2 DEF Ends, p, d
<1>12. QED
  BY <1>2, <1>4, <1>10, <1>11

LEMMA InsideNext ==
  ASSUME Typed, Lined, Known, Inside, Next
  PROVE  Inside'
<1>1. SUFFICES ASSUME Balanced', phase' = "function", function'
               PROVE  \E h \in DOMAIN source' : At(h)'
  BY DEF Inside
<1>2. source' = source
  BY DEF Next, Classify, EndOfSource, CompileQueued, CompileBodyLine, EndOfPass
<1>3. Balanced
  BY <1>1, <1>2, SameSource
<1>4. CASE CompileQueued
  <2>1. Head(queues[phase]) \in DOMAIN source
    BY <1>4, QueuedLine DEF Where
  <2>2. QED
    BY <1>1, <1>2, <1>4, <2>1, InsideBegins
<1>5. CASE CompileBodyLine
  <2>1. function /\ phase = "function"
    BY <1>5, BodyLine
  <2>2. PICK h \in DOMAIN source : At(h)
    BY <1>3, <2>1 DEF Inside
  <2>3. QED
    BY <1>1, <1>2, <1>3, <1>5, <2>2, InsideGoesOn
<1>6. CASE Classify \/ EndOfSource \/ EndOfPass
  <2>1. (function /\ phase \notin {"function", "failed"}) \/ ~function'
    BY <1>1, <1>6 DEF Classify, EndOfSource, EndOfPass, NextPass, Declarations
  <2>2. QED
    BY <1>1, <2>1 DEF Typed
<1>7. QED
  BY <1>4, <1>5, <1>6 DEF Next

-----------------------------------------------------------------------------
(***************************************************************************)
(* The lines that were not queued                                          *)
(***************************************************************************)
\* What is left to show of a step: who is covered after it.
LEMMA ReachedLater ==
  ASSUME source' = source,
         Balanced /\ phase' # "failed" =>
           \A l \in DOMAIN source : ~Queued(l) =>
             /\ times'[l] = 1 => Covered(l)'
             /\ Covered(l)' => times'[l] = 1
             /\ times'[l] \in {0, 1}
  PROVE  Reached'
<1>1. (\A l : Queued(l)' <=> Queued(l)) /\ (Balanced' <=> Balanced)
  BY SameSource
<1>2. ASSUME Balanced, phase' # "failed", NEW l \in DOMAIN source, ~Queued(l)
      PROVE  times'[l] = IF Covered(l)' THEN 1 ELSE 0
  BY <1>2
<1>3. QED
  BY <1>1, <1>2 DEF Reached

LEMMA ReachedIs ==
  ASSUME Reached, Balanced, phase # "failed", NEW l \in DOMAIN source, ~Queued(l)
  PROVE  times[l] \in {0, 1} /\ (times[l] = 1 <=> Covered(l))
  BY DEF Reached

\* Nobody is covered anew while the driver stays where it is.
LEMMA StandingReached ==
  ASSUME Reached, source' = source, times' = times, current' = current,
         function' = function, phase # "failed"
  PROVE  Reached'
<1>1. /\ \A k : LinesOf(k)' = LinesOf(k)
      /\ \A l : Queued(l)' <=> Queued(l)
      /\ \A h, l : InFunctionOf(h, l)' <=> InFunctionOf(h, l)
  BY SameSource
<1>2. \A h : InFunctionOf(h, current)' <=> InFunctionOf(h, current)
  BY DEF InFunctionOf, Ends, Braces
<1>3. \A h : Started(h)' <=> Started(h)
  BY <1>1 DEF Started
<1>4. \A l : Covered(l)' <=> Covered(l)
  BY <1>1, <1>2, <1>3 DEF Covered
<1>5. QED
  BY <1>4, ReachedIs, ReachedLater

LEMMA CoveredLater ==
  ASSUME source' = source, NEW l
  PROVE  Covered(l)' <=>
           \E h \in DOMAIN source :
             /\ h \in LinesOf("function") /\ Queued(h) /\ times'[h] = 1 /\ InFunctionOf(h, l)
             /\ ~(function' /\ InFunctionOf(h, current') /\ current' < l)
<1>1. /\ \A k : LinesOf(k)' = LinesOf(k)
      /\ \A h : Queued(h)' <=> Queued(h)
      /\ \A h, n : InFunctionOf(h, n)' <=> InFunctionOf(h, n)
  BY SameSource
<1>2. \A h : InFunctionOf(h, current)' <=> InFunctionOf(h, current')
  BY DEF InFunctionOf, Ends, Braces
<1>3. \A h : Started(h)' <=> h \in LinesOf("function") /\ Queued(h) /\ times'[h] = 1
  BY <1>1 DEF Started
<1>4. QED
  BY <1>1, <1>2, <1>3 DEF Covered

LEMMA QueuedReached ==
  ASSUME Typed, Lined, Known, Reached, CompileQueued
  PROVE  Reached'
<1>1. PICK n \in DOMAIN source :
        /\ Where(n) /\ CompileLine(n) /\ n \in LinesOf(phase) /\ Queued(n)
        /\ times[n] = 0 /\ ~function /\ source' = source /\ current' = n
  BY QueuedLine DEF Where
<1>2. SUFFICES ASSUME Balanced, phase' # "failed", NEW l \in DOMAIN source, ~Queued(l)
               PROVE  /\ times'[l] = 1 => Covered(l)'
                      /\ Covered(l)' => times'[l] = 1
                      /\ times'[l] \in {0, 1}
  BY <1>1, ReachedLater
<1>3. /\ source \in Seq(Lines) /\ DOMAIN source = 1 .. Len(source) /\ DOMAIN source \subseteq 1 .. MaxLines
      /\ times \in [1 .. MaxLines -> 0 .. 2] /\ source[n] \in Lines
      /\ phase \in Declarations /\ phase # "failed" /\ source[n].kind = phase
      /\ \A h \in LinesOf("function") : h \in DOMAIN source
  BY <1>1, SourceIs, MaxLinesAssumption DEF Where, LinesOf, Typed, TypeOK, Declarations
<1>4. Passing(source[n]) /\ Counted(n)
  BY <1>1, <1>2, <1>3, Effects DEF Failing
<1>5. times'[n] = 1 /\ \A m \in DOMAIN source : m # n => times'[m] = times[m]
  BY <1>1, <1>3, <1>4, CountedIs
<1>6. times'[l] = times[l] /\ times[l] \in {0, 1} /\ (times[l] = 1 <=> Covered(l))
  BY <1>1, <1>2, <1>3, <1>5, ReachedIs
<1>7. Covered(l) <=> \E h \in DOMAIN source : Started(h) /\ InFunctionOf(h, l)
  BY <1>1 DEF Covered
<1>8. CASE phase = "function"
  <2>1. n \in LinesOf("function") /\ function'
    BY <1>1, <1>3, <1>4, <1>8 DEF Passing
  <2>2. \A h \in LinesOf("function") : h # n => ~InFunctionOf(h, n)
    BY <1>2, <1>3, <2>1, OwnHeader
  <2>3. InFunctionOf(n, n)
    BY <1>2, <1>3, <2>1, OwnHeader
  <2>4. InFunctionOf(n, l) => n < l
    <3>1. n # l /\ n \in Nat /\ l \in Nat
      BY <1>1, <1>2, <1>3
    <3>2. InFunctionOf(n, l) => n <= l
      BY <1>3, <3>1 DEF InFunctionOf
    <3>3. QED
      BY <3>1, <3>2
  <2>5. ASSUME NEW h \in DOMAIN source
        PROVE  /\ h \in LinesOf("function") /\ Queued(h) /\ times'[h] = 1 /\ InFunctionOf(h, l)
               /\ ~(function' /\ InFunctionOf(h, current') /\ current' < l)
               <=> Started(h) /\ InFunctionOf(h, l)
    <3>1. CASE h = n
      BY <1>1, <2>1, <2>3, <2>4, <3>1 DEF Started
    <3>2. CASE h # n
      BY <1>1, <1>5, <2>2, <3>2 DEF Started
    <3>3. QED
      BY <3>1, <3>2
  <2>6. Covered(l)' <=> Covered(l)
    BY <1>1, <1>7, <2>5, CoveredLater
  <2>7. QED
    BY <1>6, <2>6
<1>9. CASE phase # "function"
  <2>1. ~function'
    BY <1>1, <1>3, <1>4, <1>9 DEF Passing, Declarations
  <2>2. \A h \in LinesOf("function") : times'[h] = times[h]
    BY <1>3, <1>5, <1>9 DEF LinesOf
  <2>3. Covered(l)' <=> Covered(l)
    BY <1>1, <1>7, <2>1, <2>2, CoveredLater DEF Started
  <2>4. QED
    BY <1>6, <2>3
<1>10. QED
  BY <1>8, <1>9

LEMMA BodyReached ==
  ASSUME Typed, Lined, Known, Inside, Reached, CompileBodyLine
  PROVE  Reached'
<1> DEFINE n == current + 1
<1>1. /\ Where(current') /\ CompileLine(current') /\ function /\ phase = "function"
      /\ source' = source
  BY BodyLine
<1>2. SUFFICES ASSUME Balanced, phase' # "failed", NEW l \in DOMAIN source, ~Queued(l)
               PROVE  /\ times'[l] = 1 => Covered(l)'
                      /\ Covered(l)' => times'[l] = 1
                      /\ times'[l] \in {0, 1}
  BY <1>1, ReachedLater
<1>3. PICK h \in DOMAIN source : At(h)
  BY <1>1, <1>2 DEF Inside
<1>4. /\ current' = n /\ h \in LinesOf("function") /\ h <= current /\ current \in Nat
      /\ InFunctionOf(h, current) /\ InFunctionOf(h, n)
      /\ ~function' => Ends(h, n)
      /\ Passing(source[n]) /\ Counted(n) /\ source[n].kind # "function" /\ ~Queued(n)
      /\ Started(h)
  <2>1. /\ current' = n /\ (~function' => Ends(h, current'))
    BY <1>2, <1>3, InsideGoesOn
  <2>2. /\ Passing(source[n]) /\ Counted(n) /\ source[n].kind # "function" /\ ~Queued(n)
    BY <1>2, <2>1, NotQueuedInside
  <2>3. QED
    BY <1>2, <1>3, <2>1, <2>2, Ahead DEF At
<1> HIDE DEF n
<1>5. /\ source \in Seq(Lines) /\ DOMAIN source = 1 .. Len(source) /\ DOMAIN source \subseteq 1 .. MaxLines
      /\ times \in [1 .. MaxLines -> 0 .. 2] /\ n \in DOMAIN source /\ n = current + 1
      /\ Len(source) \in Nat
  BY <1>1, <1>4, SourceIs, MaxLinesAssumption DEF Where, Typed, TypeOK, n
<1>6. (times[n] = 0 => times'[n] = 1) /\ \A m \in DOMAIN source : m # n => times'[m] = times[m]
  BY <1>4, <1>5, CountedIs
<1>7. \A m \in DOMAIN source : ~Queued(m) => times[m] \in {0, 1} /\ (times[m] = 1 <=> Covered(m))
  BY <1>1, <1>2, ReachedIs
<1>8. \A g \in LinesOf("function") : g # h => ~InFunctionOf(g, current) /\ ~InFunctionOf(g, n)
  BY <1>2, <1>4, <1>5, Disjoint
<1>9. \A g \in LinesOf("function") : g # n
  BY <1>4 DEF LinesOf
<1>10. ASSUME NEW m \in DOMAIN source
       PROVE  /\ Covered(m) <=>
                   \E g \in DOMAIN source : /\ Started(g) /\ InFunctionOf(g, m)
                                            /\ ~(g = h /\ current < m)
              /\ Covered(m)' <=>
                   \E g \in DOMAIN source : /\ Started(g) /\ InFunctionOf(g, m)
                                            /\ ~(function' /\ g = h /\ n < m)
  <2>1. ASSUME NEW g \in DOMAIN source, Started(g)
        PROVE  (InFunctionOf(g, current) <=> g = h) /\ (InFunctionOf(g, n) <=> g = h)
    BY <1>4, <1>8, <2>1 DEF Started
  <2>2. \A g \in DOMAIN source :
          h \in LinesOf("function") /\ Started(g) <=>
            g \in LinesOf("function") /\ Queued(g) /\ times'[g] = 1
    BY <1>4, <1>6, <1>9 DEF Started
  <2>3. Covered(m) <=>
          \E g \in DOMAIN source : /\ Started(g) /\ InFunctionOf(g, m)
                                   /\ ~(g = h /\ current < m)
    BY <1>1, <2>1 DEF Covered
  <2>4. Covered(m)' <=>
          \E g \in DOMAIN source : /\ Started(g) /\ InFunctionOf(g, m)
                                   /\ ~(function' /\ g = h /\ n < m)
    BY <1>1, <1>4, <2>1, <2>2, CoveredLater
  <2>5. QED
    BY <2>3, <2>4
<1>11. CASE l = n
  <2>1. InFunctionOf(h, l) /\ current < l /\ ~(n < l)
    BY <1>4, <1>5, <1>11
  <2>2. ~Covered(l)
    <3>1. \A g \in DOMAIN source : Started(g) /\ InFunctionOf(g, l) => g = h
      BY <1>8, <1>11 DEF Started
    <3>2. QED
      BY <1>10, <2>1, <3>1
  <2>3. times'[l] = 1
    BY <1>2, <1>6, <1>7, <1>11, <2>2
  <2>4. Covered(l)'
    BY <1>3, <1>4, <1>10, <2>1
  <2>5. QED
    BY <2>3, <2>4
<1>12. CASE l # n
  <2>1. times'[l] = times[l] /\ times[l] \in {0, 1} /\ (times[l] = 1 <=> Covered(l))
    BY <1>2, <1>6, <1>7, <1>12
  <2>2. InFunctionOf(h, l) => (current < l <=> function' /\ n < l)
    <3>1. l \in Nat /\ n \in Nat /\ current \in Nat
      BY <1>2, <1>4, <1>5
    <3>2. current < l <=> n < l
      BY <1>5, <1>12, <3>1
    <3>3. ASSUME InFunctionOf(h, l), ~function' PROVE ~(n < l)
      <4>1. PICK m \in h .. Len(source) : l \in h .. m /\ Ends(h, m)
        BY <3>3 DEF InFunctionOf
      <4>2. h \in Nat /\ h <= n /\ Ends(h, n)
        BY <1>4, <1>5, <3>3
      <4>3. m = n
        BY <1>5, <3>1, <4>1, <4>2, EndsOnce
      <4>4. QED
        BY <3>1, <4>1, <4>2, <4>3
    <3>4. QED
      BY <3>2, <3>3
  <2>3. Covered(l)' <=> Covered(l)
    BY <1>10, <2>2
  <2>4. QED
    BY <2>1, <2>3
<1>13. QED
  BY <1>11, <1>12

LEMMA ReachedNext ==
  ASSUME Typed, Lined, Known, Inside, Reached, Next
  PROVE  Reached'
<1>1. CASE Classify \/ EndOfSource \/ EndOfPass
  BY <1>1, StandingReached DEF Classify, EndOfSource, EndOfPass, Declarations
<1>2. QED
  BY <1>1, QueuedReached, BodyReached DEF Next

-----------------------------------------------------------------------------
(***************************************************************************)
(* Well-formed sources                                                     *)
(***************************************************************************)
\* A declaration whose pass is over, or before the queue of its pass, has been
\* compiled, and the tables know its name.
LEMMA CompiledDeclaration ==
  ASSUME Lined, Known, phase \in Declarations, NEW m \in DOMAIN source, Queued(m),
         Passed(source[m].kind) \/ times[m] # 0
  PROVE  times[m] = 1 /\ table[source[m].name] = Makes(source[m].kind)
<1>1. source[m].kind \in Declarations /\ phase \notin {"classify", "failed"}
  BY DEF Queued, Declarations
<1>2. times[m] # 0
  <2>1. CASE Passed(source[m].kind)
    <3>1. queues[source[m].kind] = <<>>
      BY <1>1, <2>1 DEF Lined
    <3>2. Elements(queues[source[m].kind]) = {}
      BY <3>1 DEF Elements
    <3>3. QED
      BY <1>1, <3>2 DEF Lined, LinesOf
  <2>2. QED
    BY <2>1
<1>3. QED
  BY <1>1, <1>2 DEF Known

LEMMA AcceptsQueued ==
  ASSUME Typed, Lined, Known, WellFormed, AllQueued, CompileQueued
  PROVE  phase' # "failed"
<1>1. PICK l \in DOMAIN source :
        /\ Where(l) /\ CompileLine(l) /\ l \in LinesOf(phase) /\ Queued(l)
        /\ times[l] = 0 /\ ~function
        /\ \A m \in LinesOf(phase) : Queued(m) /\ m < l => times[m] # 0
  BY QueuedLine DEF Where
<1>2. /\ source[l] \in Lines /\ phase \in Declarations /\ phase # "failed"
      /\ source[l].kind = phase /\ level \in Nat /\ (function <=> level > 0)
  BY <1>1, SourceIs, BodyCapAssumption DEF Where, LinesOf, Typed, TypeOK, Declarations
<1>3. SUFFICES ASSUME Blamed(source[l]) PROVE FALSE
  BY <1>1, <1>2, Effects DEF Passing
<1>4. table[source[l].name] = "unknown"
  <2>1. SUFFICES ASSUME table[source[l].name] # "unknown" PROVE FALSE
    OBVIOUS
  <2>2. source[l].name \in Names
    BY <1>2, LineIs
  <2>3. PICK m \in DOMAIN source :
          source[m].kind \in Declarations /\ source[m].name = source[l].name /\ times[m] = 1
    BY <1>2, <2>1, <2>2 DEF Known
  <2>4. m = l
    BY <1>1, <1>2, <2>3 DEF WellFormed
  <2>5. QED
    BY <1>1, <2>3, <2>4
<1>5. ASSUME source[l].kind \in {"constant", "global"}, source[l].needs # NoName,
             table[source[l].needs] # "constant"
      PROVE  FALSE
  <2>1. PICK m \in LinesOf("constant") :
          source[m].name = source[l].needs /\ (source[l].kind = "constant" => m < l)
    BY <1>1, <1>5 DEF WellFormed, LinesOf
  <2>2. m \in DOMAIN source /\ source[m].kind = "constant" /\ Queued(m)
    BY <2>1 DEF LinesOf, AllQueued, Declarations
  <2>3. Passed(source[m].kind) \/ times[m] # 0
    BY <1>1, <1>2, <1>5, <2>1, <2>2 DEF Passed
  <2>4. table[source[m].name] = Makes("constant")
    BY <1>2, <2>2, <2>3, CompiledDeclaration
  <2>5. QED
    BY <1>5, <2>1, <2>4 DEF Makes
<1>6. level = 0
  BY <1>1, <1>2
<1>7. QED
  BY <1>2, <1>3, <1>4, <1>5, <1>6 DEF Blamed, Declarations

LEMMA AcceptsBody ==
  ASSUME Typed, Lined, Known, Inside, WellFormed, AllQueued, CompileBodyLine
  PROVE  phase' # "failed"
<1> DEFINE n == current + 1
<1>1. /\ Where(current') /\ CompileLine(current') /\ function /\ phase = "function"
      /\ Balanced
  BY BodyLine DEF WellFormed
<1>2. PICK h \in DOMAIN source : At(h)
  BY <1>1 DEF Inside
<1>3. /\ h \in LinesOf("function") /\ h \in Nat /\ current \in Nat /\ h <= current
      /\ current < Len(source) /\ Len(source) \in Nat
      /\ InFunctionOf(h, current) /\ InFunctionOf(h, n)
  BY <1>1, <1>2, Ahead
<1>4. current' = n
  <2>1. pos = current
    BY <1>2 DEF At
  <2>2. QED
    BY <1>3, <2>1, BodyLine
<1>5. /\ n \in DOMAIN source /\ source[n] \in Lines /\ source \in Seq(Lines) /\ n \in Nat
      /\ InFunction(n) /\ current \in DOMAIN source /\ level \in Nat
      /\ DOMAIN source = 1 .. Len(source)
  BY <1>1, <1>3, <1>4, SourceIs, BodyCapAssumption DEF Where, InFunction, Typed, TypeOK
<1> HIDE DEF n
<1>6. SUFFICES ASSUME Blamed(source[n]) PROVE FALSE
  BY <1>1, <1>4, <1>5, Effects DEF Passing
<1>7. source[n].kind \notin Declarations
  <2>1. ASSUME source[n].kind \in Declarations \ {"function"} PROVE FALSE
    BY <1>5, <2>1 DEF WellFormed, LinesOf
  <2>2. ASSUME source[n].kind = "function" PROVE FALSE
    <3>1. n \in LinesOf("function")
      BY <1>5, <2>2 DEF LinesOf
    <3>2. n = h
      BY <1>1, <1>3, <1>5, <3>1, OwnHeader
    <3>3. QED
      BY <1>3, <3>2 DEF n
  <2>3. QED
    BY <2>1, <2>2
<1>8. ASSUME source[n].kind = "open", ~(level < BodyCap + 1) PROVE FALSE
  <2>1. level + Braces(h, current, {"close"}) = Braces(h, current, {"open", "function"})
    BY <1>2 DEF At
  <2>2. Braces(h, current, {"open", "function"}) <= Braces(h, current, {"close"}) + BodyCap
    BY <1>3, <1>5 DEF WellFormed
  <2>3. Braces(h, current, {"close"}) \in Nat /\ Braces(h, current, {"open", "function"}) \in Nat
    BY <1>3, BracesType
  <2>4. QED
    BY <1>5, <1>8, <2>1, <2>2, <2>3, BodyCapAssumption
<1>9. ASSUME source[n].kind = "use", table[source[n].name] = "unknown" PROVE FALSE
  <2>1. PICK m \in DOMAIN source :
          /\ source[m].name = source[n].name
          /\ \/ source[m].kind \in {"constant", "global", "external"}
             \/ source[m].kind = "function" /\ m < n
    BY <1>5, <1>9 DEF WellFormed, LinesOf
  <2>2. Queued(m)
    BY <2>1 DEF AllQueued, Declarations
  <2>3. Passed(source[m].kind) \/ times[m] # 0
    <3>1. CASE source[m].kind \in {"constant", "global", "external"}
      BY <1>1, <3>1 DEF Passed
    <3>2. CASE source[m].kind = "function" /\ m < n
      <4>1. m \in LinesOf("function") /\ m \in Nat
        BY <1>5, <3>2 DEF LinesOf
      <4>2. m <= h
        <5>1. SUFFICES ASSUME h < m PROVE FALSE
          BY <1>3, <4>1
        <5>2. InFunctionOf(h, m)
          BY <1>3, <1>5, <3>2, <4>1, <5>1, InFunctionBelow
        <5>3. m = h
          BY <1>1, <1>3, <1>5, <4>1, <5>2, OwnHeader
        <5>4. QED
          BY <1>3, <5>1, <5>3
      <4>3. CASE m = h
        BY <1>2, <4>3 DEF At, Started
      <4>4. CASE m < h
        BY <1>2, <2>2, <4>1, <4>4 DEF At
      <4>5. QED
        BY <1>3, <4>1, <4>2, <4>3, <4>4
    <3>3. QED
      BY <2>1, <3>1, <3>2
  <2>4. table[source[m].name] = Makes(source[m].kind)
    BY <1>1, <2>2, <2>3, CompiledDeclaration DEF Declarations
  <2>5. QED
    BY <1>9, <2>1, <2>4 DEF Makes
<1>10. source[n].kind # "illegible"
  BY <1>5 DEF WellFormed, LinesOf
<1>11. QED
  BY <1>6, <1>7, <1>8, <1>9, <1>10 DEF Blamed, Declarations

\* Whether a source is well formed does not change as it is compiled.
LEMMA StaysWellFormed ==
  ASSUME source' = source
  PROVE  (WellFormed' <=> WellFormed) /\ (AllQueued' <=> AllQueued)
<1>1. /\ \A k : LinesOf(k)' = LinesOf(k)
      /\ \A l : Queued(l)' <=> Queued(l)
      /\ \A i, j, K : Braces(i, j, K)' = Braces(i, j, K)
      /\ \A h, l : InFunctionOf(h, l)' <=> InFunctionOf(h, l)
      /\ Balanced' <=> Balanced
  BY SameSource
<1>2. \A l : InFunction(l)' <=> InFunction(l)
  BY <1>1 DEF InFunction
<1>3. QED
  BY <1>1, <1>2 DEF WellFormed, AllQueued

LEMMA AcceptsNext ==
  ASSUME IInv, AcceptsWellFormed, Next
  PROVE  AcceptsWellFormed'
<1>1. source' = source
  BY DEF Next, Classify, EndOfSource, CompileQueued, CompileBodyLine, EndOfPass
<1>2. (WellFormed' <=> WellFormed) /\ (AllQueued' <=> AllQueued)
  BY <1>1, StaysWellFormed
<1>3. SUFFICES ASSUME WellFormed, AllQueued PROVE phase' # "failed"
  BY <1>2 DEF AcceptsWellFormed
<1>4. CASE Classify
  <2>1. pos + 1 \in DOMAIN source
    BY <1>4, SourceIs, MaxLinesAssumption DEF Classify, IInv, Typed, TypeOK
  <2>2. source[pos + 1].kind # "illegible"
    BY <1>3, <2>1 DEF WellFormed, LinesOf
  <2>3. QED
    BY <1>4, <2>2 DEF Classify
<1>5. CASE EndOfSource \/ EndOfPass
  BY <1>5 DEF EndOfSource, EndOfPass, NextPass, Declarations
<1>6. QED
  BY <1>3, <1>4, <1>5, AcceptsQueued, AcceptsBody DEF Next, IInv

-----------------------------------------------------------------------------
(***************************************************************************)
(* The theorems                                                            *)
(***************************************************************************)
LEMMA InitIInv == Init => IInv
<1>1. SUFFICES ASSUME Init PROVE IInv
  OBVIOUS
<1>2. /\ source \in Sources /\ phase = "classify" /\ pos = 0 /\ current = 0 /\ level = 0
      /\ function = FALSE /\ queues = [k \in Declarations |-> <<>>]
      /\ table = [x \in Names |-> "unknown"] /\ times = [l \in 1 .. MaxLines |-> 0]
  BY <1>1 DEF Init
<1>3. Typed
  <2>1. queues \in [Declarations -> Seq(1 .. MaxLines)]
    BY <1>2
  <2>2. Len(source) \in Nat
    BY <1>2, SourceIs
  <2>3. table \in [Names -> Meanings] /\ times \in [1 .. MaxLines -> 0 .. 2]
    BY <1>2 DEF Meanings
  <2>4. function \in BOOLEAN /\ ~function /\ ~(level > 0)
    <3>1. function = FALSE
      BY <1>2
    <3>2. function \in BOOLEAN /\ ~function
      BY <3>1, Zenon
    <3>3. ~(level > 0)
      BY <1>2
    <3>4. QED
      BY <3>2, <3>3
  <2>5. pos \in 0 .. MaxLines /\ current \in 0 .. MaxLines /\ level \in 0 .. BodyCap + 1
    BY <1>2, MaxLinesAssumption, BodyCapAssumption
  <2>6. phase \in Phases
    BY <1>2 DEF Phases
  <2>7. pos <= Len(source) /\ current <= Len(source)
    BY <1>2, <2>2
  <2>8. TypeOK
    BY <1>2, <2>1, <2>3, <2>4, <2>5, <2>6 DEF TypeOK
  <2>9. QED
    BY <2>4, <2>7, <2>8 DEF Typed
<1>4. Lined
  <2>1. ASSUME NEW k \in Declarations
        PROVE  /\ Increasing(queues[k]) /\ Elements(queues[k]) = {} /\ Len(queues[k]) = 0
               /\ Cardinality(Seen(k, pos)) = 0 /\ {l \in Seen(k, pos) : Queued(l)} = {}
    <3>1. queues[k] = <<>>
      BY <1>2
    <3>2. Seen(k, 0) = {}
      BY <1>2, SourceIs DEF Seen, LinesOf
    <3>3. Increasing(queues[k]) /\ Elements(queues[k]) = {} /\ Len(queues[k]) = 0
      BY <3>1 DEF Increasing, Elements
    <3>4. Seen(k, pos) = {} /\ Cardinality({}) = 0
      BY <1>2, <3>2, FS_EmptySet
    <3>5. QED
      BY <3>3, <3>4
  <2>2. 0 <= QueueCap
    BY QueueCapAssumption
  <2>3. ASSUME NEW k \in Declarations
        PROVE  /\ Elements(queues[k]) = {l \in Seen(k, pos) : Queued(l)}
               /\ Len(queues[k]) = IF Cardinality(Seen(k, pos)) <= QueueCap
                                   THEN Cardinality(Seen(k, pos)) ELSE QueueCap
    BY <2>1, <2>2
  <2>4. QED
    BY <1>2, <2>1, <2>3 DEF Lined
<1>5. Known
  <2>1. \A l \in DOMAIN source : l \in 1 .. MaxLines
    BY <1>2, SourceIs, MaxLinesAssumption
  <2>2. QED
    BY <1>2, <2>1 DEF Known
<1>6. Inside
  BY <1>2 DEF Inside
<1>7. Reached
  <2>1. \A l \in DOMAIN source : times[l] = 0
    BY <1>2, SourceIs, MaxLinesAssumption
  <2>2. QED
    BY <2>1 DEF Reached, Covered, Started
<1>8. QED
  BY <1>3, <1>4, <1>5, <1>6, <1>7 DEF IInv

LEMMA NextIInv == IInv /\ [Next]_vars => IInv'
<1>1. SUFFICES ASSUME IInv, [Next]_vars PROVE IInv'
  OBVIOUS
<1>2. CASE Next
  BY <1>1, <1>2, TypedNext, LinedNext, KnownNext, InsideNext, ReachedNext DEF IInv
<1>3. CASE UNCHANGED vars
  <2>1. /\ source' = source /\ phase' = phase /\ pos' = pos /\ queues' = queues
        /\ current' = current /\ level' = level /\ function' = function
        /\ table' = table /\ times' = times
    BY <1>3 DEF vars
  <2>2. Typed'
    BY <1>1, <2>1 DEF IInv, Typed, TypeOK
  <2>3. Lined'
    <3>1. /\ \A k : LinesOf(k)' = LinesOf(k)
          /\ \A l : Queued(l)' <=> Queued(l)
      BY <2>1, SameSource
    <3>2. ASSUME NEW k \in Declarations
          PROVE  /\ Increasing(queues[k])' <=> Increasing(queues[k])
                 /\ Elements(queues[k])' = Elements(queues[k])
                 /\ Seen(k, pos)' = Seen(k, pos)
                 /\ Passed(k)' <=> Passed(k)
      BY <2>1, <3>1 DEF Increasing, Elements, Seen, Passed
    <3>3. QED
      BY <1>1, <2>1, <3>1, <3>2 DEF IInv, Lined
  <2>4. Known'
    BY <1>1, <2>1 DEF IInv, Known
  <2>5. Inside'
    <3>1. \A h : At(h)' <=> At(h)
      BY <2>1 DEF At, Started, LinesOf, Queued, Braces
    <3>2. Balanced' <=> Balanced
      BY <2>1, SameSource
    <3>3. QED
      BY <1>1, <2>1, <3>1, <3>2 DEF IInv, Inside
  <2>6. Reached'
    <3>1. CASE phase = "failed"
      BY <2>1, <3>1 DEF Reached
    <3>2. CASE phase # "failed"
      BY <1>1, <2>1, <3>2, StandingReached DEF IInv
    <3>3. QED
      BY <3>1, <3>2
  <2>7. QED
    BY <2>2, <2>3, <2>4, <2>5, <2>6 DEF IInv
<1>4. QED
  BY <1>1, <1>2, <1>3

LEMMA AlwaysIInv == Spec => []IInv
  BY InitIInv, NextIInv, PTL DEF Spec

\* Every variable keeps its type, for sources of any length: in particular no
\* line is ever compiled that the source does not have, and a brace never takes
\* the nesting below zero.
THEOREM TypeCorrect == Spec => []TypeOK
<1>1. IInv => TypeOK
  BY DEF IInv, Typed
<1>2. QED
  BY <1>1, AlwaysIInv, PTL

\* When compilation succeeds every declaration that found room in its queue was
\* compiled once and, in a balanced source, so was every line of its functions.
THEOREM EachLineOnce == Spec => []CompiledOnce
<1>1. IInv => CompiledOnce
  <2>1. SUFFICES ASSUME IInv, phase = "done"
                 PROVE  /\ \A l \in DOMAIN source : Queued(l) => times[l] = 1
                        /\ Balanced =>
                             \A l \in DOMAIN source : ~Queued(l) =>
                               times[l] = IF \E h \in LinesOf("function") :
                                               Queued(h) /\ InFunctionOf(h, l)
                                          THEN 1 ELSE 0
    BY DEF CompiledOnce
  <2>2. Typed /\ Lined /\ Known /\ Reached
    BY <2>1 DEF IInv
  <2>3. ~function
    BY <2>1, <2>2 DEF Typed
  <2>4. ASSUME NEW l \in DOMAIN source, Queued(l) PROVE times[l] = 1
    <3>1. source[l].kind \in Declarations
      BY <2>4 DEF Queued
    <3>2. queues[source[l].kind] = <<>>
      BY <2>1, <2>2, <3>1 DEF Lined, Passed
    <3>3. Elements(queues[source[l].kind]) = {}
      BY <3>2 DEF Elements
    <3>4. times[l] # 0
      BY <2>1, <2>2, <2>4, <3>1, <3>3 DEF Lined, LinesOf
    <3>5. QED
      BY <2>1, <2>2, <3>1, <3>4 DEF Known
  <2>5. ASSUME Balanced, NEW l \in DOMAIN source, ~Queued(l)
        PROVE  times[l] = IF \E h \in LinesOf("function") : Queued(h) /\ InFunctionOf(h, l)
                          THEN 1 ELSE 0
    <3>1. Covered(l) <=> \E h \in LinesOf("function") : Queued(h) /\ InFunctionOf(h, l)
      BY <2>3, <2>4 DEF Covered, Started, LinesOf
    <3>2. times[l] = IF Covered(l) THEN 1 ELSE 0
      BY <2>1, <2>2, <2>5 DEF Reached
    <3>3. QED
      BY <3>1, <3>2
  <2>6. QED
    BY <2>4, <2>5
<1>2. QED
  BY <1>1, AlwaysIInv, PTL

\* A well-formed source whose declarations all found room is never rejected,
\* whatever the order its declarations stand in.
THEOREM WellFormedCompiles == Spec => []AcceptsWellFormed
<1>1. Init => AcceptsWellFormed
  BY DEF Init, AcceptsWellFormed
<1>2. IInv /\ AcceptsWellFormed /\ [Next]_vars => AcceptsWellFormed'
  <2>1. SUFFICES ASSUME IInv, AcceptsWellFormed, [Next]_vars PROVE AcceptsWellFormed'
    OBVIOUS
  <2>2. CASE UNCHANGED vars
    BY <2>1, <2>2, StaysWellFormed DEF vars, AcceptsWellFormed
  <2>3. QED
    BY <2>1, <2>2, AcceptsNext
<1>3. QED
  BY <1>1, <1>2, AlwaysIInv, PTL DEF Spec

\* In a balanced source the lines of a function are compiled one after the
\* other, up to its last brace.
THEOREM BodiesInOrder == Spec => BodyInOrder
<1>1. IInv /\ [Next]_vars => [Balanced /\ function => current' = current + 1]_vars
  <2>1. SUFFICES ASSUME IInv, Next, Balanced, function PROVE current' = current + 1
    OBVIOUS
  <2>2. Typed /\ Inside /\ phase \in {"function", "failed"}
    BY <2>1 DEF IInv, Typed
  <2>3. CompileBodyLine /\ phase = "function"
    BY <2>1, <2>2
    DEF Next, Classify, EndOfSource, CompileQueued, CompileBodyLine, EndOfPass
  <2>4. PICK h \in DOMAIN source : At(h)
    BY <2>1, <2>2, <2>3 DEF Inside
  <2>5. pos = current /\ current < Len(source)
    BY <2>1, <2>2, <2>4, Ahead DEF At
  <2>6. QED
    BY <2>2, <2>3, <2>5, BodyLine
<1>2. QED
  BY <1>1, AlwaysIInv, PTL DEF Spec, BodyInOrder

=============================================================================
