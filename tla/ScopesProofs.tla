---------------------------- MODULE ScopesProofs ----------------------------
(***************************************************************************)
(* Proofs about Scopes, for every set of names, every size of a frame and  *)
(* every length of source.                                                 *)
(*                                                                         *)
(* The invariant relates the tables of the compiler to the source, name by *)
(* name and body by body: a declaration of the source has a local in the   *)
(* table of its body, whose slot holds what the declaration was given --   *)
(* unless it is a parameter with the name of a global, which has none, or  *)
(* a call has overwritten the slot -- and the tables hold nothing else     *)
(* under a name of the source.                                             *)
(***************************************************************************)
EXTENDS Scopes, Lemmas, FiniteSetTheorems, TLAPS

Keys     == Names \cup {Temporary(n) : n \in Nat} \cup {Misread(x) : x \in Names}
Table    == UNION {[D -> Nat] : D \in SUBSET Keys}
Contexts == [locals : Seq(Table), size : Nat, temps : Nat]
Values   == {Parameter(n) : n \in Nat} \cup {Local(n) : n \in Nat}
Meaning  == UNION {[D -> Values] : D \in SUBSET Names}

\* Slot n of frame f holds v, or is past the frame's end and overwritten.
Holds(f, n, v) == n \in DOMAIN f /\ (f[n] = v \/ (f[n] = Overwritten /\ n > FrameSlots))

\* x is the parameter v of the function and a global: it has no local.
Hidden(x, v) == x \in globals /\ v \in {Parameter(n) : n \in 1 .. MaxParams}

\* Table t is right about x, where the source has the declarations m.
Fits(t, m, x, f) ==
  \/ x \in DOMAIN m /\ x \in DOMAIN t /\ Holds(f, t[x], m[x])
  \/ x \in DOMAIN m /\ x \notin DOMAIN t /\ Hidden(x, m[x])
  \/ x \notin DOMAIN m /\ x \notin DOMAIN t

Agrees(N, s, o, f) == \A d \in 1 .. Len(s) : \A x \in N : Fits(s[d], o[d], x, f)

\* Locals have slots within the first size, each its own.
SlotsApart(s, size) ==
  \A d \in DOMAIN s : \A x \in DOMAIN s[d] :
    /\ s[d][x] \in 1 .. size
    /\ \A e \in DOMAIN s : \A y \in DOMAIN s[e] : s[d][x] = s[e][y] => d = e /\ x = y

Shape ==
  /\ globals \subseteq Names
  /\ context \in Contexts
  /\ open \in Seq(Meaning)
  /\ Len(open) = Len(context.locals)
  /\ DOMAIN frame \subseteq 1 .. context.size
  /\ context.temps <= context.size /\ context.temps <= line
  /\ status \in {"ok", "refused"} /\ wellScoped \in BOOLEAN /\ line \in 0 .. MaxLines

IInv ==
  /\ Shape
  /\ SlotsApart(context.locals, context.size)
  /\ Agrees(Names, context.locals, open, frame)

-----------------------------------------------------------------------------
\* A nonempty set of numbers up to a bound has a largest.
LEMMA Largest ==
  ASSUME NEW n \in Nat, NEW T, T \subseteq 1 .. n, T # {}
  PROVE  \E x \in T : \A y \in T : y <= x
<1> DEFINE U == {n - t : t \in T}
<1>1. U \subseteq Nat /\ U # {}
  <2>1. ASSUME NEW t \in T PROVE n - t \in Nat
    OBVIOUS
  <2>2. QED
    BY <2>1
<1>2. PICK u \in U : \A v \in U : u <= v
  <2> HIDE DEF U
  <2>1. QED
    BY <1>1, NatLeast
<1>3. PICK x \in T : u = n - x
  OBVIOUS
<1>4. ASSUME NEW y \in T PROVE y <= x
  <2>1. n - y \in U
    OBVIOUS
  <2>2. n - x <= n - y
    BY <1>2, <1>3, <2>1
  <2>3. QED
    BY <2>2
<1>5. QED
  BY <1>4

-----------------------------------------------------------------------------
(***************************************************************************)
(* Tables                                                                  *)
(***************************************************************************)
LEMMA WithIs ==
  ASSUME NEW f, NEW x, NEW v
  PROVE  /\ DOMAIN With(f, x, v) = DOMAIN f \cup {x}
         /\ With(f, x, v)[x] = v
         /\ \A y \in DOMAIN f : y # x => With(f, x, v)[y] = f[y]
  BY DEF With

LEMMA TableType ==
  ASSUME NEW t \in Table, NEW k \in Keys, NEW n \in Nat
  PROVE  /\ With(t, k, n) \in Table /\ DOMAIN t \subseteq Keys
         /\ \A x \in DOMAIN t : t[x] \in Nat
<1>1. PICK D \in SUBSET Keys : t \in [D -> Nat]
  BY DEF Table
<1>2. With(t, k, n) \in [D \cup {k} -> Nat]
  BY <1>1 DEF With
<1>3. D \cup {k} \in SUBSET Keys
  BY <1>1
<1>4. With(t, k, n) \in Table
  BY <1>2, <1>3 DEF Table
<1>5. QED
  BY <1>1, <1>4

LEMMA EmptyType == Empty \in Table /\ Empty \in Meaning /\ DOMAIN Empty = {}
<1>1. Empty \in [{} -> Nat] /\ Empty \in [{} -> Values] /\ DOMAIN Empty = {}
  BY DEF Empty
<1>2. {} \in SUBSET Keys /\ {} \in SUBSET Names
  OBVIOUS
<1>3. QED
  BY <1>1, <1>2 DEF Table, Meaning

LEMMA MeaningType ==
  ASSUME NEW m \in Meaning, NEW x \in Names, NEW v \in Values
  PROVE  With(m, x, v) \in Meaning /\ DOMAIN m \subseteq Names
<1>1. PICK D \in SUBSET Names : m \in [D -> Values]
  BY DEF Meaning
<1>2. With(m, x, v) \in [D \cup {x} -> Values]
  BY <1>1 DEF With
<1>3. D \cup {x} \in SUBSET Names
  BY <1>1
<1>4. With(m, x, v) \in Meaning
  BY <1>2, <1>3 DEF Meaning
<1>5. QED
  BY <1>1, <1>4

\* Declaring in the innermost body changes its table there and no other.
LEMMA DeclaredIs ==
  ASSUME NEW S, NEW s \in Seq(S), Len(s) > 0, NEW x, NEW v, With(s[Len(s)], x, v) \in S
  PROVE  /\ Declared(s, x, v) \in Seq(S) /\ Len(Declared(s, x, v)) = Len(s)
         /\ Declared(s, x, v)[Len(s)] = With(s[Len(s)], x, v)
         /\ \A d \in 1 .. Len(s) - 1 : Declared(s, x, v)[d] = s[d]
<1>1. Len(s) \in 1 .. Len(s)
  OBVIOUS
<1>2. Declared(s, x, v) = [s EXCEPT ![Len(s)] = With(s[Len(s)], x, v)]
  BY DEF Declared
<1> DEFINE w == With(s[Len(s)], x, v)
<1>3. w \in S
  OBVIOUS
<1> HIDE DEF w
<1>4. QED
  BY <1>1, <1>2, <1>3 DEF w

\* Tables s and t say the same of the names N, body by body.
SameOn(N, s, t) ==
  /\ Len(s) = Len(t)
  /\ \A d \in 1 .. Len(s) : \A x \in N :
       /\ x \in DOMAIN s[d] <=> x \in DOMAIN t[d]
       /\ x \in DOMAIN s[d] => s[d][x] = t[d][x]

\* A local gets a new slot; nothing else changes.
LEMMA LocalAdded ==
  ASSUME NEW c \in Contexts, Len(c.locals) > 0, NEW k \in Keys,
         SlotsApart(c.locals, c.size)
  PROVE  LET e == WithLocal(c, k)
         IN /\ e \in Contexts /\ e.size = c.size + 1 /\ e.temps = c.temps
            /\ Len(e.locals) = Len(c.locals)
            /\ k \in DOMAIN e.locals[Len(c.locals)] /\ e.locals[Len(c.locals)][k] = c.size + 1
            /\ DOMAIN e.locals[Len(c.locals)] = DOMAIN c.locals[Len(c.locals)] \cup {k}
            /\ \A N : k \notin N => SameOn(N, c.locals, e.locals)
            /\ \A d \in 1 .. Len(c.locals) - 1 : e.locals[d] = c.locals[d]
            /\ SlotsApart(e.locals, e.size)
<1> DEFINE e == WithLocal(c, k)
           s == c.locals
           L == Len(s)
           n == c.size + 1
           t == Declared(s, k, n)
<1>1. s \in Seq(Table) /\ c.size \in Nat /\ n \in Nat /\ L \in Nat /\ L > 0 /\ s[L] \in Table
  BY DEF Contexts
<1>2. e \in [locals : {t}, size : {n}, temps : {c.temps}]
  BY DEF WithLocal, Contexts
<1>3. e.locals = t /\ e.size = n /\ e.temps = c.temps
  BY <1>2
<1>4. With(s[L], k, n) \in Table
  BY <1>1, TableType
<1>5. /\ t \in Seq(Table) /\ Len(t) = L /\ t[L] = With(s[L], k, n)
      /\ \A d \in 1 .. L - 1 : t[d] = s[d]
  BY <1>1, <1>4, DeclaredIs
<1>6. e \in Contexts
  BY <1>1, <1>2, <1>5 DEF Contexts
<1> HIDE DEF e, s, L, n, t
<1>7. /\ DOMAIN t[L] = DOMAIN s[L] \cup {k} /\ t[L][k] = n
      /\ \A y \in DOMAIN s[L] : y # k => t[L][y] = s[L][y]
  <2> DEFINE w == With(s[L], k, n)
  <2>1. /\ DOMAIN w = DOMAIN s[L] \cup {k} /\ w[k] = n
        /\ \A y \in DOMAIN s[L] : y # k => w[y] = s[L][y]
    BY DEF With
  <2>2. t[L] = w
    BY <1>5
  <2>3. QED
    BY <2>1, <2>2
<1>8. ASSUME NEW d \in 1 .. L, NEW x \in DOMAIN t[d], ~(d = L /\ x = k)
      PROVE  x \in DOMAIN s[d] /\ t[d][x] = s[d][x]
  <2>1. CASE d = L
    BY <1>7, <1>8, <2>1
  <2>2. CASE d # L
    <3>1. d \in 1 .. L - 1
      BY <1>1, <2>2
    <3>2. QED
      BY <1>5, <3>1
  <2>3. QED
    BY <2>1, <2>2
<1>9. ASSUME NEW d \in 1 .. L, NEW x \in DOMAIN s[d], ~(d = L /\ x = k)
      PROVE  x \in DOMAIN t[d] /\ t[d][x] = s[d][x]
  <2>1. CASE d = L
    BY <1>7, <1>9, <2>1
  <2>2. CASE d # L
    <3>1. d \in 1 .. L - 1
      BY <1>1, <2>2
    <3>2. QED
      BY <1>5, <3>1
  <2>3. QED
    BY <2>1, <2>2
<1>10. ASSUME NEW N, k \notin N PROVE SameOn(N, s, t)
  <2>1. ASSUME NEW d \in 1 .. L, NEW x \in N
        PROVE  /\ x \in DOMAIN s[d] <=> x \in DOMAIN t[d]
               /\ x \in DOMAIN s[d] => s[d][x] = t[d][x]
    <3>1. x # k
      BY <1>10
    <3>2. QED
      BY <1>8, <1>9, <3>1
  <2>2. QED
    BY <1>5, <2>1 DEF SameOn, L
<1>11. SlotsApart(t, n)
  <2>1. DOMAIN s = 1 .. L /\ DOMAIN t = 1 .. L /\ L \in 1 .. L
    BY <1>1, <1>5 DEF L
  <2>2. \A d \in 1 .. L : \A x \in DOMAIN s[d] :
          /\ s[d][x] \in 1 .. n - 1
          /\ \A i \in 1 .. L : \A y \in DOMAIN s[i] : s[d][x] = s[i][y] => d = i /\ x = y
    BY <1>1, <2>1 DEF SlotsApart, s, n
  <2>3. ASSUME NEW d \in 1 .. L, NEW x \in DOMAIN t[d]
        PROVE  /\ t[d][x] \in 1 .. n
               /\ t[d][x] = n <=> d = L /\ x = k
    <3>1. CASE d = L /\ x = k
      BY <1>1, <1>7, <3>1 DEF n
    <3>2. CASE ~(d = L /\ x = k)
      <4>1. t[d][x] \in 1 .. n - 1
        BY <1>8, <2>2, <3>2
      <4>2. QED
        BY <1>1, <3>2, <4>1
    <3>3. QED
      BY <3>1, <3>2
  <2>4. ASSUME NEW d \in 1 .. L, NEW x \in DOMAIN t[d],
               NEW i \in 1 .. L, NEW y \in DOMAIN t[i], t[d][x] = t[i][y]
        PROVE  d = i /\ x = y
    <3>1. CASE d = L /\ x = k
      BY <2>3, <2>4, <3>1
    <3>2. CASE ~(d = L /\ x = k)
      <4>1. ~(i = L /\ y = k)
        BY <2>3, <2>4, <3>2
      <4>2. QED
        BY <1>8, <2>2, <2>4, <3>2, <4>1
    <3>3. QED
      BY <3>1, <3>2
  <2>5. QED
    BY <2>1, <2>3, <2>4 DEF SlotsApart
<1>12. k \in DOMAIN t[L]
  BY <1>7
<1>13. QED
  BY <1>3, <1>5, <1>6, <1>7, <1>10, <1>11, <1>12 DEF e, s, L, n

\* A temporary is a local too, under a name no source uses.
LEMMA TemporaryAdded ==
  ASSUME NEW c \in Contexts, Len(c.locals) > 0, c.temps <= MaxLines,
         SlotsApart(c.locals, c.size), NEW spills \in BOOLEAN
  PROVE  LET e == WithTemporary(c, spills)
         IN /\ e \in Contexts
            /\ e.size = IF spills THEN c.size + 1 ELSE c.size
            /\ e.temps = IF spills THEN c.temps + 1 ELSE c.temps
            /\ Len(e.locals) = Len(c.locals)
            /\ SameOn(Names, c.locals, e.locals)
            /\ SlotsApart(e.locals, e.size)
            /\ spills => Holding(e.locals, Temporary(c.temps)) # {}
<1> DEFINE k == Temporary(c.temps)
           a == WithLocal(c, k)
<1>1. CASE ~spills
  BY <1>1 DEF WithTemporary, SameOn
<1>2. CASE spills
  <2>1. c.temps \in Nat /\ c.temps \in 0 .. MaxLines
    BY BoundsAssumption DEF Contexts
  <2>2. k \in Keys /\ k \notin Names
    BY <2>1, ReservedAssumption DEF Keys
  <2>3. /\ a \in Contexts /\ a.size = c.size + 1 /\ a.temps = c.temps
        /\ Len(a.locals) = Len(c.locals)
        /\ SlotsApart(a.locals, a.size)
        /\ SameOn(Names, c.locals, a.locals)
        /\ k \in DOMAIN a.locals[Len(c.locals)]
    <3> HIDE DEF k
    <3>1. QED
      BY <2>2, LocalAdded
  <2>4. WithTemporary(c, spills) = [a EXCEPT !.temps = c.temps + 1]
    BY <1>2, <2>3 DEF WithTemporary
  <2> HIDE DEF a
  <2>5. Len(c.locals) \in Holding(a.locals, k)
    BY <2>3 DEF Holding, Contexts
  <2>6. /\ [a EXCEPT !.temps = c.temps + 1] \in Contexts
        /\ [a EXCEPT !.temps = c.temps + 1].size = a.size
        /\ [a EXCEPT !.temps = c.temps + 1].temps = c.temps + 1
        /\ [a EXCEPT !.temps = c.temps + 1].locals = a.locals
    BY <2>1, <2>3 DEF Contexts
  <2>7. QED
    BY <1>2, <2>3, <2>4, <2>5, <2>6
<1>3. QED
  BY <1>1, <1>2

LEMMA SameTwice ==
  ASSUME NEW N, NEW s, NEW t, NEW u, SameOn(N, s, t), SameOn(N, t, u)
  PROVE  SameOn(N, s, u)
  BY DEF SameOn

-----------------------------------------------------------------------------
(***************************************************************************)
(* The tables and the source agree                                         *)
(***************************************************************************)
\* What the slots of f up to size hold, g holds too.
Keeps(f, g, size) == \A n \in 1 .. size : \A v : Holds(f, n, v) => Holds(g, n, v)

LEMMA AgreesSame ==
  ASSUME NEW N, NEW s, NEW t, NEW o, NEW f, SameOn(N, s, t), Agrees(N, s, o, f)
  PROVE  Agrees(N, t, o, f)
<1>1. ASSUME NEW d \in 1 .. Len(t), NEW x \in N PROVE Fits(t[d], o[d], x, f)
  <2>1. d \in 1 .. Len(s)
    BY DEF SameOn
  <2>2. /\ x \in DOMAIN s[d] <=> x \in DOMAIN t[d]
        /\ x \in DOMAIN s[d] => s[d][x] = t[d][x]
    BY <2>1 DEF SameOn
  <2>3. Fits(s[d], o[d], x, f)
    BY <2>1 DEF Agrees
  <2>4. QED
    BY <2>2, <2>3, Zenon DEF Fits
<1>2. QED
  BY <1>1 DEF Agrees

LEMMA AgreesKept ==
  ASSUME NEW N, NEW S, NEW s \in Seq(S), NEW o, NEW f, NEW g, NEW size,
         SlotsApart(s, size), Keeps(f, g, size), Agrees(N, s, o, f)
  PROVE  Agrees(N, s, o, g)
<1>1. ASSUME NEW d \in 1 .. Len(s), NEW x \in N PROVE Fits(s[d], o[d], x, g)
  <2>1. Fits(s[d], o[d], x, f)
    BY DEF Agrees
  <2>2. x \in DOMAIN s[d] => s[d][x] \in 1 .. size
    <3>1. d \in DOMAIN s
      OBVIOUS
    <3>2. QED
      BY <3>1 DEF SlotsApart
  <2>3. QED
    BY <2>1, <2>2, Zenon DEF Fits, Keeps
<1>2. QED
  BY <1>1 DEF Agrees

\* A call loses nothing of the slots of the frame.
LEMMA CallKeeps ==
  ASSUME NEW f, NEW calls, NEW size
  PROVE  Keeps(f, AfterCall(f, calls), size) /\ DOMAIN AfterCall(f, calls) = DOMAIN f
<1>1. DOMAIN AfterCall(f, calls) = DOMAIN f
  BY DEF AfterCall
<1>2. ASSUME NEW n \in 1 .. size, NEW v, Holds(f, n, v)
      PROVE  Holds(AfterCall(f, calls), n, v)
  BY <1>2 DEF AfterCall, Holds
<1>3. QED
  BY <1>1, <1>2 DEF Keeps

\* Storing in a slot past the first size keeps those.
LEMMA StoreKeeps ==
  ASSUME NEW f, NEW size \in Nat, NEW k \in Nat, k > size, NEW v
  PROVE  Keeps(f, With(f, k, v), size)
<1>1. ASSUME NEW n \in 1 .. size, NEW w, Holds(f, n, w)
      PROVE  Holds(With(f, k, v), n, w)
  <2>1. n # k /\ n \in DOMAIN f
    BY <1>1 DEF Holds
  <2>2. n \in DOMAIN With(f, k, v) /\ With(f, k, v)[n] = f[n]
    BY <2>1 DEF With
  <2>3. QED
    BY <1>1, <2>2 DEF Holds
<1>2. QED
  BY <1>1 DEF Keeps

LEMMA KeepsTwice ==
  ASSUME NEW f, NEW g, NEW h, NEW size, Keeps(f, g, size), Keeps(g, h, size)
  PROVE  Keeps(f, h, size)
  BY DEF Keeps

\* The frame of a line with a temporary: its slot is the last.
LEMMA SavingKeeps ==
  ASSUME NEW c, NEW spills \in BOOLEAN, NEW size \in Nat, c.size \in Nat,
         spills => c.size > size, DOMAIN frame \subseteq 1 .. size, size <= c.size
  PROVE  /\ Keeps(frame, Saving(c, spills), size)
         /\ DOMAIN Saving(c, spills) \subseteq 1 .. c.size
<1>1. CASE ~spills
  <2>1. Saving(c, spills) = frame
    BY <1>1 DEF Saving
  <2>2. QED
    BY <2>1 DEF Keeps
<1>2. CASE spills
  <2>1. Saving(c, spills) = With(frame, c.size, Spilled(line))
    BY <1>2 DEF Saving
  <2>2. Keeps(frame, With(frame, c.size, Spilled(line)), size)
    BY <1>2, StoreKeeps
  <2>3. DOMAIN With(frame, c.size, Spilled(line)) = DOMAIN frame \cup {c.size}
    BY DEF With
  <2>4. c.size \in 1 .. c.size /\ DOMAIN frame \subseteq 1 .. c.size
    BY <1>2
  <2>5. DOMAIN With(frame, c.size, Spilled(line)) \subseteq 1 .. c.size
    BY <2>3, <2>4, Zenon
  <2>6. QED
    BY <2>1, <2>2, <2>5
<1>3. QED
  BY <1>1, <1>2

-----------------------------------------------------------------------------
(***************************************************************************)
(* Looking a name up                                                       *)
(***************************************************************************)
\* A name some table holds is found in the innermost of those.
LEMMA InnermostIs ==
  ASSUME NEW S, NEW s \in Seq(S), NEW y, Holding(s, y) # {}
  PROVE  \E d \in Holding(s, y) : /\ \A e \in Holding(s, y) : e <= d
                                  /\ Found(s, y) = s[d][y]
<1>1. Holding(s, y) \subseteq 1 .. Len(s) /\ Len(s) \in Nat
  BY DEF Holding
<1>2. \E d \in Holding(s, y) : \A e \in Holding(s, y) : e <= d
  <2> DEFINE T == Holding(s, y)
             n == Len(s)
  <2>1. n \in Nat /\ T \subseteq 1 .. n /\ T # {}
    BY <1>1
  <2> HIDE DEF T, n
  <2>2. \E d \in T : \A e \in T : e <= d
    BY <2>1, Largest
  <2>3. QED
    BY <2>2 DEF T
<1> DEFINE d == CHOOSE d \in Holding(s, y) : \A e \in Holding(s, y) : e <= d
<1>3. d \in Holding(s, y) /\ \A e \in Holding(s, y) : e <= d
  BY <1>2
<1>4. Found(s, y) = s[d][y]
  BY DEF Found
<1>5. QED
  BY <1>3, <1>4

\* A declared name means the declaration of the innermost body that has one.
LEMMA MeansIs ==
  ASSUME NEW S, NEW o \in Seq(S), NEW y
  PROVE  /\ Holding(o, y) = {} => Means(y, o) = IF y \in globals THEN Global(y) ELSE Nothing
         /\ Holding(o, y) # {} =>
              \E d \in Holding(o, y) : /\ \A e \in Holding(o, y) : e <= d
                                       /\ Means(y, o) = o[d][y]
<1>1. (\E d \in DOMAIN o : y \in DOMAIN o[d]) <=> Holding(o, y) # {}
  BY DEF Holding
<1>2. CASE Holding(o, y) = {}
  BY <1>1, <1>2 DEF Means
<1>3. CASE Holding(o, y) # {}
  <2> DEFINE P(d) == y \in DOMAIN o[d] /\ \A e \in d + 1 .. Len(o) : y \notin DOMAIN o[e]
             m == CHOOSE d \in DOMAIN o : P(d)
  <2>1. Means(y, o) = o[m][y]
    BY <1>1, <1>3 DEF Means
  <2>2. DOMAIN o = 1 .. Len(o) /\ Len(o) \in Nat
    OBVIOUS
  <2>3. PICK d \in Holding(o, y) : \A e \in Holding(o, y) : e <= d
    BY <1>3, InnermostIs
  <2>4. d \in DOMAIN o /\ P(d)
    <3>1. d \in 1 .. Len(o) /\ y \in DOMAIN o[d]
      BY <2>2 DEF Holding
    <3>2. ASSUME NEW e \in d + 1 .. Len(o), y \in DOMAIN o[e] PROVE FALSE
      <4>1. e \in 1 .. Len(o) /\ ~(e <= d)
        BY <2>2, <3>1
      <4>2. e \in Holding(o, y)
        BY <2>2, <3>2, <4>1 DEF Holding
      <4>3. QED
        BY <2>3, <4>1, <4>2
    <3>3. QED
      BY <2>2, <3>1, <3>2
  <2>5. m \in DOMAIN o /\ P(m)
    <3> HIDE DEF P
    <3>1. QED
      BY <2>4
  <2>6. m \in Holding(o, y)
    BY <2>5 DEF Holding
  <2>7. ASSUME NEW e \in Holding(o, y) PROVE e <= m
    <3>1. e \in 1 .. Len(o) /\ y \in DOMAIN o[e] /\ m \in 1 .. Len(o)
      BY <2>2, <2>6 DEF Holding
    <3> HIDE DEF m
    <3>2. CASE e > m
      <4>1. e \in m + 1 .. Len(o)
        BY <2>2, <3>1, <3>2
      <4>2. QED
        BY <2>5, <3>1, <4>1
    <3>3. QED
      BY <2>2, <3>1, <3>2
  <2>8. QED
    BY <1>3, <2>1, <2>6, <2>7
<1>4. QED
  BY <1>2, <1>3

\* Where tables and source agree on a name, its slot holds what it means.
LEMMA FoundIsMeant ==
  ASSUME NEW S, NEW s \in Seq(S), NEW O, NEW o \in Seq(O), Len(s) = Len(o),
         NEW y, NEW f, Agrees({y}, s, o, f), Holding(o, y) # {},
         ~Hidden(y, Means(y, o))
  PROVE  Holding(s, y) # {} /\ Holds(f, Found(s, y), Means(y, o))
<1>1. DOMAIN s = 1 .. Len(s) /\ DOMAIN o = 1 .. Len(s) /\ Len(s) \in Nat
  OBVIOUS
<1>2. \A d \in 1 .. Len(s) : Fits(s[d], o[d], y, f)
  BY DEF Agrees
<1>3. PICK d \in Holding(o, y) : (\A e \in Holding(o, y) : e <= d) /\ Means(y, o) = o[d][y]
  BY MeansIs
<1>4. d \in 1 .. Len(s) /\ y \in DOMAIN o[d]
  BY <1>1 DEF Holding
<1>5. y \in DOMAIN s[d] /\ Holds(f, s[d][y], o[d][y])
  BY <1>2, <1>3, <1>4, Zenon DEF Fits
<1>6. d \in Holding(s, y)
  BY <1>1, <1>4, <1>5 DEF Holding
<1>7. PICK e \in Holding(s, y) : (\A i \in Holding(s, y) : i <= e) /\ Found(s, y) = s[e][y]
  BY <1>6, InnermostIs
<1>8. e \in 1 .. Len(s) /\ y \in DOMAIN s[e]
  BY <1>1 DEF Holding
<1>9. e \in Holding(o, y)
  <2>1. y \in DOMAIN o[e]
    BY <1>2, <1>8, Zenon DEF Fits
  <2>2. QED
    BY <1>1, <1>8, <2>1 DEF Holding
<1>10. e = d
  <2>1. e <= d /\ d <= e
    BY <1>3, <1>6, <1>7, <1>9
  <2>2. QED
    BY <1>1, <1>4, <1>8, <2>1
<1>11. QED
  BY <1>3, <1>5, <1>6, <1>7, <1>10

\* A name the tables hold is declared; a declared name is held, or is a global.
LEMMA HeldIsDeclared ==
  ASSUME NEW S, NEW s \in Seq(S), NEW O, NEW o \in Seq(O), Len(s) = Len(o),
         NEW y, NEW f, Agrees({y}, s, o, f)
  PROVE  /\ Holding(s, y) \subseteq Holding(o, y)
         /\ Holding(o, y) # {} => Holding(s, y) # {} \/ y \in globals
<1>1. DOMAIN s = 1 .. Len(s) /\ DOMAIN o = 1 .. Len(s)
  OBVIOUS
<1>2. \A d \in 1 .. Len(s) : Fits(s[d], o[d], y, f)
  BY DEF Agrees
<1>3. \A d \in 1 .. Len(s) : y \in DOMAIN s[d] => y \in DOMAIN o[d]
  BY <1>2, Zenon DEF Fits
<1>4. \A d \in 1 .. Len(s) : y \in DOMAIN o[d] => y \in DOMAIN s[d] \/ y \in globals
  BY <1>2, Zenon DEF Fits, Hidden
<1>5. QED
  BY <1>1, <1>3, <1>4 DEF Holding

\* An operand that can be written reads what its name means, unless the name
\* is a hidden parameter or a call has overwritten its slot.
LEMMA ReadIsMeant ==
  ASSUME NEW S, NEW s \in Seq(S), NEW O, NEW o \in Seq(O), Len(s) = Len(o),
         NEW y \in MaybeNamed, NEW f, Agrees({y}, s, o, f),
         NEW spills \in BOOLEAN, Writable(y, spills, s), Legal(y, o),
         globals \subseteq Names, y # Nothing,
         Holding(s, y) # {} => Holding(context.locals, y) # {}
  PROVE  \/ ReadFrom(y, s, f) = Means(y, o)
         \/ Hidden(y, Means(y, o))
         \/ /\ ReadFrom(y, s, f) = Overwritten
            /\ Holding(s, y) # {} /\ Found(s, y) > FrameSlots
<1>1. \/ Token(y) = "global"
      \/ Token(y) = "local" /\ Holding(s, y) # {}
  BY DEF Writable
<1>2. CASE Holding(o, y) = {}
  <2>1. Holding(s, y) = {}
    BY <1>2, HeldIsDeclared
  <2>2. Token(y) = "global"
    BY <1>1, <2>1
  <2>3. ReadFrom(y, s, f) = Global(y)
    BY <2>2 DEF ReadFrom
  <2>4. Means(y, o) = Global(y)
    <3>1. Means(y, o) # Nothing
      BY DEF Legal
    <3>2. QED
      BY <1>2, <3>1, MeansIs
  <2>5. QED
    BY <2>3, <2>4
<1>3. CASE Holding(o, y) # {} /\ ~Hidden(y, Means(y, o))
  <2>1. Holding(s, y) # {} /\ Holds(f, Found(s, y), Means(y, o))
    BY <1>3, FoundIsMeant
  <2>2. Token(y) = "local"
    BY <2>1 DEF Token, ExistsAnywhere
  <2>3. ReadFrom(y, s, f) = f[Found(s, y)]
    BY <2>1, <2>2 DEF ReadFrom, Holds
  <2>4. QED
    BY <2>1, <2>3 DEF Holds
<1>4. QED
  BY <1>2, <1>3

\* A line that names no variable means none and reads none.
LEMMA NothingRead ==
  ASSUME NEW O, NEW o \in Seq(O), NEW s, NEW f, globals \subseteq Names,
         \A d \in DOMAIN o : DOMAIN o[d] \subseteq Names
  PROVE  Means(Nothing, o) = Nothing /\ ReadFrom(Nothing, s, f) = Nothing
<1>1. Nothing \notin Names
  BY NothingAssumption
<1>2. Holding(o, Nothing) = {}
  BY <1>1 DEF Holding
<1>3. Means(Nothing, o) = Nothing
  BY <1>1, <1>2, MeansIs
<1>4. QED
  BY <1>3 DEF ReadFrom

-----------------------------------------------------------------------------
(***************************************************************************)
(* A new function                                                          *)
(***************************************************************************)
\* The table of the first i of the names: the slot of each is its place.
Firsts(names, i) ==
  [x \in {names[j] : j \in 1 .. i} |-> CHOOSE j \in 1 .. Len(names) : names[j] = x]

After(names, i) == [locals |-> <<Firsts(names, i)>>, size |-> i, temps |-> 0]

Distinct(names) == \A i, j \in 1 .. Len(names) : names[i] = names[j] => i = j

LEMMA FirstsIs ==
  ASSUME NEW names \in Seq(Keys), Distinct(names), NEW i \in 0 .. Len(names)
  PROVE  /\ DOMAIN Firsts(names, i) = {names[j] : j \in 1 .. i}
         /\ \A j \in 1 .. i : Firsts(names, i)[names[j]] = j
         /\ Firsts(names, i) \in Table
<1>1. ASSUME NEW j \in 1 .. i
      PROVE  /\ j \in 1 .. Len(names) /\ names[j] \in Keys
             /\ (CHOOSE k \in 1 .. Len(names) : names[k] = names[j]) = j
  BY DEF Distinct
<1>2. Firsts(names, i) \in [{names[j] : j \in 1 .. i} -> Nat]
  <2>1. ASSUME NEW x \in {names[j] : j \in 1 .. i}
        PROVE  (CHOOSE k \in 1 .. Len(names) : names[k] = x) \in Nat
    BY <1>1
  <2>2. QED
    BY <2>1 DEF Firsts
<1>3. {names[j] : j \in 1 .. i} \in SUBSET Keys
  BY <1>1
<1>4. QED
  BY <1>1, <1>2, <1>3 DEF Firsts, Table

LEMMA NextName ==
  ASSUME NEW names \in Seq(Keys), Distinct(names), NEW i \in 1 .. Len(names)
  PROVE  WithLocal(After(names, i - 1), names[i]) = After(names, i)
<1> DEFINE t == Firsts(names, i - 1)
           x == names[i]
<1>1. i - 1 \in 0 .. Len(names) /\ i \in 0 .. Len(names) /\ i - 1 + 1 = i
  OBVIOUS
<1>2. With(t, x, i) = Firsts(names, i)
  <2>1. {names[j] : j \in 1 .. i} = {names[j] : j \in 1 .. i - 1} \cup {x}
    <3>1. 1 .. i = (1 .. i - 1) \cup {i}
      OBVIOUS
    <3>2. QED
      BY <3>1
  <2>2. DOMAIN With(t, x, i) = DOMAIN Firsts(names, i)
    <3>1. DOMAIN With(t, x, i) = DOMAIN t \cup {x}
      BY DEF With
    <3>2. QED
      BY <1>1, <2>1, <3>1, FirstsIs
  <2>3. ASSUME NEW j \in 1 .. i PROVE With(t, x, i)[names[j]] = j
    <3>1. CASE j = i
      BY <3>1 DEF With
    <3>2. CASE j # i
      <4>1. j \in 1 .. i - 1 /\ names[j] # x
        BY <3>2 DEF Distinct
      <4>2. /\ DOMAIN t = {names[k] : k \in 1 .. i - 1}
            /\ \A k \in 1 .. i - 1 : t[names[k]] = k
        BY <1>1, FirstsIs
      <4> HIDE DEF t
      <4>3. names[j] \in DOMAIN t /\ t[names[j]] = j
        BY <4>1, <4>2
      <4>4. QED
        BY <4>1, <4>3 DEF With
    <3>3. QED
      BY <3>1, <3>2
  <2>4. /\ DOMAIN Firsts(names, i) = {names[j] : j \in 1 .. i}
        /\ \A j \in 1 .. i : Firsts(names, i)[names[j]] = j
    BY <1>1, FirstsIs
  <2>5. ASSUME NEW y \in DOMAIN Firsts(names, i)
        PROVE  With(t, x, i)[y] = Firsts(names, i)[y]
    <3>1. PICK j \in 1 .. i : y = names[j]
      BY <2>4
    <3> HIDE DEF t, x
    <3>2. QED
      BY <2>3, <2>4, <3>1
  <2>6. With(t, x, i) = [y \in DOMAIN With(t, x, i) |-> With(t, x, i)[y]]
    BY DEF With
  <2>7. Firsts(names, i) = [y \in DOMAIN Firsts(names, i) |-> Firsts(names, i)[y]]
    BY DEF Firsts
  <2> HIDE DEF t, x
  <2>8. QED
    BY <2>2, <2>5, <2>6, <2>7
<1>3. Declared(<<t>>, x, i) = <<Firsts(names, i)>>
  <2> HIDE DEF t, x
  <2>1. Declared(<<t>>, x, i) = <<With(t, x, i)>>
    BY DEF Declared
  <2>2. QED
    BY <1>2, <2>1
<1>4. WithLocal(After(names, i - 1), x) =
        [locals |-> Declared(<<t>>, x, i), size |-> i, temps |-> 0]
  <2> HIDE DEF x
  <2>1. After(names, i - 1) = [locals |-> <<t>>, size |-> i - 1, temps |-> 0]
    BY DEF After
  <2> DEFINE a == After(names, i - 1)
  <2>2. /\ a.locals = <<t>> /\ a.size + 1 = i /\ a.size = i - 1 /\ a.temps = 0
        /\ a \in [locals : {<<t>>}, size : {i - 1}, temps : {0}]
    BY <1>1, <2>1
  <2> HIDE DEF t, a
  <2>3. WithLocal(a, x) = [a EXCEPT !.locals = Declared(a.locals, x, i), !.size = i]
    BY <2>2 DEF WithLocal
  <2>4. WithLocal(a, x) = [locals |-> Declared(a.locals, x, i), size |-> i, temps |-> 0]
    BY <2>2, <2>3
  <2>5. QED
    BY <2>2, <2>4 DEF a
<1>5. QED
  BY <1>3, <1>4 DEF After

LEMMA NewFunctionIs ==
  ASSUME NEW names \in Seq(Keys), Distinct(names)
  PROVE  NewFunction(names) = After(names, Len(names))
<1> DEFINE n == Len(names)
           Def(f) == [i \in 0 .. n |->
                        IF i = 0 THEN [locals |-> <<Empty>>, size |-> 0, temps |-> 0]
                        ELSE WithLocal(f[i - 1], names[i])]
           g == [i \in 0 .. n |-> After(names, i)]
           f == CHOOSE f : f = Def(f)
<1>1. n \in Nat /\ 0 \in 0 .. n /\ n \in 0 .. n
  OBVIOUS
<1>2. After(names, 0) = [locals |-> <<Empty>>, size |-> 0, temps |-> 0]
  <2>1. {names[j] : j \in 1 .. 0} = {}
    OBVIOUS
  <2>2. Firsts(names, 0) = Empty
    BY <2>1 DEF Firsts, Empty
  <2>3. QED
    BY <2>2 DEF After
<1>3. g = Def(g)
  <2>1. ASSUME NEW i \in 0 .. n, i # 0
        PROVE  WithLocal(g[i - 1], names[i]) = After(names, i)
    <3>1. i \in 1 .. Len(names) /\ i - 1 \in 0 .. n
      BY <2>1
    <3>2. g[i - 1] = After(names, i - 1)
      BY <3>1
    <3>3. QED
      BY <3>1, <3>2, NextName
  <2>2. QED
    BY <1>2, <2>1
<1>4. f = Def(f)
  <2> HIDE DEF Def, g
  <2>1. QED
    BY <1>3
<1>5. NewFunction(names) = f[n]
  BY DEF NewFunction
<1>6. \A i \in 0 .. n : f[i] = After(names, i)
  <2> DEFINE S == {i \in Nat : i <= n => f[i] = After(names, i)}
  <2>1. 0 \in S
    BY <1>1, <1>2, <1>4
  <2>2. ASSUME NEW i \in Nat, i \in S PROVE i + 1 \in S
    <3>1. CASE i + 1 <= n
      <4>1. i <= n /\ i + 1 \in 0 .. n /\ i + 1 # 0 /\ i + 1 - 1 = i /\ i + 1 \in 1 .. Len(names)
        BY <1>1, <3>1
      <4>2. f[i] = After(names, i)
        BY <2>2, <4>1
      <4>3. f[i + 1] = WithLocal(f[i + 1 - 1], names[i + 1])
        <5> HIDE DEF f, n
        <5>1. QED
          BY <1>4, <4>1
      <4>4. f[i + 1] = WithLocal(After(names, i + 1 - 1), names[i + 1])
        BY <4>1, <4>2, <4>3
      <4>5. QED
        BY <4>1, <4>4, NextName
    <3>2. CASE ~(i + 1 <= n)
      BY <3>2
    <3>3. QED
      BY <3>1, <3>2
  <2> HIDE DEF S
  <2>3. Nat \subseteq S
    BY <2>1, <2>2, SetInduction
  <2>4. QED
    BY <1>1, <2>3 DEF S
<1>7. QED
  BY <1>1, <1>5, <1>6

-----------------------------------------------------------------------------
(***************************************************************************)
(* Every line keeps the invariant                                          *)
(***************************************************************************)
LEMMA InitIInv == Init => IInv
<1>1. SUFFICES ASSUME Init PROVE IInv
  OBVIOUS
<1>2. context = [locals |-> <<>>, size |-> 0, temps |-> 0] /\ open = <<>> /\ frame = Empty
  BY <1>1 DEF Init
<1>3. <<>> \in Seq(Table) /\ <<>> \in Seq(Meaning) /\ Len(<<>>) = 0 /\ DOMAIN <<>> = {}
  OBVIOUS
<1>4. Shape
  BY <1>1, <1>2, <1>3, EmptyType, BoundsAssumption DEF Init, Shape, Contexts
<1>5. SlotsApart(context.locals, context.size)
  BY <1>2, <1>3 DEF SlotsApart
<1>6. Agrees(Names, context.locals, open, frame)
  BY <1>2, <1>3 DEF Agrees
<1>7. QED
  BY <1>4, <1>5, <1>6 DEF IInv

LEMMA RefusedKeeps ==
  ASSUME IInv, NextLine, Refused, wellScoped' \in BOOLEAN
  PROVE  IInv'
<1>1. context' = context /\ open' = open /\ frame' = frame /\ globals' = globals
  BY DEF Refused, NextLine
<1>2. Shape'
  BY <1>1, BoundsAssumption DEF IInv, Shape, NextLine, Refused, Contexts
<1>3. SlotsApart(context.locals, context.size)'
  BY <1>1 DEF IInv, SlotsApart
<1>4. Agrees(Names, context.locals, open, frame)'
  BY <1>1 DEF IInv, Agrees, Fits, Holds, Hidden
<1>5. QED
  BY <1>2, <1>3, <1>4 DEF IInv

\* Agreement needs the globals, which no line changes.
LEMMA AgreesLater ==
  ASSUME NEW N, NEW s, NEW o, NEW f, globals' = globals,
         Agrees(N, s, o, f), context'.locals = s, open' = o, frame' = f
  PROVE  Agrees(N, context.locals, open, frame)'
  BY DEF Agrees, Fits, Holds, Hidden

\* The parameters of a function, in the tables and in the source.
LEMMA ParametersAgree ==
  ASSUME IInv, NEW n \in 0 .. MaxParams, NEW params \in [1 .. n -> Names],
         FunctionLine(params), status' = "ok"
  PROVE  IInv'
<1> DEFINE names == [i \in DOMAIN params |->
                       IF params[i] \in globals THEN Misread(params[i]) ELSE params[i]]
           t == Firsts(names, n)
           m == [x \in {params[i] : i \in DOMAIN params} |->
                   Parameter(CHOOSE i \in DOMAIN params : params[i] = x)]
           f == [i \in DOMAIN params |-> Parameter(i)]
<1>1. /\ DOMAIN params = 1 .. n /\ n \in Nat /\ n <= MaxParams
      /\ \A i \in 1 .. n : params[i] \in Names
  BY BoundsAssumption
<1>2. NextLine /\ wellScoped' \in BOOLEAN
  BY DEF FunctionLine, IInv, Shape
<1>3. /\ \A i, j \in 1 .. n : params[i] = params[j] => i = j
      /\ context' = NewFunction(names) /\ frame' = f /\ open' = <<m>>
      /\ status' \in {"ok", "refused"}
  BY <1>1 DEF FunctionLine, Refused, IInv, Shape
<1>4. names \in Seq(Keys) /\ Len(names) = n
  <2>1. \A i \in 1 .. n : names[i] \in Keys
    BY <1>1 DEF Keys
  <2>2. names \in [1 .. n -> Keys]
    BY <1>1, <2>1
  <2>3. QED
    BY <1>1, <2>2
<1>5. Distinct(names)
  <2>1. ASSUME NEW i \in 1 .. n, NEW j \in 1 .. n, names[i] = names[j]
        PROVE  params[i] = params[j]
    <3>1. names[i] = IF params[i] \in globals THEN Misread(params[i]) ELSE params[i]
      BY <1>1
    <3>2. names[j] = IF params[j] \in globals THEN Misread(params[j]) ELSE params[j]
      BY <1>1
    <3>3. Misread(params[i]) \notin Names /\ Misread(params[j]) \notin Names
      BY <1>1, ReservedAssumption
    <3>4. Misread(params[i]) = Misread(params[j]) => params[i] = params[j]
      BY DEF Misread
    <3>5. params[i] \in Names /\ params[j] \in Names
      BY <1>1
    <3> HIDE DEF names
    <3>6. CASE params[i] \in globals
      <4>1. names[i] = Misread(params[i])
        BY <3>1, <3>6
      <4>2. names[j] = Misread(params[j])
        BY <2>1, <3>2, <3>3, <3>5, <4>1
      <4>3. QED
        BY <2>1, <3>4, <4>1, <4>2
    <3>7. CASE params[i] \notin globals
      <4>1. names[i] = params[i]
        BY <3>1, <3>7
      <4>2. names[j] = params[j]
        BY <2>1, <3>2, <3>3, <3>5, <4>1
      <4>3. QED
        BY <2>1, <4>1, <4>2
    <3>8. QED
      BY <3>6, <3>7
  <2>2. QED
    BY <1>3, <1>4, <2>1 DEF Distinct
<1>6. /\ context' = [locals |-> <<t>>, size |-> n, temps |-> 0]
      /\ DOMAIN t = {names[j] : j \in 1 .. n} /\ t \in Table
      /\ \A j \in 1 .. n : t[names[j]] = j
  <2> HIDE DEF names
  <2>1. n \in 0 .. Len(names)
    BY <1>1, <1>4
  <2>2. context' = After(names, n)
    BY <1>3, <1>4, <1>5, NewFunctionIs
  <2>3. QED
    BY <1>4, <1>5, <2>1, <2>2, FirstsIs DEF After
<1>7. /\ \A i \in 1 .. n : params[i] \in DOMAIN m /\ m[params[i]] = Parameter(i)
      /\ DOMAIN m = {params[i] : i \in 1 .. n}
      /\ m \in Meaning
  <2>1. ASSUME NEW i \in 1 .. n
        PROVE  params[i] \in DOMAIN m /\ m[params[i]] = Parameter(i)
    <3>1. (CHOOSE j \in DOMAIN params : params[j] = params[i]) = i
      BY <1>1, <1>3
    <3>2. QED
      BY <1>1, <3>1
  <2>2. DOMAIN m = {params[i] : i \in 1 .. n} /\ DOMAIN m \in SUBSET Names
    BY <1>1
  <2>3. \A x \in DOMAIN m : m[x] \in Values
    <3>1. \A i \in 1 .. n : m[params[i]] \in Values
      <4>1. \A i \in Nat : Parameter(i) \in Values
        BY DEF Values
      <4>2. \A i \in 1 .. n : i \in Nat
        BY <1>1
      <4> HIDE DEF m
      <4>3. QED
        BY <2>1, <4>1, <4>2
    <3>2. QED
      BY <2>2, <3>1
  <2>4. m \in [DOMAIN m -> Values]
    BY <2>3
  <2> HIDE DEF m
  <2>5. QED
    BY <2>1, <2>2, <2>4 DEF Meaning
<1>8. /\ DOMAIN f = 1 .. n /\ \A i \in 1 .. n : Holds(f, i, Parameter(i))
  BY <1>1 DEF Holds
<1> HIDE DEF t, m, f
<1>9. /\ <<t>> \in Seq(Table) /\ <<m>> \in Seq(Meaning) /\ Len(<<t>>) = 1 /\ Len(<<m>>) = 1
      /\ <<t>>[1] = t /\ <<m>>[1] = m /\ DOMAIN <<t>> = {1}
  BY <1>6, <1>7
<1>10. context'.locals = <<t>> /\ context'.size = n /\ context'.temps = 0
  BY <1>6
<1>11. Shape'
  <2>1. context' \in Contexts
    BY <1>1, <1>6, <1>9 DEF Contexts
  <2>2. globals' = globals /\ line \in 0 .. MaxLines /\ line' = line + 1 /\ line < MaxLines
    BY <1>2 DEF NextLine, IInv, Shape
  <2>3. line' \in 0 .. MaxLines /\ 0 <= line'
    BY <2>2, BoundsAssumption
  <2>4. Len(open') = Len(context'.locals) /\ open' \in Seq(Meaning)
    BY <1>3, <1>9, <1>10
  <2>5. DOMAIN frame' \subseteq 1 .. context'.size
    BY <1>3, <1>8, <1>10
  <2>6. context'.temps <= context'.size /\ context'.temps <= line'
    BY <1>1, <1>10, <2>3
  <2>7. globals' \subseteq Names
    BY <2>2 DEF IInv, Shape
  <2>8. QED
    BY <1>2, <1>3, <2>1, <2>3, <2>4, <2>5, <2>6, <2>7 DEF Shape
<1>12. SlotsApart(context.locals, context.size)'
  <2>1. ASSUME NEW x \in DOMAIN t, NEW y \in DOMAIN t
        PROVE  t[x] \in 1 .. n /\ (t[x] = t[y] => x = y)
    <3>1. PICK i \in 1 .. n : x = names[i]
      BY <1>6
    <3>2. PICK j \in 1 .. n : y = names[j]
      BY <1>6
    <3> HIDE DEF names
    <3>3. QED
      BY <1>6, <3>1, <3>2
  <2>2. QED
    BY <1>9, <1>10, <2>1 DEF SlotsApart
<1>13. Agrees(Names, <<t>>, <<m>>, f)
  <2>1. ASSUME NEW x \in Names PROVE Fits(t, m, x, f)
    <3>1. CASE x \notin DOMAIN m
      <4>1. ASSUME NEW j \in 1 .. n PROVE names[j] # x
        <5>1. params[j] # x
          BY <1>7, <3>1
        <5>2. QED
          BY <1>1, <5>1, ReservedAssumption
      <4>2. x \notin DOMAIN t
        BY <1>6, <4>1
      <4>3. QED
        BY <3>1, <4>2 DEF Fits
    <3>2. CASE x \in DOMAIN m
      <4>1. PICK i \in 1 .. n : x = params[i]
        BY <1>7, <3>2
      <4>2. m[x] = Parameter(i)
        BY <1>7, <4>1
      <4>3. CASE x \in globals
        <5>1. ASSUME NEW j \in 1 .. n PROVE names[j] # x
          BY <1>1, <4>3, ReservedAssumption
        <5>2. x \notin DOMAIN t
          BY <1>6, <5>1
        <5>3. Hidden(x, m[x])
          <6>1. i \in 1 .. MaxParams
            BY <1>1, BoundsAssumption
          <6>2. QED
            BY <4>2, <4>3, <6>1 DEF Hidden
        <5>4. QED
          BY <3>2, <5>2, <5>3 DEF Fits
      <4>4. CASE x \notin globals
        <5>1. names[i] = x
          BY <1>1, <4>1, <4>4
        <5>2. x \in DOMAIN t /\ t[x] = i
          BY <1>6, <5>1
        <5>3. QED
          BY <1>8, <3>2, <4>2, <5>2 DEF Fits
      <4>5. QED
        BY <4>3, <4>4
    <3>3. QED
      BY <3>1, <3>2
  <2>2. QED
    BY <1>9, <2>1 DEF Agrees
<1>14. Agrees(Names, context.locals, open, frame)'
  BY <1>2, <1>3, <1>10, <1>13, AgreesLater DEF NextLine
<1>15. QED
  BY <1>11, <1>12, <1>14 DEF IInv

\* An open body more, or less, on both sides.
LEMMA Opened ==
  ASSUME NEW s \in Seq(Table), NEW o \in Seq(Meaning), Len(s) = Len(o), NEW f, NEW size,
         SlotsApart(s, size), Agrees(Names, s, o, f)
  PROVE  /\ Append(s, Empty) \in Seq(Table) /\ Append(o, Empty) \in Seq(Meaning)
         /\ Len(Append(s, Empty)) = Len(Append(o, Empty))
         /\ SlotsApart(Append(s, Empty), size)
         /\ Agrees(Names, Append(s, Empty), Append(o, Empty), f)
<1> DEFINE n == Len(s)
           t == Append(s, Empty)
           p == Append(o, Empty)
<1>1. /\ t \in Seq(Table) /\ p \in Seq(Meaning)
      /\ DOMAIN s = 1 .. n /\ DOMAIN t = 1 .. n + 1 /\ n \in Nat
      /\ Len(t) = n + 1 /\ Len(p) = n + 1
      /\ \A d \in 1 .. n : t[d] = s[d] /\ p[d] = o[d]
      /\ t[n + 1] = Empty /\ p[n + 1] = Empty
  BY EmptyType
<1>2. \A d \in 1 .. n + 1 : d \in 1 .. n \/ d = n + 1
  BY <1>1
<1> HIDE DEF t, p, n
<1>3. SlotsApart(t, size)
  <2>1. ASSUME NEW d \in 1 .. n + 1, NEW x \in DOMAIN t[d]
        PROVE  d \in 1 .. n /\ t[d] = s[d]
    BY <1>1, <1>2, EmptyType
  <2>2. QED
    BY <1>1, <2>1 DEF SlotsApart
<1>4. Agrees(Names, t, p, f)
  <2>1. ASSUME NEW d \in 1 .. n + 1, NEW x \in Names PROVE Fits(t[d], p[d], x, f)
    <3>1. CASE d \in 1 .. n
      <4>1. Fits(s[d], o[d], x, f)
        BY <3>1 DEF Agrees, n
      <4>2. QED
        BY <1>1, <3>1, <4>1
    <3>2. CASE d = n + 1
      BY <1>1, <3>2, EmptyType DEF Fits
    <3>3. QED
      BY <1>2, <3>1, <3>2
  <2>2. QED
    BY <1>1, <2>1 DEF Agrees
<1>5. QED
  BY <1>1, <1>3, <1>4 DEF t, p

LEMMA Closed ==
  ASSUME NEW s \in Seq(Table), NEW o \in Seq(Meaning), Len(s) = Len(o), Len(s) > 0,
         NEW N, NEW f, NEW size, SlotsApart(s, size), Agrees(N, s, o, f)
  PROVE  /\ Outer(s) \in Seq(Table) /\ Outer(o) \in Seq(Meaning)
         /\ Len(Outer(s)) = Len(s) - 1 /\ Len(Outer(o)) = Len(s) - 1
         /\ \A d \in 1 .. Len(s) - 1 : Outer(s)[d] = s[d] /\ Outer(o)[d] = o[d]
         /\ SlotsApart(Outer(s), size)
         /\ Agrees(N, Outer(s), Outer(o), f)
<1> DEFINE n == Len(s) - 1
           t == Outer(s)
           p == Outer(o)
<1>1. /\ t \in Seq(Table) /\ p \in Seq(Meaning)
      /\ DOMAIN s = 1 .. Len(s) /\ DOMAIN t = 1 .. n /\ n \in Nat
      /\ Len(t) = n /\ Len(p) = n
      /\ \A d \in 1 .. n : t[d] = s[d] /\ p[d] = o[d] /\ d \in 1 .. Len(s)
  BY DEF Outer
<1> HIDE DEF t, p, n
<1>2. SlotsApart(t, size)
  BY <1>1 DEF SlotsApart
<1>3. Agrees(N, t, p, f)
  <2>1. ASSUME NEW d \in 1 .. n, NEW x \in N PROVE Fits(t[d], p[d], x, f)
    <3>1. Fits(s[d], o[d], x, f)
      BY <1>1 DEF Agrees
    <3>2. QED
      BY <1>1, <3>1
  <2>2. QED
    BY <1>1, <2>1 DEF Agrees
<1>4. QED
  BY <1>1, <1>2, <1>3 DEF t, p, n

\* The tables and the frame once the temporary of a line is declared and stored.
LEMMA LineTemporary ==
  ASSUME IInv, NextLine, context.locals # <<>>, NEW spills \in BOOLEAN
  PROVE  LET c == WithTemporary(context, spills)
         IN /\ c \in Contexts /\ Len(c.locals) = Len(open) /\ Len(open) > 0
            /\ context.size <= c.size /\ c.temps <= c.size /\ c.temps <= line + 1
            /\ SameOn(Names, context.locals, c.locals)
            /\ SlotsApart(c.locals, c.size)
            /\ spills => Holding(c.locals, Temporary(context.temps)) # {}
            /\ Agrees(Names, c.locals, open, frame)
            /\ Agrees(Names, c.locals, open, Saving(c, spills))
            /\ DOMAIN Saving(c, spills) \subseteq 1 .. c.size
            /\ DOMAIN frame \subseteq 1 .. c.size
<1> DEFINE c == WithTemporary(context, spills)
<1>1. /\ context \in Contexts /\ context.locals \in Seq(Table) /\ context.size \in Nat
      /\ context.temps \in Nat /\ context.temps <= context.size /\ context.temps <= line
      /\ Len(open) = Len(context.locals) /\ DOMAIN frame \subseteq 1 .. context.size
      /\ SlotsApart(context.locals, context.size)
      /\ Agrees(Names, context.locals, open, frame)
      /\ line \in Nat
  BY DEF IInv, Shape, Contexts
<1>2. Len(context.locals) > 0 /\ context.temps <= MaxLines
  <2>1. Len(context.locals) > 0
    BY <1>1
  <2>2. context.temps <= MaxLines
    BY <1>1, BoundsAssumption DEF NextLine
  <2>3. QED
    BY <2>1, <2>2
<1>3. /\ c \in Contexts
      /\ c.size = IF spills THEN context.size + 1 ELSE context.size
      /\ c.temps = IF spills THEN context.temps + 1 ELSE context.temps
      /\ Len(c.locals) = Len(context.locals)
      /\ SameOn(Names, context.locals, c.locals)
      /\ SlotsApart(c.locals, c.size)
      /\ spills => Holding(c.locals, Temporary(context.temps)) # {}
  BY <1>1, <1>2, TemporaryAdded
<1> HIDE DEF c
<1>4. /\ c.size \in Nat /\ context.size <= c.size /\ (spills => c.size > context.size)
      /\ c.temps <= c.size /\ c.temps <= line + 1
  BY <1>1, <1>3
<1>5. /\ Keeps(frame, Saving(c, spills), context.size)
      /\ DOMAIN Saving(c, spills) \subseteq 1 .. c.size
  BY <1>1, <1>4, SavingKeeps
<1>6. Agrees(Names, context.locals, open, Saving(c, spills))
  BY <1>1, <1>5, AgreesKept
<1>7. Agrees(Names, c.locals, open, Saving(c, spills)) /\ Agrees(Names, c.locals, open, frame)
  BY <1>1, <1>3, <1>6, AgreesSame
<1>8. DOMAIN frame \subseteq 1 .. c.size
  <2>1. 1 .. context.size \subseteq 1 .. c.size
    BY <1>1, <1>4
  <2>2. QED
    BY <1>1, <2>1
<1>9. QED
  BY <1>1, <1>2, <1>3, <1>4, <1>5, <1>7, <1>8 DEF c

\* What is left to show of a line that is compiled.
LEMMA CompiledKeeps ==
  ASSUME IInv, NextLine, status' = status, wellScoped' \in BOOLEAN,
         NEW c \in Contexts, context' = c, c.temps <= c.size, c.temps <= line + 1,
         open' \in Seq(Meaning), Len(open') = Len(c.locals),
         DOMAIN frame' \subseteq 1 .. c.size,
         SlotsApart(c.locals, c.size), Agrees(Names, c.locals, open', frame')
  PROVE  IInv'
<1>1. globals' = globals /\ line' = line + 1 /\ line' \in 0 .. MaxLines
  BY BoundsAssumption DEF NextLine, IInv, Shape
<1>2. Shape'
  BY <1>1 DEF IInv, Shape
<1>3. SlotsApart(context.locals, context.size)'
  BY DEF SlotsApart
<1>4. Agrees(Names, context.locals, open, frame)'
  BY <1>1, AgreesLater
<1>5. QED
  BY <1>2, <1>3, <1>4 DEF IInv

LEMMA UseKeeps ==
  ASSUME IInv, NEW y \in MaybeNamed, NEW spills \in BOOLEAN, NEW opens \in BOOLEAN,
         NEW calls \in BOOLEAN, UseLine(y, spills, opens, calls)
  PROVE  IInv'
<1> DEFINE c == WithTemporary(context, spills)
           f == AfterCall(Saving(c, spills), calls)
<1>1. NextLine /\ context.locals # <<>> /\ wellScoped' \in BOOLEAN
  BY DEF UseLine, IInv, Shape
<1>2. CASE Refused
  BY <1>1, <1>2, RefusedKeeps
<1>3. CASE ~Refused
  <2>1. /\ context' = IF opens THEN [c EXCEPT !.locals = Append(@, Empty)] ELSE c
        /\ open' = IF opens THEN Append(open, Empty) ELSE open
        /\ frame' = f /\ status' = status
    BY <1>3 DEF UseLine
  <2>2. /\ c \in Contexts /\ Len(c.locals) = Len(open)
        /\ c.temps <= c.size /\ c.temps <= line + 1
        /\ SlotsApart(c.locals, c.size)
        /\ Agrees(Names, c.locals, open, Saving(c, spills))
        /\ DOMAIN Saving(c, spills) \subseteq 1 .. c.size
    BY <1>1, LineTemporary
  <2> HIDE DEF c
  <2>3. Keeps(Saving(c, spills), f, c.size) /\ DOMAIN f \subseteq 1 .. c.size
    BY <2>2, CallKeeps
  <2> HIDE DEF f
  <2>4. c.locals \in Seq(Table) /\ open \in Seq(Meaning) /\ c.size \in Nat /\ c.temps \in Nat
    BY <2>2 DEF Contexts, IInv, Shape
  <2>5. Agrees(Names, c.locals, open, f)
    BY <2>2, <2>3, <2>4, AgreesKept
  <2>6. CASE ~opens
    <3>1. context' = c /\ open' = open
      BY <2>1, <2>6
    <3>2. QED
      BY <1>1, <2>1, <2>2, <2>3, <2>4, <2>5, <3>1, CompiledKeeps
  <2>7. CASE opens
    <3> DEFINE e == [c EXCEPT !.locals = Append(c.locals, Empty)]
    <3>1. context' = e /\ open' = Append(open, Empty)
      BY <2>1, <2>7
    <3>2. /\ Append(c.locals, Empty) \in Seq(Table) /\ Append(open, Empty) \in Seq(Meaning)
          /\ Len(Append(c.locals, Empty)) = Len(Append(open, Empty))
          /\ SlotsApart(Append(c.locals, Empty), c.size)
          /\ Agrees(Names, Append(c.locals, Empty), Append(open, Empty), f)
      BY <2>2, <2>4, <2>5, Opened
    <3>3. /\ e \in Contexts /\ e.size = c.size /\ e.temps = c.temps
          /\ e.locals = Append(c.locals, Empty)
      BY <2>2, <2>4, <3>2 DEF Contexts
    <3> HIDE DEF e
    <3>4. QED
      BY <1>1, <2>1, <2>2, <2>3, <3>1, <3>2, <3>3, CompiledKeeps
  <2>8. QED
    BY <2>6, <2>7
<1>4. QED
  BY <1>2, <1>3

LEMMA CloseKeeps ==
  ASSUME IInv, CloseLine
  PROVE  IInv'
<1> DEFINE e == [context EXCEPT !.locals = Outer(context.locals)]
<1>1. NextLine /\ context.locals # <<>> /\ wellScoped' \in BOOLEAN /\ status' = status
      /\ context' = e /\ open' = Outer(open) /\ frame' = frame
  BY DEF CloseLine, IInv, Shape
<1>2. /\ context \in Contexts /\ context.locals \in Seq(Table) /\ context.size \in Nat
      /\ context.temps \in Nat /\ context.temps <= context.size /\ context.temps <= line
      /\ open \in Seq(Meaning) /\ Len(open) = Len(context.locals)
      /\ DOMAIN frame \subseteq 1 .. context.size
      /\ SlotsApart(context.locals, context.size)
      /\ Agrees(Names, context.locals, open, frame)
      /\ line \in Nat
  BY DEF IInv, Shape, Contexts
<1>3. Len(context.locals) > 0
  BY <1>1, <1>2
<1>4. /\ Outer(context.locals) \in Seq(Table) /\ Outer(open) \in Seq(Meaning)
      /\ Len(Outer(context.locals)) = Len(Outer(open))
      /\ SlotsApart(Outer(context.locals), context.size)
      /\ Agrees(Names, Outer(context.locals), Outer(open), frame)
  BY <1>2, <1>3, Closed
<1>5. /\ e \in Contexts /\ e.size = context.size /\ e.temps = context.temps
      /\ e.locals = Outer(context.locals)
  BY <1>2, <1>4 DEF Contexts
<1>6. context.temps <= line + 1
  BY <1>2
<1> HIDE DEF e
<1>7. QED
  BY <1>1, <1>2, <1>4, <1>5, <1>6, CompiledKeeps

LEMMA ChainKeeps ==
  ASSUME IInv, NEW y \in MaybeNamed, NEW spills \in BOOLEAN,
         NEW calls \in BOOLEAN, ChainLine(y, spills, calls)
  PROVE  IInv'
<1> DEFINE c == WithTemporary(context, spills)
           s == Append(Outer(c.locals), Empty)
           o == Append(Outer(open), Empty)
           e == [c EXCEPT !.locals = s]
           f == AfterCall(frame, calls)
<1>1. NextLine /\ context.locals # <<>> /\ wellScoped' \in BOOLEAN
  <2>1. Len(context.locals) > 1
    BY DEF ChainLine
  <2>2. QED
    BY <2>1 DEF ChainLine, IInv, Shape
<1>2. CASE Refused
  BY <1>1, <1>2, RefusedKeeps
<1>3. CASE ~Refused
  <2>1. /\ c \in Contexts /\ Len(c.locals) = Len(open) /\ Len(open) > 0
        /\ c.temps <= c.size /\ c.temps <= line + 1
        /\ SlotsApart(c.locals, c.size)
        /\ Agrees(Names, c.locals, open, frame)
        /\ DOMAIN frame \subseteq 1 .. c.size
    BY <1>1, LineTemporary
  <2>2. open' = o /\ frame' = f /\ status' = status
    BY <1>3 DEF ChainLine
  <2>3. context' = e
    <3>1. context' = [[c EXCEPT !.locals = Outer(@)] EXCEPT !.locals = Append(@, Empty)]
      BY <1>3 DEF ChainLine
    <3>2. QED
      BY <2>1, <3>1 DEF Contexts
  <2> HIDE DEF c
  <2>4. c.locals \in Seq(Table) /\ open \in Seq(Meaning) /\ c.size \in Nat /\ c.temps \in Nat
    BY <2>1 DEF Contexts, IInv, Shape
  <2>5. Keeps(frame, f, c.size) /\ DOMAIN f \subseteq 1 .. c.size
    BY <2>1, CallKeeps
  <2> HIDE DEF f
  <2>6. Agrees(Names, c.locals, open, f)
    BY <2>1, <2>4, <2>5, AgreesKept
  <2>7. /\ Outer(c.locals) \in Seq(Table) /\ Outer(open) \in Seq(Meaning)
        /\ Len(Outer(c.locals)) = Len(Outer(open))
        /\ SlotsApart(Outer(c.locals), c.size)
        /\ Agrees(Names, Outer(c.locals), Outer(open), f)
    BY <2>1, <2>4, <2>6, Closed
  <2>8. /\ s \in Seq(Table) /\ o \in Seq(Meaning) /\ Len(s) = Len(o)
        /\ SlotsApart(s, c.size) /\ Agrees(Names, s, o, f)
    BY <2>7, Opened
  <2> HIDE DEF s, o
  <2>9. e \in Contexts /\ e.size = c.size /\ e.temps = c.temps /\ e.locals = s
    BY <2>1, <2>4, <2>8 DEF Contexts
  <2> HIDE DEF e
  <2>10. QED
    BY <1>1, <2>1, <2>2, <2>3, <2>5, <2>8, <2>9, CompiledKeeps
<1>4. QED
  BY <1>2, <1>3

\* The tables of a line that declares x: x has the slot after those of before.
LEMMA LocalTables ==
  ASSUME IInv, NextLine, context.locals # <<>>, NEW x \in Names, NEW spills \in BOOLEAN
  PROVE  LET c == WithTemporary(WithLocal(context, x), spills)
             n == context.size + 1
             L == Len(open)
         IN /\ c \in Contexts /\ Len(c.locals) = L /\ L \in Nat /\ L > 0
            /\ n <= c.size /\ c.temps <= c.size /\ c.temps <= line + 1
            /\ spills => c.size > n
            /\ SlotsApart(c.locals, c.size)
            /\ x \in DOMAIN c.locals[L] /\ c.locals[L][x] = n
            /\ \A d \in 1 .. L - 1 :
                 /\ x \in DOMAIN context.locals[d] <=> x \in DOMAIN c.locals[d]
                 /\ x \in DOMAIN context.locals[d] => context.locals[d][x] = c.locals[d][x]
            /\ Holding(c.locals, x) # {} /\ Found(c.locals, x) = n
            /\ SameOn(Names \ {x}, context.locals, c.locals)
            /\ spills => Holding(c.locals, Temporary(context.temps)) # {}
<1> DEFINE e == WithLocal(context, x)
           c == WithTemporary(e, spills)
           n == context.size + 1
           L == Len(open)
<1>1. /\ context \in Contexts /\ context.size \in Nat
      /\ context.temps \in Nat /\ context.temps <= context.size /\ context.temps <= line
      /\ L = Len(context.locals) /\ L \in Nat
      /\ SlotsApart(context.locals, context.size)
      /\ line \in Nat /\ context.temps <= MaxLines
  BY BoundsAssumption DEF IInv, Shape, Contexts, NextLine
<1>2. L > 0 /\ x \in Keys
  <2>1. L > 0
    BY <1>1 DEF Contexts
  <2>2. QED
    BY <2>1 DEF Keys
<1> HIDE DEF L
<1>3. /\ e \in Contexts /\ e.size = n /\ e.temps = context.temps
      /\ Len(e.locals) = L
      /\ x \in DOMAIN e.locals[L] /\ e.locals[L][x] = n
      /\ SameOn(Names \ {x}, context.locals, e.locals)
      /\ \A d \in 1 .. L - 1 : e.locals[d] = context.locals[d]
      /\ SlotsApart(e.locals, e.size)
  <2>1. Len(context.locals) > 0
    BY <1>1, <1>2
  <2>2. /\ e \in Contexts /\ e.size = context.size + 1 /\ e.temps = context.temps
        /\ Len(e.locals) = Len(context.locals)
        /\ x \in DOMAIN e.locals[Len(context.locals)]
        /\ e.locals[Len(context.locals)][x] = context.size + 1
        /\ \A N : x \notin N => SameOn(N, context.locals, e.locals)
        /\ \A d \in 1 .. Len(context.locals) - 1 : e.locals[d] = context.locals[d]
        /\ SlotsApart(e.locals, e.size)
    BY <1>1, <1>2, <2>1, LocalAdded
  <2>3. SameOn(Names \ {x}, context.locals, e.locals)
    <3>1. x \notin Names \ {x}
      OBVIOUS
    <3> HIDE DEF e
    <3>2. QED
      BY <2>2, <3>1
  <2>4. QED
    BY <1>1, <2>2, <2>3
<1> HIDE DEF e, n
<1>4. /\ c \in Contexts
      /\ c.size = IF spills THEN e.size + 1 ELSE e.size
      /\ c.temps = IF spills THEN e.temps + 1 ELSE e.temps
      /\ Len(c.locals) = L
      /\ SameOn(Names, e.locals, c.locals)
      /\ SlotsApart(c.locals, c.size)
      /\ spills => Holding(c.locals, Temporary(context.temps)) # {}
  BY <1>1, <1>2, <1>3, TemporaryAdded
<1> HIDE DEF c
<1>5. SameOn(Names \ {x}, context.locals, c.locals)
  <2>1. SameOn(Names \ {x}, e.locals, c.locals)
    BY <1>4 DEF SameOn
  <2>2. QED
    BY <1>3, <2>1, SameTwice
<1>6. /\ n <= c.size /\ (spills => c.size > n) /\ c.temps <= c.size /\ c.temps <= line + 1
  BY <1>1, <1>3, <1>4 DEF n
<1>7. \A d \in 1 .. L : /\ x \in DOMAIN e.locals[d] <=> x \in DOMAIN c.locals[d]
                        /\ x \in DOMAIN e.locals[d] => e.locals[d][x] = c.locals[d][x]
  BY <1>3, <1>4 DEF SameOn
<1>8. L \in 1 .. L /\ \A d \in 1 .. L - 1 : d \in 1 .. L
  BY <1>1, <1>2
<1>9. x \in DOMAIN c.locals[L] /\ c.locals[L][x] = n
  BY <1>3, <1>7, <1>8
<1>10. ASSUME NEW d \in 1 .. L - 1
       PROVE  /\ x \in DOMAIN context.locals[d] <=> x \in DOMAIN c.locals[d]
              /\ x \in DOMAIN context.locals[d] => context.locals[d][x] = c.locals[d][x]
  <2>1. e.locals[d] = context.locals[d] /\ d \in 1 .. L
    BY <1>3, <1>8
  <2>2. QED
    BY <1>7, <2>1, Zenon
<1>11. Holding(c.locals, x) # {} /\ Found(c.locals, x) = n
  <2>1. c.locals \in Seq(Table) /\ DOMAIN c.locals = 1 .. L
    BY <1>4 DEF Contexts
  <2>2. L \in Holding(c.locals, x)
    BY <1>8, <1>9, <2>1 DEF Holding
  <2>3. PICK d \in Holding(c.locals, x) : /\ \A i \in Holding(c.locals, x) : i <= d
                                          /\ Found(c.locals, x) = c.locals[d][x]
    BY <2>1, <2>2, InnermostIs
  <2>4. d \in 1 .. L /\ L <= d
    BY <2>1, <2>2, <2>3 DEF Holding
  <2>5. d = L
    BY <1>1, <2>4
  <2>6. QED
    BY <1>9, <2>2, <2>3, <2>5
<1>12. QED
  BY <1>1, <1>2, <1>4, <1>5, <1>6, <1>9, <1>10, <1>11 DEF c, e, n, L

LEMMA LocalKeeps ==
  ASSUME IInv, NEW x \in Names, NEW y \in MaybeNamed, NEW spills \in BOOLEAN,
         NEW calls \in BOOLEAN, LocalLine(x, y, spills, calls)
  PROVE  IInv'
<1> DEFINE c == WithTemporary(WithLocal(context, x), spills)
           n == context.size + 1
           L == Len(open)
           g == Saving(c, spills)
           f == With(AfterCall(g, calls), n, Local(line))
           o == Declared(open, x, Local(line))
<1>1. NextLine /\ context.locals # <<>> /\ wellScoped' \in BOOLEAN
  BY DEF LocalLine, IInv, Shape
<1>2. CASE Refused
  BY <1>1, <1>2, RefusedKeeps
<1>3. CASE ~Refused
  <2>1. /\ c \in Contexts /\ Len(c.locals) = L /\ L \in Nat /\ L > 0
        /\ n <= c.size /\ c.temps <= c.size /\ c.temps <= line + 1
        /\ (spills => c.size > n)
        /\ SlotsApart(c.locals, c.size)
        /\ x \in DOMAIN c.locals[L] /\ c.locals[L][x] = n
        /\ \A d \in 1 .. L - 1 :
             /\ x \in DOMAIN context.locals[d] <=> x \in DOMAIN c.locals[d]
             /\ x \in DOMAIN context.locals[d] => context.locals[d][x] = c.locals[d][x]
        /\ Found(c.locals, x) = n
        /\ SameOn(Names \ {x}, context.locals, c.locals)
    BY <1>1, LocalTables
  <2>2. context' = c /\ frame' = f /\ open' = o /\ status' = status
    <3>1. frame' = With(AfterCall(g, calls), Found(c.locals, x), Local(line))
      BY <1>3 DEF LocalLine
    <3>2. context' = c /\ open' = o /\ status' = status
      BY <1>3 DEF LocalLine
    <3> HIDE DEF c, n, L, g, o
    <3>3. QED
      BY <2>1, <3>1, <3>2
  <2>3. /\ context.size \in Nat /\ n \in Nat /\ n > context.size /\ line \in Nat
        /\ context.locals \in Seq(Table) /\ L = Len(context.locals)
        /\ DOMAIN frame \subseteq 1 .. context.size /\ open \in Seq(Meaning)
        /\ SlotsApart(context.locals, context.size)
        /\ Agrees(Names, context.locals, open, frame)
    BY DEF IInv, Shape, Contexts
  <2> HIDE DEF c, L
  <2>4. c.size \in Nat /\ context.size <= c.size /\ (spills => c.size > context.size)
    BY <2>1, <2>3 DEF Contexts
  <2>5. Keeps(frame, g, context.size) /\ DOMAIN g \subseteq 1 .. c.size
    BY <2>3, <2>4, SavingKeeps
  <2> HIDE DEF g, n
  <2>6. Keeps(g, AfterCall(g, calls), context.size) /\ DOMAIN AfterCall(g, calls) = DOMAIN g
    BY CallKeeps
  <2>7. Keeps(AfterCall(g, calls), f, context.size)
    BY <2>3, StoreKeeps
  <2>8. DOMAIN f = DOMAIN g \cup {n} /\ n \in DOMAIN f /\ f[n] = Local(line)
    BY <2>6 DEF With
  <2> HIDE DEF f
  <2>9. Keeps(frame, f, context.size)
    BY <2>5, <2>6, <2>7, KeepsTwice
  <2>10. Agrees(Names, context.locals, open, f)
    BY <2>3, <2>9, AgreesKept
  <2>11. n \in 1 .. c.size
    BY <2>1, <2>3, <2>4 DEF n
  <2>12. DOMAIN f \subseteq 1 .. c.size
    BY <2>5, <2>8, <2>11
  <2>13. /\ o \in Seq(Meaning) /\ Len(o) = L
         /\ o[L] = With(open[L], x, Local(line))
         /\ \A d \in 1 .. L - 1 : o[d] = open[d]
    <3>1. open[L] \in Meaning
      BY <2>1, <2>3 DEF L
    <3>2. Local(line) \in Values
      BY <2>3 DEF Values
    <3>3. With(open[L], x, Local(line)) \in Meaning
      BY <3>1, <3>2, MeaningType
    <3>4. QED
      BY <2>1, <2>3, <3>3, DeclaredIs DEF L
  <2> HIDE DEF o
  <2>14. Agrees(Names, c.locals, o, f)
    <3>1. ASSUME NEW d \in 1 .. L, NEW z \in Names, d # L \/ z # x
          PROVE  Fits(c.locals[d], o[d], z, f)
      <4>1. Fits(context.locals[d], open[d], z, f)
        BY <2>3, <2>10 DEF Agrees
      <4>2. /\ z \in DOMAIN context.locals[d] <=> z \in DOMAIN c.locals[d]
            /\ z \in DOMAIN context.locals[d] => context.locals[d][z] = c.locals[d][z]
        <5>1. CASE z = x
          <6>1. d \in 1 .. L - 1
            BY <2>1, <3>1, <5>1
          <6>2. QED
            BY <2>1, <5>1, <6>1
        <5>2. CASE z # x
          <6>1. z \in Names \ {x} /\ d \in 1 .. Len(context.locals)
            BY <2>3, <5>2
          <6>2. QED
            BY <2>1, <6>1 DEF SameOn
        <5>3. QED
          BY <5>1, <5>2
      <4>3. /\ z \in DOMAIN open[d] <=> z \in DOMAIN o[d]
            /\ z \in DOMAIN open[d] => open[d][z] = o[d][z]
        <5>1. CASE d = L
          <6>1. z # x
            BY <3>1, <5>1
          <6>2. QED
            BY <2>13, <5>1, <6>1 DEF With
        <5>2. CASE d # L
          <6>1. d \in 1 .. L - 1
            BY <2>1, <5>2
          <6>2. QED
            BY <2>13, <6>1
        <5>3. QED
          BY <5>1, <5>2
      <4>4. QED
        BY <4>1, <4>2, <4>3, Zenon DEF Fits
    <3>2. Fits(c.locals[L], o[L], x, f)
      <4>1. x \in DOMAIN o[L] /\ o[L][x] = Local(line)
        BY <2>13 DEF With
      <4>2. QED
        BY <2>1, <2>8, <4>1 DEF Fits, Holds
    <3>3. QED
      BY <2>1, <3>1, <3>2 DEF Agrees
  <2>15. QED
    BY <1>1, <2>1, <2>2, <2>12, <2>13, <2>14, CompiledKeeps
<1>4. QED
  BY <1>2, <1>3

-----------------------------------------------------------------------------
LEMMA FunctionKeeps ==
  ASSUME IInv, NEW n \in 0 .. MaxParams, NEW params \in [1 .. n -> Names],
         FunctionLine(params)
  PROVE  IInv'
<1>1. NextLine /\ wellScoped' \in BOOLEAN
  BY DEF FunctionLine, IInv, Shape
<1>2. CASE Refused
  BY <1>1, <1>2, RefusedKeeps
<1>3. CASE ~Refused
  <2>1. status' = "ok"
    BY <1>1, <1>3 DEF FunctionLine, NextLine
  <2>2. QED
    BY <2>1, ParametersAgree
<1>4. QED
  BY <1>2, <1>3

LEMMA NextIInv == IInv /\ [Next]_vars => IInv'
<1>1. SUFFICES ASSUME IInv, [Next]_vars PROVE IInv'
  OBVIOUS
<1>2. CASE UNCHANGED vars
  BY <1>1, <1>2
  DEF vars, IInv, Shape, Contexts, SlotsApart, Agrees, Fits, Holds, Hidden
<1>3. CASE Next
  BY <1>1, <1>3, FunctionKeeps, LocalKeeps, UseKeeps, CloseKeeps, ChainKeeps DEF Next
<1>4. QED
  BY <1>1, <1>2, <1>3

-----------------------------------------------------------------------------
(***************************************************************************)
(* What a line reads                                                       *)
(***************************************************************************)
LEMMA NoDeclarationOfNothing ==
  ASSUME NEW o \in Seq(Meaning)
  PROVE  \A d \in DOMAIN o : DOMAIN o[d] \subseteq Names
<1>1. ASSUME NEW d \in DOMAIN o PROVE DOMAIN o[d] \subseteq Names
  <2>1. o[d] \in Meaning
    OBVIOUS
  <2>2. QED
    BY <2>1 DEF Meaning
<1>2. QED
  BY <1>1

\* The line reads what its name means, when it is compiled with tables s that
\* agree with the source o on the frame f.
LEMMA LineReads ==
  ASSUME IInv, NextLine, NEW y \in MaybeNamed, NEW spills \in BOOLEAN,
         NEW s \in Seq(Table), NEW o \in Seq(Meaning), Len(s) = Len(o), NEW f, NEW size \in Nat, NEW kind,
         y \in Names => /\ Agrees({y}, s, o, f)
                        /\ Holding(s, y) # {} => Holding(context.locals, y) # {},
         SlotsApart(s, size), Writable(y, spills, s), Legal(y, o),
         last' = [kind |-> kind, name |-> y, spills |-> spills,
                  means |-> Means(y, o), reads |-> ReadFrom(y, s, f)],
         context'.size = size, ~HiddenParameter', ~LostToCall'
  PROVE  last'.reads = last'.means
<1>1. globals' = globals /\ globals \subseteq Names
  BY DEF NextLine, IInv, Shape
<1>2. last'.name = y /\ last'.means = Means(y, o) /\ last'.reads = ReadFrom(y, s, f)
  OBVIOUS
<1>3. CASE y = Nothing
  <2>1. Means(Nothing, o) = Nothing /\ ReadFrom(Nothing, s, f) = Nothing
    BY <1>1, NoDeclarationOfNothing, NothingRead
  <2>2. QED
    BY <1>2, <1>3, <2>1
<1>4. CASE y # Nothing
  <2>1. y \in Names
    BY <1>4 DEF MaybeNamed
  <2>2. ~Hidden(y, Means(y, o))
    BY <1>1, <1>2 DEF Hidden, HiddenParameter
  <2>3. ASSUME ReadFrom(y, s, f) = Overwritten, Holding(s, y) # {}, Found(s, y) > FrameSlots
        PROVE  FALSE
    <3>1. PICK d \in Holding(s, y) : /\ \A e \in Holding(s, y) : e <= d
                                     /\ Found(s, y) = s[d][y]
      BY <2>3, InnermostIs
    <3>2. s[d][y] \in 1 .. size
      BY DEF Holding, SlotsApart
    <3>3. size > FrameSlots
      BY <2>3, <3>1, <3>2, FrameSlotsAssumption
    <3>4. QED
      BY <1>2, <2>3, <3>3 DEF LostToCall
  <2>4. QED
    BY <1>1, <1>2, <1>4, <2>1, <2>2, <2>3, ReadIsMeant
<1>5. QED
  BY <1>3, <1>4

LEMMA UseReads ==
  ASSUME IInv, NEW y \in MaybeNamed, NEW spills \in BOOLEAN, NEW opens \in BOOLEAN,
         NEW calls \in BOOLEAN, UseLine(y, spills, opens, calls)
  PROVE  ReadsItsDeclaration'
<1> DEFINE c == WithTemporary(context, spills)
           f == Saving(c, spills)
<1>1. SUFFICES ASSUME status' = "ok", wellScoped', ~HiddenParameter', ~LostToCall'
               PROVE  last'.reads = last'.means
  BY DEF ReadsItsDeclaration
<1>2. /\ NextLine /\ context.locals # <<>> /\ Legal(y, open)
      /\ Writable(y, spills, c.locals)
      /\ last' = [kind |-> "use", name |-> y, spills |-> spills, means |-> Means(y, open),
                  reads |-> ReadFrom(y, c.locals, f)]
      /\ context' = IF opens THEN [c EXCEPT !.locals = Append(@, Empty)] ELSE c
  BY <1>1 DEF UseLine, Refused, Naming
<1>3. /\ c \in Contexts /\ Len(c.locals) = Len(open)
      /\ SameOn(Names, context.locals, c.locals)
      /\ SlotsApart(c.locals, c.size)
      /\ Agrees(Names, c.locals, open, f)
  BY <1>2, LineTemporary
<1> HIDE DEF c, f
<1>4. /\ c.locals \in Seq(Table) /\ c.size \in Nat /\ context.locals \in Seq(Table)
      /\ open \in Seq(Meaning) /\ context'.size = c.size
  BY <1>2, <1>3 DEF Contexts, IInv, Shape
<1>5. ASSUME y \in Names
      PROVE  /\ Agrees({y}, c.locals, open, f)
             /\ Holding(c.locals, y) # {} => Holding(context.locals, y) # {}
  <2>1. Agrees({y}, c.locals, open, f)
    BY <1>3, <1>5 DEF Agrees
  <2>2. Holding(c.locals, y) \subseteq Holding(context.locals, y)
    BY <1>3, <1>4, <1>5 DEF SameOn, Holding
  <2>3. QED
    BY <2>1, <2>2
<1>6. QED
  BY <1>1, <1>2, <1>3, <1>4, <1>5, LineReads

LEMMA LocalReads ==
  ASSUME IInv, NEW x \in Names, NEW y \in MaybeNamed, NEW spills \in BOOLEAN,
         NEW calls \in BOOLEAN, LocalLine(x, y, spills, calls)
  PROVE  ReadsItsDeclaration'
<1> DEFINE c == WithTemporary(WithLocal(context, x), spills)
           f == Saving(c, spills)
           r == ReadFrom(y, c.locals, f)
<1>1. SUFFICES ASSUME status' = "ok", wellScoped', ~HiddenParameter', ~LostToCall'
               PROVE  last'.reads = last'.means
  BY DEF ReadsItsDeclaration
<1>2. /\ NextLine /\ context.locals # <<>> /\ Legal(y, open)
      /\ Writable(y, spills, c.locals)
      /\ last' = [kind |-> "local", name |-> y, spills |-> spills,
                  means |-> IF y = x THEN r ELSE Means(y, open), reads |-> r]
      /\ context' = c
  BY <1>1 DEF LocalLine, Refused, Naming
<1>3. CASE y = x
  BY <1>2, <1>3
<1>4. CASE y # x
  <2>1. /\ c \in Contexts /\ Len(c.locals) = Len(open)
        /\ context.size + 1 <= c.size /\ (spills => c.size > context.size + 1)
        /\ SlotsApart(c.locals, c.size)
        /\ SameOn(Names \ {x}, context.locals, c.locals)
    BY <1>2, LocalTables
  <2> HIDE DEF c
  <2>2. /\ c.locals \in Seq(Table) /\ c.size \in Nat /\ context.locals \in Seq(Table)
        /\ context.size \in Nat /\ DOMAIN frame \subseteq 1 .. context.size
        /\ open \in Seq(Meaning) /\ Len(context.locals) = Len(open)
        /\ SlotsApart(context.locals, context.size)
        /\ Agrees(Names, context.locals, open, frame)
    BY <2>1 DEF Contexts, IInv, Shape
  <2>3. context.size <= c.size /\ (spills => c.size > context.size)
    BY <2>1, <2>2
  <2>4. Keeps(frame, f, context.size)
    BY <2>2, <2>3, SavingKeeps
  <2> HIDE DEF f
  <2>5. Agrees(Names, context.locals, open, f)
    BY <2>2, <2>4, AgreesKept
  <2>6. ASSUME y \in Names
        PROVE  /\ Agrees({y}, c.locals, open, f)
               /\ Holding(c.locals, y) # {} => Holding(context.locals, y) # {}
    <3>1. SameOn({y}, context.locals, c.locals)
      BY <1>4, <2>1, <2>6 DEF SameOn
    <3>2. Agrees({y}, context.locals, open, f)
      BY <2>5, <2>6 DEF Agrees
    <3>3. Agrees({y}, c.locals, open, f)
      BY <3>1, <3>2, AgreesSame
    <3>4. Holding(c.locals, y) \subseteq Holding(context.locals, y)
      BY <2>2, <3>1 DEF SameOn, Holding
    <3>5. QED
      BY <3>3, <3>4
  <2>7. last' = [kind |-> "local", name |-> y, spills |-> spills,
                 means |-> Means(y, open), reads |-> r]
        /\ context'.size = c.size
    BY <1>2, <1>4
  <2>8. QED
    BY <1>1, <1>2, <2>1, <2>2, <2>6, <2>7, LineReads
<1>5. QED
  BY <1>3, <1>4

LEMMA ChainReads ==
  ASSUME IInv, NEW y \in MaybeNamed, NEW spills \in BOOLEAN,
         NEW calls \in BOOLEAN, ChainLine(y, spills, calls)
  PROVE  ReadsItsDeclaration'
<1> DEFINE c == WithTemporary(context, spills)
           s == Outer(c.locals)
           o == Outer(open)
<1>1. SUFFICES ASSUME status' = "ok", wellScoped', ~HiddenParameter', ~LostToCall'
               PROVE  last'.reads = last'.means
  BY DEF ReadsItsDeclaration
<1>2. /\ NextLine /\ Len(context.locals) > 1 /\ Legal(y, o)
      /\ Writable(y, spills, [c EXCEPT !.locals = Outer(@)].locals)
      /\ last' = [kind |-> "chain", name |-> y, spills |-> spills, means |-> Means(y, o),
                  reads |-> ReadFrom(y, [c EXCEPT !.locals = Outer(@)].locals, frame)]
      /\ context' = [[c EXCEPT !.locals = Outer(@)] EXCEPT !.locals = Append(@, Empty)]
  BY <1>1 DEF ChainLine, Refused, Naming
<1>3. context.locals \in Seq(Table) /\ open \in Seq(Meaning) /\ context.locals # <<>>
  BY <1>2 DEF Contexts, IInv, Shape
<1>4. /\ c \in Contexts /\ Len(c.locals) = Len(open) /\ Len(open) > 0
      /\ SameOn(Names, context.locals, c.locals)
      /\ SlotsApart(c.locals, c.size)
      /\ Agrees(Names, c.locals, open, frame)
  BY <1>2, <1>3, LineTemporary
<1> HIDE DEF c
<1>5. /\ c.locals \in Seq(Table) /\ c.size \in Nat /\ context'.size = c.size
      /\ [c EXCEPT !.locals = Outer(@)].locals = s
  BY <1>2, <1>4 DEF Contexts
<1>6. /\ s \in Seq(Table) /\ o \in Seq(Meaning) /\ Len(s) = Len(o)
      /\ Len(s) = Len(c.locals) - 1
      /\ \A d \in 1 .. Len(c.locals) - 1 : s[d] = c.locals[d]
      /\ SlotsApart(s, c.size)
      /\ Agrees(Names, s, o, frame)
  BY <1>3, <1>4, <1>5, Closed
<1> HIDE DEF s, o
<1>7. ASSUME y \in Names
      PROVE  /\ Agrees({y}, s, o, frame)
             /\ Holding(s, y) # {} => Holding(context.locals, y) # {}
  <2>1. Agrees({y}, s, o, frame)
    BY <1>6, <1>7 DEF Agrees
  <2>2. ASSUME NEW d \in Holding(s, y) PROVE d \in Holding(context.locals, y)
    <3>1. d \in 1 .. Len(c.locals) - 1 /\ y \in DOMAIN s[d]
      BY <1>6 DEF Holding
    <3>2. d \in 1 .. Len(c.locals) /\ y \in DOMAIN c.locals[d]
      BY <1>5, <1>6, <3>1
    <3>3. d \in 1 .. Len(context.locals) /\ y \in DOMAIN context.locals[d]
      BY <1>4, <1>7, <3>2 DEF SameOn
    <3>4. QED
      BY <1>3, <3>3 DEF Holding
  <2>3. QED
    BY <2>1, <2>2
<1>8. /\ Writable(y, spills, s)
      /\ last' = [kind |-> "chain", name |-> y, spills |-> spills, means |-> Means(y, o),
                  reads |-> ReadFrom(y, s, frame)]
  BY <1>2, <1>5
<1>9. QED
  BY <1>1, <1>2, <1>5, <1>6, <1>7, <1>8, LineReads

LEMMA NextReads == IInv /\ ReadsItsDeclaration /\ [Next]_vars => ReadsItsDeclaration'
<1>1. SUFFICES ASSUME IInv, ReadsItsDeclaration, [Next]_vars PROVE ReadsItsDeclaration'
  OBVIOUS
<1>2. CASE UNCHANGED vars
  BY <1>1, <1>2 DEF vars, ReadsItsDeclaration, HiddenParameter, LostToCall
<1>3. ASSUME NEW n \in 0 .. MaxParams, NEW params \in [1 .. n -> Names],
             FunctionLine(params)
      PROVE  ReadsItsDeclaration'
  BY <1>3 DEF FunctionLine, Naming, ReadsItsDeclaration
<1>4. CASE CloseLine
  BY <1>4 DEF CloseLine, Naming, ReadsItsDeclaration
<1>5. QED
  BY <1>1, <1>2, <1>3, <1>4, LocalReads, UseReads, ChainReads DEF Next

-----------------------------------------------------------------------------
(***************************************************************************)
(* What is refused                                                         *)
(***************************************************************************)
\* A name that is unknown to the compiler is not declared in the source.
LEMMA UnknownIsIllegal ==
  ASSUME IInv, context.locals # <<>>, NEW y \in Names, Token(y) = "unknown"
  PROVE  ~Legal(y, open) /\ ~Legal(y, Outer(open))
<1>1. /\ context.locals \in Seq(Table) /\ open \in Seq(Meaning)
      /\ Len(context.locals) = Len(open) /\ Len(open) > 0
      /\ SlotsApart(context.locals, context.size)
      /\ Agrees(Names, context.locals, open, frame)
  BY DEF Contexts, IInv, Shape
<1>2. Holding(context.locals, y) = {} /\ y \notin globals
  BY DEF Token, ExistsAnywhere
<1>3. y # Nothing
  BY NothingAssumption
<1>4. Agrees({y}, context.locals, open, frame)
  BY <1>1 DEF Agrees
<1>5. Holding(open, y) = {}
  BY <1>1, <1>2, <1>4, HeldIsDeclared
<1>6. Outer(open) \in Seq(Meaning) /\ Holding(Outer(open), y) = {}
  <2>1. /\ Outer(open) \in Seq(Meaning) /\ Len(Outer(open)) = Len(open) - 1
        /\ \A d \in 1 .. Len(open) - 1 : Outer(open)[d] = open[d]
    BY <1>1, Closed
  <2>2. QED
    BY <1>1, <1>5, <2>1 DEF Holding
<1>7. Means(y, open) = Nothing /\ Means(y, Outer(open)) = Nothing
  BY <1>1, <1>2, <1>5, <1>6, MeansIs
<1>8. QED
  BY <1>3, <1>7 DEF Legal

LEMMA UseAccepts ==
  ASSUME IInv, NEW y \in MaybeNamed, NEW spills \in BOOLEAN, NEW opens \in BOOLEAN,
         NEW calls \in BOOLEAN, UseLine(y, spills, opens, calls)
  PROVE  AcceptsWellScoped'
<1> DEFINE c == WithTemporary(context, spills)
<1>1. SUFFICES ASSUME status' = "refused", wellScoped' PROVE FALSE
  BY DEF AcceptsWellScoped
<1>2. /\ NextLine /\ status = "ok" /\ Legal(y, open) /\ context.locals # <<>>
      /\ ~Writable(y, spills, c.locals)
  BY <1>1 DEF UseLine, NextLine
<1>3. /\ c \in Contexts /\ Len(c.locals) = Len(open)
      /\ SameOn(Names, context.locals, c.locals)
      /\ spills => Holding(c.locals, Temporary(context.temps)) # {}
  BY <1>2, LineTemporary
<1> HIDE DEF c
<1>4. /\ y # Nothing /\ Token(y) # "global"
      /\ ~(Token(y) = "local" /\ Holding(c.locals, y) # {})
  BY <1>2, <1>3 DEF Writable
<1>5. y \in Names
  BY <1>4 DEF MaybeNamed
<1>6. Holding(context.locals, y) \subseteq Holding(c.locals, y)
  BY <1>3, <1>5 DEF SameOn, Holding, Contexts, IInv, Shape
<1>7. Token(y) = "unknown"
  BY <1>4, <1>6 DEF Token, ExistsAnywhere
<1>8. QED
  BY <1>2, <1>5, <1>7, UnknownIsIllegal

LEMMA LocalAccepts ==
  ASSUME IInv, NEW x \in Names, NEW y \in MaybeNamed, NEW spills \in BOOLEAN,
         NEW calls \in BOOLEAN, LocalLine(x, y, spills, calls)
  PROVE  AcceptsWellScoped'
<1> DEFINE c == WithTemporary(WithLocal(context, x), spills)
<1>1. SUFFICES ASSUME status' = "refused", wellScoped' PROVE FALSE
  BY DEF AcceptsWellScoped
<1>2. /\ NextLine /\ status = "ok" /\ Legal(y, open) /\ context.locals # <<>>
      /\ x \notin DOMAIN open[Len(open)]
      /\ ExistsHere(context.locals, x) \/ ~Writable(y, spills, c.locals)
  BY <1>1 DEF LocalLine, NextLine
<1>3. /\ c \in Contexts /\ Len(c.locals) = Len(open)
      /\ Holding(c.locals, x) # {}
      /\ SameOn(Names \ {x}, context.locals, c.locals)
      /\ spills => Holding(c.locals, Temporary(context.temps)) # {}
  BY <1>2, LocalTables
<1> HIDE DEF c
<1>4. /\ c.locals \in Seq(Table) /\ context.locals \in Seq(Table)
      /\ Len(context.locals) = Len(open) /\ Len(open) \in Nat /\ Len(open) > 0
      /\ Agrees(Names, context.locals, open, frame)
  BY <1>2, <1>3 DEF Contexts, IInv, Shape
<1>5. ~ExistsHere(context.locals, x)
  <2>1. Len(open) \in 1 .. Len(context.locals)
    BY <1>4
  <2>2. Fits(context.locals[Len(open)], open[Len(open)], x, frame)
    BY <1>4, <2>1 DEF Agrees
  <2>3. QED
    BY <1>2, <1>4, <2>2, Zenon DEF Fits, ExistsHere
<1>6. /\ y # Nothing /\ Token(y) # "global"
      /\ ~(Token(y) = "local" /\ Holding(c.locals, y) # {})
  BY <1>2, <1>3, <1>5 DEF Writable
<1>7. y \in Names
  BY <1>6 DEF MaybeNamed
<1>8. Token(y) = "local" => Holding(c.locals, y) # {}
  <2>1. CASE y = x
    BY <1>3, <2>1
  <2>2. CASE y # x
    <3>1. Holding(context.locals, y) \subseteq Holding(c.locals, y)
      BY <1>3, <1>4, <1>7, <2>2 DEF SameOn, Holding
    <3>2. QED
      BY <3>1 DEF Token, ExistsAnywhere
  <2>3. QED
    BY <2>1, <2>2
<1>9. Token(y) = "unknown"
  BY <1>6, <1>8 DEF Token
<1>10. QED
  BY <1>2, <1>7, <1>9, UnknownIsIllegal

\* The condition of an elif: its name may have been taken for a local of the
\* body that closes.
LEMMA ChainAccepts ==
  ASSUME IInv, NEW y \in MaybeNamed, NEW spills \in BOOLEAN,
         NEW calls \in BOOLEAN, ChainLine(y, spills, calls)
  PROVE  AcceptsWellScoped'
<1> DEFINE s == Outer(context.locals)
           o == Outer(open)
<1>1. SUFFICES ASSUME status' = "refused", wellScoped', ~last'.spills
               PROVE  /\ last'.means = Global(last'.name) \/ HiddenParameter'
                      /\ last'.name \in DOMAIN open'[Len(open')]
  BY DEF ChainLine, Naming, AcceptsWellScoped
<1>2. /\ NextLine /\ status = "ok" /\ Legal(y, o) /\ Len(context.locals) > 1
      /\ last' = [kind |-> "chain", name |-> y, spills |-> spills,
                  means |-> Means(y, o), reads |-> Nothing]
      /\ open' = open
      /\ ~Writable(y, spills, [WithTemporary(context, spills) EXCEPT !.locals = Outer(@)].locals)
  BY <1>1 DEF ChainLine, NextLine, Naming, Refused
<1>3. ~spills /\ WithTemporary(context, spills) = context
  BY <1>1, <1>2 DEF WithTemporary
<1>4. /\ context \in Contexts /\ context.locals \in Seq(Table) /\ open \in Seq(Meaning)
      /\ Len(context.locals) = Len(open) /\ Len(open) \in Nat /\ Len(open) > 0
      /\ SlotsApart(context.locals, context.size)
      /\ Agrees(Names, context.locals, open, frame)
  BY <1>2 DEF Contexts, IInv, Shape
<1>5. ~Writable(y, FALSE, s)
  <2>1. [context EXCEPT !.locals = Outer(@)].locals = s
    BY <1>4 DEF Contexts
  <2>2. spills = FALSE
    BY <1>3
  <2>3. QED
    BY <1>2, <1>3, <2>1, <2>2
<1>6. /\ y # Nothing /\ Token(y) # "global"
      /\ ~(Token(y) = "local" /\ Holding(s, y) # {})
  BY <1>5 DEF Writable
<1>7. y \in Names
  BY <1>6 DEF MaybeNamed
<1>8. Token(y) = "local" /\ Holding(s, y) = {} /\ Holding(context.locals, y) # {}
  <2>1. Token(y) # "unknown"
    <3>1. context.locals # <<>>
      BY <1>4
    <3>2. QED
      BY <1>2, <1>7, <3>1, UnknownIsIllegal
  <2>2. QED
    BY <1>6, <2>1 DEF Token, ExistsAnywhere
<1>9. /\ s \in Seq(Table) /\ o \in Seq(Meaning) /\ Len(s) = Len(open) - 1 /\ Len(s) = Len(o)
      /\ \A d \in 1 .. Len(open) - 1 : s[d] = context.locals[d]
      /\ Agrees(Names, s, o, frame)
  BY <1>4, Closed
<1> HIDE DEF s, o
<1>10. y \in DOMAIN open[Len(open)]
  <2>1. PICK d \in 1 .. Len(open) : y \in DOMAIN context.locals[d]
    BY <1>4, <1>8 DEF Holding
  <2>2. d = Len(open)
    <3>1. CASE d \in 1 .. Len(open) - 1
      <4>1. d \in Holding(s, y)
        BY <1>9, <2>1, <3>1 DEF Holding
      <4>2. QED
        BY <1>8, <4>1
    <3>2. QED
      BY <1>4, <3>1
  <2>3. Fits(context.locals[d], open[d], y, frame)
    BY <1>4, <1>7 DEF Agrees
  <2>4. QED
    BY <2>1, <2>2, <2>3, Zenon DEF Fits
<1>11. Means(y, o) = Global(y) \/ Hidden(y, Means(y, o))
  <2>1. CASE Holding(o, y) = {}
    <3>1. Means(y, o) # Nothing
      BY <1>2, <1>6 DEF Legal
    <3>2. QED
      BY <1>9, <2>1, <3>1, MeansIs
  <2>2. CASE Holding(o, y) # {}
    <3>1. Agrees({y}, s, o, frame)
      BY <1>7, <1>9 DEF Agrees
    <3>2. QED
      BY <1>8, <1>9, <2>2, <3>1, FoundIsMeant
  <2>3. QED
    BY <2>1, <2>2
<1>12. globals' = globals
  BY <1>2 DEF NextLine
<1>13. QED
  BY <1>2, <1>10, <1>11, <1>12 DEF Hidden, HiddenParameter

LEMMA NextAccepts == IInv /\ AcceptsWellScoped /\ [Next]_vars => AcceptsWellScoped'
<1>1. SUFFICES ASSUME IInv, AcceptsWellScoped, [Next]_vars PROVE AcceptsWellScoped'
  OBVIOUS
<1>2. CASE UNCHANGED vars
  BY <1>1, <1>2 DEF vars, AcceptsWellScoped, HiddenParameter
<1>3. ASSUME NEW n \in 0 .. MaxParams, NEW params \in [1 .. n -> Names],
             FunctionLine(params)
      PROVE  AcceptsWellScoped'
  BY <1>3 DEF FunctionLine, NextLine, AcceptsWellScoped
<1>4. CASE CloseLine
  BY <1>4 DEF CloseLine, NextLine, AcceptsWellScoped
<1>5. QED
  BY <1>1, <1>2, <1>3, <1>4, LocalAccepts, UseAccepts, ChainAccepts DEF Next

-----------------------------------------------------------------------------
(***************************************************************************)
(* The theorems                                                            *)
(***************************************************************************)
LEMMA AlwaysIInv == Spec => []IInv
<1>1. Init => IInv
  BY InitIInv
<1>2. IInv /\ [Next]_vars => IInv'
  BY NextIInv
<1>3. QED
  BY <1>1, <1>2, PTL DEF Spec

LEMMA IInvTyped == IInv => TypeOK
<1>1. SUFFICES ASSUME IInv PROVE TypeOK
  OBVIOUS
<1>2. \A d \in DOMAIN open : DOMAIN open[d] \subseteq Names
  BY <1>1, NoDeclarationOfNothing DEF IInv, Shape
<1>3. context.temps \in 0 .. context.size
  BY <1>1 DEF IInv, Shape, Contexts
<1>4. QED
  BY <1>1, <1>2, <1>3 DEF IInv, Shape, SlotsApart, TypeOK

\* The tables of locals are those of the open bodies, and every local, of
\* whatever body, has a slot of its own, however many bodies a function opens
\* and closes and however many temporaries its lines need.
THEOREM OneSlotEach == Spec => []TypeOK
  BY AlwaysIInv, IInvTyped, PTL

\* What is read under a name is what the declaration it means was last given,
\* in every source: a name looked up first when its line is read, and again when
\* its instructions are written, is found where the source declares it.
THEOREM NamesReadRight == Spec => []ReadsItsDeclaration
<1>1. Init => ReadsItsDeclaration
  BY DEF Init, ReadsItsDeclaration
<1>2. IInv /\ ReadsItsDeclaration /\ [Next]_vars => ReadsItsDeclaration'
  BY NextReads
<1>3. QED
  BY <1>1, <1>2, AlwaysIInv, PTL DEF Spec

\* A source that declares what it uses is refused only for the condition of an
\* elif that needs a temporary local, or names a global (or a parameter that is
\* one) hidden in the body before it.
THEOREM WellScopedCompiles == Spec => []AcceptsWellScoped
<1>1. Init => AcceptsWellScoped
  BY DEF Init, AcceptsWellScoped
<1>2. IInv /\ AcceptsWellScoped /\ [Next]_vars => AcceptsWellScoped'
  BY NextAccepts
<1>3. QED
  BY <1>1, <1>2, AlwaysIInv, PTL DEF Spec

=============================================================================
