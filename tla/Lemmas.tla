------------------------------- MODULE Lemmas -------------------------------
(***************************************************************************)
(* Lemmas that several modules of proofs use: induction over the natural   *)
(* numbers in the form of sets, and recursive functions (the provers       *)
(* cannot be given a predicate, but finite sets are well-founded);         *)
(* sequences, and what a sequence of sequences becomes when it is          *)
(* flattened.                                                              *)
(***************************************************************************)
EXTENDS Integers, Sequences, FiniteSets, FiniteSetsExt, SequencesExt,
        FiniteSetTheorems, WellFoundedInduction, TLAPS

(***************************************************************************)
(* Numbers                                                                 *)
(***************************************************************************)

\* A nonempty set of numbers has a least.
LEMMA NatLeast ==
  ASSUME NEW T, T \subseteq Nat, T # {}
  PROVE  \E x \in T : \A y \in T : x <= y
<1> DEFINE U == {0 .. n : n \in T}
<1>1. U \subseteq FiniteSubsetsOf(Nat)
  <2>1. ASSUME NEW n \in T PROVE 0 .. n \in FiniteSubsetsOf(Nat)
    <3>1. n \in Int /\ 0 \in Int
      OBVIOUS
    <3>2. IsFiniteSet(0 .. n)
      BY <3>1, FS_Interval
    <3>3. 0 .. n \subseteq Nat
      OBVIOUS
    <3>4. QED
      BY <3>2, <3>3 DEF FiniteSubsetsOf
  <2>2. QED
    BY <2>1
<1>2. U # {}
  OBVIOUS
<1>3. IsWellFoundedOn(StrictSubsetOrdering(Nat), FiniteSubsetsOf(Nat))
  BY FS_StrictSubsetOrderingWellFounded
<1>4. PICK u \in U : \A v \in U : ~(<<v, u>> \in StrictSubsetOrdering(Nat))
  <2> HIDE DEF U
  <2>1. QED
    BY <1>1, <1>2, <1>3, WFMin, Zenon
<1>5. PICK x \in T : u = 0 .. x
  OBVIOUS
<1>6. ASSUME NEW y \in T, y < x PROVE FALSE
  <2>1. x \in Nat /\ y \in Nat
    OBVIOUS
  <2>2. /\ 0 .. y \in SUBSET Nat /\ 0 .. x \in SUBSET Nat
        /\ 0 .. y \subseteq 0 .. x /\ x \notin 0 .. y /\ x \in 0 .. x
    BY <1>6, <2>1
  <2>3. <<0 .. y, 0 .. x>> \in StrictSubsetOrdering(Nat)
    <3>1. 0 .. y # 0 .. x
      BY <2>2
    <3>2. QED
      BY <2>2, <3>1, Zenon DEF StrictSubsetOrdering
  <2>4. QED
    BY <1>4, <1>5, <2>3
<1>7. QED
  BY <1>6

\* The least of a set is what Min names.
LEMMA MinIs ==
  ASSUME NEW S \in SUBSET Nat, NEW m \in S, \A y \in S : m <= y
  PROVE  Min(S) = m
<1>1. Min(S) \in S /\ \A y \in S : Min(S) <= y
  BY DEF Min
<1>2. Min(S) <= m /\ m <= Min(S) /\ m \in Nat /\ Min(S) \in Nat
  BY <1>1
<1>3. QED
  BY <1>2

LEMMA MinExists ==
  ASSUME NEW S \in SUBSET Nat, S # {}
  PROVE  Min(S) \in S /\ \A y \in S : Min(S) <= y
<1>1. PICK m \in S : \A y \in S : m <= y
  BY NatLeast
<1>2. QED
  BY <1>1, MinIs

\* A set that has 0, and with each number the next, has all.
LEMMA SetInduction ==
  ASSUME NEW S, 0 \in S, \A n \in S : n \in Nat => n + 1 \in S
  PROVE  Nat \subseteq S
<1>1. SUFFICES ASSUME Nat \ S # {} PROVE FALSE
  OBVIOUS
<1>2. PICK x \in Nat \ S : \A y \in Nat \ S : x <= y
  BY <1>1, NatLeast
<1>3. x - 1 \in Nat
  BY <1>2
<1>4. x - 1 \in S
  BY <1>2, <1>3
<1>5. x - 1 + 1 \in S
  BY <1>3, <1>4
<1>6. QED
  BY <1>2, <1>5

\* f is base at 0, and each value is made by step from the one before.
IsRecursive(f, n, base, step) ==
  f = [i \in 0 .. n |-> IF i = 0 THEN base ELSE step[<<i, f[i - 1]>>]]

\* There is such a function on the numbers up to n.
LEMMA RecursiveFunction ==
  ASSUME NEW B, NEW base \in B, NEW step \in [Nat \X B -> B], NEW n \in Nat
  PROVE  \E f \in [0 .. n -> B] : IsRecursive(f, n, base, step)
<1> DEFINE Def(m, f) == IsRecursive(f, m, base, step)
           S == {m \in Nat : \E f \in [0 .. m -> B] : Def(m, f)}
<1>1. 0 \in S
  <2> DEFINE f == [i \in 0 .. 0 |-> base]
  <2>1. f \in [0 .. 0 -> B] /\ Def(0, f)
    BY DEF IsRecursive
  <2>2. QED
    BY <2>1
<1>2. ASSUME NEW m \in S, m \in Nat PROVE m + 1 \in S
  <2>1. PICK f \in [0 .. m -> B] : Def(m, f)
    OBVIOUS
  <2> DEFINE v == step[<<m + 1, f[m]>>]
             g == [i \in 0 .. m + 1 |-> IF i = m + 1 THEN v ELSE f[i]]
  <2>2. v \in B
    <3>1. <<m + 1, f[m]>> \in Nat \X B
      BY <1>2
    <3>2. QED
      BY <3>1
  <2>3. g \in [0 .. m + 1 -> B]
    <3> HIDE DEF v
    <3>1. ASSUME NEW i \in 0 .. m + 1, i # m + 1 PROVE f[i] \in B
      BY <1>2, <3>1
    <3>2. QED
      BY <2>2, <3>1
  <2>4. ASSUME NEW i \in 0 .. m + 1
        PROVE  g[i] = IF i = 0 THEN base ELSE step[<<i, g[i - 1]>>]
    <3>1. CASE i = m + 1
      <4>1. i # 0 /\ i - 1 = m /\ m \in 0 .. m + 1 /\ m # m + 1
        BY <1>2, <3>1
      <4>2. g[i - 1] = f[m]
        BY <4>1
      <4>3. QED
        BY <3>1, <4>1, <4>2
    <3>2. CASE i # m + 1
      <4>1. i \in 0 .. m /\ g[i] = f[i]
        BY <1>2, <3>2
      <4>2. i # 0 => i - 1 \in 0 .. m + 1 /\ i - 1 # m + 1
        BY <4>1
      <4>3. i # 0 => g[i - 1] = f[i - 1]
        BY <4>2
      <4>4. QED
        BY <2>1, <4>1, <4>3 DEF IsRecursive
    <3>3. QED
      BY <3>1, <3>2
  <2>5. Def(m + 1, g)
    <3> HIDE DEF v
    <3>1. g = [i \in 0 .. m + 1 |-> g[i]]
      OBVIOUS
    <3> HIDE DEF g
    <3>2. QED
      BY <2>4, <3>1 DEF IsRecursive
  <2>6. QED
    <3> HIDE DEF g, Def
    <3>1. m + 1 \in Nat
      BY <1>2
    <3>2. QED
      BY <2>3, <2>5, <3>1
<1> HIDE DEF S
<1>3. Nat \subseteq S
  BY <1>1, <1>2, SetInduction
<1>4. QED
  BY <1>3 DEF S

\* The same on all numbers.
IsRecursiveOnNat(f, base, step) ==
  f[0] = base /\ \A i \in Nat : f[i + 1] = step[<<i + 1, f[i]>>]

\* The functions on the numbers up to some n agree, and so there is one on all.
LEMMA RecursiveOnNat ==
  ASSUME NEW B, NEW base \in B, NEW step \in [Nat \X B -> B]
  PROVE  \E f \in [Nat -> B] : IsRecursiveOnNat(f, base, step)
<1> DEFINE Part(n) == CHOOSE f \in [0 .. n -> B] : IsRecursive(f, n, base, step)
           g == [n \in Nat |-> Part(n)[n]]
           S == {i \in Nat : \A m, n \in Nat : i <= m /\ i <= n => Part(m)[i] = Part(n)[i]}
<1>1. ASSUME NEW n \in Nat
      PROVE  Part(n) \in [0 .. n -> B] /\ IsRecursive(Part(n), n, base, step)
  BY RecursiveFunction
<1> HIDE DEF Part
<1>2. ASSUME NEW n \in Nat
      PROVE  /\ Part(n)[0] = base
             /\ \A i \in Nat : i + 1 <= n => Part(n)[i + 1] = step[<<i + 1, Part(n)[i]>>]
  <2>1. PICK f : f = Part(n)
    OBVIOUS
  <2>2. f = [i \in 0 .. n |-> IF i = 0 THEN base ELSE step[<<i, f[i - 1]>>]]
    BY <1>1, <2>1 DEF IsRecursive
  <2>3. 0 \in 0 .. n /\ \A i \in Nat : i + 1 <= n => i + 1 \in 0 .. n /\ i + 1 # 0 /\ i + 1 - 1 = i
    OBVIOUS
  <2>4. f[0] = base
    BY <2>2, <2>3
  <2>5. ASSUME NEW i \in Nat, i + 1 <= n PROVE f[i + 1] = step[<<i + 1, f[i]>>]
    <3>1. f[i + 1] = step[<<i + 1, f[i + 1 - 1]>>]
      BY <2>2, <2>3, <2>5
    <3>2. QED
      BY <2>3, <2>5, <3>1
  <2>6. QED
    BY <2>1, <2>4, <2>5
<1>3. 0 \in S
  BY <1>2
<1>4. ASSUME NEW i \in S, i \in Nat PROVE i + 1 \in S
  <2>1. ASSUME NEW m \in Nat, NEW n \in Nat, i + 1 <= m, i + 1 <= n
        PROVE  Part(m)[i + 1] = Part(n)[i + 1]
    <3>1. Part(m)[i] = Part(n)[i]
      BY <1>4, <2>1
    <3>2. Part(m)[i + 1] = step[<<i + 1, Part(m)[i]>>]
      BY <1>2, <1>4, <2>1
    <3>3. Part(n)[i + 1] = step[<<i + 1, Part(n)[i]>>]
      BY <1>2, <1>4, <2>1
    <3>4. QED
      BY <3>1, <3>2, <3>3
  <2>2. QED
    BY <1>4, <2>1
<1>5. Nat \subseteq S
  <2> HIDE DEF S
  <2>1. QED
    BY <1>3, <1>4, SetInduction
<1>6. g \in [Nat -> B]
  <2>1. ASSUME NEW n \in Nat PROVE Part(n)[n] \in B
    BY <1>1
  <2>2. QED
    BY <2>1
<1>7. g[0] = base
  BY <1>2
<1>8. ASSUME NEW i \in Nat PROVE g[i + 1] = step[<<i + 1, g[i]>>]
  <2>1. Part(i + 1)[i + 1] = step[<<i + 1, Part(i + 1)[i]>>]
    BY <1>2
  <2>2. Part(i + 1)[i] = Part(i)[i]
    BY <1>5
  <2>3. QED
    BY <2>1, <2>2
<1>9. QED
  BY <1>6, <1>7, <1>8 DEF IsRecursiveOnNat

(***************************************************************************)
(* Sequences                                                               *)
(***************************************************************************)

\* A sequence, of whatever.
IsSeq(s) == s \in Seq({s[i] : i \in DOMAIN s})

LEMMA SeqParts ==
  ASSUME NEW T, NEW s \in Seq(T)
  PROVE  /\ Len(s) \in Nat /\ DOMAIN s = 1 .. Len(s)
         /\ \A i \in 1 .. Len(s) : s[i] \in T
         /\ IsSeq(s)
<1>1. Len(s) \in Nat /\ DOMAIN s = 1 .. Len(s) /\ \A i \in 1 .. Len(s) : s[i] \in T
  OBVIOUS
<1>2. s \in Seq({s[i] : i \in DOMAIN s})
  <2> DEFINE U == {s[i] : i \in DOMAIN s}
  <2>1. s \in [1 .. Len(s) -> U]
    BY <1>1
  <2>2. QED
    BY <1>1, <2>1
<1>3. IsSeq(s)
  BY <1>2 DEF IsSeq
<1>4. QED
  BY <1>1, <1>3

LEMMA IsSeqMeans ==
  ASSUME NEW s, IsSeq(s)
  PROVE  Len(s) \in Nat /\ DOMAIN s = 1 .. Len(s) /\ s = [i \in 1 .. Len(s) |-> s[i]]
<1>1. QED
  BY DEF IsSeq

LEMMA AppendIs ==
  ASSUME NEW s, IsSeq(s), NEW e
  PROVE  /\ IsSeq(Append(s, e)) /\ Len(Append(s, e)) = Len(s) + 1
         /\ \A i \in 1 .. Len(s) : Append(s, e)[i] = s[i]
         /\ Append(s, e)[Len(s) + 1] = e
<1> DEFINE T == {s[i] : i \in DOMAIN s} \cup {e}
<1>1. s \in Seq({s[i] : i \in DOMAIN s})
  BY DEF IsSeq
<1>2. s \in Seq(T) /\ e \in T
  <2>1. ASSUME NEW A, NEW s0 \in Seq(A), NEW e0 PROVE s0 \in Seq(A \cup {e0})
    OBVIOUS
  <2>2. QED
    BY <1>1, <2>1
<1> HIDE DEF T
<1>3. Append(s, e) \in Seq(T)
  BY <1>2
<1>4. IsSeq(Append(s, e))
  BY <1>3, SeqParts, Zenon
<1>5. QED
  BY <1>2, <1>4

\* Two sequences are equal when they agree.
LEMMA SameSeq ==
  ASSUME NEW s, NEW t, IsSeq(s), IsSeq(t), Len(s) = Len(t), \A i \in 1 .. Len(s) : s[i] = t[i]
  PROVE  s = t
<1>1. s = [i \in 1 .. Len(s) |-> s[i]] /\ t = [i \in 1 .. Len(t) |-> t[i]]
  BY IsSeqMeans
<1>2. QED
  BY <1>1

\* A part of a sequence is a sequence.
LEMMA PartOf ==
  ASSUME NEW T, NEW s \in Seq(T), NEW i \in 1 .. Len(s) + 1, NEW j \in i - 1 .. Len(s)
  PROVE  /\ SubSeq(s, i, j) \in Seq(T) /\ Len(SubSeq(s, i, j)) = j - i + 1
         /\ \A m \in 1 .. j - i + 1 : SubSeq(s, i, j)[m] = s[i + m - 1]
<1>1. QED
  OBVIOUS

(***************************************************************************)
(* Flattening                                                              *)
(***************************************************************************)

\* b[i] is the position of the last character of sequence i in the text made
\* of n sequences.
Concatenates(text, f, n, b) ==
  /\ b \in [0 .. n -> Nat] /\ b[0] = 0 /\ b[n] = Len(text)
  /\ \A i \in 1 .. n : b[i] = b[i - 1] + Len(f[i])
  /\ \A i \in 1 .. n : \A j \in 1 .. Len(f[i]) : text[b[i - 1] + j] = f[i][j]

\* One sequence more.
LEMMA OneMore ==
  ASSUME NEW T, NEW n \in Nat, NEW f, \A i \in 1 .. n + 1 : f[i] \in Seq(T),
         NEW text \in Seq(T), NEW b, Concatenates(text, f, n, b)
  PROVE  \E c : Concatenates(text \o f[n + 1], f, n + 1, c)
<1> DEFINE more == f[n + 1]
           all  == text \o more
           c    == [i \in 0 .. n + 1 |-> IF i = n + 1 THEN Len(all) ELSE b[i]]
<1>1. more \in Seq(T) /\ Len(text) \in Nat /\ Len(more) \in Nat
  <2>1. n + 1 \in 1 .. n + 1
    OBVIOUS
  <2>2. more \in Seq(T)
    BY <2>1
  <2> HIDE DEF more
  <2>3. QED
    BY <2>2
<1>2. /\ Len(all) = Len(text) + Len(more)
      /\ \A j \in 1 .. Len(text) : all[j] = text[j]
      /\ \A j \in 1 .. Len(more) : all[Len(text) + j] = more[j]
  <2>1. ASSUME NEW x \in Seq(T), NEW y \in Seq(T)
        PROVE  /\ Len(x \o y) = Len(x) + Len(y)
               /\ \A j \in 1 .. Len(x) : (x \o y)[j] = x[j]
               /\ \A j \in 1 .. Len(y) : (x \o y)[Len(x) + j] = y[j]
    OBVIOUS
  <2>2. QED
    BY <1>1, <2>1
<1> HIDE DEF more, all
<1>3. /\ b \in [0 .. n -> Nat] /\ b[0] = 0 /\ b[n] = Len(text)
      /\ \A i \in 1 .. n : b[i] = b[i - 1] + Len(f[i])
      /\ \A i \in 1 .. n : \A j \in 1 .. Len(f[i]) : text[b[i - 1] + j] = f[i][j]
  BY DEF Concatenates
<1>4. \A i \in 0 .. n : c[i] = b[i]
  OBVIOUS
<1>5. c[n + 1] = b[n] + Len(more)
  BY <1>2, <1>3
<1>6. c \in [0 .. n + 1 -> Nat]
  <2>1. \A i \in 0 .. n + 1 : i # n + 1 => i \in 0 .. n
    OBVIOUS
  <2>2. QED
    BY <1>1, <1>2, <1>3, <2>1
<1>7. c[0] = 0 /\ c[n + 1] = Len(all)
  BY <1>3, <1>4
<1> HIDE DEF c
<1>8. ASSUME NEW i \in 1 .. n + 1
      PROVE  /\ c[i] = c[i - 1] + Len(f[i])
             /\ \A j \in 1 .. Len(f[i]) : all[c[i - 1] + j] = f[i][j]
  <2>1. CASE i = n + 1
    <3>1. i - 1 = n /\ n \in 0 .. n
      BY <2>1
    <3>2. QED
      BY <1>2, <1>3, <1>4, <1>5, <2>1, <3>1 DEF more
  <2>2. CASE i # n + 1
    <3>1. i \in 1 .. n /\ i \in 0 .. n /\ i - 1 \in 0 .. n
      BY <2>2
    <3>2. c[i] = c[i - 1] + Len(f[i])
      BY <1>3, <1>4, <3>1
    <3>3. b[i] <= Len(text)
      <4> DEFINE S == {m \in Nat : m <= n => b[n - m] <= Len(text)}
      <4>1. 0 \in S
        BY <1>1, <1>3
      <4>2. ASSUME NEW m \in S, m \in Nat PROVE m + 1 \in S
        <5>1. SUFFICES ASSUME m + 1 <= n PROVE b[n - (m + 1)] <= Len(text)
          OBVIOUS
        <5>2. n - m \in 1 .. n /\ n - m - 1 = n - (m + 1) /\ n - m \in 0 .. n /\ n - (m + 1) \in 0 .. n
          BY <4>2, <5>1
        <5>3. b[n - m] = b[n - (m + 1)] + Len(f[n - m]) /\ b[n - m] <= Len(text)
          BY <1>3, <4>2, <5>1, <5>2
        <5>4. f[n - m] \in Seq(T)
          BY <5>2
        <5>5. Len(f[n - m]) \in Nat
          BY <5>4
        <5>6. b[n - (m + 1)] \in Nat /\ b[n - m] \in Nat
          BY <1>3, <5>2
        <5>7. QED
          BY <1>1, <5>3, <5>5, <5>6
      <4> HIDE DEF S
      <4>3. Nat \subseteq S
        BY <4>1, <4>2, SetInduction
      <4>4. n - i \in Nat /\ n - i <= n /\ n - (n - i) = i
        BY <3>1
      <4>5. QED
        BY <4>3, <4>4 DEF S
    <3>4. ASSUME NEW j \in 1 .. Len(f[i]) PROVE all[c[i - 1] + j] = f[i][j]
      <4>1. f[i] \in Seq(T) /\ Len(f[i]) \in Nat
        <5>1. f[i] \in Seq(T)
          OBVIOUS
        <5>2. QED
          BY <5>1
      <4>2. b[i - 1] \in Nat /\ b[i] = b[i - 1] + Len(f[i])
        BY <1>3, <3>1
      <4>3. b[i - 1] + j \in 1 .. Len(text)
        BY <1>1, <3>3, <4>1, <4>2
      <4>4. text[b[i - 1] + j] = f[i][j]
        BY <1>3, <3>1
      <4>5. QED
        BY <1>2, <1>4, <3>1, <4>3, <4>4
    <3>5. QED
      BY <3>2, <3>4
  <2>3. QED
    BY <2>1, <2>2
<1>9. Concatenates(all, f, n + 1, c)
  BY <1>6, <1>7, <1>8 DEF Concatenates
<1>10. QED
  BY <1>9 DEF all, more

IsFlattening(g, f, n) == g = [i \in 1 .. n |-> IF i = 1 THEN f[i] ELSE g[i - 1] \o f[i]]

LEMMA FlatteningExists ==
  ASSUME NEW T, NEW n \in Nat \ {0}, NEW f \in [1 .. n -> Seq(T)]
  PROVE  \E g : IsFlattening(g, f, n)
<1> DEFINE B    == Seq(T)
           step == [p \in Nat \X B |-> IF p[1] + 1 \in 1 .. n THEN p[2] \o f[p[1] + 1] ELSE p[2]]
<1>1. f[1] \in B /\ n - 1 \in Nat
  OBVIOUS
<1>2. step \in [Nat \X B -> B]
  <2>1. ASSUME NEW p \in Nat \X B, p[1] + 1 \in 1 .. n PROVE p[2] \o f[p[1] + 1] \in B
    <3>1. p[2] \in Seq(T) /\ f[p[1] + 1] \in Seq(T)
      BY <2>1
    <3>2. QED
      BY <3>1
  <2>2. QED
    BY <2>1
<1>3. ASSUME NEW i \in Nat, i + 1 \in 1 .. n, NEW x \in B
      PROVE  step[<<i, x>>] = x \o f[i + 1]
  BY <1>3
<1> HIDE DEF step
<1>4. PICK h \in [0 .. n - 1 -> B] : IsRecursive(h, n - 1, f[1], step)
  <2> HIDE DEF B
  <2>1. QED
    BY <1>1, <1>2, RecursiveFunction
<1> DEFINE g == [i \in 1 .. n |-> h[i - 1]]
<1>5. ASSUME NEW i \in 1 .. n
      PROVE  g[i] = IF i = 1 THEN f[i] ELSE g[i - 1] \o f[i]
  <2>1. i - 1 \in 0 .. n - 1
    OBVIOUS
  <2>2. h[i - 1] = IF i - 1 = 0 THEN f[1] ELSE step[<<i - 1, h[i - 1 - 1]>>]
    <3> HIDE DEF g
    <3>1. QED
      BY <1>4, <2>1 DEF IsRecursive
  <2>3. CASE i = 1
    BY <2>2, <2>3
  <2>4. CASE i # 1
    <3>1. /\ i - 1 \in Nat /\ i - 1 + 1 = i /\ i - 1 + 1 \in 1 .. n /\ i - 1 - 1 \in 0 .. n - 1
          /\ i - 1 \in 1 .. n /\ i - 1 # 0
      BY <2>4
    <3>2. h[i - 1 - 1] \in B
      BY <1>4, <3>1
    <3>3. h[i - 1] = step[<<i - 1, h[i - 1 - 1]>>]
      BY <2>2, <3>1
    <3>4. step[<<i - 1, h[i - 1 - 1]>>] = h[i - 1 - 1] \o f[i - 1 + 1]
      <4> HIDE DEF B
      <4>1. QED
        BY <1>3, <3>1, <3>2
    <3>5. g[i] = h[i - 1] /\ g[i - 1] = h[i - 1 - 1]
      BY <3>1
    <3>6. QED
      BY <2>4, <3>1, <3>3, <3>4, <3>5
  <2>5. QED
    BY <2>3, <2>4
<1>6. g = [i \in 1 .. n |-> g[i]]
  OBVIOUS
<1> HIDE DEF g
<1>7. IsFlattening(g, f, n)
  BY <1>5, <1>6 DEF IsFlattening
<1>8. QED
  BY <1>7

\* A flattened sequence of sequences is laid out one after another.
LEMMA Flattens ==
  ASSUME NEW T, NEW n \in Nat, NEW f \in [1 .. n -> Seq(T)]
  PROVE  FlattenSeq(f) \in Seq(T) /\ \E b : Concatenates(FlattenSeq(f), f, n, b)
<1>1. Len(f) = n
  OBVIOUS
<1>2. CASE n = 0
  <2> DEFINE b == [i \in 0 .. 0 |-> 0]
  <2>1. f = <<>>
    BY <1>2
  <2>2. FlattenSeq(f) = <<>>
    BY <1>1, <1>2, <2>1 DEF FlattenSeq
  <2>3. Concatenates(<<>>, f, 0, b)
    BY DEF Concatenates
  <2>4. QED
    BY <1>2, <2>2, <2>3
<1>3. CASE n # 0
  <2> DEFINE g == CHOOSE g : IsFlattening(g, f, n)
             S == {m \in Nat : m + 1 \in 1 .. n =>
                     g[m + 1] \in Seq(T) /\ \E b : Concatenates(g[m + 1], f, m + 1, b)}
  <2>1. FlattenSeq(f) = g[n]
    BY <1>1, <1>3 DEF FlattenSeq, IsFlattening
  <2>2. IsFlattening(g, f, n)
    BY <1>3, FlatteningExists
  <2> HIDE DEF g
  <2>3. ASSUME NEW i \in 1 .. n PROVE g[i] = IF i = 1 THEN f[i] ELSE g[i - 1] \o f[i]
    BY <2>2 DEF IsFlattening
  <2>4. 0 \in S
    <3>1. 1 \in 1 .. n /\ g[1] = f[1] /\ f[1] \in Seq(T)
      BY <1>3, <2>3
    <3>2. Len(f[1]) \in Nat
      BY <3>1
    <3> DEFINE b == [i \in 0 .. 1 |-> IF i = 0 THEN 0 ELSE Len(f[1])]
    <3>3. b \in [0 .. 1 -> Nat] /\ b[0] = 0 /\ b[1] = Len(f[1])
      BY <3>2
    <3> HIDE DEF b
    <3>4. \A i \in 1 .. 1 : i = 1 /\ i - 1 = 0
      OBVIOUS
    <3>5. \A i \in 1 .. 1 : b[i] = b[i - 1] + Len(f[i])
      BY <3>2, <3>3, <3>4
    <3>6. \A i \in 1 .. 1 : \A j \in 1 .. Len(f[i]) : g[1][b[i - 1] + j] = f[i][j]
      <4>1. \A j \in 1 .. Len(f[1]) : b[0] + j = j
        BY <3>2, <3>3
      <4>2. QED
        BY <3>1, <3>4, <4>1
    <3>7. Concatenates(g[1], f, 1, b)
      BY <3>1, <3>3, <3>5, <3>6 DEF Concatenates
    <3>8. 0 + 1 = 1
      OBVIOUS
    <3>9. QED
      BY <3>1, <3>7, <3>8
  <2>5. ASSUME NEW m \in S, m \in Nat PROVE m + 1 \in S
    <3>1. SUFFICES ASSUME m + 1 + 1 \in 1 .. n
                   PROVE  /\ g[m + 1 + 1] \in Seq(T)
                          /\ \E b : Concatenates(g[m + 1 + 1], f, m + 1 + 1, b)
      BY <2>5
    <3>2. m + 1 \in 1 .. n /\ m + 1 + 1 # 1 /\ m + 1 + 1 - 1 = m + 1 /\ m + 1 \in Nat
      BY <2>5, <3>1
    <3>3. g[m + 1] \in Seq(T) /\ \E b : Concatenates(g[m + 1], f, m + 1, b)
      BY <2>5, <3>2
    <3>4. g[m + 1 + 1] = g[m + 1] \o f[m + 1 + 1]
      <4>1. PICK i \in 1 .. n : i = m + 1 + 1
        BY <3>1
      <4>2. g[i] = IF i = 1 THEN f[i] ELSE g[i - 1] \o f[i]
        BY <2>3
      <4>3. i # 1 /\ i - 1 = m + 1
        BY <3>2, <4>1
      <4>4. g[i] = g[i - 1] \o f[i]
        BY <4>2, <4>3
      <4>5. QED
        BY <4>1, <4>3, <4>4, Zenon
    <3>5. f[m + 1 + 1] \in Seq(T) /\ \A i \in 1 .. m + 1 + 1 : f[i] \in Seq(T)
      BY <3>1
    <3>6. g[m + 1 + 1] \in Seq(T)
      BY <3>3, <3>4, <3>5
    <3> HIDE DEF S
    <3>7. \E c : Concatenates(g[m + 1] \o f[m + 1 + 1], f, m + 1 + 1, c)
      BY <3>2, <3>3, <3>5, OneMore
    <3>8. QED
      BY <3>4, <3>6, <3>7
  <2> HIDE DEF S
  <2>6. Nat \subseteq S
    BY <2>4, <2>5, SetInduction
  <2>7. n - 1 \in Nat /\ n - 1 + 1 = n /\ n \in 1 .. n
    BY <1>3
  <2>8. g[n] \in Seq(T) /\ \E b : Concatenates(g[n], f, n, b)
    BY <2>6, <2>7 DEF S
  <2>9. QED
    BY <2>1, <2>8
<1>4. QED
  BY <1>2, <1>3

=============================================================================
