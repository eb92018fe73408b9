--------------------------- MODULE HashTableProofs ---------------------------
(***************************************************************************)
(* Proofs about HashTable, for every set of keys and values, every hash    *)
(* and every length of key; and, from "The table with its key storage" on, *)
(* about HashTable and KeyStore together.                                  *)
(***************************************************************************)
EXTENDS HashTable, Lemmas, FiniteSetTheorems, TLAPS

(***************************************************************************)
(* Numbers: an odd step through a table visits every slot                  *)
(***************************************************************************)
\* What n divides when multiplied by an odd number, n divides: so of powers of two.
OddsCancel(n) ==
  \A o \in Nat, d \in Int, q \in Int :
    o % 2 = 1 /\ o * d = n * q => \E e \in Int : d = n * e

LEMMA Halves ==
  ASSUME NEW x \in Int
  PROVE  \E h \in Int : x = 2 * h \/ x = 2 * h + 1
<1>1. x \div 2 \in Int /\ (x = 2 * (x \div 2) \/ x = 2 * (x \div 2) + 1)
  OBVIOUS
<1>2. QED
  BY <1>1

LEMMA OddIs ==
  ASSUME NEW o \in Nat, o % 2 = 1
  PROVE  \E h \in Nat : o = 2 * h + 1
<1>1. o \div 2 \in Nat /\ o = 2 * (o \div 2) + 1
  OBVIOUS
<1>2. QED
  BY <1>1

LEMMA OddsCancelOne == OddsCancel(1)
<1>1. ASSUME NEW d \in Int PROVE \E e \in Int : d = 1 * e
  BY d = 1 * d
<1>2. QED
  BY <1>1 DEF OddsCancel

LEMMA OddsCancelTwice ==
  ASSUME NEW n \in Nat \ {0}, OddsCancel(n)
  PROVE  OddsCancel(2 * n)
<1>1. SUFFICES ASSUME NEW o \in Nat, NEW d \in Int, NEW q \in Int, o % 2 = 1, o * d = (2 * n) * q
               PROVE  \E e \in Int : d = (2 * n) * e
  BY DEF OddsCancel
<1>2. o * d = n * (2 * q) /\ 2 * q \in Int
  BY <1>1
<1>3. PICK e \in Int : d = n * e
  BY <1>1, <1>2 DEF OddsCancel
<1>4. PICK h \in Nat : o = 2 * h + 1
  BY <1>1, OddIs
<1>5. PICK f \in Int : e = 2 * f \/ e = 2 * f + 1
  BY Halves
<1>6. CASE e = 2 * f
  <2>1. d = (2 * n) * f
    BY <1>3, <1>6
  <2>2. QED
    BY <2>1
<1>7. CASE e = 2 * f + 1
  <2>1. n * (o * e) = n * (2 * q)
    <3>1. o * d = n * (o * e)
      BY <1>3
    <3>2. QED
      BY <1>2, <3>1
  <2>2. o * e = 2 * q
    <3>1. o * e \in Int /\ 2 * q \in Int
      OBVIOUS
    <3>2. ASSUME NEW x \in Int, NEW y \in Int, n * x = n * y PROVE x = y
      <4>1. n * (x - y) = 0
        BY <3>2
      <4>2. QED
        BY <4>1
    <3>3. QED
      BY <2>1, <3>1, <3>2
  <2>3. o * e = 2 * (h * e + f) + 1
    BY <1>4, <1>7
  <2>4. h * e + f \in Int
    OBVIOUS
  <2>5. ASSUME NEW x \in Int, NEW y \in Int, 2 * x + 1 = 2 * y PROVE FALSE
    BY <2>5
  <2>6. QED
    BY <2>2, <2>3, <2>4, <2>5
<1>8. QED
  BY <1>5, <1>6, <1>7

LEMMA OddsCancelInitially == OddsCancel(InitialCap)
<1>1. OddsCancel(2) /\ OddsCancel(4) /\ OddsCancel(8) /\ OddsCancel(16)
  <2>1. OddsCancel(2 * 1)
    BY OddsCancelOne, OddsCancelTwice
  <2>2. OddsCancel(2 * 2)
    BY <2>1, OddsCancelTwice
  <2>3. OddsCancel(2 * 4)
    BY <2>2, OddsCancelTwice
  <2>4. OddsCancel(2 * 8)
    BY <2>3, OddsCancelTwice
  <2>5. QED
    BY <2>1, <2>2, <2>3, <2>4
<1>2. OddsCancel(32) /\ OddsCancel(64) /\ OddsCancel(128) /\ OddsCancel(256)
  <2>1. OddsCancel(2 * 16)
    BY <1>1, OddsCancelTwice
  <2>2. OddsCancel(2 * 32)
    BY <2>1, OddsCancelTwice
  <2>3. OddsCancel(2 * 64)
    BY <2>2, OddsCancelTwice
  <2>4. OddsCancel(2 * 128)
    BY <2>3, OddsCancelTwice
  <2>5. QED
    BY <2>1, <2>2, <2>3, <2>4
<1>3. QED
  BY <1>1, <1>2, InitialCapAssumption

LEMMA DivMod ==
  ASSUME NEW n \in Nat \ {0}, NEW a \in Nat
  PROVE  /\ a \div n \in Nat /\ a % n \in 0 .. n - 1
         /\ a = n * (a \div n) + (a % n)
  OBVIOUS

LEMMA Small ==
  ASSUME NEW n \in Nat \ {0}, NEW e \in Int, n * e < n, -n < n * e
  PROVE  e = 0
<1>1. ASSUME e >= 1 PROVE n * e >= n
  BY <1>1
<1>2. ASSUME e <= -1 PROVE n * e <= -n
  BY <1>2
<1>3. QED
  BY <1>1, <1>2

\* Different guesses of one search are different slots.
LEMMA StrideInjective ==
  ASSUME NEW n \in Nat \ {0}, OddsCancel(n), NEW a \in Nat, NEW o \in Nat, o % 2 = 1,
         NEW i \in 0 .. n - 1, NEW j \in 0 .. n - 1, (a + i * o) % n = (a + j * o) % n
  PROVE  i = j
<1> DEFINE x == a + i * o
           y == a + j * o
           q == x \div n
           p == y \div n
           r == x % n
<1>1. x \in Nat /\ y \in Nat
  OBVIOUS
<1>2. /\ q \in Nat /\ x = n * q + r /\ r \in 0 .. n - 1
      /\ p \in Nat /\ y = n * p + r
  BY <1>1, DivMod
<1>3. o * (i - j) = x - y
  OBVIOUS
<1> HIDE DEF x, y, q, p, r
<1>4. o * (i - j) = n * (q - p) /\ i - j \in Int /\ q - p \in Int
  BY <1>1, <1>2, <1>3
<1>5. PICK e \in Int : i - j = n * e
  BY <1>4 DEF OddsCancel
<1>6. n * e < n /\ -n < n * e
  BY <1>5
<1>7. e = 0
  BY <1>6, Small
<1>8. QED
  BY <1>5, <1>7

\* Steps of o from a through n slots lead to p.
LeadTo(a, o, n, p) == \E i \in 0 .. n - 1 : (a + i * o) % n = p

\* And so every slot is one of them.
LEMMA StrideOnto ==
  ASSUME NEW n \in Nat \ {0}, OddsCancel(n), NEW a \in Nat, NEW o \in Nat, o % 2 = 1,
         NEW p \in 0 .. n - 1
  PROVE  LeadTo(a, o, n, p)
<1> DEFINE S == 0 .. n - 1
           f == [i \in S |-> (a + i * o) % n]
<1>1. f \in [S -> S]
  <2>1. ASSUME NEW i \in S PROVE (a + i * o) % n \in S
    <3>1. a + i * o \in Nat
      OBVIOUS
    <3>2. QED
      BY <3>1, DivMod
  <2>2. QED
    BY <2>1
<1>2. \A i, j \in S : f[i] = f[j] => i = j
  BY StrideInjective
<1>3. f \in Injection(S, S)
  <2> HIDE DEF f, S
  <2>1. QED
    BY <1>1, <1>2 DEF Injection, IsInjective
<1>4. IsFiniteSet(S)
  BY FS_Interval
<1>5. f \in Surjection(S, S)
  BY <1>3, <1>4, FS_Injection
<1>6. \E i \in S : f[i] = p
  <2>1. p \in S
    OBVIOUS
  <2> HIDE DEF f, S
  <2>2. QED
    BY <1>5, <2>1 DEF Surjection
<1>7. QED
  BY <1>6 DEF LeadTo

LEMMA OddIsOdd ==
  ASSUME NEW n \in Nat
  PROVE  Odd(n) \in Nat /\ Odd(n) % 2 = 1
  BY DEF Odd

\* The walk w over n slots meets every slot once.
MeetsAll(w, n) ==
  /\ DOMAIN w = 1 .. n /\ Len(w) = n
  /\ \A i \in 1 .. n : w[i] \in 0 .. n - 1
  /\ \A i, j \in 1 .. n : w[i] = w[j] => i = j
  /\ \A p \in 0 .. n - 1 : \E i \in 1 .. n : w[i] = p

LEMMA WalkIs ==
  ASSUME NEW n \in Nat \ {0}, OddsCancel(n), NEW a \in Nat, NEW o \in Nat, o % 2 = 1
  PROVE  MeetsAll(Walk(a, o, n), n)
<1> DEFINE w == Walk(a, o, n)
<1>1. DOMAIN w = 1 .. n /\ \A i \in 1 .. n : w[i] = (a + i * o) % n
  BY DEF Walk
<1>2. Len(w) = n
  <2>1. w \in Seq(Nat)
    <3>1. \A i \in 1 .. n : a + i * o \in Nat /\ (a + i * o) % n \in Nat
      OBVIOUS
    <3>2. QED
      BY <3>1 DEF Walk
  <2> HIDE DEF w
  <2>2. QED
    BY <1>1, <2>1
<1> HIDE DEF w
<1>3. ASSUME NEW i \in 1 .. n
      PROVE  w[i] \in 0 .. n - 1 /\ i - 1 \in 0 .. n - 1 /\ w[i] = (a + o + (i - 1) * o) % n
  <2>1. a + i * o \in Nat /\ a + i * o = a + o + (i - 1) * o
    OBVIOUS
  <2>2. (a + i * o) % n \in 0 .. n - 1
    BY <2>1, DivMod
  <2>3. i - 1 \in 0 .. n - 1
    OBVIOUS
  <2>4. QED
    BY <1>1, <2>1, <2>2, <2>3
<1>4. ASSUME NEW i \in 1 .. n, NEW j \in 1 .. n, w[i] = w[j] PROVE i = j
  <2>1. a + o \in Nat
    OBVIOUS
  <2>2. i - 1 = j - 1
    BY <1>3, <1>4, <2>1, StrideInjective
  <2>3. QED
    BY <2>2
<1>5. ASSUME NEW p \in 0 .. n - 1 PROVE \E i \in 1 .. n : w[i] = p
  <2>1. a + o \in Nat
    OBVIOUS
  <2>2. PICK j \in 0 .. n - 1 : (a + o + j * o) % n = p
    BY <2>1, StrideOnto DEF LeadTo
  <2>3. j + 1 \in 1 .. n /\ (j + 1) - 1 = j
    OBVIOUS
  <2>4. w[j + 1] = p
    BY <1>3, <2>2, <2>3
  <2>5. QED
    BY <2>3, <2>4
<1>6. QED
  BY <1>1, <1>2, <1>3, <1>4, <1>5 DEF w, MeetsAll

-----------------------------------------------------------------------------
(***************************************************************************)
(* Slots and searches                                                      *)
(***************************************************************************)
Taken(s, p) == p \in DOMAIN s /\ s[p].occupied

IsEntry(e) ==
  /\ e = Entry(e.key, e.text, e.val)
  /\ e.key \in Keys \cup {NoKey} /\ e.val \in Vals \cup {NoVal}
  /\ e.key # NoKey => e.val \in Vals

\* s is a table of n slots, each free or with a key and its value.
IsTable(s, n) ==
  /\ n \in Nat /\ DOMAIN s = 0 .. n - 1 /\ s = [p \in 0 .. n - 1 |-> s[p]]
  /\ \A p \in 0 .. n - 1 : s[p] = Free \/ IsEntry(s[p])

\* The search for k in s gets as far as slot p.
Reaches(s, n, k, p) ==
  \E i \in 0 .. n - 1 :
    /\ Guess(k, i, n) = p
    /\ \A j \in 0 .. i - 1 :
         Taken(s, Guess(k, j, n)) /\ s[Guess(k, j, n)].key \notin {k, NoKey}

\* Every key is found by the search for it.
AllReached(s, n) ==
  \A p \in 0 .. n - 1 : Taken(s, p) /\ s[p].key # NoKey => Reaches(s, n, s[p].key, p)

Hashed == hash \in [Keys -> Hashes]

\* s with e in slot p.
Filled(s, p, e) == [s EXCEPT ![p] = e]

LEMMA SlotIs ==
  /\ Free.occupied = FALSE
  /\ \A k, t, v : /\ Entry(k, t, v).occupied = TRUE /\ Entry(k, t, v).key = k
                  /\ Entry(k, t, v).text = t /\ Entry(k, t, v).val = v
  BY DEF Free, Entry

LEMMA TakenIs ==
  ASSUME NEW s, NEW n, IsTable(s, n), NEW p \in 0 .. n - 1
  PROVE  /\ Taken(s, p) <=> s[p] # Free
         /\ Taken(s, p) => /\ IsEntry(s[p])
                           /\ s[p].key # NoKey => s[p].key \in Keys /\ s[p].val \in Vals
         /\ s[p].occupied \in BOOLEAN
<1>1. CASE s[p] = Free
  <2>1. s[p].occupied = FALSE
    BY <1>1, SlotIs
  <2>2. s[p].occupied \in BOOLEAN /\ ~s[p].occupied
    BY <2>1, Zenon
  <2>3. QED
    BY <1>1, <2>2 DEF Taken, IsTable
<1>2. CASE s[p] # Free
  <2>1. IsEntry(s[p])
    BY <1>2 DEF IsTable
  <2>2. s[p].occupied = TRUE
    <3>1. PICK k, t, v : s[p] = Entry(k, t, v)
      BY <2>1 DEF IsEntry
    <3>2. Entry(k, t, v).occupied = TRUE
      BY SlotIs, Zenon
    <3>3. QED
      BY <3>1, <3>2, Zenon
  <2>3. s[p].occupied \in BOOLEAN /\ s[p].occupied
    BY <2>2, Zenon
  <2>4. p \in DOMAIN s
    BY DEF IsTable
  <2>5. QED
    BY <1>2, <2>1, <2>3, <2>4 DEF Taken, IsEntry
<1>3. QED
  BY <1>1, <1>2

LEMMA CapIs ==
  ASSUME NEW s, NEW n \in Nat, DOMAIN s = 0 .. n - 1
  PROVE  CapOf(s) = n
<1>1. Cardinality(0 .. n - 1) = n
  BY FS_Interval
<1>2. QED
  BY <1>1 DEF CapOf

LEMMA GuessIs ==
  ASSUME Hashed, NEW k \in Keys, NEW n \in Nat \ {0}, NEW i \in Nat
  PROVE  /\ Guess(k, i, n) \in 0 .. n - 1
         /\ hash[k].offset \in Nat /\ Odd(hash[k].iterate) \in Nat
         /\ Odd(hash[k].iterate) % 2 = 1
<1>1. hash[k].offset \in Nat /\ hash[k].iterate \in Nat
  BY HashesAssumption DEF Hashed
<1>2. Odd(hash[k].iterate) \in Nat /\ Odd(hash[k].iterate) % 2 = 1
  BY <1>1, OddIsOdd
<1>3. hash[k].offset + i * Odd(hash[k].iterate) \in Nat
  BY <1>1, <1>2
<1>4. QED
  BY <1>1, <1>2, <1>3, DivMod DEF Guess

LEMMA EndsIs ==
  ASSUME Hashed, NEW s, NEW n, IsTable(s, n), n # 0, NEW k \in Keys
  PROVE  Ends(s, k) = {i \in 0 .. n - 1 : ~(/\ Taken(s, Guess(k, i, n))
                                            /\ s[Guess(k, i, n)].key \notin {k, NoKey})}
<1>1. CapOf(s) = n /\ n \in Nat \ {0}
  BY CapIs DEF IsTable
<1>2. ASSUME NEW i \in 0 .. n - 1
      PROVE  Guess(k, i, n) \in 0 .. n - 1 /\ Guess(k, i, n) \in DOMAIN s
  BY <1>1, GuessIs DEF IsTable
<1>3. QED
  BY <1>1, <1>2 DEF Ends, Taken

\* The search for k ends at the slot it reaches, if it is free or k's.
LEMMA SpotIs ==
  ASSUME Hashed, NEW s, NEW n, IsTable(s, n), NEW k \in Keys, NEW p, Reaches(s, n, k, p),
         Taken(s, p) => s[p].key \in {k, NoKey}
  PROVE  Searchable(s, k) /\ Spot(s, k) = p
<1>1. PICK i \in 0 .. n - 1 :
        /\ Guess(k, i, n) = p
        /\ \A j \in 0 .. i - 1 :
             Taken(s, Guess(k, j, n)) /\ s[Guess(k, j, n)].key \notin {k, NoKey}
  BY DEF Reaches
<1>2. n \in Nat /\ n # 0 /\ CapOf(s) = n
  BY CapIs DEF IsTable
<1>3. i \in Ends(s, k) /\ Ends(s, k) \in SUBSET Nat
  BY <1>1, <1>2, EndsIs
<1>4. ASSUME NEW j \in Ends(s, k) PROVE i <= j
  <2>1. j \in 0 .. n - 1 /\ j \notin 0 .. i - 1
    BY <1>1, <1>2, EndsIs
  <2>2. QED
    BY <1>2, <2>1
<1>5. Min(Ends(s, k)) = i
  BY <1>3, <1>4, MinIs
<1>6. QED
  BY <1>1, <1>2, <1>3, <1>5 DEF Searchable, Spot

\* Conversely, where the search for k ends it has reached.
LEMMA SpotReached ==
  ASSUME Hashed, NEW s, NEW n, IsTable(s, n), n # 0, NEW k \in Keys, Searchable(s, k)
  PROVE  /\ Spot(s, k) \in 0 .. n - 1 /\ Reaches(s, n, k, Spot(s, k))
         /\ Taken(s, Spot(s, k)) => s[Spot(s, k)].key \in {k, NoKey}
         /\ Holds(s, k) <=> Taken(s, Spot(s, k))
<1> DEFINE i == Min(Ends(s, k))
<1>1. CapOf(s) = n /\ n \in Nat \ {0}
  BY CapIs DEF IsTable
<1>2. Ends(s, k) \in SUBSET Nat /\ Ends(s, k) # {}
  BY <1>1, EndsIs DEF Searchable
<1>3. i \in Ends(s, k) /\ \A y \in Ends(s, k) : i <= y
  BY <1>2, MinExists
<1> HIDE DEF i
<1>4. i \in 0 .. n - 1 /\ \A j \in 0 .. i - 1 : j \in 0 .. n - 1 /\ j \notin Ends(s, k)
  BY <1>1, <1>2, <1>3, EndsIs
<1>5. Spot(s, k) = Guess(k, i, n)
  BY <1>1 DEF Spot, i
<1>6. Spot(s, k) \in 0 .. n - 1
  BY <1>1, <1>4, <1>5, GuessIs
<1>7. Reaches(s, n, k, Spot(s, k))
  BY <1>1, <1>4, <1>5, EndsIs DEF Reaches
<1>8. Taken(s, Spot(s, k)) => s[Spot(s, k)].key \in {k, NoKey}
  BY <1>1, <1>3, <1>5, EndsIs
<1>9. Holds(s, k) <=> Taken(s, Spot(s, k))
  BY <1>6 DEF Holds, Taken, IsTable
<1>10. QED
  BY <1>6, <1>7, <1>8, <1>9

\* A search ends where it can, wherever that is.
LEMMA FreeFound ==
  ASSUME Hashed, NEW s, NEW n, IsTable(s, n), OddsCancel(n), NEW k \in Keys,
         NEW p \in 0 .. n - 1, ~(Taken(s, p) /\ s[p].key \notin {k, NoKey})
  PROVE  Searchable(s, k)
<1>1. n \in Nat \ {0}
  BY DEF IsTable
<1>2. PICK i \in 0 .. n - 1 : Guess(k, i, n) = p
  <2>1. /\ hash[k].offset \in Nat /\ Odd(hash[k].iterate) \in Nat
        /\ Odd(hash[k].iterate) % 2 = 1
    BY <1>1, GuessIs
  <2> DEFINE a == hash[k].offset
             o == Odd(hash[k].iterate)
  <2>2. PICK i \in 0 .. n - 1 : (a + i * o) % n = p
    <3> HIDE DEF a, o
    <3>1. a \in Nat /\ o \in Nat /\ o % 2 = 1
      BY <2>1 DEF a, o
    <3>2. LeadTo(a, o, n, p)
      BY <1>1, <3>1, StrideOnto
    <3>3. QED
      BY <3>2 DEF LeadTo
  <2>3. QED
    BY <2>2 DEF Guess
<1>3. i \in Ends(s, k)
  BY <1>1, <1>2, EndsIs
<1>4. QED
  BY <1>3 DEF Searchable

LEMMA OneSlot ==
  ASSUME Hashed, NEW s, NEW n, IsTable(s, n), AllReached(s, n),
         NEW p \in 0 .. n - 1, NEW q \in 0 .. n - 1, Taken(s, p), Taken(s, q),
         s[p].key = s[q].key, s[p].key # NoKey
  PROVE  p = q
<1>1. s[p].key \in Keys /\ Reaches(s, n, s[p].key, p) /\ Reaches(s, n, s[p].key, q)
  BY TakenIs DEF AllReached
<1>2. Spot(s, s[p].key) = p /\ Spot(s, s[p].key) = q
  BY <1>1, SpotIs
<1>3. QED
  BY <1>2

\* A slot may be filled where the search for its key reaches, or its value
\* changed: every search goes as far as it did.
LEMMA Filling ==
  ASSUME NEW s, NEW n, IsTable(s, n), AllReached(s, n), NEW p \in 0 .. n - 1,
         NEW e, IsEntry(e),
         \/ Taken(s, p) /\ s[p].key = e.key
         \/ ~Taken(s, p) /\ (e.key # NoKey => Reaches(s, n, e.key, p))
  PROVE  /\ IsTable(Filled(s, p, e), n) /\ AllReached(Filled(s, p, e), n)
         /\ Filled(s, p, e)[p] = e /\ Taken(Filled(s, p, e), p)
         /\ \A q \in 0 .. n - 1 : q # p => /\ Filled(s, p, e)[q] = s[q]
                                         /\ Taken(Filled(s, p, e), q) <=> Taken(s, q)
<1> DEFINE k == e.key
           u == Filled(s, p, e)
<1>1. /\ n \in Nat /\ DOMAIN s = 0 .. n - 1 /\ DOMAIN u = 0 .. n - 1 /\ u[p] = e
      /\ \A q \in 0 .. n - 1 : q # p => u[q] = s[q]
      /\ u = [q \in 0 .. n - 1 |-> u[q]]
  BY DEF IsTable, Filled
<1> HIDE DEF u
<1>2. u[p].key = k /\ u[p] # Free /\ IsEntry(u[p])
  <2>1. PICK x, t, v : e = Entry(x, t, v)
    BY DEF IsEntry
  <2>2. Free.occupied = FALSE /\ Entry(x, t, v).occupied = TRUE
    BY SlotIs, Zenon
  <2>3. Free # e
    BY <2>1, <2>2, Zenon
  <2>4. QED
    BY <1>1, <2>3
<1>3. IsTable(u, n)
  <2>1. ASSUME NEW q \in 0 .. n - 1, u[q] # Free
        PROVE  IsEntry(u[q])
    <3>1. CASE q = p
      BY <1>1, <1>2, <3>1 DEF IsEntry
    <3>2. CASE q # p
      BY <1>1, <2>1, <3>2 DEF IsTable, IsEntry
    <3>3. QED
      BY <3>1, <3>2
  <2>2. QED
    BY <1>1, <2>1 DEF IsTable
<1>4. Taken(u, p)
  BY <1>2, <1>3, TakenIs
<1>5. ASSUME NEW q \in 0 .. n - 1, q # p PROVE Taken(u, q) <=> Taken(s, q)
  BY <1>1, <1>5 DEF Taken
<1>6. ASSUME NEW x \in Keys, NEW q \in 0 .. n - 1, Reaches(s, n, x, q), Taken(s, p) => s[p].key = k,
             ~Taken(s, p) \/ q # p \/ x = k
      PROVE  Reaches(u, n, x, q)
  <2>1. PICK i \in 0 .. n - 1 :
          /\ Guess(x, i, n) = q
          /\ \A j \in 0 .. i - 1 :
               Taken(s, Guess(x, j, n)) /\ s[Guess(x, j, n)].key \notin {x, NoKey}
    BY <1>6 DEF Reaches
  <2>2. ASSUME NEW j \in 0 .. i - 1
        PROVE  Taken(u, Guess(x, j, n)) /\ u[Guess(x, j, n)].key \notin {x, NoKey}
    <3> DEFINE g == Guess(x, j, n)
    <3>1. Taken(s, g) /\ s[g].key \notin {x, NoKey} /\ g \in 0 .. n - 1
      BY <1>1, <2>1 DEF Taken
    <3> HIDE DEF g
    <3>2. CASE g = p
      BY <1>2, <1>4, <1>6, <3>1, <3>2 DEF g
    <3>3. CASE g # p
      BY <1>1, <1>5, <3>1, <3>3 DEF g
    <3>4. QED
      BY <3>2, <3>3
  <2>3. QED
    BY <2>1, <2>2 DEF Reaches
<1>7. AllReached(u, n)
  <2>1. SUFFICES ASSUME NEW q \in 0 .. n - 1, Taken(u, q), u[q].key # NoKey
                 PROVE  Reaches(u, n, u[q].key, q)
    BY DEF AllReached
  <2>2. u[q].key \in Keys
    BY <1>3, <2>1, TakenIs
  <2>3. CASE q # p
    <3>1. Taken(s, q) /\ u[q] = s[q]
      BY <1>1, <1>5, <2>1, <2>3
    <3>2. Reaches(s, n, u[q].key, q)
      BY <2>1, <3>1 DEF AllReached
    <3>3. QED
      BY <1>6, <2>2, <2>3, <3>2
  <2>4. CASE q = p
    <3>1. u[q].key = k /\ Reaches(s, n, k, q)
      BY <1>2, <2>1, <2>4 DEF AllReached
    <3>2. QED
      BY <1>6, <2>2, <2>4, <3>1
  <2>5. QED
    BY <2>3, <2>4
<1>8. QED
  BY <1>1, <1>3, <1>4, <1>5, <1>7 DEF u

LEMMA BlankIs ==
  ASSUME NEW n \in Nat
  PROVE  /\ IsTable(Blank(n), n) /\ AllReached(Blank(n), n)
         /\ \A p \in 0 .. n - 1 : ~Taken(Blank(n), p)
<1>1. /\ DOMAIN Blank(n) = 0 .. n - 1 /\ \A p \in 0 .. n - 1 : Blank(n)[p] = Free
      /\ Blank(n) = [p \in 0 .. n - 1 |-> Blank(n)[p]]
  BY DEF Blank
<1>2. IsTable(Blank(n), n)
  BY <1>1 DEF IsTable
<1>3. \A p \in 0 .. n - 1 : ~Taken(Blank(n), p)
  BY <1>1, <1>2, TakenIs
<1>4. QED
  BY <1>2, <1>3 DEF AllReached

-----------------------------------------------------------------------------
(***************************************************************************)
(* Doubling                                                                *)
(***************************************************************************)
TakenSet(s) == {p \in DOMAIN s : s[p].occupied}

LEMMA TakenSetIs ==
  ASSUME NEW s, NEW n, IsTable(s, n)
  PROVE  /\ \A p : p \in TakenSet(s) <=> p \in 0 .. n - 1 /\ Taken(s, p)
         /\ IsFiniteSet(TakenSet(s)) /\ Count(s) = Cardinality(TakenSet(s))
         /\ Count(s) \in 0 .. n
<1>1. DOMAIN s = 0 .. n - 1 /\ n \in Nat
  BY DEF IsTable
<1>2. IsFiniteSet(0 .. n - 1) /\ Cardinality(0 .. n - 1) = n
  BY <1>1, FS_Interval
<1>3. TakenSet(s) \subseteq 0 .. n - 1
  BY <1>1 DEF TakenSet
<1>4. IsFiniteSet(TakenSet(s)) /\ Cardinality(TakenSet(s)) <= n
  BY <1>2, <1>3, FS_Subset
<1>5. Cardinality(TakenSet(s)) \in Nat
  BY <1>4, FS_CardinalityType
<1>6. QED
  BY <1>1, <1>4, <1>5 DEF TakenSet, Taken, Count

\* No key of s has lost its text: nkht_double goes through.
NoneKeyless(s) == \A p \in DOMAIN s : s[p].occupied => s[p].key # NoKey

\* What s holds t holds too.
Within(s, n, t, P) == \A q \in 0 .. n - 1 : Taken(s, q) => \E p \in P : Taken(t, p) /\ t[p] = s[q]

LEMMA CountWithin ==
  ASSUME Hashed, NEW s, NEW m, IsTable(s, m), AllReached(s, m), NoneKeyless(s),
         NEW t, NEW n, IsTable(t, n), Within(s, m, t, 0 .. n - 1)
  PROVE  Count(s) <= Count(t)
<1> DEFINE S == TakenSet(s)
           T == TakenSet(t)
           f == [q \in S |-> CHOOSE p \in T : t[p] = s[q]]
<1>1. /\ \A q : q \in S <=> q \in 0 .. m - 1 /\ Taken(s, q)
      /\ \A p : p \in T <=> p \in 0 .. n - 1 /\ Taken(t, p)
      /\ IsFiniteSet(T) /\ Count(s) = Cardinality(S) /\ Count(t) = Cardinality(T)
  BY TakenSetIs
<1> HIDE DEF S, T
<1>2. ASSUME NEW q \in S PROVE f[q] \in T /\ t[f[q]] = s[q]
  <2>1. \E p \in T : t[p] = s[q]
    BY <1>1 DEF Within
  <2>2. QED
    BY <2>1
<1> HIDE DEF f
<1>3. ASSUME NEW q \in S, NEW r \in S, f[q] = f[r] PROVE q = r
  <2>1. s[q] = s[r]
    BY <1>2, <1>3
  <2>2. s[q].key # NoKey /\ q \in 0 .. m - 1 /\ r \in 0 .. m - 1 /\ Taken(s, q) /\ Taken(s, r)
    BY <1>1 DEF NoneKeyless, Taken
  <2>3. QED
    BY <2>1, <2>2, OneSlot
<1>4. f \in Injection(S, T)
  <2>1. f \in [S -> T]
    BY <1>2 DEF f
  <2>2. QED
    BY <1>3, <2>1 DEF Injection, IsInjective
<1>5. QED
  BY <1>1, <1>4, FS_Injection

\* s is the new table, of m slots, once the slots P of t have been moved.
Copied(s, m, t, P) ==
  /\ IsTable(s, m) /\ AllReached(s, m) /\ Within(s, m, t, P)
  /\ \A p \in P : Taken(t, p) => \E q \in 0 .. m - 1 : Taken(s, q) /\ s[q] = t[p]

\* One more slot is moved.
LEMMA MovedIs ==
  ASSUME Hashed, NEW n \in Nat \ {0}, NEW m, m = 4 * n, OddsCancel(m),
         IsTable(slots, n), AllReached(slots, n), NoneKeyless(slots),
         NEW P, P \subseteq 0 .. n - 1, NEW p \in 0 .. n - 1, p \notin P,
         NEW s, Copied(s, m, slots, P)
  PROVE  Copied(Moved(s, p), m, slots, P \cup {p})
<1> DEFINE k == slots[p].key
           e == slots[p]
<1>1. m \in Nat \ {0} /\ IsTable(s, m) /\ AllReached(s, m) /\ Within(s, m, slots, P)
  BY DEF Copied
<1>2. CASE ~Taken(slots, p)
  <2>1. Moved(s, p) = s
    <3>1. ~slots[p].occupied
      BY <1>2 DEF Taken, IsTable
    <3>2. QED
      BY <3>1 DEF Moved
  <2>2. QED
    BY <1>2, <2>1 DEF Copied, Within
<1>3. CASE Taken(slots, p)
  <2>1. /\ IsEntry(e) /\ k \in Keys /\ k # NoKey
        /\ Moved(s, p) = [s EXCEPT ![Spot(s, k)] = e]
    <3>1. IsEntry(e) /\ k \in Keys /\ k # NoKey
      BY <1>3, TakenIs DEF NoneKeyless, Taken
    <3>2. slots[p].occupied
      BY <1>3 DEF Taken
    <3>3. QED
      BY <3>1, <3>2 DEF Moved, Put, IsEntry
  <2>0. e.key = k
    OBVIOUS
  <2> HIDE DEF e, k
  <2>2. NoneKeyless(s)
    <3>1. ASSUME NEW q \in 0 .. m - 1, Taken(s, q) PROVE s[q].key # NoKey
      BY <1>1, <3>1 DEF Within, NoneKeyless, Taken
    <3>2. QED
      BY <1>1, <3>1 DEF NoneKeyless, IsTable, Taken
  <2>3. Searchable(s, k)
    <3>1. Within(s, m, slots, 0 .. n - 1)
      BY <1>1 DEF Within
    <3>2. Count(s) <= Count(slots) /\ Count(slots) \in 0 .. n /\ Count(s) \in Nat
      BY <1>1, <2>2, <3>1, CountWithin, TakenSetIs
    <3>3. PICK q \in 0 .. m - 1 : ~Taken(s, q)
      <4>1. SUFFICES ASSUME \A q \in 0 .. m - 1 : Taken(s, q) PROVE FALSE
        OBVIOUS
      <4>2. TakenSet(s) = 0 .. m - 1
        BY <1>1, <4>1, TakenSetIs
      <4>3. Cardinality(0 .. m - 1) = m
        BY <1>1, FS_Interval
      <4>4. Count(s) = m
        BY <1>1, <4>2, <4>3, TakenSetIs
      <4>5. QED
        BY <3>2, <4>4
    <3>4. QED
      BY <1>1, <2>1, <3>3, FreeFound
  <2> DEFINE g == Spot(s, k)
             u == Filled(s, g, e)
  <2>4. g \in 0 .. m - 1 /\ Reaches(s, m, k, g) /\ (Taken(s, g) => s[g].key \in {k, NoKey})
    BY <1>1, <2>1, <2>3, SpotReached
  <2>5. ~Taken(s, g)
    <3>1. SUFFICES ASSUME Taken(s, g) PROVE FALSE
      OBVIOUS
    <3>2. s[g].key = k
      BY <1>1, <2>2, <2>4, <3>1 DEF NoneKeyless, Taken
    <3>3. PICK q \in P : Taken(slots, q) /\ slots[q] = s[g]
      BY <1>1, <2>4, <3>1 DEF Within
    <3>4. slots[q].key = slots[p].key /\ slots[p].key # NoKey /\ q \in 0 .. n - 1
      BY <2>1, <3>2, <3>3 DEF k
    <3>5. q = p
      BY <1>3, <3>3, <3>4, OneSlot
    <3>6. QED
      BY <3>5
  <2> HIDE DEF g
  <2>6. /\ IsTable(u, m) /\ AllReached(u, m) /\ u[g] = e /\ Taken(u, g)
        /\ \A q \in 0 .. m - 1 : q # g => u[q] = s[q] /\ (Taken(u, q) <=> Taken(s, q))
    <3>1. ~Taken(s, g) /\ (e.key # NoKey => Reaches(s, m, e.key, g))
      BY <2>1, <2>0, <2>4, <2>5
    <3>2. IsTable(s, m) /\ AllReached(s, m) /\ g \in 0 .. m - 1 /\ IsEntry(e)
      BY <1>1, <2>1, <2>4
    <3>3. IsTable(u, m)
      BY <3>1, <3>2, Filling
    <3>4. AllReached(u, m)
      BY <3>1, <3>2, Filling
    <3>5. u[g] = e /\ Taken(u, g)
      BY <3>1, <3>2, Filling
    <3>6. ASSUME NEW q \in 0 .. m - 1, q # g PROVE u[q] = s[q] /\ q \in DOMAIN u
      BY <3>2, <3>6 DEF Filled, IsTable
    <3>7. ASSUME NEW q \in 0 .. m - 1, q # g PROVE Taken(u, q) <=> Taken(s, q)
      <4>1. q \in DOMAIN s
        BY <3>2 DEF IsTable
      <4>2. QED
        BY <3>6, <3>7, <4>1 DEF Taken
    <3>8. QED
      BY <3>3, <3>4, <3>5, <3>6, <3>7
  <2> HIDE DEF u
  <2>7. Within(u, m, slots, P \cup {p})
    <3>1. ASSUME NEW q \in 0 .. m - 1, Taken(u, q)
          PROVE  \E r \in P \cup {p} : Taken(slots, r) /\ slots[r] = u[q]
      <4>1. CASE q = g
        BY <1>3, <2>6, <4>1 DEF e
      <4>2. CASE q # g
        BY <1>1, <2>6, <3>1, <4>2 DEF Within
      <4>3. QED
        BY <4>1, <4>2
    <3>2. QED
      BY <3>1 DEF Within
  <2>8. ASSUME NEW r \in P \cup {p}, Taken(slots, r)
        PROVE  \E q \in 0 .. m - 1 : Taken(u, q) /\ u[q] = slots[r]
    <3>1. CASE r = p
      BY <2>4, <2>6, <3>1 DEF e
    <3>2. CASE r # p
      <4>1. PICK q \in 0 .. m - 1 : Taken(s, q) /\ s[q] = slots[r]
        BY <2>8, <3>2 DEF Copied
      <4>2. q # g
        BY <2>5, <4>1
      <4>3. QED
        BY <2>6, <4>1, <4>2
    <3>3. QED
      BY <3>1, <3>2
  <2>9. Moved(s, p) = u
    BY <2>1 DEF u, g, Filled
  <2>10. QED
    BY <2>6, <2>7, <2>8, <2>9 DEF Copied
<1>4. QED
  BY <1>2, <1>3

\* What the slots of a new table may be.
Kept(n) == {Free} \cup {slots[p] : p \in 0 .. n - 1}

LEMMA MovedKept ==
  ASSUME NEW n, IsTable(slots, n), NEW m, NEW p \in 0 .. n - 1, NEW s \in [0 .. m - 1 -> Kept(n)]
  PROVE  Moved(s, p) \in [0 .. m - 1 -> Kept(n)]
<1>1. CASE slots[p].occupied
  <2>1. IsEntry(slots[p])
    <3>1. p \in DOMAIN slots
      BY DEF IsTable
    <3>2. QED
      BY <1>1, <3>1, TakenIs DEF Taken
  <2>2. Moved(s, p) = [s EXCEPT ![Spot(s, slots[p].key)] = slots[p]]
    BY <1>1, <2>1 DEF Moved, Put, IsEntry
  <2>3. slots[p] \in Kept(n)
    BY DEF Kept
  <2>4. QED
    BY <2>2, <2>3
<1>2. CASE ~slots[p].occupied
  BY <1>2 DEF Moved
<1>3. QED
  BY <1>1, <1>2

\* Whatever the order the slots are met in, all are moved.
LEMMA RehashedCopies ==
  ASSUME Hashed, NEW n \in Nat \ {0}, NEW m, m = 4 * n, OddsCancel(m),
         IsTable(slots, n), AllReached(slots, n), NoneKeyless(slots),
         NEW w, Len(w) = n, \A i \in 1 .. n : w[i] \in 0 .. n - 1,
         \A i, j \in 1 .. n : w[i] = w[j] => i = j
  PROVE  Copied(Rehashed(w), m, slots, {w[i] : i \in 1 .. n})
<1> DEFINE B == [0 .. m - 1 -> Kept(n)]
           Def(f) == [i \in 0 .. n |-> IF i = 0 THEN Blank(m) ELSE Moved(f[i - 1], w[i])]
           f == CHOOSE f : f = Def(f)
           Before(i) == {w[j] : j \in 1 .. i}
<1>1. m \in Nat /\ CapOf(slots) = n
  BY CapIs DEF IsTable
<1>2. Rehashed(w) = f[n]
  BY <1>1 DEF Rehashed, Cap
<1>3. f = Def(f)
  <2> DEFINE step == [x \in Nat \X B |-> IF x[1] \in 1 .. n THEN Moved(x[2], w[x[1]]) ELSE x[2]]
  <2>1. Blank(m) \in B
    BY DEF Blank, Kept
  <2>2. step \in [Nat \X B -> B]
    <3>1. ASSUME NEW x \in Nat \X B, x[1] \in 1 .. n PROVE Moved(x[2], w[x[1]]) \in B
      <4>1. x[2] \in B /\ w[x[1]] \in 0 .. n - 1
        BY <3>1
      <4>2. QED
        BY <4>1, MovedKept
    <3> HIDE DEF B
    <3>2. QED
      BY <3>1
  <2>3. \A x \in Nat \X B : x[1] \in 1 .. n => step[x] = Moved(x[2], w[x[1]])
    OBVIOUS
  <2> HIDE DEF B, step
  <2>4. PICK g \in [0 .. n -> B] : IsRecursive(g, n, Blank(m), step)
    BY <2>1, <2>2, RecursiveFunction
  <2>5. ASSUME NEW i \in 0 .. n, i # 0 PROVE step[<<i, g[i - 1]>>] = Moved(g[i - 1], w[i])
    <3>1. i \in 1 .. n /\ i \in Nat /\ i - 1 \in 0 .. n
      BY <2>5
    <3>2. <<i, g[i - 1]>> \in Nat \X B /\ <<i, g[i - 1]>>[1] = i /\ <<i, g[i - 1]>>[2] = g[i - 1]
      BY <3>1
    <3>3. QED
      BY <2>3, <3>1, <3>2
  <2>6. g = Def(g)
    BY <2>4, <2>5 DEF IsRecursive
  <2> HIDE DEF Def
  <2>7. QED
    BY <2>6
<1> DEFINE S == {i \in Nat : i <= n => Copied(f[i], m, slots, Before(i))}
<1>4. f[0] = Blank(m) /\ \A i \in 1 .. n : f[i] = Moved(f[i - 1], w[i])
  <2> HIDE DEF f
  <2>1. 0 \in 0 .. n /\ \A i \in 1 .. n : i \in 0 .. n /\ i # 0
    OBVIOUS
  <2>2. QED
    BY <1>3, <2>1
<1> HIDE DEF f
<1>5. 0 \in S
  <2>1. Before(0) = {}
    OBVIOUS
  <2>2. Copied(Blank(m), m, slots, {})
    BY <1>1, BlankIs DEF Copied, Within
  <2>3. QED
    BY <1>4, <2>1, <2>2
<1>6. ASSUME NEW i \in S, i \in Nat PROVE i + 1 \in S
  <2>1. SUFFICES ASSUME i + 1 <= n PROVE Copied(f[i + 1], m, slots, Before(i + 1))
    BY <1>6
  <2>2. i + 1 \in 1 .. n /\ i + 1 - 1 = i /\ i <= n
    BY <1>6, <2>1
  <2>3. Copied(f[i], m, slots, Before(i)) /\ f[i + 1] = Moved(f[i], w[i + 1])
    BY <1>4, <1>6, <2>2
  <2>4. Before(i) \subseteq 0 .. n - 1 /\ w[i + 1] \in 0 .. n - 1 /\ w[i + 1] \notin Before(i)
    <3>1. \A j \in 1 .. i : j \in 1 .. n /\ j # i + 1
      BY <1>6, <2>2
    <3>2. QED
      BY <2>2, <3>1
  <2>5. Before(i + 1) = Before(i) \cup {w[i + 1]}
    <3>1. \A j : j \in 1 .. i + 1 <=> j \in 1 .. i \/ j = i + 1
      BY <1>6
    <3>2. QED
      BY <3>1
  <2> HIDE DEF Before
  <2>6. Copied(Moved(f[i], w[i + 1]), m, slots, Before(i) \cup {w[i + 1]})
    BY <2>3, <2>4, MovedIs
  <2>7. QED
    BY <2>3, <2>5, <2>6
<1>7. Nat \subseteq S
  <2> HIDE DEF S
  <2>1. QED
    BY <1>5, <1>6, SetInduction
<1>8. QED
  <2>1. n \in S /\ n <= n
    <3> HIDE DEF S
    <3>1. QED
      BY <1>7
  <2>2. QED
    BY <1>2, <2>1

\* The new table holds what the old one did.
LEMMA DoubledIs ==
  ASSUME Hashed, NEW n \in Nat \ {0}, OddsCancel(n),
         IsTable(slots, n), AllReached(slots, n), NoneKeyless(slots), NEW s \in Doubled
  PROVE  /\ Copied(s, 4 * n, slots, 0 .. n - 1) /\ Count(s) = Count(slots)
         /\ NoneKeyless(s) /\ OddsCancel(4 * n)
<1>1. OddsCancel(4 * n)
  <2>1. OddsCancel(2 * n) /\ 2 * n \in Nat \ {0}
    BY OddsCancelTwice
  <2>2. OddsCancel(2 * (2 * n))
    BY <2>1, OddsCancelTwice
  <2>3. 2 * (2 * n) = 4 * n
    OBVIOUS
  <2>4. QED
    BY <2>2, <2>3
<1>2. Cap = n
  BY CapIs DEF Cap, IsTable
<1>3. PICK start \in 0 .. n - 1, step \in Steps : s = Rehashed(Walk(start, step, n))
  BY <1>2 DEF Doubled, Orders
<1>4. start \in Nat /\ step \in Nat /\ step % 2 = 1
  BY <1>2, OddIsOdd DEF Steps
<1> DEFINE w == Walk(start, step, n)
<1>5. /\ Len(w) = n
      /\ \A i \in 1 .. n : w[i] \in 0 .. n - 1
      /\ \A i, j \in 1 .. n : w[i] = w[j] => i = j
      /\ \A p \in 0 .. n - 1 : \E i \in 1 .. n : w[i] = p
  <2>1. MeetsAll(w, n)
    BY <1>4, WalkIs
  <2> HIDE DEF w
  <2>2. QED
    BY <2>1 DEF MeetsAll
<1> HIDE DEF w
<1>6. {w[i] : i \in 1 .. n} = 0 .. n - 1
  BY <1>5
<1>7. Copied(s, 4 * n, slots, 0 .. n - 1)
  <2>1. Copied(Rehashed(w), 4 * n, slots, {w[i] : i \in 1 .. n})
    BY <1>1, <1>5, RehashedCopies
  <2>2. QED
    BY <1>3, <1>6, <2>1 DEF w
<1>8. NoneKeyless(s)
  <2>1. ASSUME NEW q \in 0 .. 4 * n - 1, Taken(s, q) PROVE s[q].key # NoKey
    <3>1. PICK p \in 0 .. n - 1 : Taken(slots, p) /\ slots[p] = s[q]
      BY <1>7, <2>1 DEF Copied, Within
    <3>2. QED
      BY <3>1 DEF NoneKeyless, Taken
  <2>2. QED
    BY <1>7, <2>1 DEF NoneKeyless, Copied, IsTable, Taken
<1>9. Count(s) = Count(slots)
  <2>1. IsTable(s, 4 * n) /\ AllReached(s, 4 * n) /\ Within(s, 4 * n, slots, 0 .. n - 1)
    BY <1>7 DEF Copied
  <2>2. Within(slots, n, s, 0 .. 4 * n - 1)
    BY <1>7 DEF Copied, Within
  <2>3. Count(s) <= Count(slots)
    BY <1>8, <2>1, CountWithin
  <2>4. Count(slots) <= Count(s)
    BY <2>1, <2>2, CountWithin
  <2>5. Count(s) \in Nat /\ Count(slots) \in Nat
    BY <2>1, TakenSetIs
  <2>6. QED
    BY <2>3, <2>4, <2>5
<1>10. QED
  BY <1>1, <1>7, <1>8, <1>9

-----------------------------------------------------------------------------
(***************************************************************************)
(* What a table holds                                                      *)
(***************************************************************************)
KeyedIn(s)    == {p \in TakenSet(s) : s[p].key # NoKey}
HasKeyless(s) == \E p \in DOMAIN s : s[p].occupied /\ s[p].key = NoKey

\* The value s holds for k, wherever it is.
ValueIn(s, k) ==
  LET held == {p \in TakenSet(s) : s[p].key = k}
  IN IF held = {} THEN NoVal ELSE s[CHOOSE p \in held : TRUE].val

ValuesIn(s) == [k \in Keys |-> ValueIn(s, k)]

LEMMA ValueIs ==
  ASSUME Hashed, NEW s, NEW n, IsTable(s, n), AllReached(s, n), NEW k \in Keys,
         NEW p \in 0 .. n - 1, Taken(s, p), s[p].key = k
  PROVE  ValueIn(s, k) = s[p].val /\ ValueIn(s, k) \in Vals /\ ValueIn(s, k) # NoVal
<1> DEFINE held == {q \in TakenSet(s) : s[q].key = k}
<1>1. k # NoKey
  BY NoKeyAssumption
<1>2. p \in held
  BY TakenSetIs
<1>3. \A q \in held : q = p
  BY <1>1, TakenSetIs, OneSlot
<1>4. (CHOOSE q \in held : TRUE) = p
  BY <1>2, <1>3
<1>5. ValueIn(s, k) = s[p].val
  BY <1>2, <1>4 DEF ValueIn
<1>6. s[p].val \in Vals
  BY <1>1, TakenIs
<1>7. QED
  BY <1>5, <1>6, NoValAssumption

LEMMA NoValueIs ==
  ASSUME NEW s, NEW n, IsTable(s, n), NEW k,
         \A p \in 0 .. n - 1 : Taken(s, p) => s[p].key # k
  PROVE  ValueIn(s, k) = NoVal
<1>1. {q \in TakenSet(s) : s[q].key = k} = {}
  BY TakenSetIs
<1>2. QED
  BY <1>1 DEF ValueIn

LEMMA KeyedIs ==
  ASSUME NEW s, NEW n, IsTable(s, n)
  PROVE  /\ \A p : p \in KeyedIn(s) <=> p \in 0 .. n - 1 /\ Taken(s, p) /\ s[p].key # NoKey
         /\ IsFiniteSet(KeyedIn(s)) /\ Cardinality(KeyedIn(s)) \in 0 .. n
         /\ NoneKeyless(s) => KeyedIn(s) = TakenSet(s) /\ Count(s) = Cardinality(KeyedIn(s))
         /\ ~NoneKeyless(s) <=> HasKeyless(s)
<1>1. /\ \A p : p \in TakenSet(s) <=> p \in 0 .. n - 1 /\ Taken(s, p)
      /\ IsFiniteSet(TakenSet(s)) /\ Cardinality(TakenSet(s)) \in 0 .. n
      /\ Count(s) = Cardinality(TakenSet(s)) /\ n \in Nat /\ DOMAIN s = 0 .. n - 1
  BY TakenSetIs DEF IsTable
<1>2. KeyedIn(s) \subseteq TakenSet(s)
  BY DEF KeyedIn
<1>3. IsFiniteSet(KeyedIn(s)) /\ Cardinality(KeyedIn(s)) <= Cardinality(TakenSet(s))
  BY <1>1, <1>2, FS_Subset
<1>4. Cardinality(KeyedIn(s)) \in Nat
  BY <1>3, FS_CardinalityType
<1>5. NoneKeyless(s) => KeyedIn(s) = TakenSet(s)
  BY <1>1 DEF KeyedIn, NoneKeyless, Taken
<1>6. ~NoneKeyless(s) <=> HasKeyless(s)
  BY DEF NoneKeyless, HasKeyless
<1>7. ASSUME NEW p
      PROVE  p \in KeyedIn(s) <=> p \in 0 .. n - 1 /\ Taken(s, p) /\ s[p].key # NoKey
  BY <1>1 DEF KeyedIn
<1>8. Cardinality(KeyedIn(s)) \in 0 .. n
  BY <1>1, <1>3, <1>4
<1>9. QED
  BY <1>1, <1>3, <1>5, <1>6, <1>7, <1>8

\* A table of c slots that holds n keys, each found by the search for it.
TableIs(s, n, c) ==
  /\ IsTable(s, c) /\ AllReached(s, c) /\ OddsCancel(c) /\ c \in Nat /\ c >= InitialCap
  /\ n = Cardinality(KeyedIn(s))

\* A free slot, where the search for its key ends, is taken.
LEMMA TakingIs ==
  ASSUME Hashed, NEW s, NEW n, NEW c, TableIs(s, n, c), NEW p \in 0 .. c - 1, ~Taken(s, p),
         NEW e, IsEntry(e), e.key # NoKey => Reaches(s, c, e.key, p)
  PROVE  /\ TableIs(Filled(s, p, e), IF e.key = NoKey THEN n ELSE n + 1, c)
         /\ HasKeyless(Filled(s, p, e)) <=> HasKeyless(s) \/ e.key = NoKey
         /\ ValuesIn(Filled(s, p, e)) = [k \in Keys |-> IF k = e.key THEN e.val ELSE ValueIn(s, k)]
<1> DEFINE t == Filled(s, p, e)
<1>1. IsTable(s, c) /\ AllReached(s, c) /\ c \in Nat
  BY DEF TableIs
<1>2. /\ IsTable(t, c) /\ AllReached(t, c) /\ t[p] = e /\ Taken(t, p)
      /\ \A q \in 0 .. c - 1 : q # p => t[q] = s[q] /\ (Taken(t, q) <=> Taken(s, q))
  <2>1. IsTable(t, c)
    BY <1>1, Filling
  <2>2. AllReached(t, c)
    BY <1>1, Filling
  <2>3. t[p] = e /\ Taken(t, p)
    BY <1>1, Filling
  <2>4. ASSUME NEW q \in 0 .. c - 1, q # p PROVE t[q] = s[q] /\ q \in DOMAIN t /\ q \in DOMAIN s
    BY <1>1, <2>4 DEF Filled, IsTable
  <2>5. ASSUME NEW q \in 0 .. c - 1, q # p PROVE Taken(t, q) <=> Taken(s, q)
    BY <2>4, <2>5 DEF Taken
  <2>6. QED
    BY <2>1, <2>2, <2>3, <2>4, <2>5
<1> HIDE DEF t
<1>3. Cardinality(KeyedIn(t)) = IF e.key = NoKey THEN n ELSE n + 1
  <2>1. CASE e.key = NoKey
    <3>1. ASSUME NEW q PROVE q \in KeyedIn(t) <=> q \in KeyedIn(s)
      BY <1>1, <1>2, <2>1, KeyedIs
    <3>2. KeyedIn(t) = KeyedIn(s)
      BY <3>1
    <3>3. QED
      BY <2>1, <3>2 DEF TableIs
  <2>2. CASE e.key # NoKey
    <3>1. KeyedIn(t) = KeyedIn(s) \cup {p} /\ p \notin KeyedIn(s) /\ IsFiniteSet(KeyedIn(s))
      BY <1>1, <1>2, <2>2, KeyedIs
    <3>2. Cardinality(KeyedIn(s) \cup {p}) = Cardinality(KeyedIn(s)) + 1
      BY <3>1, FS_AddElement
    <3>3. QED
      BY <2>2, <3>1, <3>2 DEF TableIs
  <2>3. QED
    BY <2>1, <2>2
<1>4. HasKeyless(t) <=> HasKeyless(s) \/ e.key = NoKey
  <2>1. HasKeyless(t) <=> \E q \in 0 .. c - 1 : Taken(t, q) /\ t[q].key = NoKey
    BY <1>2 DEF HasKeyless, IsTable, Taken
  <2>2. HasKeyless(s) <=> \E q \in 0 .. c - 1 : Taken(s, q) /\ s[q].key = NoKey
    BY <1>1 DEF HasKeyless, IsTable, Taken
  <2>3. QED
    BY <1>2, <2>1, <2>2
<1>5. ASSUME NEW k \in Keys PROVE ValueIn(t, k) = IF k = e.key THEN e.val ELSE ValueIn(s, k)
  <2>1. CASE k = e.key
    BY <1>2, <2>1, ValueIs
  <2>2. CASE k # e.key
    <3>1. CASE \E q \in 0 .. c - 1 : Taken(s, q) /\ s[q].key = k
      <4>1. PICK q \in 0 .. c - 1 : Taken(s, q) /\ s[q].key = k
        BY <3>1
      <4>2. Taken(t, q) /\ t[q] = s[q]
        BY <1>2, <4>1
      <4>3. ValueIn(t, k) = t[q].val
        BY <1>2, <4>1, <4>2, ValueIs
      <4>4. ValueIn(s, k) = s[q].val
        BY <1>1, <4>1, ValueIs
      <4>5. QED
        BY <2>2, <4>2, <4>3, <4>4
    <3>2. CASE ~\E q \in 0 .. c - 1 : Taken(s, q) /\ s[q].key = k
      <4>1. \A q \in 0 .. c - 1 : Taken(t, q) => t[q].key # k
        BY <1>2, <2>2, <3>2
      <4>2. ValueIn(t, k) = NoVal
        BY <1>2, <4>1, NoValueIs
      <4>3. ValueIn(s, k) = NoVal
        BY <1>1, <3>2, NoValueIs
      <4>4. QED
        BY <2>2, <4>2, <4>3
    <3>3. QED
      BY <3>1, <3>2
  <2>3. QED
    BY <2>1, <2>2
<1>6. TableIs(t, IF e.key = NoKey THEN n ELSE n + 1, c)
  BY <1>1, <1>2, <1>3 DEF TableIs
<1>7. ValuesIn(t) = [k \in Keys |-> IF k = e.key THEN e.val ELSE ValueIn(s, k)]
  BY <1>5 DEF ValuesIn
<1>8. QED
  BY <1>4, <1>6, <1>7 DEF t

\* The value in a slot is changed.
LEMMA ChangingIs ==
  ASSUME Hashed, NEW s, NEW n, NEW c, TableIs(s, n, c), NEW p \in 0 .. c - 1, Taken(s, p),
         NEW e, IsEntry(e), e.key = s[p].key
  PROVE  /\ TableIs(Filled(s, p, e), n, c)
         /\ HasKeyless(Filled(s, p, e)) <=> HasKeyless(s)
         /\ ValuesIn(Filled(s, p, e)) = [k \in Keys |-> IF k = e.key THEN e.val ELSE ValueIn(s, k)]
<1> DEFINE t == Filled(s, p, e)
<1>1. IsTable(s, c) /\ AllReached(s, c) /\ c \in Nat
  BY DEF TableIs
<1>2. /\ IsTable(t, c) /\ AllReached(t, c) /\ t[p] = e /\ Taken(t, p)
      /\ \A q \in 0 .. c - 1 : q # p => t[q] = s[q] /\ (Taken(t, q) <=> Taken(s, q))
  <2>1. IsTable(t, c)
    BY <1>1, Filling
  <2>2. AllReached(t, c)
    BY <1>1, Filling
  <2>3. t[p] = e /\ Taken(t, p)
    BY <1>1, Filling
  <2>4. ASSUME NEW q \in 0 .. c - 1, q # p PROVE t[q] = s[q] /\ q \in DOMAIN t /\ q \in DOMAIN s
    BY <1>1, <2>4 DEF Filled, IsTable
  <2>5. ASSUME NEW q \in 0 .. c - 1, q # p PROVE Taken(t, q) <=> Taken(s, q)
    BY <2>4, <2>5 DEF Taken
  <2>6. QED
    BY <2>1, <2>2, <2>3, <2>4, <2>5
<1> HIDE DEF t
<1>3. ASSUME NEW q \in 0 .. c - 1
      PROVE  (Taken(t, q) <=> Taken(s, q)) /\ t[q].key = s[q].key
  BY <1>2
<1>4. KeyedIn(t) = KeyedIn(s)
  <2>1. ASSUME NEW q PROVE q \in KeyedIn(t) <=> q \in KeyedIn(s)
    BY <1>1, <1>2, <1>3, KeyedIs
  <2>2. QED
    BY <2>1
<1>5. HasKeyless(t) <=> HasKeyless(s)
  <2>1. HasKeyless(t) <=> \E q \in 0 .. c - 1 : Taken(t, q) /\ t[q].key = NoKey
    BY <1>2 DEF HasKeyless, IsTable, Taken
  <2>2. HasKeyless(s) <=> \E q \in 0 .. c - 1 : Taken(s, q) /\ s[q].key = NoKey
    BY <1>1 DEF HasKeyless, IsTable, Taken
  <2>3. QED
    BY <1>3, <2>1, <2>2
<1>6. ASSUME NEW k \in Keys PROVE ValueIn(t, k) = IF k = e.key THEN e.val ELSE ValueIn(s, k)
  <2>1. CASE k = e.key
    BY <1>2, <2>1, ValueIs
  <2>2. CASE k # e.key
    <3>1. CASE \E q \in 0 .. c - 1 : Taken(s, q) /\ s[q].key = k
      <4>1. PICK q \in 0 .. c - 1 : Taken(s, q) /\ s[q].key = k
        BY <3>1
      <4>2. Taken(t, q) /\ t[q] = s[q]
        BY <1>2, <2>2, <4>1
      <4>3. ValueIn(t, k) = t[q].val
        BY <1>2, <4>1, <4>2, ValueIs
      <4>4. ValueIn(s, k) = s[q].val
        BY <1>1, <4>1, ValueIs
      <4>5. QED
        BY <2>2, <4>2, <4>3, <4>4
    <3>2. CASE ~\E q \in 0 .. c - 1 : Taken(s, q) /\ s[q].key = k
      <4>1. \A q \in 0 .. c - 1 : Taken(t, q) => t[q].key # k
        BY <1>3, <3>2
      <4>2. ValueIn(t, k) = NoVal
        BY <1>2, <4>1, NoValueIs
      <4>3. ValueIn(s, k) = NoVal
        BY <1>1, <3>2, NoValueIs
      <4>4. QED
        BY <2>2, <4>2, <4>3
    <3>3. QED
      BY <3>1, <3>2
  <2>3. QED
    BY <2>1, <2>2
<1>7. TableIs(t, n, c)
  BY <1>1, <1>2, <1>4 DEF TableIs
<1>8. ValuesIn(t) = [k \in Keys |-> IF k = e.key THEN e.val ELSE ValueIn(s, k)]
  BY <1>6 DEF ValuesIn
<1>9. QED
  BY <1>5, <1>7, <1>8 DEF t

\* A doubled table holds the same.
LEMMA DoubledHolds ==
  ASSUME Hashed, NEW n, NEW c, TableIs(slots, n, c), NoneKeyless(slots), NEW s \in Doubled
  PROVE  TableIs(s, n, 4 * c) /\ Count(s) = n /\ NoneKeyless(s) /\ ValuesIn(s) = ValuesIn(slots)
<1>1. IsTable(slots, c) /\ AllReached(slots, c) /\ OddsCancel(c) /\ c \in Nat \ {0}
  BY InitialCapAssumption DEF TableIs
<1>2. /\ Copied(s, 4 * c, slots, 0 .. c - 1) /\ Count(s) = Count(slots)
      /\ NoneKeyless(s) /\ OddsCancel(4 * c)
  BY <1>1, DoubledIs
<1>3. IsTable(s, 4 * c) /\ AllReached(s, 4 * c)
  BY <1>2 DEF Copied
<1>4. Count(s) = n /\ n = Cardinality(KeyedIn(s))
  BY <1>1, <1>2, <1>3, KeyedIs DEF TableIs
<1>5. 4 * c \in Nat /\ 4 * c >= InitialCap
  BY InitialCapAssumption DEF TableIs
<1>6. ASSUME NEW k \in Keys PROVE ValueIn(s, k) = ValueIn(slots, k)
  <2>1. CASE \E q \in 0 .. c - 1 : Taken(slots, q) /\ slots[q].key = k
    <3>1. PICK q \in 0 .. c - 1 : Taken(slots, q) /\ slots[q].key = k
      BY <2>1
    <3>2. PICK p \in 0 .. 4 * c - 1 : Taken(s, p) /\ s[p] = slots[q]
      BY <1>2, <3>1 DEF Copied
    <3>3. ValueIn(s, k) = s[p].val
      BY <1>3, <3>1, <3>2, ValueIs
    <3>4. ValueIn(slots, k) = slots[q].val
      BY <1>1, <3>1, ValueIs
    <3>5. QED
      BY <3>2, <3>3, <3>4
  <2>2. CASE ~\E q \in 0 .. c - 1 : Taken(slots, q) /\ slots[q].key = k
    <3>1. \A p \in 0 .. 4 * c - 1 : Taken(s, p) => s[p].key # k
      BY <1>2, <2>2 DEF Copied, Within
    <3>2. ValueIn(s, k) = NoVal
      BY <1>3, <3>1, NoValueIs
    <3>3. ValueIn(slots, k) = NoVal
      BY <1>1, <2>2, NoValueIs
    <3>4. QED
      BY <3>2, <3>3
  <2>3. QED
    BY <2>1, <2>2
<1>7. ValuesIn(s) = ValuesIn(slots)
  BY <1>6 DEF ValuesIn
<1>8. QED
  BY <1>2, <1>3, <1>4, <1>5, <1>7 DEF TableIs

-----------------------------------------------------------------------------
(***************************************************************************)
(* What a call does                                                        *)
(***************************************************************************)
LEMMA EntryIs ==
  /\ \A text : \A k \in Keys, v \in Vals :
       IsEntry(Entry(k, text, v)) /\ Entry(k, text, v).key = k /\ Entry(k, text, v).val = v
  /\ IsEntry(Keyless) /\ Keyless.key = NoKey
<1>1. ASSUME NEW k \in Keys \cup {NoKey}, NEW text, NEW v \in Vals \cup {NoVal},
             k # NoKey => v \in Vals
      PROVE  IsEntry(Entry(k, text, v)) /\ Entry(k, text, v).key = k /\ Entry(k, text, v).val = v
  <2>1. /\ Entry(k, text, v).key = k /\ Entry(k, text, v).text = text
        /\ Entry(k, text, v).val = v
    BY SlotIs
  <2>2. QED
    BY <1>1, <2>1 DEF IsEntry
<1>2. QED
  BY <1>1 DEF Keyless

\* What overwriting makes of an entry.
LEMMA ValueChanged ==
  ASSUME NEW f, IsEntry(f), NEW v
  PROVE  [f EXCEPT !.val = v] = Entry(f.key, f.text, v)
<1>1. PICK x, t, w : f = Entry(x, t, w)
  BY DEF IsEntry
<1>2. Entry(x, t, w).key = x /\ Entry(x, t, w).text = t
  BY SlotIs
<1>3. [Entry(x, t, w) EXCEPT !.val = v] = Entry(x, t, v)
  <2>1. PICK b : b = TRUE
    OBVIOUS
  <2>2. /\ Entry(x, t, w) = [occupied |-> b, key |-> x, text |-> t, val |-> w]
        /\ Entry(x, t, v) = [occupied |-> b, key |-> x, text |-> t, val |-> v]
    BY <2>1, Zenon DEF Entry
  <2>3. [[occupied |-> b, key |-> x, text |-> t, val |-> w] EXCEPT !.val = v]
          = [occupied |-> b, key |-> x, text |-> t, val |-> v]
    OBVIOUS
  <2>4. QED
    BY <2>2, <2>3, Zenon
<1>4. f.key = x /\ f.text = t
  BY <1>1, <1>2
<1>5. QED
  BY <1>1, <1>3, <1>4

\* A key that is not found where the search for it ends has no value.
LEMMA AbsentIs ==
  ASSUME Hashed, NEW s, NEW n, IsTable(s, n), AllReached(s, n), NEW k \in Keys,
         ~(Holds(s, k) /\ s[Spot(s, k)].key = k)
  PROVE  ValueIn(s, k) = NoVal
<1>1. ASSUME NEW p \in 0 .. n - 1, Taken(s, p), s[p].key = k PROVE FALSE
  <2>1. Reaches(s, n, k, p) /\ n # 0
    BY <1>1, NoKeyAssumption DEF AllReached, IsTable
  <2>2. Searchable(s, k) /\ Spot(s, k) = p
    BY <1>1, <2>1, SpotIs
  <2>3. Holds(s, k)
    BY <1>1, <2>1, <2>2, SpotReached
  <2>4. QED
    BY <1>1, <2>2, <2>3
<1>2. QED
  BY <1>1, NoValueIs

\* What SetIn may do to a table of n keys in c slots.
Refuses(s, n, c, k, v) ==
  /\ reply' = Reply(<<"set", k, v>>, "EXFULL", <<>>)
  /\ slots' = s /\ len' = n /\ ValueIn(s, k) = NoVal
  /\ \A p \in 0 .. c - 1 : Taken(s, p) /\ s[p].key # NoKey

Gives(s, k, v) ==
  /\ reply' = Reply(<<"set", k, v>>, "ok", <<>>)
  /\ ValuesIn(slots') = [j \in Keys |-> IF j = k THEN v ELSE ValueIn(s, j)]
  /\ HasKeyless(slots') <=> HasKeyless(s)

Misplaces(s, k, v) ==
  /\ reply' = Reply(<<"set", k, v>>, "ok", <<>>)
  /\ ValueIn(s, k) = NoVal /\ ValuesIn(slots') = ValuesIn(s)
  /\ HasKeyless(s) /\ HasKeyless(slots')

Spoils(s, k, v) ==
  /\ reply' = Reply(<<"set", k, v>>, "ENOTRECOVERABLE", <<>>)
  /\ ValueIn(s, k) = NoVal /\ ValuesIn(slots') = ValuesIn(s) /\ HasKeyless(slots')

LEMMA SetInIs ==
  ASSUME Hashed, NEW s, NEW n, NEW c, TableIs(s, n, c), NEW k \in Keys, NEW v \in Vals,
         SetIn(s, n, k, v)
  PROVE  /\ TableIs(slots', len', c) /\ len' \in {n, n + 1}
         /\ Refuses(s, n, c, k, v) \/ Gives(s, k, v) \/ Misplaces(s, k, v) \/ Spoils(s, k, v)
<1> DEFINE p == Spot(s, k)
<1>1. IsTable(s, c) /\ AllReached(s, c) /\ OddsCancel(c) /\ c \in Nat \ {0} /\ k # NoKey
  BY InitialCapAssumption, NoKeyAssumption DEF TableIs
<1>2. ASSUME Searchable(s, k)
      PROVE  /\ p \in 0 .. c - 1 /\ Reaches(s, c, k, p)
             /\ Taken(s, p) => s[p].key \in {k, NoKey}
             /\ Holds(s, k) <=> Taken(s, p)
  BY <1>1, <1>2, SpotReached
<1>3. CASE ~Searchable(s, k)
  <2>1. slots' = s /\ len' = n /\ reply' = Reply(<<"set", k, v>>, "EXFULL", <<>>)
    BY <1>3 DEF SetIn, Holds
  <2>2. \A q \in 0 .. c - 1 : Taken(s, q) /\ s[q].key # NoKey
    BY <1>1, <1>3, FreeFound
  <2>3. ValueIn(s, k) = NoVal
    BY <1>1, <1>3, AbsentIs DEF Holds
  <2>4. QED
    BY <2>1, <2>2, <2>3 DEF Refuses
<1>4. CASE Holds(s, k)
  <2>1. /\ Searchable(s, k) /\ slots' = Overwritten(s, k, v) /\ len' = n
        /\ reply' = Reply(<<"set", k, v>>, "ok", <<>>)
    BY <1>4 DEF SetIn, Holds
  <2>2. p \in 0 .. c - 1 /\ Taken(s, p) /\ s[p].key \in {k, NoKey}
    BY <1>2, <1>4, <2>1
  <2> HIDE DEF p
  <2>3. IsEntry(s[p])
    BY <1>1, <2>2, TakenIs
  <2> DEFINE e == Entry(s[p].key, s[p].text, v)
  <2>4. IsEntry(e) /\ e.key = s[p].key /\ e.val = v
    <3>1. /\ e.key = s[p].key /\ e.text = s[p].text /\ e.val = v
      BY SlotIs
    <3>2. s[p].key \in Keys \cup {NoKey}
      BY <2>3 DEF IsEntry
    <3>3. QED
      BY <3>1, <3>2 DEF IsEntry
  <2>5. slots' = Filled(s, p, e)
    <3>1. slots' = [s EXCEPT ![p] = [s[p] EXCEPT !.val = v]]
      BY <2>1 DEF Overwritten, p
    <3>2. [s[p] EXCEPT !.val = v] = e
      BY <2>3, ValueChanged
    <3>3. QED
      BY <3>1, <3>2 DEF Filled
  <2> HIDE DEF e
  <2>6. /\ TableIs(Filled(s, p, e), n, c)
        /\ HasKeyless(Filled(s, p, e)) <=> HasKeyless(s)
        /\ ValuesIn(Filled(s, p, e)) = [j \in Keys |-> IF j = e.key THEN e.val ELSE ValueIn(s, j)]
    BY <2>2, <2>4, ChangingIs
  <2>7. CASE s[p].key = k
    <3>1. e.key = k /\ e.val = v
      BY <2>4, <2>7
    <3>2. Gives(s, k, v)
      BY <2>1, <2>5, <2>6, <3>1 DEF Gives
    <3>3. QED
      BY <2>1, <2>5, <2>6, <3>2
  <2>8. CASE s[p].key = NoKey
    <3>1. ValueIn(s, k) = NoVal
      BY <1>1, <2>8, AbsentIs DEF p
    <3>2. \A j \in Keys : j # e.key
      BY <2>4, <2>8, NoKeyAssumption
    <3>3. ValuesIn(Filled(s, p, e)) = ValuesIn(s)
      BY <2>6, <3>2 DEF ValuesIn
    <3>4. HasKeyless(s)
      BY <1>1, <2>2, <2>8 DEF HasKeyless, Taken
    <3>5. Misplaces(s, k, v)
      BY <2>1, <2>5, <2>6, <3>1, <3>3, <3>4 DEF Misplaces
    <3>6. QED
      BY <2>1, <2>5, <2>6, <3>5
  <2>9. QED
    BY <2>2, <2>7, <2>8
<1>5. CASE Searchable(s, k) /\ ~Holds(s, k)
  <2>1. p \in 0 .. c - 1 /\ Reaches(s, c, k, p) /\ ~Taken(s, p)
    BY <1>2, <1>5
  <2>2. ValueIn(s, k) = NoVal
    BY <1>1, <1>5, AbsentIs
  <2>3. CASE /\ slots' = Put(s, k, Store!Place(bytes[k]), v) /\ len' = LenAfter(n)
             /\ reply' = Reply(<<"set", k, v>>, "ok", <<>>)
    <3>0. PICK text : text = Store!Place(bytes[k])
      OBVIOUS
    <3> DEFINE e == Entry(k, text, v)
    <3>1. IsEntry(e) /\ e.key = k /\ e.val = v
      BY EntryIs
    <3>2. slots' = Filled(s, p, e) /\ len' = n + 1
      BY <2>3, <3>0 DEF Put, LenAfter, Filled
    <3> HIDE DEF e, p
    <3>3. /\ TableIs(Filled(s, p, e), IF e.key = NoKey THEN n ELSE n + 1, c)
          /\ HasKeyless(Filled(s, p, e)) <=> HasKeyless(s) \/ e.key = NoKey
          /\ ValuesIn(Filled(s, p, e)) = [j \in Keys |-> IF j = e.key THEN e.val ELSE ValueIn(s, j)]
      BY <2>1, <3>1, TakingIs
    <3>4. Gives(s, k, v)
      BY <1>1, <2>3, <3>1, <3>2, <3>3 DEF Gives
    <3>5. QED
      BY <1>1, <3>1, <3>2, <3>3, <3>4
  <2>4. CASE /\ slots' = [s EXCEPT ![Spot(s, k)] = Keyless] /\ len' = n
             /\ reply' = Reply(<<"set", k, v>>, "ENOTRECOVERABLE", <<>>)
    <3> DEFINE e == Keyless
    <3>1. IsEntry(e) /\ e.key = NoKey
      BY EntryIs
    <3>2. slots' = Filled(s, p, e)
      BY <2>4 DEF Filled
    <3> HIDE DEF e, p
    <3>3. /\ TableIs(Filled(s, p, e), IF e.key = NoKey THEN n ELSE n + 1, c)
          /\ HasKeyless(Filled(s, p, e)) <=> HasKeyless(s) \/ e.key = NoKey
          /\ ValuesIn(Filled(s, p, e)) = [j \in Keys |-> IF j = e.key THEN e.val ELSE ValueIn(s, j)]
      BY <2>1, <3>1, TakingIs
    <3>4. ValuesIn(slots') = ValuesIn(s)
      BY <3>1, <3>2, <3>3, NoKeyAssumption DEF ValuesIn
    <3>5. Spoils(s, k, v)
      BY <2>2, <2>4, <3>1, <3>2, <3>3, <3>4 DEF Spoils
    <3>6. QED
      BY <2>4, <3>1, <3>2, <3>3, <3>5
  <2>5. QED
    BY <1>5, <2>3, <2>4 DEF SetIn
<1>6. QED
  BY <1>3, <1>4, <1>5

-----------------------------------------------------------------------------
(***************************************************************************)
(* The invariant                                                           *)
(***************************************************************************)
\* Until the table is destroyed every key in it is found by the search for it,
\* and the keys are counted.
TableInv ==
  /\ Hashed
  /\ \/ TableIs(slots, len, Cap)
     \/ slots = Blank(0) /\ len = 0 /\ ~Alive

\* The iteration has met the keys of the slots before the cursor, each once.
IterInv ==
  /\ cursor \in 0 .. Cap
  /\ steady =>
       /\ yielded \in Seq(Keys \cup {NoKey})
       /\ \A i, j \in DOMAIN yielded : yielded[i] = yielded[j] /\ yielded[i] # NoKey => i = j
       /\ \A k : (\E i \in DOMAIN yielded : yielded[i] = k)
                   <=> (\E p \in 0 .. cursor - 1 : Taken(slots, p) /\ slots[p].key = k)
       /\ reply = Reply(<<"iterate">>, "ENODATA", <<>>) => cursor = Cap

SparseInv == ~starved => 4 * len < Cap + 4 /\ reply.res # "EXFULL"

LEMMA ReplyIs ==
  /\ \A c, r, o : Reply(c, r, o).call = c /\ Reply(c, r, o).res = r /\ Reply(c, r, o).out = o
  /\ \A k, r, o, r2, o2 : Reply(<<"get", k>>, r, o) # Reply(<<"iterate">>, r2, o2)
<1>1. \A c, r, o : Reply(c, r, o).call = c /\ Reply(c, r, o).res = r /\ Reply(c, r, o).out = o
  BY DEF Reply
<1>2. \A k : <<"get", k>> # <<"iterate">>
  OBVIOUS
<1>3. QED
  BY <1>1, <1>2

\* The table a key is set in, of c slots: the one there is, or the doubled one.
SetsIn(s, c, k, v) ==
  /\ TableIs(s, len, c) /\ ValuesIn(s) = ValuesIn(slots)
  /\ HasKeyless(s) <=> HasKeyless(slots)
  /\ TableIs(slots', len', c) /\ len' \in {len, len + 1} /\ CapOf(slots') = c
  /\ Refuses(s, len, c, k, v) \/ Gives(s, k, v) \/ Misplaces(s, k, v) \/ Spoils(s, k, v)
  /\ \/ c = Cap /\ 4 * len < c /\ starved' = starved
     \/ c = Cap /\ starved' = TRUE
     \/ c = 4 * Cap /\ starved' = starved

LEMMA SetIs ==
  ASSUME TableInv, NEW k \in Keys, NEW v \in Vals, Set(k, v)
  PROVE  \E s, c : SetsIn(s, c, k, v)
<1>1. Hashed /\ TableIs(slots, len, Cap)
  BY DEF TableInv, Set
<1>2. len \in Nat /\ Cap \in Nat
  <2>1. IsTable(slots, Cap) /\ len = Cardinality(KeyedIn(slots)) /\ Cap \in Nat
    BY <1>1 DEF TableIs
  <2>2. len \in 0 .. Cap
    BY <2>1, KeyedIs
  <2>3. QED
    BY <2>1, <2>2
<1>3. CASE /\ SetIn(slots, len, k, v)
           /\ \/ ~Crowded(len, Cap) /\ UNCHANGED starved
              \/ Crowded(len, Cap) /\ starved' = TRUE
  <2>1. /\ TableIs(slots', len', Cap) /\ len' \in {len, len + 1}
        /\ \/ Refuses(slots, len, Cap, k, v) \/ Gives(slots, k, v)
           \/ Misplaces(slots, k, v) \/ Spoils(slots, k, v)
    BY <1>1, <1>3, SetInIs
  <2>2. CapOf(slots') = Cap
    BY <2>1, CapIs DEF TableIs, IsTable
  <2>3. \/ 4 * len < Cap /\ starved' = starved
        \/ starved' = TRUE
    BY <1>2, <1>3 DEF Crowded
  <2>4. SetsIn(slots, Cap, k, v)
    BY <1>1, <2>1, <2>2, <2>3 DEF SetsIn
  <2>5. QED
    BY <2>4
<1>4. ASSUME Growable, NEW s \in Doubled, SetIn(s, Count(s), k, v), UNCHANGED starved
      PROVE  SetsIn(s, 4 * Cap, k, v)
  <2>1. NoneKeyless(slots)
    BY <1>4 DEF Growable, NoneKeyless
  <2>2. TableIs(s, len, 4 * Cap) /\ Count(s) = len /\ NoneKeyless(s) /\ ValuesIn(s) = ValuesIn(slots)
    BY <1>1, <2>1, DoubledHolds
  <2>3. ~HasKeyless(s) /\ ~HasKeyless(slots)
    BY <2>1, <2>2 DEF HasKeyless, NoneKeyless
  <2>4. /\ TableIs(slots', len', 4 * Cap) /\ len' \in {len, len + 1}
        /\ \/ Refuses(s, len, 4 * Cap, k, v) \/ Gives(s, k, v)
           \/ Misplaces(s, k, v) \/ Spoils(s, k, v)
    BY <1>1, <1>4, <2>2, SetInIs
  <2>5. CapOf(slots') = 4 * Cap
    BY <2>4, CapIs DEF TableIs, IsTable
  <2>6. QED
    BY <1>4, <2>2, <2>3, <2>4, <2>5 DEF SetsIn
<1>5. QED
  BY <1>3, <1>4 DEF Set

Inv == TableInv /\ IterInv /\ SparseInv /\ RefusedOnlyWhenFull

LEMMA LenIs ==
  ASSUME NEW s, NEW n, NEW c, TableIs(s, n, c)
  PROVE  n \in Nat /\ n <= c /\ c \in Nat /\ c >= 2 /\ IsTable(s, c) /\ AllReached(s, c)
<1>1. IsTable(s, c) /\ AllReached(s, c) /\ n = Cardinality(KeyedIn(s)) /\ c \in Nat /\ c >= InitialCap
  BY DEF TableIs
<1>2. n \in 0 .. c
  BY <1>1, KeyedIs
<1>3. QED
  BY <1>1, <1>2, InitialCapAssumption

LEMMA InitialTable == TableIs(Blank(InitialCap), 0, InitialCap)
<1>1. InitialCap \in Nat
  BY InitialCapAssumption
<1>2. /\ IsTable(Blank(InitialCap), InitialCap) /\ AllReached(Blank(InitialCap), InitialCap)
      /\ \A p \in 0 .. InitialCap - 1 : ~Taken(Blank(InitialCap), p)
  BY <1>1, BlankIs
<1>3. KeyedIn(Blank(InitialCap)) = {}
  BY <1>2, KeyedIs
<1>4. Cardinality({}) = 0
  BY FS_EmptySet
<1>5. QED
  BY <1>1, <1>2, <1>3, <1>4, OddsCancelInitially DEF TableIs

LEMMA InvInit ==
  ASSUME Init
  PROVE  Inv
<1>1. TableIs(slots, len, InitialCap) /\ Hashed
  BY InitialTable DEF Init, Hashed
<1>2. Cap = InitialCap /\ InitialCap \in Nat /\ InitialCap >= 2
  <2>1. IsTable(slots, InitialCap)
    BY <1>1 DEF TableIs
  <2>2. QED
    BY <2>1, CapIs, InitialCapAssumption DEF Cap, IsTable
<1>3. TableInv
  BY <1>1, <1>2 DEF TableInv
<1>4. IterInv
  <2>1. ~steady
    BY Zenon DEF Init
  <2>2. cursor \in 0 .. Cap
    BY <1>2 DEF Init
  <2>3. QED
    BY <2>1, <2>2 DEF IterInv
<1>5. reply.res = "ok"
  BY ReplyIs DEF Init
<1>6. SparseInv
  BY <1>2, <1>5 DEF SparseInv, Init
<1>7. RefusedOnlyWhenFull
  BY <1>5 DEF RefusedOnlyWhenFull
<1>8. QED
  BY <1>3, <1>4, <1>6, <1>7 DEF Inv

LEMMA SetKeepsInv ==
  ASSUME Inv, NEW k \in Keys, NEW v \in Vals, Set(k, v)
  PROVE  Inv'
<1>1. PICK s, c : SetsIn(s, c, k, v)
  BY SetIs DEF Inv
<1>2. /\ TableIs(s, len, c) /\ TableIs(slots', len', c) /\ len' \in {len, len + 1}
      /\ Cap' = c /\ TableIs(slots, len, Cap)
  BY <1>1 DEF SetsIn, Inv, TableInv, Set, Cap
<1>3. /\ len \in Nat /\ len <= Cap /\ Cap \in Nat /\ Cap >= 2 /\ len <= c /\ c \in Nat
      /\ len' \in Nat
  BY <1>2, LenIs
<1>4. TableInv'
  <2>1. Hashed' /\ hash' = hash
    BY DEF Inv, TableInv, Hashed, Set
  <2>2. TableIs(slots, len, Cap)'
    BY <1>2, <2>1 DEF TableIs, AllReached, Reaches, Guess
  <2>3. QED
    BY <2>1, <2>2 DEF TableInv
<1>5. IterInv'
  <2>1. ~steady'
    BY Zenon DEF Set
  <2>2. cursor' = cursor /\ cursor \in 0 .. Cap
    BY DEF Set, Inv, IterInv
  <2>3. c = Cap \/ c = 4 * Cap
    BY <1>1 DEF SetsIn
  <2>4. cursor' \in 0 .. Cap'
    BY <1>2, <1>3, <2>2, <2>3
  <2>5. QED
    BY <2>1, <2>4 DEF IterInv
<1>6. /\ reply'.res = "EXFULL" => /\ slots' = s /\ len' = len
                                  /\ \A p \in 0 .. c - 1 : Taken(s, p) /\ s[p].key # NoKey
  BY <1>1, ReplyIs DEF SetsIn, Refuses, Gives, Misplaces, Spoils
<1>7. SparseInv'
  <2>1. SUFFICES ASSUME ~starved' PROVE 4 * len' < c + 4 /\ reply'.res # "EXFULL"
    BY <1>2 DEF SparseInv
  <2>2. CASE c = Cap /\ 4 * len < c
    <3>1. 4 * len' < c + 4
      <4>1. len' = len \/ len' = len + 1
        BY <1>2
      <4>2. \A a, b, d \in Nat : 4 * a < d /\ (b = a \/ b = a + 1) => 4 * b < d + 4
        OBVIOUS
      <4>3. QED
        BY <1>3, <2>2, <4>1, <4>2
    <3>2. ASSUME reply'.res = "EXFULL" PROVE FALSE
      <4>1. \A p \in 0 .. c - 1 : Taken(s, p) /\ s[p].key # NoKey
        BY <1>6, <3>2
      <4>2. IsTable(s, c) /\ len = Cardinality(KeyedIn(s))
        BY <1>2 DEF TableIs
      <4>3. KeyedIn(s) = 0 .. c - 1
        BY <4>1, <4>2, KeyedIs
      <4>4. Cardinality(0 .. c - 1) = c
        BY <1>3, FS_Interval
      <4>5. QED
        BY <1>3, <2>2, <4>2, <4>3, <4>4
    <3>3. QED
      BY <3>1, <3>2
  <2>3. CASE c = 4 * Cap /\ starved' = starved
    <3>1. ~starved
      BY <2>1, <2>3, Zenon
    <3>2. 4 * len < Cap + 4
      BY <3>1 DEF Inv, SparseInv
    <3>3. 4 * len' < c + 4
      <4>1. len' = len \/ len' = len + 1
        BY <1>2
      <4>2. \A a, b, d \in Nat :
              4 * a < d + 4 /\ d >= 2 /\ (b = a \/ b = a + 1) => 4 * b < 4 * d + 4
        OBVIOUS
      <4>3. QED
        BY <1>3, <2>3, <3>2, <4>1, <4>2
    <3>4. ASSUME reply'.res = "EXFULL" PROVE FALSE
      <4>1. \A p \in 0 .. c - 1 : Taken(s, p) /\ s[p].key # NoKey
        BY <1>6, <3>4
      <4>2. IsTable(s, c) /\ len = Cardinality(KeyedIn(s))
        BY <1>2 DEF TableIs
      <4>3. KeyedIn(s) = 0 .. c - 1
        BY <4>1, <4>2, KeyedIs
      <4>4. Cardinality(0 .. c - 1) = c
        BY <1>3, FS_Interval
      <4>5. QED
        BY <1>3, <2>3, <3>2, <4>2, <4>3, <4>4
    <3>5. QED
      BY <3>3, <3>4
  <2>4. ~(starved' = TRUE)
    BY <2>1, Zenon
  <2>5. QED
    BY <1>1, <2>2, <2>3, <2>4 DEF SetsIn
<1>8. RefusedOnlyWhenFull'
  <2>1. ASSUME reply'.res = "EXFULL", NEW p \in DOMAIN slots' PROVE slots'[p].occupied
    <3>1. slots' = s /\ DOMAIN s = 0 .. c - 1
      BY <1>2, <1>6, <2>1 DEF TableIs, IsTable
    <3>2. Taken(s, p)
      BY <1>6, <2>1, <3>1
    <3>3. QED
      BY <3>1, <3>2 DEF Taken
  <2>2. QED
    BY <2>1 DEF RefusedOnlyWhenFull
<1>9. QED
  BY <1>4, <1>5, <1>7, <1>8 DEF Inv

LEMMA SameTable ==
  ASSUME Inv, UNCHANGED <<hash, slots, len, storage>>
  PROVE  TableInv' /\ Cap' = Cap
<1>1. Cap' = Cap
  BY DEF Cap
<1>2. Hashed'
  BY DEF Inv, TableInv, Hashed
<1>3. CASE TableIs(slots, len, Cap)
  <2>1. TableIs(slots, len, Cap)'
    BY <1>1, <1>3 DEF TableIs, AllReached, Reaches, Guess
  <2>2. QED
    BY <1>1, <1>2, <2>1, Zenon DEF TableInv
<1>4. CASE slots = Blank(0) /\ len = 0 /\ ~Alive
  <2>1. slots' = Blank(0) /\ len' = 0 /\ ~Alive'
    BY <1>4 DEF Alive
  <2>2. QED
    BY <1>1, <1>2, <2>1, Zenon DEF TableInv
<1>5. QED
  BY <1>1, <1>3, <1>4 DEF Inv, TableInv

LEMMA GetKeepsInv ==
  ASSUME Inv, NEW k \in Keys, Get(k)
  PROVE  Inv'
<1>1. UNCHANGED <<hash, slots, len, storage, cursor, starved, yielded, steady>>
  BY DEF Get, table
<1>2. TableInv' /\ Cap' = Cap
  BY <1>1, SameTable
<1>3. /\ reply'.res \in {"ok", "ENODATA"}
      /\ reply' # Reply(<<"iterate">>, "ENODATA", <<>>)
  <2>1. \E o : \E r \in {"ok", "ENODATA"} : reply' = Reply(<<"get", k>>, r, o)
    BY DEF Get
  <2>2. QED
    BY <2>1, ReplyIs
<1>4. IterInv'
  <2>1. cursor' \in 0 .. Cap'
    BY <1>1, <1>2 DEF Inv, IterInv
  <2>2. ASSUME steady' PROVE steady
    BY <1>1, <2>2, Zenon
  <2>3. QED
    BY <1>1, <1>3, <2>1, <2>2 DEF Inv, IterInv, Taken
<1>5. SparseInv'
  <2>1. ASSUME ~starved' PROVE ~starved
    BY <1>1, <2>1, Zenon
  <2>2. QED
    BY <1>1, <1>2, <1>3, <2>1 DEF Inv, SparseInv
<1>6. RefusedOnlyWhenFull'
  BY <1>3 DEF RefusedOnlyWhenFull
<1>7. QED
  BY <1>2, <1>4, <1>5, <1>6 DEF Inv

LEMMA IterateStartKeepsInv ==
  ASSUME Inv, IterateStart
  PROVE  Inv'
<1>1. UNCHANGED <<hash, slots, len, storage, starved>> /\ cursor' = 0 /\ yielded' = <<>>
  BY DEF IterateStart, table
<1>2. TableInv' /\ Cap' = Cap
  BY <1>1, SameTable
<1>3. reply'.res = "ok"
  BY ReplyIs DEF IterateStart
<1>4. IterInv'
  <2>1. cursor' \in 0 .. Cap' /\ Cap \in Nat
    <3>1. Cap \in Nat
      <4>1. TableIs(slots, len, Cap)
        BY DEF Inv, TableInv, IterateStart
      <4>2. QED
        BY <4>1 DEF TableIs
    <3>2. QED
      BY <1>1, <1>2, <3>1
  <2>2. yielded' \in Seq(Keys \cup {NoKey}) /\ DOMAIN yielded' = {}
    BY <1>1
  <2>3. reply' # Reply(<<"iterate">>, "ENODATA", <<>>)
    BY <1>3, ReplyIs
  <2>4. 0 .. cursor' - 1 = {}
    BY <1>1
  <2>5. QED
    BY <2>1, <2>2, <2>3, <2>4 DEF IterInv
<1>5. SparseInv'
  <2>1. ASSUME ~starved' PROVE ~starved
    BY <1>1, <2>1, Zenon
  <2>2. QED
    BY <1>1, <1>2, <1>3, <2>1 DEF Inv, SparseInv
<1>6. RefusedOnlyWhenFull'
  BY <1>3 DEF RefusedOnlyWhenFull
<1>7. QED
  BY <1>2, <1>4, <1>5, <1>6 DEF Inv

LEMMA AheadIs ==
  ASSUME NEW s, NEW n, IsTable(s, n), s = slots, n = Cap, cursor \in 0 .. Cap
  PROVE  /\ \A p : p \in Ahead <=> p \in cursor .. n - 1 /\ Taken(s, p)
         /\ Ahead # {} => Min(Ahead) \in Ahead /\ \A p \in Ahead : Min(Ahead) <= p
<1>1. n \in Nat /\ DOMAIN s = 0 .. n - 1
  BY DEF IsTable
<1>2. ASSUME NEW p PROVE p \in Ahead <=> p \in cursor .. n - 1 /\ Taken(s, p)
  <2>1. p \in cursor .. n - 1 => p \in 0 .. n - 1
    BY <1>1
  <2>2. QED
    BY <1>1, <2>1 DEF Ahead, Taken
<1>3. Ahead \in SUBSET Nat
  BY <1>1 DEF Ahead
<1>4. QED
  BY <1>2, <1>3, MinExists

LEMMA IterateNextKeepsInv ==
  ASSUME Inv, IterateNext
  PROVE  Inv'
<1>1. UNCHANGED <<hash, slots, len, storage, starved, steady>>
  BY DEF IterateNext, table
<1>2. TableInv' /\ Cap' = Cap /\ Hashed
  BY <1>1, SameTable DEF Inv, TableInv
<1>3. /\ TableIs(slots, len, Cap) /\ IsTable(slots, Cap) /\ AllReached(slots, Cap)
      /\ Cap \in Nat /\ cursor \in 0 .. Cap
  <2>1. TableIs(slots, len, Cap)
    BY DEF Inv, TableInv, IterateNext
  <2>2. QED
    BY <2>1 DEF TableIs, Inv, IterInv
<1>4. /\ \A p : p \in Ahead <=> p \in cursor .. Cap - 1 /\ Taken(slots, p)
      /\ Ahead # {} => Min(Ahead) \in Ahead /\ \A p \in Ahead : Min(Ahead) <= p
  BY <1>3, AheadIs
<1>5. reply'.res \in {"ok", "ENODATA"}
  BY ReplyIs DEF IterateNext
<1>6. IterInv'
  <2>1. CASE Ahead = {}
    <3>1. cursor' = Cap /\ yielded' = yielded
      BY <2>1 DEF IterateNext
    <3>2. ASSUME steady' PROVE steady
      BY <1>1, <3>2, Zenon
    <3>3. ASSUME NEW p \in 0 .. Cap - 1, Taken(slots, p) PROVE p \in 0 .. cursor - 1
      BY <1>3, <1>4, <2>1, <3>3
    <3>4. \A p \in 0 .. cursor - 1 : p \in 0 .. Cap - 1
      BY <1>3
    <3>5. cursor' \in 0 .. Cap'
      BY <1>2, <1>3, <3>1
    <3>6. ASSUME NEW k
          PROVE  (\E p \in 0 .. cursor' - 1 : Taken(slots', p) /\ slots'[p].key = k)
                   <=> (\E p \in 0 .. cursor - 1 : Taken(slots, p) /\ slots[p].key = k)
      BY <1>1, <3>1, <3>3, <3>4
    <3>7. QED
      BY <1>2, <3>1, <3>2, <3>5, <3>6 DEF Inv, IterInv, Taken
  <2>2. CASE Ahead # {}
    <3> DEFINE p == Min(Ahead)
               x == slots[p].key
    <3>1. /\ cursor' = p + 1 /\ reply' = Reply(<<"iterate">>, "ok", <<x, slots[p].val>>)
          /\ yielded' = IF steady THEN Append(yielded, x) ELSE yielded
      BY <2>2 DEF IterateNext
    <3>2. p \in cursor .. Cap - 1 /\ Taken(slots, p) /\ \A q \in Ahead : p <= q
      BY <1>4, <2>2
    <3> HIDE DEF p
    <3>3. p \in 0 .. Cap - 1 /\ x \in Keys \cup {NoKey}
      <4>1. p \in 0 .. Cap - 1
        BY <1>3, <3>2
      <4>2. QED
        BY <1>3, <3>2, <4>1, TakenIs
    <3>4. cursor' \in 0 .. Cap'
      BY <1>2, <1>3, <3>1, <3>3
    <3>5. SUFFICES ASSUME steady'
                   PROVE  /\ yielded' \in Seq(Keys \cup {NoKey})
                          /\ \A i, j \in DOMAIN yielded' :
                               yielded'[i] = yielded'[j] /\ yielded'[i] # NoKey => i = j
                          /\ \A k : (\E i \in DOMAIN yielded' : yielded'[i] = k)
                                <=> (\E q \in 0 .. cursor' - 1 : Taken(slots', q) /\ slots'[q].key = k)
                          /\ reply' # Reply(<<"iterate">>, "ENODATA", <<>>)
      BY <3>4 DEF IterInv, Taken
    <3>6. steady
      BY <1>1, <3>5, Zenon
    <3>7. /\ yielded \in Seq(Keys \cup {NoKey})
          /\ \A i, j \in DOMAIN yielded : yielded[i] = yielded[j] /\ yielded[i] # NoKey => i = j
          /\ \A k : (\E i \in DOMAIN yielded : yielded[i] = k)
                       <=> (\E q \in 0 .. cursor - 1 : Taken(slots, q) /\ slots[q].key = k)
      BY <3>6 DEF Inv, IterInv
    <3>8. yielded' = Append(yielded, x)
      BY <3>1, <3>6
    <3> DEFINE m == Len(yielded)
    <3>9. /\ yielded' \in Seq(Keys \cup {NoKey}) /\ m \in Nat
          /\ DOMAIN yielded = 1 .. m /\ DOMAIN yielded' = 1 .. m + 1
          /\ yielded'[m + 1] = x /\ \A i \in 1 .. m : yielded'[i] = yielded[i]
      <4> HIDE DEF x
      <4>1. QED
        BY <3>3, <3>7, <3>8
    <3> HIDE DEF m
    <3>10. x # NoKey => \A i \in 1 .. m : yielded[i] # x
      <4>1. SUFFICES ASSUME x # NoKey, NEW i \in 1 .. m, yielded[i] = x PROVE FALSE
        OBVIOUS
      <4>2. PICK q \in 0 .. cursor - 1 : Taken(slots, q) /\ slots[q].key = x
        BY <3>7, <3>9, <4>1
      <4>3. q \in 0 .. Cap - 1 /\ q # p
        BY <1>3, <3>2
      <4>4. QED
        BY <1>2, <1>3, <3>2, <3>3, <4>1, <4>2, <4>3, OneSlot
    <3>11. ASSUME NEW i \in DOMAIN yielded', NEW j \in DOMAIN yielded',
                  yielded'[i] = yielded'[j], yielded'[i] # NoKey
           PROVE  i = j
      <4> HIDE DEF x
      <4>1. (i \in 1 .. m \/ i = m + 1) /\ (j \in 1 .. m \/ j = m + 1)
        BY <3>9
      <4>2. QED
        BY <3>7, <3>9, <3>10, <3>11, <4>1
    <3>12. ASSUME NEW q
           PROVE  (q \in 0 .. cursor' - 1 /\ Taken(slots, q))
                    <=> ((q \in 0 .. cursor - 1 /\ Taken(slots, q)) \/ q = p)
      <4>1. q \in cursor .. p - 1 => q \in cursor .. Cap - 1 /\ ~(p <= q)
        BY <1>3, <3>2
      <4>2. q \in cursor .. p - 1 => ~Taken(slots, q)
        BY <1>4, <3>2, <4>1
      <4>3. q \in 0 .. cursor' - 1 <=> q \in 0 .. cursor - 1 \/ q \in cursor .. p - 1 \/ q = p
        BY <1>3, <3>1, <3>2, <3>3
      <4>4. QED
        BY <3>2, <4>2, <4>3
    <3>13. ASSUME NEW k
           PROVE  (\E i \in DOMAIN yielded' : yielded'[i] = k)
                    <=> (\E q \in 0 .. cursor' - 1 : Taken(slots', q) /\ slots'[q].key = k)
      <4>1. (\E i \in DOMAIN yielded' : yielded'[i] = k)
              <=> (\E i \in DOMAIN yielded : yielded[i] = k) \/ k = x
        <5>1. \A i : i \in 1 .. m + 1 <=> i \in 1 .. m \/ i = m + 1
          BY <3>9
        <5> HIDE DEF x
        <5>2. QED
          BY <3>9, <5>1
      <4>2. (\E q \in 0 .. cursor' - 1 : Taken(slots, q) /\ slots[q].key = k)
              <=> (\E q \in 0 .. cursor - 1 : Taken(slots, q) /\ slots[q].key = k) \/ k = x
        BY <3>12
      <4> HIDE DEF x
      <4>3. slots' = slots
        BY <1>1
      <4>4. QED
        BY <3>7, <4>1, <4>2, <4>3
    <3>14. reply' # Reply(<<"iterate">>, "ENODATA", <<>>)
      <4>1. reply'.res = "ok"
        BY <3>1, ReplyIs
      <4>2. QED
        BY <4>1, ReplyIs
    <3>15. QED
      BY <3>9, <3>11, <3>13, <3>14
  <2>3. QED
    BY <2>1, <2>2
<1>7. SparseInv'
  <2>1. ASSUME ~starved' PROVE ~starved
    BY <1>1, <2>1, Zenon
  <2>2. QED
    BY <1>1, <1>2, <1>5, <2>1 DEF Inv, SparseInv
<1>8. RefusedOnlyWhenFull'
  BY <1>5 DEF RefusedOnlyWhenFull
<1>9. QED
  BY <1>2, <1>6, <1>7, <1>8 DEF Inv

LEMMA BlankZero ==
  /\ IsTable(Blank(0), 0) /\ AllReached(Blank(0), 0) /\ DOMAIN Blank(0) = {} /\ CapOf(Blank(0)) = 0
  /\ KeyedIn(Blank(0)) = {} /\ TakenSet(Blank(0)) = {}
<1>1. IsTable(Blank(0), 0) /\ AllReached(Blank(0), 0)
  BY BlankIs
<1>2. DOMAIN Blank(0) = {}
  BY DEF Blank
<1>3. TakenSet(Blank(0)) = {}
  BY <1>2 DEF TakenSet
<1>4. CapOf(Blank(0)) = 0
  BY <1>2, FS_EmptySet DEF CapOf
<1>5. QED
  BY <1>1, <1>2, <1>3, <1>4 DEF KeyedIn

LEMMA DestroyKeepsInv ==
  ASSUME Inv, Destroy
  PROVE  Inv'
<1>1. /\ hash' = hash /\ slots' = Blank(0) /\ len' = 0 /\ cursor' = 0
      /\ reply' = Reply(<<"destroy">>, "ok", <<>>)
  BY DEF Destroy
<1>2. Cap' = 0
  BY <1>1, BlankZero DEF Cap
<1>3. ~Alive'
  BY DEF Destroy, Store!Release, Store!Array!Blank, Alive
<1>4. TableInv'
  <2>1. Hashed'
    BY <1>1 DEF Inv, TableInv, Hashed
  <2>2. QED
    BY <1>1, <1>3, <2>1, Zenon DEF TableInv
<1>5. IterInv'
  <2>1. ~steady'
    BY Zenon DEF Destroy
  <2>2. cursor' \in 0 .. Cap'
    BY <1>1, <1>2
  <2>3. QED
    BY <2>1, <2>2 DEF IterInv
<1>6. reply'.res = "ok"
  BY <1>1, ReplyIs
<1>7. SparseInv'
  BY <1>1, <1>2, <1>6 DEF SparseInv
<1>8. RefusedOnlyWhenFull'
  BY <1>6 DEF RefusedOnlyWhenFull
<1>9. QED
  BY <1>4, <1>5, <1>7, <1>8 DEF Inv

LEMMA InvNext ==
  ASSUME Inv, [Next]_vars
  PROVE  Inv'
<1>1. CASE UNCHANGED vars
  <2>1. /\ UNCHANGED <<hash, slots, len, storage>> /\ cursor' = cursor /\ reply' = reply
        /\ yielded' = yielded /\ steady' = steady /\ starved' = starved
    BY <1>1 DEF vars
  <2>2. TableInv' /\ Cap' = Cap
    BY <2>1, SameTable
  <2>3. ASSUME steady' PROVE steady
    BY <2>1, <2>3, Zenon
  <2>4. ASSUME ~starved' PROVE ~starved
    BY <2>1, <2>4, Zenon
  <2>5. IterInv'
    BY <2>1, <2>2, <2>3 DEF Inv, IterInv, Taken
  <2>6. SparseInv'
    BY <2>1, <2>2, <2>4 DEF Inv, SparseInv
  <2>7. RefusedOnlyWhenFull'
    BY <2>1 DEF Inv, RefusedOnlyWhenFull
  <2>8. QED
    BY <2>2, <2>5, <2>6, <2>7 DEF Inv
<1>2. ASSUME NEW k \in Keys, Get(k) PROVE Inv'
  BY <1>2, GetKeepsInv
<1>3. ASSUME NEW k \in Keys, NEW v \in Vals, Set(k, v) PROVE Inv'
  BY <1>3, SetKeepsInv
<1>4. CASE IterateStart
  BY <1>4, IterateStartKeepsInv
<1>5. CASE IterateNext
  BY <1>5, IterateNextKeepsInv
<1>6. CASE Destroy
  BY <1>6, DestroyKeepsInv
<1>7. QED
  BY <1>1, <1>2, <1>3, <1>4, <1>5, <1>6 DEF Next

LEMMA Invariance == Spec => []Inv
<1>1. Init => Inv
  BY InvInit
<1>2. Inv /\ [Next]_vars => Inv'
  BY InvNext
<1>3. QED
  BY <1>1, <1>2, PTL DEF Spec

-----------------------------------------------------------------------------
(***************************************************************************)
(* The theorems                                                            *)
(***************************************************************************)
\* A set is refused only when there is no room at all, whatever the offset and
\* the iterate of the key: an odd step visits every slot of a table whose
\* capacity is a power of two (nkht_set, nkht.c).
THEOREM RefusedWhenFull == Spec => []RefusedOnlyWhenFull
<1>1. Inv => RefusedOnlyWhenFull
  BY DEF Inv
<1>2. QED
  BY <1>1, Invariance, PTL

\* Every key is counted once, and while the table can grow it has room for
\* more: four keys more than a quarter of the slots are never reached, and no set
\* is refused (nkht_set, nkht_double).
THEOREM Sparse == Spec => []StaysSparse
<1>1. ASSUME Inv PROVE StaysSparse
  <2>1. Keyed = KeyedIn(slots)
    BY DEF Keyed, KeyedIn, Occupied, TakenSet
  <2>2. len = Cardinality(KeyedIn(slots))
    <3>1. CASE TableIs(slots, len, Cap)
      BY <3>1 DEF TableIs
    <3>2. CASE slots = Blank(0) /\ len = 0
      BY <3>2, BlankZero, FS_EmptySet
    <3>3. QED
      BY <1>1, <3>1, <3>2 DEF Inv, TableInv
  <2>3. QED
    BY <1>1, <2>1, <2>2 DEF StaysSparse, Inv, SparseInv
<1>2. QED
  BY <1>1, Invariance, PTL

\* An iteration that ends, with no set since it started, has met every key of
\* the table, each once (nkht_iterate_next).
THEOREM IteratesOverAll == Spec => []IterationExact
<1>1. ASSUME Inv PROVE IterationExact
  <2>1. SUFFICES ASSUME steady, reply = Reply(<<"iterate">>, "ENODATA", <<>>)
                 PROVE  /\ \A i, j \in DOMAIN yielded :
                             yielded[i] = yielded[j] /\ yielded[i] # NoKey => i = j
                        /\ Range(yielded) = Stored
    BY DEF IterationExact
  <2>2. /\ \A i, j \in DOMAIN yielded : yielded[i] = yielded[j] /\ yielded[i] # NoKey => i = j
        /\ \A k : (\E i \in DOMAIN yielded : yielded[i] = k)
                     <=> (\E p \in 0 .. Cap - 1 : Taken(slots, p) /\ slots[p].key = k)
    BY <1>1, <2>1 DEF Inv, IterInv
  <2>3. DOMAIN slots = 0 .. Cap - 1
    <3>1. CASE TableIs(slots, len, Cap)
      BY <3>1 DEF TableIs, IsTable
    <3>2. CASE slots = Blank(0)
      BY <3>2, BlankZero DEF Cap
    <3>3. QED
      BY <1>1, <3>1, <3>2 DEF Inv, TableInv
  <2>4. Range(yielded) = Stored
    BY <2>2, <2>3 DEF Range, Stored, Occupied, Taken
  <2>5. QED
    BY <2>2, <2>4
<1>2. QED
  BY <1>1, Invariance, PTL

-----------------------------------------------------------------------------
(***************************************************************************)
(* The table is a map                                                      *)
(***************************************************************************)
LEMMA AbsIs ==
  /\ [k \in Keys |-> Value(k)] = ValuesIn(slots)
  /\ (NoKey \in Stored) <=> HasKeyless(slots)
<1>1. TakenSet(slots) = Occupied
  BY DEF TakenSet, Occupied
<1>2. \A k : Value(k) = ValueIn(slots, k)
  BY <1>1 DEF Value, ValueIn
<1>3. (NoKey \in Stored) <=> HasKeyless(slots)
  BY DEF Stored, Occupied, HasKeyless
<1>4. QED
  BY <1>2, <1>3 DEF ValuesIn

LEMMA AbsNext ==
  /\ [k \in Keys |-> Value(k)]' = ValuesIn(slots')
  /\ (NoKey \in Stored)' <=> HasKeyless(slots')
<1>1. TakenSet(slots') = Occupied'
  BY DEF TakenSet, Occupied
<1>2. ASSUME NEW k \in Keys PROVE Value(k)' = ValueIn(slots', k)
  BY <1>1 DEF Value, ValueIn
<1>3. (NoKey \in Stored)' <=> HasKeyless(slots')
  BY DEF Stored, Occupied, HasKeyless
<1>4. QED
  BY <1>2, <1>3 DEF ValuesIn

LEMMA BlankValues ==
  ASSUME NEW n \in Nat
  PROVE  ValuesIn(Blank(n)) = [k \in Keys |-> NoVal] /\ ~HasKeyless(Blank(n))
<1>1. IsTable(Blank(n), n) /\ \A p \in 0 .. n - 1 : ~Taken(Blank(n), p)
  BY BlankIs
<1>2. \A k \in Keys : ValueIn(Blank(n), k) = NoVal
  BY <1>1, NoValueIs
<1>3. ~HasKeyless(Blank(n))
  BY <1>1 DEF HasKeyless, IsTable, Taken
<1>4. QED
  BY <1>2, <1>3 DEF ValuesIn

LEMMA SetIsMapSet ==
  ASSUME Inv, NEW k \in Keys, NEW v \in Vals, Set(k, v)
  PROVE  Abstract!Set(k, v)
<1> DEFINE map == [x \in Keys |-> Value(x)]
           spoilt == NoKey \in Stored
<1>1. PICK s, c : SetsIn(s, c, k, v)
  BY SetIs DEF Inv
<1>2. /\ map = ValuesIn(slots) /\ map' = ValuesIn(slots')
      /\ spoilt <=> HasKeyless(slots)
      /\ spoilt' <=> HasKeyless(slots')
  <2>1. map = ValuesIn(slots) /\ (spoilt <=> HasKeyless(slots))
    BY AbsIs
  <2>2. map' = ValuesIn(slots') /\ (spoilt' <=> HasKeyless(slots'))
    BY AbsNext
  <2>3. QED
    BY <2>1, <2>2
<1>3. /\ ValuesIn(s) = ValuesIn(slots) /\ (HasKeyless(s) <=> HasKeyless(slots))
      /\ \/ Refuses(s, len, c, k, v) \/ Gives(s, k, v) \/ Misplaces(s, k, v) \/ Spoils(s, k, v)
  BY <1>1 DEF SetsIn
<1>4. map[k] = ValueIn(s, k) /\ \A x \in Keys : map[x] = ValueIn(s, x)
  <2>1. map = ValuesIn(s)
    BY <1>2, <1>3
  <2> HIDE DEF map
  <2>2. QED
    BY <2>1 DEF ValuesIn
<1>5. CASE Refuses(s, len, c, k, v)
  <2>1. /\ map[k] = NoVal /\ map' = map /\ spoilt' = spoilt
        /\ reply' = Reply(<<"set", k, v>>, "EXFULL", <<>>)
    BY <1>2, <1>3, <1>4, <1>5 DEF Refuses
  <2>2. QED
    BY <2>1 DEF Abstract!Set, Abstract!Reply, Reply
<1>6. CASE Gives(s, k, v)
  <2>1. /\ map' = [x \in Keys |-> IF x = k THEN v ELSE ValueIn(s, x)] /\ spoilt' = spoilt
        /\ reply' = Reply(<<"set", k, v>>, "ok", <<>>)
    BY <1>2, <1>3, <1>6 DEF Gives
  <2>2. map' = [map EXCEPT ![k] = v]
    <3>1. map = [x \in Keys |-> map[x]]
      OBVIOUS
    <3> HIDE DEF map
    <3>2. QED
      BY <1>4, <2>1, <3>1
  <2>3. QED
    BY <2>1, <2>2 DEF Abstract!Set, Abstract!Reply, Reply
<1>7. CASE Misplaces(s, k, v)
  <2>1. /\ map[k] = NoVal /\ map' = map /\ spoilt /\ spoilt' = spoilt
        /\ reply' = Reply(<<"set", k, v>>, "ok", <<>>)
    BY <1>2, <1>3, <1>4, <1>7 DEF Misplaces
  <2>2. QED
    BY <2>1 DEF Abstract!Set, Abstract!Reply, Reply
<1>8. CASE Spoils(s, k, v)
  <2>1. /\ map[k] = NoVal /\ map' = map /\ spoilt' = TRUE
        /\ reply' = Reply(<<"set", k, v>>, "ENOTRECOVERABLE", <<>>)
    BY <1>2, <1>3, <1>4, <1>8 DEF Spoils
  <2>2. QED
    BY <2>1 DEF Abstract!Set, Abstract!Reply, Reply
<1>9. QED
  BY <1>3, <1>5, <1>6, <1>7, <1>8

LEMMA SameMap ==
  ASSUME UNCHANGED slots
  PROVE  /\ [k \in Keys |-> Value(k)]' = [k \in Keys |-> Value(k)]
         /\ (NoKey \in Stored)' = (NoKey \in Stored)
<1>1. /\ [k \in Keys |-> Value(k)] = ValuesIn(slots)
      /\ [k \in Keys |-> Value(k)]' = ValuesIn(slots')
  BY AbsIs, AbsNext
<1>2. (NoKey \in Stored) <=> HasKeyless(slots)
  BY AbsIs
<1>3. (NoKey \in Stored)' <=> HasKeyless(slots')
  BY AbsNext
<1>4. QED
  BY <1>1, <1>2, <1>3

LEMMA GetIsMapGet ==
  ASSUME Inv, NEW k \in Keys, Get(k)
  PROVE  Abstract!Get(k)
<1> DEFINE map == [x \in Keys |-> Value(x)]
           spoilt == NoKey \in Stored
<1>1. /\ Hashed /\ IsTable(slots, Cap) /\ AllReached(slots, Cap) /\ Cap # 0
      /\ map' = map /\ spoilt' = spoilt
  <2>1. Hashed /\ TableIs(slots, len, Cap) /\ UNCHANGED slots
    BY DEF Inv, TableInv, Get, table
  <2>2. IsTable(slots, Cap) /\ AllReached(slots, Cap) /\ Cap \in Nat /\ Cap >= 2
    BY <2>1, LenIs
  <2>3. map' = map
    BY <2>1, SameMap
  <2>4. spoilt' = spoilt
    BY <2>1, SameMap
  <2>5. QED
    BY <2>1, <2>2, <2>3, <2>4
<1>2. map[k] = ValueIn(slots, k)
  <2>1. map = ValuesIn(slots)
    BY AbsIs
  <2> HIDE DEF map
  <2>2. QED
    BY <2>1 DEF ValuesIn
<1> DEFINE p == Spot(slots, k)
<1>3. CASE Holds(slots, k)
  <2>1. Searchable(slots, k) /\ reply' = Reply(<<"get", k>>, "ok", <<slots[p].val>>)
    BY <1>3 DEF Get, Holds
  <2>2. p \in 0 .. Cap - 1 /\ Taken(slots, p) /\ slots[p].key \in {k, NoKey}
    BY <1>1, <1>3, <2>1, SpotReached
  <2>3. CASE slots[p].key = k
    <3>1. ValueIn(slots, k) = slots[p].val /\ ValueIn(slots, k) # NoVal
      BY <1>1, <2>2, <2>3, ValueIs
    <3>2. map[k] # NoVal /\ reply' = Reply(<<"get", k>>, "ok", <<map[k]>>)
      BY <1>2, <2>1, <3>1
    <3>3. QED
      BY <1>1, <3>2 DEF Abstract!Get, Abstract!Reply, Reply
  <2>4. CASE slots[p].key = NoKey
    <3>1. ValueIn(slots, k) = NoVal
      BY <1>1, <2>4, NoKeyAssumption, AbsentIs
    <3>2. spoilt
      <4>1. HasKeyless(slots)
        BY <2>2, <2>4 DEF HasKeyless, Taken
      <4>2. QED
        BY <4>1, AbsIs
    <3>3. slots[p].val \in Vals \cup {NoVal}
      BY <1>1, <2>2, TakenIs DEF IsEntry
    <3>4. map[k] = NoVal
      BY <1>2, <3>1
    <3> HIDE DEF p
    <3>5. QED
      BY <1>1, <2>1, <3>2, <3>3, <3>4 DEF Abstract!Get, Abstract!Reply, Reply
  <2>5. QED
    BY <2>2, <2>3, <2>4
<1>4. CASE ~Holds(slots, k)
  <2>1. ValueIn(slots, k) = NoVal
    BY <1>1, <1>4, AbsentIs
  <2>2. map[k] = NoVal /\ reply' = Reply(<<"get", k>>, "ENODATA", <<>>)
    BY <1>2, <1>4, <2>1 DEF Get
  <2>3. QED
    BY <1>1, <2>2 DEF Abstract!Get, Abstract!Reply, Reply
<1>5. QED
  BY <1>3, <1>4

LEMMA IterateIsMapIterate ==
  ASSUME Inv, IterateNext
  PROVE  Abstract!Iterate
<1> DEFINE map == [x \in Keys |-> Value(x)]
           spoilt == NoKey \in Stored
<1>1. /\ Hashed /\ IsTable(slots, Cap) /\ AllReached(slots, Cap) /\ cursor \in 0 .. Cap
      /\ map' = map /\ spoilt' = spoilt
  <2>1. Hashed /\ TableIs(slots, len, Cap) /\ UNCHANGED slots /\ cursor \in 0 .. Cap
    BY DEF Inv, TableInv, IterInv, IterateNext, table
  <2>2. IsTable(slots, Cap) /\ AllReached(slots, Cap)
    BY <2>1, LenIs
  <2>3. map' = map
    BY <2>1, SameMap
  <2>4. spoilt' = spoilt
    BY <2>1, SameMap
  <2>5. QED
    BY <2>1, <2>2, <2>3, <2>4
<1>2. CASE Ahead = {}
  <2>1. reply' = Reply(<<"iterate">>, "ENODATA", <<>>)
    BY <1>2 DEF IterateNext
  <2>2. QED
    BY <1>1, <2>1 DEF Abstract!Iterate, Abstract!Reply, Reply
<1>3. CASE Ahead # {}
  <2> DEFINE p == Min(Ahead)
             k == slots[p].key
  <2>1. reply' = Reply(<<"iterate">>, "ok", <<k, slots[p].val>>)
    BY <1>3 DEF IterateNext
  <2>2. p \in 0 .. Cap - 1 /\ Taken(slots, p)
    <3>1. p \in Ahead
      BY <1>1, <1>3, AheadIs
    <3>2. p \in cursor .. Cap - 1 /\ Taken(slots, p)
      BY <1>1, <3>1, AheadIs
    <3>3. Cap \in Nat
      BY <1>1 DEF IsTable
    <3>4. QED
      BY <1>1, <3>2, <3>3
  <2> HIDE DEF p
  <2>3. CASE k # NoKey
    <3>1. k \in Keys
      BY <1>1, <2>2, <2>3, TakenIs
    <3>2. ValueIn(slots, k) = slots[p].val /\ ValueIn(slots, k) # NoVal
      BY <1>1, <2>2, <3>1, ValueIs
    <3>3. map[k] = ValueIn(slots, k)
      <4>1. map = ValuesIn(slots)
        BY AbsIs
      <4> HIDE DEF map, k
      <4>2. QED
        BY <3>1, <4>1 DEF ValuesIn
    <3>4. map[k] # NoVal /\ reply' = Reply(<<"iterate">>, "ok", <<k, map[k]>>)
      BY <2>1, <3>2, <3>3
    <3> HIDE DEF k
    <3>5. QED
      BY <1>1, <3>1, <3>4 DEF Abstract!Iterate, Abstract!Reply, Reply
  <2>4. CASE k = NoKey
    <3>1. spoilt
      <4>1. HasKeyless(slots)
        BY <2>2, <2>4 DEF HasKeyless, Taken
      <4>2. QED
        BY <4>1, AbsIs
    <3>2. slots[p].val \in Vals \cup {NoVal}
      BY <1>1, <2>2, TakenIs DEF IsEntry
    <3>3. reply' = Reply(<<"iterate">>, "ok", <<NoKey, slots[p].val>>)
      BY <2>1, <2>4
    <3>4. QED
      BY <1>1, <3>1, <3>2, <3>3 DEF Abstract!Iterate, Abstract!Reply, Reply
  <2>5. QED
    BY <2>3, <2>4
<1>4. QED
  BY <1>2, <1>3

LEMMA InitIsMapInit ==
  ASSUME Init
  PROVE  Abstract!Init
<1>1. InitialCap \in Nat /\ slots = Blank(InitialCap)
  BY InitialCapAssumption DEF Init
<1>2. ValuesIn(slots) = [k \in Keys |-> NoVal] /\ ~HasKeyless(slots)
  BY <1>1, BlankValues
<1>3. [k \in Keys |-> Value(k)] = [k \in Keys |-> NoVal]
  BY <1>2, AbsIs
<1>4. (NoKey \in Stored) = FALSE
  BY <1>2, AbsIs
<1>5. QED
  BY <1>3, <1>4 DEF Abstract!Init, Abstract!Reply, Reply, Init

LEMMA DestroyIsMapDestroy ==
  ASSUME Destroy
  PROVE  Abstract!Destroy
<1>1. slots' = Blank(0)
  BY DEF Destroy
<1>2. ValuesIn(slots') = [k \in Keys |-> NoVal] /\ ~HasKeyless(slots')
  BY <1>1, BlankValues
<1>3. [k \in Keys |-> Value(k)]' = [k \in Keys |-> NoVal]
  BY <1>2, AbsNext
<1>4. (NoKey \in Stored)' = FALSE
  BY <1>2, AbsNext
<1>5. QED
  BY <1>3, <1>4 DEF Abstract!Destroy, Abstract!Reply, Reply, Destroy

\* The table is a map: through collisions, growing and failing to grow, a get
\* finds exactly what was last set (nkht.c).
THEOREM ImplementsMap == Spec => IsMap
<1>1. Init => Abstract!Init
  BY InitIsMapInit
<1>2. Inv /\ [Next]_vars => [Abstract!Next]_Abstract!vars
  <2>1. ASSUME Inv, NEW k \in Keys, NEW v \in Vals, Set(k, v) PROVE Abstract!Next
    BY <2>1, SetIsMapSet DEF Abstract!Next
  <2>2. ASSUME Inv, NEW k \in Keys, Get(k) PROVE Abstract!Next
    BY <2>2, GetIsMapGet DEF Abstract!Next
  <2>3. ASSUME Inv, IterateNext PROVE Abstract!Next
    BY <2>3, IterateIsMapIterate DEF Abstract!Next
  <2>4. ASSUME IterateStart PROVE Abstract!Next
    <3>1. /\ [k \in Keys |-> Value(k)]' = [k \in Keys |-> Value(k)]
          /\ (NoKey \in Stored)' = (NoKey \in Stored)
      BY <2>4, SameMap DEF IterateStart, table
    <3>2. Abstract!Restart
      BY <2>4, <3>1 DEF Abstract!Restart, Abstract!Reply, Reply, IterateStart
    <3>3. QED
      BY <3>2 DEF Abstract!Next
  <2>5. ASSUME Destroy PROVE Abstract!Next
    BY <2>5, DestroyIsMapDestroy DEF Abstract!Next
  <2>6. ASSUME UNCHANGED vars PROVE UNCHANGED Abstract!vars
    <3>1. /\ [k \in Keys |-> Value(k)]' = [k \in Keys |-> Value(k)]
          /\ (NoKey \in Stored)' = (NoKey \in Stored)
      BY <2>6, SameMap DEF vars
    <3>2. QED
      BY <2>6, <3>1 DEF vars, Abstract!vars
  <2>7. QED
    BY <2>1, <2>2, <2>3, <2>4, <2>5, <2>6 DEF Next
<1>3. QED
  BY <1>1, <1>2, Invariance, PTL DEF Spec, IsMap, Abstract!Spec

-----------------------------------------------------------------------------
(***************************************************************************)
(* The table with its key storage: where the text of the keys is, and that *)
(* every arena is freed                                                    *)
(***************************************************************************)

(***************************************************************************)
(* Doubling                                                                *)
(***************************************************************************)
TwoTo == Store!Array!TwoTo

LEMMA TwoToIs ==
  /\ TwoTo[0] = 1 /\ TwoTo[1] = 2
  /\ \A j \in Nat : TwoTo[j] \in Nat /\ TwoTo[j + 1] = 2 * TwoTo[j] /\ TwoTo[j] >= j + 1
<1> DEFINE step == [x \in Nat \X Nat |-> 2 * x[2]]
           Def(f) == f = [j \in Nat |-> IF j = 0 THEN 1 ELSE 2 * f[j - 1]]
<1>1. step \in [Nat \X Nat -> Nat]
  OBVIOUS
<1>2. PICK f \in [Nat -> Nat] : IsRecursiveOnNat(f, 1, step)
  <2> HIDE DEF step
  <2>1. QED
    BY <1>1, RecursiveOnNat
<1>3. ASSUME NEW i \in Nat PROVE f[i + 1] = 2 * f[i]
  <2>1. <<i + 1, f[i]>> \in Nat \X Nat
    OBVIOUS
  <2>2. QED
    BY <1>2, <2>1 DEF IsRecursiveOnNat
<1>4. Def(f)
  <2>1. ASSUME NEW j \in Nat, j # 0 PROVE f[j] = 2 * f[j - 1]
    <3>1. j - 1 \in Nat /\ j - 1 + 1 = j
      BY <2>1
    <3>2. QED
      BY <1>3, <3>1
  <2>2. QED
    BY <1>2, <2>1 DEF IsRecursiveOnNat
<1>5. Def(TwoTo)
  <2>1. TwoTo = CHOOSE h : Def(h)
    BY DEF TwoTo, Store!Array!TwoTo
  <2> HIDE DEF Def
  <2>2. QED
    BY <1>4, <2>1
<1>6. TwoTo[0] = 1 /\ \A j \in Nat : TwoTo[j + 1] = 2 * TwoTo[j]
  <2>1. ASSUME NEW j \in Nat PROVE TwoTo[j + 1] = 2 * TwoTo[j]
    <3>1. j + 1 \in Nat /\ j + 1 # 0 /\ j + 1 - 1 = j
      OBVIOUS
    <3>2. QED
      BY <1>5, <3>1
  <2>2. TwoTo[0] = 1
    BY <1>5
  <2>3. QED
    BY <2>1, <2>2
<1> DEFINE T == {j \in Nat : TwoTo[j] \in Nat /\ TwoTo[j] >= j + 1}
<1>7. 0 \in T
  BY <1>6
<1>8. ASSUME NEW j \in T, j \in Nat PROVE j + 1 \in T
  <2>1. TwoTo[j] \in Nat /\ TwoTo[j] >= j + 1 /\ TwoTo[j + 1] = 2 * TwoTo[j]
    BY <1>6, <1>8
  <2>2. QED
    BY <2>1
<1>9. Nat \subseteq T
  <2> HIDE DEF T
  <2>1. QED
    BY <1>7, <1>8, SetInduction
<1>10. TwoTo[1] = 2
  <2>1. TwoTo[0 + 1] = 2 * TwoTo[0]
    BY <1>6
  <2>2. QED
    BY <1>6, <2>1
<1>11. QED
  BY <1>6, <1>9, <1>10

-----------------------------------------------------------------------------
(***************************************************************************)
(* The array of arenas                                                     *)
(***************************************************************************)
NoArena == Store!NoArena

\* The array when it names the first n arenas, and e more positions name none.
Stock(n, e) ==
  [elems  |-> [i \in 1 .. n + e |-> IF i <= n THEN i ELSE NoArena],
   stored |-> n + e]

LEMMA StockIs ==
  ASSUME NEW n \in Nat, NEW e \in Nat
  PROVE  /\ Stock(n, e).stored = n + e
         /\ Stock(n, e).elems \in Seq(Nat) /\ Len(Stock(n, e).elems) = n + e
         /\ \A i \in 1 .. n + e : Stock(n, e).elems[i] = IF i <= n THEN i ELSE NoArena
<1> DEFINE s == [i \in 1 .. n + e |-> IF i <= n THEN i ELSE NoArena]
<1>1. Stock(n, e).stored = n + e /\ Stock(n, e).elems = s
  BY DEF Stock
<1>2. NoArena = 0
  BY DEF NoArena, Store!NoArena
<1>3. s \in Seq(Nat) /\ Len(s) = n + e /\ \A i \in 1 .. n + e : s[i] = IF i <= n THEN i ELSE NoArena
  <2>1. s \in [1 .. n + e -> Nat]
    BY <1>2
  <2>2. \A i \in 1 .. n + e : s[i] = IF i <= n THEN i ELSE NoArena
    OBVIOUS
  <2>3. DOMAIN s = 1 .. n + e
    OBVIOUS
  <2> HIDE DEF s
  <2>4. n + e \in Nat
    OBVIOUS
  <2>5. s \in Seq(Nat)
    BY <2>1, <2>4
  <2>6. QED
    BY <2>2, <2>3, <2>4, <2>5
<1> HIDE DEF s
<1>4. QED
  BY <1>1, <1>3

LEMMA GrownByOne ==
  ASSUME NEW c \in Nat
  PROVE  Store!Array!GrownCap(c, 1) = c + 1
<1> DEFINE S == {x \in {(c + 1) * TwoTo[j] : j \in 0 .. 1} : x >= c + 1}
<1>1. c + 1 \in S
  <2>1. (c + 1) * TwoTo[0] = c + 1 /\ 0 \in 0 .. 1
    BY TwoToIs
  <2>2. QED
    BY <2>1
<1>2. S \in SUBSET Nat /\ \A x \in S : c + 1 <= x
  <2>1. \A j \in 0 .. 1 : (c + 1) * TwoTo[j] \in Nat
    <3>1. \A j \in 0 .. 1 : j = 0 \/ j = 1
      OBVIOUS
    <3>2. (c + 1) * 1 \in Nat /\ (c + 1) * 2 \in Nat
      OBVIOUS
    <3>3. QED
      BY <3>1, <3>2, TwoToIs
  <2>2. QED
    BY <2>1
<1>3. Store!Array!GrownCap(c, 1) = Min(S)
  BY DEF Store!Array!GrownCap, TwoTo, Min, Store!Array!Min
<1> HIDE DEF S
<1>4. QED
  BY <1>1, <1>2, <1>3, MinIs

\* The array grows by the one position asked for.
LEMMA Growing ==
  ASSUME NEW n \in Nat \ {0}, NEW e \in Nat
  PROVE  Store!Array!Realloced(Stock(n, e), n + e + 1) = Stock(n, e + 1)
<1> DEFINE a == Stock(n, e)
           m == n + e
           z == Store!Array!Zeros(1)
<1>1. /\ a.stored = m /\ a.elems \in Seq(Nat) /\ Len(a.elems) = m /\ m \in Nat \ {0}
      /\ \A i \in 1 .. m : a.elems[i] = IF i <= n THEN i ELSE NoArena
  <2>1. a.stored = m /\ a.elems \in Seq(Nat) /\ Len(a.elems) = m
    BY StockIs
  <2>2. \A i \in 1 .. m : a.elems[i] = IF i <= n THEN i ELSE NoArena
    BY StockIs
  <2>3. m \in Nat \ {0}
    OBVIOUS
  <2> HIDE DEF a, m
  <2>4. QED
    BY <2>1, <2>2, <2>3
<1> HIDE DEF a, m
<1>2. Store!Array!Cap(a) = m /\ m + 1 # m /\ m + 1 > m /\ m + 1 - m = 1
  BY <1>1 DEF Store!Array!Cap
<1>3. Store!Array!Realloced(a, m + 1) = Store!Array!Grown(a, 1)
  BY <1>1, <1>2 DEF Store!Array!Realloced
<1>4. a.elems # <<>>
  BY <1>1
<1>5. Store!Array!Grown(a, 1) = [elems |-> a.elems \o z, stored |-> m + 1]
  <2>1. Store!Array!GrownCap(m, 1) - m = 1
    BY <1>1, GrownByOne
  <2>2. QED
    BY <1>1, <1>2, <1>4, <2>1 DEF Store!Array!Grown
<1>6. z \in Seq(Nat) /\ Len(z) = 1 /\ z[1] = NoArena
  BY DEF Store!Array!Zeros, NoArena, Store!NoArena
<1> HIDE DEF z
<1>7. a.elems \o z = [i \in 1 .. m + 1 |-> IF i <= n THEN i ELSE NoArena]
  <2> DEFINE t == a.elems \o z
  <2>1. /\ t \in Seq(Nat) /\ Len(t) = m + 1
        /\ \A i \in 1 .. m : t[i] = a.elems[i]
        /\ t[m + 1] = z[1]
    <3>1. t \in Seq(Nat) /\ Len(t) = m + 1
      <4>1. ASSUME NEW x \in Seq(Nat), NEW y \in Seq(Nat)
            PROVE  x \o y \in Seq(Nat) /\ Len(x \o y) = Len(x) + Len(y)
        OBVIOUS
      <4>2. QED
        BY <1>1, <1>6, <4>1
    <3>2. \A i \in 1 .. m : t[i] = a.elems[i]
      BY <1>1, <1>6
    <3>3. t[m + 1] = z[1]
      <4>1. 1 \in 1 .. Len(z) /\ Len(a.elems) = m /\ a.elems \in Seq(Nat) /\ z \in Seq(Nat)
        BY <1>1, <1>6
      <4>2. ASSUME NEW x \in Seq(Nat), NEW y \in Seq(Nat), NEW i \in 1 .. Len(y)
            PROVE  (x \o y)[Len(x) + i] = y[i]
        OBVIOUS
      <4>3. (a.elems \o z)[Len(a.elems) + 1] = z[1]
        BY <4>1, <4>2
      <4>4. QED
        BY <4>1, <4>3
    <3>4. QED
      BY <3>1, <3>2, <3>3
  <2> HIDE DEF t
  <2>2. t = [i \in 1 .. m + 1 |-> t[i]]
    BY <2>1
  <2>3. ASSUME NEW i \in 1 .. m + 1 PROVE t[i] = IF i <= n THEN i ELSE NoArena
    <3>1. CASE i \in 1 .. m
      BY <1>1, <2>1, <3>1
    <3>2. CASE i = m + 1
      <4>1. ~(i <= n)
        BY <3>2 DEF m
      <4>2. QED
        BY <1>6, <2>1, <3>2, <4>1
    <3>3. QED
      BY <1>1, <3>1, <3>2
  <2>4. QED
    BY <2>2, <2>3 DEF t
<1>8. n + (e + 1) = m + 1 /\ n + e + 1 = m + 1
  BY DEF m
<1>9. Stock(n, e + 1) = [elems |-> a.elems \o z, stored |-> m + 1]
  BY <1>7, <1>8 DEF Stock
<1>10. QED
  BY <1>3, <1>5, <1>8, <1>9 DEF a

LEMMA Naming ==
  ASSUME NEW n \in Nat \ {0}
  PROVE  Store!WithArena(Stock(n, 0), n + 1) = Stock(n + 1, 0)
<1> DEFINE s == Stock(n, 0)
           g == Stock(n, 1)
<1>1. s.stored = n /\ Store!Array!Realloced(s, n + 1) = g
  <2>1. Store!Array!Realloced(Stock(n, 0), n + 0 + 1) = Stock(n, 0 + 1)
    BY Growing
  <2>2. n + 0 + 1 = n + 1 /\ 0 + 1 = 1 /\ n + 0 = n
    OBVIOUS
  <2>3. QED
    BY <2>1, <2>2, StockIs
<1>2. Store!WithArena(s, n + 1) = [g EXCEPT !.elems[n + 1] = n + 1]
  <2> HIDE DEF g, s
  <2>1. QED
    BY <1>1 DEF Store!WithArena, Store!Array!Updated
<1>3. [g EXCEPT !.elems[n + 1] = n + 1]
        = [elems |-> [g.elems EXCEPT ![n + 1] = n + 1], stored |-> n + 1]
  <2>1. ASSUME NEW x, NEW y, NEW i, NEW v
        PROVE  [[elems |-> x, stored |-> y] EXCEPT !.elems[i] = v]
                 = [elems |-> [x EXCEPT ![i] = v], stored |-> y]
    OBVIOUS
  <2>2. g = [elems |-> g.elems, stored |-> n + 1]
    BY DEF Stock
  <2> HIDE DEF g
  <2>3. QED
    BY <2>1, <2>2
<1>4. [g.elems EXCEPT ![n + 1] = n + 1] = [i \in 1 .. n + 1 |-> i]
  <2>1. g.elems = [i \in 1 .. n + 1 |-> IF i <= n THEN i ELSE NoArena]
    BY DEF Stock
  <2>2. \A i \in 1 .. n + 1 : i # n + 1 => i <= n
    OBVIOUS
  <2> HIDE DEF g
  <2>3. QED
    BY <2>1, <2>2
<1>5. Stock(n + 1, 0) = [elems |-> [i \in 1 .. n + 1 |-> i], stored |-> n + 1]
  <2>1. n + 1 + 0 = n + 1 /\ \A i \in 1 .. n + 1 : i <= n + 1
    OBVIOUS
  <2>2. QED
    BY <2>1 DEF Stock
<1>6. QED
  BY <1>2, <1>3, <1>4, <1>5

LEMMA WithArenasIs ==
  ASSUME NEW n \in Nat \ {0}, NEW m \in Nat
  PROVE  Store!WithArenas(Stock(n, 0), n, m) = Stock(n + m, 0)
<1> DEFINE Def(f) == f = [i \in 0 .. m |-> IF i = 0 THEN Stock(n, 0)
                                         ELSE Store!WithArena(f[i - 1], n + i)]
           f == CHOOSE f : Def(f)
           g == [i \in 0 .. m |-> Stock(n + i, 0)]
           S == {i \in Nat : i <= m => f[i] = Stock(n + i, 0)}
<1>1. Def(g)
  <2>1. ASSUME NEW i \in 0 .. m, i # 0
        PROVE  Store!WithArena(g[i - 1], n + i) = Stock(n + i, 0)
    <3>1. i - 1 \in 0 .. m /\ n + (i - 1) \in Nat \ {0} /\ n + (i - 1) + 1 = n + i
      BY <2>1
    <3>2. g[i - 1] = Stock(n + (i - 1), 0)
      BY <3>1
    <3>3. Store!WithArena(Stock(n + (i - 1), 0), n + (i - 1) + 1) = Stock(n + (i - 1) + 1, 0)
      BY <3>1, Naming
    <3>4. QED
      BY <3>1, <3>2, <3>3
  <2>2. n + 0 = n
    OBVIOUS
  <2>3. QED
    BY <2>1, <2>2
<1>2. Def(f)
  <2> HIDE DEF Def, g
  <2>1. QED
    BY <1>1
<1>3. Store!WithArenas(Stock(n, 0), n, m) = f[m]
  BY DEF Store!WithArenas
<1> HIDE DEF f
<1>4. 0 \in S
  <2>1. n + 0 = n /\ 0 \in 0 .. m
    OBVIOUS
  <2>2. QED
    BY <1>2, <2>1
<1>5. ASSUME NEW i \in S, i \in Nat PROVE i + 1 \in S
  <2>1. ASSUME i + 1 <= m PROVE f[i + 1] = Stock(n + (i + 1), 0)
    <3>1. /\ i <= m /\ i + 1 \in 0 .. m /\ i + 1 # 0 /\ i + 1 - 1 = i
          /\ n + i \in Nat \ {0} /\ n + i + 1 = n + (i + 1)
      BY <1>5, <2>1
    <3>2. f[i + 1] = Store!WithArena(f[i + 1 - 1], n + (i + 1)) /\ f[i] = Stock(n + i, 0)
      BY <1>2, <1>5, <3>1
    <3>3. Store!WithArena(Stock(n + i, 0), n + i + 1) = Stock(n + i + 1, 0)
      BY <3>1, Naming
    <3>4. QED
      BY <3>1, <3>2, <3>3
  <2>2. QED
    BY <1>5, <2>1
<1>6. Nat \subseteq S
  <2> HIDE DEF S
  <2>1. QED
    BY <1>4, <1>5, SetInduction
<1>7. QED
  BY <1>3, <1>6

LEMMA NoneAdded ==
  ASSUME NEW s, NEW n
  PROVE  Store!WithArenas(s, n, 0) = s
<1> DEFINE Def(f) == f = [i \in 0 .. 0 |-> IF i = 0 THEN s ELSE Store!WithArena(f[i - 1], n + i)]
           f == CHOOSE f : Def(f)
           g == [i \in 0 .. 0 |-> s]
<1>1. Def(g)
  OBVIOUS
<1>2. Def(f)
  <2> HIDE DEF Def, g
  <2>1. QED
    BY <1>1
<1>3. Store!WithArenas(s, n, 0) = f[0]
  BY DEF Store!WithArenas
<1> HIDE DEF f
<1>4. f[0] = s
  BY <1>2
<1>5. QED
  BY <1>3, <1>4

\* The arena looked at for room is the last, unless a failure left a position
\* without one.
LEMMA LastIs ==
  ASSUME NEW n \in Nat \ {0}, NEW e \in Nat, storage = Stock(n, e)
  PROVE  Store!Last = (IF e = 0 THEN n ELSE NoArena) /\ NoArena = 0
<1>1. /\ storage.stored = n + e /\ Len(storage.elems) = n + e
      /\ \A i \in 1 .. n + e : storage.elems[i] = IF i <= n THEN i ELSE NoArena
  <2>1. storage.stored = n + e /\ Len(storage.elems) = n + e
    BY StockIs
  <2>2. \A i \in 1 .. n + e : storage.elems[i] = IF i <= n THEN i ELSE NoArena
    BY StockIs
  <2>3. QED
    BY <2>1, <2>2
<1>2. Store!Last = storage.elems[n + e - 1 + 1]
  BY <1>1 DEF Store!Last, Store!Array!At
<1>3. n + e - 1 + 1 = n + e /\ n + e \in 1 .. n + e /\ (n + e <= n <=> e = 0)
  OBVIOUS
<1>4. NoArena = 0
  BY DEF NoArena, Store!NoArena
<1>5. Store!Last = IF e = 0 THEN n ELSE NoArena
  BY <1>1, <1>2, <1>3
<1>6. QED
  BY <1>4, <1>5

-----------------------------------------------------------------------------
(***************************************************************************)
(* Arenas                                                                  *)
(***************************************************************************)
Arena == [cap : Nat, top : Nat, live : BOOLEAN]

\* Every arena has room for its header above what is given out.
AreArenas(a) ==
  /\ a \in Seq(Arena)
  /\ \A i \in 1 .. Len(a) : a[i].cap > FrameSize /\ a[i].top <= a[i].cap - FrameSize

Living(a) == \A i \in 1 .. Len(a) : a[i].live = TRUE

\* The arenas a are those b began with, and nothing was taken back.
Extended(b, a) ==
  /\ Len(a) <= Len(b)
  /\ \A i \in 1 .. Len(a) : b[i].top >= a[i].top

LEMMA NextCapIs ==
  ASSUME AreArenas(arenas), Store!Last \in 1 .. Len(arenas)
  PROVE  /\ arenas[Store!Last].cap \in Nat /\ arenas[Store!Last].cap > FrameSize
         /\ \A i \in Nat : /\ Store!NextCap(i) \in Nat /\ Store!NextCap(i) > FrameSize
                           /\ Store!NextCap(i) >= i + 1
<1> DEFINE c == arenas[Store!Last].cap
<1>1. c \in Nat /\ c > FrameSize /\ c >= 1 /\ FrameSize \in Nat
  <2>1. arenas[Store!Last] \in Arena /\ c > FrameSize
    BY DEF AreArenas
  <2>2. QED
    BY <2>1, ArenaAssumption DEF Arena
<1> HIDE DEF c
<1>2. ASSUME NEW i \in Nat
      PROVE  /\ Store!NextCap(i) \in Nat /\ Store!NextCap(i) > FrameSize
             /\ Store!NextCap(i) >= i + 1
  <2>1. Store!NextCap(i) = c * TwoTo[i]
    BY DEF Store!NextCap, TwoTo, c
  <2>2. TwoTo[i] \in Nat /\ TwoTo[i] >= i + 1
    BY TwoToIs
  <2>3. PICK t \in Nat : t = TwoTo[i]
    BY <2>2
  <2>4. c * t \in Nat /\ c * t >= c /\ c * t >= t
    <3>1. t >= 1
      BY <2>2, <2>3
    <3>2. QED
      BY <1>1, <3>1
  <2>5. c * t > FrameSize /\ c * t >= i + 1
    <3>1. PICK w \in Nat : w = c * t
      BY <2>4
    <3>2. w >= c /\ w >= t
      BY <2>4, <3>1
    <3>3. w > FrameSize /\ w >= i + 1
      BY <1>1, <2>2, <2>3, <3>2
    <3>4. QED
      BY <3>1, <3>3
  <2>6. QED
    BY <2>1, <2>3, <2>4, <2>5
<1>3. QED
  BY <1>1, <1>2 DEF c

LEMMA NeededIs ==
  ASSUME AreArenas(arenas), Store!Last \in 1 .. Len(arenas), NEW m \in Nat \ {0}
  PROVE  /\ Store!Needed(m) \in 1 .. m + FrameSize
         /\ m <= Store!NextCap(Store!Needed(m)) - FrameSize
<1> DEFINE T == {j \in 1 .. m + FrameSize : m <= Store!Room(Store!NextCap(j))}
<1>1. FrameSize \in Nat /\ m + FrameSize \in 1 .. m + FrameSize
  BY ArenaAssumption
<1>2. m + FrameSize \in T
  <2>1. /\ Store!NextCap(m + FrameSize) >= m + FrameSize + 1
        /\ Store!NextCap(m + FrameSize) \in Nat
    <3>1. PICK k \in Nat : k = m + FrameSize
      BY <1>1
    <3>2. Store!NextCap(k) >= k + 1 /\ Store!NextCap(k) \in Nat
      BY NextCapIs
    <3>3. QED
      BY <3>1, <3>2
  <2>2. QED
    BY <1>1, <2>1 DEF Store!Room
<1>3. PICK j \in T : \A y \in T : j <= y
  <2>1. T \subseteq Nat
    BY <1>1
  <2> HIDE DEF T
  <2>2. QED
    BY <1>2, <2>1, NatLeast
<1>4. ASSUME NEW i \in 1 .. j - 1 PROVE m > Store!Room(Store!NextCap(i))
  <2>1. i \in 1 .. m + FrameSize /\ i \notin T /\ i \in Nat
    BY <1>1, <1>3
  <2>2. Store!NextCap(i) \in Nat
    BY <2>1, NextCapIs
  <2>3. Store!Room(Store!NextCap(i)) \in Int
    BY <1>1, <2>2 DEF Store!Room
  <2>4. QED
    BY <2>1, <2>3
<1> DEFINE Fit(k) == /\ m <= Store!Room(Store!NextCap(k))
                     /\ \A i \in 1 .. k - 1 : m > Store!Room(Store!NextCap(i))
<1>5. j \in 1 .. m + FrameSize /\ Fit(j)
  BY <1>3, <1>4
<1>6. Store!Needed(m) = CHOOSE k \in 1 .. m + FrameSize : Fit(k)
  BY DEF Store!Needed
<1>7. Store!Needed(m) \in 1 .. m + FrameSize /\ Fit(Store!Needed(m))
  <2> HIDE DEF Fit
  <2>1. QED
    BY <1>5, <1>6
<1>8. QED
  BY <1>7 DEF Store!Room

\* A living arena has more given out of it.
LEMMA ToppedIs ==
  ASSUME NEW a, AreArenas(a), Living(a), NEW i \in 1 .. Len(a), NEW m \in Nat,
         a[i].top + m <= a[i].cap - FrameSize
  PROVE  LET b == [a EXCEPT ![i].top = a[i].top + m]
         IN  /\ AreArenas(b) /\ Living(b) /\ Len(b) = Len(a) /\ Extended(b, a)
             /\ b[i].top = a[i].top + m
<1> DEFINE x == [a[i] EXCEPT !.top = a[i].top + m]
           b == [a EXCEPT ![i] = x]
<1>1. a \in Seq(Arena) /\ Len(a) \in Nat /\ DOMAIN a = 1 .. Len(a) /\ FrameSize \in Nat
  BY ArenaAssumption DEF AreArenas
<1>2. ASSUME NEW y \in Arena
      PROVE  /\ [y EXCEPT !.top = y.top + m] \in Arena
             /\ [y EXCEPT !.top = y.top + m].cap = y.cap
             /\ [y EXCEPT !.top = y.top + m].top = y.top + m
             /\ [y EXCEPT !.top = y.top + m].live = y.live
  BY DEF Arena
<1>3. a[i] \in Arena
  BY <1>1
<1>4. x \in Arena /\ x.cap = a[i].cap /\ x.top = a[i].top + m /\ x.live = a[i].live
  BY <1>2, <1>3
<1>5. a[i].top \in Nat /\ a[i].cap \in Nat /\ a[i].cap > FrameSize
  BY <1>3 DEF Arena, AreArenas
<1> HIDE DEF x
<1>6. /\ b \in Seq(Arena) /\ Len(b) = Len(a) /\ b[i] = x
      /\ \A j \in 1 .. Len(a) : j # i => b[j] = a[j]
  BY <1>1, <1>4
<1> HIDE DEF b
<1>7. AreArenas(b)
  <2>1. ASSUME NEW j \in 1 .. Len(b) PROVE b[j].cap > FrameSize /\ b[j].top <= b[j].cap - FrameSize
    <3>1. CASE j = i
      BY <1>4, <1>5, <1>6, <3>1
    <3>2. CASE j # i
      BY <1>6, <3>2 DEF AreArenas
    <3>3. QED
      BY <3>1, <3>2
  <2>2. QED
    BY <1>6, <2>1 DEF AreArenas
<1>8. Living(b)
  BY <1>4, <1>6 DEF Living
<1>9. Extended(b, a)
  <2>1. ASSUME NEW j \in 1 .. Len(a) PROVE b[j].top >= a[j].top
    <3>1. CASE j = i
      BY <1>4, <1>5, <1>6, <3>1
    <3>2. CASE j # i
      <4>1. a[j] \in Arena
        BY <1>1
      <4>2. a[j].top \in Nat
        BY <4>1 DEF Arena
      <4>3. QED
        BY <1>6, <3>2, <4>2
    <3>3. QED
      BY <3>1, <3>2
  <2>2. QED
    BY <1>1, <1>6, <2>1 DEF Extended
<1>10. QED
  BY <1>4, <1>6, <1>7, <1>8, <1>9 DEF b, x

LEMMA FreshIs ==
  ASSUME NEW c \in Nat
  PROVE  Store!Fresh(c) \in Arena /\ Store!Fresh(c).cap = c /\ Store!Fresh(c).top = 0
         /\ Store!Fresh(c).live = TRUE
  BY DEF Store!Fresh, Arena

\* Arenas are added.
LEMMA AddedIs ==
  ASSUME AreArenas(arenas), Living(arenas), Store!Last \in 1 .. Len(arenas), NEW m \in Nat
  PROVE  LET b == arenas \o Store!Added(m)
         IN  /\ AreArenas(b) /\ Living(b) /\ Len(b) = Len(arenas) + m /\ Extended(b, arenas)
             /\ m # 0 => b[Len(arenas) + m] = Store!Fresh(Store!NextCap(m))
<1> DEFINE a == arenas
           d == Store!Added(m)
           b == a \o d
<1>1. a \in Seq(Arena) /\ Len(a) \in Nat /\ FrameSize \in Nat
  BY ArenaAssumption DEF AreArenas
<1>2. ASSUME NEW i \in 1 .. m
      PROVE  /\ Store!Fresh(Store!NextCap(i)) \in Arena
             /\ Store!Fresh(Store!NextCap(i)).live = TRUE
             /\ Store!Fresh(Store!NextCap(i)).cap > FrameSize
             /\ Store!Fresh(Store!NextCap(i)).top
                  <= Store!Fresh(Store!NextCap(i)).cap - FrameSize
  <2>1. PICK c : c = Store!NextCap(i)
    OBVIOUS
  <2>2. c \in Nat /\ c > FrameSize
    BY <2>1, NextCapIs
  <2>3. /\ Store!Fresh(c) \in Arena /\ Store!Fresh(c).cap = c /\ Store!Fresh(c).top = 0
        /\ Store!Fresh(c).live = TRUE
    BY <2>2, FreshIs
  <2>4. QED
    BY <1>1, <2>1, <2>2, <2>3
<1>3. d = [i \in 1 .. m |-> Store!Fresh(Store!NextCap(i))]
  BY DEF Store!Added
<1>4. d \in Seq(Arena) /\ Len(d) = m /\ \A i \in 1 .. m : d[i] = Store!Fresh(Store!NextCap(i))
  <2> HIDE DEF d
  <2>1. d \in [1 .. m -> Arena]
    BY <1>2, <1>3
  <2>2. \A i \in 1 .. m : d[i] = Store!Fresh(Store!NextCap(i))
    BY <1>3
  <2>3. d \in Seq(Arena) /\ Len(d) = m
    BY <2>1
  <2>4. QED
    BY <2>2, <2>3
<1> HIDE DEF d, a
<1>5. /\ b \in Seq(Arena) /\ Len(b) = Len(a) + m
      /\ \A i \in 1 .. Len(a) : b[i] = a[i]
      /\ \A i \in 1 .. m : b[Len(a) + i] = d[i]
  <2>1. ASSUME NEW x \in Seq(Arena), NEW y \in Seq(Arena)
        PROVE  /\ x \o y \in Seq(Arena) /\ Len(x \o y) = Len(x) + Len(y)
               /\ \A i \in 1 .. Len(x) : (x \o y)[i] = x[i]
    OBVIOUS
  <2>2. ASSUME NEW x \in Seq(Arena), NEW y \in Seq(Arena), NEW i \in 1 .. Len(y)
        PROVE  (x \o y)[Len(x) + i] = y[i]
    OBVIOUS
  <2>3. b \in Seq(Arena) /\ Len(b) = Len(a) + m /\ \A i \in 1 .. Len(a) : b[i] = a[i]
    BY <1>1, <1>4, <2>1
  <2>4. \A i \in 1 .. m : b[Len(a) + i] = d[i]
    BY <1>1, <1>4, <2>2
  <2>5. QED
    BY <2>3, <2>4
<1> HIDE DEF b
<1>6. ASSUME NEW j \in 1 .. Len(b)
      PROVE  \/ j \in 1 .. Len(a)
             \/ \E i \in 1 .. m : j = Len(a) + i
  <2>1. CASE j > Len(a)
    <3>1. j - Len(a) \in 1 .. m /\ j = Len(a) + (j - Len(a))
      BY <1>1, <1>5, <2>1
    <3>2. QED
      BY <3>1
  <2>2. QED
    BY <1>1, <1>5, <2>1
<1>7. AreArenas(a) /\ Living(a)
  BY DEF a
<1>8. AreArenas(b)
  <2>1. ASSUME NEW j \in 1 .. Len(b) PROVE b[j].cap > FrameSize /\ b[j].top <= b[j].cap - FrameSize
    <3>1. CASE j \in 1 .. Len(a)
      BY <1>5, <1>7, <3>1 DEF AreArenas
    <3>2. ASSUME NEW i \in 1 .. m, j = Len(a) + i
          PROVE  b[j].cap > FrameSize /\ b[j].top <= b[j].cap - FrameSize
      BY <1>2, <1>4, <1>5, <3>2
    <3>3. QED
      BY <1>6, <3>1, <3>2
  <2>2. QED
    BY <1>5, <2>1 DEF AreArenas
<1>9. Living(b)
  <2>1. ASSUME NEW j \in 1 .. Len(b) PROVE b[j].live = TRUE
    <3>1. CASE j \in 1 .. Len(a)
      BY <1>5, <1>7, <3>1 DEF Living
    <3>2. ASSUME NEW i \in 1 .. m, j = Len(a) + i PROVE b[j].live = TRUE
      BY <1>2, <1>4, <1>5, <3>2
    <3>3. QED
      BY <1>6, <3>1, <3>2
  <2>2. QED
    BY <2>1 DEF Living
<1>10. Extended(b, a)
  <2>1. ASSUME NEW j \in 1 .. Len(a) PROVE b[j].top >= a[j].top
    <3>1. a[j] \in Arena /\ b[j] = a[j]
      BY <1>1, <1>5
    <3>2. QED
      BY <3>1 DEF Arena
  <2>2. QED
    BY <1>1, <1>5, <2>1 DEF Extended
<1>11. m # 0 => b[Len(a) + m] = Store!Fresh(Store!NextCap(m))
  <2>1. m # 0 => m \in 1 .. m
    OBVIOUS
  <2>2. QED
    BY <1>4, <1>5, <2>1
<1>12. QED
  BY <1>5, <1>8, <1>9, <1>10, <1>11 DEF a, b, d

-----------------------------------------------------------------------------
(***************************************************************************)
(* Copying a key                                                           *)
(***************************************************************************)

\* The text t of m bytes is in an arena of b, above what was given out in a.
PlacedIn(t, m, a, b) ==
  /\ t.arena \in 1 .. Len(b) /\ t.lo \in Nat /\ t.hi = t.lo + m
  /\ t.hi <= b[t.arena].top
  /\ t.arena <= Len(a) => a[t.arena].top <= t.lo

\* The arenas are alive, the array names each, and e more positions name none.
Stocked(a, s, e) ==
  /\ AreArenas(a) /\ Living(a) /\ Len(a) # 0
  /\ s = Stock(Len(a), e)

LEMMA LenOfArenas ==
  ASSUME NEW a, AreArenas(a)
  PROVE  Len(a) \in Nat
  BY DEF AreArenas

LEMMA CopyKeyIs ==
  ASSUME NEW e \in Nat, Stocked(arenas, storage, e), NEW m \in Nat \ {0}, Store!CopyKey(m)
  PROVE  /\ e = 0 /\ Stocked(arenas', storage', 0) /\ Extended(arenas', arenas)
         /\ PlacedIn(Store!Place(m), m, arenas, arenas')
<1> DEFINE n == Len(arenas)
<1>1. AreArenas(arenas) /\ Living(arenas) /\ n \in Nat \ {0} /\ storage = Stock(n, e)
  BY LenOfArenas DEF Stocked
<1>2. Store!Last = (IF e = 0 THEN n ELSE NoArena) /\ NoArena = 0
  <2> HIDE DEF n
  <2>1. QED
    BY <1>1, LastIs
<1>3. Store!Last # Store!NoArena
  BY DEF Store!CopyKey, Store!Fits
<1>4. e = 0 /\ Store!Last = n /\ Store!Last \in 1 .. n
  BY <1>1, <1>2, <1>3 DEF NoArena
<1>5. CASE /\ Store!Fits(m)
           /\ arenas' = [arenas EXCEPT ![Store!Last].top = @ + Store!Taken(m)]
           /\ UNCHANGED storage
  <2> DEFINE b == [arenas EXCEPT ![n].top = arenas[n].top + m]
  <2>1. arenas' = b
    BY <1>4, <1>5 DEF Store!Taken
  <2>2. arenas[n].top + m <= arenas[n].cap - FrameSize
    BY <1>4, <1>5 DEF Store!Fits, Store!Room
  <2>3. AreArenas(b) /\ Living(b) /\ Len(b) = n /\ Extended(b, arenas) /\ b[n].top = arenas[n].top + m
    <3>1. n \in 1 .. Len(arenas) /\ m \in Nat
      BY <1>4
    <3> HIDE DEF n
    <3>2. QED
      BY <1>1, <2>2, <3>1, ToppedIs DEF n
  <2>4. Store!Place(m) = [arena |-> n, lo |-> arenas[n].top, hi |-> arenas[n].top + m]
    BY <1>4, <1>5 DEF Store!Place
  <2>5. arenas[n].top \in Nat
    <3>1. arenas[n] \in Arena
      BY <1>4 , <1>1 DEF AreArenas
    <3>2. QED
      BY <3>1 DEF Arena
  <2> HIDE DEF b
  <2>6. PlacedIn(Store!Place(m), m, arenas, b)
    <3>1. PICK w \in Nat : w = arenas[n].top
      BY <2>5
    <3>2. PICK t : t = Store!Place(m)
      OBVIOUS
    <3>3. t.arena = n /\ t.lo = w /\ t.hi = w + m
      BY <2>4, <3>1, <3>2
    <3>4. b[n].top = w + m /\ w + m <= w + m /\ w <= w
      BY <2>3, <3>1
    <3>5. PlacedIn(t, m, arenas, b)
      BY <1>4, <2>3, <3>1, <3>3, <3>4 DEF PlacedIn
    <3>6. QED
      BY <3>2, <3>5
  <2>7. Stocked(b, storage', 0)
    BY <1>1, <1>4, <1>5, <2>3 DEF Stocked
  <2>8. QED
    BY <1>4, <2>1, <2>3, <2>6, <2>7
<1>6. CASE /\ ~Store!Fits(m)
           /\ storage' = Store!WithArenas(storage, Len(arenas), Store!Needed(m))
           /\ arenas' = [arenas \o Store!Added(Store!Needed(m))
                           EXCEPT ![Len(arenas) + Store!Needed(m)].top = Store!Taken(m)]
  <2>1. PICK k : k = Store!Needed(m)
    OBVIOUS
  <2>2. k \in 1 .. m + FrameSize /\ m <= Store!NextCap(k) - FrameSize
    BY <1>1, <1>4, <2>1, NeededIs
  <2>3. k \in Nat \ {0} /\ n + k \in Nat \ {0} /\ FrameSize \in Nat
    BY <1>1, <2>2, ArenaAssumption
  <2> DEFINE a == arenas \o Store!Added(k)
             b == [a EXCEPT ![n + k].top = a[n + k].top + m]
  <2>4. /\ AreArenas(a) /\ Living(a) /\ Len(a) = n + k /\ Extended(a, arenas)
        /\ a[n + k] = Store!Fresh(Store!NextCap(k))
    BY <1>1, <1>4, <2>3, AddedIs
  <2> HIDE DEF a
  <2>5. a[n + k].top = 0 /\ a[n + k].cap = Store!NextCap(k)
    <3>1. Store!NextCap(k) \in Nat
      BY <1>1, <1>4, <2>3, NextCapIs
    <3>2. QED
      BY <2>4, <3>1, FreshIs
  <2>6. arenas' = b
    <3>1. a[n + k].top + m = m
      BY <2>5
    <3>2. QED
      BY <1>6, <2>1, <3>1 DEF a, Store!Taken
  <2>7. AreArenas(b) /\ Living(b) /\ Len(b) = n + k /\ Extended(b, a) /\ b[n + k].top = m
    <3>1. PICK j : j = n + k
      OBVIOUS
    <3>2. j \in 1 .. Len(a) /\ m \in Nat /\ a[j].top + m <= a[j].cap - FrameSize
      BY <2>2, <2>3, <2>4, <2>5, <3>1
    <3>3. LET c == [a EXCEPT ![j].top = a[j].top + m]
          IN  /\ AreArenas(c) /\ Living(c) /\ Len(c) = Len(a) /\ Extended(c, a)
              /\ c[j].top = a[j].top + m
      BY <2>4, <3>2, ToppedIs
    <3>4. a[j].top + m = m
      BY <2>5, <3>1
    <3>5. QED
      BY <2>4, <3>1, <3>3, <3>4
  <2> HIDE DEF b
  <2>8. Extended(b, arenas)
    <3>1. ASSUME NEW i \in 1 .. n PROVE b[i].top >= arenas[i].top
      <4>1. i \in 1 .. Len(a) /\ i \in 1 .. Len(b)
        BY <1>1, <2>3, <2>4, <2>7
      <4>2. a[i].top >= arenas[i].top /\ b[i].top >= a[i].top
        BY <2>4, <2>7, <4>1 DEF Extended
      <4>3. arenas[i] \in Arena /\ a[i] \in Arena /\ b[i] \in Arena
        BY <1>1, <2>4, <2>7, <4>1 DEF AreArenas
      <4>4. arenas[i].top \in Nat /\ a[i].top \in Nat /\ b[i].top \in Nat
        BY <4>3 DEF Arena
      <4>5. QED
        BY <4>2, <4>4
    <3>2. n <= n + k
      BY <1>1, <2>3
    <3>3. QED
      BY <2>7, <3>1, <3>2 DEF Extended
  <2>9. PlacedIn(Store!Place(m), m, arenas, b)
    <3>1. PICK t : t = Store!Place(m)
      OBVIOUS
    <3>2. t = [arena |-> n + k, lo |-> 0, hi |-> m]
      BY <1>6, <2>1, <3>1 DEF Store!Place
    <3>3. t.arena = n + k /\ t.lo = 0 /\ t.hi = m
      BY <3>2
    <3>4. n + k \in 1 .. n + k /\ ~(n + k <= n) /\ m = 0 + m /\ m <= m
      BY <1>1, <2>3
    <3>5. PlacedIn(t, m, arenas, b)
      BY <2>7, <3>3, <3>4 DEF PlacedIn
    <3>6. QED
      BY <3>1, <3>5
  <2>10. storage' = Stock(n + k, 0)
    <3>1. Store!WithArenas(Stock(n, 0), n, k) = Stock(n + k, 0)
      BY <1>1, <2>3, WithArenasIs
    <3>2. QED
      BY <1>1, <1>4, <1>6, <2>1, <3>1
  <2>11. Stocked(b, storage', 0)
    BY <2>3, <2>7, <2>10 DEF Stocked
  <2>12. QED
    BY <1>4, <2>6, <2>8, <2>9, <2>11
<1>7. QED
  BY <1>5, <1>6 DEF Store!CopyKey

LEMMA CopyFailsIs ==
  ASSUME NEW e \in Nat, Stocked(arenas, storage, e), NEW m \in Nat \ {0}, Store!CopyFails(m)
  PROVE  /\ \E f \in Nat : Stocked(arenas', storage', f)
         /\ Extended(arenas', arenas)
<1> DEFINE n == Len(arenas)
<1>1. AreArenas(arenas) /\ Living(arenas) /\ n \in Nat \ {0} /\ storage = Stock(n, e)
  BY LenOfArenas DEF Stocked
<1>2. Store!Last = (IF e = 0 THEN n ELSE NoArena) /\ NoArena = 0
  <2> HIDE DEF n
  <2>1. QED
    BY <1>1, LastIs
<1>3. PICK d \in 0 .. IF Store!Last = Store!NoArena THEN 0 ELSE Store!Needed(m) - 1 :
        /\ \/ storage' = Store!WithArenas(storage, n, d)
           \/ storage' = Store!Array!Realloced(Store!WithArenas(storage, n, d),
                                               Store!WithArenas(storage, n, d).stored + 1)
        /\ arenas' = IF d = 0 THEN arenas ELSE arenas \o Store!Added(d)
  BY DEF Store!CopyFails
<1>4. d \in Nat /\ (e = 0 \/ d = 0)
  <2>1. CASE e = 0
    <3>1. Store!Last \in 1 .. n /\ Store!Last # Store!NoArena
      BY <1>1, <1>2, <2>1 DEF NoArena
    <3>2. Store!Needed(m) \in 1 .. m + FrameSize
      BY <1>1, <3>1, NeededIs
    <3>3. d \in 0 .. Store!Needed(m) - 1
      BY <1>3, <3>1
    <3>4. QED
      BY <2>1, <3>2, <3>3
  <2>2. CASE e # 0
    <3>1. Store!Last = Store!NoArena
      BY <1>2, <2>2 DEF NoArena
    <3>2. d \in 0 .. 0
      BY <1>3, <3>1
    <3>3. QED
      BY <3>2
  <2>3. QED
    BY <2>1, <2>2
<1>5. Store!WithArenas(storage, n, d) = Stock(n + d, e)
  <2>1. CASE d = 0
    <3>1. n + 0 = n
      BY <1>1
    <3>2. QED
      BY <1>1, <2>1, <3>1, NoneAdded
  <2>2. CASE e = 0
    BY <1>1, <1>4, <2>2, WithArenasIs
  <2>3. QED
    BY <1>4, <2>1, <2>2
<1>6. storage' = Stock(n + d, e) \/ storage' = Stock(n + d, e + 1)
  <2>1. n + d \in Nat \ {0}
    BY <1>1, <1>4
  <2>2. PICK j : j = n + d
    OBVIOUS
  <2>3. Stock(j, e).stored = j + e /\ Store!Array!Realloced(Stock(j, e), j + e + 1) = Stock(j, e + 1)
    BY <2>1, <2>2, StockIs, Growing
  <2>4. QED
    BY <1>3, <1>5, <2>2, <2>3
<1>7. AreArenas(arenas') /\ Living(arenas') /\ Len(arenas') = n + d /\ Extended(arenas', arenas)
  <2>1. CASE d = 0
    <3>1. arenas' = arenas /\ n + d = n
      BY <1>1, <1>3, <2>1
    <3>2. Extended(arenas, arenas)
      <4>1. ASSUME NEW i \in 1 .. n PROVE arenas[i].top >= arenas[i].top
        <5>1. arenas[i] \in Arena
          BY <1>1 DEF AreArenas
        <5>2. QED
          BY <5>1 DEF Arena
      <4>2. n <= n
        BY <1>1
      <4>3. QED
        BY <4>1, <4>2 DEF Extended
    <3>3. QED
      BY <1>1, <3>1, <3>2
  <2>2. CASE d # 0
    <3>1. e = 0 /\ arenas' = arenas \o Store!Added(d)
      BY <1>3, <1>4, <2>2
    <3>2. Store!Last \in 1 .. n
      BY <1>1, <1>2, <3>1
    <3>3. QED
      BY <1>1, <1>4, <3>1, <3>2, AddedIs
  <2>3. QED
    BY <2>1, <2>2
<1>8. n + d # 0 /\ e \in Nat /\ e + 1 \in Nat
  BY <1>1, <1>4
<1>9. QED
  BY <1>6, <1>7, <1>8 DEF Stocked


LEMMA ReleaseIs ==
  ASSUME NEW e \in Nat, Stocked(arenas, storage, e), Store!Release
  PROVE  /\ AreArenas(arenas') /\ \A i \in DOMAIN arenas' : ~arenas'[i].live
         /\ storage'.stored = 0
<1> DEFINE n == Len(arenas)
<1>1. AreArenas(arenas) /\ n \in Nat \ {0} /\ storage = Stock(n, e) /\ arenas \in Seq(Arena)
  BY LenOfArenas DEF Stocked, AreArenas
<1>2. storage'.stored = 0
  BY DEF Store!Release, Store!Array!Blank
<1>3. ASSUME NEW i \in 1 .. n PROVE i \in Store!Named
  <2>1. storage.stored = n + e /\ storage.elems[i] = i
    <3>1. \A j \in 1 .. n + e : Stock(n, e).elems[j] = IF j <= n THEN j ELSE NoArena
      BY <1>1, StockIs
    <3>2. i \in 1 .. n + e /\ i <= n
      BY <1>1
    <3> HIDE DEF n
    <3>3. QED
      BY <1>1, <3>1, <3>2, StockIs
  <2>2. i - 1 \in 0 .. storage.stored - 1 /\ i - 1 + 1 = i
    BY <1>1, <2>1
  <2>3. Store!Array!At(storage, i - 1) = i
    BY <2>1, <2>2 DEF Store!Array!At
  <2>4. i # Store!NoArena
    BY DEF Store!NoArena
  <2>5. QED
    BY <2>2, <2>3, <2>4 DEF Store!Named
<1>4. DOMAIN arenas = 1 .. n
  BY <1>1
<1>5. arenas' = [i \in 1 .. n |-> [arenas[i] EXCEPT !.live = FALSE]]
  <2>1. arenas' = [i \in 1 .. n |-> [arenas[i] EXCEPT !.live = i \notin Store!Named]]
    BY <1>4 DEF Store!Release
  <2>2. \A i \in 1 .. n : (i \notin Store!Named) = FALSE
    BY <1>3, Zenon
  <2> HIDE DEF n
  <2>3. QED
    BY <2>1, <2>2, Zenon
<1>6. ASSUME NEW y \in Arena
      PROVE  /\ [y EXCEPT !.live = FALSE] \in Arena
             /\ [y EXCEPT !.live = FALSE].cap = y.cap
             /\ [y EXCEPT !.live = FALSE].top = y.top
             /\ ~[y EXCEPT !.live = FALSE].live
  <2>1. /\ [y EXCEPT !.live = FALSE] \in Arena
        /\ [y EXCEPT !.live = FALSE].cap = y.cap
        /\ [y EXCEPT !.live = FALSE].top = y.top
    BY DEF Arena
  <2>2. [y EXCEPT !.live = FALSE].live = FALSE
    BY DEF Arena
  <2>3. QED
    BY <2>1, <2>2, Zenon
<1>7. ASSUME NEW i \in 1 .. n
      PROVE  /\ arenas'[i] \in Arena /\ arenas'[i].cap = arenas[i].cap
             /\ arenas'[i].top = arenas[i].top /\ ~arenas'[i].live
  <2>1. arenas'[i] = [arenas[i] EXCEPT !.live = FALSE] /\ arenas[i] \in Arena
    BY <1>1, <1>5
  <2>2. PICK y \in Arena : y = arenas[i]
    BY <2>1
  <2>3. QED
    BY <1>6, <2>1, <2>2
<1>8. DOMAIN arenas' = 1 .. n /\ arenas' \in Seq(Arena) /\ Len(arenas') = n
  <2>1. arenas' \in [1 .. n -> Arena]
    <3>1. arenas' = [i \in 1 .. n |-> arenas'[i]]
      BY <1>5
    <3> HIDE DEF n
    <3>2. QED
      BY <1>7, <3>1
  <2>2. n \in Nat
    BY <1>1
  <2> HIDE DEF n
  <2>3. QED
    BY <2>1, <2>2
<1>9. AreArenas(arenas')
  BY <1>1, <1>7, <1>8 DEF AreArenas
<1>10. QED
  BY <1>2, <1>7, <1>8, <1>9

-----------------------------------------------------------------------------
(***************************************************************************)
(* The texts of a table                                                    *)
(***************************************************************************)
\* A text of m bytes, of what was given out of an arena.
TextIn(t, m, a) ==
  /\ t.arena \in 1 .. Len(a) /\ t.lo \in Nat /\ t.hi = t.lo + m
  /\ t.hi <= a[t.arena].top

Apart(t, u) == t.arena = u.arena => t.hi <= u.lo \/ u.hi <= t.lo

\* Each key of s has its text, and no two have a byte of one arena in common.
TextsIn(s, a) ==
  /\ \A p \in KeyedIn(s) : TextIn(s[p].text, bytes[s[p].key], a)
  /\ \A p \in KeyedIn(s), q \in KeyedIn(s) : p # q => Apart(s[p].text, s[q].text)

Sized == bytes \in [Keys -> KeyBytes]

LEMMA SizeIs ==
  ASSUME Sized, NEW k \in Keys
  PROVE  bytes[k] \in Nat \ {0}
  BY KeyBytesAssumption DEF Sized

LEMMA TextKept ==
  ASSUME NEW t, NEW m \in Nat, NEW a, NEW b, AreArenas(a), AreArenas(b), Extended(b, a), TextIn(t, m, a)
  PROVE  TextIn(t, m, b)
<1>1. a \in Seq(Arena) /\ b \in Seq(Arena) /\ Len(a) <= Len(b) /\ Len(a) \in Nat /\ Len(b) \in Nat
  BY DEF AreArenas, Extended
<1>2. t.arena \in 1 .. Len(a) /\ t.arena \in 1 .. Len(b)
  BY <1>1 DEF TextIn
<1>3. a[t.arena] \in Arena /\ b[t.arena] \in Arena
  BY <1>1, <1>2
<1>4. PICK x \in Nat : x = a[t.arena].top
  BY <1>3 DEF Arena
<1>5. PICK y \in Nat : y = b[t.arena].top
  BY <1>3 DEF Arena
<1>6. y >= x
  BY <1>2, <1>4, <1>5 DEF Extended
<1>7. PICK h \in Nat : h = t.hi
  BY DEF TextIn
<1>8. h <= x
  BY <1>4, <1>7 DEF TextIn
<1>9. h <= y
  BY <1>6, <1>8
<1>10. QED
  BY <1>2, <1>5, <1>7, <1>9 DEF TextIn

\* Texts stay where they are when arenas are added or filled further.
LEMMA TextsKept ==
  ASSUME Sized, NEW s, NEW n, IsTable(s, n), NEW a, NEW b, AreArenas(a), AreArenas(b),
         Extended(b, a), TextsIn(s, a)
  PROVE  TextsIn(s, b)
<1>1. ASSUME NEW p \in KeyedIn(s) PROVE TextIn(s[p].text, bytes[s[p].key], b)
  <2>1. s[p].key \in Keys
    BY KeyedIs, TakenIs
  <2>2. bytes[s[p].key] \in Nat
    BY <2>1, SizeIs
  <2>3. QED
    BY <2>2, TextKept DEF TextsIn
<1>2. QED
  BY <1>1 DEF TextsIn

\* A new text has no byte in common with the others.
LEMMA NewIsApart ==
  ASSUME NEW t, NEW m \in Nat, NEW u, NEW j \in Nat, NEW a, NEW b, AreArenas(a),
         PlacedIn(t, m, a, b), TextIn(u, j, a)
  PROVE  Apart(t, u) /\ Apart(u, t)
<1>1. ASSUME t.arena = u.arena PROVE u.hi <= t.lo
  <2>1. a \in Seq(Arena) /\ t.arena \in 1 .. Len(a)
    BY <1>1 DEF AreArenas, TextIn
  <2>2. a[t.arena] \in Arena
    BY <2>1
  <2>3. PICK x \in Nat : x = a[t.arena].top
    BY <2>2 DEF Arena
  <2>4. PICK l \in Nat : l = t.lo
    BY DEF PlacedIn
  <2>5. PICK h \in Nat : h = u.hi
    BY DEF TextIn
  <2>6. x <= l /\ h <= x
    BY <1>1, <2>1, <2>3, <2>4, <2>5 DEF PlacedIn, TextIn
  <2>7. h <= l
    BY <2>6
  <2>8. QED
    BY <2>4, <2>5, <2>7
<1>2. QED
  BY <1>1 DEF Apart

\* A slot filled with a text of its own.
LEMMA FilledTexts ==
  ASSUME NEW s, NEW n, IsTable(s, n), NEW p \in 0 .. n - 1, NEW e, IsEntry(e),
         IsTable(Filled(s, p, e), n),
         NEW a, TextsIn(s, a),
         e.key # NoKey =>
           /\ TextIn(e.text, bytes[e.key], a)
           /\ \A q \in KeyedIn(s) : q # p => Apart(e.text, s[q].text) /\ Apart(s[q].text, e.text)
  PROVE  TextsIn(Filled(s, p, e), a)
<1> DEFINE t == Filled(s, p, e)
<1>1. DOMAIN s = 0 .. n - 1 /\ t[p] = e /\ \A q \in 0 .. n - 1 : q # p => t[q] = s[q]
  BY DEF IsTable, Filled
<1>2. DOMAIN t = 0 .. n - 1
  BY <1>1 DEF Filled
<1> HIDE DEF t
<1>3. ASSUME NEW q \in KeyedIn(t)
      PROVE  \/ q = p /\ t[q] = e /\ e.key # NoKey
             \/ q # p /\ q \in KeyedIn(s) /\ t[q] = s[q]
  <2>1. q \in 0 .. n - 1 /\ Taken(t, q) /\ t[q].key # NoKey
    BY <1>3, KeyedIs DEF t
  <2>2. CASE q = p
    BY <1>1, <2>1, <2>2
  <2>3. CASE q # p
    <3>1. t[q] = s[q] /\ Taken(s, q)
      BY <1>1, <2>1, <2>3 DEF Taken
    <3>2. q \in KeyedIn(s)
      BY <2>1, <3>1, KeyedIs
    <3>3. QED
      BY <2>3, <3>1, <3>2
  <2>4. QED
    BY <2>2, <2>3
<1>4. ASSUME NEW q \in KeyedIn(t) PROVE TextIn(t[q].text, bytes[t[q].key], a)
  BY <1>3 DEF TextsIn
<1>5. ASSUME NEW q \in KeyedIn(t), NEW r \in KeyedIn(t), q # r PROVE Apart(t[q].text, t[r].text)
  BY <1>3, <1>5 DEF TextsIn
<1>6. QED
  BY <1>4, <1>5 DEF TextsIn, t


\* The keys that move to a larger table keep their texts.
LEMMA DoubledTexts ==
  ASSUME Hashed, NEW n, NEW c, TableIs(slots, n, c), NoneKeyless(slots), NEW s \in Doubled,
         NEW a, TextsIn(slots, a)
  PROVE  TextsIn(s, a)
<1>1. IsTable(slots, c) /\ AllReached(slots, c) /\ OddsCancel(c) /\ c \in Nat \ {0}
  BY InitialCapAssumption DEF TableIs
<1>2. /\ IsTable(s, 4 * c) /\ AllReached(s, 4 * c) /\ Within(s, 4 * c, slots, 0 .. c - 1)
  BY <1>1, DoubledIs DEF Copied
<1>3. ASSUME NEW p \in KeyedIn(s) PROVE \E q \in KeyedIn(slots) : slots[q] = s[p]
  <2>1. p \in 0 .. 4 * c - 1 /\ Taken(s, p) /\ s[p].key # NoKey
    BY <1>2, KeyedIs
  <2>2. PICK q \in 0 .. c - 1 : Taken(slots, q) /\ slots[q] = s[p]
    BY <1>2, <2>1 DEF Within
  <2>3. q \in KeyedIn(slots)
    BY <1>1, <2>1, <2>2, KeyedIs
  <2>4. QED
    BY <2>2, <2>3
<1>4. ASSUME NEW p \in KeyedIn(s) PROVE TextIn(s[p].text, bytes[s[p].key], a)
  BY <1>3 DEF TextsIn
<1>5. ASSUME NEW p \in KeyedIn(s), NEW r \in KeyedIn(s), p # r PROVE Apart(s[p].text, s[r].text)
  <2>1. PICK q \in KeyedIn(slots) : slots[q] = s[p]
    BY <1>3
  <2>2. PICK x \in KeyedIn(slots) : slots[x] = s[r]
    BY <1>3
  <2>3. q # x
    <3>1. ASSUME q = x PROVE FALSE
      <4>1. s[p] = s[r]
        BY <2>1, <2>2, <3>1
      <4>2. /\ p \in 0 .. 4 * c - 1 /\ r \in 0 .. 4 * c - 1 /\ Taken(s, p) /\ Taken(s, r)
            /\ s[p].key # NoKey
        BY <1>2, KeyedIs
      <4>3. p = r
        BY <1>2, <4>1, <4>2, OneSlot
      <4>4. QED
        BY <1>5, <4>3
    <3>2. QED
      BY <3>1
  <2>4. QED
    BY <2>1, <2>2, <2>3 DEF TextsIn
<1>6. QED
  BY <1>4, <1>5 DEF TextsIn

\* Where the texts are, while the table is in use: positions of the array without
\* an arena come with a slot without a key.
StoredIn(s, a, st) ==
  /\ TextsIn(s, a)
  /\ \E e \in Nat : Stocked(a, st, e) /\ (e # 0 => HasKeyless(s))

LEMMA SetInTexts ==
  ASSUME Hashed, Sized, NEW s, NEW n, NEW c, TableIs(s, n, c), NEW k \in Keys, NEW v \in Vals,
         SetIn(s, n, k, v), StoredIn(s, arenas, storage)
  PROVE  StoredIn(slots', arenas', storage')
<1> DEFINE p == Spot(s, k)
<1>1. IsTable(s, c) /\ AllReached(s, c) /\ c \in Nat \ {0} /\ k # NoKey /\ TextsIn(s, arenas)
  BY InitialCapAssumption, NoKeyAssumption DEF TableIs, StoredIn
<1>2. PICK e \in Nat : Stocked(arenas, storage, e) /\ (e # 0 => HasKeyless(s))
  BY DEF StoredIn
<1>3. ASSUME Searchable(s, k)
      PROVE  p \in 0 .. c - 1 /\ Reaches(s, c, k, p) /\ (Holds(s, k) <=> Taken(s, p))
  BY <1>1, <1>3, SpotReached
<1>4. CASE ~Searchable(s, k)
  <2>1. slots' = s /\ arenas' = arenas /\ storage' = storage
    BY <1>4 DEF SetIn, Holds
  <2>2. QED
    BY <2>1
<1>5. CASE Holds(s, k)
  <2>1. /\ Searchable(s, k) /\ slots' = Overwritten(s, k, v)
        /\ arenas' = arenas /\ storage' = storage
    BY <1>5 DEF SetIn, Holds
  <2>2. p \in 0 .. c - 1 /\ Taken(s, p)
    BY <1>3, <1>5, <2>1
  <2> DEFINE f == Entry(s[p].key, s[p].text, v)
  <2>3. IsEntry(s[p])
    BY <1>1, <2>2, TakenIs
  <2>4. IsEntry(f) /\ f.key = s[p].key /\ f.text = s[p].text
    <3>1. f.key = s[p].key /\ f.text = s[p].text /\ f.val = v
      BY SlotIs
    <3>2. s[p].key \in Keys \cup {NoKey}
      BY <2>3 DEF IsEntry
    <3>3. QED
      BY <3>1, <3>2 DEF IsEntry
  <2>5. slots' = Filled(s, p, f)
    <3>1. slots' = [s EXCEPT ![p] = [s[p] EXCEPT !.val = v]]
      BY <2>1 DEF Overwritten
    <3> HIDE DEF p
    <3>2. [s[p] EXCEPT !.val = v] = f
      BY <2>3, ValueChanged
    <3>3. QED
      BY <3>1, <3>2 DEF Filled
  <2> HIDE DEF f, p
  <2>6. IsTable(Filled(s, p, f), c) /\ (HasKeyless(Filled(s, p, f)) <=> HasKeyless(s))
    <3>1. TableIs(Filled(s, p, f), n, c) /\ (HasKeyless(Filled(s, p, f)) <=> HasKeyless(s))
      BY <2>2, <2>4, ChangingIs
    <3>2. QED
      BY <3>1 DEF TableIs
  <2>7. f.key # NoKey =>
          /\ TextIn(f.text, bytes[f.key], arenas)
          /\ \A q \in KeyedIn(s) : q # p => Apart(f.text, s[q].text) /\ Apart(s[q].text, f.text)
    <3>1. ASSUME f.key # NoKey PROVE p \in KeyedIn(s)
      BY <1>1, <2>2, <2>4, <3>1, KeyedIs
    <3>2. QED
      BY <1>1, <2>4, <3>1 DEF TextsIn
  <2>8. TextsIn(Filled(s, p, f), arenas)
    BY <1>1, <2>2, <2>4, <2>6, <2>7, FilledTexts
  <2>9. QED
    BY <1>2, <2>1, <2>5, <2>6, <2>8 DEF StoredIn
<1>6. CASE /\ Searchable(s, k) /\ ~Holds(s, k) /\ Store!CopyKey(bytes[k])
           /\ slots' = Put(s, k, Store!Place(bytes[k]), v)
  <2>1. p \in 0 .. c - 1 /\ ~Taken(s, p) /\ Reaches(s, c, k, p)
    BY <1>3, <1>6
  <2>2. PICK m \in Nat \ {0} : m = bytes[k]
    BY SizeIs
  <2>3. PICK text : text = Store!Place(m)
    OBVIOUS
  <2>4. /\ e = 0 /\ Stocked(arenas', storage', 0) /\ Extended(arenas', arenas)
        /\ PlacedIn(text, m, arenas, arenas')
    BY <1>2, <1>6, <2>2, <2>3, CopyKeyIs
  <2> DEFINE f == Entry(k, text, v)
  <2>5. IsEntry(f) /\ f.key = k /\ f.text = text
    BY EntryIs, SlotIs
  <2>6. slots' = Filled(s, p, f)
    BY <1>6, <2>2, <2>3 DEF Put, Filled
  <2> HIDE DEF f, p
  <2>7. IsTable(Filled(s, p, f), c)
    <3>1. TableIs(Filled(s, p, f), IF f.key = NoKey THEN n ELSE n + 1, c)
      BY <2>1, <2>5, TakingIs
    <3>2. QED
      BY <3>1 DEF TableIs
  <2>8. AreArenas(arenas) /\ AreArenas(arenas')
    BY <1>2, <2>4 DEF Stocked
  <2>9. TextsIn(s, arenas')
    BY <1>1, <2>4, <2>8, TextsKept
  <2>10. TextIn(text, m, arenas')
    BY <2>4 DEF TextIn, PlacedIn
  <2>11. ASSUME NEW q \in KeyedIn(s)
         PROVE  Apart(text, s[q].text) /\ Apart(s[q].text, text)
    <3>1. s[q].key \in Keys
      BY <1>1, KeyedIs, TakenIs
    <3>2. PICK j \in Nat : j = bytes[s[q].key]
      BY <3>1, SizeIs
    <3>3. TextIn(s[q].text, j, arenas)
      BY <1>1, <3>2 DEF TextsIn
    <3>4. QED
      BY <2>4, <2>8, <3>3, NewIsApart
  <2>12. TextsIn(Filled(s, p, f), arenas')
    BY <1>1, <2>1, <2>2, <2>5, <2>7, <2>9, <2>10, <2>11, FilledTexts
  <2>13. QED
    BY <2>4, <2>6, <2>12 DEF StoredIn
<1>7. CASE /\ Searchable(s, k) /\ ~Holds(s, k) /\ Store!CopyFails(bytes[k])
           /\ slots' = [s EXCEPT ![Spot(s, k)] = Keyless]
  <2>1. p \in 0 .. c - 1 /\ ~Taken(s, p)
    BY <1>3, <1>7
  <2>2. PICK m \in Nat \ {0} : m = bytes[k]
    BY SizeIs
  <2>3. Extended(arenas', arenas) /\ \E j \in Nat : Stocked(arenas', storage', j)
    BY <1>2, <1>7, <2>2, CopyFailsIs
  <2> DEFINE f == Keyless
  <2>4. IsEntry(f) /\ f.key = NoKey
    BY EntryIs
  <2>5. slots' = Filled(s, p, f)
    BY <1>7 DEF Filled
  <2> HIDE DEF f, p
  <2>6. IsTable(Filled(s, p, f), c) /\ HasKeyless(Filled(s, p, f))
    <3>1. /\ TableIs(Filled(s, p, f), IF f.key = NoKey THEN n ELSE n + 1, c)
          /\ HasKeyless(Filled(s, p, f)) <=> HasKeyless(s) \/ f.key = NoKey
      BY <2>1, <2>4, TakingIs
    <3>2. QED
      BY <2>4, <3>1 DEF TableIs
  <2>7. AreArenas(arenas) /\ AreArenas(arenas')
    BY <1>2, <2>3 DEF Stocked
  <2>8. TextsIn(s, arenas')
    BY <1>1, <2>3, <2>7, TextsKept
  <2>9. TextsIn(Filled(s, p, f), arenas')
    BY <1>1, <2>1, <2>4, <2>6, <2>8, FilledTexts
  <2>10. QED
    BY <2>3, <2>5, <2>6, <2>9 DEF StoredIn
<1>8. QED
  BY <1>4, <1>5, <1>6, <1>7 DEF SetIn


-----------------------------------------------------------------------------
(***************************************************************************)
(* The invariant                                                           *)
(***************************************************************************)
\* While the table is in use its keys have their texts; afterwards no arena is
\* left.
StoreInv ==
  /\ Sized /\ AreArenas(arenas)
  /\ \/ Alive /\ StoredIn(slots, arenas, storage)
     \/ slots = Blank(0) /\ ~Alive /\ \A i \in DOMAIN arenas : ~arenas[i].live

LEMMA StoredIsAlive ==
  ASSUME NEW s, NEW a, NEW st, StoredIn(s, a, st)
  PROVE  st.stored > 0 /\ AreArenas(a)
<1>1. PICK e \in Nat : Stocked(a, st, e)
  BY DEF StoredIn
<1>2. AreArenas(a) /\ Len(a) \in Nat \ {0} /\ st = Stock(Len(a), e)
  BY <1>1, LenOfArenas DEF Stocked
<1>3. st.stored = Len(a) + e
  BY <1>2, StockIs
<1>4. QED
  BY <1>2, <1>3

LEMMA StoreInvInit ==
  ASSUME Init
  PROVE  StoreInv
<1>1. Sized /\ slots = Blank(InitialCap) /\ arenas = <<Store!Fresh(ArenaCap)>>
      /\ storage = Store!Array!Updated(Store!Array!Realloced(Store!Array!Blank, 1), 0, 1)
  BY DEF Init, Store!Init, Sized
<1>2. /\ Store!Fresh(ArenaCap) \in Arena /\ Store!Fresh(ArenaCap).cap = ArenaCap
      /\ Store!Fresh(ArenaCap).top = 0 /\ Store!Fresh(ArenaCap).live = TRUE
  BY ArenaAssumption, FreshIs
<1>3. /\ arenas \in Seq(Arena) /\ Len(arenas) = 1 /\ \A i \in 1 .. 1 : arenas[i] = Store!Fresh(ArenaCap)
  <2>1. PICK f : f = Store!Fresh(ArenaCap)
    OBVIOUS
  <2>2. arenas = <<f>> /\ f \in Arena
    BY <1>1, <1>2, <2>1
  <2>3. arenas \in Seq(Arena) /\ Len(arenas) = 1 /\ arenas[1] = f
    BY <2>2
  <2>4. \A i \in 1 .. 1 : i = 1
    OBVIOUS
  <2>5. QED
    BY <2>1, <2>3, <2>4
<1>4. AreArenas(arenas) /\ Living(arenas)
  BY <1>2, <1>3, ArenaAssumption DEF AreArenas, Living
<1>5. storage = Stock(1, 0)
  <2>1. Store!Array!Cap(Store!Array!Blank) = 0
    BY DEF Store!Array!Cap, Store!Array!Blank
  <2>2. Store!Array!Realloced(Store!Array!Blank, 1) = [elems |-> Store!Array!Zeros(1), stored |-> 1]
    <3>1. Store!Array!Realloced(Store!Array!Blank, 1) = Store!Array!Grown(Store!Array!Blank, 1)
      BY <2>1 DEF Store!Array!Realloced
    <3>2. Store!Array!Blank.elems = <<>> /\ Store!Array!Blank.stored = 0
      BY DEF Store!Array!Blank
    <3>3. QED
      BY <3>1, <3>2 DEF Store!Array!Grown
  <2>3. storage = [elems |-> [Store!Array!Zeros(1) EXCEPT ![1] = 1], stored |-> 1]
    <3>1. ASSUME NEW x, NEW y, NEW i, NEW v
          PROVE  [[elems |-> x, stored |-> y] EXCEPT !.elems[i] = v]
                   = [elems |-> [x EXCEPT ![i] = v], stored |-> y]
      OBVIOUS
    <3>2. 0 + 1 = 1
      OBVIOUS
    <3>3. QED
      BY <1>1, <2>2, <3>1, <3>2 DEF Store!Array!Updated
  <2>4. [Store!Array!Zeros(1) EXCEPT ![1] = 1] = [i \in 1 .. 1 |-> 1]
    BY DEF Store!Array!Zeros
  <2>5. Stock(1, 0) = [elems |-> [i \in 1 .. 1 |-> 1], stored |-> 1]
    <3>1. 1 + 0 = 1 /\ \A i \in 1 .. 1 : i <= 1 /\ i = 1
      OBVIOUS
    <3>2. [i \in 1 .. 1 |-> IF i <= 1 THEN i ELSE NoArena] = [i \in 1 .. 1 |-> 1]
      BY <3>1
    <3>3. QED
      BY <3>1, <3>2 DEF Stock
  <2>6. QED
    BY <2>3, <2>4, <2>5
<1>6. TextsIn(slots, arenas)
  <2>1. InitialCap \in Nat
    BY InitialCapAssumption
  <2>2. KeyedIn(slots) = {}
    BY <1>1, <2>1, BlankIs, KeyedIs
  <2>3. QED
    BY <2>2 DEF TextsIn
<1>7. Stocked(arenas, storage, 0)
  BY <1>3, <1>4, <1>5 DEF Stocked
<1>8. StoredIn(slots, arenas, storage)
  BY <1>6, <1>7 DEF StoredIn
<1>9. Alive
  BY <1>8, StoredIsAlive DEF Alive
<1>10. QED
  BY <1>1, <1>4, <1>8, <1>9, Zenon DEF StoreInv

LEMMA SetKeepsStoreInv ==
  ASSUME Inv, StoreInv, NEW k \in Keys, NEW v \in Vals, Set(k, v)
  PROVE  StoreInv'
<1>1. Hashed /\ TableIs(slots, len, Cap)
  BY DEF Inv, TableInv, Set
<1>2. Sized /\ StoredIn(slots, arenas, storage) /\ bytes' = bytes
  BY DEF StoreInv, Set
<1>3. StoredIn(slots', arenas', storage')
  <2>1. CASE SetIn(slots, len, k, v)
    BY <1>1, <1>2, <2>1, SetInTexts
  <2>2. ASSUME Growable, NEW s \in Doubled, SetIn(s, Count(s), k, v)
        PROVE  StoredIn(slots', arenas', storage')
    <3>1. NoneKeyless(slots)
      BY <2>2 DEF Growable, NoneKeyless
    <3>2. TableIs(s, len, 4 * Cap) /\ Count(s) = len /\ NoneKeyless(s)
      BY <1>1, <2>2, <3>1, DoubledHolds
    <3>3. TextsIn(s, arenas)
      BY <1>1, <1>2, <2>2, <3>1, DoubledTexts DEF StoredIn
    <3>4. ~HasKeyless(slots)
      BY <3>1 DEF HasKeyless, NoneKeyless
    <3>5. StoredIn(s, arenas, storage)
      BY <1>2, <3>3, <3>4 DEF StoredIn
    <3>6. QED
      BY <1>1, <1>2, <2>2, <3>2, <3>5, SetInTexts
  <2>3. QED
    BY <2>1, <2>2 DEF Set
<1>4. AreArenas(arenas') /\ Alive'
  BY <1>3, StoredIsAlive DEF Alive
<1>5. StoredIn(slots, arenas, storage)'
  BY <1>2, <1>3 DEF StoredIn, TextsIn
<1>6. Sized'
  BY <1>2 DEF Sized
<1>7. QED
  BY <1>4, <1>5, <1>6, Zenon DEF StoreInv

LEMMA SameStore ==
  ASSUME StoreInv, UNCHANGED <<bytes, slots, storage, arenas>>
  PROVE  StoreInv'
<1>1. Sized' /\ AreArenas(arenas')
  BY DEF StoreInv, Sized
<1>2. CASE Alive /\ StoredIn(slots, arenas, storage)
  <2>1. Alive' /\ StoredIn(slots, arenas, storage)'
    BY <1>2 DEF Alive, StoredIn, TextsIn
  <2>2. QED
    BY <1>1, <2>1, Zenon DEF StoreInv
<1>3. CASE slots = Blank(0) /\ ~Alive /\ \A i \in DOMAIN arenas : ~arenas[i].live
  <2>1. slots' = Blank(0) /\ ~Alive' /\ \A i \in DOMAIN arenas' : ~arenas'[i].live
    BY <1>3 DEF Alive
  <2>2. QED
    BY <1>1, <2>1, Zenon DEF StoreInv
<1>4. QED
  BY <1>2, <1>3 DEF StoreInv

LEMMA DestroyKeepsStoreInv ==
  ASSUME StoreInv, Destroy
  PROVE  StoreInv'
<1>1. Alive /\ Store!Release /\ slots' = Blank(0) /\ bytes' = bytes
  BY DEF Destroy
<1>2. PICK e \in Nat : Stocked(arenas, storage, e)
  BY <1>1 DEF StoreInv, StoredIn
<1>3. /\ AreArenas(arenas') /\ \A i \in DOMAIN arenas' : ~arenas'[i].live
      /\ storage'.stored = 0
  BY <1>1, <1>2, ReleaseIs
<1>4. ~Alive'
  BY <1>3 DEF Alive
<1>5. Sized'
  BY <1>1 DEF StoreInv, Sized
<1>6. QED
  BY <1>1, <1>3, <1>4, <1>5, Zenon DEF StoreInv

LEMMA StoreInvNext ==
  ASSUME Inv, StoreInv, [Next]_vars
  PROVE  StoreInv'
<1>1. CASE UNCHANGED vars
  BY <1>1, SameStore DEF vars
<1>2. ASSUME NEW k \in Keys, Get(k) PROVE StoreInv'
  BY <1>2, SameStore DEF Get, table
<1>3. ASSUME NEW k \in Keys, NEW v \in Vals, Set(k, v) PROVE StoreInv'
  BY <1>3, SetKeepsStoreInv
<1>4. CASE IterateStart
  BY <1>4, SameStore DEF IterateStart, table
<1>5. CASE IterateNext
  BY <1>5, SameStore DEF IterateNext, table
<1>6. CASE Destroy
  BY <1>6, DestroyKeepsStoreInv
<1>7. QED
  BY <1>1, <1>2, <1>3, <1>4, <1>5, <1>6 DEF Next

LEMMA StoreInvariance == Spec => []StoreInv
<1>1. Init => StoreInv
  BY StoreInvInit
<1>2. Inv /\ StoreInv /\ [Next]_vars => StoreInv'
  BY StoreInvNext
<1>3. QED
  BY <1>1, <1>2, Invariance, PTL DEF Spec


-----------------------------------------------------------------------------
(***************************************************************************)
(* The theorems                                                            *)
(***************************************************************************)
\* The text a slot points to stays that of its key, in an arena that is alive,
\* and no other key has any of its bytes: whatever the lengths of the keys,
\* however often arenas are added and the table is doubled, and after a key could
\* not be copied (nkht_strdup, nkht_double).
THEOREM TextsStayPut == Spec => []TextsStay
<1>1. Inv /\ StoreInv => TextsStay
  <2>1. SUFFICES ASSUME Inv, StoreInv, NEW p \in Keyed
                 PROVE  LET t == slots[p].text
                        IN /\ t.hi - t.lo = bytes[slots[p].key]
                           /\ arenas[t.arena].live /\ t.hi <= arenas[t.arena].top
                           /\ \A q \in Keyed \ {p} :
                                LET u == slots[q].text
                                IN  t.arena = u.arena => t.hi <= u.lo \/ u.hi <= t.lo
    BY DEF TextsStay
  <2> DEFINE t == slots[p].text
  <2>2. Keyed = KeyedIn(slots)
    BY DEF Keyed, Occupied, KeyedIn, TakenSet
  <2>3. Alive /\ StoredIn(slots, arenas, storage) /\ Sized
    <3>1. slots # Blank(0)
      BY <2>1, <2>2, BlankZero
    <3>2. QED
      BY <2>1, <3>1 DEF StoreInv
  <2>4. TextsIn(slots, arenas) /\ Living(arenas)
    BY <2>3 DEF StoredIn, Stocked
  <2>5. TextIn(t, bytes[slots[p].key], arenas)
    BY <2>1, <2>2, <2>4 DEF TextsIn
  <2>6. slots[p].key \in Keys
    <3>1. IsTable(slots, Cap)
      BY <2>1, <2>3 DEF Inv, TableInv, TableIs
    <3>2. QED
      BY <2>1, <2>2, <3>1, KeyedIs, TakenIs
  <2>7. t.hi - t.lo = bytes[slots[p].key]
    <3>1. PICK m \in Nat : m = bytes[slots[p].key]
      BY <2>3, <2>6, SizeIs
    <3>2. PICK l \in Nat : l = t.lo
      BY <2>5 DEF TextIn
    <3>3. t.hi = l + m /\ l + m - l = m
      BY <2>5, <3>1, <3>2 DEF TextIn
    <3>4. QED
      BY <3>1, <3>2, <3>3
  <2>8. arenas[t.arena].live
    <3>1. arenas[t.arena].live = TRUE
      BY <2>4, <2>5 DEF Living, TextIn
    <3>2. QED
      BY <3>1, Zenon
  <2>9. t.hi <= arenas[t.arena].top
    BY <2>5 DEF TextIn
  <2>10. ASSUME NEW q \in Keyed \ {p} PROVE Apart(t, slots[q].text)
    BY <2>1, <2>2, <2>4 DEF TextsIn
  <2>11. QED
    BY <2>7, <2>8, <2>9, <2>10, Zenon DEF Apart
<1>2. QED
  BY <1>1, Invariance, StoreInvariance, PTL

\* The array of arenas names every arena that was added, so that destroying the
\* table frees each, also when memory was refused between growing the array and
\* the arena that was to follow (nkht_strdup, nkht_deinit).
THEOREM NoArenaLeaks == Spec => []NothingLeaks
<1>1. StoreInv => NothingLeaks
  <2>1. SUFFICES ASSUME StoreInv PROVE NothingLeaks
    OBVIOUS
  <2>2. CASE Alive /\ StoredIn(slots, arenas, storage)
    <3>1. PICK e \in Nat : Stocked(arenas, storage, e) /\ (e # 0 => HasKeyless(slots))
      BY <2>2 DEF StoredIn
    <3> DEFINE n == Len(arenas)
    <3>2. n \in Nat \ {0} /\ storage = Stock(n, e)
      BY <3>1, LenOfArenas DEF Stocked
    <3> HIDE DEF n
    <3>3. /\ storage.stored = n + e
          /\ \A i \in 1 .. n + e : storage.elems[i] = IF i <= n THEN i ELSE NoArena
      <4>1. storage.stored = n + e
        BY <3>2, StockIs
      <4>2. \A i \in 1 .. n + e : storage.elems[i] = IF i <= n THEN i ELSE NoArena
        BY <3>2, StockIs
      <4>3. QED
        BY <4>1, <4>2
    <3>4. ASSUME NEW i \in 1 .. n PROVE Store!Array!At(storage, i - 1) = i
      <4>1. i \in 1 .. n + e /\ i <= n /\ i - 1 + 1 = i
        BY <3>2
      <4>2. QED
        BY <3>3, <4>1 DEF Store!Array!At
    <3>5. ASSUME NEW i \in n + 1 .. storage.stored
          PROVE  Store!Array!At(storage, i - 1) = Store!NoArena
      <4>1. i \in 1 .. n + e /\ ~(i <= n) /\ i - 1 + 1 = i
        BY <3>2, <3>3
      <4>2. QED
        BY <3>3, <4>1 DEF Store!Array!At, NoArena
    <3>6. ASSUME NoKey \notin Stored PROVE storage.stored = n
      <4>1. ~HasKeyless(slots)
        BY <3>6 DEF HasKeyless, Stored, Occupied
      <4>2. e = 0
        BY <3>1, <4>1
      <4>3. QED
        BY <3>2, <3>3, <4>2
    <3>7. QED
      BY <2>2, <3>4, <3>5, <3>6 DEF NothingLeaks, n
  <2>3. CASE ~Alive /\ \A i \in DOMAIN arenas : ~arenas[i].live
    BY <2>3 DEF NothingLeaks
  <2>4. QED
    BY <2>1, <2>2, <2>3 DEF StoreInv
<1>2. QED
  BY <1>1, StoreInvariance, PTL

\* What the other parts of the invariant do not say of the types.
HistoryInv ==
  /\ reply.res \in {"ok", "ENODATA", "EXFULL", "ENOTRECOVERABLE"}
  /\ starved \in BOOLEAN /\ steady \in BOOLEAN
  /\ yielded \in Seq(Keys \cup {NoKey})

LEMMA HistoryInvInit ==
  ASSUME Init
  PROVE  HistoryInv
<1>1. reply.res = "ok" /\ yielded = <<>>
  BY ReplyIs DEF Init
<1>2. starved \in BOOLEAN /\ steady \in BOOLEAN
  BY Zenon DEF Init
<1>3. QED
  BY <1>1, <1>2 DEF HistoryInv

LEMMA HistoryInvNext ==
  ASSUME Inv, HistoryInv, [Next]_vars
  PROVE  HistoryInv'
<1>1. CASE UNCHANGED vars
  <2>1. reply' = reply /\ starved' = starved /\ steady' = steady /\ yielded' = yielded
    BY <1>1 DEF vars
  <2>2. starved' \in BOOLEAN /\ steady' \in BOOLEAN
    BY <2>1, Zenon DEF HistoryInv
  <2>3. QED
    BY <2>1, <2>2 DEF HistoryInv
<1>2. ASSUME NEW k \in Keys, Get(k) PROVE HistoryInv'
  <2>1. starved' = starved /\ steady' = steady /\ yielded' = yielded
    BY <1>2 DEF Get
  <2>2. starved' \in BOOLEAN /\ steady' \in BOOLEAN
    BY <2>1, Zenon DEF HistoryInv
  <2>3. reply'.res \in {"ok", "ENODATA"}
    BY <1>2, ReplyIs DEF Get
  <2>4. QED
    BY <2>1, <2>2, <2>3 DEF HistoryInv
<1>3. ASSUME NEW k \in Keys, NEW v \in Vals, Set(k, v) PROVE HistoryInv'
  <2>1. PICK s, c : SetsIn(s, c, k, v)
    BY <1>3, SetIs DEF Inv
  <2>2. reply'.res \in {"ok", "EXFULL", "ENOTRECOVERABLE"}
    BY <2>1, ReplyIs DEF SetsIn, Refuses, Gives, Misplaces, Spoils
  <2>3. yielded' = <<>>
    BY <1>3 DEF Set
  <2>4. steady' \in BOOLEAN
    BY <1>3, Zenon DEF Set
  <2>5. starved' \in BOOLEAN
    <3>1. starved' = starved \/ starved' = TRUE
      BY <2>1 DEF SetsIn
    <3>2. QED
      BY <3>1, Zenon DEF HistoryInv
  <2>6. QED
    BY <2>2, <2>3, <2>4, <2>5 DEF HistoryInv
<1>4. CASE IterateStart
  <2>1. reply'.res = "ok" /\ yielded' = <<>>
    BY <1>4, ReplyIs DEF IterateStart
  <2>2. starved' = starved /\ steady' = TRUE
    BY <1>4, Zenon DEF IterateStart
  <2>3. starved' \in BOOLEAN /\ steady' \in BOOLEAN
    BY <2>2, Zenon DEF HistoryInv
  <2>4. QED
    BY <2>1, <2>3 DEF HistoryInv
<1>5. CASE IterateNext
  <2>1. starved' = starved /\ steady' = steady
    BY <1>5 DEF IterateNext
  <2>2. starved' \in BOOLEAN /\ steady' \in BOOLEAN
    BY <2>1, Zenon DEF HistoryInv
  <2>3. reply'.res \in {"ok", "ENODATA"}
    BY <1>5, ReplyIs DEF IterateNext
  <2>4. yielded' \in Seq(Keys \cup {NoKey})
    <3>1. CASE Ahead = {}
      BY <1>5, <3>1 DEF IterateNext, HistoryInv
    <3>2. CASE Ahead # {}
      <4>1. IsTable(slots, Cap) /\ cursor \in 0 .. Cap
        <5>1. IsTable(slots, Cap)
          BY <1>5 DEF Inv, TableInv, IterateNext, TableIs
        <5>2. QED
          BY <5>1 DEF Inv, IterInv
      <4>2. Cap \in Nat /\ DOMAIN slots = 0 .. Cap - 1
        BY <4>1 DEF IsTable
      <4>3. Ahead \in SUBSET Nat
        BY <4>1, <4>2 DEF Ahead
      <4>4. Min(Ahead) \in Ahead
        BY <3>2, <4>3, MinExists
      <4>5. PICK p : p = Min(Ahead)
        OBVIOUS
      <4>6. p \in 0 .. Cap - 1 /\ slots[p].occupied
        BY <4>1, <4>2, <4>4, <4>5 DEF Ahead
      <4>7. slots[p].key \in Keys \cup {NoKey}
        <5>1. Taken(slots, p)
          BY <4>2, <4>6 DEF Taken
        <5>2. QED
          BY <4>1, <4>6, <5>1, TakenIs DEF IsEntry
      <4>8. yielded' = Append(yielded, slots[p].key) \/ yielded' = yielded
        BY <1>5, <3>2, <4>5 DEF IterateNext
      <4>9. QED
        BY <4>7, <4>8 DEF HistoryInv
    <3>3. QED
      BY <3>1, <3>2
  <2>5. QED
    BY <2>2, <2>3, <2>4 DEF HistoryInv
<1>6. CASE Destroy
  <2>1. reply'.res = "ok" /\ yielded' = <<>>
    BY <1>6, ReplyIs DEF Destroy
  <2>2. starved' \in BOOLEAN /\ steady' \in BOOLEAN
    BY <1>6, Zenon DEF Destroy, HistoryInv
  <2>3. QED
    BY <2>1, <2>2 DEF HistoryInv
<1>7. QED
  BY <1>1, <1>2, <1>3, <1>4, <1>5, <1>6 DEF Next

LEMMA HistoryInvariance == Spec => []HistoryInv
<1>1. Init => HistoryInv
  BY HistoryInvInit
<1>2. Inv /\ HistoryInv /\ [Next]_vars => HistoryInv'
  BY HistoryInvNext
<1>3. QED
  BY <1>1, <1>2, Invariance, PTL DEF Spec

\* Every variable has its type, and no arena is filled into the header of its
\* frame (nkht_set, nkht_get, nkht_iterate_next, nkht_destroy, nkht_strdup).
THEOREM TypeCorrect == Spec => []TypeOK
<1>1. Inv /\ StoreInv /\ HistoryInv => TypeOK
  <2>1. SUFFICES ASSUME Inv, StoreInv, HistoryInv PROVE TypeOK
    OBVIOUS
  <2>2. /\ IsTable(slots, Cap) /\ len \in 0 .. Cap /\ (Alive => Cap >= InitialCap)
    <3>1. CASE TableIs(slots, len, Cap)
      <4>1. len \in Nat /\ len <= Cap /\ Cap \in Nat /\ IsTable(slots, Cap)
        BY <3>1, LenIs
      <4>2. QED
        BY <3>1, <4>1 DEF TableIs
    <3>2. CASE slots = Blank(0) /\ len = 0 /\ ~Alive
      <4>1. Cap = 0 /\ IsTable(slots, 0)
        BY <3>2, BlankZero DEF Cap
      <4>2. QED
        BY <3>2, <4>1
    <3>3. QED
      BY <2>1, <3>1, <3>2 DEF Inv, TableInv
  <2>3. DOMAIN slots = 0 .. Cap - 1
    BY <2>2 DEF IsTable
  <2>4. ASSUME NEW p \in Occupied
        PROVE  slots[p].key \in Keys \cup {NoKey} /\ slots[p].val \in Vals \cup {NoVal}
    <3>1. p \in 0 .. Cap - 1 /\ Taken(slots, p)
      BY <2>3 DEF Occupied, Taken
    <3>2. QED
      BY <2>2, <3>1, TakenIs DEF IsEntry
  <2>5. ASSUME NEW i \in DOMAIN arenas PROVE arenas[i].top \in 0 .. Store!Room(arenas[i].cap)
    <3>1. AreArenas(arenas)
      BY <2>1 DEF StoreInv
    <3>2. i \in 1 .. Len(arenas) /\ arenas[i] \in Arena
      BY <3>1 DEF AreArenas
    <3>3. PICK x \in Nat : x = arenas[i].top
      BY <3>2 DEF Arena
    <3>4. PICK y \in Nat : y = arenas[i].cap
      BY <3>2 DEF Arena
    <3>5. x <= y - FrameSize /\ FrameSize \in Nat
      BY <3>1, <3>2, <3>3, <3>4, ArenaAssumption DEF AreArenas
    <3>6. QED
      BY <3>3, <3>4, <3>5 DEF Store!Room
  <2>6. hash \in [Keys -> Hashes] /\ bytes \in [Keys -> KeyBytes] /\ cursor \in 0 .. Cap
    BY <2>1 DEF Inv, TableInv, IterInv, Hashed, StoreInv, Sized
  <2>7. QED
    BY <2>1, <2>2, <2>3, <2>4, <2>5, <2>6 DEF TypeOK, HistoryInv
<1>2. QED
  BY <1>1, Invariance, StoreInvariance, HistoryInvariance, PTL

=============================================================================
