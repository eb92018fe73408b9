---------------------------- MODULE AstTreeProofs ----------------------------
(***************************************************************************)
(* Proofs about AstTree: the nodes are one tree (TypeOK), which has the    *)
(* tokens of the line in their order (TokensInOrder).                      *)
(*                                                                         *)
(* Linked is what each step keeps of nodes and their neighbours; Above     *)
(* gives each node the finite set of those above it, which keeps arcs from *)
(* closing a circle and bounds the ways up that the search for a taker and *)
(* for the node to displace follow.                                        *)
(*                                                                         *)
(* Ordered gives each node the run of tokens, from lo to hi, that it is    *)
(* read as with what is below it.  All that is above last ends where the   *)
(* line does, so that a new node below one of those is read last, as is    *)
(* one in the place of one of those that has its first argument before     *)
(* it.  The parser goes by precedence and free arguments alone: that it    *)
(* puts below what is written before its arguments, and in the place of    *)
(* something what is written after its first one, follows from how lines   *)
(* go on (Begun, BeforeInfix, BeforePrefix), from Fresh and NameBelow, and *)
(* not for an operation that is first in a pair of brackets.               *)
(***************************************************************************)
EXTENDS AstTree, Lemmas

(***************************************************************************)
(* Nodes                                                                   *)
(***************************************************************************)
NodesOf(t)   == DOMAIN t.nodes
Kind(t, n)   == t.nodes[n].kind
Args(t, n)   == t.nodes[n].args
Parent(t, n) == t.nodes[n].parent

Typed(t) == t.nodes \in [NodesOf(t) -> [kind : Kinds, args : Seq(Nat), parent : Nat]]

LEMMA TypedIs ==
  ASSUME NEW t, Typed(t), NEW n \in NodesOf(t)
  PROVE  /\ Kind(t, n) \in Kinds /\ Args(t, n) \in Seq(Nat) /\ Parent(t, n) \in Nat
         /\ t.nodes[n] = [kind |-> Kind(t, n), args |-> Args(t, n), parent |-> Parent(t, n)]
  BY DEF Typed, NodesOf, Kind, Args, Parent

LEMMA NodeIs ==
  ASSUME NEW t, NEW n, NEW k, NEW a, NEW q, t.nodes[n] = [kind |-> k, args |-> a, parent |-> q]
  PROVE  /\ Kind(t, n) = k /\ Args(t, n) = a /\ Parent(t, n) = q
         /\ k \in Kinds /\ a \in Seq(Nat) /\ q \in Nat
              => t.nodes[n] \in [kind : Kinds, args : Seq(Nat), parent : Nat]
<1>1. Kind(t, n) = k /\ Args(t, n) = a /\ Parent(t, n) = q
  BY DEF Kind, Args, Parent
<1>2. ASSUME NEW K, NEW A, NEW Q, k \in K, a \in A, q \in Q
      PROVE  t.nodes[n] \in [kind : K, args : A, parent : Q]
  BY <1>2
<1>3. QED
  BY <1>1, <1>2

\* A new node below p.
LEMMA InsertedIs ==
  ASSUME NEW t, Typed(t), NEW p \in Nat, NEW n \in Nat, n \notin NodesOf(t), NEW kind \in Kinds
  PROVE  LET u == Inserted(t, p, n, kind)
         IN /\ u.root = (IF p = NULL THEN n ELSE t.root) /\ u.last = n
            /\ NodesOf(u) = NodesOf(t) \cup {n}
            /\ Typed(u)
            /\ Kind(u, n) = kind /\ Args(u, n) = <<>> /\ Parent(u, n) = p
            /\ \A m \in NodesOf(t) :
                 /\ Kind(u, m) = Kind(t, m) /\ Parent(u, m) = Parent(t, m)
                 /\ Args(u, m) = IF m = p THEN Append(Args(t, m), n) ELSE Args(t, m)
<1> DEFINE u == Inserted(t, p, n, kind)
<1>1. u = [root |-> IF p = NULL THEN n ELSE t.root, last |-> n,
           nodes |-> [m \in NodesOf(t) \cup {n} |->
                        IF m = n THEN [kind |-> kind, args |-> <<>>, parent |-> p]
                        ELSE IF m = p THEN [t.nodes[m] EXCEPT !.args = Append(@, n)]
                        ELSE t.nodes[m]]]
  BY Zenon DEF Inserted, Node, NodesOf
<1> HIDE DEF u
<1>2. /\ u.root = (IF p = NULL THEN n ELSE t.root) /\ u.last = n
      /\ u.nodes = [m \in NodesOf(t) \cup {n} |->
                      IF m = n THEN [kind |-> kind, args |-> <<>>, parent |-> p]
                      ELSE IF m = p THEN [t.nodes[m] EXCEPT !.args = Append(@, n)]
                      ELSE t.nodes[m]]
  BY <1>1
<1>3. NodesOf(u) = NodesOf(t) \cup {n}
  BY <1>2 DEF NodesOf
<1>4. u.nodes[n] = [kind |-> kind, args |-> <<>>, parent |-> p]
  BY <1>2
<1>5. Kind(u, n) = kind /\ Args(u, n) = <<>> /\ Parent(u, n) = p
  BY <1>4, NodeIs
<1>6. ASSUME NEW m \in NodesOf(t)
      PROVE  u.nodes[m] = [kind |-> Kind(t, m), parent |-> Parent(t, m),
                           args |-> IF m = p THEN Append(Args(t, m), n) ELSE Args(t, m)]
  <2>1. m # n /\ t.nodes[m] = [kind |-> Kind(t, m), args |-> Args(t, m), parent |-> Parent(t, m)]
    BY TypedIs
  <2>2. u.nodes[m] = IF m = p THEN [t.nodes[m] EXCEPT !.args = Append(@, n)] ELSE t.nodes[m]
    BY <1>2, <2>1
  <2>3. QED
    BY <2>1, <2>2
<1>7. ASSUME NEW m \in NodesOf(t)
      PROVE  /\ Kind(u, m) = Kind(t, m) /\ Parent(u, m) = Parent(t, m)
             /\ Args(u, m) = IF m = p THEN Append(Args(t, m), n) ELSE Args(t, m)
  <2>1. PICK a : a = IF m = p THEN Append(Args(t, m), n) ELSE Args(t, m)
    OBVIOUS
  <2>2. u.nodes[m] = [kind |-> Kind(t, m), args |-> a, parent |-> Parent(t, m)]
    BY <1>6, <2>1
  <2>3. QED
    BY <2>1, <2>2, NodeIs
<1>8. Typed(u)
  <2>1. ASSUME NEW m \in NodesOf(u)
        PROVE  u.nodes[m] \in [kind : Kinds, args : Seq(Nat), parent : Nat]
    <3>1. CASE m = n
      <4>1. <<>> \in Seq(Nat)
        OBVIOUS
      <4>2. QED
        BY <1>4, <3>1, <4>1, NodeIs
    <3>2. CASE m \in NodesOf(t)
      <4>1. Kind(t, m) \in Kinds /\ Args(t, m) \in Seq(Nat) /\ Parent(t, m) \in Nat
        BY <3>2, TypedIs
      <4>2. ASSUME NEW s \in Seq(Nat) PROVE Append(s, n) \in Seq(Nat)
        OBVIOUS
      <4>3. PICK a \in Seq(Nat) : a = IF m = p THEN Append(Args(t, m), n) ELSE Args(t, m)
        BY <4>1, <4>2
      <4>4. u.nodes[m] = [kind |-> Kind(t, m), args |-> a, parent |-> Parent(t, m)]
        BY <1>6, <3>2, <4>3
      <4>5. QED
        BY <4>1, <4>3, <4>4, NodeIs
    <3>3. QED
      BY <1>3, <3>1, <3>2
  <2>2. u.nodes = [m \in NodesOf(u) |-> u.nodes[m]]
    BY <1>2, <1>3
  <2>3. QED
    BY <2>1, <2>2 DEF Typed
<1>9. QED
  BY <1>2, <1>3, <1>5, <1>7, <1>8 DEF u

\* A new node in the place of c.
LEMMA AdoptedIs ==
  ASSUME NEW t, Typed(t), NEW c \in NodesOf(t), c \in Nat, NEW n \in Nat, n \notin NodesOf(t), NEW kind \in Kinds
  PROVE  LET u == Adopted(t, c, n, kind)
         IN /\ u.root = (IF Parent(t, c) = NULL THEN n ELSE t.root) /\ u.last = n
            /\ NodesOf(u) = NodesOf(t) \cup {n}
            /\ Typed(u)
            /\ Kind(u, n) = kind /\ Args(u, n) = <<c>> /\ Parent(u, n) = Parent(t, c)
            /\ Parent(u, c) = n /\ Kind(u, c) = Kind(t, c) /\ Args(u, c) = Args(t, c)
            /\ \A m \in NodesOf(t) \ {c} :
                 /\ Kind(u, m) = Kind(t, m) /\ Parent(u, m) = Parent(t, m)
                 /\ Len(Args(u, m)) = Len(Args(t, m))
                 /\ \A i \in 1 .. Len(Args(t, m)) :
                      Args(u, m)[i] = IF Args(t, m)[i] = c THEN n ELSE Args(t, m)[i]
<1> DEFINE u == Adopted(t, c, n, kind)
           Put(s) == [i \in DOMAIN s |-> IF s[i] = c THEN n ELSE s[i]]
<1>1. u = [root |-> IF Parent(t, c) = NULL THEN n ELSE t.root, last |-> n,
           nodes |-> [m \in NodesOf(t) \cup {n} |->
                        IF m = n THEN [[kind |-> kind, args |-> <<>>, parent |-> Parent(t, c)] EXCEPT !.args = <<c>>]
                        ELSE IF m = c THEN [t.nodes[m] EXCEPT !.parent = n]
                        ELSE [t.nodes[m] EXCEPT !.args = Put(@)]]]
  BY Zenon DEF Adopted, Node, NodesOf, Parent
<1> HIDE DEF u
<1>2. /\ u.root = (IF Parent(t, c) = NULL THEN n ELSE t.root) /\ u.last = n
      /\ u.nodes = [m \in NodesOf(t) \cup {n} |->
                        IF m = n THEN [[kind |-> kind, args |-> <<>>, parent |-> Parent(t, c)] EXCEPT !.args = <<c>>]
                        ELSE IF m = c THEN [t.nodes[m] EXCEPT !.parent = n]
                        ELSE [t.nodes[m] EXCEPT !.args = Put(@)]]
  BY <1>1
<1> HIDE DEF Put
<1>3. NodesOf(u) = NodesOf(t) \cup {n}
  BY <1>2 DEF NodesOf
<1>4. u.nodes[n] = [kind |-> kind, args |-> <<c>>, parent |-> Parent(t, c)]
  BY <1>2
<1>5. Kind(u, n) = kind /\ Args(u, n) = <<c>> /\ Parent(u, n) = Parent(t, c)
  BY <1>4, NodeIs
<1>6. ASSUME NEW m \in NodesOf(t)
      PROVE  u.nodes[m] = [kind |-> Kind(t, m), parent |-> IF m = c THEN n ELSE Parent(t, m),
                           args |-> IF m = c THEN Args(t, m) ELSE Put(Args(t, m))]
  <2>1. m # n /\ t.nodes[m] = [kind |-> Kind(t, m), args |-> Args(t, m), parent |-> Parent(t, m)]
    BY TypedIs
  <2>2. u.nodes[m] = IF m = c THEN [t.nodes[m] EXCEPT !.parent = n] ELSE [t.nodes[m] EXCEPT !.args = Put(@)]
    BY <1>2, <2>1
  <2>3. QED
    BY <2>1, <2>2
<1>7. ASSUME NEW m \in NodesOf(t)
      PROVE  /\ Kind(u, m) = Kind(t, m)
             /\ Parent(u, m) = IF m = c THEN n ELSE Parent(t, m)
             /\ Args(u, m) = IF m = c THEN Args(t, m) ELSE Put(Args(t, m))
  <2>1. PICK a : a = IF m = c THEN Args(t, m) ELSE Put(Args(t, m))
    OBVIOUS
  <2>2. PICK q : q = IF m = c THEN n ELSE Parent(t, m)
    OBVIOUS
  <2>3. u.nodes[m] = [kind |-> Kind(t, m), args |-> a, parent |-> q]
    BY <1>6, <2>1, <2>2
  <2>4. QED
    BY <2>1, <2>2, <2>3, NodeIs
<1>8. ASSUME NEW s \in Seq(Nat)
      PROVE  /\ Put(s) \in Seq(Nat) /\ Len(Put(s)) = Len(s)
             /\ \A i \in 1 .. Len(s) : Put(s)[i] = IF s[i] = c THEN n ELSE s[i]
  <2>1. DOMAIN s = 1 .. Len(s) /\ Len(s) \in Nat /\ \A i \in 1 .. Len(s) : s[i] \in Nat
    OBVIOUS
  <2>2. Put(s) = [i \in 1 .. Len(s) |-> IF s[i] = c THEN n ELSE s[i]]
    BY <2>1 DEF Put
  <2>3. Put(s) \in [1 .. Len(s) -> Nat]
    BY <2>1, <2>2
  <2>4. QED
    BY <2>1, <2>2, <2>3
<1>9. Typed(u)
  <2>1. ASSUME NEW m \in NodesOf(u)
        PROVE  u.nodes[m] \in [kind : Kinds, args : Seq(Nat), parent : Nat]
    <3>1. CASE m = n
      <4>1. Parent(t, c) \in Nat
        BY TypedIs
      <4>2. <<c>> \in Seq(Nat)
        OBVIOUS
      <4>3. QED
        BY <1>4, <3>1, <4>1, <4>2, NodeIs
    <3>2. CASE m \in NodesOf(t)
      <4>1. Kind(t, m) \in Kinds /\ Args(t, m) \in Seq(Nat) /\ Parent(t, m) \in Nat
        BY <3>2, TypedIs
      <4>2. PICK a \in Seq(Nat) : a = IF m = c THEN Args(t, m) ELSE Put(Args(t, m))
        BY <1>8, <4>1
      <4>3. PICK q \in Nat : q = IF m = c THEN n ELSE Parent(t, m)
        BY <4>1
      <4>4. u.nodes[m] = [kind |-> Kind(t, m), args |-> a, parent |-> q]
        BY <1>6, <3>2, <4>2, <4>3
      <4>5. QED
        BY <4>1, <4>2, <4>3, <4>4, NodeIs
    <3>3. QED
      BY <1>3, <3>1, <3>2
  <2>2. u.nodes = [m \in NodesOf(u) |-> u.nodes[m]]
    BY <1>2, <1>3
  <2>3. QED
    BY <2>1, <2>2 DEF Typed
<1>10. ASSUME NEW m \in NodesOf(t) \ {c}
       PROVE  /\ Kind(u, m) = Kind(t, m) /\ Parent(u, m) = Parent(t, m)
              /\ Len(Args(u, m)) = Len(Args(t, m))
              /\ \A i \in 1 .. Len(Args(t, m)) :
                   Args(u, m)[i] = IF Args(t, m)[i] = c THEN n ELSE Args(t, m)[i]
  <2>1. Args(t, m) \in Seq(Nat)
    BY TypedIs
  <2>2. QED
    BY <1>7, <1>8, <2>1
<1>11. QED
  BY <1>2, <1>3, <1>5, <1>7, <1>9, <1>10 DEF u

LEMMA ArgcIs == \A k \in Kinds : ExpectedArgc(k) \in 0 .. 3
  BY DEF ExpectedArgc, Kinds, Binaries, Unaries, Closers, Openers, Operands, Braces, Words

(***************************************************************************)
(* Trees                                                                   *)
(***************************************************************************)

\* Node n and its neighbours know each other.
SoundNode(t, n) ==
  /\ Len(Args(t, n)) <= ExpectedArgc(Kind(t, n))
  /\ \A i \in 1 .. Len(Args(t, n)) :
       /\ Args(t, n)[i] \in NodesOf(t) \ {t.root} /\ Parent(t, Args(t, n)[i]) = n
       /\ \A j \in 1 .. Len(Args(t, n)) : Args(t, n)[i] = Args(t, n)[j] => i = j
  /\ n # t.root => /\ Parent(t, n) \in NodesOf(t)
                   /\ \E i \in 1 .. Len(Args(t, Parent(t, n))) : Args(t, Parent(t, n))[i] = n

Linked(t) ==
  /\ Typed(t) /\ IsFiniteSet(NodesOf(t)) /\ NodesOf(t) \subseteq Nat \ {0}
  /\ t.root \in NodesOf(t) /\ t.last \in NodesOf(t) /\ Parent(t, t.root) = NULL
  /\ \A n \in NodesOf(t) : SoundNode(t, n)

\* A[n] is node n and what is above it: nothing is above itself.
Above(t, A) ==
  /\ A \in [NodesOf(t) -> SUBSET NodesOf(t)]
  /\ A[t.root] = {t.root}
  /\ \A n \in NodesOf(t) : n \in A[n] /\ t.root \in A[n] /\ \A m \in A[n] : A[m] \subseteq A[n]
  /\ \A n \in NodesOf(t) \ {t.root} :
       n \notin A[Parent(t, n)] /\ A[n] = A[Parent(t, n)] \cup {n}

\* The first node is a tree.
LEMMA PlantedIsTree ==
  ASSUME NEW t, Typed(t), NodesOf(t) = {}, NEW n \in Nat \ {0}, NEW kind \in Kinds
  PROVE  LET u == Inserted(t, NULL, n, kind)
         IN Linked(u) /\ Above(u, [m \in {n} |-> {n}])
<1> DEFINE u == Inserted(t, NULL, n, kind)
           A == [m \in {n} |-> {n}]
<1>1. /\ u.root = n /\ u.last = n /\ NodesOf(u) = {n} /\ Typed(u)
      /\ Kind(u, n) = kind /\ Args(u, n) = <<>> /\ Parent(u, n) = NULL
  <2>1. NULL \in Nat
    BY DEF NULL
  <2>2. QED
    BY <2>1, InsertedIs
<1> HIDE DEF u
<1>2. IsFiniteSet({n})
  BY FS_Singleton
<1>3. Len(<<>>) = 0 /\ ExpectedArgc(kind) >= 0
  BY ArgcIs
<1>4. Linked(u)
  BY <1>1, <1>2, <1>3 DEF Linked, SoundNode
<1>5. A[n] = {n} /\ A \in [{n} -> SUBSET {n}]
  OBVIOUS
<1> HIDE DEF A
<1>6. Above(u, A)
  BY <1>1, <1>5 DEF Above
<1>7. QED
  BY <1>4, <1>6 DEF u, A

\* So is it with a new node below p.
InsertedAbove(A, p, n) == [m \in DOMAIN A \cup {n} |-> IF m = n THEN A[p] \cup {n} ELSE A[m]]

LEMMA InsertedIsTree ==
  ASSUME NEW t, NEW A, Linked(t), Above(t, A),
         NEW p \in NodesOf(t), NEW n \in Nat \ {0}, n \notin NodesOf(t), NEW kind \in Kinds,
         Len(Args(t, p)) < ExpectedArgc(Kind(t, p))
  PROVE  LET u == Inserted(t, p, n, kind)
         IN Linked(u) /\ Above(u, InsertedAbove(A, p, n))
<1> DEFINE u == Inserted(t, p, n, kind)
           N == NodesOf(t)
<1>1. p # NULL /\ p \in Nat /\ Typed(t)
  BY DEF Linked, NULL
<1>2. /\ u.root = t.root /\ u.last = n /\ NodesOf(u) = N \cup {n} /\ Typed(u)
      /\ Kind(u, n) = kind /\ Args(u, n) = <<>> /\ Parent(u, n) = p
      /\ \A m \in N : /\ Kind(u, m) = Kind(t, m) /\ Parent(u, m) = Parent(t, m)
                      /\ Args(u, m) = IF m = p THEN Append(Args(t, m), n) ELSE Args(t, m)
  BY <1>1, InsertedIs
<1> HIDE DEF u
<1>3. IsFiniteSet(N \cup {n})
  BY FS_AddElement DEF Linked
<1>4. t.root \in N /\ n # t.root /\ Parent(t, t.root) = NULL
  BY DEF Linked
<1>5. ASSUME NEW m \in N
      PROVE  /\ m # p => Args(u, m) = Args(t, m)
             /\ m = p => /\ Len(Args(u, p)) = Len(Args(t, p)) + 1
                         /\ Args(u, p)[Len(Args(t, p)) + 1] = n
                         /\ \A i \in 1 .. Len(Args(t, p)) : Args(u, p)[i] = Args(t, p)[i]
             /\ Args(t, m) \in Seq(Nat) /\ Len(Args(t, m)) \in Nat
  <2>1. Args(t, m) \in Seq(Nat)
    BY <1>1, TypedIs
  <2>2. ASSUME NEW s \in Seq(Nat)
        PROVE  /\ Len(s) \in Nat /\ Len(Append(s, n)) = Len(s) + 1 /\ Append(s, n)[Len(s) + 1] = n
               /\ \A i \in 1 .. Len(s) : Append(s, n)[i] = s[i]
    OBVIOUS
  <2>3. QED
    BY <1>2, <2>1, <2>2
<1>6. ASSUME NEW m \in N PROVE SoundNode(u, m)
  <2>1. SoundNode(t, m)
    BY DEF Linked
  <2>2. Len(Args(u, m)) <= ExpectedArgc(Kind(u, m))
    <3>1. Kind(t, p) \in Kinds
      BY <1>1, TypedIs
    <3>2. ExpectedArgc(Kind(t, p)) \in 0 .. 3
      BY <3>1, ArgcIs
    <3>3. Len(Args(t, m)) <= ExpectedArgc(Kind(t, m))
      BY <2>1 DEF SoundNode
    <3>4. CASE m # p
      BY <1>2, <1>5, <3>3, <3>4
    <3>5. CASE m = p
      <4>1. Len(Args(u, p)) = Len(Args(t, p)) + 1 /\ Len(Args(t, p)) \in Nat /\ Kind(u, p) = Kind(t, p)
        BY <1>2, <1>5
      <4>2. QED
        BY <3>2, <3>5, <4>1
    <3>6. QED
      BY <3>4, <3>5
  <2>3. ASSUME NEW i \in 1 .. Len(Args(u, m))
        PROVE  /\ Args(u, m)[i] \in (N \cup {n}) \ {t.root} /\ Parent(u, Args(u, m)[i]) = m
               /\ \A j \in 1 .. Len(Args(u, m)) : Args(u, m)[i] = Args(u, m)[j] => i = j
    <3>1. ASSUME NEW j \in 1 .. Len(Args(t, m))
          PROVE  /\ Args(t, m)[j] \in N \ {t.root} /\ Parent(u, Args(t, m)[j]) = m
                 /\ \A h \in 1 .. Len(Args(t, m)) : Args(t, m)[j] = Args(t, m)[h] => j = h
      BY <1>2, <2>1 DEF SoundNode
    <3>2. CASE m # p
      BY <1>5, <3>1, <3>2
    <3>3. CASE m = p
      <4>1. \A j \in 1 .. Len(Args(u, m)) : j # Len(Args(t, m)) + 1 => j \in 1 .. Len(Args(t, m))
        BY <1>5, <3>3
      <4>2. \A j \in 1 .. Len(Args(t, m)) : Args(u, m)[j] = Args(t, m)[j] /\ Args(t, m)[j] # n
        BY <1>5, <3>1, <3>3
      <4>3. Args(u, m)[Len(Args(t, m)) + 1] = n /\ Parent(u, n) = m
        BY <1>2, <1>5, <3>3
      <4>4. CASE i = Len(Args(t, m)) + 1
        BY <1>4, <4>1, <4>2, <4>3, <4>4
      <4>5. CASE i # Len(Args(t, m)) + 1
        BY <3>1, <4>1, <4>2, <4>3, <4>5
      <4>6. QED
        BY <4>4, <4>5
    <3>4. QED
      BY <3>2, <3>3
  <2>4. ASSUME m # t.root
        PROVE  /\ Parent(u, m) \in N
               /\ \E i \in 1 .. Len(Args(u, Parent(u, m))) : Args(u, Parent(u, m))[i] = m
    <3>1. PICK q \in N : q = Parent(t, m) /\ q = Parent(u, m)
      BY <1>2, <2>1, <2>4 DEF SoundNode
    <3>2. PICK i \in 1 .. Len(Args(t, q)) : Args(t, q)[i] = m
      BY <2>1, <2>4, <3>1 DEF SoundNode
    <3>3. i \in 1 .. Len(Args(u, q)) /\ Args(u, q)[i] = m
      BY <1>5, <3>2
    <3>4. QED
      BY <3>1, <3>3
  <2>5. QED
    BY <1>2, <2>2, <2>3, <2>4 DEF SoundNode
<1>7. SoundNode(u, n)
  <2>1. Len(<<>>) = 0 /\ ExpectedArgc(kind) >= 0
    BY ArgcIs
  <2>2. Len(Args(u, p)) \in 1 .. Len(Args(u, p)) /\ Args(u, p)[Len(Args(u, p))] = n
    BY <1>5
  <2>3. QED
    BY <1>2, <2>1, <2>2 DEF SoundNode
<1>8. Linked(u)
  BY <1>2, <1>3, <1>4, <1>6, <1>7 DEF Linked
<1>9. Above(u, InsertedAbove(A, p, n))
  <2> DEFINE B == InsertedAbove(A, p, n)
  <2>1. /\ A \in [N -> SUBSET N] /\ A[t.root] = {t.root}
        /\ \A m \in N : m \in A[m] /\ t.root \in A[m] /\ \A x \in A[m] : A[x] \subseteq A[m]
        /\ \A m \in N \ {t.root} : m \notin A[Parent(t, m)] /\ A[m] = A[Parent(t, m)] \cup {m}
    BY DEF Above
  <2>2. B = [m \in N \cup {n} |-> IF m = n THEN A[p] \cup {n} ELSE A[m]]
    BY <2>1 DEF InsertedAbove
  <2>3. B \in [N \cup {n} -> SUBSET (N \cup {n})]
    BY <2>1, <2>2
  <2>4. B[n] = A[p] \cup {n} /\ \A m \in N : B[m] = A[m]
    BY <2>2
  <2> HIDE DEF B
  <2>5. \A m \in N : A[m] \subseteq N
    BY <2>1
  <2>6. ASSUME NEW m \in N \cup {n}
        PROVE  m \in B[m] /\ t.root \in B[m] /\ \A x \in B[m] : B[x] \subseteq B[m]
    BY <2>1, <2>4, <2>5
  <2>7. ASSUME NEW m \in (N \cup {n}) \ {t.root}
        PROVE  m \notin B[Parent(u, m)] /\ B[m] = B[Parent(u, m)] \cup {m}
    <3>1. CASE m = n
      BY <1>2, <2>4, <2>5, <3>1
    <3>2. CASE m \in N
      <4>1. Parent(t, m) \in N
        BY <3>2, <2>7 DEF Linked, SoundNode
      <4>2. QED
        BY <1>2, <2>1, <2>4, <2>7, <3>2, <4>1
    <3>3. QED
      BY <3>1, <3>2
  <2>8. B[t.root] = {t.root}
    BY <1>4, <2>1, <2>4
  <2>9. Above(u, B)
    BY <1>2, <2>3, <2>6, <2>7, <2>8 DEF Above
  <2>10. QED
    BY <2>9 DEF B
<1>10. QED
  BY <1>8, <1>9 DEF u


\* And with a new node in the place of c.
AdoptedAbove(A, c, n) ==
  [m \in DOMAIN A \cup {n} |->
     IF m = n THEN (A[c] \ {c}) \cup {n} ELSE IF c \in A[m] THEN A[m] \cup {n} ELSE A[m]]

LEMMA AdoptedIsTree ==
  ASSUME NEW t, NEW A, Linked(t), Above(t, A),
         NEW c \in NodesOf(t), NEW n \in Nat \ {0}, n \notin NodesOf(t),
         NEW kind \in Kinds, ExpectedArgc(kind) > 0
  PROVE  LET u == Adopted(t, c, n, kind)
         IN Linked(u) /\ Above(u, AdoptedAbove(A, c, n))
<1> DEFINE u == Adopted(t, c, n, kind)
           N == NodesOf(t)
           B == AdoptedAbove(A, c, n)
<1>1. Typed(t) /\ c \in Nat /\ n \in Nat /\ NULL \notin N
  BY DEF Linked, NULL
<1>2. /\ u.root = (IF Parent(t, c) = NULL THEN n ELSE t.root) /\ u.last = n
      /\ NodesOf(u) = N \cup {n} /\ Typed(u)
      /\ Kind(u, n) = kind /\ Args(u, n) = <<c>> /\ Parent(u, n) = Parent(t, c)
      /\ Parent(u, c) = n /\ Kind(u, c) = Kind(t, c) /\ Args(u, c) = Args(t, c)
      /\ \A m \in N \ {c} :
           /\ Kind(u, m) = Kind(t, m) /\ Parent(u, m) = Parent(t, m)
           /\ Len(Args(u, m)) = Len(Args(t, m))
           /\ \A i \in 1 .. Len(Args(t, m)) :
                Args(u, m)[i] = IF Args(t, m)[i] = c THEN n ELSE Args(t, m)[i]
  BY <1>1, AdoptedIs
<1> HIDE DEF u
<1>3. IsFiniteSet(N \cup {n})
  BY FS_AddElement DEF Linked
<1>4. /\ t.root \in N /\ n # t.root /\ Parent(t, t.root) = NULL
      /\ \A m \in N \ {t.root} : Parent(t, m) \in N
  BY DEF Linked, SoundNode
<1>5. Parent(t, c) = NULL <=> c = t.root
  BY <1>1, <1>4
<1>6. /\ A \in [N -> SUBSET N] /\ A[t.root] = {t.root}
      /\ \A m \in N : m \in A[m] /\ t.root \in A[m] /\ \A x \in A[m] : A[x] \subseteq A[m]
      /\ \A m \in N \ {t.root} : m \notin A[Parent(t, m)] /\ A[m] = A[Parent(t, m)] \cup {m}
      /\ \A m \in N : A[m] \subseteq N
  BY DEF Above
<1>7. ASSUME NEW m \in N \ {t.root} PROVE Parent(t, m) # m
  BY <1>4, <1>6
<1>8. ASSUME NEW m \in N \ {c} PROVE SoundNode(u, m)
  <2>1. SoundNode(t, m) /\ Len(Args(t, m)) \in Nat
    <3>1. Args(t, m) \in Seq(Nat)
      BY <1>1, TypedIs
    <3>2. QED
      BY <3>1 DEF Linked
  <2>2. Len(Args(u, m)) <= ExpectedArgc(Kind(u, m))
    BY <1>2, <2>1 DEF SoundNode
  <2>3. ASSUME NEW i \in 1 .. Len(Args(t, m))
        PROVE  /\ Args(t, m)[i] \in N \ {t.root} /\ Parent(t, Args(t, m)[i]) = m
               /\ \A j \in 1 .. Len(Args(t, m)) : Args(t, m)[i] = Args(t, m)[j] => i = j
    BY <2>1 DEF SoundNode
  <2>4. ASSUME NEW i \in 1 .. Len(Args(u, m))
        PROVE  /\ Args(u, m)[i] \in (N \cup {n}) \ {u.root} /\ Parent(u, Args(u, m)[i]) = m
               /\ \A j \in 1 .. Len(Args(u, m)) : Args(u, m)[i] = Args(u, m)[j] => i = j
    <3>1. i \in 1 .. Len(Args(t, m)) /\ Len(Args(u, m)) = Len(Args(t, m))
      BY <1>2
    <3>2. \A j \in 1 .. Len(Args(u, m)) : Args(u, m)[i] = Args(u, m)[j] => i = j
      <4>1. \A j \in 1 .. Len(Args(t, m)) : Args(t, m)[j] # n
        BY <2>3
      <4>2. QED
        BY <1>2, <2>3, <3>1, <4>1
    <3>3. CASE Args(t, m)[i] = c
      <4>1. Args(u, m)[i] = n /\ Parent(t, c) = m /\ c # t.root
        BY <1>2, <2>3, <3>1, <3>3
      <4>2. u.root = t.root
        BY <1>2, <1>5, <4>1
      <4>3. QED
        BY <1>2, <1>4, <3>2, <4>1, <4>2
    <3>4. CASE Args(t, m)[i] # c
      <4>1. Args(u, m)[i] = Args(t, m)[i] /\ Args(t, m)[i] \in N \ {c} /\ Args(t, m)[i] # t.root
        BY <1>2, <2>3, <3>1, <3>4
      <4>2. Parent(u, Args(u, m)[i]) = m
        BY <1>2, <2>3, <3>1, <4>1
      <4>3. Args(u, m)[i] # u.root
        BY <1>2, <4>1
      <4>4. QED
        BY <3>2, <4>1, <4>2, <4>3
    <3>5. QED
      BY <3>3, <3>4
  <2>5. ASSUME m # u.root
        PROVE  /\ Parent(u, m) \in N
               /\ \E i \in 1 .. Len(Args(u, Parent(u, m))) : Args(u, Parent(u, m))[i] = m
    <3>1. m # t.root
      BY <1>2, <1>5, <2>5
    <3>2. PICK q \in N : q = Parent(t, m) /\ q = Parent(u, m)
      BY <1>2, <1>4, <3>1
    <3>3. PICK i \in 1 .. Len(Args(t, q)) : Args(t, q)[i] = m
      BY <2>1, <3>1, <3>2 DEF SoundNode
    <3>4. i \in 1 .. Len(Args(u, q)) /\ Args(u, q)[i] = m
      <4>1. CASE q = c
        BY <1>2, <3>3, <4>1
      <4>2. CASE q # c
        BY <1>2, <3>3, <4>2
      <4>3. QED
        BY <4>1, <4>2
    <3>5. QED
      BY <3>2, <3>4
  <2>6. QED
    BY <1>2, <2>2, <2>4, <2>5 DEF SoundNode
<1>9. SoundNode(u, c)
  <2>1. SoundNode(t, c) /\ Parent(t, c) # c
    BY <1>1, <1>4, <1>7 DEF Linked
  <2>2. ASSUME NEW i \in 1 .. Len(Args(t, c))
        PROVE  /\ Args(t, c)[i] \in N \ {t.root} /\ Parent(t, Args(t, c)[i]) = c
               /\ \A j \in 1 .. Len(Args(t, c)) : Args(t, c)[i] = Args(t, c)[j] => i = j
    BY <2>1 DEF SoundNode
  <2>3. ASSUME NEW i \in 1 .. Len(Args(t, c))
        PROVE  Args(t, c)[i] \in (N \cup {n}) \ {u.root} /\ Parent(u, Args(t, c)[i]) = c
    <3>1. Args(t, c)[i] \in N \ {c} /\ Args(t, c)[i] # t.root
      BY <2>1, <2>2
    <3>2. QED
      BY <1>2, <2>2, <3>1
  <2>4. 1 \in 1 .. Len(Args(u, n)) /\ Args(u, n)[1] = c
    BY <1>2
  <2>5. Len(Args(u, c)) <= ExpectedArgc(Kind(u, c))
    BY <1>2, <2>1 DEF SoundNode
  <2>6. \A i \in 1 .. Len(Args(u, c)) :
          /\ Args(u, c)[i] \in (N \cup {n}) \ {u.root} /\ Parent(u, Args(u, c)[i]) = c
          /\ \A j \in 1 .. Len(Args(u, c)) : Args(u, c)[i] = Args(u, c)[j] => i = j
    BY <1>2, <2>2, <2>3
  <2>7. Parent(u, c) \in N \cup {n} /\ \E i \in 1 .. Len(Args(u, Parent(u, c))) : Args(u, Parent(u, c))[i] = c
    BY <1>2, <2>4
  <2>8. QED
    BY <1>2, <2>5, <2>6, <2>7 DEF SoundNode
<1>10. SoundNode(u, n)
  <2>1. Len(<<c>>) = 1 /\ <<c>>[1] = c
    OBVIOUS
  <2>2. ExpectedArgc(kind) \in 0 .. 3
    BY ArgcIs
  <2>3. Len(Args(u, n)) <= ExpectedArgc(Kind(u, n))
    BY <1>2, <2>1, <2>2
  <2>4. c # u.root
    BY <1>2, <1>5
  <2>5. ASSUME n # u.root
        PROVE  /\ Parent(u, n) \in N
               /\ \E i \in 1 .. Len(Args(u, Parent(u, n))) : Args(u, Parent(u, n))[i] = n
    <3>1. c # t.root
      BY <1>2, <1>5, <2>5
    <3>2. PICK q \in N \ {c} : q = Parent(t, c)
      BY <1>4, <1>7, <3>1
    <3>3. PICK i \in 1 .. Len(Args(t, q)) : Args(t, q)[i] = c
      BY <3>1, <3>2 DEF Linked, SoundNode
    <3>4. i \in 1 .. Len(Args(u, q)) /\ Args(u, q)[i] = n
      BY <1>2, <3>3
    <3>5. QED
      BY <1>2, <3>2, <3>4
  <2>6. QED
    BY <1>2, <2>1, <2>3, <2>4, <2>5 DEF SoundNode
<1>11. Linked(u)
  <2>1. u.root \in N \cup {n} /\ Parent(u, u.root) = NULL
    <3>1. CASE c = t.root
      BY <1>2, <1>5, <3>1
    <3>2. CASE c # t.root
      BY <1>2, <1>4, <1>5, <3>2
    <3>3. QED
      BY <3>1, <3>2
  <2>2. N \subseteq Nat \ {0}
    BY DEF Linked
  <2>3. QED
    BY <1>2, <1>3, <1>8, <1>9, <1>10, <2>1, <2>2 DEF Linked
<1>12. /\ B \in [N \cup {n} -> SUBSET (N \cup {n})]
       /\ B[n] = (A[c] \ {c}) \cup {n}
       /\ \A m \in N : B[m] = IF c \in A[m] THEN A[m] \cup {n} ELSE A[m]
  <2>1. B = [m \in N \cup {n} |->
               IF m = n THEN (A[c] \ {c}) \cup {n} ELSE IF c \in A[m] THEN A[m] \cup {n} ELSE A[m]]
    BY <1>6 DEF AdoptedAbove
  <2> HIDE DEF B
  <2>2. QED
    BY <1>6, <2>1
<1> HIDE DEF B
<1>13. ASSUME NEW q \in A[c] \ {c} PROVE c \notin A[q]
  <2>1. c # t.root
    BY <1>6
  <2>2. q \in A[Parent(t, c)] /\ c \notin A[Parent(t, c)]
    BY <1>6, <2>1
  <2>3. QED
    BY <1>4, <1>6, <2>1, <2>2
<1>14. ASSUME NEW m \in N \cup {n} PROVE m \in B[m]
  BY <1>6, <1>12
<1>15. ASSUME NEW m \in N \cup {n} PROVE u.root \in B[m]
  <2>1. CASE c = t.root
    <3>1. u.root = n
      BY <1>2, <1>5, <2>1
    <3>2. QED
      BY <1>6, <1>12, <2>1, <3>1
  <2>2. CASE c # t.root
    <3>1. u.root = t.root
      BY <1>2, <1>5, <2>2
    <3>2. QED
      BY <1>6, <1>12, <2>2, <3>1
  <2>3. QED
    BY <2>1, <2>2
<1>16. ASSUME NEW m \in N \cup {n}, NEW x \in B[m] PROVE B[x] \subseteq B[m]
  <2>1. CASE m = n
    <3>1. CASE x = n
      BY <2>1, <3>1
    <3>2. CASE x # n
      <4>1. x \in A[c] \ {c} /\ x \in N
        BY <1>6, <1>12, <2>1, <3>2
      <4>2. B[x] = A[x] /\ c \notin A[x] /\ A[x] \subseteq A[c]
        BY <1>6, <1>12, <1>13, <4>1
      <4>3. QED
        BY <1>12, <2>1, <4>2
    <3>3. QED
      BY <3>1, <3>2
  <2>2. CASE m \in N /\ c \in A[m]
    <3>1. B[m] = A[m] \cup {n} /\ A[c] \subseteq A[m]
      BY <1>6, <1>12, <2>2
    <3>2. CASE x = n
      BY <1>12, <3>1, <3>2
    <3>3. CASE x # n
      <4>1. x \in A[m] /\ x \in N /\ A[x] \subseteq A[m]
        BY <1>6, <2>2, <3>1, <3>3
      <4>2. B[x] \subseteq A[x] \cup {n}
        BY <1>12, <4>1
      <4>3. QED
        BY <3>1, <4>1, <4>2
    <3>4. QED
      BY <3>2, <3>3
  <2>3. CASE m \in N /\ c \notin A[m]
    <3>1. B[m] = A[m] /\ x \in N /\ A[x] \subseteq A[m]
      BY <1>6, <1>12, <2>3
    <3>2. B[x] = A[x]
      BY <1>12, <2>3, <3>1
    <3>3. QED
      BY <3>1, <3>2
  <2>4. QED
    BY <2>1, <2>2, <2>3
<1>17. ASSUME NEW m \in (N \cup {n}) \ {u.root}
       PROVE  m \notin B[Parent(u, m)] /\ B[m] = B[Parent(u, m)] \cup {m}
  <2>1. CASE m = n
    <3>1. c # t.root
      BY <1>2, <1>5, <1>17, <2>1
    <3>2. PICK q \in N \ {c} : q = Parent(t, c)
      BY <1>4, <1>7, <3>1
    <3>3. c \notin A[q] /\ A[c] = A[q] \cup {c}
      BY <1>6, <3>1, <3>2
    <3>4. B[q] = A[q] /\ n \notin A[q]
      BY <1>6, <1>12, <3>2, <3>3
    <3>5. QED
      BY <1>2, <1>12, <2>1, <3>2, <3>3, <3>4
  <2>2. CASE m = c
    <3>1. c \in A[c] /\ n # c
      BY <1>6
    <3>2. B[c] = A[c] \cup {n}
      BY <1>12, <3>1
    <3>3. QED
      BY <1>2, <1>12, <2>2, <3>1, <3>2
  <2>3. CASE m \in N \ {c}
    <3>1. m # t.root
      BY <1>2, <1>5, <1>17, <2>3
    <3>2. PICK q \in N : q = Parent(t, m) /\ q = Parent(u, m)
      BY <1>2, <1>4, <2>3, <3>1
    <3>3. m \notin A[q] /\ A[m] = A[q] \cup {m}
      BY <1>6, <2>3, <3>1, <3>2
    <3>4. c \in A[m] <=> c \in A[q]
      BY <2>3, <3>3
    <3>5. QED
      BY <1>12, <2>3, <3>2, <3>3, <3>4
  <2>4. QED
    BY <2>1, <2>2, <2>3
<1>18. B[u.root] = {u.root}
  <2>1. CASE c = t.root
    BY <1>2, <1>5, <1>6, <1>12, <2>1
  <2>2. CASE c # t.root
    BY <1>2, <1>4, <1>5, <1>6, <1>12, <2>2
  <2>3. QED
    BY <2>1, <2>2
<1>19. Above(u, B)
  BY <1>2, <1>12, <1>14, <1>15, <1>16, <1>17, <1>18 DEF Above
<1>20. QED
  BY <1>11, <1>19 DEF u, B


(***************************************************************************)
(* Upwards                                                                 *)
(***************************************************************************)
Climbed(t, s) == IF Parent(t, Last(s)) = NULL THEN s ELSE Append(s, Parent(t, Last(s)))

IsUpwards(up, t, n) ==
  up = [k \in 0 .. Cardinality(DOMAIN t.nodes) |->
          IF k = 0 THEN <<n>>
          ELSE LET below == up[k - 1]
                   above == t.nodes[Last(below)].parent
               IN IF above = NULL THEN below ELSE Append(below, above)]

\* From n to the root, by all that is above n.
IsWayUp(up, t, A, n) ==
  /\ up \in Seq(NodesOf(t)) /\ Len(up) > 0 /\ up[1] = n /\ up[Len(up)] = t.root
  /\ \A i \in 1 .. Len(up) : up[i] \in A[n] /\ (i # Len(up) => up[i + 1] = Parent(t, up[i]))
  /\ \A q \in A[n] : \E i \in 1 .. Len(up) : up[i] = q

LEMMA UpwardsIs ==
  ASSUME NEW t, NEW A, Linked(t), Above(t, A), NEW n \in NodesOf(t)
  PROVE  IsWayUp(Upwards(t, n), t, A, n)
<1> DEFINE N == NodesOf(t)
           W == Seq(N) \ {<<>>}
           step == [p \in Nat \X W |-> Climbed(t, p[2])]
           size == Cardinality(N)
           up == CHOOSE up : IsUpwards(up, t, n)
           Good(s) == /\ s \in Seq(N) /\ Len(s) > 0 /\ s[1] = n
                      /\ \A i \in 1 .. Len(s) :
                           s[i] \in A[n] /\ (i # Len(s) => s[i + 1] = Parent(t, s[i]))
                      /\ \A q \in A[n] : q \in A[s[Len(s)]] \/ \E i \in 1 .. Len(s) : s[i] = q
           S == {k \in Nat : k <= size =>
                   /\ Good(up[k])
                   /\ \/ up[k][Len(up[k])] = t.root
                      \/ Cardinality(A[up[k][Len(up[k])]]) + k <= Cardinality(A[n])}
<1>1. Upwards(t, n) = up[size]
  BY Zenon DEF Upwards, IsUpwards, NodesOf
<1>2. /\ IsFiniteSet(N) /\ N \subseteq Nat \ {0} /\ t.root \in N /\ Parent(t, t.root) = NULL
      /\ \A m \in N \ {t.root} : Parent(t, m) \in N
      /\ A \in [N -> SUBSET N] /\ A[t.root] = {t.root}
      /\ \A m \in N : m \in A[m] /\ \A x \in A[m] : A[x] \subseteq A[m]
      /\ \A m \in N \ {t.root} : m \notin A[Parent(t, m)] /\ A[m] = A[Parent(t, m)] \cup {m}
  BY DEF Linked, SoundNode, Above
<1>3. size \in Nat
  BY <1>2, FS_CardinalityType
<1>4. ASSUME NEW s \in W
      PROVE  /\ Last(s) = s[Len(s)] /\ Len(s) \in Nat \ {0} /\ Last(s) \in N /\ s \in Seq(N)
             /\ Climbed(t, s) \in W
  <2>1. s \in Seq(N) /\ Len(s) \in Nat \ {0} /\ s[Len(s)] \in N
    OBVIOUS
  <2>2. Last(s) = s[Len(s)]
    BY DEF Last
  <2>3. CASE Parent(t, Last(s)) = NULL
    BY <2>1, <2>2, <2>3 DEF Climbed
  <2>4. CASE Parent(t, Last(s)) # NULL
    <3>1. PICK q \in N : q = Parent(t, Last(s))
      BY <1>2, <2>1, <2>2, <2>4
    <3>2. Climbed(t, s) = Append(s, q)
      BY <2>4, <3>1 DEF Climbed
    <3>3. Append(s, q) \in Seq(N) /\ Append(s, q) # <<>>
      BY <2>1, <3>1
    <3>4. QED
      BY <2>1, <2>2, <3>2, <3>3
  <2>5. QED
    BY <2>3, <2>4
<1>5. \E f : IsUpwards(f, t, n)
  <2>1. <<n>> \in W
    OBVIOUS
  <2>2. step \in [Nat \X W -> W]
    <3> HIDE DEF W
    <3>1. ASSUME NEW p \in Nat \X W PROVE Climbed(t, p[2]) \in W
      <4>1. p[2] \in W
        OBVIOUS
      <4>2. QED
        BY <1>4, <4>1
    <3>2. QED
      BY <3>1
  <2>3. PICK f \in [0 .. size -> W] : IsRecursive(f, size, <<n>>, step)
    <3> HIDE DEF W, step, size
    <3>1. QED
      BY <1>3, <2>1, <2>2, RecursiveFunction
  <2>4. f = [k \in 0 .. size |-> IF k = 0 THEN <<n>> ELSE step[<<k, f[k - 1]>>]]
    BY <2>3 DEF IsRecursive
  <2>5. ASSUME NEW k \in 0 .. size, k # 0 PROVE step[<<k, f[k - 1]>>] = Climbed(t, f[k - 1])
    <3>1. k - 1 \in 0 .. size /\ k \in Nat
      BY <1>3, <2>5
    <3>2. <<k, f[k - 1]>> \in Nat \X W
      <4> HIDE DEF W, size
      <4>1. QED
        BY <2>3, <3>1
    <3> HIDE DEF W
    <3>3. QED
      BY <3>2
  <2>6. f = [k \in 0 .. size |-> IF k = 0 THEN <<n>> ELSE Climbed(t, f[k - 1])]
    <3> HIDE DEF step, size
    <3>1. QED
      BY <2>4, <2>5
  <2>7. IsUpwards(f, t, n)
    BY <2>6, Zenon DEF IsUpwards, Climbed, NodesOf, Parent
  <2>8. QED
    BY <2>7
<1>6. IsUpwards(up, t, n)
  BY <1>5
<1> HIDE DEF up
<1>7. up = [k \in 0 .. size |-> IF k = 0 THEN <<n>> ELSE Climbed(t, up[k - 1])]
  BY <1>6, Zenon DEF IsUpwards, Climbed, NodesOf, Parent
<1> HIDE DEF size
<1>8. up[0] = <<n>> /\ \A k \in Nat : k + 1 <= size => up[k + 1] = Climbed(t, up[k])
  <2>1. 0 \in 0 .. size /\ \A k \in Nat : k + 1 <= size => k + 1 \in 0 .. size /\ k + 1 # 0 /\ k + 1 - 1 = k
    BY <1>3
  <2>2. up[0] = <<n>>
    BY <1>7, <2>1
  <2>3. ASSUME NEW k \in Nat, k + 1 <= size PROVE up[k + 1] = Climbed(t, up[k])
    <3>1. PICK j \in 0 .. size : j = k + 1
      BY <2>1, <2>3
    <3>2. up[j] = IF j = 0 THEN <<n>> ELSE Climbed(t, up[j - 1])
      BY <1>7
    <3>3. j # 0 /\ j - 1 = k
      BY <2>1, <2>3, <3>1
    <3>4. QED
      BY <3>1, <3>2, <3>3
  <2>4. QED
    BY <2>2, <2>3
<1>9. 0 \in S
  <2>1. <<n>> \in Seq(N) /\ Len(<<n>>) = 1 /\ <<n>>[1] = n
    OBVIOUS
  <2>2. \A i \in 1 .. 1 : i = 1
    OBVIOUS
  <2>3. Good(<<n>>)
    BY <1>2, <2>1, <2>2
  <2>4. Cardinality(A[n]) \in Nat
    <3>1. IsFiniteSet(A[n])
      BY <1>2, FS_Subset
    <3>2. QED
      BY <3>1, FS_CardinalityType
  <2>5. Good(up[0]) /\ Cardinality(A[up[0][Len(up[0])]]) + 0 <= Cardinality(A[n])
    BY <1>8, <2>1, <2>3, <2>4
  <2>6. QED
    BY <2>5
<1>10. ASSUME NEW k \in S, k \in Nat PROVE k + 1 \in S
  <2>1. SUFFICES ASSUME k + 1 <= size
                 PROVE  /\ Good(up[k + 1])
                        /\ \/ up[k + 1][Len(up[k + 1])] = t.root
                           \/ Cardinality(A[up[k + 1][Len(up[k + 1])]]) + (k + 1) <= Cardinality(A[n])
    <3> HIDE DEF Good
    <3>1. k + 1 \in Nat
      BY <1>10
    <3>2. QED
      BY <3>1
  <2>2. PICK s : s = up[k] /\ up[k + 1] = Climbed(t, s)
    BY <1>8, <2>1
  <2>3. Good(s) /\ (s[Len(s)] = t.root \/ Cardinality(A[s[Len(s)]]) + k <= Cardinality(A[n]))
    BY <1>3, <1>10, <2>1, <2>2
  <2>4. s \in W
    BY <2>3
  <2>5. Last(s) = s[Len(s)] /\ Len(s) \in Nat \ {0} /\ Last(s) \in N /\ s \in Seq(N)
    BY <1>4, <2>4
  <2>6. CASE s[Len(s)] = t.root
    <3>1. Climbed(t, s) = s
      BY <1>2, <2>5, <2>6 DEF Climbed
    <3>2. QED
      BY <2>2, <2>3, <2>6, <3>1
  <2>7. CASE s[Len(s)] # t.root
    <3>1. PICK m \in N \ {t.root} : m = s[Len(s)]
      BY <2>5, <2>7
    <3>2. PICK q \in N : q = Parent(t, m)
      BY <1>2, <3>1
    <3>3. q # NULL
      BY <1>2, <3>2 DEF NULL
    <3>4. Climbed(t, s) = Append(s, q)
      BY <2>5, <3>1, <3>2, <3>3 DEF Climbed
    <3>5. PICK r : r = Append(s, q)
      OBVIOUS
    <3>6. /\ r \in Seq(N) /\ Len(r) = Len(s) + 1 /\ r[Len(r)] = q
          /\ \A i \in 1 .. Len(s) : r[i] = s[i]
      BY <2>5, <3>5
    <3>7. m \in A[n] /\ q \in A[m] /\ A[m] \subseteq A[n]
      <4>1. m \in A[n]
        BY <2>3, <2>5, <3>1
      <4>2. QED
        BY <1>2, <3>1, <3>2, <4>1
    <3>8. Good(r)
      <4>1. \A i \in 1 .. Len(r) : i \in 1 .. Len(s) \/ i = Len(r)
        BY <2>5, <3>6
      <4>2. \A i \in 1 .. Len(r) : r[i] \in A[n]
        BY <2>3, <3>6, <3>7, <4>1
      <4>3. 1 \in 1 .. Len(s) /\ Len(s) \in 1 .. Len(s) /\ \A i \in 1 .. Len(s) : i \in 1 .. Len(r)
        BY <2>5, <3>6
      <4>4. ASSUME NEW i \in 1 .. Len(r), i # Len(r) PROVE r[i + 1] = Parent(t, r[i])
        <5>1. i \in 1 .. Len(s) /\ r[i] = s[i]
          BY <3>6, <4>1, <4>4
        <5>2. CASE i = Len(s)
          BY <3>1, <3>2, <3>6, <5>1, <5>2
        <5>3. CASE i # Len(s)
          <6>1. i + 1 \in 1 .. Len(s) /\ s[i + 1] = Parent(t, s[i])
            BY <2>3, <2>5, <5>1, <5>3
          <6>2. QED
            BY <3>6, <5>1, <6>1
        <5>4. QED
          BY <5>2, <5>3
      <4>5. ASSUME NEW x \in A[n] PROVE x \in A[q] \/ \E i \in 1 .. Len(r) : r[i] = x
        <5>1. CASE x \in A[m]
          <6>1. A[m] = A[q] \cup {m} /\ r[Len(s)] = m
            BY <1>2, <3>1, <3>2, <3>6, <4>3
          <6>2. QED
            BY <4>3, <5>1, <6>1
        <5>2. CASE x \notin A[m]
          BY <2>3, <3>1, <3>6, <4>3, <5>2
        <5>3. QED
          BY <5>1, <5>2
      <4>6. QED
        BY <2>3, <2>5, <3>6, <4>2, <4>3, <4>4, <4>5
    <3>9. Cardinality(A[m]) = Cardinality(A[q]) + 1 /\ Cardinality(A[q]) \in Nat /\ Cardinality(A[n]) \in Nat
      <4>1. IsFiniteSet(A[q]) /\ IsFiniteSet(A[n])
        BY <1>2, FS_Subset
      <4>2. A[m] = A[q] \cup {m} /\ m \notin A[q]
        BY <1>2, <3>2
      <4>3. QED
        BY <4>1, <4>2, FS_AddElement, FS_CardinalityType
    <3>10. Cardinality(A[m]) + k <= Cardinality(A[n])
      BY <2>3, <2>7, <3>1
    <3>11. Cardinality(A[q]) + (k + 1) <= Cardinality(A[n])
      BY <1>10, <3>9, <3>10
    <3>12. QED
      BY <2>2, <3>4, <3>5, <3>6, <3>8, <3>11
  <2>8. QED
    BY <2>6, <2>7
<1> HIDE DEF S
<1>11. Nat \subseteq S
  BY <1>9, <1>10, SetInduction
<1>12. PICK s : s = up[size]
  OBVIOUS
<1>13. Good(s) /\ (s[Len(s)] = t.root \/ Cardinality(A[s[Len(s)]]) + size <= Cardinality(A[n]))
  BY <1>3, <1>11, <1>12 DEF S
<1>14. s[Len(s)] = t.root
  <2>1. PICK m \in N : m = s[Len(s)]
    <3>1. s \in Seq(N) /\ Len(s) > 0
      BY <1>13
    <3>2. QED
      BY <3>1
  <2>2. /\ IsFiniteSet(A[m]) /\ IsFiniteSet(A[n])
        /\ A[m] # {} /\ A[n] \subseteq N
    BY <1>2, FS_Subset
  <2>3. Cardinality(A[m]) \in Nat /\ Cardinality(A[m]) # 0 /\ Cardinality(A[n]) \in Nat
    BY <2>2, FS_CardinalityType, FS_EmptySet
  <2>4. Cardinality(A[n]) <= size
    BY <1>2, <2>2, FS_Subset DEF size
  <2>5. QED
    BY <1>3, <1>13, <2>1, <2>3, <2>4
<1>15. \A q \in A[n] : \E i \in 1 .. Len(s) : s[i] = q
  <2>1. Len(s) \in 1 .. Len(s) /\ A[s[Len(s)]] = {s[Len(s)]}
    BY <1>2, <1>13, <1>14
  <2>2. QED
    BY <1>13, <2>1
<1>16. IsWayUp(s, t, A, n)
  BY <1>13, <1>14, <1>15 DEF IsWayUp
<1>17. QED
  BY <1>1, <1>12, <1>16

\* The nearest node of a set is one of the set and above last.
LEMMA NearestIs ==
  ASSUME NEW t, NEW A, Linked(t), Above(t, A), NEW S,
         \E i \in 1 .. Len(Upwards(t, t.last)) : Upwards(t, t.last)[i] \in S
  PROVE  Nearest(t, S) \in S \cap A[t.last] \cap NodesOf(t)
<1>1. PICK up : up = Upwards(t, t.last)
  OBVIOUS
<1>2. t.last \in NodesOf(t)
  BY DEF Linked
<1>3. up \in Seq(NodesOf(t)) /\ \A i \in 1 .. Len(up) : up[i] \in A[t.last]
  BY <1>1, <1>2, UpwardsIs DEF IsWayUp
<1>4. DOMAIN up = 1 .. Len(up) /\ Len(up) \in Nat /\ \A i \in 1 .. Len(up) : up[i] \in NodesOf(t)
  BY <1>3
<1> DEFINE I == {i \in DOMAIN up : up[i] \in S}
<1>5. I \in SUBSET Nat /\ I # {}
  BY <1>1, <1>4
<1>6. Nearest(t, S) = up[Min(I)]
  BY <1>1 DEF Nearest
<1>7. Min(I) \in I
  <2> HIDE DEF I
  <2>1. QED
    BY <1>5, MinExists
<1>8. QED
  BY <1>3, <1>4, <1>6, <1>7

\* What takes an operation is in the tree and lacks an argument.
LEMMA TakersAre ==
  ASSUME NEW t, NEW A, Linked(t), Above(t, A), NEW kind, Takers(t, kind) # {}
  PROVE  LET p == Nearest(t, Takers(t, kind))
         IN p \in A[t.last] /\ p \in NodesOf(t) /\ Len(Args(t, p)) < ExpectedArgc(Kind(t, p))
<1>1. PICK up : up = Upwards(t, t.last)
  OBVIOUS
<1>2. /\ up \in Seq(NodesOf(t)) /\ Len(up) > 0 /\ up[1] = t.last
  <2>1. t.last \in NodesOf(t)
    BY DEF Linked
  <2>2. QED
    BY <1>1, <2>1, UpwardsIs DEF IsWayUp
<1>3. PICK reach : /\ reach = ToSet(up) \/ reach = {t.last}
                   /\ Takers(t, kind) = {n \in reach : Takes(t, n, kind)}
  BY <1>1 DEF Takers
<1>4. \A n \in reach : \E i \in 1 .. Len(up) : up[i] = n
  <2>1. ToSet(up) = {up[i] : i \in 1 .. Len(up)}
    BY <1>2 DEF ToSet
  <2>2. 1 \in 1 .. Len(up)
    BY <1>2
  <2>3. QED
    BY <1>2, <1>3, <2>1, <2>2
<1>5. \E i \in 1 .. Len(up) : up[i] \in Takers(t, kind)
  BY <1>3, <1>4
<1>6. PICK p : p = Nearest(t, Takers(t, kind))
  OBVIOUS
<1>7. p \in Takers(t, kind) /\ p \in A[t.last] /\ p \in NodesOf(t)
  BY <1>1, <1>5, <1>6, NearestIs
<1>8. Hungry(t, p)
  BY <1>3, <1>7 DEF Takes
<1>9. QED
  BY <1>6, <1>7, <1>8 DEF Hungry, Args, Kind

\* There is a node to displace.
LEMMA DisplacedIs ==
  ASSUME NEW t, NEW A, Linked(t), Above(t, A), NEW kind
  PROVE  Displaced(t, kind) \in A[t.last] \cap NodesOf(t)
<1> DEFINE S == {c \in DOMAIN t.nodes : t.nodes[c].parent = NULL \/ ~Climbs(t, c, kind)}
<1>1. PICK up : up = Upwards(t, t.last)
  OBVIOUS
<1>2. /\ up \in Seq(NodesOf(t)) /\ Len(up) > 0 /\ up[Len(up)] = t.root
  <2>1. t.last \in NodesOf(t)
    BY DEF Linked
  <2>2. QED
    BY <1>1, <2>1, UpwardsIs DEF IsWayUp
<1>3. t.root \in S
  BY DEF Linked, NodesOf, Parent
<1>4. Len(up) \in 1 .. Len(up)
  BY <1>2
<1>5. Displaced(t, kind) = Nearest(t, S)
  BY DEF Displaced
<1> HIDE DEF S
<1>6. QED
  BY <1>1, <1>2, <1>3, <1>4, <1>5, NearestIs


(***************************************************************************)
(* Arcs                                                                    *)
(***************************************************************************)
IsArc(t, a) == \E n \in NodesOf(t) : \E i \in 1 .. Len(Args(t, n)) : a = <<n, i, Args(t, n)[i]>>

LEMMA ArcsAre ==
  ASSUME NEW t, Linked(t)
  PROVE  \A a : a \in Arcs(t) <=> IsArc(t, a)
<1>1. ASSUME NEW n \in NodesOf(t) PROVE DOMAIN Args(t, n) = 1 .. Len(Args(t, n))
  <2>1. Args(t, n) \in Seq(Nat)
    BY TypedIs DEF Linked
  <2>2. QED
    BY <2>1
<1>2. Arcs(t) = UNION {{<<n, i, Args(t, n)[i]>> : i \in DOMAIN Args(t, n)} : n \in NodesOf(t)}
  BY DEF Arcs, Args, NodesOf
<1>3. ASSUME NEW a PROVE a \in Arcs(t) <=> IsArc(t, a)
  BY <1>1, <1>2 DEF IsArc
<1>4. QED
  BY <1>3

\* One arc leads to each node but the root.
LEMMA ArcsOfTree ==
  ASSUME NEW t, Linked(t)
  PROVE  /\ Cardinality(Arcs(t)) = Cardinality(NodesOf(t) \ {t.root})
         /\ {a[3] : a \in Arcs(t)} = NodesOf(t) \ {t.root}
         /\ \A a \in Arcs(t) : Parent(t, a[3]) = a[1]
<1> DEFINE T == NodesOf(t) \ {t.root}
           f == [a \in Arcs(t) |-> a[3]]
<1>1. ASSUME NEW n \in NodesOf(t), NEW i \in 1 .. Len(Args(t, n))
      PROVE  /\ Args(t, n)[i] \in T /\ Parent(t, Args(t, n)[i]) = n
             /\ \A j \in 1 .. Len(Args(t, n)) : Args(t, n)[i] = Args(t, n)[j] => i = j
  BY DEF Linked, SoundNode
<1>2. ASSUME NEW a \in Arcs(t) PROVE a[3] \in T /\ Parent(t, a[3]) = a[1]
  BY <1>1, ArcsAre DEF IsArc
<1>3. ASSUME NEW a \in Arcs(t), NEW b \in Arcs(t), a[3] = b[3] PROVE a = b
  <2>1. PICK n \in NodesOf(t) : \E i \in 1 .. Len(Args(t, n)) : a = <<n, i, Args(t, n)[i]>>
    BY ArcsAre DEF IsArc
  <2>2. PICK i \in 1 .. Len(Args(t, n)) : a = <<n, i, Args(t, n)[i]>>
    BY <2>1
  <2>3. PICK m \in NodesOf(t) : \E j \in 1 .. Len(Args(t, m)) : b = <<m, j, Args(t, m)[j]>>
    BY ArcsAre DEF IsArc
  <2>4. PICK j \in 1 .. Len(Args(t, m)) : b = <<m, j, Args(t, m)[j]>>
    BY <2>3
  <2>5. n = m
    BY <1>1, <1>3, <2>2, <2>4
  <2>6. i = j
    BY <1>1, <1>3, <2>2, <2>4, <2>5
  <2>7. QED
    BY <2>2, <2>4, <2>5, <2>6
<1>4. ASSUME NEW n \in T PROVE \E a \in Arcs(t) : a[3] = n
  <2>1. PICK i \in 1 .. Len(Args(t, Parent(t, n))) : Args(t, Parent(t, n))[i] = n
    BY DEF Linked, SoundNode
  <2>2. Parent(t, n) \in NodesOf(t)
    BY DEF Linked, SoundNode
  <2>3. PICK a : a = <<Parent(t, n), i, Args(t, Parent(t, n))[i]>>
    OBVIOUS
  <2>4. a \in Arcs(t)
    BY <2>2, <2>3, ArcsAre DEF IsArc
  <2>5. QED
    BY <2>1, <2>3, <2>4
<1>5. f \in Injection(Arcs(t), T)
  BY <1>2, <1>3 DEF Injection, IsInjective
<1>6. f \in Surjection(Arcs(t), T)
  BY <1>2, <1>4 DEF Surjection
<1>7. IsFiniteSet(T)
  BY FS_Subset DEF Linked
<1>8. Cardinality(Arcs(t)) = Cardinality(T)
  <2> HIDE DEF f, T
  <2>1. QED
    BY <1>5, <1>6, <1>7, FS_Injection
<1>9. QED
  BY <1>2, <1>4, <1>8


(***************************************************************************)
(* Lines                                                                   *)
(***************************************************************************)
LEMMA SuffixEnds ==
  ASSUME NEW s, NEW t, IsSeq(s), IsSeq(t), Len(s) > 0, IsSuffix(s, t)
  PROVE  Len(t) > 0 /\ t[Len(t)] = s[Len(s)]
<1>1. Len(s) \in Nat /\ Len(t) \in Nat
  BY IsSeqMeans
<1>2. ASSUME NEW x, IsSeq(x)
      PROVE  /\ IsSeq(Reverse(x)) /\ Len(Reverse(x)) = Len(x)
             /\ Len(x) > 0 => Reverse(x)[1] = x[Len(x)]
  <2> DEFINE T == {x[i] : i \in DOMAIN x}
  <2>1. x \in Seq(T)
    BY <1>2 DEF IsSeq
  <2> HIDE DEF T
  <2>2. Len(x) \in Nat /\ \A i \in 1 .. Len(x) : x[Len(x) - i + 1] \in T
    BY <2>1
  <2>3. Reverse(x) \in [1 .. Len(x) -> T]
    BY <2>2 DEF Reverse
  <2>4. Reverse(x) \in Seq(T) /\ Len(Reverse(x)) = Len(x)
    BY <2>2, <2>3
  <2>5. Len(x) > 0 => Reverse(x)[1] = x[Len(x)]
    BY <2>2 DEF Reverse
  <2>6. QED
    BY <2>4, <2>5, SeqParts
<1>3. ASSUME NEW x, IsSeq(x), NEW n \in 1 .. Len(x) PROVE SubSeq(x, 1, n)[1] = x[1]
  <2>1. x \in Seq({x[i] : i \in DOMAIN x}) /\ Len(x) \in Nat
    BY <1>3, IsSeqMeans DEF IsSeq
  <2>2. 1 \in 1 .. Len(x) + 1 /\ n \in 1 - 1 .. Len(x) /\ n - 1 + 1 = n /\ 1 \in 1 .. n /\ 1 + 1 - 1 = 1
    BY <2>1
  <2>3. QED
    BY <2>1, <2>2, PartOf
<1>4. Len(s) <= Len(t) /\ SubSeq(Reverse(s), 1, Len(s)) = SubSeq(Reverse(t), 1, Len(s))
  BY <1>2 DEF IsSuffix, IsPrefix
<1>5. Len(s) \in 1 .. Len(Reverse(s)) /\ Len(s) \in 1 .. Len(Reverse(t))
  BY <1>1, <1>2, <1>4
<1>6. Reverse(s)[1] = Reverse(t)[1]
  BY <1>2, <1>3, <1>4, <1>5
<1>7. QED
  BY <1>1, <1>2, <1>4, <1>6

\* What a parenthesis closes: a group, a call without arguments or a header's
\* parameters.
LEMMA BeforeClosing ==
  ASSUME NEW t \in Seq(Kinds), Follows(t, "GROUPING_CLOSE")
  PROVE  t # <<>> /\ t[Len(t)] \in {"EVAL", "GROUPING_CLOSE", "INDEX_CLOSE", "GROUPING_OPEN", "TYPE"}
<1>1. \/ Operand(t) \/ IsSuffix(<<"CALL", "GROUPING_OPEN">>, t)
      \/ Header(t) /\ Final(t) \in {"GROUPING_OPEN", "TYPE"}
  BY DEF Follows, Words, Unaries
<1>2. CASE IsSuffix(<<"CALL", "GROUPING_OPEN">>, t)
  <2>1. <<"CALL", "GROUPING_OPEN">> \in Seq({"CALL", "GROUPING_OPEN"})
    OBVIOUS
  <2>2. IsSeq(<<"CALL", "GROUPING_OPEN">>) /\ IsSeq(t)
    BY <2>1, SeqParts
  <2>3. Len(<<"CALL", "GROUPING_OPEN">>) = 2 /\ <<"CALL", "GROUPING_OPEN">>[2] = "GROUPING_OPEN"
    OBVIOUS
  <2>4. Len(t) > 0 /\ t[Len(t)] = "GROUPING_OPEN"
    BY <1>2, <2>2, <2>3, SuffixEnds
  <2>5. QED
    BY <2>4
<1>3. CASE Final(t) \in {"EVAL", "GROUPING_CLOSE", "INDEX_CLOSE", "GROUPING_OPEN", "TYPE"}
  BY <1>3 DEF Final
<1>4. QED
  BY <1>1, <1>2, <1>3 DEF Operand

LEMMA NeverCsv ==
  ASSUME NEW t, NEW k, Follows(t, k)
  PROVE  k # "CSV"
  BY DEF Follows, Words, Unaries

\* The nodes are named after the tokens s, the last of them the last node.
Numbered(t, s) ==
  /\ t.last = Len(s)
  /\ \A i \in 1 .. Len(s) : i \in NodesOf(t) /\ Kind(t, i) = s[i] /\ s[i] # "CSV"
  /\ \A n \in NodesOf(t) \ (1 .. Len(s)) :
       Kind(t, n) = "CSV" /\ \E i \in 1 .. Len(s) : n = CsvAt(i)

\* The inductive invariant of TypeOK.
TreeInv ==
  /\ tokens \in Seq(Kinds) /\ refused \in BOOLEAN /\ (refused => tokens # <<>>)
  /\ Len(tokens) <= MaxTokens + MaxHeader
  /\ IF Pushed = <<>> THEN tree = Empty
     ELSE Numbered(tree, Pushed) /\ Linked(tree) /\ \E A : Above(tree, A)

LEMMA PushedIs ==
  ASSUME NEW s \in Seq(Kinds), NEW k \in Kinds
  PROVE  Front(Append(s, k)) = s /\ Append(s, k) # <<>>
<1>1. QED
  BY DEF Front

LEMMA TreeInvInit == Init => TreeInv
<1> SUFFICES ASSUME Init PROVE TreeInv
  OBVIOUS
<1>1. tokens = <<>> /\ tree = Empty /\ refused = FALSE
  BY DEF Init
<1>2. Pushed = <<>>
  BY <1>1 DEF Pushed
<1>3. Len(tokens) <= MaxTokens + MaxHeader /\ tokens \in Seq(Kinds)
  BY <1>1, BoundsAssumption
<1>4. QED
  BY <1>1, <1>2, <1>3 DEF TreeInv

\* What is known before a token is put in the tree.
LEMMA ReadIs ==
  ASSUME TreeInv, NEW k \in Kinds, Read(k)
  PROVE  /\ refused = FALSE /\ Pushed = tokens /\ Len(tokens) \in Nat /\ Follows(tokens, k)
         /\ tokens' = Append(tokens, k) /\ tokens' \in Seq(Kinds)
         /\ Len(tokens') = Len(tokens) + 1 /\ Len(tokens') <= MaxTokens + MaxHeader
         /\ tokens'[Len(tokens')] = k /\ \A i \in 1 .. Len(tokens) : tokens'[i] = tokens[i]
         /\ Len(tokens') \notin NodesOf(tree) /\ CsvAt(Len(tokens')) \notin NodesOf(tree)
         /\ CsvAt(Len(tokens')) \in Nat \ {0} /\ CsvAt(Len(tokens')) > Len(tokens')
         /\ tree.root = NULL <=> tokens = <<>>
<1>1. refused = FALSE /\ Pushed = tokens
  BY DEF TreeInv, Read, Pushed
<1>2. /\ Len(tokens) \in Nat /\ tokens' = Append(tokens, k) /\ tokens' \in Seq(Kinds)
      /\ Len(tokens') = Len(tokens) + 1
      /\ tokens'[Len(tokens')] = k /\ \A i \in 1 .. Len(tokens) : tokens'[i] = tokens[i]
  BY DEF TreeInv, Read
<1>3. Len(tokens') <= MaxTokens + MaxHeader
  BY BoundsAssumption DEF Read, Bound
<1>4. Len(tokens') \notin NodesOf(tree) /\ CsvAt(Len(tokens')) \notin NodesOf(tree)
  <2>1. CASE tokens = <<>>
    <3>1. NodesOf(tree) = {}
      BY <1>1, <2>1 DEF TreeInv, Empty, NodesOf
    <3>2. QED
      BY <3>1
  <2>2. CASE tokens # <<>>
    <3>1. \A n \in NodesOf(tree) : n \in 1 .. Len(tokens) \/ \E i \in 1 .. Len(tokens) : n = CsvAt(i)
      BY <1>1, <2>2 DEF TreeInv, Numbered
    <3>2. QED
      BY <1>2, <1>3, <3>1, BoundsAssumption DEF CsvAt
  <2>3. QED
    BY <2>1, <2>2
<1>5. CsvAt(Len(tokens')) \in Nat \ {0} /\ CsvAt(Len(tokens')) > Len(tokens')
  BY <1>2, BoundsAssumption DEF CsvAt
<1>6. tree.root = NULL <=> tokens = <<>>
  <2>1. CASE tokens = <<>>
    BY <1>1, <2>1 DEF TreeInv, Empty
  <2>2. CASE tokens # <<>>
    <3>1. tree.root \in Nat \ {0}
      BY <1>1, <2>2 DEF TreeInv, Linked
    <3>2. QED
      BY <2>2, <3>1 DEF NULL
  <2>3. QED
    BY <2>1, <2>2
<1>7. Follows(tokens, k)
  BY DEF Read
<1>8. QED
  BY <1>1, <1>2, <1>3, <1>4, <1>5, <1>6, <1>7

\* With a new node for the new token the nodes are named as they should be.
LEMMA StaysNumbered ==
  ASSUME NEW s \in Seq(Kinds), NEW k \in Kinds, k # "CSV", NEW t, Numbered(t, s),
         NEW n, n = Len(s) + 1, NEW u, u.last = n,
         NEW more, more = {} \/ more = {CsvAt(n)},
         NodesOf(u) = NodesOf(t) \cup more \cup {n},
         Kind(u, n) = k, \A m \in more : Kind(u, m) = "CSV",
         \A m \in NodesOf(t) : Kind(u, m) = Kind(t, m)
  PROVE  Numbered(u, Append(s, k))
<1>1. PICK r : r = Append(s, k)
  OBVIOUS
<1>2. /\ Len(s) \in Nat /\ Len(r) = Len(s) + 1 /\ r[Len(r)] = k
      /\ \A i \in 1 .. Len(s) : r[i] = s[i]
      /\ \A i \in 1 .. Len(r) : i \in 1 .. Len(s) \/ i = Len(r)
      /\ \A i \in 1 .. Len(s) : i \in 1 .. Len(r)
      /\ Len(r) \in 1 .. Len(r)
  BY <1>1
<1>3. /\ \A i \in 1 .. Len(s) : i \in NodesOf(t) /\ Kind(t, i) = s[i] /\ s[i] # "CSV"
      /\ \A m \in NodesOf(t) \ (1 .. Len(s)) :
           Kind(t, m) = "CSV" /\ \E i \in 1 .. Len(s) : m = CsvAt(i)
  BY DEF Numbered
<1>4. ASSUME NEW i \in 1 .. Len(r) PROVE i \in NodesOf(u) /\ Kind(u, i) = r[i] /\ r[i] # "CSV"
  BY <1>2, <1>3
<1>5. ASSUME NEW m \in NodesOf(u) \ (1 .. Len(r))
      PROVE  Kind(u, m) = "CSV" /\ \E i \in 1 .. Len(r) : m = CsvAt(i)
  BY <1>2, <1>3
<1>6. QED
  BY <1>1, <1>2, <1>4, <1>5 DEF Numbered


(***************************************************************************)
(* One tree                                                                *)
(***************************************************************************)
LEMMA PlantKeeps ==
  ASSUME TreeInv, NEW k \in Kinds, Plant(k)
  PROVE  TreeInv'
<1>1. Read(k) /\ tree.root = NULL /\ tree' = Inserted(tree, NULL, Len(tokens'), k) /\ refused' = refused
  BY DEF Plant
<1>2. /\ refused = FALSE /\ Pushed = tokens /\ Follows(tokens, k) /\ tokens = <<>>
      /\ tokens' = Append(tokens, k) /\ tokens' \in Seq(Kinds) /\ Len(tokens') = 1 /\ tokens'[1] = k
      /\ Len(tokens') <= MaxTokens + MaxHeader
  <2>1. /\ refused = FALSE /\ Pushed = tokens /\ Follows(tokens, k) /\ tokens = <<>>
        /\ tokens' = Append(tokens, k) /\ tokens' \in Seq(Kinds) /\ Len(tokens') = Len(tokens) + 1
        /\ tokens'[Len(tokens')] = k /\ Len(tokens') <= MaxTokens + MaxHeader
    BY <1>1, ReadIs
  <2>2. Len(<<>>) = 0
    OBVIOUS
  <2>3. Len(tokens') = 1
    BY <2>1, <2>2
  <2>4. QED
    BY <2>1, <2>3
<1>3. Pushed' = tokens' /\ tokens' # <<>>
  BY <1>1, <1>2, PushedIs DEF Pushed
<1>4. NodesOf(tree) = {} /\ Typed(tree)
  <2>1. tree = Empty
    BY <1>2 DEF TreeInv
  <2>2. tree.nodes = <<>>
    BY <2>1 DEF Empty
  <2>3. <<>> \in [{} -> [kind : Kinds, args : Seq(Nat), parent : Nat]] /\ DOMAIN <<>> = {}
    OBVIOUS
  <2>4. QED
    BY <2>2, <2>3 DEF NodesOf, Typed
<1>5. Linked(tree') /\ Above(tree', [m \in {1} |-> {1}])
  <2>1. 1 \in Nat \ {0} /\ tree' = Inserted(tree, NULL, 1, k)
    BY <1>1, <1>2
  <2>2. QED
    BY <1>4, <2>1, PlantedIsTree
<1>6. tree'.last = 1 /\ NodesOf(tree') = {1} /\ Kind(tree', 1) = k
  <2>1. NULL \in Nat /\ 1 \in Nat /\ tree' = Inserted(tree, NULL, 1, k)
    BY <1>1, <1>2 DEF NULL
  <2>2. QED
    BY <1>4, <2>1, InsertedIs
<1>7. Numbered(tree', tokens')
  BY <1>2, <1>6, NeverCsv DEF Numbered
<1>8. QED
  BY <1>1, <1>2, <1>3, <1>5, <1>7 DEF TreeInv

\* The tree before a token that is not the first.
LEMMA TreeIs ==
  ASSUME TreeInv, NEW k \in Kinds, Read(k), tree.root # NULL
  PROVE  Numbered(tree, tokens) /\ Linked(tree) /\ tree.last = Len(tokens) /\ \E A : Above(tree, A)
<1>1. Pushed = tokens /\ tokens # <<>>
  BY ReadIs
<1>2. QED
  BY <1>1 DEF TreeInv, Numbered

LEMMA TreeKept ==
  ASSUME TreeInv, NEW k \in Kinds, Read(k), refused' = refused,
         Numbered(tree', tokens'), Linked(tree'), \E A : Above(tree', A)
  PROVE  TreeInv'
<1>1. refused = FALSE /\ tokens' \in Seq(Kinds) /\ Len(tokens') <= MaxTokens + MaxHeader
      /\ tokens' # <<>>
  BY ReadIs, PushedIs DEF TreeInv
<1>2. Pushed' = tokens'
  BY <1>1 DEF Pushed
<1>3. QED
  BY <1>1, <1>2 DEF TreeInv

\* An empty pair of parentheses gets its CSV before the closing one.
LEMMA EmptyPairIs ==
  ASSUME TreeInv, Read("GROUPING_CLOSE"), tree.root # NULL, NEW p,
         p = tree.last, p \in NodesOf(tree),
         Len(Args(tree, p)) < ExpectedArgc(Kind(tree, p)), Args(tree, p) = <<>>
  PROVE  Kind(tree, p) = "GROUPING_OPEN"
<1>1. "GROUPING_CLOSE" \in Kinds
  BY DEF Kinds, Closers
<1>2. Follows(tokens, "GROUPING_CLOSE") /\ tokens \in Seq(Kinds) /\ Len(tokens) \in Nat
  BY <1>1, ReadIs DEF TreeInv
<1>3. tokens # <<>> /\ tokens[Len(tokens)] \in {"EVAL", "GROUPING_CLOSE", "INDEX_CLOSE", "GROUPING_OPEN", "TYPE"}
  BY <1>2, BeforeClosing
<1>4. Len(tokens) \in 1 .. Len(tokens)
  BY <1>2, <1>3
<1>5. Kind(tree, p) = tokens[Len(tokens)]
  BY <1>1, <1>4, TreeIs DEF Numbered
<1>6. Len(<<>>) = 0 /\ \A k \in {"EVAL", "GROUPING_CLOSE", "INDEX_CLOSE", "TYPE"} : ExpectedArgc(k) = 0
  BY DEF ExpectedArgc, Closers, Operands, Braces, Binaries, Unaries
<1>7. QED
  BY <1>3, <1>5, <1>6

LEMMA PlaceKeeps ==
  ASSUME TreeInv, NEW k \in Kinds, Place(k)
  PROVE  TreeInv'
<1>1. Read(k) /\ tree.root # NULL /\ Takers(tree, k) # {} /\ refused' = refused
  BY DEF Place
<1>2. PICK n : n = Len(tokens')
  OBVIOUS
<1>3. /\ n = Len(tokens) + 1 /\ n \in Nat \ {0} /\ n \notin NodesOf(tree) /\ k # "CSV"
      /\ CsvAt(n) \in Nat \ {0} /\ CsvAt(n) # n /\ CsvAt(n) \notin NodesOf(tree)
      /\ tokens' = Append(tokens, k) /\ tokens \in Seq(Kinds)
  <2>1. tokens \in Seq(Kinds) /\ Len(tokens) \in Nat
    BY DEF TreeInv
  <2>2. Follows(tokens, k) /\ tokens' = Append(tokens, k) /\ Len(tokens') = Len(tokens) + 1
    BY <1>1, ReadIs
  <2>3. Len(tokens') \notin NodesOf(tree) /\ CsvAt(Len(tokens')) \notin NodesOf(tree)
    BY <1>1, ReadIs
  <2>4. CsvAt(Len(tokens')) \in Nat \ {0} /\ CsvAt(Len(tokens')) > Len(tokens')
    BY <1>1, ReadIs
  <2>5. k # "CSV"
    BY <2>2, NeverCsv
  <2>6. QED
    BY <1>2, <2>1, <2>2, <2>3, <2>4, <2>5
<1>4. Numbered(tree, tokens) /\ Linked(tree) /\ Typed(tree) /\ tree.last = Len(tokens)
  BY <1>1, TreeIs DEF Linked
<1>5. PICK A : Above(tree, A)
  BY <1>1, TreeIs
<1>6. PICK p : p = Nearest(tree, Takers(tree, k))
  OBVIOUS
<1>7. /\ p \in NodesOf(tree) /\ p \in Nat /\ p # NULL
      /\ Len(Args(tree, p)) < ExpectedArgc(Kind(tree, p))
  BY <1>1, <1>4, <1>5, <1>6, TakersAre DEF Linked, NULL
<1>8. CASE k = "GROUPING_CLOSE" /\ p = tree.last /\ Args(tree, p) = <<>>
  <2>0. PICK e \in Nat \ {0} : e = CsvAt(n)
    BY <1>3
  <2>1. PICK u : u = Inserted(tree, p, e, "CSV")
    OBVIOUS
  <2>2. tree' = Inserted(u, p, n, k)
    BY <1>1, <1>2, <1>6, <1>8, <2>0, <2>1 DEF Place, Args
  <2>3. "CSV" \in Kinds
    BY DEF Kinds
  <2>4. Linked(u) /\ Above(u, InsertedAbove(A, p, e))
    BY <1>3, <1>4, <1>5, <1>7, <2>0, <2>1, <2>3, InsertedIsTree
  <2>5. /\ NodesOf(u) = NodesOf(tree) \cup {e} /\ Typed(u) /\ Kind(u, e) = "CSV"
        /\ \A m \in NodesOf(tree) :
             /\ Kind(u, m) = Kind(tree, m)
             /\ Args(u, m) = IF m = p THEN Append(Args(tree, m), e) ELSE Args(tree, m)
    <3>1. e \in Nat /\ e \notin NodesOf(tree) /\ p \in Nat /\ Typed(tree)
      BY <1>3, <1>4, <1>7, <2>0
    <3>2. QED
      BY <2>1, <2>3, <3>1, InsertedIs
  <2>6. Kind(tree, p) = "GROUPING_OPEN"
    BY <1>1, <1>7, <1>8, EmptyPairIs
  <2>7. Len(Args(u, p)) < ExpectedArgc(Kind(u, p))
    <3>1. ExpectedArgc("GROUPING_OPEN") = 2
      BY DEF ExpectedArgc, Binaries, Unaries, Closers, Operands, Braces
    <3>2. Len(Append(<<>>, e)) = 1
      OBVIOUS
    <3>3. Args(u, p) = Append(<<>>, e)
      BY <1>7, <1>8, <2>5
    <3>4. QED
      BY <1>7, <2>5, <2>6, <3>1, <3>2, <3>3
  <2>8. p \in NodesOf(u) /\ n \notin NodesOf(u)
    BY <1>3, <1>7, <2>0, <2>5
  <2>9. Linked(tree') /\ \E B : Above(tree', B)
    BY <1>3, <2>2, <2>4, <2>7, <2>8, InsertedIsTree
  <2>10. /\ tree'.last = n /\ NodesOf(tree') = NodesOf(u) \cup {n} /\ Kind(tree', n) = k
         /\ \A m \in NodesOf(u) : Kind(tree', m) = Kind(u, m)
    BY <1>3, <1>7, <2>2, <2>5, <2>8, InsertedIs
  <2>11. Numbered(tree', Append(tokens, k))
    <3>1. NodesOf(tree') = NodesOf(tree) \cup {e} \cup {n}
      BY <2>5, <2>10
    <3>2. Kind(tree', e) = "CSV" /\ \A m \in NodesOf(tree) : Kind(tree', m) = Kind(tree, m)
      BY <2>5, <2>10
    <3>3. PICK more : more = {e}
      OBVIOUS
    <3>4. NodesOf(tree') = NodesOf(tree) \cup more \cup {n} /\ more = {CsvAt(n)}
      BY <2>0, <3>1, <3>3
    <3>5. QED
      BY <1>3, <1>4, <2>10, <3>2, <3>3, <3>4, StaysNumbered
  <2>12. QED
    BY <1>1, <1>3, <2>9, <2>11, TreeKept
<1>9. CASE ~(k = "GROUPING_CLOSE" /\ p = tree.last /\ Args(tree, p) = <<>>)
  <2>1. tree' = Inserted(tree, p, n, k)
    BY <1>1, <1>2, <1>6, <1>9 DEF Place, Args
  <2>2. Linked(tree') /\ \E B : Above(tree', B)
    BY <1>3, <1>4, <1>5, <1>7, <2>1, InsertedIsTree
  <2>3. /\ tree'.last = n /\ NodesOf(tree') = NodesOf(tree) \cup {n} /\ Kind(tree', n) = k
        /\ \A m \in NodesOf(tree) : Kind(tree', m) = Kind(tree, m)
    <3>1. n \in Nat /\ n \notin NodesOf(tree) /\ p \in Nat /\ Typed(tree)
      BY <1>3, <1>4, <1>7
    <3>2. QED
      BY <2>1, <3>1, InsertedIs
  <2>4. Numbered(tree', Append(tokens, k))
    <3>1. PICK more : more = {}
      OBVIOUS
    <3>2. NodesOf(tree') = NodesOf(tree) \cup more \cup {n}
      BY <2>3, <3>1
    <3>3. QED
      BY <1>3, <1>4, <2>3, <3>1, <3>2, StaysNumbered
  <2>5. QED
    BY <1>1, <1>3, <2>2, <2>4, TreeKept
<1>10. QED
  BY <1>8, <1>9

LEMMA DisplaceKeeps ==
  ASSUME TreeInv, NEW k \in Kinds, Displace(k)
  PROVE  TreeInv'
<1>1. /\ Read(k) /\ tree.root # NULL /\ ExpectedArgc(k) > 0 /\ refused' = refused
      /\ tree' = Adopted(tree, Displaced(tree, k), Len(tokens'), k)
  BY DEF Displace
<1>2. PICK n : n = Len(tokens')
  OBVIOUS
<1>3. /\ n = Len(tokens) + 1 /\ n \in Nat \ {0} /\ n \notin NodesOf(tree) /\ k # "CSV"
      /\ tokens' = Append(tokens, k) /\ tokens \in Seq(Kinds)
  <2>1. tokens \in Seq(Kinds) /\ Len(tokens) \in Nat
    BY DEF TreeInv
  <2>2. Follows(tokens, k) /\ tokens' = Append(tokens, k) /\ Len(tokens') = Len(tokens) + 1
    BY <1>1, ReadIs
  <2>3. Len(tokens') \notin NodesOf(tree) /\ CsvAt(Len(tokens')) \notin NodesOf(tree)
    BY <1>1, ReadIs
  <2>4. CsvAt(Len(tokens')) \in Nat \ {0} /\ CsvAt(Len(tokens')) > Len(tokens')
    BY <1>1, ReadIs
  <2>5. k # "CSV"
    BY <2>2, NeverCsv
  <2>6. QED
    BY <1>2, <2>1, <2>2, <2>3, <2>4, <2>5
<1>4. Numbered(tree, tokens) /\ Linked(tree) /\ Typed(tree) /\ tree.last = Len(tokens)
  BY <1>1, TreeIs DEF Linked
<1>5. PICK A : Above(tree, A)
  BY <1>1, TreeIs
<1>6. PICK c : c = Displaced(tree, k)
  OBVIOUS
<1>7. c \in NodesOf(tree) /\ c \in Nat
  BY <1>4, <1>5, <1>6, DisplacedIs DEF Linked
<1>8. tree' = Adopted(tree, c, n, k)
  BY <1>1, <1>2, <1>6
<1>9. Linked(tree') /\ \E B : Above(tree', B)
  BY <1>1, <1>3, <1>4, <1>5, <1>7, <1>8, AdoptedIsTree
<1>10. /\ tree'.last = n /\ NodesOf(tree') = NodesOf(tree) \cup {n} /\ Kind(tree', n) = k
       /\ \A m \in NodesOf(tree) : Kind(tree', m) = Kind(tree, m)
  BY <1>3, <1>4, <1>7, <1>8, AdoptedIs
<1>11. Numbered(tree', Append(tokens, k))
  <2>1. PICK more : more = {}
    OBVIOUS
  <2>2. NodesOf(tree') = NodesOf(tree) \cup more \cup {n}
    BY <1>10, <2>1
  <2>3. n = Len(tokens) + 1 /\ k # "CSV" /\ tokens \in Seq(Kinds) /\ Numbered(tree, tokens)
    BY <1>3, <1>4
  <2>4. QED
    BY <1>10, <2>1, <2>2, <2>3, StaysNumbered
<1>12. QED
  BY <1>1, <1>3, <1>9, <1>11, TreeKept

LEMMA RefuseKeeps ==
  ASSUME TreeInv, NEW k \in Kinds, Refuse(k)
  PROVE  TreeInv'
<1>1. Read(k) /\ refused' = TRUE /\ tree' = tree
  BY DEF Refuse
<1>2. /\ Pushed = tokens /\ tokens' = Append(tokens, k) /\ tokens' \in Seq(Kinds)
      /\ Len(tokens') <= MaxTokens + MaxHeader /\ tokens \in Seq(Kinds)
  BY <1>1, ReadIs DEF TreeInv
<1>3. Pushed' = tokens /\ tokens' # <<>>
  BY <1>1, <1>2, PushedIs DEF Pushed
<1>4. QED
  BY <1>1, <1>2, <1>3 DEF TreeInv

LEMMA TreeInvNext == TreeInv /\ [Next]_vars => TreeInv'
<1> SUFFICES ASSUME TreeInv, [Next]_vars PROVE TreeInv'
  OBVIOUS
<1>1. CASE UNCHANGED vars
  BY <1>1 DEF vars, TreeInv, Pushed
<1>2. CASE Next
  <2>1. PICK k \in Kinds : Plant(k) \/ Place(k) \/ Displace(k) \/ Refuse(k)
    BY <1>2 DEF Next
  <2>2. QED
    BY <2>1, PlantKeeps, PlaceKeeps, DisplaceKeeps, RefuseKeeps
<1>3. QED
  BY <1>1, <1>2

LEMMA TreeInvMeans == TreeInv => TypeOK
<1> SUFFICES ASSUME TreeInv PROVE TypeOK
  OBVIOUS
<1>1. tokens \in Seq(Kinds) /\ refused \in BOOLEAN
  BY DEF TreeInv
<1>2. CASE Pushed = <<>>
  <2>1. tree = Empty
    BY <1>2 DEF TreeInv
  <2>2. tree.root = NULL /\ DOMAIN tree.nodes = {}
    <3>1. DOMAIN <<>> = {}
      OBVIOUS
    <3>2. QED
      BY <2>1, <3>1 DEF Empty
  <2>3. Arcs(tree) = {}
    BY <2>2 DEF Arcs
  <2>4. QED
    BY <1>1, <2>2, <2>3 DEF TypeOK
<1>3. CASE Pushed # <<>>
  <2>1. Linked(tree)
    BY <1>3 DEF TreeInv
  <2>2. PICK A : Above(tree, A)
    BY <1>3 DEF TreeInv
  <2>3. tree.root # NULL /\ NodesOf(tree) # {}
    BY <2>1 DEF Linked, NULL
  <2>4. /\ Cardinality(Arcs(tree)) = Cardinality(NodesOf(tree) \ {tree.root})
        /\ {a[3] : a \in Arcs(tree)} = NodesOf(tree) \ {tree.root}
        /\ \A a \in Arcs(tree) : Parent(tree, a[3]) = a[1]
    BY <2>1, ArcsOfTree
  <2>5. ASSUME NEW n \in NodesOf(tree)
        PROVE  /\ Len(Args(tree, n)) <= ExpectedArgc(Kind(tree, n))
               /\ tree.root = Last(Upwards(tree, n))
    BY <2>1, <2>2, UpwardsIs DEF IsWayUp, Linked, SoundNode, Last
  <2>6. QED
    BY <1>1, <2>3, <2>4, <2>5 DEF TypeOK, NodesOf, Args, Kind, Parent
<1>4. QED
  BY <1>2, <1>3

\* After each token of a line of any length the nodes are one tree: each is an argument of one other, up to the root, and none has more
\* arguments than vltl_ast_operation_expected_argc allows.
THEOREM OneTree == Spec => []TypeOK
<1>1. Spec => []TreeInv
  BY TreeInvInit, TreeInvNext, PTL DEF Spec
<1>2. QED
  BY <1>1, TreeInvMeans, PTL


(***************************************************************************)
(* Order                                                                   *)
(***************************************************************************)

\* What node n with what is below it is read as begins at lo[n] and ends at
\* hi[n]; Before is the position before argument i, or before the end.
Before(t, hi, n, i) ==
  IF i = 1 \/ (i = 2 /\ Kind(t, n) \in Infix) THEN n ELSE hi[Args(t, n)[i - 1]]

LaidOut(t, lo, hi, n) ==
  /\ lo[n] <= n /\ n <= hi[n]
  /\ hi[n] = Before(t, hi, n, Len(Args(t, n)) + 1)
  /\ Kind(t, n) \notin Infix => lo[n] = n
  /\ Kind(t, n) \in Infix => /\ Len(Args(t, n)) > 0
                             /\ lo[n] = lo[Args(t, n)[1]] /\ hi[Args(t, n)[1]] + 1 = n
  /\ \A i \in 1 .. Len(Args(t, n)) :
       ~ (i = 1 /\ Kind(t, n) \in Infix) => lo[Args(t, n)[i]] = Before(t, hi, n, i) + 1

Laid(t, lo, hi, n) == IF Kind(t, n) = "CSV" THEN lo[n] = hi[n] + 1 ELSE LaidOut(t, lo, hi, n)

\* All is read as 1 .. m, and whatever is above last ends with it.
Ordered(t, A, m, lo, hi) ==
  /\ m \in Nat /\ lo \in [NodesOf(t) -> Nat \ {0}] /\ hi \in [NodesOf(t) -> Nat]
  /\ lo[t.root] = 1
  /\ \A n \in NodesOf(t) : Laid(t, lo, hi, n) /\ (Kind(t, n) # "CSV" => n <= m)
  /\ \A n \in A[t.last] : hi[n] = m
  /\ \A n \in A[t.last] \ {t.root} : Args(t, Parent(t, n))[Len(Args(t, Parent(t, n)))] = n

\* Below a node above n there is another above n.
LEMMA BelowIs ==
  ASSUME NEW t, NEW A, Linked(t), Above(t, A), NEW n \in NodesOf(t), NEW q \in A[n], q # n
  PROVE  \E x \in A[n] \ {t.root} : Parent(t, x) = q
<1>1. PICK up : up = Upwards(t, n)
  OBVIOUS
<1>2. /\ up \in Seq(NodesOf(t)) /\ Len(up) > 0 /\ up[1] = n /\ up[Len(up)] = t.root
      /\ \A i \in 1 .. Len(up) : up[i] \in A[n] /\ (i # Len(up) => up[i + 1] = Parent(t, up[i]))
      /\ \A x \in A[n] : \E i \in 1 .. Len(up) : up[i] = x
  <2>1. IsWayUp(up, t, A, n)
    BY <1>1, UpwardsIs
  <2>2. QED
    BY <2>1 DEF IsWayUp
<1>3. PICK i \in 1 .. Len(up) : up[i] = q
  BY <1>2
<1>4. Len(up) \in Nat /\ \A j \in 1 .. Len(up) : up[j] \in NodesOf(t)
  BY <1>2
<1>5. i # 1
  BY <1>2, <1>3
<1>6. i - 1 \in 1 .. Len(up) /\ i - 1 # Len(up) /\ i - 1 + 1 = i
  BY <1>4, <1>5
<1>7. up[i - 1] \in A[n] /\ Parent(t, up[i - 1]) = q
  <2>1. PICK j \in 1 .. Len(up) : j = i - 1 /\ j # Len(up) /\ j + 1 = i
    BY <1>6
  <2>2. up[j] \in A[n] /\ up[j + 1] = Parent(t, up[j])
    BY <1>2, <2>1
  <2>3. QED
    BY <1>3, <2>1, <2>2
<1>8. q \in NodesOf(t) /\ Parent(t, t.root) = NULL /\ NULL \notin NodesOf(t)
  BY <1>3, <1>4 DEF Linked, NULL
<1>9. QED
  BY <1>7, <1>8

\* An argument is below.
LEMMA ArgIs ==
  ASSUME NEW t, NEW A, Linked(t), Above(t, A), NEW q \in NodesOf(t), NEW i \in 1 .. Len(Args(t, q))
  PROVE  LET x == Args(t, q)[i]
         IN /\ x \in NodesOf(t) \ {t.root} /\ Parent(t, x) = q
            /\ x \notin A[q] /\ q \in A[x]
            /\ \A n \in NodesOf(t) : x \in A[n] => q \in A[n]
<1>1. Args(t, q)[i] \in NodesOf(t) \ {t.root} /\ Parent(t, Args(t, q)[i]) = q
  BY DEF Linked, SoundNode
<1>2. PICK x \in NodesOf(t) \ {t.root} : x = Args(t, q)[i] /\ Parent(t, x) = q
  BY <1>1
<1>3. x \notin A[q] /\ A[x] = A[q] \cup {x} /\ q \in A[q] /\ \A n \in NodesOf(t) : x \in A[n] => A[x] \subseteq A[n]
  BY <1>2 DEF Above
<1>4. QED
  BY <1>2, <1>3

\* Of a node with arguments, q, the last one is above p, the others not above
\* last; q ends at m.
IsOnSpine(t, A, m, hi, p, q) ==
  /\ Len(Args(t, q)) \in Nat \ {0} /\ Args(t, q)[Len(Args(t, q))] \in A[p]
  /\ ~ (Kind(t, q) \in Infix /\ Len(Args(t, q)) = 1)
  /\ \A i \in 1 .. Len(Args(t, q)) : i # Len(Args(t, q)) => Args(t, q)[i] \notin A[t.last]
  /\ q \in NodesOf(t) /\ Kind(t, q) # "CSV" /\ hi[q] = m

\* Such are the nodes properly above one that is above last.
LEMMA SpineIs ==
  ASSUME NEW t, NEW A, NEW m, NEW lo, NEW hi,
         Linked(t), Above(t, A), Ordered(t, A, m, lo, hi),
         NEW p \in A[t.last], NEW q \in A[p], q # p
  PROVE  IsOnSpine(t, A, m, hi, p, q)
<1>1. /\ t.last \in NodesOf(t) /\ p \in NodesOf(t) /\ q \in NodesOf(t)
      /\ A[p] \subseteq A[t.last] /\ q \in A[t.last]
  BY DEF Linked, Above
<1>2. PICK x \in A[p] \ {t.root} : Parent(t, x) = q
  BY <1>1, BelowIs
<1>3. x \in A[t.last] \ {t.root}
  BY <1>1, <1>2
<1>4. Args(t, q)[Len(Args(t, q))] = x
  BY <1>2, <1>3 DEF Ordered
<1>5. Args(t, q) \in Seq(Nat)
  BY <1>1, TypedIs DEF Linked
<1>6. x \in NodesOf(t)
  BY <1>1, <1>3 DEF Above
<1>7. PICK i \in 1 .. Len(Args(t, q)) : Args(t, q)[i] = x
  BY <1>2, <1>3, <1>6 DEF Linked, SoundNode
<1>8. Len(Args(t, q)) \in Nat \ {0}
  BY <1>5, <1>7
<1>9. Kind(t, q) # "CSV"
  <2>1. Len(Args(t, q)) <= ExpectedArgc(Kind(t, q))
    BY <1>1 DEF Linked, SoundNode
  <2>2. ExpectedArgc("CSV") = 0
    BY DEF ExpectedArgc, Binaries, Unaries, Closers, Operands, Braces
  <2>3. QED
    BY <1>8, <2>1, <2>2
<1>10. hi[q] = m /\ hi[x] = m /\ q <= m /\ m \in Nat
  BY <1>1, <1>3, <1>9 DEF Ordered
<1>11. ~ (Kind(t, q) \in Infix /\ Len(Args(t, q)) = 1)
  <2>1. SUFFICES ASSUME Kind(t, q) \in Infix, Len(Args(t, q)) = 1 PROVE FALSE
    OBVIOUS
  <2>2. LaidOut(t, lo, hi, q)
    BY <1>1, <1>9 DEF Ordered, Laid
  <2>3. hi[x] + 1 = q
    BY <1>4, <2>1, <2>2 DEF LaidOut
  <2>4. QED
    BY <1>10, <2>3
<1>12. ASSUME NEW j \in 1 .. Len(Args(t, q)), j # Len(Args(t, q)) PROVE Args(t, q)[j] \notin A[t.last]
  <2>1. SUFFICES ASSUME Args(t, q)[j] \in A[t.last] PROVE FALSE
    OBVIOUS
  <2>2. PICK y \in A[t.last] \ {t.root} : y = Args(t, q)[j] /\ Parent(t, y) = q
    BY <1>1, <2>1, ArgIs
  <2>3. y = x
    BY <1>4, <2>2 DEF Ordered
  <2>4. Len(Args(t, q)) \in 1 .. Len(Args(t, q))
    BY <1>8
  <2>5. \A h \in 1 .. Len(Args(t, q)) : Args(t, q)[j] = Args(t, q)[h] => j = h
    BY <1>1 DEF Linked, SoundNode
  <2>6. QED
    BY <1>4, <1>12, <2>2, <2>3, <2>4, <2>5
<1>13. QED
  BY <1>1, <1>2, <1>4, <1>8, <1>9, <1>10, <1>11, <1>12 DEF IsOnSpine

\* A node stays laid out when the nodes move that stand at its arguments, as
\* long as only the end of the last one does, and its own with it.
LEMMA LaidAgain ==
  ASSUME NEW t, NEW u, NEW q \in Nat, NEW lo, NEW hi, NEW lo2, NEW hi2, Laid(t, lo, hi, q),
         Kind(u, q) = Kind(t, q), NEW L \in Nat, L = Len(Args(t, q)), L = Len(Args(u, q)),
         lo2[q] = lo[q], \A i \in 1 .. L : lo2[Args(u, q)[i]] = lo[Args(t, q)[i]],
         \A i \in 1 .. L : i # L => hi2[Args(u, q)[i]] = hi[Args(t, q)[i]],
         hi[q] \in Nat, hi2[q] \in Nat,
         \/ hi2[q] = hi[q] /\ (L > 0 => hi2[Args(u, q)[L]] = hi[Args(t, q)[L]])
         \/ /\ L > 0 /\ ~ (Kind(t, q) \in Infix /\ L = 1) /\ Kind(t, q) # "CSV"
            /\ hi2[q] = hi2[Args(u, q)[L]] /\ hi2[q] >= hi[q]
  PROVE  Laid(u, lo2, hi2, q)
<1>1. CASE Kind(t, q) = "CSV"
  BY <1>1 DEF Laid
<1>2. CASE Kind(t, q) # "CSV"
  <2>1. /\ lo[q] <= q /\ q <= hi[q]
        /\ hi[q] = Before(t, hi, q, L + 1)
        /\ Kind(t, q) \notin Infix => lo[q] = q
        /\ Kind(t, q) \in Infix => L > 0 /\ lo[q] = lo[Args(t, q)[1]] /\ hi[Args(t, q)[1]] + 1 = q
        /\ \A i \in 1 .. L : ~ (i = 1 /\ Kind(t, q) \in Infix) => lo[Args(t, q)[i]] = Before(t, hi, q, i) + 1
    BY <1>2 DEF Laid, LaidOut
  <2>2. ASSUME NEW i \in 1 .. L PROVE Before(u, hi2, q, i) = Before(t, hi, q, i)
    <3>1. CASE i = 1 \/ (i = 2 /\ Kind(t, q) \in Infix)
      BY <3>1 DEF Before
    <3>2. CASE ~ (i = 1 \/ (i = 2 /\ Kind(t, q) \in Infix))
      <4>1. i - 1 \in 1 .. L /\ i - 1 # L
        BY <3>2
      <4>2. QED
        BY <3>2, <4>1 DEF Before
    <3>3. QED
      BY <3>1, <3>2
  <2>3. hi2[q] = Before(u, hi2, q, L + 1) /\ hi2[q] >= hi[q]
    <3>1. L + 1 - 1 = L /\ (L + 1 = 1 <=> L = 0) /\ (L + 1 = 2 <=> L = 1)
      OBVIOUS
    <3>2. CASE hi2[q] = hi[q] /\ (L > 0 => hi2[Args(u, q)[L]] = hi[Args(t, q)[L]])
      BY <2>1, <3>1, <3>2 DEF Before
    <3>3. CASE /\ L > 0 /\ ~ (Kind(t, q) \in Infix /\ L = 1)
               /\ hi2[q] = hi2[Args(u, q)[L]] /\ hi2[q] >= hi[q]
      BY <3>1, <3>3 DEF Before
    <3>4. QED
      BY <3>2, <3>3
  <2>4. Kind(t, q) \in Infix => /\ L > 0 /\ lo2[q] = lo2[Args(u, q)[1]]
                                /\ hi2[Args(u, q)[1]] + 1 = q
    <3>1. SUFFICES ASSUME Kind(t, q) \in Infix
                   PROVE  L > 0 /\ lo2[q] = lo2[Args(u, q)[1]] /\ hi2[Args(u, q)[1]] + 1 = q
      OBVIOUS
    <3>2. L > 0 /\ 1 \in 1 .. L
      BY <2>1, <3>1
    <3>3. hi2[Args(u, q)[1]] = hi[Args(t, q)[1]]
      BY <3>1, <3>2
    <3>4. QED
      BY <2>1, <3>1, <3>2, <3>3
  <2>5. lo2[q] <= q /\ q <= hi2[q]
    BY <2>1, <2>3
  <2>6. LaidOut(u, lo2, hi2, q)
    BY <2>1, <2>2, <2>3, <2>4, <2>5 DEF LaidOut
  <2>7. QED
    BY <1>2, <2>6 DEF Laid
<1>3. QED
  BY <1>1, <1>2


\* A new node is read last when it is put below a node above last.
LEMMA InsertedIsOrdered ==
  ASSUME NEW t, NEW A, NEW m, NEW lo, NEW hi,
         Linked(t), Above(t, A), Ordered(t, A, m, lo, hi),
         NEW p \in A[t.last], Len(Args(t, p)) < ExpectedArgc(Kind(t, p)),
         NEW n \in Nat \ {0}, n \notin NodesOf(t), NEW kind \in Kinds, kind \notin Infix,
         NEW end \in Nat, IF kind = "CSV" THEN end = m ELSE end = m + 1 /\ n = m + 1
  PROVE  \E lo2, hi2 : Ordered(Inserted(t, p, n, kind), InsertedAbove(A, p, n), end, lo2, hi2)
<1> DEFINE N == NodesOf(t)
<1>1. PICK u : u = Inserted(t, p, n, kind)
  OBVIOUS
<1>2. PICK B : B = InsertedAbove(A, p, n)
  OBVIOUS
<1>3. /\ Typed(t) /\ p \in N /\ t.last \in N /\ t.root \in N /\ N \subseteq Nat \ {0} /\ Parent(t, t.root) = NULL
      /\ A \in [N -> SUBSET N] /\ p \in A[p] /\ A[p] \subseteq A[t.last] /\ t.root \in A[p]
      /\ \A q \in N : q \in A[q] /\ \A x \in A[q] : A[x] \subseteq A[q]
  BY DEF Linked, Above
<1>4. p \in Nat /\ p # NULL /\ n \in Nat
  BY <1>3 DEF NULL
<1>5. /\ u.root = t.root /\ u.last = n /\ NodesOf(u) = N \cup {n}
      /\ Kind(u, n) = kind /\ Args(u, n) = <<>> /\ Parent(u, n) = p
      /\ \A q \in N : /\ Kind(u, q) = Kind(t, q) /\ Parent(u, q) = Parent(t, q)
                      /\ Args(u, q) = IF q = p THEN Append(Args(t, q), n) ELSE Args(t, q)
  BY <1>1, <1>3, <1>4, InsertedIs
<1>6. B[n] = A[p] \cup {n} /\ \A q \in N : B[q] = A[q]
  BY <1>2, <1>3 DEF InsertedAbove
<1>7. /\ m \in Nat /\ lo \in [N -> Nat \ {0}] /\ hi \in [N -> Nat] /\ lo[t.root] = 1
      /\ \A q \in N : Laid(t, lo, hi, q) /\ (Kind(t, q) # "CSV" => q <= m)
      /\ \A q \in A[t.last] : hi[q] = m
      /\ \A q \in A[t.last] \ {t.root} : Args(t, Parent(t, q))[Len(Args(t, Parent(t, q)))] = q
  BY DEF Ordered
<1> DEFINE lo2 == [q \in N \cup {n} |-> IF q = n THEN m + 1 ELSE lo[q]]
           hi2 == [q \in N \cup {n} |-> IF q = n \/ q \in A[p] THEN end ELSE hi[q]]
<1>8. /\ lo2 \in [N \cup {n} -> Nat \ {0}] /\ hi2 \in [N \cup {n} -> Nat]
      /\ lo2[n] = m + 1 /\ hi2[n] = end
      /\ \A q \in N : lo2[q] = lo[q]
      /\ \A q \in A[p] : hi2[q] = end
      /\ \A q \in N \ A[p] : hi2[q] = hi[q]
  BY <1>3, <1>7
<1> HIDE DEF lo2, hi2
<1>9. end >= m
  BY <1>7
<1>10. ASSUME NEW q \in N
       PROVE  /\ Args(t, q) \in Seq(Nat) /\ Len(Args(t, q)) \in Nat
              /\ \A i \in 1 .. Len(Args(t, q)) :
                   /\ Args(t, q)[i] \in N \ {t.root} /\ Args(t, q)[i] \notin A[q]
                   /\ Args(t, q)[i] \in A[p] => q \in A[p]
  <2>1. Args(t, q) \in Seq(Nat)
    BY <1>3, TypedIs
  <2>2. QED
    BY <1>3, <2>1, ArgIs
<1>11. ASSUME NEW q \in N \ A[p] PROVE Laid(u, lo2, hi2, q)
  <2>1. PICK L \in Nat : L = Len(Args(t, q))
    BY <1>10
  <2>2. q # p /\ Args(u, q) = Args(t, q) /\ Kind(u, q) = Kind(t, q) /\ q \in Nat
    BY <1>3, <1>5
  <2>3. \A i \in 1 .. L : Args(t, q)[i] \in N \ A[p]
    BY <1>10, <2>1
  <2>4. /\ lo2[q] = lo[q] /\ hi2[q] = hi[q] /\ hi[q] \in Nat
        /\ \A i \in 1 .. L : lo2[Args(u, q)[i]] = lo[Args(t, q)[i]] /\ hi2[Args(u, q)[i]] = hi[Args(t, q)[i]]
        /\ L > 0 => hi2[Args(u, q)[L]] = hi[Args(t, q)[L]]
    <3>1. lo2[q] = lo[q] /\ hi2[q] = hi[q] /\ hi[q] \in Nat
      BY <1>7, <1>8
    <3>2. ASSUME NEW i \in 1 .. L
          PROVE  lo2[Args(u, q)[i]] = lo[Args(t, q)[i]] /\ hi2[Args(u, q)[i]] = hi[Args(t, q)[i]]
      BY <1>8, <2>2, <2>3
    <3>3. L > 0 => L \in 1 .. L
      OBVIOUS
    <3>4. QED
      BY <3>1, <3>2, <3>3
  <2>5. Laid(t, lo, hi, q) /\ L = Len(Args(u, q))
    BY <1>7, <2>1, <2>2
  <2>6. QED
    BY <2>1, <2>2, <2>4, <2>5, LaidAgain
<1>12. ASSUME NEW q \in A[p] \ {p} PROVE Laid(u, lo2, hi2, q)
  <2>0. IsOnSpine(t, A, m, hi, p, q)
    BY SpineIs
  <2>1. PICK L \in Nat \ {0} : L = Len(Args(t, q))
    BY <2>0 DEF IsOnSpine
  <2>2. /\ q \in N /\ Args(t, q)[L] \in A[p] /\ Kind(t, q) # "CSV"
        /\ ~ (Kind(t, q) \in Infix /\ L = 1)
        /\ \A i \in 1 .. L : i # L => Args(t, q)[i] \notin A[t.last]
        /\ hi[q] = m
    BY <2>0, <2>1 DEF IsOnSpine
  <2>3. Args(u, q) = Args(t, q) /\ Kind(u, q) = Kind(t, q) /\ q \in Nat
    BY <1>3, <1>5, <2>2
  <2>4. \A i \in 1 .. L : Args(t, q)[i] \in N
    BY <1>10, <2>1, <2>2
  <2>5. /\ lo2[q] = lo[q] /\ hi2[q] = end /\ hi[q] \in Nat
        /\ \A i \in 1 .. L : lo2[Args(u, q)[i]] = lo[Args(t, q)[i]]
        /\ \A i \in 1 .. L : i # L => hi2[Args(u, q)[i]] = hi[Args(t, q)[i]]
        /\ hi2[Args(u, q)[L]] = end
    <3>1. lo2[q] = lo[q] /\ hi2[q] = end /\ hi[q] \in Nat
      BY <1>7, <1>8, <2>2
    <3>2. ASSUME NEW i \in 1 .. L PROVE lo2[Args(u, q)[i]] = lo[Args(t, q)[i]]
      BY <1>8, <2>3, <2>4
    <3>3. ASSUME NEW i \in 1 .. L, i # L PROVE hi2[Args(u, q)[i]] = hi[Args(t, q)[i]]
      <4>1. Args(t, q)[i] \in N \ A[p]
        BY <1>3, <2>2, <2>4, <3>3
      <4>2. QED
        BY <1>8, <2>3, <4>1
    <3>4. hi2[Args(u, q)[L]] = end
      BY <1>8, <2>2, <2>3
    <3>5. QED
      BY <3>1, <3>2, <3>3, <3>4
  <2>6. Laid(t, lo, hi, q) /\ L = Len(Args(u, q)) /\ L \in Nat /\ L > 0 /\ hi2[q] >= hi[q] /\ hi2[q] \in Nat
    BY <1>7, <1>9, <2>1, <2>2, <2>3, <2>5
  <2>7. QED
    BY <2>1, <2>2, <2>3, <2>5, <2>6, LaidAgain
<1>13. Laid(u, lo2, hi2, p)
  <2>1. PICK L \in Nat : L = Len(Args(t, p))
    BY <1>3, <1>10
  <2>2. /\ Len(Args(u, p)) = L + 1 /\ Args(u, p)[L + 1] = n
        /\ \A i \in 1 .. L : Args(u, p)[i] = Args(t, p)[i]
    <3>1. ASSUME NEW s \in Seq(Nat)
          PROVE  /\ Len(Append(s, n)) = Len(s) + 1 /\ Append(s, n)[Len(s) + 1] = n
                 /\ \A i \in 1 .. Len(s) : Append(s, n)[i] = s[i]
      OBVIOUS
    <3>2. Args(t, p) \in Seq(Nat) /\ Args(u, p) = Append(Args(t, p), n)
      BY <1>3, <1>5, <1>10
    <3>3. QED
      BY <2>1, <3>1, <3>2
  <2>3. Kind(t, p) # "CSV" /\ Kind(u, p) = Kind(t, p)
    <3>1. ExpectedArgc("CSV") = 0
      BY DEF ExpectedArgc, Binaries, Unaries, Closers, Operands, Braces
    <3>2. QED
      BY <1>3, <1>5, <2>1, <3>1
  <2>4. /\ lo[p] <= p /\ p <= hi[p] /\ hi[p] = m
        /\ hi[p] = Before(t, hi, p, L + 1)
        /\ Kind(t, p) \notin Infix => lo[p] = p
        /\ Kind(t, p) \in Infix => L > 0 /\ lo[p] = lo[Args(t, p)[1]] /\ hi[Args(t, p)[1]] + 1 = p
        /\ \A i \in 1 .. L : ~ (i = 1 /\ Kind(t, p) \in Infix) => lo[Args(t, p)[i]] = Before(t, hi, p, i) + 1
    BY <1>3, <1>7, <2>1, <2>3 DEF Laid, LaidOut
  <2>5. \A i \in 1 .. L : lo2[Args(u, p)[i]] = lo[Args(t, p)[i]] /\ hi2[Args(u, p)[i]] = hi[Args(t, p)[i]]
    <3>1. ASSUME NEW i \in 1 .. L
          PROVE  lo2[Args(u, p)[i]] = lo[Args(t, p)[i]] /\ hi2[Args(u, p)[i]] = hi[Args(t, p)[i]]
      <4>1. Args(u, p)[i] = Args(t, p)[i]
        BY <2>2
      <4>2. Args(t, p)[i] \in N \ A[p]
        BY <1>3, <1>10, <2>1
      <4>3. QED
        BY <1>8, <4>1, <4>2
    <3>2. QED
      BY <3>1
  <2>6. ASSUME NEW i \in 1 .. L + 1 PROVE Before(u, hi2, p, i) = Before(t, hi, p, i)
    <3>1. CASE i = 1 \/ (i = 2 /\ Kind(t, p) \in Infix)
      BY <2>3, <3>1 DEF Before
    <3>2. CASE ~ (i = 1 \/ (i = 2 /\ Kind(t, p) \in Infix))
      <4>1. i - 1 \in 1 .. L
        BY <3>2
      <4>2. QED
        BY <2>3, <2>5, <3>2, <4>1 DEF Before
    <3>3. QED
      BY <3>1, <3>2
  <2>7. lo2[p] = lo[p] /\ hi2[p] = end
    BY <1>3, <1>8
  <2>8. hi2[p] = Before(u, hi2, p, L + 1 + 1)
    <3>1. L + 1 + 1 # 1 /\ L + 1 + 1 - 1 = L + 1 /\ (L + 1 + 1 = 2 => L = 0)
      OBVIOUS
    <3>2. Before(u, hi2, p, L + 1 + 1) = hi2[n]
      BY <2>2, <2>3, <2>4, <3>1 DEF Before
    <3>3. QED
      BY <1>8, <2>7, <3>2
  <2>9. Kind(u, p) \in Infix => /\ L + 1 > 0 /\ lo2[p] = lo2[Args(u, p)[1]]
                                /\ hi2[Args(u, p)[1]] + 1 = p
    <3>1. SUFFICES ASSUME Kind(t, p) \in Infix
                   PROVE  L + 1 > 0 /\ lo2[p] = lo2[Args(u, p)[1]] /\ hi2[Args(u, p)[1]] + 1 = p
      BY <2>3
    <3>2. 1 \in 1 .. L /\ L + 1 > 0
      BY <2>4, <3>1
    <3>3. QED
      BY <2>4, <2>5, <2>7, <3>1, <3>2
  <2>10. ASSUME NEW i \in 1 .. L + 1, ~ (i = 1 /\ Kind(u, p) \in Infix)
         PROVE  lo2[Args(u, p)[i]] = Before(u, hi2, p, i) + 1
    <3>1. CASE i = L + 1
      <4>1. lo2[Args(u, p)[i]] = m + 1
        BY <1>8, <2>2, <3>1
      <4>2. QED
        BY <2>4, <2>6, <3>1, <4>1
    <3>2. CASE i # L + 1
      <4>1. i \in 1 .. L
        BY <3>2
      <4>2. QED
        BY <2>3, <2>4, <2>5, <2>6, <2>10, <4>1
    <3>3. QED
      BY <3>1, <3>2
  <2>11. lo2[p] <= p /\ p <= hi2[p]
    BY <1>4, <1>7, <1>9, <2>4, <2>7
  <2>12. Kind(u, p) \notin Infix => lo2[p] = p
    BY <2>3, <2>4, <2>7
  <2>13. LaidOut(u, lo2, hi2, p)
    BY <2>2, <2>8, <2>9, <2>10, <2>11, <2>12 DEF LaidOut
  <2>14. QED
    BY <2>3, <2>13 DEF Laid
<1>14. Laid(u, lo2, hi2, n)
  <2>1. CASE kind = "CSV"
    BY <1>5, <1>7, <1>8, <2>1 DEF Laid
  <2>2. CASE kind # "CSV"
    <3>1. Len(<<>>) = 0
      OBVIOUS
    <3>2. lo2[n] = n /\ hi2[n] = n
      BY <1>7, <1>8, <2>2
    <3>3. LaidOut(u, lo2, hi2, n)
      BY <1>5, <3>1, <3>2 DEF LaidOut, Before
    <3>4. QED
      BY <1>5, <2>2, <3>3 DEF Laid
  <2>3. QED
    BY <2>1, <2>2
<1>15. ASSUME NEW q \in N \cup {n} PROVE Laid(u, lo2, hi2, q) /\ (Kind(u, q) # "CSV" => q <= end)
  <2>1. Laid(u, lo2, hi2, q)
    BY <1>11, <1>12, <1>13, <1>14
  <2>2. Kind(u, q) # "CSV" => q <= end
    BY <1>3, <1>5, <1>7, <1>9
  <2>3. QED
    BY <2>1, <2>2
<1>16. \A q \in B[u.last] : hi2[q] = end
  BY <1>5, <1>6, <1>8
<1>17. ASSUME NEW q \in B[u.last] \ {u.root}
       PROVE  Args(u, Parent(u, q))[Len(Args(u, Parent(u, q)))] = q
  <2>1. CASE q = n
    <3>1. ASSUME NEW s \in Seq(Nat) PROVE Append(s, n)[Len(Append(s, n))] = n
      OBVIOUS
    <3>2. Args(t, p) \in Seq(Nat)
      BY <1>3, <1>10
    <3>3. QED
      BY <1>3, <1>5, <2>1, <3>1, <3>2
  <2>2. CASE q \in A[p]
    <3>1. q \in A[t.last] \ {t.root} /\ q \in N
      BY <1>3, <1>5, <1>17, <2>2
    <3>2. PICK r \in N : r = Parent(t, q) /\ q \notin A[r]
      BY <3>1 DEF Above, Linked, SoundNode
    <3>3. r # p
      BY <2>2, <3>2
    <3>4. QED
      BY <1>5, <1>7, <3>1, <3>2, <3>3
  <2>3. QED
    BY <1>5, <1>6, <1>17, <2>1, <2>2
<1>18. lo2[u.root] = 1
  BY <1>3, <1>5, <1>7, <1>8
<1>19. Ordered(u, B, end, lo2, hi2)
  BY <1>5, <1>8, <1>15, <1>16, <1>17, <1>18 DEF Ordered
<1>20. QED
  BY <1>1, <1>2, <1>19


\* A new node is read last when it takes the place of a node above last, which
\* is read before it.
LEMMA AdoptedIsOrdered ==
  ASSUME NEW t, NEW A, NEW m, NEW lo, NEW hi,
         Linked(t), Above(t, A), Ordered(t, A, m, lo, hi),
         NEW c \in A[t.last], NEW n \in Nat \ {0}, n \notin NodesOf(t), n = m + 1,
         NEW kind \in Kinds, kind \in Infix, kind # "CSV"
  PROVE  \E lo2, hi2 : Ordered(Adopted(t, c, n, kind), AdoptedAbove(A, c, n), n, lo2, hi2)
<1> DEFINE N == NodesOf(t)
<1>1. PICK u : u = Adopted(t, c, n, kind)
  OBVIOUS
<1>2. PICK B : B = AdoptedAbove(A, c, n)
  OBVIOUS
<1>3. /\ Typed(t) /\ c \in N /\ t.last \in N /\ t.root \in N /\ N \subseteq Nat \ {0} /\ Parent(t, t.root) = NULL
      /\ A \in [N -> SUBSET N] /\ c \in A[c] /\ A[c] \subseteq A[t.last] /\ t.root \in A[c] /\ A[c] \subseteq N
      /\ A[t.root] = {t.root}
      /\ \A q \in N : q \in A[q] /\ \A x \in A[q] : A[x] \subseteq A[q]
  BY DEF Linked, Above
<1>4. c \in Nat /\ NULL \notin N /\ n \in Nat
  BY <1>3 DEF NULL
<1>5. /\ u.root = (IF Parent(t, c) = NULL THEN n ELSE t.root) /\ u.last = n
      /\ NodesOf(u) = N \cup {n}
      /\ Kind(u, n) = kind /\ Args(u, n) = <<c>> /\ Parent(u, n) = Parent(t, c)
      /\ Parent(u, c) = n /\ Kind(u, c) = Kind(t, c) /\ Args(u, c) = Args(t, c)
      /\ \A q \in N \ {c} :
           /\ Kind(u, q) = Kind(t, q) /\ Parent(u, q) = Parent(t, q)
           /\ Len(Args(u, q)) = Len(Args(t, q))
           /\ \A i \in 1 .. Len(Args(t, q)) :
                Args(u, q)[i] = IF Args(t, q)[i] = c THEN n ELSE Args(t, q)[i]
  BY <1>1, <1>3, <1>4, AdoptedIs
<1>6. B[n] = (A[c] \ {c}) \cup {n}
  BY <1>2, <1>3 DEF AdoptedAbove
<1>7. /\ m \in Nat /\ lo \in [N -> Nat \ {0}] /\ hi \in [N -> Nat] /\ lo[t.root] = 1
      /\ \A q \in N : Laid(t, lo, hi, q) /\ (Kind(t, q) # "CSV" => q <= m)
      /\ \A q \in A[t.last] : hi[q] = m
      /\ \A q \in A[t.last] \ {t.root} : Args(t, Parent(t, q))[Len(Args(t, Parent(t, q)))] = q
  BY DEF Ordered
<1> DEFINE lo2 == [q \in N \cup {n} |-> IF q = n THEN lo[c] ELSE lo[q]]
           hi2 == [q \in N \cup {n} |-> IF q = n \/ q \in A[c] \ {c} THEN n ELSE hi[q]]
<1>8. /\ lo2 \in [N \cup {n} -> Nat \ {0}] /\ hi2 \in [N \cup {n} -> Nat]
      /\ lo2[n] = lo[c] /\ hi2[n] = n
      /\ \A q \in N : lo2[q] = lo[q]
      /\ \A q \in A[c] \ {c} : hi2[q] = n
      /\ \A q \in N : q = c \/ q \notin A[c] => hi2[q] = hi[q]
  BY <1>3, <1>7
<1> HIDE DEF lo2, hi2
<1>9. ASSUME NEW q \in N
      PROVE  /\ Args(t, q) \in Seq(Nat) /\ Len(Args(t, q)) \in Nat
             /\ \A i \in 1 .. Len(Args(t, q)) :
                  /\ Args(t, q)[i] \in N \ {t.root} /\ Args(t, q)[i] \notin A[q]
                  /\ Args(t, q)[i] \in A[c] => q \in A[c]
  <2>1. Args(t, q) \in Seq(Nat)
    BY <1>3, TypedIs
  <2>2. QED
    BY <1>3, <2>1, ArgIs
<1>10. ASSUME NEW q \in N, q = c \/ q \notin A[c] PROVE Laid(u, lo2, hi2, q)
  <2>1. PICK L \in Nat : L = Len(Args(t, q))
    BY <1>9
  <2>2. \A i \in 1 .. L : Args(t, q)[i] \in N \ A[c]
    BY <1>9, <1>10, <2>1
  <2>3. /\ Len(Args(u, q)) = L /\ Kind(u, q) = Kind(t, q) /\ q \in Nat
        /\ \A i \in 1 .. L : Args(u, q)[i] = Args(t, q)[i]
    <3>1. CASE q = c
      BY <1>3, <1>5, <2>1, <3>1
    <3>2. CASE q # c
      <4>1. \A i \in 1 .. L : Args(t, q)[i] # c
        BY <1>3, <2>2
      <4>2. QED
        BY <1>3, <1>5, <2>1, <3>2, <4>1
    <3>3. QED
      BY <3>1, <3>2
  <2>4. lo2[q] = lo[q] /\ hi2[q] = hi[q] /\ hi[q] \in Nat
    BY <1>7, <1>8, <1>10
  <2>5. ASSUME NEW i \in 1 .. L
        PROVE  lo2[Args(u, q)[i]] = lo[Args(t, q)[i]] /\ hi2[Args(u, q)[i]] = hi[Args(t, q)[i]]
    BY <1>8, <2>2, <2>3
  <2>6. L > 0 => hi2[Args(u, q)[L]] = hi[Args(t, q)[L]]
    <3>1. L > 0 => L \in 1 .. L
      OBVIOUS
    <3>2. QED
      BY <2>5, <3>1
  <2>7. Laid(t, lo, hi, q)
    BY <1>7
  <2>8. QED
    BY <2>1, <2>3, <2>4, <2>5, <2>6, <2>7, LaidAgain
<1>11. ASSUME NEW q \in A[c] \ {c} PROVE Laid(u, lo2, hi2, q)
  <2>1. IsOnSpine(t, A, m, hi, c, q)
    BY SpineIs
  <2>2. PICK L \in Nat \ {0} : L = Len(Args(t, q))
    BY <2>1 DEF IsOnSpine
  <2>3. /\ q \in N /\ Args(t, q)[L] \in A[c] /\ Kind(t, q) # "CSV"
        /\ ~ (Kind(t, q) \in Infix /\ L = 1)
        /\ \A i \in 1 .. L : i # L => Args(t, q)[i] \notin A[t.last]
        /\ hi[q] = m
    BY <2>1, <2>2 DEF IsOnSpine
  <2>4. /\ Len(Args(u, q)) = L /\ Kind(u, q) = Kind(t, q) /\ q \in Nat
        /\ \A i \in 1 .. L : Args(u, q)[i] = IF Args(t, q)[i] = c THEN n ELSE Args(t, q)[i]
    BY <1>3, <1>5, <2>2, <2>3
  <2>5. \A i \in 1 .. L : Args(t, q)[i] \in N
    BY <1>9, <2>2, <2>3
  <2>6. lo2[q] = lo[q] /\ hi2[q] = n /\ hi[q] \in Nat
    BY <1>7, <1>8, <2>3
  <2>7. ASSUME NEW i \in 1 .. L PROVE lo2[Args(u, q)[i]] = lo[Args(t, q)[i]]
    BY <1>8, <2>4, <2>5
  <2>8. ASSUME NEW i \in 1 .. L, i # L PROVE hi2[Args(u, q)[i]] = hi[Args(t, q)[i]]
    <3>1. Args(t, q)[i] \in N \ A[c] /\ Args(t, q)[i] # c
      BY <1>3, <2>3, <2>5, <2>8
    <3>2. QED
      BY <1>8, <2>4, <3>1
  <2>9. hi2[Args(u, q)[L]] = n
    <3>1. CASE Args(t, q)[L] = c
      BY <1>8, <2>4, <3>1
    <3>2. CASE Args(t, q)[L] # c
      BY <1>8, <2>3, <2>4, <3>2
    <3>3. QED
      BY <3>1, <3>2
  <2>10. Laid(t, lo, hi, q) /\ L \in Nat /\ L > 0 /\ hi2[q] >= hi[q] /\ hi2[q] \in Nat
    BY <1>4, <1>7, <2>2, <2>3, <2>6
  <2>11. QED
    BY <2>2, <2>3, <2>4, <2>6, <2>7, <2>8, <2>9, <2>10, LaidAgain
<1>12. Laid(u, lo2, hi2, n)
  <2>1. Len(<<c>>) = 1 /\ <<c>>[1] = c
    OBVIOUS
  <2>2. hi[c] = m /\ lo[c] \in Nat
    BY <1>3, <1>7
  <2>3. lo[c] <= m + 1
    <3>1. CASE Kind(t, c) = "CSV"
      BY <1>3, <1>7, <2>2, <3>1 DEF Laid
    <3>2. CASE Kind(t, c) # "CSV"
      <4>1. lo[c] <= c /\ c <= m
        BY <1>3, <1>7, <3>2 DEF Laid, LaidOut
      <4>2. QED
        BY <1>4, <1>7, <2>2, <4>1
    <3>3. QED
      BY <3>1, <3>2
  <2>4. hi2[c] = m /\ lo2[c] = lo[c] /\ lo2[n] = lo[c] /\ hi2[n] = n
    BY <1>3, <1>8, <2>2
  <2>5. LaidOut(u, lo2, hi2, n)
    BY <1>5, <1>7, <2>1, <2>2, <2>3, <2>4 DEF LaidOut, Before
  <2>6. QED
    BY <1>5, <2>5 DEF Laid
<1>13. ASSUME NEW q \in N \cup {n} PROVE Laid(u, lo2, hi2, q) /\ (Kind(u, q) # "CSV" => q <= n)
  <2>1. Laid(u, lo2, hi2, q)
    BY <1>10, <1>11, <1>12
  <2>2. Kind(u, q) # "CSV" => q <= n
    BY <1>3, <1>5, <1>7
  <2>3. QED
    BY <2>1, <2>2
<1>14. \A q \in B[u.last] : hi2[q] = n
  BY <1>5, <1>6, <1>8
<1>15. c = t.root <=> Parent(t, c) = NULL
  BY <1>3, <1>4 DEF Linked, SoundNode
<1>16. ASSUME NEW q \in B[u.last] \ {u.root}
       PROVE  Args(u, Parent(u, q))[Len(Args(u, Parent(u, q)))] = q
  <2>1. CASE q = n
    <3>1. c \in A[t.last] \ {t.root}
      BY <1>5, <1>15, <1>16, <2>1
    <3>2. PICK r \in N \ {c} : r = Parent(t, c) /\ Args(t, r)[Len(Args(t, r))] = c
      BY <1>3, <1>7, <3>1 DEF Above, Linked, SoundNode
    <3>3. PICK i \in 1 .. Len(Args(t, r)) : Args(t, r)[i] = c
      BY <1>3, <3>1, <3>2 DEF Linked, SoundNode
    <3>4. Len(Args(t, r)) \in 1 .. Len(Args(t, r))
      BY <1>9, <3>3
    <3>5. QED
      BY <1>5, <2>1, <3>2, <3>4
  <2>2. CASE q \in A[c] \ {c}
    <3>1. q # t.root /\ q \in A[t.last] \ {t.root} /\ q \in N
      <4>1. c # t.root
        BY <1>3, <2>2
      <4>2. u.root = t.root
        BY <1>5, <1>15, <4>1
      <4>3. QED
        BY <1>3, <1>16, <2>2, <4>2
    <3>2. PICK r \in N : r = Parent(t, q) /\ Args(t, r)[Len(Args(t, r))] = q /\ r = Parent(u, q)
      BY <1>5, <1>7, <2>2, <3>1 DEF Linked, SoundNode
    <3>3. PICK i \in 1 .. Len(Args(t, r)) : Args(t, r)[i] = q
      BY <3>1, <3>2 DEF Linked, SoundNode
    <3>4. Len(Args(t, r)) \in 1 .. Len(Args(t, r))
      BY <1>9, <3>3
    <3>5. Len(Args(u, r)) = Len(Args(t, r)) /\ Args(u, r)[Len(Args(t, r))] = q
      <4>1. CASE r = c
        BY <1>5, <3>2, <4>1
      <4>2. CASE r # c
        BY <1>5, <2>2, <3>2, <3>4, <4>2
      <4>3. QED
        BY <4>1, <4>2
    <3>6. QED
      BY <3>2, <3>5
  <2>3. QED
    BY <1>5, <1>6, <1>16, <2>1, <2>2
<1>17. lo2[u.root] = 1
  BY <1>3, <1>5, <1>7, <1>8, <1>15
<1>18. Ordered(u, B, n, lo2, hi2)
  BY <1>4, <1>5, <1>8, <1>13, <1>14, <1>16, <1>17 DEF Ordered
<1>19. QED
  BY <1>1, <1>2, <1>18


(***************************************************************************)
(* How lines go on                                                         *)
(***************************************************************************)
Ended     == {"EVAL", "GROUPING_CLOSE", "INDEX_CLOSE"}
Expecting == {"RETURN", "IF", "ELIF", "ADDRESS"} \cup Openers \cup Binaries
Named     == {"LOCAL", "CONSTANT", "FUNCTION"}

\* What comes before token k of a line.
ComesAfter(t, k) ==
  /\ k = "FUNCTION" => t \in {<<>>, <<"EXTERNAL">>}
  /\ k \in {"ELIF", "ELSE"} => t = <<"BODY_CLOSE">>
  /\ k \in Words \ {"FUNCTION", "ELIF", "ELSE"} => t = <<>>
  /\ k = "BODY_CLOSE" => t = <<>> \/ Final(t) = "BODY_OPEN"
  /\ k = "BODY_OPEN" => (~Header(t) /\ Final(t) \in Ended) \/ Final(t) \in {"ELSE", "GROUPING_CLOSE"}
  /\ k = "NAME" => Final(t) \in Named \/ (Header(t) /\ Final(t) \in {"GROUPING_OPEN", "COMMA"})
  /\ k \in {"TYPE", "ATTRIBUTE"} => Final(t) \in {"TYPEAS", "ATTRIBUTE"}
  /\ k = "TYPEAS" => \/ Header(t) /\ Final(t) = "NAME" /\ Around(t, Len(t) + 1) = "GROUPING_OPEN"
                     \/ ~Header(t) /\ Declares(t) /\ Len(t) = 2
  /\ k = "EVAL" => Final(t) \in Named \/ (~Header(t) /\ Final(t) \in {"START"} \cup Expecting)
  /\ k = "STRAY" => t # <<>> /\ (Header(t) => Final(t) \in {"BODY_OPEN", "BODY_CLOSE"})
                     /\ (Declares(t) => Final(t) \in Ended)
  /\ k \in Unaries => ~Header(t) /\ Final(t) \in {"START"} \cup Expecting
  /\ k = "GROUPING_OPEN" => \/ ~Header(t) /\ Final(t) \in {"START"} \cup Expecting
                            \/ Final(t) = "CALL"
                            \/ Header(t) /\ Final(t) \in {"NAME", "EVAL"} /\ Around(t, Len(t) + 1) = "START"
  /\ k = "GROUPING_CLOSE" => \/ ~Header(t) /\ Final(t) \in Ended
                             \/ Final(t) = "GROUPING_OPEN" \/ (Header(t) /\ Final(t) = "TYPE")
  /\ k \in {"INDEX_OPEN", "INDEX_CLOSE", "MUL", "ADD", "TEST_EQUALS"} => ~Header(t) /\ Final(t) \in Ended
  /\ k = "EQUALS" => (~Header(t) /\ Final(t) \in Ended) \/ (Declares(t) /\ Final(t) = "TYPE")
  /\ k = "COMMA" => (~Header(t) /\ Final(t) \in Ended) \/ (Header(t) /\ Final(t) = "TYPE")

LEMMA FollowsIs ==
  ASSUME NEW t \in Seq(Kinds), NEW k \in Kinds, Follows(t, k)
  PROVE  ComesAfter(t, k)
<1>1. /\ Operand(t) => ~Header(t) /\ Final(t) \in Ended
      /\ Wants(t) => ~Header(t) /\ Final(t) \in {"START"} \cup Expecting
  BY DEF Operand, Wants, InExpression, Ended, Expecting
<1>2. IsSuffix(<<"CALL", "GROUPING_OPEN">>, t) => Final(t) = "GROUPING_OPEN"
  <2>1. <<"CALL", "GROUPING_OPEN">> \in Seq({"CALL", "GROUPING_OPEN"})
    OBVIOUS
  <2>2. IsSeq(<<"CALL", "GROUPING_OPEN">>) /\ IsSeq(t)
    BY <2>1, SeqParts
  <2>3. Len(<<"CALL", "GROUPING_OPEN">>) = 2 /\ <<"CALL", "GROUPING_OPEN">>[2] = "GROUPING_OPEN"
    OBVIOUS
  <2>4. SUFFICES ASSUME IsSuffix(<<"CALL", "GROUPING_OPEN">>, t) PROVE Final(t) = "GROUPING_OPEN"
    OBVIOUS
  <2>5. Len(t) > 0 /\ t[Len(t)] = "GROUPING_OPEN"
    BY <2>2, <2>3, <2>4, SuffixEnds
  <2>6. t # <<>>
    BY <2>5
  <2>7. QED
    BY <2>5, <2>6 DEF Final
<1>3. Complete(t) => t # <<>> /\ (Header(t) => Final(t) \in {"BODY_OPEN", "BODY_CLOSE"})
                     /\ (Declares(t) => Final(t) \in Ended)
  BY <1>1 DEF Complete, Header, Declares, Starts
<1>4. Declares(t) => ~Header(t)
  BY DEF Header, Declares, Starts
<1>5. CASE k \in Words
  BY <1>5 DEF Follows, ComesAfter, Words, Unaries
<1>6. CASE k \in Braces \cup Operands
  BY <1>1, <1>3, <1>6 DEF Follows, ComesAfter, Words, Unaries, Braces, Operands, Named
<1>7. CASE k \in Openers \cup Closers
  BY <1>1, <1>2, <1>7 DEF Follows, ComesAfter, Words, Unaries, Openers, Closers, Ended
<1>8. CASE k \in Unaries \cup {"ATTRIBUTE", "CSV"}
  BY <1>1, <1>8 DEF Follows, ComesAfter, Words, Unaries
<1>9. CASE k \in Binaries
  BY <1>1, <1>4, <1>9 DEF Follows, ComesAfter, Words, Unaries, Binaries
<1>10. QED
  BY <1>5, <1>6, <1>7, <1>8, <1>9 DEF Kinds


Unbracketed(t) == \A i \in DOMAIN t : t[i] \notin Openers \cup Closers

\* A header up to the function's name; its parameters; what comes after them.
Naming(t) ==
  /\ Unbracketed(t)
  /\ \/ Final(t) \in {"EXTERNAL", "FUNCTION"}
     \/ Len(t) >= 2 /\ t[Len(t) - 1] = "FUNCTION" /\ Final(t) \in {"NAME", "EVAL"}

Listing(t) ==
  /\ \E j \in DOMAIN t : t[j] = "GROUPING_OPEN" /\ \A i \in DOMAIN t : t[i] \in Openers \cup Closers => i = j
  /\ Final(t) \in {"GROUPING_OPEN", "NAME", "TYPEAS", "TYPE", "ATTRIBUTE", "COMMA"}

Listed(t) == Final(t) \in {"GROUPING_CLOSE", "BODY_OPEN", "BODY_CLOSE", "STRAY"}

\* Declarations and headers begin as the language has it.
Begun(t) ==
  /\ Declares(t) /\ Len(t) >= 2 => t[2] \in {"NAME", "EVAL"}
  /\ Header(t) => Naming(t) \/ Listing(t) \/ Listed(t)
  /\ Final(t) = "FUNCTION" => Header(t)

LEMMA AroundNone ==
  ASSUME NEW t \in Seq(Kinds), Unbracketed(t)
  PROVE  Around(t, Len(t) + 1) = "START"
<1>1. \A j \in 1 .. Len(t) + 1 - 1 : j \in DOMAIN t
  OBVIOUS
<1>2. {j \in 1 .. Len(t) + 1 - 1 : t[j] \in Openers /\ Depth(t, j) = Depth(t, Len(t) + 1) - 1} = {}
  BY <1>1 DEF Unbracketed
<1>3. QED
  BY <1>2 DEF Around

LEMMA AroundOne ==
  ASSUME NEW t \in Seq(Kinds), NEW j \in DOMAIN t, t[j] = "GROUPING_OPEN",
         \A i \in DOMAIN t : t[i] \in Openers \cup Closers => i = j
  PROVE  Around(t, Len(t) + 1) = "GROUPING_OPEN"
<1>1. /\ Len(t) \in Nat /\ DOMAIN t = 1 .. Len(t) /\ j \in 1 .. Len(t) /\ Len(t) + 1 - 1 = Len(t)
      /\ t[j] \in Openers /\ t[j] \notin Closers
  BY DEF Openers, Closers
<1>2. \A i \in 1 .. Len(t) : t[i] \notin Closers /\ (t[i] \in Openers <=> i = j)
  BY <1>1
<1>3. PICK e : e = Len(t) + 1 /\ e - 1 = Len(t)
  BY <1>1
<1>4. Depth(t, e) = 1
  <2>1. {i \in 1 .. e - 1 : t[i] \in Openers} = {j}
    BY <1>1, <1>2, <1>3
  <2>2. {i \in 1 .. e : i <= Len(t) /\ t[i] \in Closers} = {}
    BY <1>1, <1>2
  <2>3. Cardinality({j}) = 1 /\ Cardinality({}) = 0
    BY FS_Singleton, FS_EmptySet
  <2>4. Depth(t, e) = Cardinality({i \in 1 .. e - 1 : t[i] \in Openers})
                                 - Cardinality({i \in 1 .. e : i <= Len(t) /\ t[i] \in Closers})
    BY Zenon DEF Depth
  <2>5. Depth(t, e) = Cardinality({j}) - Cardinality({})
    BY <2>1, <2>2, <2>4, Zenon
  <2>6. QED
    BY <2>3, <2>5
<1>5. Depth(t, j) = 0
  <2>1. {i \in 1 .. j - 1 : t[i] \in Openers} = {}
    BY <1>1, <1>2
  <2>2. {i \in 1 .. j : i <= Len(t) /\ t[i] \in Closers} = {}
    BY <1>1, <1>2
  <2>3. Cardinality({}) = 0
    BY FS_EmptySet
  <2>4. Depth(t, j) = Cardinality({i \in 1 .. j - 1 : t[i] \in Openers})
                        - Cardinality({i \in 1 .. j : i <= Len(t) /\ t[i] \in Closers})
    BY Zenon DEF Depth
  <2>5. Depth(t, j) = Cardinality({}) - Cardinality({})
    BY <2>1, <2>2, <2>4, Zenon
  <2>6. QED
    BY <2>3, <2>5
<1>6. {i \in 1 .. e - 1 : t[i] \in Openers /\ Depth(t, i) = Depth(t, e) - 1} = {j}
  BY <1>1, <1>2, <1>3, <1>4, <1>5
<1>7. Max({j}) = j
  BY <1>1 DEF Max
<1>8. Around(t, e) = IF {j} = {} THEN "START" ELSE t[Max({j})]
  <2>1. Around(t, e) = LET open == {i \in 1 .. e - 1 : t[i] \in Openers /\ Depth(t, i) = Depth(t, e) - 1}
                       IN IF open = {} THEN "START" ELSE t[Max(open)]
    BY Zenon DEF Around
  <2>2. QED
    BY <1>6, <2>1, Zenon
<1>9. QED
  BY <1>3, <1>7, <1>8

LEMMA BegunGoesOn ==
  ASSUME NEW t \in Seq(Kinds), Begun(t), NEW k \in Kinds, Follows(t, k)
  PROVE  Begun(Append(t, k))
<1>1. ComesAfter(t, k)
  BY FollowsIs
<1>2. PICK s : s = Append(t, k)
  OBVIOUS
<1>3. /\ s \in Seq(Kinds) /\ Len(t) \in Nat /\ Len(s) = Len(t) + 1 /\ s # <<>> /\ s[Len(s)] = k
      /\ DOMAIN t = 1 .. Len(t) /\ DOMAIN s = 1 .. Len(s)
      /\ \A i \in 1 .. Len(t) : s[i] = t[i]
      /\ t = <<>> <=> Len(t) = 0
  BY <1>2
<1>4. Final(s) = k
  BY <1>3 DEF Final
<1>9. k # "CSV"
  BY NeverCsv
<1>5. t # <<>> => Final(t) = t[Len(t)]
  BY DEF Final
<1>6. CASE t = <<>>
  <2>1. s[1] = k /\ Len(s) = 1 /\ DOMAIN s = {1}
    BY <1>3, <1>6
  <2>2. SUFFICES ASSUME Header(s) PROVE Naming(s)
    <3>1. k = "FUNCTION" => Header(s)
      BY <1>3, <2>1 DEF Header, Starts
    <3>2. QED
      BY <1>2, <1>4, <2>1, <3>1 DEF Begun
  <2>3. k \in {"FUNCTION", "EXTERNAL"}
    BY <2>1, <2>2 DEF Header, Starts
  <2>4. Unbracketed(s)
    BY <2>1, <2>3 DEF Unbracketed, Openers, Closers
  <2>5. QED
    BY <1>4, <2>3, <2>4 DEF Naming
<1>7. CASE t # <<>>
  <2>1. s[1] = t[1] /\ 1 \in 1 .. Len(t) /\ Len(t) \in 1 .. Len(t)
    BY <1>3, <1>7
  <2>2. (Header(s) <=> Header(t)) /\ (Declares(s) <=> Declares(t))
    BY <1>3, <1>7, <2>1 DEF Header, Declares, Starts
  <2>3. ASSUME Declares(s), Len(s) >= 2 PROVE s[2] \in {"NAME", "EVAL"}
    <3>1. CASE Len(t) >= 2
      <4>1. 2 \in 1 .. Len(t)
        BY <1>3, <3>1
      <4>2. QED
        BY <1>3, <2>2, <2>3, <3>1, <4>1 DEF Begun
    <3>2. CASE Len(t) = 1
      <4>1. Final(t) \in {"LOCAL", "CONSTANT"} /\ ~Header(t)
        BY <1>5, <1>7, <2>2, <2>3, <3>2 DEF Declares, Header, Starts
      <4>2. t # <<"EXTERNAL">> /\ t # <<"BODY_CLOSE">>
        BY <4>1 DEF Final
      <4>3. k \in {"NAME", "EVAL"}
        BY <1>1, <1>7, <1>9, <2>2, <2>3, <3>2, <4>1, <4>2
           DEF ComesAfter, Kinds, Words, Braces, Operands, Openers, Closers, Unaries, Binaries, Ended, Expecting, Named
      <4>4. QED
        BY <1>3, <3>2, <4>3
    <3>3. QED
      BY <1>3, <1>7, <3>1, <3>2
  <2>4. ASSUME Header(s) PROVE Naming(s) \/ Listing(s) \/ Listed(s)
    <3>1. Header(t) /\ (Naming(t) \/ Listing(t) \/ Listed(t))
      BY <2>2, <2>4 DEF Begun
    <3>2. CASE Naming(t)
      <4>1. Around(t, Len(t) + 1) = "START"
        BY <3>2, AroundNone DEF Naming
      <4>2. \/ k = "FUNCTION" /\ Final(t) = "EXTERNAL"
            \/ k \in {"NAME", "EVAL"} /\ Final(t) = "FUNCTION"
            \/ k = "GROUPING_OPEN"
        <5>1. \/ Final(t) \in {"EXTERNAL", "FUNCTION"}
              \/ Final(t) \in {"NAME", "EVAL"}
          BY <3>2 DEF Naming
        <5>2. (t = <<"EXTERNAL">> => Final(t) = "EXTERNAL") /\ (t = <<"BODY_CLOSE">> => Final(t) = "BODY_CLOSE")
          BY DEF Final
        <5>3. ~Declares(t)
          BY <3>1 DEF Header, Declares, Starts
        <5>4. QED
          BY <1>1, <1>7, <1>9, <3>1, <4>1, <5>1, <5>2, <5>3
             DEF ComesAfter, Kinds, Words, Braces, Operands, Openers, Closers, Unaries, Binaries, Ended, Expecting, Named
      <4>3. CASE k \in {"FUNCTION", "NAME", "EVAL"}
        <5>1. Unbracketed(s)
          <6>1. \A i \in DOMAIN s : i \in DOMAIN t \/ i = Len(s)
            BY <1>3
          <6>2. k \notin Openers \cup Closers
            BY <4>3 DEF Openers, Closers
          <6>3. QED
            BY <1>3, <3>2, <6>1, <6>2 DEF Naming, Unbracketed
        <5>2. Len(s) - 1 = Len(t) /\ Len(s) >= 2 /\ s[Len(s) - 1] = Final(t)
          BY <1>3, <1>5, <1>7, <2>1
        <5>3. Naming(s)
          BY <1>4, <4>2, <4>3, <5>1, <5>2 DEF Naming
        <5>4. QED
          BY <5>3
      <4>4. CASE k = "GROUPING_OPEN"
        <5>1. Len(s) \in DOMAIN s /\ \A i \in DOMAIN s : i \in DOMAIN t \/ i = Len(s)
          BY <1>3
        <5>2. \A i \in DOMAIN s : s[i] \in Openers \cup Closers => i = Len(s)
          BY <1>3, <3>2, <5>1 DEF Naming, Unbracketed
        <5>3. Listing(s)
          BY <1>3, <1>4, <4>4, <5>1, <5>2 DEF Listing
        <5>4. QED
          BY <5>3
      <4>5. QED
        BY <4>2, <4>3, <4>4
    <3>3. CASE Listing(t)
      <4>1. PICK j \in DOMAIN t : /\ t[j] = "GROUPING_OPEN"
                                  /\ \A i \in DOMAIN t : t[i] \in Openers \cup Closers => i = j
        BY <3>3 DEF Listing
      <4>2. Around(t, Len(t) + 1) = "GROUPING_OPEN"
        BY <4>1, AroundOne
      <4>3. k \in {"GROUPING_CLOSE", "NAME", "TYPEAS", "TYPE", "ATTRIBUTE", "COMMA"}
        <5>1. Final(t) \in {"GROUPING_OPEN", "NAME", "TYPEAS", "TYPE", "ATTRIBUTE", "COMMA"}
          BY <3>3 DEF Listing
        <5>2. (t = <<"EXTERNAL">> => Final(t) = "EXTERNAL") /\ (t = <<"BODY_CLOSE">> => Final(t) = "BODY_CLOSE")
          BY DEF Final
        <5>3. ~Declares(t)
          BY <3>1 DEF Header, Declares, Starts
        <5>4. QED
          BY <1>1, <1>7, <1>9, <3>1, <4>2, <5>1, <5>2, <5>3
             DEF ComesAfter, Kinds, Words, Braces, Operands, Openers, Closers, Unaries, Binaries, Ended, Expecting, Named
      <4>4. CASE k = "GROUPING_CLOSE"
        BY <1>4, <4>4 DEF Listed
      <4>5. CASE k \in {"NAME", "TYPEAS", "TYPE", "ATTRIBUTE", "COMMA"}
        <5>1. j \in DOMAIN s /\ s[j] = "GROUPING_OPEN" /\ \A i \in DOMAIN s : i \in DOMAIN t \/ i = Len(s)
          BY <1>3, <4>1
        <5>2. k \notin Openers \cup Closers
          BY <4>5 DEF Openers, Closers
        <5>3. \A i \in DOMAIN s : s[i] \in Openers \cup Closers => i = j
          BY <1>3, <4>1, <5>1, <5>2
        <5>4. Listing(s)
          BY <1>4, <4>5, <5>1, <5>3 DEF Listing
        <5>5. QED
          BY <5>4
      <4>6. QED
        BY <4>3, <4>4, <4>5
    <3>4. CASE Listed(t)
      <4>1. Final(t) \in {"GROUPING_CLOSE", "BODY_OPEN", "BODY_CLOSE", "STRAY"}
        BY <3>4 DEF Listed
      <4>2. (t = <<"EXTERNAL">> => Final(t) = "EXTERNAL")
        BY DEF Final
      <4>3. t # <<"BODY_CLOSE">> /\ ~Declares(t)
        BY <3>1 DEF Header, Declares, Starts
      <4>4. k \in {"GROUPING_CLOSE", "BODY_OPEN", "BODY_CLOSE", "STRAY"}
        BY <1>1, <1>7, <1>9, <3>1, <4>1, <4>2, <4>3
           DEF ComesAfter, Kinds, Words, Braces, Operands, Openers, Closers, Unaries, Binaries, Ended, Expecting, Named
      <4>5. QED
        BY <1>4, <4>4 DEF Listed
    <3>5. QED
      BY <3>1, <3>2, <3>3, <3>4
  <2>5. k = "FUNCTION" => Header(s)
    <3>1. k = "FUNCTION" => t = <<"EXTERNAL">>
      BY <1>1, <1>7 DEF ComesAfter
    <3>2. t = <<"EXTERNAL">> => Header(t)
      BY <1>7, <2>1 DEF Header, Starts
    <3>3. QED
      BY <2>2, <3>1, <3>2
  <2>6. QED
    BY <1>2, <1>4, <2>3, <2>4, <2>5 DEF Begun
<1>8. QED
  BY <1>6, <1>7


\* After FUNCTION comes its name.
LEMMA AfterFunction ==
  ASSUME NEW t \in Seq(Kinds), Begun(t), NEW k \in Kinds, Follows(t, k), Final(t) = "FUNCTION"
  PROVE  k \in {"NAME", "EVAL"}
<1>1. ComesAfter(t, k) /\ k # "CSV" /\ Header(t) /\ ~Declares(t)
  BY FollowsIs, NeverCsv DEF Begun, Header, Declares, Starts
<1>2. t # <<>> /\ t # <<"EXTERNAL">> /\ t # <<"BODY_CLOSE">>
  BY DEF Final
<1>3. QED
  BY <1>1, <1>2
     DEF ComesAfter, Kinds, Words, Braces, Operands, Openers, Closers, Unaries, Binaries, Ended, Expecting, Named

\* What is before an operation written after its first argument has none.
LEMMA BeforeInfix ==
  ASSUME NEW t \in Seq(Kinds), Begun(t), NEW k \in Infix, k \in Kinds, Follows(t, k)
  PROVE  t # <<>> /\ ExpectedArgc(Final(t)) = 0
<1>1. ComesAfter(t, k)
  BY FollowsIs
<1>2. Final(t) = "START" <=> t = <<>>
  BY DEF Final, Kinds, Words, Braces, Operands, Openers, Closers, Unaries, Binaries
<1>3. t = <<"BODY_CLOSE">> => Final(t) = "BODY_CLOSE"
  BY DEF Final
<1>4. Declares(t) /\ Len(t) = 2 => Final(t) \in {"NAME", "EVAL"}
  BY DEF Final, Begun, Declares, Starts
<1>5. Final(t) \in {"EVAL", "GROUPING_CLOSE", "INDEX_CLOSE", "BODY_CLOSE", "NAME", "TYPE"}
  BY <1>1, <1>3, <1>4 DEF ComesAfter, Infix, Binaries, Ended
<1>6. t # <<>>
  BY <1>2, <1>5
<1>7. QED
  BY <1>5, <1>6 DEF ExpectedArgc, Binaries, Unaries, Closers, Operands, Braces

\* What is before an operation written before its arguments expects one.
LEMMA BeforePrefix ==
  ASSUME NEW t \in Seq(Kinds), t # <<>>, Begun(t), NEW k \in Kinds, k \notin Infix,
         ExpectedArgc(k) > 0, Follows(t, k)
  PROVE  \/ k = "FUNCTION" /\ Final(t) = "EXTERNAL"
         \/ k \in Unaries /\ Final(t) \in Expecting
         \/ k = "ATTRIBUTE" /\ Final(t) \in {"TYPEAS", "ATTRIBUTE"}
         \/ k = "GROUPING_OPEN" /\ Final(t) \in Expecting \cup {"CALL"}
         \/ k = "GROUPING_OPEN" /\ Len(t) >= 2 /\ t[Len(t) - 1] = "FUNCTION"
<1>1. ComesAfter(t, k) /\ k # "CSV"
  BY FollowsIs, NeverCsv
<1>2. Final(t) # "START"
  BY DEF Final, Kinds, Words, Braces, Operands, Openers, Closers, Unaries, Binaries
<1>3. t = <<"EXTERNAL">> => Final(t) = "EXTERNAL"
  BY DEF Final
<1>4. k \in {"FUNCTION", "ATTRIBUTE", "GROUPING_OPEN"} \cup Unaries \cup (Words \ {"FUNCTION", "ELIF", "ELSE"})
  <2>1. \A x \in Closers \cup Operands \cup Braces \cup {"CSV"} : ExpectedArgc(x) = 0
    BY DEF ExpectedArgc, Binaries, Unaries, Closers, Operands, Braces
  <2>2. k \notin Closers \cup Operands \cup Braces \cup {"CSV"}
    BY <2>1
  <2>3. k \in Openers \cup Unaries \cup Words \cup {"ATTRIBUTE"}
    BY <2>2 DEF Infix, Kinds
  <2>4. QED
    BY <2>3 DEF Infix, Openers, Words
<1>5. k \notin Words \ {"FUNCTION", "ELIF", "ELSE"}
  BY <1>1 DEF ComesAfter
<1>6. k = "GROUPING_OPEN" /\ Header(t) /\ Final(t) \in {"NAME", "EVAL"} /\ Around(t, Len(t) + 1) = "START"
        => Len(t) >= 2 /\ t[Len(t) - 1] = "FUNCTION"
  <2>1. SUFFICES ASSUME Header(t), Final(t) \in {"NAME", "EVAL"}, Around(t, Len(t) + 1) = "START"
                 PROVE  Len(t) >= 2 /\ t[Len(t) - 1] = "FUNCTION"
    OBVIOUS
  <2>2. ~Listed(t)
    BY <2>1 DEF Listed
  <2>3. ~Listing(t)
    BY <2>1, AroundOne DEF Listing
  <2>4. Naming(t)
    BY <2>1, <2>2, <2>3 DEF Begun
  <2>5. QED
    BY <2>1, <2>4 DEF Naming
<1>7. CASE k = "FUNCTION"
  BY <1>1, <1>3, <1>7 DEF ComesAfter
<1>8. CASE k = "ATTRIBUTE"
  BY <1>1, <1>8 DEF ComesAfter
<1>9. CASE k = "GROUPING_OPEN"
  BY <1>1, <1>2, <1>6, <1>9 DEF ComesAfter
<1>10. CASE k \in Unaries
  BY <1>1, <1>2, <1>10 DEF ComesAfter
<1>11. QED
  BY <1>4, <1>5, <1>7, <1>8, <1>9, <1>10

(***************************************************************************)
(* Where tokens go                                                         *)
(***************************************************************************)

\* Last takes what it can.
LEMMA LastTakes ==
  ASSUME NEW t, NEW A, Linked(t), Above(t, A), NEW k, Takes(t, t.last, k)
  PROVE  Takers(t, k) # {} /\ Nearest(t, Takers(t, k)) = t.last
<1>1. PICK up : up = Upwards(t, t.last)
  OBVIOUS
<1>2. IsWayUp(up, t, A, t.last)
  BY <1>1, UpwardsIs DEF Linked
<1>3. up \in Seq(NodesOf(t)) /\ DOMAIN up = 1 .. Len(up) /\ 1 \in DOMAIN up /\ up[1] = t.last
  BY <1>2 DEF IsWayUp
<1>4. t.last \in ToSet(up)
  BY <1>3 DEF ToSet
<1>5. t.last \in Takers(t, k)
  BY <1>1, <1>4 DEF Takers
<1> DEFINE I == {i \in DOMAIN up : up[i] \in Takers(t, k)}
<1>6. I \in SUBSET Nat /\ 1 \in I /\ \A i \in I : 1 <= i
  BY <1>3, <1>5
<1>7. Nearest(t, Takers(t, k)) = up[Min(I)]
  BY <1>1, Zenon DEF Nearest
<1> HIDE DEF I
<1>8. Min(I) = 1
  BY <1>6, MinIs
<1>9. QED
  BY <1>3, <1>5, <1>7, <1>8

\* A group goes to the parent of last if that takes it and last does not.
LEMMA ParentTakes ==
  ASSUME NEW t, NEW A, Linked(t), Above(t, A), Parent(t, t.last) # NULL,
         Takes(t, Parent(t, t.last), "GROUPING_OPEN")
  PROVE  Takers(t, "GROUPING_OPEN") # {}
<1>1. PICK up : up = Upwards(t, t.last)
  OBVIOUS
<1>2. IsWayUp(up, t, A, t.last)
  BY <1>1, UpwardsIs DEF Linked
<1>3. up \in Seq(NodesOf(t)) /\ DOMAIN up = 1 .. Len(up) /\ up[1] = t.last /\ Len(up) \in Nat \ {0}
  BY <1>2 DEF IsWayUp
<1>4. Len(up) # 1
  BY <1>2 DEF IsWayUp, Linked
<1>5. 1 \in 1 .. Len(up) /\ 1 # Len(up) /\ 2 \in DOMAIN up
  BY <1>3, <1>4
<1>6. up[1 + 1] = Parent(t, up[1])
  BY <1>2, <1>5 DEF IsWayUp
<1>7. Parent(t, t.last) \in ToSet(up)
  BY <1>3, <1>5, <1>6 DEF ToSet
<1>8. Takers(t, "GROUPING_OPEN") = {n \in ToSet(up) : Takes(t, n, "GROUPING_OPEN")}
  BY <1>1 DEF Takers
<1>9. QED
  BY <1>7, <1>8

\* Before a token that is not the first, last is the token before it.
LEMMA LastIs ==
  ASSUME TreeInv, NEW k \in Kinds, Read(k), tree.root # NULL
  PROVE  /\ tokens # <<>> /\ Len(tokens) \in Nat \ {0} /\ tree.last = Len(tokens)
         /\ tree.last \in NodesOf(tree) /\ Kind(tree, tree.last) = Final(tokens)
         /\ Final(tokens) = tokens[Len(tokens)] /\ Final(tokens) \in Kinds
         /\ Args(tree, tree.last) \in Seq(Nat)
<1>1. tokens \in Seq(Kinds) /\ tokens # <<>> /\ Pushed = tokens
  BY ReadIs DEF TreeInv
<1>2. Numbered(tree, tokens) /\ Linked(tree) /\ tree.last = Len(tokens)
  BY TreeIs
<1>3. Len(tokens) \in Nat \ {0} /\ Len(tokens) \in 1 .. Len(tokens) /\ tokens[Len(tokens)] \in Kinds
  BY <1>1
<1>4. Kind(tree, tree.last) = tokens[Len(tokens)] /\ tree.last \in NodesOf(tree)
  BY <1>2, <1>3 DEF Numbered
<1>5. Args(tree, tree.last) \in Seq(Nat)
  BY <1>2, <1>4, TypedIs DEF Linked
<1>6. QED
  BY <1>1, <1>2, <1>3, <1>4, <1>5 DEF Final

\* An operation written after its first argument has something to displace.
LEMMA InfixTakesNone ==
  ASSUME TreeInv, Begun(tokens), NEW k \in Kinds, Read(k), tree.root # NULL, k \in Infix
  PROVE  Takers(tree, k) = {}
<1>1. tokens \in Seq(Kinds) /\ Follows(tokens, k)
  BY ReadIs DEF TreeInv
<1>2. ExpectedArgc(Final(tokens)) = 0
  BY <1>1, BeforeInfix
<1>3. Kind(tree, tree.last) = Final(tokens) /\ Len(Args(tree, tree.last)) \in Nat
  BY LastIs
<1>4. ~Takes(tree, tree.last, k)
  BY <1>2, <1>3 DEF Takes, Hungry, Kind, Args
<1>5. ExpectedArgc(k) # 0 /\ k # "GROUPING_OPEN"
  BY DEF ExpectedArgc, Infix, Binaries, Unaries, Closers, Operands, Braces
<1>6. Takers(tree, k) = {n \in {tree.last} : Takes(tree, n, k)}
  BY <1>5 DEF Takers
<1>7. QED
  BY <1>4, <1>6

\* Of the arguments of last only the one it displaced is there.
Fresh(t) == Len(Args(t, t.last)) = IF Kind(t, t.last) \in Infix THEN 1 ELSE 0

\* A function's name is below it.
NameBelow(t, s) ==
  Len(s) >= 2 /\ s[Len(s) - 1] = "FUNCTION"
    => Parent(t, t.last) = Len(s) - 1 /\ Len(Args(t, Len(s) - 1)) = 1

\* What still expects all that is written after it.
LEMMA HungryKinds ==
  \A q \in Expecting \cup {"CALL", "TYPEAS", "ATTRIBUTE", "EXTERNAL", "FUNCTION"} :
    /\ ExpectedArgc(q) > IF q \in Infix THEN 1 ELSE 0
    /\ Precedence(q) \in Nat
    /\ q \notin Openers \cup {"CALL", "ATTRIBUTE"} => Precedence(q) >= 2
<1>1. /\ ExpectedArgc("RETURN") = 1 /\ ExpectedArgc("IF") = 2 /\ ExpectedArgc("ELIF") = 3
      /\ ExpectedArgc("FUNCTION") = 3 /\ ExpectedArgc("EXTERNAL") = 2
      /\ \A q \in Binaries : ExpectedArgc(q) = 2
      /\ \A q \in {"RETURN", "IF", "FUNCTION", "EXTERNAL"} : q \notin Infix
  BY DEF ExpectedArgc, Infix, Binaries, Unaries, Openers, Closers, Operands, Braces, Words
<1>2. /\ Precedence("RETURN") = 18 /\ Precedence("IF") = 18 /\ Precedence("ELIF") = 18
      /\ Precedence("FUNCTION") = 18 /\ Precedence("EXTERNAL") = 19
      /\ Precedence("MUL") = 3 /\ Precedence("ADD") = 4 /\ Precedence("TEST_EQUALS") = 7
      /\ Precedence("TYPEAS") = 13 /\ Precedence("EQUALS") = 14 /\ Precedence("COMMA") = 15
  BY DEF Precedence, Openers, Closers, Operands, Braces, Words
<1>3. \A q \in Openers \cup {"CALL", "ATTRIBUTE"} :
        ExpectedArgc(q) > (IF q \in Infix THEN 1 ELSE 0) /\ Precedence(q) \in Nat
  BY DEF ExpectedArgc, Infix, Precedence, Binaries, Unaries, Openers, Closers, Operands, Braces, Words
<1>4. ExpectedArgc("ADDRESS") = 1 /\ "ADDRESS" \notin Infix /\ Precedence("ADDRESS") = 2
  BY DEF ExpectedArgc, Infix, Precedence, Binaries, Unaries, Openers, Closers, Operands, Braces, Words
<1>5. \A q \in Binaries : Precedence(q) \in Nat /\ Precedence(q) >= 2
  BY <1>2 DEF Binaries
<1>6. "TYPEAS" \in Binaries
  BY DEF Binaries
<1>7. QED
  BY <1>1, <1>2, <1>3, <1>4, <1>5, <1>6 DEF Expecting

\* An operation written before its arguments finds one that takes it.
LEMMA PrefixTakesSome ==
  ASSUME TreeInv, Begun(tokens), Fresh(tree), NameBelow(tree, tokens),
         NEW k \in Kinds, Read(k), tree.root # NULL, k \notin Infix, ExpectedArgc(k) > 0,
         ~PrefixInBrackets'
  PROVE  Takers(tree, k) # {}
<1>1. tokens \in Seq(Kinds) /\ Follows(tokens, k)
  BY ReadIs DEF TreeInv
<1>2. /\ tokens # <<>> /\ Len(tokens) \in Nat \ {0} /\ tree.last = Len(tokens)
      /\ Kind(tree, tree.last) = Final(tokens) /\ Final(tokens) = tokens[Len(tokens)]
  BY LastIs
<1>3. PICK A : Above(tree, A)
  BY TreeIs
<1>4. Linked(tree) /\ Numbered(tree, tokens)
  BY TreeIs
<1>5. Takes(tree, tree.last, k) => Takers(tree, k) # {}
  BY <1>3, <1>4, LastTakes
<1>6. Len(Args(tree, tree.last)) = IF Final(tokens) \in Infix THEN 1 ELSE 0
  BY <1>2 DEF Fresh
<1>7. Final(tokens) \in Expecting \cup {"CALL", "TYPEAS", "ATTRIBUTE", "EXTERNAL", "FUNCTION"}
        => Hungry(tree, tree.last)
  BY <1>2, <1>6, HungryKinds DEF Hungry, Kind, Args
<1>8. CASE k = "FUNCTION" /\ Final(tokens) = "EXTERNAL"
  <2>1. Precedence("FUNCTION") = 18 /\ Precedence("EXTERNAL") = 19
    BY DEF Precedence, Openers, Closers, Operands, Braces, Words
  <2>2. Precedence(k) <= Precedence(Final(tokens))
    BY <1>8, <2>1
  <2>3. QED
    BY <1>2, <1>5, <1>7, <1>8, <2>2 DEF Takes, Kind
<1>9. CASE k \in Unaries /\ Final(tokens) \in Expecting
  <2>1. Final(tokens) \notin Openers
    <3>1. SUFFICES ASSUME tokens[Len(tokens)] \in Openers PROVE FALSE
      BY <1>2
    <3>2. PICK e : e = Len(tokens')
      OBVIOUS
    <3>3. e = Len(tokens) + 1 /\ tokens'[e] = k /\ \A i \in 1 .. Len(tokens) : tokens'[i] = tokens[i]
      BY <3>2, ReadIs
    <3>4. PICK i \in 1 .. e - 1 : i = Len(tokens) /\ i + 1 = e /\ tokens'[i] = tokens[i]
      BY <1>2, <3>3
    <3>5. tokens'[i] \in Openers /\ tokens'[i + 1] \in Unaries
      BY <1>9, <3>1, <3>3, <3>4
    <3>6. QED
      BY <3>2, <3>5 DEF PrefixInBrackets
  <2>2. Precedence(k) <= 2 /\ Precedence(k) \in Nat
    <3>1. Precedence("ADDRESS") = 2 /\ Precedence("CALL") = 1
      BY DEF Precedence, Openers, Closers, Operands, Braces, Words
    <3>2. QED
      BY <1>9, <3>1 DEF Unaries
  <2>3. Final(tokens) \notin {"CALL", "ATTRIBUTE"}
    BY <1>9 DEF Expecting, Openers, Binaries
  <2>4. Precedence(Final(tokens)) >= 2 /\ Precedence(Final(tokens)) \in Nat
    BY <1>9, <2>1, <2>3, HungryKinds
  <2>5. Precedence(k) <= Precedence(Final(tokens))
    BY <2>2, <2>4
  <2>6. QED
    BY <1>2, <1>5, <1>7, <1>9, <2>5 DEF Takes, Kind
<1>10. CASE k \in {"ATTRIBUTE", "GROUPING_OPEN"}
            /\ Final(tokens) \in Expecting \cup {"CALL", "TYPEAS", "ATTRIBUTE"}
  <2>1. Precedence(k) = 0
    BY <1>10 DEF Precedence, Unaries, Openers, Closers, Operands, Braces, Words
  <2>2. Precedence(Final(tokens)) \in Nat
    BY <1>10, HungryKinds
  <2>3. Precedence(k) <= Precedence(Final(tokens))
    BY <2>1, <2>2
  <2>4. QED
    BY <1>2, <1>5, <1>7, <1>10, <2>3 DEF Takes, Kind
<1>11. CASE k = "GROUPING_OPEN" /\ Len(tokens) >= 2 /\ tokens[Len(tokens) - 1] = "FUNCTION"
  <2>1. PICK q : q = Len(tokens) - 1
    OBVIOUS
  <2>2. Parent(tree, tree.last) = q /\ Len(Args(tree, q)) = 1
    BY <1>11, <2>1 DEF NameBelow
  <2>3. q \in 1 .. Len(tokens)
    BY <1>2, <1>11, <2>1
  <2>4. Kind(tree, q) = "FUNCTION"
    BY <1>4, <1>11, <2>1, <2>3 DEF Numbered
  <2>5. ExpectedArgc("FUNCTION") = 3 /\ Precedence("FUNCTION") = 18 /\ Precedence("GROUPING_OPEN") = 0
    BY DEF ExpectedArgc, Precedence, Binaries, Unaries, Openers, Closers, Operands, Braces, Words
  <2>6. Takes(tree, q, "GROUPING_OPEN")
    <3>1. Precedence("GROUPING_OPEN") <= Precedence(Kind(tree, q)) /\ Len(Args(tree, q)) < ExpectedArgc(Kind(tree, q))
      BY <2>2, <2>4, <2>5
    <3>2. QED
      BY <3>1 DEF Takes, Hungry, Kind, Args
  <2>7. q # NULL
    BY <2>3 DEF NULL
  <2>8. QED
    BY <1>3, <1>4, <1>11, <2>2, <2>6, <2>7, ParentTakes
<1>12. QED
  <2>1. \/ k = "FUNCTION" /\ Final(tokens) = "EXTERNAL"
        \/ k \in Unaries /\ Final(tokens) \in Expecting
        \/ k = "ATTRIBUTE" /\ Final(tokens) \in {"TYPEAS", "ATTRIBUTE"}
        \/ k = "GROUPING_OPEN" /\ Final(tokens) \in Expecting \cup {"CALL"}
        \/ k = "GROUPING_OPEN" /\ Len(tokens) >= 2 /\ tokens[Len(tokens) - 1] = "FUNCTION"
    BY <1>1, <1>2, BeforePrefix
  <2>2. QED
    BY <1>8, <1>9, <1>10, <1>11, <2>1


\* The tokens pushed are read in their order.
InOrderUpTo(t, m) == \E A, lo, hi : Above(t, A) /\ Ordered(t, A, m, lo, hi)

\* The inductive invariant of TokensInOrder.
OrderInv ==
  /\ TreeInv /\ Begun(tokens)
  /\ Pushed # <<>> /\ ~PrefixInBrackets
       => Fresh(tree) /\ NameBelow(tree, Pushed) /\ InOrderUpTo(tree, Len(Pushed))

LEMMA OrderInvInit == Init => OrderInv
<1> SUFFICES ASSUME Init PROVE OrderInv
  OBVIOUS
<1>1. tokens = <<>> /\ refused = FALSE
  BY DEF Init
<1>2. Pushed = <<>>
  BY <1>1 DEF Pushed
<1>3. Begun(tokens)
  <2>1. Final(<<>>) = "START" /\ ~Header(<<>>) /\ ~Declares(<<>>)
    BY DEF Final, Header, Declares, Starts
  <2>2. QED
    BY <1>1, <2>1 DEF Begun
<1>4. QED
  BY <1>2, <1>3, TreeInvInit DEF OrderInv

\* What a token finds when it is read.
LEMMA OrderIs ==
  ASSUME OrderInv, NEW k \in Kinds, Read(k)
  PROVE  /\ TreeInv /\ Begun(tokens) /\ Begun(tokens')
         /\ tree.root # NULL /\ ~PrefixInBrackets'
              => Fresh(tree) /\ NameBelow(tree, tokens) /\ InOrderUpTo(tree, Len(tokens))
<1>1. TreeInv /\ Begun(tokens) /\ tokens \in Seq(Kinds)
  BY DEF OrderInv, TreeInv
<1>2. /\ Pushed = tokens /\ tokens' = Append(tokens, k) /\ Follows(tokens, k)
      /\ Len(tokens) \in Nat /\ Len(tokens') = Len(tokens) + 1
      /\ \A i \in 1 .. Len(tokens) : tokens'[i] = tokens[i]
      /\ tree.root = NULL <=> tokens = <<>>
  BY <1>1, ReadIs
<1>3. Begun(tokens')
  BY <1>1, <1>2, BegunGoesOn
<1>4. PrefixInBrackets => PrefixInBrackets'
  <2>1. SUFFICES ASSUME PrefixInBrackets PROVE PrefixInBrackets'
    OBVIOUS
  <2>2. PICK i \in 1 .. Len(tokens) - 1 : tokens[i] \in Openers /\ tokens[i + 1] \in Unaries
    BY <2>1 DEF PrefixInBrackets
  <2>3. i \in 1 .. Len(tokens) /\ i + 1 \in 1 .. Len(tokens) /\ i \in 1 .. Len(tokens') - 1
    BY <1>2
  <2>4. QED
    BY <1>2, <2>2, <2>3 DEF PrefixInBrackets
<1>5. QED
  BY <1>1, <1>2, <1>3, <1>4 DEF OrderInv

LEMMA PlantOrders ==
  ASSUME OrderInv, NEW k \in Kinds, Plant(k)
  PROVE  Fresh(tree') /\ NameBelow(tree', tokens') /\ InOrderUpTo(tree', Len(tokens'))
<1>1. /\ Read(k) /\ tree.root = NULL /\ tree' = Inserted(tree, NULL, Len(tokens'), k)
      /\ TreeInv /\ Begun(tokens) /\ tokens \in Seq(Kinds)
  BY DEF Plant, OrderInv, TreeInv
<1>2. Follows(tokens, k) /\ tokens = <<>> /\ Len(tokens') = Len(tokens) + 1 /\ Pushed = tokens
  BY <1>1, ReadIs
<1>3. Len(tokens') = 1
  <2>1. Len(<<>>) = 0
    OBVIOUS
  <2>2. QED
    BY <1>2, <2>1
<1>4. k \notin Infix /\ k # "CSV"
  BY <1>1, <1>2, BeforeInfix, NeverCsv
<1>5. NodesOf(tree) = {} /\ Typed(tree)
  <2>1. tree = Empty
    BY <1>1, <1>2 DEF TreeInv
  <2>2. tree.nodes = <<>>
    BY <2>1 DEF Empty
  <2>3. <<>> \in [{} -> [kind : Kinds, args : Seq(Nat), parent : Nat]] /\ DOMAIN <<>> = {}
    OBVIOUS
  <2>4. QED
    BY <2>2, <2>3 DEF NodesOf, Typed
<1>6. tree' = Inserted(tree, NULL, 1, k) /\ NULL \in Nat /\ NULL = 0
  BY <1>1, <1>3 DEF NULL
<1>7. /\ tree'.root = 1 /\ tree'.last = 1 /\ NodesOf(tree') = {1}
      /\ Kind(tree', 1) = k /\ Args(tree', 1) = <<>>
  BY <1>5, <1>6, InsertedIs
<1>8. Above(tree', [m \in {1} |-> {1}])
  <2>1. 1 \in Nat \ {0}
    OBVIOUS
  <2>2. QED
    BY <1>5, <1>6, <2>1, PlantedIsTree
<1>9. Len(<<>>) = 0
  OBVIOUS
<1> DEFINE A == [m \in {1} |-> {1}]
           f == [m \in {1} |-> 1]
<1>10. f[1] = 1 /\ f \in [{1} -> Nat \ {0}] /\ f \in [{1} -> Nat] /\ A[1] = {1}
  OBVIOUS
<1> HIDE DEF A, f
<1>11. LaidOut(tree', f, f, 1)
  BY <1>4, <1>7, <1>9, <1>10 DEF LaidOut, Before
<1>12. Ordered(tree', A, 1, f, f)
  BY <1>4, <1>7, <1>10, <1>11 DEF Ordered, Laid
<1>13. InOrderUpTo(tree', Len(tokens'))
  BY <1>3, <1>8, <1>12 DEF InOrderUpTo, A
<1>14. Fresh(tree')
  BY <1>4, <1>7, <1>9 DEF Fresh
<1>15. QED
  BY <1>3, <1>13, <1>14 DEF NameBelow

LEMMA DisplaceOrders ==
  ASSUME OrderInv, NEW k \in Kinds, Displace(k), ~PrefixInBrackets'
  PROVE  Fresh(tree') /\ NameBelow(tree', tokens') /\ InOrderUpTo(tree', Len(tokens'))
<1>1. /\ Read(k) /\ tree.root # NULL /\ Takers(tree, k) = {} /\ ExpectedArgc(k) > 0
      /\ tree' = Adopted(tree, Displaced(tree, k), Len(tokens'), k)
  BY DEF Displace
<1>2. /\ TreeInv /\ Begun(tokens) /\ Fresh(tree) /\ NameBelow(tree, tokens)
      /\ InOrderUpTo(tree, Len(tokens)) /\ tokens \in Seq(Kinds)
  BY <1>1, OrderIs DEF TreeInv
<1>3. k \in Infix
  BY <1>1, <1>2, PrefixTakesSome
<1>4. PICK n : n = Len(tokens')
  OBVIOUS
<1>5. /\ n = Len(tokens) + 1 /\ n \in Nat \ {0} /\ n \notin NodesOf(tree) /\ k # "CSV" /\ Len(tokens) \in Nat
      /\ tokens'[n] = k /\ \A i \in 1 .. Len(tokens) : tokens'[i] = tokens[i]
      /\ Follows(tokens, k)
  <2>1. /\ Follows(tokens, k) /\ Len(tokens) \in Nat /\ Len(tokens') = Len(tokens) + 1
        /\ tokens'[Len(tokens')] = k /\ \A i \in 1 .. Len(tokens) : tokens'[i] = tokens[i]
        /\ Len(tokens') \notin NodesOf(tree)
    BY <1>1, <1>2, ReadIs
  <2>2. QED
    BY <1>4, <2>1, NeverCsv
<1>6. Linked(tree) /\ tokens # <<>>
  BY <1>1, <1>2, TreeIs, LastIs
<1>7. PICK A, lo, hi : Above(tree, A) /\ Ordered(tree, A, Len(tokens), lo, hi)
  BY <1>2 DEF InOrderUpTo
<1>8. PICK c \in NodesOf(tree) : c = Displaced(tree, k) /\ c \in A[tree.last] /\ c \in Nat
  BY <1>6, <1>7, DisplacedIs DEF Linked
<1>9. tree' = Adopted(tree, c, n, k)
  BY <1>1, <1>4, <1>8
<1>10. Above(tree', AdoptedAbove(A, c, n))
  BY <1>1, <1>5, <1>6, <1>7, <1>8, <1>9, AdoptedIsTree
<1>11. \E lo2, hi2 : Ordered(tree', AdoptedAbove(A, c, n), n, lo2, hi2)
  BY <1>3, <1>5, <1>6, <1>7, <1>8, <1>9, AdoptedIsOrdered
<1>12. InOrderUpTo(tree', n)
  BY <1>10, <1>11 DEF InOrderUpTo
<1>13. tree'.last = n /\ Kind(tree', n) = k /\ Args(tree', n) = <<c>>
  <2>1. Typed(tree) /\ n \in Nat
    BY <1>5, <1>6 DEF Linked
  <2>2. QED
    BY <1>5, <1>8, <1>9, <2>1, AdoptedIs
<1>14. Fresh(tree')
  <2>1. Len(<<c>>) = 1
    OBVIOUS
  <2>2. QED
    BY <1>3, <1>13, <2>1 DEF Fresh
<1>15. NameBelow(tree', tokens')
  <2>1. SUFFICES ASSUME n >= 2, tokens'[n - 1] = "FUNCTION" PROVE FALSE
    BY <1>4 DEF NameBelow
  <2>2. Final(tokens) = "FUNCTION"
    <3>1. n - 1 = Len(tokens) /\ n - 1 \in 1 .. Len(tokens)
      BY <1>5, <2>1
    <3>2. QED
      BY <1>5, <1>6, <2>1, <3>1 DEF Final
  <2>3. k \in {"NAME", "EVAL"}
    BY <1>2, <1>5, <2>2, AfterFunction
  <2>4. QED
    BY <1>3, <2>3 DEF Infix, Binaries
<1>16. QED
  BY <1>4, <1>12, <1>14, <1>15

LEMMA PlaceOrders ==
  ASSUME OrderInv, NEW k \in Kinds, Place(k), ~PrefixInBrackets'
  PROVE  Fresh(tree') /\ NameBelow(tree', tokens') /\ InOrderUpTo(tree', Len(tokens'))
<1>1. Read(k) /\ tree.root # NULL /\ Takers(tree, k) # {} /\ refused' = refused
  BY DEF Place
<1>2. /\ TreeInv /\ Begun(tokens) /\ Fresh(tree) /\ NameBelow(tree, tokens)
      /\ InOrderUpTo(tree, Len(tokens)) /\ tokens \in Seq(Kinds)
  BY <1>1, OrderIs DEF TreeInv
<1>3. k \notin Infix
  BY <1>1, <1>2, InfixTakesNone
<1>4. PICK n : n = Len(tokens')
  OBVIOUS
<1>5. /\ n = Len(tokens) + 1 /\ n \in Nat \ {0} /\ n \notin NodesOf(tree) /\ k # "CSV" /\ Len(tokens) \in Nat
      /\ CsvAt(n) \in Nat \ {0} /\ CsvAt(n) # n /\ CsvAt(n) \notin NodesOf(tree)
      /\ tokens'[n] = k /\ \A i \in 1 .. Len(tokens) : tokens'[i] = tokens[i]
      /\ Follows(tokens, k)
  <2>1. /\ Follows(tokens, k) /\ Len(tokens) \in Nat /\ Len(tokens') = Len(tokens) + 1
        /\ tokens'[Len(tokens')] = k /\ \A i \in 1 .. Len(tokens) : tokens'[i] = tokens[i]
    BY <1>1, <1>2, ReadIs
  <2>2. /\ Len(tokens') \notin NodesOf(tree)
        /\ CsvAt(Len(tokens')) \notin NodesOf(tree)
        /\ CsvAt(Len(tokens')) \in Nat \ {0} /\ CsvAt(Len(tokens')) > Len(tokens')
    BY <1>1, <1>2, ReadIs
  <2>3. k # "CSV" /\ CsvAt(n) # n
    BY <1>4, <2>1, <2>2, NeverCsv
  <2>4. QED
    BY <1>4, <2>1, <2>2, <2>3
<1>6. Linked(tree) /\ Typed(tree) /\ tokens # <<>> /\ Kind(tree, tree.last) = Final(tokens) /\ tree.last = Len(tokens)
  BY <1>1, <1>2, TreeIs, LastIs DEF Linked
<1>7. PICK A, lo, hi : Above(tree, A) /\ Ordered(tree, A, Len(tokens), lo, hi)
  BY <1>2 DEF InOrderUpTo
<1>8. PICK p : p = Nearest(tree, Takers(tree, k))
  OBVIOUS
<1>9. /\ p \in NodesOf(tree) /\ p \in Nat /\ p # NULL /\ p \in A[tree.last]
      /\ Len(Args(tree, p)) < ExpectedArgc(Kind(tree, p))
  BY <1>1, <1>6, <1>7, <1>8, TakersAre DEF Linked, NULL
<1>10. ASSUME tree'.last = n, Kind(tree', n) = k, Args(tree', n) = <<>>
       PROVE  Fresh(tree')
  <2>1. Len(<<>>) = 0
    OBVIOUS
  <2>2. QED
    BY <1>3, <1>10, <2>1 DEF Fresh
<1>11. CASE k = "GROUPING_CLOSE" /\ p = tree.last /\ Args(tree, p) = <<>>
  <2>0. PICK e \in Nat \ {0} : e = CsvAt(n)
    BY <1>5
  <2>1. PICK u : u = Inserted(tree, p, e, "CSV")
    OBVIOUS
  <2>2. tree' = Inserted(u, p, n, k)
    BY <1>1, <1>4, <1>8, <1>11, <2>0, <2>1 DEF Place, Args
  <2>3. "CSV" \in Kinds /\ "CSV" \notin Infix
    BY DEF Kinds, Infix, Binaries
  <2>4. PICK B : B = InsertedAbove(A, p, e)
    OBVIOUS
  <2>5. Linked(u) /\ Above(u, B)
    BY <1>5, <1>6, <1>7, <1>9, <2>0, <2>1, <2>3, <2>4, InsertedIsTree
  <2>6. PICK lo2, hi2 : Ordered(u, B, Len(tokens), lo2, hi2)
    <3>1. e \notin NodesOf(tree)
      BY <1>5, <2>0
    <3>2. \E lo2, hi2 : Ordered(Inserted(tree, p, e, "CSV"), InsertedAbove(A, p, e), Len(tokens), lo2, hi2)
      BY <1>5, <1>6, <1>7, <1>9, <2>3, <3>1, InsertedIsOrdered
    <3>3. QED
      BY <2>1, <2>4, <3>2
  <2>7. /\ NodesOf(u) = NodesOf(tree) \cup {e} /\ Typed(u) /\ u.last = e
        /\ \A m \in NodesOf(tree) :
             /\ Kind(u, m) = Kind(tree, m)
             /\ Args(u, m) = IF m = p THEN Append(Args(tree, m), e) ELSE Args(tree, m)
    <3>1. e \in Nat /\ e \notin NodesOf(tree) /\ p \in Nat /\ Typed(tree)
      BY <1>5, <1>6, <1>9, <2>0
    <3>2. QED
      BY <2>1, <2>3, <3>1, InsertedIs
  <2>8. Kind(tree, p) = "GROUPING_OPEN"
    BY <1>1, <1>2, <1>9, <1>11, EmptyPairIs
  <2>9. Len(Args(u, p)) < ExpectedArgc(Kind(u, p))
    <3>1. ExpectedArgc("GROUPING_OPEN") = 2
      BY DEF ExpectedArgc, Binaries, Unaries, Closers, Operands, Braces
    <3>2. Len(Append(<<>>, e)) = 1
      OBVIOUS
    <3>3. Args(u, p) = Append(<<>>, e)
      BY <1>9, <1>11, <2>7
    <3>4. QED
      BY <1>9, <2>7, <2>8, <3>1, <3>2, <3>3
  <2>10. p \in NodesOf(u) /\ n \notin NodesOf(u) /\ p \in B[u.last]
    <3>1. B[e] = A[p] \cup {e} /\ p \in A[p]
      BY <1>7, <1>9, <2>0, <2>4 DEF InsertedAbove, Above
    <3>2. QED
      BY <1>5, <1>9, <2>0, <2>7, <3>1
  <2>11. Above(tree', InsertedAbove(B, p, n))
    BY <1>5, <2>2, <2>5, <2>9, <2>10, InsertedIsTree
  <2>12. \E lo3, hi3 : Ordered(Inserted(u, p, n, k), InsertedAbove(B, p, n), n, lo3, hi3)
    <3>1. n \in Nat /\ (IF k = "CSV" THEN n = Len(tokens) ELSE n = Len(tokens) + 1 /\ n = Len(tokens) + 1)
      BY <1>5
    <3>2. QED
      BY <1>3, <1>5, <2>5, <2>6, <2>9, <2>10, <3>1, InsertedIsOrdered
  <2>13. InOrderUpTo(tree', n)
    BY <2>2, <2>11, <2>12 DEF InOrderUpTo
  <2>14. tree'.last = n /\ Kind(tree', n) = k /\ Args(tree', n) = <<>>
    BY <1>5, <1>9, <2>2, <2>7, <2>10, InsertedIs
  <2>15. NameBelow(tree', tokens')
    <3>1. SUFFICES ASSUME n >= 2, tokens'[n - 1] = "FUNCTION" PROVE FALSE
      BY <1>4 DEF NameBelow
    <3>2. Final(tokens) = "FUNCTION"
      <4>1. n - 1 = Len(tokens) /\ n - 1 \in 1 .. Len(tokens)
        BY <1>5, <3>1
      <4>2. QED
        BY <1>5, <1>6, <3>1, <4>1 DEF Final
    <3>3. QED
      BY <1>6, <1>11, <2>8, <3>2
  <2>16. QED
    BY <1>4, <1>10, <2>13, <2>14, <2>15
<1>12. CASE ~(k = "GROUPING_CLOSE" /\ p = tree.last /\ Args(tree, p) = <<>>)
  <2>1. tree' = Inserted(tree, p, n, k)
    BY <1>1, <1>4, <1>8, <1>12 DEF Place, Args
  <2>2. Above(tree', InsertedAbove(A, p, n))
    BY <1>5, <1>6, <1>7, <1>9, <2>1, InsertedIsTree
  <2>3. \E lo3, hi3 : Ordered(Inserted(tree, p, n, k), InsertedAbove(A, p, n), n, lo3, hi3)
    <3>1. n \in Nat /\ (IF k = "CSV" THEN n = Len(tokens) ELSE n = Len(tokens) + 1 /\ n = Len(tokens) + 1)
      BY <1>5
    <3>2. QED
      BY <1>3, <1>5, <1>6, <1>7, <1>9, <3>1, InsertedIsOrdered
  <2>4. InOrderUpTo(tree', n)
    BY <2>1, <2>2, <2>3 DEF InOrderUpTo
  <2>5. /\ tree'.last = n /\ Kind(tree', n) = k /\ Args(tree', n) = <<>> /\ Parent(tree', n) = p
        /\ Args(tree', p) = Append(Args(tree, p), n)
    <3>1. n \in Nat /\ n \notin NodesOf(tree) /\ p \in Nat /\ Typed(tree)
      BY <1>5, <1>6, <1>9
    <3>2. QED
      BY <1>9, <2>1, <3>1, InsertedIs
  <2>6. NameBelow(tree', tokens')
    <3>1. SUFFICES ASSUME n >= 2, tokens'[n - 1] = "FUNCTION"
                   PROVE  Parent(tree', n) = n - 1 /\ Len(Args(tree', n - 1)) = 1
      BY <1>4, <2>5 DEF NameBelow
    <3>2. n - 1 = Len(tokens) /\ Final(tokens) = "FUNCTION"
      <4>1. n - 1 = Len(tokens) /\ n - 1 \in 1 .. Len(tokens)
        BY <1>5, <3>1
      <4>2. QED
        BY <1>5, <1>6, <3>1, <4>1 DEF Final
    <3>3. k \in {"NAME", "EVAL"}
      BY <1>2, <1>5, <3>2, AfterFunction
    <3>4. Len(Args(tree, tree.last)) = 0
      BY <1>2, <1>6, <3>2 DEF Fresh, Infix, Binaries
    <3>5. Takes(tree, tree.last, k)
      <4>1. ExpectedArgc("FUNCTION") = 3 /\ Precedence("FUNCTION") = 18 /\ Precedence("NAME") = 0 /\ Precedence("EVAL") = 0
        BY DEF ExpectedArgc, Precedence, Binaries, Unaries, Openers, Closers, Operands, Braces, Words
      <4>2. /\ Precedence(k) <= Precedence(Kind(tree, tree.last))
            /\ Len(Args(tree, tree.last)) < ExpectedArgc(Kind(tree, tree.last))
        BY <1>6, <3>2, <3>3, <3>4, <4>1
      <4>3. QED
        BY <4>2 DEF Takes, Hungry, Kind, Args
    <3>6. p = tree.last
      BY <1>6, <1>7, <1>8, <3>5, LastTakes
    <3>7. Args(tree, tree.last) \in Seq(Nat)
      BY <1>1, <1>2, LastIs
    <3>8. Len(Append(Args(tree, tree.last), n)) = 1
      <4>1. ASSUME NEW s \in Seq(Nat), Len(s) = 0 PROVE Len(Append(s, n)) = 1
        BY <4>1
      <4>2. QED
        BY <3>4, <3>7, <4>1
    <3>9. QED
      BY <1>6, <2>5, <3>2, <3>6, <3>8
  <2>7. QED
    BY <1>4, <1>10, <2>4, <2>5, <2>6
<1>13. QED
  BY <1>11, <1>12

LEMMA OrderInvNext == OrderInv /\ [Next]_vars => OrderInv'
<1> SUFFICES ASSUME OrderInv, [Next]_vars PROVE OrderInv'
  OBVIOUS
<1>1. TreeInv'
  BY TreeInvNext DEF OrderInv
<1>2. CASE UNCHANGED vars
  <2>1. tokens' = tokens /\ tree' = tree /\ refused' = refused
    BY <1>2 DEF vars
  <2>2. Pushed' = Pushed /\ (PrefixInBrackets' <=> PrefixInBrackets)
    BY <2>1 DEF Pushed, PrefixInBrackets
  <2>3. QED
    BY <1>1, <2>1, <2>2 DEF OrderInv
<1>3. CASE Next
  <2>1. PICK k \in Kinds : Plant(k) \/ Place(k) \/ Displace(k) \/ Refuse(k)
    BY <1>3 DEF Next
  <2>2. Read(k) /\ TreeInv
    BY <2>1 DEF Plant, Place, Displace, Refuse, OrderInv
  <2>3. Begun(tokens')
    BY <2>2, OrderIs
  <2>4. /\ refused = FALSE /\ tokens' = Append(tokens, k) /\ Pushed = tokens /\ tokens \in Seq(Kinds)
        /\ tree.root = NULL <=> tokens = <<>>
    BY <2>2, ReadIs DEF TreeInv
  <2>5. CASE Plant(k) \/ Place(k) \/ Displace(k)
    <3>1. refused' = refused
      BY <2>5 DEF Plant, Place, Displace
    <3>2. Pushed' = tokens'
      BY <2>4, <3>1 DEF Pushed
    <3>3. ~PrefixInBrackets' => Fresh(tree') /\ NameBelow(tree', tokens') /\ InOrderUpTo(tree', Len(tokens'))
      BY <2>5, PlantOrders, PlaceOrders, DisplaceOrders
    <3>4. QED
      BY <1>1, <2>3, <3>2, <3>3 DEF OrderInv
  <2>6. CASE Refuse(k)
    <3>1. refused' = TRUE /\ tree' = tree /\ tree.root # NULL
      BY <2>6 DEF Refuse
    <3>2. Pushed' = tokens
      BY <2>4, <3>1, PushedIs DEF Pushed
    <3>3. ~PrefixInBrackets' => Fresh(tree) /\ NameBelow(tree, tokens) /\ InOrderUpTo(tree, Len(tokens))
      BY <2>2, <3>1, OrderIs
    <3>4. QED
      BY <1>1, <2>3, <3>1, <3>2, <3>3 DEF OrderInv
  <2>7. QED
    BY <2>1, <2>5, <2>6
<1>4. QED
  BY <1>2, <1>3

(***************************************************************************)
(* What the tree is read as                                                *)
(***************************************************************************)

\* The positions from a to b.
Run(a, b) == [i \in 1 .. b + 1 - a |-> a + i - 1]

LEMMA RunIs ==
  ASSUME NEW a \in Nat \ {0}, NEW b \in Nat, a <= b + 1
  PROVE  /\ Run(a, b) \in Seq(Nat) /\ Len(Run(a, b)) = b + 1 - a
         /\ \A i \in 1 .. b + 1 - a : Run(a, b)[i] = a + i - 1
<1>1. Run(a, b) \in [1 .. b + 1 - a -> Nat] /\ b + 1 - a \in Nat
  BY DEF Run
<1>2. \A i \in 1 .. b + 1 - a : Run(a, b)[i] = a + i - 1
  BY DEF Run
<1>3. QED
  BY <1>1, <1>2

\* A sequence that counts up is a run.
LEMMA CountsUp ==
  ASSUME NEW a \in Nat \ {0}, NEW b \in Nat, a <= b + 1, NEW s \in Seq(Nat),
         Len(s) = b + 1 - a, \A i \in 1 .. Len(s) : s[i] = a + i - 1
  PROVE  s = Run(a, b)
<1>1. PICK r \in Seq(Nat) : r = Run(a, b) /\ Len(r) = Len(s) /\ \A i \in 1 .. Len(s) : r[i] = a + i - 1
  BY RunIs
<1>2. \A i \in 1 .. Len(s) : s[i] = r[i]
  BY <1>1
<1>3. IsSeq(s) /\ IsSeq(r)
  BY <1>1, SeqParts
<1>4. s = r
  BY <1>1, <1>2, <1>3, SameSeq
<1>5. QED
  BY <1>1, <1>4

LEMMA RunsJoin ==
  ASSUME NEW a \in Nat \ {0}, NEW b \in Nat, NEW c \in Nat, a <= b + 1, b <= c
  PROVE  Run(a, b) \o Run(b + 1, c) = Run(a, c)
<1>1. PICK r \in Seq(Nat) : r = Run(a, b) /\ Len(r) = b + 1 - a /\ \A i \in 1 .. b + 1 - a : r[i] = a + i - 1
  BY RunIs
<1>2. PICK q \in Seq(Nat) : /\ q = Run(b + 1, c) /\ Len(q) = c + 1 - (b + 1)
                            /\ \A i \in 1 .. c + 1 - (b + 1) : q[i] = b + 1 + i - 1
  <2>1. b + 1 \in Nat \ {0} /\ b + 1 <= c + 1
    OBVIOUS
  <2>2. QED
    BY <2>1, RunIs
<1>3. /\ r \o q \in Seq(Nat) /\ Len(r \o q) = Len(r) + Len(q)
      /\ \A i \in 1 .. Len(r \o q) : (r \o q)[i] = IF i <= Len(r) THEN r[i] ELSE q[i - Len(r)]
  OBVIOUS
<1>4. Len(r \o q) = c + 1 - a /\ a <= c + 1
  BY <1>1, <1>2, <1>3
<1>5. ASSUME NEW i \in 1 .. Len(r \o q) PROVE (r \o q)[i] = a + i - 1
  <2>1. CASE i <= Len(r)
    BY <1>1, <1>3, <2>1
  <2>2. CASE ~(i <= Len(r))
    <3>1. i - Len(r) \in 1 .. c + 1 - (b + 1)
      BY <1>1, <1>4, <2>2
    <3>2. q[i - Len(r)] = b + 1 + (i - Len(r)) - 1
      BY <1>2, <3>1
    <3>3. QED
      BY <1>1, <1>3, <2>2, <3>2
  <2>3. QED
    BY <2>1, <2>2
<1>6. r \o q = Run(a, c)
  BY <1>3, <1>4, <1>5, CountsUp
<1>7. QED
  BY <1>1, <1>2, <1>6

\* Runs that follow one another make one run; e[i] is where run i ends.
LEMMA RunsFlatten ==
  ASSUME NEW k \in Nat, NEW e \in [0 .. k -> Nat], NEW f \in [1 .. k -> Seq(Nat)],
         \A i \in 1 .. k : e[i - 1] <= e[i] /\ f[i] = Run(e[i - 1] + 1, e[i])
  PROVE  FlattenSeq(f) = Run(e[0] + 1, e[k]) /\ e[0] <= e[k]
<1>1. PICK text \in Seq(Nat) : text = FlattenSeq(f) /\ \E b : Concatenates(text, f, k, b)
  BY Flattens
<1>2. PICK b : Concatenates(text, f, k, b)
  BY <1>1
<1>3. /\ b \in [0 .. k -> Nat] /\ b[0] = 0 /\ b[k] = Len(text)
      /\ \A i \in 1 .. k : b[i] = b[i - 1] + Len(f[i])
      /\ \A i \in 1 .. k : \A j \in 1 .. Len(f[i]) : text[b[i - 1] + j] = f[i][j]
  BY <1>2 DEF Concatenates
<1> DEFINE S == {i \in Nat : i <= k => b[i] = e[i] - e[0] /\ \A x \in 1 .. b[i] : text[x] = e[0] + x}
<1>4. 0 \in S
  <2>1. 0 \in 0 .. k
    OBVIOUS
  <2>2. e[0] \in Nat
    BY <2>1
  <2>3. QED
    BY <1>3, <2>2
<1>5. ASSUME NEW i \in S, i \in Nat PROVE i + 1 \in S
  <2>1. SUFFICES ASSUME i + 1 <= k
                 PROVE  b[i + 1] = e[i + 1] - e[0] /\ \A x \in 1 .. b[i + 1] : text[x] = e[0] + x
    BY <1>5
  <2>2. PICK h \in 1 .. k : h = i + 1 /\ h - 1 = i /\ h \in 0 .. k /\ i \in 0 .. k /\ 0 \in 0 .. k
    BY <1>5, <2>1
  <2>3. e[i] \in Nat /\ e[h] \in Nat /\ e[0] \in Nat /\ b[i] \in Nat /\ b[h] \in Nat
    BY <1>3, <2>2
  <2>4. PICK a \in Nat, z \in Nat, o \in Nat, x0 \in Nat : a = e[i] /\ z = e[h] /\ o = e[0] /\ x0 = b[i]
    BY <2>3
  <2>5. a <= z /\ f[h] = Run(a + 1, z) /\ Len(f[h]) = z - a
        /\ \A j \in 1 .. z - a : f[h][j] = a + 1 + j - 1
    <3>1. a <= z /\ f[h] = Run(a + 1, z)
      BY <2>2, <2>4
    <3>2. a + 1 \in Nat \ {0} /\ a + 1 <= z + 1 /\ z + 1 - (a + 1) = z - a
      BY <3>1
    <3>3. /\ Len(Run(a + 1, z)) = z + 1 - (a + 1)
          /\ \A j \in 1 .. z + 1 - (a + 1) : Run(a + 1, z)[j] = a + 1 + j - 1
      BY <3>2, RunIs
    <3>4. QED
      BY <3>1, <3>2, <3>3
  <2>6. x0 = a - o /\ \A x \in 1 .. x0 : text[x] = o + x
    BY <1>5, <2>1, <2>4
  <2>7. b[h] = x0 + (z - a) /\ b[h] = z - o
    <3>1. b[h] = b[i] + Len(f[h])
      BY <1>3, <2>2
    <3>2. b[h] = x0 + (z - a)
      BY <2>4, <2>5, <3>1
    <3>3. QED
      BY <2>5, <2>6, <3>2
  <2>8. ASSUME NEW x \in 1 .. x0 + (z - a) PROVE text[x] = o + x
    <3>1. CASE x <= x0
      BY <2>6, <3>1
    <3>2. CASE x > x0
      <4>1. PICK j \in 1 .. z - a : x = x0 + j
        <5>1. x - x0 \in 1 .. z - a /\ x = x0 + (x - x0)
          BY <2>5, <3>2
        <5>2. QED
          BY <5>1
      <4>2. text[x0 + j] = f[h][j]
        BY <1>3, <2>2, <2>4, <2>5
      <4>3. f[h][j] = a + 1 + j - 1
        BY <2>5
      <4>4. QED
        BY <2>6, <4>1, <4>2, <4>3
    <3>3. QED
      BY <2>5, <3>1, <3>2
  <2>9. QED
    BY <2>2, <2>4, <2>7, <2>8
<1> HIDE DEF S
<1>6. k \in S
  BY <1>4, <1>5, SetInduction
<1>7. b[k] = e[k] - e[0] /\ \A x \in 1 .. b[k] : text[x] = e[0] + x
  BY <1>6 DEF S
<1>8. e[0] \in Nat /\ e[k] \in Nat /\ b[k] \in Nat
  <2>1. 0 \in 0 .. k /\ k \in 0 .. k
    OBVIOUS
  <2>2. QED
    BY <1>3, <2>1
<1>9. /\ e[0] + 1 \in Nat \ {0} /\ e[0] + 1 <= e[k] + 1 /\ Len(text) = e[k] + 1 - (e[0] + 1)
      /\ \A x \in 1 .. Len(text) : text[x] = e[0] + 1 + x - 1
  BY <1>3, <1>7, <1>8
<1>10. text = Run(e[0] + 1, e[k])
  BY <1>8, <1>9, CountsUp
<1>11. QED
  BY <1>1, <1>8, <1>9, <1>10


\* Where what a node is read as begins and ends.
LEMMA RangeIs ==
  ASSUME NEW t, NEW lo, NEW hi, NEW n \in Nat \ {0}, lo[n] \in Nat \ {0}, hi[n] \in Nat, Laid(t, lo, hi, n)
  PROVE  lo[n] <= hi[n] + 1
<1>1. CASE Kind(t, n) = "CSV"
  BY <1>1 DEF Laid
<1>2. CASE Kind(t, n) # "CSV"
  BY <1>2 DEF Laid, LaidOut
<1>3. QED
  BY <1>1, <1>2

\* The L arguments a are read as they are laid out.
ArgsRead(parts, lo, hi, a, L) ==
  /\ parts \in [1 .. L -> Seq(Nat)]
  /\ \A i \in 1 .. L : /\ lo[a[i]] \in Nat \ {0} /\ hi[a[i]] \in Nat /\ lo[a[i]] <= hi[a[i]] + 1
                       /\ parts[i] = Run(lo[a[i]], hi[a[i]])

\* Then so is the node.
LEMMA SpelledIs ==
  ASSUME NEW n \in Nat \ {0}, n \in DOMAIN tokens, NEW lo, NEW hi, lo[n] \in Nat \ {0}, hi[n] \in Nat,
         LaidOut(tree, lo, hi, n), NEW L \in Nat, L = Len(Args(tree, n)), NEW a, a = Args(tree, n),
         NEW parts, ArgsRead(parts, lo, hi, a, L)
  PROVE  Spelled(n, parts) = Run(lo[n], hi[n])
<1>0. /\ parts \in [1 .. L -> Seq(Nat)]
      /\ \A i \in 1 .. L : /\ lo[a[i]] \in Nat \ {0} /\ hi[a[i]] \in Nat /\ lo[a[i]] <= hi[a[i]] + 1
                           /\ parts[i] = Run(lo[a[i]], hi[a[i]])
  BY DEF ArgsRead
<1>1. PICK l \in 0 .. 1 : l = IF Kind(tree, n) \in Infix THEN 1 ELSE 0
  OBVIOUS
<1>2. /\ lo[n] <= n /\ n <= hi[n]
      /\ hi[n] = Before(tree, hi, n, L + 1)
      /\ l = 0 => lo[n] = n
      /\ l = 1 => L > 0 /\ lo[n] = lo[a[1]] /\ hi[a[1]] + 1 = n
      /\ \A i \in 1 .. L : ~ (i = 1 /\ l = 1) => lo[a[i]] = Before(tree, hi, n, i) + 1
  BY <1>1 DEF LaidOut
<1>3. \A i \in Nat : Before(tree, hi, n, i) = IF i <= l + 1 /\ i > 0 THEN n ELSE hi[a[i - 1]]
  BY <1>1 DEF Before
<1>4. PICK left : left = SubSeq(parts, 1, l)
  OBVIOUS
<1>5. PICK right : right = SubSeq(parts, l + 1, L)
  OBVIOUS
<1>6. parts \in Seq(Seq(Nat)) /\ Len(parts) = L
  BY <1>0
<1>7. l <= L /\ l \in Nat
  BY <1>1, <1>2
<1>8. left \in [1 .. l -> Seq(Nat)] /\ \A i \in 1 .. l : left[i] = parts[i]
  <2>1. l \in 1 - 1 .. Len(parts) /\ 1 \in 1 .. Len(parts) + 1
    BY <1>6, <1>7
  <2>2. /\ left \in Seq(Seq(Nat)) /\ Len(left) = l - 1 + 1
        /\ \A i \in 1 .. l - 1 + 1 : left[i] = parts[1 + i - 1]
    BY <1>4, <1>6, <2>1, PartOf
  <2>3. QED
    BY <1>7, <2>2
<1>9. right \in [1 .. L - l -> Seq(Nat)] /\ \A i \in 1 .. L - l : right[i] = parts[l + i]
  <2>1. l + 1 \in 1 .. Len(parts) + 1 /\ L \in l + 1 - 1 .. Len(parts)
    BY <1>6, <1>7
  <2>2. /\ right \in Seq(Seq(Nat)) /\ Len(right) = L - (l + 1) + 1
        /\ \A i \in 1 .. L - (l + 1) + 1 : right[i] = parts[l + 1 + i - 1]
    BY <1>5, <1>6, <2>1, PartOf
  <2>3. L - (l + 1) + 1 = L - l /\ \A i \in 1 .. L - l : l + 1 + i - 1 = l + i
    BY <1>7
  <2>4. QED
    BY <2>2, <2>3
<1>10. FlattenSeq(left) = Run(lo[n], n - 1)
  <2> DEFINE e == [i \in 0 .. l |-> IF i = 0 THEN lo[n] - 1 ELSE n - 1]
  <2>1. e \in [0 .. l -> Nat] /\ e[0] = lo[n] - 1 /\ e[l] = n - 1
    BY <1>1, <1>2
  <2>2. ASSUME NEW i \in 1 .. l PROVE e[i - 1] <= e[i] /\ left[i] = Run(e[i - 1] + 1, e[i])
    <3>1. i = 1 /\ l = 1
      BY <1>1
    <3>2. e[i - 1] = lo[n] - 1 /\ e[i] = n - 1 /\ lo[n] - 1 + 1 = lo[n]
      BY <3>1
    <3>3. left[i] = Run(lo[a[1]], hi[a[1]])
      BY <1>0, <1>2, <1>8, <3>1
    <3>4. 1 \in 1 .. L
      BY <1>2, <3>1
    <3>5. hi[a[1]] = n - 1 /\ lo[a[1]] = lo[n]
      <4>1. PICK x \in Nat : x = hi[a[1]]
        BY <1>0, <3>4
      <4>2. x + 1 = n /\ lo[a[1]] = lo[n]
        BY <1>2, <3>1, <4>1
      <4>3. QED
        BY <4>1, <4>2
    <3>6. lo[n] - 1 <= n - 1
      BY <1>2
    <3>7. QED
      BY <3>2, <3>3, <3>5, <3>6
  <2> HIDE DEF e
  <2>3. FlattenSeq(left) = Run(e[0] + 1, e[l])
    BY <1>7, <1>8, <2>1, <2>2, RunsFlatten
  <2>4. lo[n] - 1 + 1 = lo[n]
    OBVIOUS
  <2>5. QED
    BY <2>1, <2>3, <2>4
<1>11. FlattenSeq(right) = Run(n + 1, hi[n])
  <2> DEFINE e == [i \in 0 .. L - l |-> IF i = 0 THEN n ELSE hi[a[l + i]]]
  <2>1. L - l \in Nat
    BY <1>7
  <2>2. \A i \in 1 .. L - l : l + i \in 1 .. L /\ ~ (l + i = 1 /\ l = 1)
    BY <1>7
  <2>3. e[0] = n /\ e \in [0 .. L - l -> Nat] /\ \A i \in 1 .. L - l : e[i] = hi[a[l + i]]
    <3>1. ASSUME NEW i \in 1 .. L - l PROVE hi[a[l + i]] \in Nat
      BY <1>0, <2>2
    <3>2. \A i \in 0 .. L - l : i # 0 => i \in 1 .. L - l
      BY <2>1
    <3>3. 0 \in 0 .. L - l /\ n \in Nat
      BY <2>1
    <3>4. ASSUME NEW i \in 0 .. L - l PROVE (IF i = 0 THEN n ELSE hi[a[l + i]]) \in Nat
      BY <3>1, <3>2
    <3>5. e \in [0 .. L - l -> Nat]
      BY <3>4
    <3>6. \A i \in 1 .. L - l : i \in 0 .. L - l /\ i # 0
      BY <2>1
    <3>7. QED
      BY <3>3, <3>5, <3>6
  <2> HIDE DEF e
  <2>4. ASSUME NEW i \in 1 .. L - l PROVE lo[a[l + i]] = e[i - 1] + 1
    <3>1. lo[a[l + i]] = Before(tree, hi, n, l + i) + 1
      BY <1>2, <2>2
    <3>2. l + i \in Nat /\ l + i > 0 /\ (l + i <= l + 1 <=> i = 1)
      BY <1>7
    <3>3. CASE i = 1
      BY <1>3, <2>3, <3>1, <3>2, <3>3
    <3>4. CASE i # 1
      <4>1. i - 1 \in 1 .. L - l /\ l + i - 1 = l + (i - 1)
        BY <1>7, <3>4
      <4>2. Before(tree, hi, n, l + i) = hi[a[l + i - 1]]
        BY <1>3, <3>2, <3>4
      <4>3. QED
        BY <2>3, <3>1, <4>1, <4>2
    <3>5. QED
      BY <3>3, <3>4
  <2>5. ASSUME NEW i \in 1 .. L - l PROVE e[i - 1] <= e[i] /\ right[i] = Run(e[i - 1] + 1, e[i])
    <3>1. lo[a[l + i]] = e[i - 1] + 1 /\ e[i] = hi[a[l + i]]
      BY <2>3, <2>4
    <3>2. right[i] = Run(lo[a[l + i]], hi[a[l + i]])
      BY <1>0, <1>9, <2>2
    <3>3. lo[a[l + i]] <= hi[a[l + i]] + 1
      BY <1>0, <2>2
    <3>4. i - 1 \in 0 .. L - l /\ i \in 0 .. L - l
      OBVIOUS
    <3>5. e[i - 1] \in Nat /\ e[i] \in Nat
      BY <2>3, <3>4
    <3>6. QED
      BY <3>1, <3>2, <3>3, <3>5
  <2>6. FlattenSeq(right) = Run(e[0] + 1, e[L - l])
    <3>1. PICK k \in Nat : k = L - l
      BY <2>1
    <3>2. /\ e \in [0 .. k -> Nat] /\ right \in [1 .. k -> Seq(Nat)]
          /\ \A i \in 1 .. k : e[i - 1] <= e[i] /\ right[i] = Run(e[i - 1] + 1, e[i])
      BY <1>9, <2>3, <2>5, <3>1
    <3>3. FlattenSeq(right) = Run(e[0] + 1, e[k])
      BY <3>2, RunsFlatten
    <3>4. QED
      BY <3>1, <3>3
  <2>7. e[L - l] = hi[n]
    <3>1. CASE L = l
      <4>1. Before(tree, hi, n, L + 1) = n
        BY <1>3, <3>1
      <4>2. QED
        BY <1>2, <2>3, <3>1, <4>1
    <3>2. CASE L # l
      <4>1. L - l \in 1 .. L - l /\ l + (L - l) = L /\ ~ (L + 1 <= l + 1) /\ L + 1 - 1 = L
        BY <1>7, <3>2
      <4>2. Before(tree, hi, n, L + 1) = hi[a[L]]
        BY <1>3, <4>1
      <4>3. e[L - l] = hi[a[l + (L - l)]]
        BY <2>3, <4>1
      <4>4. QED
        BY <1>2, <4>1, <4>2, <4>3
    <3>3. QED
      BY <3>1, <3>2
  <2>8. QED
    BY <2>3, <2>6, <2>7
<1>12. <<n>> = Run(n, n)
  <2>1. <<n>> \in Seq(Nat) /\ Len(<<n>>) = n + 1 - n /\ \A i \in 1 .. Len(<<n>>) : <<n>>[i] = n + i - 1
    OBVIOUS
  <2>2. n <= n + 1
    OBVIOUS
  <2>3. QED
    BY <2>1, <2>2, CountsUp
<1>13. Spelled(n, parts) = FlattenSeq(left) \o <<n>> \o FlattenSeq(right)
  BY <1>1, <1>4, <1>5, <1>6 DEF Spelled, Kind
<1>14. Run(lo[n], n - 1) \o Run(n, n) = Run(lo[n], n)
  <2>1. n - 1 \in Nat /\ lo[n] <= n - 1 + 1 /\ n - 1 <= n /\ n - 1 + 1 = n
    BY <1>2
  <2>2. Run(lo[n], n - 1) \o Run(n - 1 + 1, n) = Run(lo[n], n)
    BY <2>1, RunsJoin
  <2>3. QED
    BY <2>1, <2>2
<1>15. Run(lo[n], n) \o Run(n + 1, hi[n]) = Run(lo[n], hi[n])
  <2>1. lo[n] <= n + 1
    BY <1>2
  <2>2. QED
    BY <1>2, <2>1, RunsJoin
<1>16. QED
  BY <1>10, <1>11, <1>12, <1>13, <1>14, <1>15


LEMMA SpelledIsSeq ==
  ASSUME NEW n \in Nat, NEW L \in Nat, Kind(tree, n) \in Infix => L > 0,
         NEW parts \in [1 .. L -> Seq(Nat)]
  PROVE  Spelled(n, parts) \in Seq(Nat)
<1>1. PICK l \in 0 .. 1 : l = IF Kind(tree, n) \in Infix THEN 1 ELSE 0
  OBVIOUS
<1>2. parts \in Seq(Seq(Nat)) /\ Len(parts) = L /\ l <= L /\ l \in Nat
  BY <1>1
<1>3. PICK left : left = SubSeq(parts, 1, l)
  OBVIOUS
<1>4. PICK right : right = SubSeq(parts, l + 1, L)
  OBVIOUS
<1>5. PICK own \in Seq(Nat) : own = IF n \in DOMAIN tokens THEN <<n>> ELSE <<>>
  <2>1. <<n>> \in Seq(Nat) /\ <<>> \in Seq(Nat)
    OBVIOUS
  <2>2. QED
    BY <2>1
<1>6. left \in Seq(Seq(Nat)) /\ right \in Seq(Seq(Nat))
  <2>1. l \in 1 - 1 .. Len(parts) /\ 1 \in 1 .. Len(parts) + 1
    BY <1>2
  <2>2. l + 1 \in 1 .. Len(parts) + 1 /\ L \in l + 1 - 1 .. Len(parts)
    BY <1>2
  <2>3. left \in Seq(Seq(Nat))
    BY <1>2, <1>3, <2>1, PartOf
  <2>4. right \in Seq(Seq(Nat))
    BY <1>2, <1>4, <2>2, PartOf
  <2>5. QED
    BY <2>3, <2>4
<1>7. ASSUME NEW f \in Seq(Seq(Nat)) PROVE FlattenSeq(f) \in Seq(Nat)
  <2>1. Len(f) \in Nat /\ f \in [1 .. Len(f) -> Seq(Nat)]
    OBVIOUS
  <2>2. QED
    BY <2>1, Flattens
<1>8. FlattenSeq(left) \in Seq(Nat) /\ FlattenSeq(right) \in Seq(Nat)
  BY <1>6, <1>7
<1>9. Spelled(n, parts) = FlattenSeq(left) \o own \o FlattenSeq(right)
  BY <1>1, <1>2, <1>3, <1>4, <1>5 DEF Spelled, Kind
<1>10. ASSUME NEW x \in Seq(Nat), NEW y \in Seq(Nat), NEW z \in Seq(Nat) PROVE x \o y \o z \in Seq(Nat)
  OBVIOUS
<1>11. QED
  BY <1>8, <1>9, <1>10

\* What Reading defines: each node is read at depth d from what its arguments
\* are read as at the depth before.
IsReading(r, size) ==
  r = [d \in 0 .. size |->
         [n \in DOMAIN tree.nodes |->
            IF d = 0 THEN <<>>
            ELSE Spelled(n, [i \in DOMAIN tree.nodes[n].args |-> r[d - 1][tree.nodes[n].args[i]]])]]

PartsIn(g, n) == [i \in DOMAIN tree.nodes[n].args |-> g[tree.nodes[n].args[i]]]

LEMMA PartsAre ==
  ASSUME Linked(tree), NEW n \in NodesOf(tree), NEW g \in [NodesOf(tree) -> Seq(Nat)],
         NEW L, L = Len(Args(tree, n))
  PROVE  /\ L \in Nat /\ PartsIn(g, n) \in [1 .. L -> Seq(Nat)]
         /\ \A i \in 1 .. L : PartsIn(g, n)[i] = g[Args(tree, n)[i]] /\ Args(tree, n)[i] \in NodesOf(tree)
<1>1. Args(tree, n) \in Seq(Nat) /\ \A i \in 1 .. Len(Args(tree, n)) : Args(tree, n)[i] \in NodesOf(tree)
  BY TypedIs DEF Linked, SoundNode
<1>2. L \in Nat /\ DOMAIN Args(tree, n) = 1 .. L
  BY <1>1
<1>3. PartsIn(g, n) = [i \in 1 .. L |-> g[Args(tree, n)[i]]]
  BY <1>2 DEF PartsIn, Args
<1>4. QED
  BY <1>1, <1>2, <1>3

LEMMA ReadingExists ==
  ASSUME Linked(tree), \A n \in NodesOf(tree) : Kind(tree, n) \in Infix => Len(Args(tree, n)) > 0,
         NEW size \in Nat
  PROVE  \E r \in [0 .. size -> [NodesOf(tree) -> Seq(Nat)]] : IsReading(r, size)
<1> DEFINE N == NodesOf(tree)
           B == [N -> Seq(Nat)]
           base == [n \in N |-> <<>>]
           step == [p \in Nat \X B |-> [n \in N |-> Spelled(n, PartsIn(p[2], n))]]
<1>1. base \in B
  <2>1. <<>> \in Seq(Nat)
    OBVIOUS
  <2>2. QED
    BY <2>1
<1>2. ASSUME NEW g \in B, NEW n \in N PROVE Spelled(n, PartsIn(g, n)) \in Seq(Nat)
  <2>1. PICK L \in Nat : L = Len(Args(tree, n)) /\ PartsIn(g, n) \in [1 .. L -> Seq(Nat)]
    BY PartsAre
  <2>2. n \in Nat
    BY DEF Linked
  <2>3. Kind(tree, n) \in Infix => L > 0
    BY <2>1
  <2>4. QED
    BY <2>1, <2>2, <2>3, SpelledIsSeq
<1>3. step \in [Nat \X B -> B]
  <2>1. ASSUME NEW p \in Nat \X B PROVE [n \in N |-> Spelled(n, PartsIn(p[2], n))] \in B
    <3>1. p[2] \in B
      OBVIOUS
    <3>2. QED
      BY <1>2, <3>1
  <2>2. QED
    BY <2>1
<1>4. ASSUME NEW i \in Nat, NEW g \in B PROVE step[<<i, g>>] = [n \in N |-> Spelled(n, PartsIn(g, n))]
  OBVIOUS
<1> HIDE DEF B, base, step
<1>5. PICK r \in [0 .. size -> B] : IsRecursive(r, size, base, step)
  BY <1>1, <1>3, RecursiveFunction
<1>6. ASSUME NEW d \in 0 .. size
      PROVE  r[d] = [n \in N |-> IF d = 0 THEN <<>> ELSE Spelled(n, PartsIn(r[d - 1], n))]
  <2>1. r[d] = IF d = 0 THEN base ELSE step[<<d, r[d - 1]>>]
    BY <1>5 DEF IsRecursive
  <2>2. CASE d = 0
    BY <2>1, <2>2 DEF base
  <2>3. CASE d # 0
    <3>1. d - 1 \in 0 .. size /\ d \in Nat
      BY <2>3
    <3>2. r[d - 1] \in B
      BY <1>5, <3>1
    <3>3. step[<<d, r[d - 1]>>] = [n \in N |-> Spelled(n, PartsIn(r[d - 1], n))]
      BY <1>4, <3>1, <3>2
    <3>4. QED
      BY <2>1, <2>3, <3>3
  <2>4. QED
    BY <2>2, <2>3
<1>7. r = [d \in 0 .. size |-> r[d]]
  BY <1>5
<1>8. r = [d \in 0 .. size |-> [n \in N |-> IF d = 0 THEN <<>> ELSE Spelled(n, PartsIn(r[d - 1], n))]]
  BY <1>6, <1>7
<1>9. IsReading(r, size)
  BY <1>8 DEF IsReading, PartsIn, NodesOf
<1>10. QED
  BY <1>5, <1>9 DEF B


\* The tree is laid out, and the nodes are the tokens and empty pairs.
LEMMA ReadingIs ==
  ASSUME NEW A, NEW m, NEW lo, NEW hi, Linked(tree), Above(tree, A), Ordered(tree, A, m, lo, hi),
         \A n \in NodesOf(tree) : n \in DOMAIN tokens <=> Kind(tree, n) # "CSV"
  PROVE  Reading = Run(1, m)
<1> DEFINE N == NodesOf(tree)
           size == Cardinality(N)
           r == CHOOSE r : IsReading(r, size)
           S == {d \in Nat : d <= size =>
                   \A n \in N : d + Cardinality(A[n]) >= size + 1 => r[d][n] = Run(lo[n], hi[n])}
<1>1. Reading = r[size][tree.root]
  BY Zenon DEF Reading, IsReading, NodesOf
<1>2. /\ m \in Nat /\ lo \in [N -> Nat \ {0}] /\ hi \in [N -> Nat] /\ lo[tree.root] = 1
      /\ \A n \in N : Laid(tree, lo, hi, n)
      /\ \A n \in A[tree.last] : hi[n] = m
  BY DEF Ordered
<1>3. /\ IsFiniteSet(N) /\ N \subseteq Nat \ {0} /\ tree.root \in N /\ tree.last \in N
      /\ A \in [N -> SUBSET N] /\ A[tree.root] = {tree.root} /\ tree.root \in A[tree.last]
  BY DEF Linked, Above
<1>4. size \in Nat
  BY <1>3, FS_CardinalityType
<1>5. ASSUME NEW n \in N PROVE Cardinality(A[n]) \in Nat /\ Cardinality(A[n]) <= size /\ IsFiniteSet(A[n])
  <2>1. A[n] \subseteq N
    BY <1>3
  <2>2. QED
    BY <1>3, <2>1, FS_Subset, FS_CardinalityType
<1>6. \A n \in N : Kind(tree, n) \in Infix => Len(Args(tree, n)) > 0
  <2>1. "CSV" \notin Infix
    BY DEF Infix, Binaries
  <2>2. QED
    BY <1>2, <2>1 DEF Laid, LaidOut
<1>7. \E f \in [0 .. size -> [N -> Seq(Nat)]] : IsReading(f, size)
  <2> HIDE DEF size
  <2>1. QED
    BY <1>4, <1>6, ReadingExists
<1>8. IsReading(r, size)
  BY <1>7
<1>9. ASSUME NEW h, IsReading(h, size), NEW d \in 0 .. size
       PROVE  h[d] = [n \in N |-> IF d = 0 THEN <<>> ELSE Spelled(n, PartsIn(h[d - 1], n))]
  BY <1>9, Zenon DEF IsReading, PartsIn, NodesOf
<1>10. r \in [0 .. size -> [N -> Seq(Nat)]]
  <2>1. PICK f \in [0 .. size -> [N -> Seq(Nat)]] : IsReading(f, size)
    BY <1>7
  <2> HIDE DEF r, S
  <2> DEFINE Q == {d \in Nat : d <= size => r[d] = f[d]}
  <2>3. 0 \in Q
    <3>1. 0 \in 0 .. size
      BY <1>4
    <3>2. PICK e \in 0 .. size : e = 0
      BY <3>1
    <3>3. r[e] = [n \in N |-> IF e = 0 THEN <<>> ELSE Spelled(n, PartsIn(r[e - 1], n))]
      BY <1>8, <1>9
    <3>4. f[e] = [n \in N |-> IF e = 0 THEN <<>> ELSE Spelled(n, PartsIn(f[e - 1], n))]
      BY <2>1, <1>9
    <3>5. QED
      BY <3>2, <3>3, <3>4
  <2>4. ASSUME NEW d \in Q, d \in Nat PROVE d + 1 \in Q
    <3>1. SUFFICES ASSUME d + 1 <= size PROVE r[d + 1] = f[d + 1]
      BY <2>4
    <3>2. PICK e \in 0 .. size : e = d + 1 /\ e - 1 = d /\ e # 0
      BY <1>4, <2>4, <3>1
    <3>3. r[d] = f[d]
      BY <1>4, <2>4, <3>1
    <3>4. r[e] = [n \in N |-> IF e = 0 THEN <<>> ELSE Spelled(n, PartsIn(r[e - 1], n))]
      BY <1>8, <1>9
    <3>5. f[e] = [n \in N |-> IF e = 0 THEN <<>> ELSE Spelled(n, PartsIn(f[e - 1], n))]
      BY <2>1, <1>9
    <3>6. QED
      BY <3>2, <3>3, <3>4, <3>5
  <2> HIDE DEF Q
  <2>5. Nat \subseteq Q
    BY <2>3, <2>4, SetInduction
  <2>6. \A d \in 0 .. size : r[d] = f[d]
    BY <1>4, <2>5 DEF Q
  <2>7. r = [d \in 0 .. size |-> r[d]]
    BY <1>8 DEF IsReading
  <2>8. QED
    BY <2>1, <2>6, <2>7
<1> HIDE DEF r
<1>11. ASSUME NEW d \in 0 .. size, d # 0, NEW n \in N
       PROVE  r[d][n] = Spelled(n, PartsIn(r[d - 1], n))
  <2>1. r[d] = [x \in N |-> IF d = 0 THEN <<>> ELSE Spelled(x, PartsIn(r[d - 1], x))]
    BY <1>8, <1>9
  <2>2. QED
    BY <1>11,   <2>1
<1>12. 0 \in S
  BY <1>4, <1>5
<1>13. ASSUME NEW d \in S, d \in Nat PROVE d + 1 \in S
  <2>1. SUFFICES ASSUME d + 1 <= size, NEW n \in N, d + 1 + Cardinality(A[n]) >= size + 1
                 PROVE  r[d + 1][n] = Run(lo[n], hi[n])
    BY <1>13
  <2>2. PICK g \in [N -> Seq(Nat)] : g = r[d]
    <3>1. d \in 0 .. size
      BY <1>4, <1>13, <2>1
    <3>2. QED
      BY <1>10, <3>1
  <2>3. r[d + 1][n] = Spelled(n, PartsIn(g, n))
    <3>1. PICK e \in 0 .. size : e = d + 1 /\ e - 1 = d /\ e # 0
      BY <1>4, <1>13, <2>1
    <3>2. r[e][n] = Spelled(n, PartsIn(r[e - 1], n))
      BY <1>11, <3>1
    <3>3. QED
      BY <2>2, <3>1, <3>2
  <2>4. PICK a : a = Args(tree, n)
    OBVIOUS
  <2>5. PICK L \in Nat : /\ L = Len(a) /\ PartsIn(g, n) \in [1 .. L -> Seq(Nat)]
                         /\ \A i \in 1 .. L : PartsIn(g, n)[i] = g[a[i]] /\ a[i] \in N
    <3>1. PICK L : L = Len(Args(tree, n))
      OBVIOUS
    <3>2. /\ L \in Nat /\ PartsIn(g, n) \in [1 .. L -> Seq(Nat)]
          /\ \A i \in 1 .. L : PartsIn(g, n)[i] = g[Args(tree, n)[i]] /\ Args(tree, n)[i] \in NodesOf(tree)
      BY <3>1, PartsAre
    <3>3. QED
      BY <2>4, <3>1, <3>2
  <2>6. ASSUME NEW x \in N PROVE lo[x] \in Nat \ {0} /\ hi[x] \in Nat /\ lo[x] <= hi[x] + 1
    <3>1. lo[x] \in Nat \ {0} /\ hi[x] \in Nat /\ x \in Nat \ {0} /\ Laid(tree, lo, hi, x)
      BY <1>2, <1>3
    <3>2. QED
      BY <3>1, RangeIs
  <2>7. ASSUME NEW i \in 1 .. L PROVE PartsIn(g, n)[i] = Run(lo[a[i]], hi[a[i]])
    <3>1. PICK x \in N : x = a[i] /\ x # tree.root /\ Parent(tree, x) = n
      <4>1. i \in 1 .. Len(Args(tree, n))
        BY <2>4, <2>5
      <4>2. QED
        BY <2>4, <4>1, ArgIs
    <3>2. Cardinality(A[x]) = Cardinality(A[n]) + 1
      <4>1. A[x] = A[n] \cup {x} /\ x \notin A[n]
        BY <3>1 DEF Above
      <4>2. QED
        BY <1>5, <4>1, FS_AddElement
    <3>3. d <= size /\ d + Cardinality(A[x]) >= size + 1
      BY <1>4, <1>5, <1>13, <2>1, <3>2
    <3>4. r[d][x] = Run(lo[x], hi[x])
      BY <1>13, <3>3
    <3>5. QED
      BY <2>2, <2>5, <3>1, <3>4
  <2>8. CASE Kind(tree, n) # "CSV"
    <3>1. n \in DOMAIN tokens /\ LaidOut(tree, lo, hi, n) /\ n \in Nat \ {0}
      BY <1>2, <1>3, <2>8 DEF Laid
    <3>2. lo[n] \in Nat \ {0} /\ hi[n] \in Nat
      BY <2>6
    <3>3. PICK parts \in [1 .. L -> Seq(Nat)] : parts = PartsIn(g, n)
      BY <2>5
    <3>4. \A i \in 1 .. L : /\ lo[a[i]] \in Nat \ {0} /\ hi[a[i]] \in Nat /\ lo[a[i]] <= hi[a[i]] + 1
                            /\ parts[i] = Run(lo[a[i]], hi[a[i]])
      BY <2>5, <2>6, <2>7, <3>3
    <3>5. Spelled(n, parts) = Run(lo[n], hi[n])
      <4>1. L = Len(Args(tree, n)) /\ a = Args(tree, n)
        BY <2>4, <2>5
      <4>2. ArgsRead(parts, lo, hi, a, L)
        BY <3>3, <3>4 DEF ArgsRead
      <4>3. QED
        BY <3>1, <3>2, <4>1, <4>2, SpelledIs
    <3>6. QED
      BY <2>3, <3>3, <3>5
  <2>9. CASE Kind(tree, n) = "CSV"
    <3>1. n \notin DOMAIN tokens
      BY <2>9
    <3>2. L = 0
      <4>1. L <= ExpectedArgc("CSV")
        BY <2>4, <2>5, <2>9 DEF Linked, SoundNode
      <4>2. ExpectedArgc("CSV") = 0
        BY DEF ExpectedArgc, Binaries, Unaries, Closers, Operands, Braces
      <4>3. QED
        BY <2>5, <4>1, <4>2
    <3>3. PICK parts \in [1 .. 0 -> Seq(Nat)] : parts = PartsIn(g, n)
      BY <2>5, <3>2
    <3>4. Spelled(n, parts) = <<>>
      <4>1. Kind(tree, n) \notin Infix
        BY <2>9 DEF Infix, Binaries
      <4>2. parts = <<>> /\ Len(parts) = 0
        BY <3>3
      <4>3. SubSeq(parts, 1, 0) = <<>> /\ SubSeq(parts, 0 + 1, 0) = <<>>
        BY <4>2
      <4>4. FlattenSeq(<<>>) = <<>>
        BY DEF FlattenSeq
      <4>5. Spelled(n, parts) = FlattenSeq(SubSeq(parts, 1, 0)) \o <<>> \o FlattenSeq(SubSeq(parts, 0 + 1, 0))
        BY <3>1, <4>1, <4>2 DEF Spelled, Kind
      <4>6. <<>> \o <<>> \o <<>> = <<>>
        OBVIOUS
      <4>7. QED
        BY <4>3, <4>4, <4>5, <4>6, Zenon
    <3>5. Run(lo[n], hi[n]) = <<>>
      <4>1. lo[n] = hi[n] + 1 /\ hi[n] \in Nat /\ lo[n] \in Nat \ {0}
        BY <1>2, <2>9 DEF Laid
      <4>2. <<>> \in Seq(Nat) /\ Len(<<>>) = hi[n] + 1 - lo[n]
        BY <4>1
      <4>3. lo[n] <= hi[n] + 1 /\ \A i \in 1 .. Len(<<>>) : <<>>[i] = lo[n] + i - 1
        BY <4>1
      <4>4. QED
        BY <4>1, <4>2, <4>3, CountsUp
    <3>6. QED
      BY <2>3, <3>3, <3>4, <3>5
  <2>10. QED
    BY <2>8, <2>9
<1> HIDE DEF S
<1>14. size \in S
  BY <1>4, <1>12, <1>13, SetInduction
<1>15. Cardinality(A[tree.root]) = 1
  BY <1>3, FS_Singleton
<1>16. r[size][tree.root] = Run(lo[tree.root], hi[tree.root])
  <2>1. PICK z \in Nat : z = size
    BY <1>4
  <2>2. z + Cardinality(A[tree.root]) >= z + 1
    BY <1>15
  <2>3. \A n \in N : z + Cardinality(A[n]) >= z + 1 => r[z][n] = Run(lo[n], hi[n])
    BY <1>14, <2>1 DEF S
  <2>4. QED
    BY <1>3, <2>1, <2>2, <2>3
<1>17. QED
  BY <1>1, <1>2, <1>3, <1>16

LEMMA OrderInvMeans == OrderInv => TokensInOrder
<1> SUFFICES ASSUME OrderInv, Pushed # <<>>, ~PrefixInBrackets
             PROVE  Reading = [i \in DOMAIN Pushed |-> i]
  BY DEF TokensInOrder
<1>1. TreeInv /\ tokens \in Seq(Kinds) /\ refused \in BOOLEAN /\ (refused => tokens # <<>>)
      /\ Len(tokens) <= MaxTokens + MaxHeader
  BY DEF OrderInv, TreeInv
<1>2. Numbered(tree, Pushed) /\ Linked(tree)
  BY <1>1 DEF TreeInv
<1>3. PICK A, lo, hi : Above(tree, A) /\ Ordered(tree, A, Len(Pushed), lo, hi)
  BY DEF OrderInv, InOrderUpTo
<1>4. Pushed \in Seq(Kinds) /\ Len(Pushed) <= Len(tokens) /\ Len(Pushed) \in Nat /\ Len(tokens) \in Nat
  <2>1. CASE refused
    <3>1. ASSUME NEW s \in Seq(Kinds), s # <<>>
          PROVE  Front(s) \in Seq(Kinds) /\ Len(Front(s)) \in Nat /\ Len(s) \in Nat /\ Len(Front(s)) <= Len(s)
      BY <3>1 DEF Front
    <3>2. QED
      BY <1>1, <2>1, <3>1 DEF Pushed
  <2>2. CASE ~refused
    BY <1>1, <2>2 DEF Pushed
  <2>3. QED
    BY <2>1, <2>2
<1>5. ASSUME NEW n \in NodesOf(tree) PROVE n \in DOMAIN tokens <=> Kind(tree, n) # "CSV"
  <2>1. DOMAIN tokens = 1 .. Len(tokens)
    BY <1>1
  <2>2. CASE n \in 1 .. Len(Pushed)
    <3>1. n \in 1 .. Len(tokens)
      BY <1>4, <2>2
    <3>2. QED
      BY <1>2, <2>1, <2>2, <3>1 DEF Numbered
  <2>3. CASE n \notin 1 .. Len(Pushed)
    <3>1. PICK i \in 1 .. Len(Pushed) : n = CsvAt(i) /\ Kind(tree, n) = "CSV"
      BY <1>2, <2>3 DEF Numbered
    <3>2. n > Len(tokens)
      BY <1>1, <1>4, <3>1, BoundsAssumption DEF CsvAt
    <3>3. QED
      BY <1>4, <2>1, <3>1, <3>2
  <2>4. QED
    BY <2>2, <2>3
<1>6. Reading = Run(1, Len(Pushed))
  BY <1>2, <1>3, <1>5, ReadingIs
<1>7. Run(1, Len(Pushed)) = [i \in DOMAIN Pushed |-> i]
  <2>1. PICK m \in Nat : m = Len(Pushed) /\ DOMAIN Pushed = 1 .. m
    BY <1>4
  <2>2. m + 1 - 1 = m /\ \A i \in 1 .. m : 1 + i - 1 = i
    OBVIOUS
  <2>3. Run(1, m) = [i \in 1 .. m |-> i]
    BY <2>2 DEF Run
  <2>4. QED
    BY <2>1, <2>3
<1>8. QED
  BY <1>6, <1>7

\* Wherever precedence puts the tokens of a line, of whatever length, complete
\* or not, read from the left the tree has them all in their order, unless a
\* call, an address or an indirection is first in a pair of brackets.
THEOREM InOrder == Spec => []TokensInOrder
<1>1. Spec => []OrderInv
  BY OrderInvInit, OrderInvNext, PTL DEF Spec
<1>2. QED
  BY <1>1, OrderInvMeans, PTL

=============================================================================
