---------------------------- MODULE BodiesProofs ----------------------------
(***************************************************************************)
(* Proofs about Bodies, for every BodyCap and every number of lines.       *)
(***************************************************************************)
EXTENDS Bodies, SequenceTheorems, TLAPS

(***************************************************************************)
(* The live slots of bodies always mirror the open source bodies, also     *)
(* after a stray elif or else; a well-formed program in addition keeps a   *)
(* function open exactly while a body is.                                  *)
(***************************************************************************)
Nesting ==
  /\ Len(open) = indentation_level
  /\ \A d \in 1 .. Len(open) : bodies[d - 1] = open[d].kind
  /\ function => indentation_level > 0
  /\ wellFormed =>
       /\ function <=> indentation_level > 0
       /\ Len(open) > 0 => open[1].kind = "function"
       /\ status # "error"

Inv == TypeOK /\ Nesting

-----------------------------------------------------------------------------
LEMMA ConcatType ==
  ASSUME NEW S, NEW s \in Seq(S), NEW t \in Seq(S)
  PROVE  s \o t \in Seq(S)
  OBVIOUS

\* The code a brace writes is made of labels, jumps and conditions.
LEMMA OpenCodeType ==
  ASSUME NEW b \in Body, NEW d \in Nat
  PROVE  OpenCode(b, d) \in Seq(Items)
<1>1. OpenOffset[b.kind] \in Nat
  BY DEF OpenOffset, Kinds, OpenKinds, ChainKinds, Body
<1>2. CASE b.kind \in Tested
  <2>1. TestOffset[b.kind] \in Nat
    BY <1>2 DEF TestOffset, Tested
  <2>2. QED
    BY <1>1, <1>2, <2>1 DEF OpenCode, Items, Item, Number, LabelIterate, Ops,
       Roles, Body, ForwardJumps, BackwardJumps
<1>3. CASE b.kind \notin Tested
  BY <1>1, <1>3 DEF OpenCode, Items, Item, Number, LabelIterate, Ops, Roles, Body
<1>4. QED
  BY <1>2, <1>3

LEMMA CloseCodeType ==
  ASSUME NEW b \in Body, NEW d \in Nat, NEW chained \in BOOLEAN
  PROVE  CloseCode(b, d, chained) \in Seq(Items)
<1> DEFINE end   == Item("label", Number(d, ChainOffset), "chain_end", b.chain)
           skip  == Item("jmp_f", Number(d, ChainOffset), "chain_end", b.chain)
           again == Item("jmp_b", Number(d, OpenOffset["while"]), "open", b.id)
           mark  == Item("label", Number(d, CloseOffset[b.kind]), "close", b.id)
<1>1. CloseOffset[b.kind] \in Nat
  BY DEF CloseOffset, Kinds, OpenKinds, ChainKinds, Body
<1>2. OpenOffset["while"] \in Nat
  BY DEF OpenOffset
<1>3. end \in Items /\ skip \in Items /\ again \in Items /\ mark \in Items
  BY <1>1, <1>2 DEF Items, Item, Number, LabelIterate, ChainOffset, Ops, Roles,
     Body, ForwardJumps, BackwardJumps
<1>4. CloseCode(b, d, chained) =
        IF d = 0 \/ b.kind = "bare"
        THEN <<mark>>
        ELSE <<IF chained /\ b.kind \in Tested THEN skip ELSE end>>
             \o (IF b.kind = "while" THEN <<again, mark>> ELSE <<mark>>)
  BY DEF CloseCode
<1>5. QED
  <2> HIDE DEF end, skip, again, mark
  <2>1. QED
    BY <1>3, <1>4

\* The body a brace closes is the innermost open one.
LEMMA ClosingIsInnermost ==
  ASSUME Inv, indentation_level > 0
  PROVE  /\ indentation_level - 1 \in 0 .. BodyCap - 1
         /\ Len(open) \in 1 .. Len(open)
         /\ open[Len(open)] \in Body
         /\ Closing = open[Len(open)]
         /\ Closing.kind = bodies[indentation_level - 1]
<1>1. indentation_level - 1 \in 0 .. BodyCap - 1 /\ Len(open) \in 1 .. Len(open)
  BY BodyCapAssumption DEF Inv, TypeOK, Nesting
<1>2. open[Len(open)] \in Body
  BY <1>1 DEF Inv, TypeOK
<1>3. bodies[indentation_level - 1] = open[Len(open)].kind
  BY <1>1 DEF Inv, Nesting
<1>4. QED
  BY <1>1, <1>2, <1>3 DEF Closing, Body

-----------------------------------------------------------------------------
LEMMA InitInv == Init => Inv
  BY BodyCapAssumption, MaxLinesAssumption DEF Init, Inv, TypeOK, Nesting

\* Compiling a line counts it, within the bound.
LEMMA NextLineType ==
  ASSUME Inv, NextLine
  PROVE  line' \in 0 .. MaxLines /\ line + 1 \in Nat
  BY MaxLinesAssumption DEF NextLine, Inv, TypeOK

\* A failing line changes nothing but the status; only a program that is not
\* well formed may fail.
LEMMA FailInv ==
  ASSUME Inv, Fail, ~wellFormed', wellFormed' \in BOOLEAN, line' \in 0 .. MaxLines
  PROVE  Inv'
<1>1. TypeOK'
  BY DEF Fail, Inv, TypeOK
<1>2. Nesting'
  BY DEF Fail, Inv, Nesting
<1>3. QED
  BY <1>1, <1>2 DEF Inv

LEMMA FunctionLineInv == ASSUME Inv, FunctionLine PROVE Inv'
<1>1. /\ NextLine /\ line' \in 0 .. MaxLines /\ line + 1 \in Nat
      /\ wellFormed' = (wellFormed /\ open = <<>>) /\ wellFormed' \in BOOLEAN
  BY NextLineType DEF FunctionLine
<1>2. CASE indentation_level # 0
  <2>1. Fail
    BY <1>2 DEF FunctionLine
  <2>2. Len(open) # 0
    BY <1>2 DEF Inv, Nesting
  <2>3. open # <<>>
    BY <2>2
  <2>4. ~wellFormed'
    BY <1>1, <2>3, Zenon
  <2>5. QED
    BY <1>1, <2>1, <2>4, FailInv
<1>3. CASE indentation_level = 0
  <2> DEFINE b == [kind |-> "function", id |-> line + 1, chain |-> line + 1]
  <2>1. b \in Body
    BY <1>1 DEF Body, Kinds
  <2>2. /\ indentation_level' = 1
        /\ bodies' = [bodies EXCEPT ![0] = "function"]
        /\ function' = TRUE
        /\ open' = <<b>>
        /\ UNCHANGED <<status, assembly>>
    BY <1>3 DEF FunctionLine, Marked
  <2>3. bodies' \in [0 .. BodyCap - 1 -> Kinds \cup {"UNSET"}] /\ bodies'[0] = "function"
    BY <2>2, BodyCapAssumption DEF Inv, TypeOK, Kinds
  <2>4. Len(open') = 1 /\ open'[1].kind = "function" /\ open' \in Seq(Body)
    BY <2>1, <2>2
  <2>5. TypeOK'
    BY <1>1, <2>2, <2>3, <2>4, BodyCapAssumption DEF Inv, TypeOK
  <2>6. status # "error"
    BY <1>1 DEF NextLine
  <2> HIDE DEF b
  <2>7. Nesting'
    <3>1. \A d \in 1 .. Len(open') : bodies'[d - 1] = open'[d].kind
      BY <2>3, <2>4
    <3>2. QED
      BY <2>2, <2>4, <2>6, <3>1 DEF Nesting
  <2>8. QED
    BY <2>5, <2>7 DEF Inv
<1>4. QED
  BY <1>2, <1>3

LEMMA OpenLineInv == ASSUME Inv, NEW k \in OpenKinds, OpenLine(k) PROVE Inv'
<1> DEFINE b == [kind |-> k, id |-> line + 1, chain |-> line + 1]
           level == indentation_level
<1>1. NextLine /\ function /\ line' \in 0 .. MaxLines /\ line + 1 \in Nat
  BY NextLineType DEF OpenLine
<1>2. b \in Body
  BY <1>1 DEF Body, Kinds
<1>3. CASE level = BodyCap
  <2>1. /\ status' = "corrupt"
        /\ UNCHANGED <<indentation_level, bodies, function, assembly, open, wellFormed>>
    BY <1>3 DEF OpenLine
  <2>2. TypeOK'
    BY <1>1, <2>1 DEF Inv, TypeOK
  <2>3. Nesting'
    BY <2>1 DEF Inv, Nesting
  <2>4. QED
    BY <2>2, <2>3 DEF Inv
<1>4. CASE level # BodyCap
  <2>1. /\ indentation_level' = level + 1
        /\ bodies' = [bodies EXCEPT ![level] = k]
        /\ assembly' = assembly \o OpenCode(b, level)
        /\ open' = Append(open, b)
        /\ UNCHANGED <<function, status, wellFormed>>
    BY <1>4 DEF OpenLine, Marked
  <2>2. level \in 0 .. BodyCap - 1 /\ level \in Nat /\ level + 1 \in 0 .. BodyCap
    BY <1>4, BodyCapAssumption DEF Inv, TypeOK
  <2>3. OpenCode(b, level) \in Seq(Items)
    BY <1>2, <2>2, OpenCodeType
  <2>4. assembly \in Seq(Items) /\ open \in Seq(Body) /\ Len(open) = level
    BY DEF Inv, TypeOK, Nesting
  <2>5. assembly' \in Seq(Items)
    <3> HIDE DEF b, level
    <3>1. QED
      BY <2>1, <2>3, <2>4, ConcatType
  <2>6. bodies' \in [0 .. BodyCap - 1 -> Kinds \cup {"UNSET"}]
    BY <2>1, <2>2 DEF Inv, TypeOK, Kinds
  <2>7. /\ open' \in Seq(Body)
        /\ Len(open') = level + 1
        /\ open'[level + 1] = b
        /\ \A d \in 1 .. level : open'[d] = open[d]
    <3> HIDE DEF b, level
    <3>1. QED
      BY <1>2, <2>1, <2>2, <2>4
  <2>8. \A d \in 1 .. Len(open') : bodies'[d - 1] = open'[d].kind
    <3>1. ASSUME NEW d \in 1 .. level + 1 PROVE bodies'[d - 1] = open'[d].kind
      <4>1. CASE d = level + 1
        BY <2>1, <2>2, <2>7, <4>1 DEF Inv, TypeOK
      <4>2. CASE d # level + 1
        <5>1. d \in 1 .. level /\ d - 1 \in 0 .. BodyCap - 1 /\ d - 1 # level
          BY <2>2, <4>2, BodyCapAssumption
        <5>2. bodies'[d - 1] = bodies[d - 1]
          BY <2>1, <5>1 DEF Inv, TypeOK
        <5>3. bodies[d - 1] = open[d].kind
          BY <2>4, <5>1 DEF Inv, Nesting
        <5>4. QED
          BY <2>7, <5>1, <5>2, <5>3
      <4>3. QED
        BY <4>1, <4>2
    <3>2. QED
      BY <2>7, <3>1
  <2>9. TypeOK'
    BY <1>1, <2>1, <2>2, <2>5, <2>6, <2>7 DEF Inv, TypeOK
  <2>10. wellFormed => level > 0 /\ open[1].kind = "function" /\ status # "error"
    BY <1>1, <2>2, <2>4 DEF Inv, Nesting
  <2>11. wellFormed => open'[1].kind = "function"
    BY <2>2, <2>7, <2>10
  <2>12. Nesting'
    BY <1>1, <2>1, <2>2, <2>7, <2>8, <2>10, <2>11 DEF Nesting
  <2>13. QED
    BY <2>9, <2>12 DEF Inv
<1>5. QED
  BY <1>3, <1>4

LEMMA CloseLineInv == ASSUME Inv, CloseLine PROVE Inv'
<1> DEFINE d == indentation_level - 1
<1>1. NextLine /\ function /\ line' \in 0 .. MaxLines /\ indentation_level > 0
  BY NextLineType DEF CloseLine
<1>2. /\ d \in 0 .. BodyCap - 1
      /\ Closing \in Body
      /\ Closing = open[Len(open)]
      /\ Closing.kind = bodies[d]
  BY <1>1, ClosingIsInnermost
<1>3. /\ open \in Seq(Body)
      /\ Len(open) = d + 1
      /\ indentation_level = d + 1
      /\ d \in Nat
      /\ assembly \in Seq(Items)
  BY <1>1, <1>2, BodyCapAssumption DEF Inv, TypeOK, Nesting
<1>4. CASE d = 0 /\ bodies[0] # "function"
  <2>1. Fail /\ UNCHANGED wellFormed
    BY <1>4 DEF CloseLine
  <2>2. open[1].kind # "function" /\ Len(open) = 1
    BY <1>2, <1>3, <1>4
  <2>3. ~wellFormed
    BY <2>2 DEF Inv, Nesting
  <2>4. wellFormed' \in BOOLEAN
    BY <2>1 DEF Inv, TypeOK
  <2>5. QED
    BY <1>1, <2>1, <2>3, <2>4, FailInv
<1>5. CASE ~(d = 0 /\ bodies[0] # "function")
  <2>1. /\ indentation_level' = d
        /\ function' = (d > 0)
        /\ assembly' = assembly \o CloseCode(Closing, d, FALSE)
        /\ open' = SubSeq(open, 1, Len(open) - 1)
        /\ UNCHANGED <<bodies, status, wellFormed>>
    BY <1>5 DEF CloseLine, StillInFunction
  <2>2. CloseCode(Closing, d, FALSE) \in Seq(Items)
    BY <1>2, <1>3, CloseCodeType
  <2> HIDE DEF d
  <2>3. assembly' \in Seq(Items)
    BY <1>3, <2>1, <2>2, ConcatType
  <2>4. /\ open' \in Seq(Body)
        /\ Len(open') = d
        /\ \A i \in 1 .. d : open'[i] = open[i]
    BY <1>3, <2>1
  <2>5. TypeOK'
    <3>1. d \in 0 .. BodyCap
      BY <1>2, BodyCapAssumption
    <3>2. bodies' \in [0 .. BodyCap - 1 -> Kinds \cup {"UNSET"}]
      BY <2>1 DEF Inv, TypeOK
    <3>3. status' \in {"ok", "error", "corrupt"} /\ wellFormed' \in BOOLEAN
      BY <2>1 DEF Inv, TypeOK
    <3>4. indentation_level' \in 0 .. BodyCap /\ function' \in BOOLEAN
      BY <2>1, <3>1
    <3>5. QED
      BY <1>1, <2>3, <2>4, <3>2, <3>3, <3>4 DEF TypeOK
  <2>6. \A i \in 1 .. Len(open') : bodies'[i - 1] = open'[i].kind
    BY <1>3, <2>1, <2>4 DEF Inv, Nesting
  <2>7. wellFormed => (d > 0 => open'[1].kind = "function")
    BY <1>3, <2>4 DEF Inv, Nesting
  <2>8. Nesting'
    BY <1>1, <2>1, <2>4, <2>6, <2>7 DEF Nesting, NextLine
  <2>9. QED
    BY <2>5, <2>8 DEF Inv
<1>6. QED
  BY <1>4, <1>5

LEMMA ChainLineInv == ASSUME Inv, NEW k \in ChainKinds, ChainLine(k) PROVE Inv'
<1> DEFINE d == indentation_level - 1
           b == [kind |-> k, id |-> line + 1, chain |-> Closing.chain]
<1>1. /\ NextLine /\ function /\ indentation_level > 0
      /\ line' \in 0 .. MaxLines /\ line + 1 \in Nat
  BY NextLineType DEF ChainLine
<1>2. /\ d \in 0 .. BodyCap - 1
      /\ Closing \in Body
      /\ Closing = open[Len(open)]
      /\ Closing.kind = bodies[d]
  BY <1>1, ClosingIsInnermost
<1>3. /\ open \in Seq(Body)
      /\ Len(open) = d + 1
      /\ indentation_level = d + 1
      /\ d \in Nat
      /\ assembly \in Seq(Items)
  BY <1>1, <1>2, BodyCapAssumption DEF Inv, TypeOK, Nesting
<1>4. b \in Body /\ b.kind = k /\ k \in Kinds
  BY <1>1, <1>2 DEF Body, Kinds
<1>5. CASE d = 0 /\ bodies[0] # "function"
  <2>1. Fail /\ UNCHANGED wellFormed
    BY <1>5 DEF ChainLine
  <2>2. open[1].kind # "function" /\ Len(open) = 1
    BY <1>2, <1>3, <1>5
  <2>3. ~wellFormed
    BY <2>2 DEF Inv, Nesting
  <2>4. wellFormed' \in BOOLEAN
    BY <2>1 DEF Inv, TypeOK
  <2>5. QED
    BY <1>1, <2>1, <2>3, <2>4, FailInv
<1>6. CASE ~(d = 0 /\ bodies[0] # "function")
  <2>1. /\ bodies' = [bodies EXCEPT ![d] = k]
        /\ function' = (d > 0)
        /\ assembly' = assembly \o CloseCode(Closing, d, TRUE) \o OpenCode(b, d)
        /\ open' = [open EXCEPT ![Len(open)] = b]
        /\ wellFormed' = (wellFormed /\ Closing.kind \in {"if", "elif"})
        /\ UNCHANGED <<indentation_level, status>>
    BY <1>6 DEF ChainLine, StillInFunction, Marked
  <2>2. CloseCode(Closing, d, TRUE) \in Seq(Items) /\ OpenCode(b, d) \in Seq(Items)
    BY <1>2, <1>3, <1>4, CloseCodeType, OpenCodeType
  <2> HIDE DEF d, b
  <2>3. assembly' \in Seq(Items)
    BY <1>3, <2>1, <2>2, ConcatType
  <2>4. /\ open' \in Seq(Body)
        /\ Len(open') = d + 1
        /\ open'[d + 1] = b
        /\ \A i \in 1 .. d : open'[i] = open[i]
    BY <1>3, <1>4, <2>1
  <2>5. bodies' \in [0 .. BodyCap - 1 -> Kinds \cup {"UNSET"}]
    BY <1>2, <1>4, <2>1 DEF Inv, TypeOK
  <2>6. wellFormed' \in BOOLEAN
    BY <2>1
  <2>7. TypeOK'
    <3>1. indentation_level' \in 0 .. BodyCap /\ status' \in {"ok", "error", "corrupt"}
      BY <2>1 DEF Inv, TypeOK
    <3>2. function' \in BOOLEAN
      BY <2>1
    <3>3. QED
      BY <1>1, <2>3, <2>4, <2>5, <2>6, <3>1, <3>2 DEF TypeOK
  <2>8. \A i \in 1 .. Len(open') : bodies'[i - 1] = open'[i].kind
    <3>1. ASSUME NEW i \in 1 .. d PROVE bodies'[i - 1] = open'[i].kind
      <4>1. bodies[i - 1] = open[i].kind
        BY <1>3 DEF Inv, Nesting
      <4>2. bodies'[i - 1] = bodies[i - 1]
        BY <1>2, <1>3, <2>1 DEF Inv, TypeOK
      <4>3. QED
        BY <2>4, <4>1, <4>2
    <3>2. bodies'[d] = open'[d + 1].kind
      BY <1>2, <1>4, <2>1, <2>4 DEF Inv, TypeOK
    <3>3. QED
      BY <1>3, <2>4, <3>1, <3>2
  <2>9. wellFormed' => d > 0 /\ open'[1].kind = "function" /\ status' # "error"
    <3>1. SUFFICES ASSUME wellFormed' PROVE d > 0 /\ open'[1].kind = "function" /\ status' # "error"
      OBVIOUS
    <3>2. wellFormed /\ Closing.kind # "function"
      BY <2>1, <3>1
    <3>3. open[1].kind = "function"
      BY <1>3, <3>2 DEF Inv, Nesting
    <3>4. d > 0
      BY <1>2, <1>3, <3>2, <3>3
    <3>5. QED
      BY <1>1, <1>3, <2>1, <2>4, <3>3, <3>4 DEF NextLine
  <2>10. Nesting'
    BY <1>1, <1>3, <2>1, <2>4, <2>8, <2>9 DEF Nesting
  <2>11. QED
    BY <2>7, <2>10 DEF Inv
<1>7. QED
  BY <1>5, <1>6

LEMMA NextInv == Inv /\ [Next]_vars => Inv'
<1> SUFFICES ASSUME Inv, [Next]_vars PROVE Inv'
  OBVIOUS
<1>1. CASE UNCHANGED vars
  BY <1>1 DEF vars, Inv, TypeOK, Nesting
<1>2. QED
  BY <1>1, FunctionLineInv, OpenLineInv, CloseLineInv, ChainLineInv DEF Next

LEMMA SpecInv == Spec => []Inv
  BY InitInv, NextInv, PTL DEF Spec

-----------------------------------------------------------------------------
\* Every variable keeps its type; in particular the level written to is always
\* within the bodies array, or compilation has been declared corrupt.
THEOREM TypeCorrect == Spec => []TypeOK
<1>1. Inv => TypeOK
  BY DEF Inv
<1>2. QED
  BY <1>1, SpecInv, PTL

\* The kinds stored for the open bodies are those of the source.
THEOREM ContextCorrect == Spec => []ContextMatchesSource
<1>1. Inv => ContextMatchesSource
  BY DEF Inv, Nesting, ContextMatchesSource
<1>2. QED
  BY <1>1, SpecInv, PTL

\* The braces of a well-formed program always compile.
THEOREM BracesCompile == Spec => []NeverFails
<1>1. Inv => NeverFails
  BY DEF Inv, Nesting, NeverFails
<1>2. QED
  BY <1>1, SpecInv, PTL

-----------------------------------------------------------------------------
(***************************************************************************)
(* Where jumps land.  A local label is found by its number alone, so what  *)
(* a jump reaches depends on all that is written around it.  Of the code   *)
(* written so far, Kept says                                               *)
(*   - a forward jump has found the place it means, or that place is one   *)
(*     still ahead and no label in between has its number;                 *)
(*   - a backward jump has found the place it means;                       *)
(*   - the places in behind are what a backward jump written now finds.    *)
(* It is kept item by item; Ahead and Behind give the places the open      *)
(* bodies still owe, and those their closing brace may jump back to.       *)
(***************************************************************************)
Place(n, role, of) == [n |-> n, role |-> role, of |-> of]
PlaceOf(x) == Place(x.n, x.role, x.of)
IsLabel(x, n) == x.op = "label" /\ x.n = n
Marks(x, place) == x.op = "label" /\ PlaceOf(x) = place

ForwardKept(a, ahead) ==
  \A i \in 1 .. Len(a) : a[i].op \in ForwardJumps =>
    \/ \E j \in 1 .. Len(a) :
         /\ i < j /\ Marks(a[j], PlaceOf(a[i]))
         /\ \A k \in 1 .. Len(a) : i < k /\ k < j => ~IsLabel(a[k], a[i].n)
    \/ /\ PlaceOf(a[i]) \in ahead
       /\ \A k \in 1 .. Len(a) : i < k => ~IsLabel(a[k], a[i].n)

BackwardKept(a) ==
  \A i \in 1 .. Len(a) : a[i].op \in BackwardJumps =>
    \E j \in 1 .. Len(a) :
      /\ j < i /\ Marks(a[j], PlaceOf(a[i]))
      /\ \A k \in 1 .. Len(a) : j < k /\ k < i => ~IsLabel(a[k], a[i].n)

BehindKept(a, behind) ==
  \A p \in behind :
    \E j \in 1 .. Len(a) :
      /\ Marks(a[j], p)
      /\ \A k \in 1 .. Len(a) : j < k => ~IsLabel(a[k], p.n)

Kept(a, ahead, behind) ==
  ForwardKept(a, ahead) /\ BackwardKept(a) /\ BehindKept(a, behind)

\* The places of another number than n.
Without(places, n) == {p \in places : p.n # n}

LEMMA AppendIs ==
  ASSUME NEW S, NEW a \in Seq(S), NEW x \in S
  PROVE  /\ Append(a, x) \in Seq(S) /\ Len(Append(a, x)) = Len(a) + 1 /\ Len(a) \in Nat
         /\ Append(a, x)[Len(a) + 1] = x
         /\ \A i \in 1 .. Len(a) : Append(a, x)[i] = a[i]
  OBVIOUS

\* Places may be expected that never come, and forgotten.
LEMMA KeptWeakens ==
  ASSUME NEW a, NEW ahead, NEW behind, Kept(a, ahead, behind),
         NEW more, ahead \subseteq more, NEW less, less \subseteq behind
  PROVE  Kept(a, more, less)
<1>1. ForwardKept(a, more)
  BY DEF Kept, ForwardKept
<1>2. BehindKept(a, less)
  BY DEF Kept, BehindKept
<1>3. QED
  BY <1>1, <1>2 DEF Kept

\* A label that is what every place ahead of its number asks for: the jumps
\* to that number have found it, and jumps back find it from now on.
LEMMA KeptByLabel ==
  ASSUME NEW a \in Seq(Items), NEW ahead, NEW behind, Kept(a, ahead, behind),
         NEW x \in Items, x.op = "label",
         \A p \in ahead : p.n = x.n => p = PlaceOf(x)
  PROVE  Kept(Append(a, x), Without(ahead, x.n), Without(behind, x.n) \cup {PlaceOf(x)})
<1> DEFINE b == Append(a, x)
           m == Len(a)
<1>1. /\ m \in Nat /\ Len(b) = m + 1 /\ b[m + 1] = x
      /\ \A i \in 1 .. m : b[i] = a[i]
  BY AppendIs
<1> HIDE DEF b, m
<1>2. ASSUME NEW i \in 1 .. m + 1, b[i].op \in ForwardJumps
      PROVE  \/ \E j \in 1 .. m + 1 :
                  /\ i < j /\ Marks(b[j], PlaceOf(b[i]))
                  /\ \A k \in 1 .. m + 1 : i < k /\ k < j => ~IsLabel(b[k], b[i].n)
             \/ /\ PlaceOf(b[i]) \in Without(ahead, x.n)
                /\ \A k \in 1 .. m + 1 : i < k => ~IsLabel(b[k], b[i].n)
  <2>1. i \in 1 .. m /\ b[i] = a[i] /\ a[i].op \in ForwardJumps
    <3>1. i # m + 1
      BY <1>1, <1>2 DEF ForwardJumps
    <3>2. QED
      BY <1>1, <1>2, <3>1
  <2>2. CASE \E j \in 1 .. m :
               /\ i < j /\ Marks(a[j], PlaceOf(a[i]))
               /\ \A k \in 1 .. m : i < k /\ k < j => ~IsLabel(a[k], a[i].n)
    <3>1. PICK j \in 1 .. m :
               /\ i < j /\ Marks(a[j], PlaceOf(a[i]))
               /\ \A k \in 1 .. m : i < k /\ k < j => ~IsLabel(a[k], a[i].n)
      BY <2>2
    <3>2. j \in 1 .. m + 1 /\ i < j /\ Marks(b[j], PlaceOf(b[i]))
      BY <1>1, <2>1, <3>1
    <3>3. \A k \in 1 .. m + 1 : i < k /\ k < j => ~IsLabel(b[k], b[i].n)
      BY <1>1, <2>1, <3>1
    <3>4. QED
      BY <3>2, <3>3
  <2>3. CASE PlaceOf(a[i]) \in ahead /\ \A k \in 1 .. m : i < k => ~IsLabel(a[k], a[i].n)
    <3>1. CASE a[i].n = x.n
      <4>1. PlaceOf(a[i]) = PlaceOf(x)
        BY <2>3, <3>1 DEF PlaceOf, Place
      <4>2. m + 1 \in 1 .. m + 1 /\ i < m + 1 /\ Marks(b[m + 1], PlaceOf(b[i]))
        BY <1>1, <2>1, <4>1 DEF Marks
      <4>3. \A k \in 1 .. m + 1 : i < k /\ k < m + 1 => ~IsLabel(b[k], b[i].n)
        BY <1>1, <2>1, <2>3
      <4>4. QED
        BY <4>2, <4>3
    <3>2. CASE a[i].n # x.n
      <4>1. PlaceOf(b[i]).n = a[i].n
        BY <2>1 DEF PlaceOf, Place
      <4>2. ~IsLabel(x, a[i].n)
        BY <3>2 DEF IsLabel
      <4>3. \A k \in 1 .. m + 1 : i < k => ~IsLabel(b[k], b[i].n)
        BY <1>1, <2>1, <2>3, <4>2
      <4>4. QED
        BY <2>1, <2>3, <3>2, <4>1, <4>3 DEF Without
    <3>3. QED
      BY <3>1, <3>2
  <2>4. QED
    BY <2>1, <2>2, <2>3 DEF Kept, ForwardKept, m
<1>3. ForwardKept(b, Without(ahead, x.n))
  BY <1>1, <1>2 DEF ForwardKept
<1>4. BackwardKept(b)
  <2>1. SUFFICES ASSUME NEW i \in 1 .. m + 1, b[i].op \in BackwardJumps
                 PROVE  \E j \in 1 .. m + 1 :
                          /\ j < i /\ Marks(b[j], PlaceOf(b[i]))
                          /\ \A k \in 1 .. m + 1 : j < k /\ k < i => ~IsLabel(b[k], b[i].n)
    BY <1>1 DEF BackwardKept
  <2>2. i # m + 1
    BY <1>1, <2>1 DEF BackwardJumps
  <2>3. i \in 1 .. m /\ b[i] = a[i] /\ a[i].op \in BackwardJumps
    BY <1>1, <2>1, <2>2
  <2>4. PICK j \in 1 .. m :
          /\ j < i /\ Marks(a[j], PlaceOf(a[i]))
          /\ \A k \in 1 .. m : j < k /\ k < i => ~IsLabel(a[k], a[i].n)
    BY <2>3 DEF Kept, BackwardKept, m
  <2>5. j \in 1 .. m + 1 /\ Marks(b[j], PlaceOf(b[i]))
    BY <1>1, <2>3, <2>4
  <2>6. \A k \in 1 .. m + 1 : j < k /\ k < i => ~IsLabel(b[k], b[i].n)
    BY <1>1, <2>3, <2>4
  <2>7. QED
    BY <2>4, <2>5, <2>6
<1>5. BehindKept(b, Without(behind, x.n) \cup {PlaceOf(x)})
  <2>1. ASSUME NEW p \in behind, p.n # x.n
        PROVE  \E j \in 1 .. m + 1 :
                 Marks(b[j], p) /\ \A k \in 1 .. m + 1 : j < k => ~IsLabel(b[k], p.n)
    <3>1. PICK j \in 1 .. m : Marks(a[j], p) /\ \A k \in 1 .. m : j < k => ~IsLabel(a[k], p.n)
      BY DEF Kept, BehindKept, m
    <3>2. ~IsLabel(x, p.n)
      BY <2>1 DEF IsLabel
    <3>3. j \in 1 .. m + 1 /\ Marks(b[j], p)
      BY <1>1, <3>1
    <3>4. \A k \in 1 .. m + 1 : j < k => ~IsLabel(b[k], p.n)
      BY <1>1, <3>1, <3>2
    <3>5. QED
      BY <3>3, <3>4
  <2>2. /\ m + 1 \in 1 .. m + 1 /\ Marks(b[m + 1], PlaceOf(x))
        /\ \A k \in 1 .. m + 1 : m + 1 < k => ~IsLabel(b[k], PlaceOf(x).n)
    BY <1>1 DEF Marks
  <2>3. QED
    BY <1>1, <2>1, <2>2 DEF BehindKept, Without
<1>6. QED
  BY <1>3, <1>4, <1>5 DEF Kept, b

\* Anything else that is written disturbs no place; a forward jump owes one,
\* a backward jump needs one behind it.
LEMMA KeptByOther ==
  ASSUME NEW a \in Seq(Items), NEW ahead, NEW behind, Kept(a, ahead, behind),
         NEW x \in Items, x.op # "label",
         x.op \in BackwardJumps => PlaceOf(x) \in behind
  PROVE  Kept(Append(a, x), IF x.op \in ForwardJumps THEN ahead \cup {PlaceOf(x)} ELSE ahead, behind)
<1> DEFINE b == Append(a, x)
           m == Len(a)
           more == IF x.op \in ForwardJumps THEN ahead \cup {PlaceOf(x)} ELSE ahead
<1>1. /\ m \in Nat /\ Len(b) = m + 1 /\ b[m + 1] = x
      /\ \A i \in 1 .. m : b[i] = a[i]
  BY AppendIs
<1>2. \A n : ~IsLabel(x, n)
  BY DEF IsLabel
<1>3. ahead \subseteq more /\ (x.op \in ForwardJumps => PlaceOf(x) \in more)
  OBVIOUS
<1> HIDE DEF b, m, more
<1>4. ASSUME NEW i \in 1 .. m + 1, b[i].op \in ForwardJumps
      PROVE  \/ \E j \in 1 .. m + 1 :
                  /\ i < j /\ Marks(b[j], PlaceOf(b[i]))
                  /\ \A k \in 1 .. m + 1 : i < k /\ k < j => ~IsLabel(b[k], b[i].n)
             \/ /\ PlaceOf(b[i]) \in more
                /\ \A k \in 1 .. m + 1 : i < k => ~IsLabel(b[k], b[i].n)
  <2>1. CASE i = m + 1
    BY <1>1, <1>3, <1>4, <2>1
  <2>2. CASE i \in 1 .. m
    <3>1. b[i] = a[i] /\ a[i].op \in ForwardJumps
      BY <1>1, <1>4, <2>2
    <3>2. CASE \E j \in 1 .. m :
                 /\ i < j /\ Marks(a[j], PlaceOf(a[i]))
                 /\ \A k \in 1 .. m : i < k /\ k < j => ~IsLabel(a[k], a[i].n)
      <4>1. PICK j \in 1 .. m :
                 /\ i < j /\ Marks(a[j], PlaceOf(a[i]))
                 /\ \A k \in 1 .. m : i < k /\ k < j => ~IsLabel(a[k], a[i].n)
        BY <3>2
      <4>2. j \in 1 .. m + 1 /\ i < j /\ Marks(b[j], PlaceOf(b[i]))
        BY <1>1, <3>1, <4>1
      <4>3. \A k \in 1 .. m + 1 : i < k /\ k < j => ~IsLabel(b[k], b[i].n)
        BY <1>1, <1>2, <3>1, <4>1
      <4>4. QED
        BY <4>2, <4>3
    <3>3. CASE PlaceOf(a[i]) \in ahead /\ \A k \in 1 .. m : i < k => ~IsLabel(a[k], a[i].n)
      <4>1. PlaceOf(b[i]) \in more
        BY <1>3, <3>1, <3>3
      <4>2. \A k \in 1 .. m + 1 : i < k => ~IsLabel(b[k], b[i].n)
        BY <1>1, <1>2, <3>1, <3>3
      <4>3. QED
        BY <4>1, <4>2
    <3>4. QED
      BY <2>2, <3>1, <3>2, <3>3 DEF Kept, ForwardKept, m
  <2>3. QED
    BY <1>1, <2>1, <2>2
<1>5. ForwardKept(b, more)
  BY <1>1, <1>4 DEF ForwardKept
<1>6. ASSUME NEW p, NEW j \in 1 .. m, Marks(a[j], p), \A k \in 1 .. m : j < k => ~IsLabel(a[k], p.n)
      PROVE  /\ j \in 1 .. m + 1 /\ j < m + 1 /\ Marks(b[j], p)
             /\ \A k \in 1 .. m + 1 : j < k => ~IsLabel(b[k], p.n)
  <2>1. j \in 1 .. m + 1 /\ j < m + 1 /\ b[j] = a[j]
    BY <1>1
  <2>2. ASSUME NEW k \in 1 .. m + 1, j < k PROVE ~IsLabel(b[k], p.n)
    <3>1. CASE k = m + 1
      BY <1>1, <1>2, <3>1
    <3>2. CASE k # m + 1
      <4>1. k \in 1 .. m
        BY <1>1, <3>2
      <4>2. QED
        BY <1>1, <1>6, <2>2, <4>1
    <3>3. QED
      BY <3>1, <3>2
  <2>3. QED
    BY <1>6, <2>1, <2>2
<1>7. BackwardKept(b)
  <2>1. SUFFICES ASSUME NEW i \in 1 .. m + 1, b[i].op \in BackwardJumps
                 PROVE  \E j \in 1 .. m + 1 :
                          /\ j < i /\ Marks(b[j], PlaceOf(b[i]))
                          /\ \A k \in 1 .. m + 1 : j < k /\ k < i => ~IsLabel(b[k], b[i].n)
    BY <1>1 DEF BackwardKept
  <2>2. CASE i = m + 1
    <3>1. b[i] = x /\ PlaceOf(x) \in behind /\ PlaceOf(x).n = x.n
      BY <1>1, <2>1, <2>2 DEF PlaceOf, Place
    <3>2. PICK j \in 1 .. m : /\ Marks(a[j], PlaceOf(x))
                              /\ \A k \in 1 .. m : j < k => ~IsLabel(a[k], PlaceOf(x).n)
      BY <3>1 DEF Kept, BehindKept, m
    <3>3. /\ j \in 1 .. m + 1 /\ j < i /\ Marks(b[j], PlaceOf(b[i]))
          /\ \A k \in 1 .. m + 1 : j < k => ~IsLabel(b[k], b[i].n)
      BY <1>6, <2>2, <3>1, <3>2
    <3>4. QED
      BY <3>3
  <2>3. CASE i \in 1 .. m
    <3>1. b[i] = a[i] /\ a[i].op \in BackwardJumps
      BY <1>1, <2>1, <2>3
    <3>2. PICK j \in 1 .. m :
            /\ j < i /\ Marks(a[j], PlaceOf(a[i]))
            /\ \A k \in 1 .. m : j < k /\ k < i => ~IsLabel(a[k], a[i].n)
      BY <2>3, <3>1 DEF Kept, BackwardKept, m
    <3>3. j \in 1 .. m + 1 /\ Marks(b[j], PlaceOf(b[i]))
      BY <1>1, <3>1, <3>2
    <3>4. \A k \in 1 .. m + 1 : j < k /\ k < i => ~IsLabel(b[k], b[i].n)
      BY <1>1, <2>3, <3>1, <3>2
    <3>5. QED
      BY <3>2, <3>3, <3>4
  <2>4. QED
    BY <1>1, <2>2, <2>3
<1>8. BehindKept(b, behind)
  <2>1. ASSUME NEW p \in behind
        PROVE  \E j \in 1 .. m + 1 :
                 Marks(b[j], p) /\ \A k \in 1 .. m + 1 : j < k => ~IsLabel(b[k], p.n)
    <3>1. PICK j \in 1 .. m : Marks(a[j], p) /\ \A k \in 1 .. m : j < k => ~IsLabel(a[k], p.n)
      BY DEF Kept, BehindKept, m
    <3>2. QED
      BY <1>6, <3>1
  <2>2. QED
    BY <1>1, <2>1 DEF BehindKept
<1>9. QED
  BY <1>5, <1>7, <1>8 DEF Kept, b, more

\* What the body in slot d of bodies owes the jumps written so far: its own
\* end, when it has a test, and the end of its chain, when a brace of the
\* chain has been passed.
Owed(b, d) ==
  (IF b.kind \in Tested THEN {Place(Number(d, TestOffset[b.kind]), "close", b.id)} ELSE {})
  \cup (IF b.kind \in ChainKinds THEN {Place(Number(d, ChainOffset), "chain_end", b.chain)} ELSE {})

\* The place the closing brace of a while jumps back to.
Start(b, d) == IF b.kind = "while" THEN {Place(Number(d, OpenOffset["while"]), "open", b.id)} ELSE {}

\* Those of the bodies in the slots below top; the function in slot 0 has none.
Ahead(o, top)  == UNION {Owed(o[d + 1], d) : d \in 1 .. top - 1}
Behind(o, top) == UNION {Start(o[d + 1], d) : d \in 1 .. top - 1}

JumpsKept == wellFormed => Kept(assembly, Ahead(open, Len(open)), Behind(open, Len(open)))

\* The offsets that fit below the next depth's labels.
LabelOffsets == 0 .. LabelIterate - 1

\* A label's number tells its depth and its place in the body apart.
LEMMA NumberApart ==
  \A d, e \in Nat : \A x, y \in LabelOffsets :
    Number(d, x) = Number(e, y) => d = e /\ x = y
  BY DEF Number, LabelIterate, LabelOffsets

LEMMA Offsets ==
  /\ ChainOffset \in LabelOffsets
  /\ \A k \in Kinds : OpenOffset[k] \in LabelOffsets /\ CloseOffset[k] \in LabelOffsets
                      /\ OpenOffset[k] \in 1 .. 6 /\ CloseOffset[k] \in 11 .. 16
  /\ \A k \in Tested : k \in Kinds /\ TestOffset[k] = CloseOffset[k]
  /\ OpenOffset["while"] = 5
  BY DEF ChainOffset, OpenOffset, CloseOffset, TestOffset, Kinds, OpenKinds, ChainKinds, Tested,
     LabelOffsets, LabelIterate

\* A place a body owes has the body's depth, and is its end or its chain's.
LEMMA OwedPlace ==
  ASSUME NEW b \in Body, NEW e \in Nat, NEW p \in Owed(b, e),
         NEW d \in Nat, NEW x \in LabelOffsets, p.n = Number(d, x)
  PROVE  /\ d = e
         /\ \/ /\ b.kind \in Tested /\ x = CloseOffset[b.kind]
               /\ p = Place(Number(d, x), "close", b.id)
            \/ /\ b.kind \in ChainKinds /\ x = ChainOffset
               /\ p = Place(Number(d, x), "chain_end", b.chain)
<1>1. CASE b.kind \in Tested /\ p = Place(Number(e, TestOffset[b.kind]), "close", b.id)
  <2>1. p.n = Number(e, CloseOffset[b.kind]) /\ CloseOffset[b.kind] \in LabelOffsets
    BY <1>1, Offsets DEF Place
  <2>2. Number(d, x) = Number(e, CloseOffset[b.kind])
    BY <2>1
  <2>3. d = e /\ x = CloseOffset[b.kind]
    BY <2>1, <2>2, NumberApart
  <2>4. QED
    BY <1>1, <2>3, Offsets
<1>2. CASE b.kind \in ChainKinds /\ p = Place(Number(e, ChainOffset), "chain_end", b.chain)
  <2>1. p.n = Number(e, ChainOffset)
    BY <1>2 DEF Place
  <2>2. Number(d, x) = Number(e, ChainOffset) /\ ChainOffset \in LabelOffsets
    BY <2>1, Offsets
  <2>3. d = e /\ x = ChainOffset
    BY <2>2, NumberApart
  <2>4. QED
    BY <1>2, <2>3
<1>3. QED
  BY <1>1, <1>2 DEF Owed

LEMMA ItemType ==
  ASSUME NEW op \in Ops, NEW d \in Nat, NEW x \in Nat, NEW role \in Roles, NEW of \in Nat
  PROVE  Item(op, Number(d, x), role, of) \in Items
<1>1. Number(d, x) \in Nat
  BY DEF Number, LabelIterate
<1>2. QED
  BY <1>1 DEF Item, Items

LEMMA ConcatOne ==
  ASSUME NEW S, NEW a \in Seq(S), NEW x \in S
  PROVE  a \o <<x>> = Append(a, x)
  OBVIOUS

LEMMA ConcatAssoc ==
  ASSUME NEW S, NEW a \in Seq(S), NEW s \in Seq(S), NEW t \in Seq(S)
  PROVE  a \o (s \o t) = (a \o s) \o t
  OBVIOUS

LEMMA PairIs ==
  ASSUME NEW S, NEW x \in S, NEW y \in S
  PROVE  <<x>> \o <<y>> = <<x, y>>
<1> DEFINE s == <<x>> \o <<y>>   t == <<x, y>>
<1>1. <<x>> \in Seq(S) /\ <<y>> \in Seq(S)
  OBVIOUS
<1>2. s \in Seq(S) /\ Len(s) = 2 /\ s[1] = x /\ s[2] = y
  BY <1>1
<1>3. t \in Seq(S) /\ Len(t) = 2 /\ t[1] = x /\ t[2] = y
  OBVIOUS
<1> HIDE DEF s, t
<1>4. \A i \in 1 .. Len(s) : s[i] = t[i]
  BY <1>2, <1>3
<1>5. s = t
  BY <1>2, <1>3, <1>4, SeqEqual
<1>6. QED
  BY <1>5 DEF s, t

\* Opening a body: its label must not be one that is awaited.
LEMMA KeptByOpen ==
  ASSUME NEW a \in Seq(Items), NEW ahead, NEW behind, Kept(a, ahead, behind),
         NEW b \in Body, NEW d \in Nat,
         \A p \in ahead : p.n # Number(d, OpenOffset[b.kind])
  PROVE  Kept(a \o OpenCode(b, d),
              IF b.kind \in Tested
              THEN ahead \cup {Place(Number(d, TestOffset[b.kind]), "close", b.id)} ELSE ahead,
              Without(behind, Number(d, OpenOffset[b.kind]))
                \cup {Place(Number(d, OpenOffset[b.kind]), "open", b.id)})
<1> DEFINE n    == Number(d, OpenOffset[b.kind])
           cond == Item("cond", 0, "none", b.id)
           mark == Item("label", n, "open", b.id)
           test == Item("jz_f", Number(d, TestOffset[b.kind]), "close", b.id)
           rest == Without(behind, n) \cup {Place(n, "open", b.id)}
<1>1. cond \in Items /\ mark \in Items
  <2>1. b.id \in Nat /\ OpenOffset[b.kind] \in Nat
    BY Offsets DEF Body
  <2>2. cond \in Items
    BY <2>1 DEF Item, Items, Ops, Roles
  <2>3. QED
    BY <2>1, <2>2, ItemType DEF Ops, Roles
<1>2. b.kind \in Tested => test \in Items
  BY Offsets, ItemType DEF Ops, Roles, Body, ForwardJumps
<1>3. /\ mark.op = "label" /\ mark.n = n /\ PlaceOf(mark) = Place(n, "open", b.id)
      /\ cond.op = "cond" /\ test.op = "jz_f"
      /\ PlaceOf(test) = Place(Number(d, TestOffset[b.kind]), "close", b.id)
  BY DEF Item, PlaceOf, Place
<1>4. OpenCode(b, d) = IF b.kind \in Tested THEN <<cond>> \o <<mark>> \o <<test>> ELSE <<mark>>
  BY DEF OpenCode
<1>5. ASSUME NEW c \in Seq(Items), Kept(c, ahead, behind)
      PROVE  Kept(Append(c, mark), ahead, rest)
  <2> HIDE DEF mark, n
  <2>1. Kept(Append(c, mark), Without(ahead, n), rest)
    <3>1. \A p \in ahead : p.n = mark.n => p = PlaceOf(mark)
      BY <1>3 DEF n
    <3>2. QED
      BY <1>1, <1>3, <1>5, <3>1, KeptByLabel
  <2> HIDE DEF rest
  <2>2. Without(ahead, n) \subseteq ahead
    BY DEF Without
  <2>3. QED
    BY <2>1, <2>2, KeptWeakens
<1>6. CASE b.kind \notin Tested
  <2> HIDE DEF mark, n, rest
  <2>1. a \o OpenCode(b, d) = Append(a, mark)
    BY <1>1, <1>4, <1>6, ConcatOne
  <2>2. Kept(Append(a, mark), ahead, rest)
    BY <1>5
  <2>3. QED
    BY <1>6, <2>1, <2>2 DEF rest, n
<1>7. CASE b.kind \in Tested
  <2> DEFINE more == ahead \cup {Place(Number(d, TestOffset[b.kind]), "close", b.id)}
             c1 == Append(a, cond)   c2 == Append(c1, mark)
  <2>1. test \in Items
    BY <1>2, <1>7
  <2> HIDE DEF mark, n, rest, cond, test
  <2>2. a \o OpenCode(b, d) = Append(c2, test)
    <3>1. a \o OpenCode(b, d) = ((a \o <<cond>>) \o <<mark>>) \o <<test>>
      <4>1. /\ <<cond>> \in Seq(Items) /\ <<mark>> \in Seq(Items) /\ <<test>> \in Seq(Items)
            /\ <<cond>> \o <<mark>> \in Seq(Items)
        BY <1>1, <2>1
      <4>2. a \o OpenCode(b, d) = (a \o (<<cond>> \o <<mark>>)) \o <<test>>
        BY <1>4, <1>7, <4>1, ConcatAssoc
      <4>3. a \o (<<cond>> \o <<mark>>) = (a \o <<cond>>) \o <<mark>>
        BY <4>1, ConcatAssoc
      <4>4. QED
        BY <4>2, <4>3
    <3>2. a \o <<cond>> = c1 /\ c1 \in Seq(Items)
      BY <1>1, ConcatOne
    <3>3. c1 \o <<mark>> = c2 /\ c2 \in Seq(Items)
      <4> HIDE DEF c1
      <4>1. QED
        BY <1>1, <3>2, ConcatOne
    <3> HIDE DEF c1, c2
    <3>4. QED
      BY <2>1, <3>1, <3>2, <3>3, ConcatOne
  <2>3. c1 \in Seq(Items) /\ c2 \in Seq(Items)
    BY <1>1
  <2> HIDE DEF c1, c2
  <2>4. Kept(c1, ahead, behind)
    BY <1>1, <1>3, KeptByOther DEF c1, ForwardJumps, BackwardJumps
  <2>5. Kept(c2, ahead, rest)
    BY <1>5, <2>3, <2>4 DEF c2
  <2>6. test.op \in ForwardJumps /\ test.op \notin BackwardJumps /\ test.op # "label"
    BY <1>3 DEF ForwardJumps, BackwardJumps
  <2>7. Kept(Append(c2, test), ahead \cup {PlaceOf(test)}, rest)
    BY <2>1, <2>3, <2>5, <2>6, KeptByOther
  <2>8. Kept(Append(c2, test), more, rest)
    BY <1>3, <2>7
  <2>9. QED
    BY <1>7, <2>2, <2>8 DEF rest, n
<1>8. QED
  BY <1>6, <1>7

\* Closing a body: its two labels must be all that is awaited under their
\* numbers, and a while must find its own start behind it.
LEMMA KeptByClose ==
  ASSUME NEW a \in Seq(Items), NEW ahead, NEW behind, Kept(a, ahead, behind),
         NEW b \in Body, NEW d \in Nat, NEW chained \in BOOLEAN, d > 0, b.kind # "bare",
         \A p \in ahead : p.n = Number(d, CloseOffset[b.kind]) =>
                            p = Place(Number(d, CloseOffset[b.kind]), "close", b.id),
         \A p \in ahead : p.n = Number(d, ChainOffset) =>
                            p = Place(Number(d, ChainOffset), "chain_end", b.chain),
         b.kind = "while" => Place(Number(d, OpenOffset["while"]), "open", b.id) \in behind
  PROVE  Kept(a \o CloseCode(b, d, chained),
              Without(Without(ahead, Number(d, ChainOffset)), Number(d, CloseOffset[b.kind]))
              \cup (IF chained /\ b.kind \in Tested
                    THEN {Place(Number(d, ChainOffset), "chain_end", b.chain)} ELSE {}),
              Without(Without(behind, Number(d, ChainOffset)), Number(d, CloseOffset[b.kind])))
<1> DEFINE close == Number(d, CloseOffset[b.kind])
           chain == Number(d, ChainOffset)
           end   == Item("label", chain, "chain_end", b.chain)
           skip  == Item("jmp_f", chain, "chain_end", b.chain)
           again == Item("jmp_b", Number(d, OpenOffset["while"]), "open", b.id)
           mark  == Item("label", close, "close", b.id)
           skips == chained /\ b.kind \in Tested
           first == IF skips THEN skip ELSE end
           owed  == IF skips THEN {Place(chain, "chain_end", b.chain)} ELSE {}
           then  == Without(ahead, chain) \cup owed
           back  == Without(behind, chain)
           c1    == Append(a, first)
           c2    == IF b.kind = "while" THEN Append(c1, again) ELSE c1
<1>1. end \in Items /\ skip \in Items /\ again \in Items /\ mark \in Items /\ first \in Items
  BY Offsets, ItemType DEF Ops, Roles, Body, ForwardJumps, BackwardJumps, LabelOffsets
<1>2. /\ PlaceOf(end) = Place(chain, "chain_end", b.chain) /\ end.op = "label" /\ end.n = chain
      /\ PlaceOf(skip) = Place(chain, "chain_end", b.chain) /\ skip.op = "jmp_f"
      /\ PlaceOf(again) = Place(Number(d, OpenOffset["while"]), "open", b.id) /\ again.op = "jmp_b"
      /\ PlaceOf(mark) = Place(close, "close", b.id) /\ mark.op = "label" /\ mark.n = close
  BY DEF PlaceOf, Place, Item
<1>3. close # chain /\ Number(d, OpenOffset["while"]) # chain
  <2>1. CloseOffset[b.kind] \in LabelOffsets /\ CloseOffset[b.kind] # ChainOffset
    BY Offsets DEF Body, ChainOffset
  <2>2. OpenOffset["while"] \in LabelOffsets /\ OpenOffset["while"] # ChainOffset
    BY Offsets DEF Kinds, OpenKinds, ChainOffset
  <2>3. QED
    BY <2>1, <2>2, NumberApart, Offsets
<1>4. a \o CloseCode(b, d, chained) = Append(c2, mark) /\ c2 \in Seq(Items)
  <2>1. CloseCode(b, d, chained) = <<first>> \o (IF b.kind = "while" THEN <<again, mark>> ELSE <<mark>>)
    BY DEF CloseCode
  <2> HIDE DEF mark, again, first
  <2>2. <<first>> \in Seq(Items) /\ <<again>> \in Seq(Items) /\ <<mark>> \in Seq(Items)
    BY <1>1
  <2>3. c1 \in Seq(Items) /\ a \o <<first>> = c1
    BY <1>1, ConcatOne
  <2> HIDE DEF c1
  <2>4. CASE b.kind = "while"
    <3>1. <<again, mark>> = <<again>> \o <<mark>>
      BY <1>1, PairIs
    <3>2. a \o CloseCode(b, d, chained) = (a \o <<first>>) \o (<<again>> \o <<mark>>)
      <4>1. <<again>> \o <<mark>> \in Seq(Items)
        BY <2>2
      <4>2. a \o (<<first>> \o (<<again>> \o <<mark>>)) = (a \o <<first>>) \o (<<again>> \o <<mark>>)
        BY <2>2, <4>1, ConcatAssoc
      <4>3. QED
        BY <2>1, <2>4, <3>1, <4>2
    <3>3. c1 \o (<<again>> \o <<mark>>) = (c1 \o <<again>>) \o <<mark>>
      BY <2>2, <2>3, ConcatAssoc
    <3>4. c1 \o <<again>> = c2 /\ c2 \in Seq(Items)
      BY <1>1, <2>3, <2>4, ConcatOne
    <3> HIDE DEF c2
    <3>5. c2 \o <<mark>> = Append(c2, mark)
      BY <1>1, <3>4, ConcatOne
    <3>6. QED
      BY <2>3, <3>2, <3>3, <3>4, <3>5
  <2>5. CASE b.kind # "while"
    <3>1. a \o CloseCode(b, d, chained) = (a \o <<first>>) \o <<mark>>
      BY <2>1, <2>2, <2>5, ConcatAssoc
    <3>2. c2 = c1
      BY <2>5
    <3> HIDE DEF c2
    <3>3. c1 \o <<mark>> = Append(c1, mark)
      BY <1>1, <2>3, ConcatOne
    <3>4. QED
      BY <2>3, <3>1, <3>2, <3>3
  <2>6. QED
    BY <2>4, <2>5
<1>5. Kept(c1, then, back)
  <2>1. CASE skips
    <3>1. first = skip /\ skip.op \in ForwardJumps /\ skip.op \notin BackwardJumps /\ skip.op # "label"
      BY <1>2, <2>1 DEF ForwardJumps, BackwardJumps
    <3> HIDE DEF skip, first
    <3>2. Kept(Append(a, skip), ahead \cup {PlaceOf(skip)}, behind)
      BY <1>1, <3>1, KeptByOther
    <3>3. ahead \cup {PlaceOf(skip)} \subseteq then
      BY <1>2, <2>1 DEF Without
    <3> HIDE DEF then, back
    <3>4. back \subseteq behind
      BY DEF back, Without
    <3>5. QED
      BY <3>1, <3>2, <3>3, <3>4, KeptWeakens
  <2>2. CASE ~skips
    <3>1. first = end
      BY <2>2
    <3>2. \A p \in ahead : p.n = end.n => p = PlaceOf(end)
      BY <1>2
    <3> HIDE DEF end, first, chain
    <3>3. Kept(Append(a, end), Without(ahead, end.n), Without(behind, end.n) \cup {PlaceOf(end)})
      BY <1>1, <1>2, <3>2, KeptByLabel
    <3>4. Without(ahead, end.n) \subseteq then /\ back \subseteq Without(behind, end.n) \cup {PlaceOf(end)}
      BY <1>2
    <3> HIDE DEF then, back
    <3>5. QED
      BY <3>1, <3>3, <3>4, KeptWeakens
  <2>3. QED
    BY <2>1, <2>2
<1>6. Kept(c2, then, back)
  <2>1. CASE b.kind = "while"
    <3>1. again.op \notin ForwardJumps /\ again.op # "label"
      BY <1>2 DEF ForwardJumps
    <3>2. PlaceOf(again) \in back
      BY <1>2, <1>3, <2>1 DEF Place, Without
    <3>3. c1 \in Seq(Items)
      BY <1>1
    <3> HIDE DEF c1, again, then, back
    <3>4. Kept(Append(c1, again), then, back)
      BY <1>1, <1>5, <3>1, <3>2, <3>3, KeptByOther
    <3>5. QED
      BY <2>1, <3>4
  <2>2. CASE b.kind # "while"
    BY <1>5, <2>2
  <2>3. QED
    BY <2>1, <2>2
<1>7. \A p \in then : p.n = close => p = PlaceOf(mark)
  BY <1>2, <1>3 DEF Place, Without
<1> HIDE DEF c1, c2, mark, then, back
<1>8. Kept(Append(c2, mark), Without(then, close), Without(back, close) \cup {PlaceOf(mark)})
  BY <1>1, <1>2, <1>4, <1>6, <1>7, KeptByLabel
<1>9. /\ Without(then, close) \subseteq Without(Without(ahead, chain), close) \cup owed
      /\ Without(Without(behind, chain), close) \subseteq Without(back, close) \cup {PlaceOf(mark)}
  BY DEF then, back, Without
<1>10. Kept(Append(c2, mark), Without(Without(ahead, chain), close) \cup owed,
            Without(Without(behind, chain), close))
  BY <1>8, <1>9, KeptWeakens
<1>11. QED
  BY <1>4, <1>10

-----------------------------------------------------------------------------
\* Nothing the bodies below slot d wait for, or can be jumped back to, has a
\* number of depth d.
LEMMA LowerDepth ==
  ASSUME NEW o \in Seq(Body), NEW d \in Nat, d <= Len(o),
         NEW p \in Ahead(o, d) \cup Behind(o, d), NEW x \in LabelOffsets
  PROVE  p.n # Number(d, x)
<1> SUFFICES ASSUME p.n = Number(d, x) PROVE FALSE
  OBVIOUS
<1>1. PICK e \in 1 .. d - 1 : p \in Owed(o[e + 1], e) \cup Start(o[e + 1], e)
  BY DEF Ahead, Behind
<1>2. e \in Nat /\ e # d /\ o[e + 1] \in Body
  BY <1>1
<1>3. CASE p \in Owed(o[e + 1], e)
  BY <1>2, <1>3, OwedPlace
<1>4. CASE p \in Start(o[e + 1], e)
  <2>1. p.n = Number(e, OpenOffset["while"]) /\ OpenOffset["while"] \in LabelOffsets
    BY <1>4, Offsets DEF Start, Place, Kinds, OpenKinds
  <2>2. Number(d, x) = Number(e, OpenOffset["while"])
    BY <2>1
  <2>3. QED
    BY <1>2, <2>1, <2>2, NumberApart
<1>5. QED
  BY <1>1, <1>3, <1>4

\* One slot more.
LEMMA SlotAdded ==
  ASSUME NEW o, NEW d \in Nat \ {0}
  PROVE  /\ Ahead(o, d + 1) = Ahead(o, d) \cup Owed(o[d + 1], d)
         /\ Behind(o, d + 1) = Behind(o, d) \cup Start(o[d + 1], d)
<1>1. 1 .. (d + 1) - 1 = (1 .. d - 1) \cup {d}
  OBVIOUS
<1>2. QED
  BY <1>1 DEF Ahead, Behind

\* Only the bodies below slot d matter to what they owe.
LEMMA SameBelow ==
  ASSUME NEW o, NEW q, NEW d \in Nat, \A i \in 1 .. d : o[i] = q[i]
  PROVE  Ahead(o, d) = Ahead(q, d) /\ Behind(o, d) = Behind(q, d)
<1>1. \A e \in 1 .. d - 1 : o[e + 1] = q[e + 1]
  OBVIOUS
<1>2. QED
  BY <1>1 DEF Ahead, Behind

LEMMA NothingBelow ==
  ASSUME NEW o, NEW d \in {0, 1}
  PROVE  Ahead(o, d) = {} /\ Behind(o, d) = {}
<1>1. 1 .. d - 1 = {}
  OBVIOUS
<1>2. QED
  BY <1>1 DEF Ahead, Behind

LEMMA InitJumpsKept == Init => JumpsKept
<1>1. ASSUME Init PROVE Kept(<<>>, {}, {})
  <2>1. Len(<<>>) = 0 /\ 1 .. 0 = {}
    OBVIOUS
  <2>2. QED
    BY <2>1 DEF Kept, ForwardKept, BackwardKept, BehindKept
<1>2. Ahead(<<>>, 0) = {} /\ Behind(<<>>, 0) = {}
  BY NothingBelow
<1>3. QED
  BY <1>1, <1>2 DEF Init, JumpsKept

LEMMA FunctionLineKept == ASSUME Inv, JumpsKept, FunctionLine PROVE JumpsKept'
<1> SUFFICES ASSUME wellFormed' PROVE Kept(assembly', Ahead(open', Len(open')), Behind(open', Len(open')))
  BY DEF JumpsKept
<1>1. wellFormed /\ open = <<>>
  BY DEF FunctionLine
<1>2. Kept(assembly, {}, {})
  <2>1. Ahead(open, Len(open)) = {} /\ Behind(open, Len(open)) = {}
    BY <1>1, NothingBelow
  <2>2. QED
    BY <1>1, <2>1 DEF JumpsKept
<1>3. assembly' = assembly /\ Len(open') \in {0, 1}
  <2>1. CASE indentation_level # 0
    BY <1>1, <2>1 DEF FunctionLine, Fail
  <2>2. CASE indentation_level = 0
    BY <2>2 DEF FunctionLine
  <2>3. QED
    BY <2>1, <2>2
<1>4. Ahead(open', Len(open')) = {} /\ Behind(open', Len(open')) = {}
  BY <1>3, NothingBelow
<1>5. QED
  BY <1>2, <1>3, <1>4

LEMMA OpenLineKept ==
  ASSUME Inv, JumpsKept, NEW k \in OpenKinds, OpenLine(k)
  PROVE  JumpsKept'
<1> SUFFICES ASSUME wellFormed' PROVE Kept(assembly', Ahead(open', Len(open')), Behind(open', Len(open')))
  BY DEF JumpsKept
<1> DEFINE d == indentation_level
           b == [kind |-> k, id |-> line + 1, chain |-> line + 1]
           n == Number(d, OpenOffset[k])
           test == Place(Number(d, TestOffset[k]), "close", line + 1)
<1>1. /\ wellFormed /\ NextLine /\ function
      /\ Kept(assembly, Ahead(open, Len(open)), Behind(open, Len(open)))
  BY DEF OpenLine, JumpsKept
<1>2. CASE d = BodyCap
  BY <1>1, <1>2 DEF OpenLine
<1>3. CASE d # BodyCap
  <2>1. assembly' = assembly \o OpenCode(b, d) /\ open' = Append(open, b)
    BY <1>3 DEF OpenLine
  <2>2. b \in Body /\ b.kind = k /\ b.id = line + 1 /\ k \in Kinds
    BY <1>1, NextLineType DEF Body, Kinds
  <2>3. /\ d \in Nat \ {0} /\ Len(open) = d /\ open \in Seq(Body) /\ assembly \in Seq(Items)
    BY <1>1, BodyCapAssumption DEF Inv, TypeOK, Nesting
  <2> HIDE DEF b, d
  <2>4. Len(open') = d + 1 /\ open'[d + 1] = b /\ \A i \in 1 .. d : open'[i] = open[i]
    BY <2>1, <2>2, <2>3
  <2>5. /\ Ahead(open', d + 1) = Ahead(open, d) \cup Owed(b, d)
        /\ Behind(open', d + 1) = Behind(open, d) \cup Start(b, d)
    <3>1. d \in Nat /\ \A i \in 1 .. d : open'[i] = open[i]
      BY <2>3, <2>4
    <3>2. Ahead(open', d) = Ahead(open, d) /\ Behind(open', d) = Behind(open, d)
      BY <3>1, SameBelow
    <3>3. QED
      BY <2>3, <2>4, <3>2, SlotAdded
  <2>6. \A p \in Ahead(open, d) \cup Behind(open, d) : p.n # n
    <3>1. OpenOffset[k] \in LabelOffsets
      BY <2>2, Offsets
    <3>2. QED
      BY <2>3, <3>1, LowerDepth
  <2>7. Kept(assembly', IF k \in Tested THEN Ahead(open, d) \cup {test} ELSE Ahead(open, d),
             Without(Behind(open, d), n) \cup {Place(n, "open", line + 1)})
    <3>1. d \in Nat /\ n = Number(d, OpenOffset[b.kind]) /\ test = Place(Number(d, TestOffset[b.kind]), "close", b.id)
      BY <2>2, <2>3
    <3>2. \A p \in Ahead(open, d) : p.n # Number(d, OpenOffset[b.kind])
      BY <2>6, <3>1
    <3>3. Kept(assembly, Ahead(open, d), Behind(open, d))
      BY <1>1, <2>3
    <3>4. Kept(assembly \o OpenCode(b, d),
               IF b.kind \in Tested
               THEN Ahead(open, d) \cup {Place(Number(d, TestOffset[b.kind]), "close", b.id)}
               ELSE Ahead(open, d),
               Without(Behind(open, d), Number(d, OpenOffset[b.kind]))
                 \cup {Place(Number(d, OpenOffset[b.kind]), "open", b.id)})
      BY <2>2, <2>3, <3>1, <3>2, <3>3, KeptByOpen
    <3> HIDE DEF n, test
    <3>5. QED
      BY <2>1, <2>2, <3>1, <3>4
  <2>8. (IF k \in Tested THEN Ahead(open, d) \cup {test} ELSE Ahead(open, d))
          \subseteq Ahead(open, d) \cup Owed(b, d)
    BY <2>2 DEF Owed
  <2>9. Behind(open, d) \cup Start(b, d)
          \subseteq Without(Behind(open, d), n) \cup {Place(n, "open", line + 1)}
    BY <2>2, <2>6 DEF Start, Without
  <2>10. QED
    BY <2>4, <2>5, <2>7, <2>8, <2>9, KeptWeakens
<1>4. QED
  BY <1>2, <1>3

\* What the closing brace of the body in slot d > 0 may rely on.
LEMMA ClosingFits ==
  ASSUME NEW o \in Seq(Body), NEW d \in Nat \ {0}, Len(o) = d + 1
  PROVE  LET b == o[d + 1]
             close == Number(d, CloseOffset[b.kind])
             chain == Number(d, ChainOffset)
         IN /\ \A p \in Ahead(o, d + 1) : p.n = close => p = Place(close, "close", b.id)
            /\ \A p \in Ahead(o, d + 1) : p.n = chain => p = Place(chain, "chain_end", b.chain)
            /\ b.kind = "while" => Place(Number(d, OpenOffset["while"]), "open", b.id) \in Behind(o, d + 1)
            /\ Without(Without(Ahead(o, d + 1), chain), close) \subseteq Ahead(o, d)
            /\ Behind(o, d) \subseteq Without(Without(Behind(o, d + 1), chain), close)
            /\ \A p \in Ahead(o, d) : p.n # close /\ p.n # chain
            /\ b.kind = "bare" => Ahead(o, d + 1) = Ahead(o, d)
<1> DEFINE b == o[d + 1]
           close == Number(d, CloseOffset[b.kind])
           chain == Number(d, ChainOffset)
<1>1. b \in Body /\ b.kind \in Kinds /\ d \in Nat
  <2>1. d + 1 \in 1 .. Len(o)
    OBVIOUS
  <2>2. o[d + 1] \in Body
    BY <2>1
  <2>3. QED
    BY <2>2 DEF Body
<1>2. CloseOffset[b.kind] \in LabelOffsets /\ ChainOffset \in LabelOffsets /\ CloseOffset[b.kind] # ChainOffset
  BY <1>1, Offsets DEF ChainOffset
<1>3. /\ Ahead(o, d + 1) = Ahead(o, d) \cup Owed(b, d)
      /\ Behind(o, d + 1) = Behind(o, d) \cup Start(b, d)
  BY SlotAdded
<1>4. \A p \in Ahead(o, d) \cup Behind(o, d) : p.n # close /\ p.n # chain
  BY <1>1, <1>2, LowerDepth
<1> HIDE DEF b
<1>5. \A p \in Owed(b, d) : p.n = close => p = Place(close, "close", b.id)
  BY <1>1, <1>2, OwedPlace
<1>6. \A p \in Owed(b, d) : p.n = chain => p = Place(chain, "chain_end", b.chain)
  BY <1>1, <1>2, OwedPlace
<1>7. \A p \in Owed(b, d) : p.n = close \/ p.n = chain
  BY <1>1, Offsets DEF Owed, Place
<1>8. b.kind = "bare" => Owed(b, d) = {}
  BY DEF Owed, Tested, ChainKinds
<1>9. b.kind = "while" => Place(Number(d, OpenOffset["while"]), "open", b.id) \in Start(b, d)
  BY DEF Start
<1> HIDE DEF close, chain
<1>10. QED
  BY <1>3, <1>4, <1>5, <1>6, <1>7, <1>8, <1>9 DEF b, close, chain, Without

LEMMA CloseLineKept == ASSUME Inv, JumpsKept, CloseLine PROVE JumpsKept'
<1> SUFFICES ASSUME wellFormed' PROVE Kept(assembly', Ahead(open', Len(open')), Behind(open', Len(open')))
  BY DEF JumpsKept
<1> DEFINE d == indentation_level - 1
           b == open[d + 1]
           close == Number(d, CloseOffset[b.kind])
           chain == Number(d, ChainOffset)
           mark == Item("label", close, "close", b.id)
<1>1. NextLine /\ indentation_level > 0
  BY DEF CloseLine
<1>2. /\ d \in 0 .. BodyCap - 1 /\ d \in Nat /\ indentation_level = d + 1
      /\ Len(open) = d + 1 /\ open \in Seq(Body) /\ assembly \in Seq(Items)
      /\ Closing = b /\ b \in Body /\ b.kind \in Kinds /\ b.id \in Nat /\ b.kind = bodies[d]
  BY <1>1, ClosingIsInnermost, BodyCapAssumption DEF Inv, TypeOK, Nesting, Body
<1>3. CASE d = 0 /\ bodies[0] # "function"
  <2>1. ~wellFormed /\ UNCHANGED wellFormed
    <3>1. open[1].kind # "function" /\ Len(open) > 0
      BY <1>2, <1>3
    <3>2. QED
      BY <1>3, <3>1 DEF CloseLine, Inv, Nesting
  <2>2. QED
    BY <2>1
<1>4. CASE ~(d = 0 /\ bodies[0] # "function")
  <2>1. /\ assembly' = assembly \o CloseCode(b, d, FALSE)
        /\ open' = SubSeq(open, 1, Len(open) - 1)
        /\ wellFormed' = wellFormed
    BY <1>2, <1>4 DEF CloseLine
  <2> HIDE DEF d, b
  <2>2. Len(open') = d /\ \A i \in 1 .. d : open'[i] = open[i]
    BY <1>2, <2>1
  <2>3. Ahead(open', d) = Ahead(open, d) /\ Behind(open', d) = Behind(open, d)
    BY <1>2, <2>2, SameBelow
  <2>4. Kept(assembly, Ahead(open, d + 1), Behind(open, d + 1))
    BY <1>2, <2>1 DEF JumpsKept
  <2>5. mark \in Items /\ mark.op = "label" /\ mark.n = close /\ PlaceOf(mark) = Place(close, "close", b.id)
    <3>1. mark \in Items
      BY <1>2, Offsets, ItemType DEF Ops, Roles, LabelOffsets
    <3>2. QED
      BY <3>1 DEF Item, PlaceOf, Place
  <2>6. CASE d = 0 \/ b.kind = "bare"
    <3>1. assembly' = Append(assembly, mark)
      <4>1. CloseCode(b, d, FALSE) = <<mark>>
        BY <2>6 DEF CloseCode
      <4> HIDE DEF mark
      <4>2. QED
        BY <1>2, <2>1, <2>5, <4>1, ConcatOne
    <3> HIDE DEF mark
    <3>2. CASE d = 0
      <4>1. Ahead(open, d + 1) = {} /\ Behind(open, d + 1) = {}
        BY <3>2, NothingBelow
      <4>2. Kept(Append(assembly, mark), Without({}, mark.n),
                 Without({}, mark.n) \cup {PlaceOf(mark)})
        BY <1>2, <2>4, <2>5, <4>1, KeptByLabel
      <4>3. Kept(Append(assembly, mark), {}, {})
        BY <4>2, KeptWeakens DEF Without
      <4>4. Ahead(open', d) = {} /\ Behind(open', d) = {}
        BY <3>2, NothingBelow
      <4>5. QED
        BY <2>2, <3>1, <4>3, <4>4
    <3>3. CASE d # 0
      <4>1. b.kind = "bare" /\ d \in Nat \ {0}
        BY <1>2, <2>6, <3>3
      <4>2. /\ Ahead(open, d + 1) = Ahead(open, d)
            /\ \A p \in Ahead(open, d) : p.n # close
            /\ Behind(open, d) \subseteq Without(Behind(open, d + 1), close)
        BY <1>2, <4>1, ClosingFits DEF b, Without
      <4>3. Kept(Append(assembly, mark), Without(Ahead(open, d), mark.n),
                 Without(Behind(open, d + 1), mark.n) \cup {PlaceOf(mark)})
        BY <1>2, <2>4, <2>5, <4>2, KeptByLabel
      <4>4. /\ Without(Ahead(open, d), mark.n) \subseteq Ahead(open, d)
            /\ Behind(open, d) \subseteq Without(Behind(open, d + 1), mark.n) \cup {PlaceOf(mark)}
        BY <2>5, <4>2 DEF Without
      <4>5. Kept(Append(assembly, mark), Ahead(open, d), Behind(open, d))
        BY <4>3, <4>4, KeptWeakens
      <4>6. QED
        BY <2>2, <2>3, <3>1, <4>5
    <3>4. QED
      BY <3>2, <3>3
  <2>7. CASE ~(d = 0 \/ b.kind = "bare")
    <3>1. d \in Nat \ {0} /\ d > 0
      BY <1>2, <2>7
    <3>2. /\ \A p \in Ahead(open, d + 1) : p.n = close => p = Place(close, "close", b.id)
          /\ \A p \in Ahead(open, d + 1) : p.n = chain => p = Place(chain, "chain_end", b.chain)
          /\ b.kind = "while" => Place(Number(d, OpenOffset["while"]), "open", b.id) \in Behind(open, d + 1)
          /\ Without(Without(Ahead(open, d + 1), chain), close) \subseteq Ahead(open, d)
          /\ Behind(open, d) \subseteq Without(Without(Behind(open, d + 1), chain), close)
      BY <1>2, <3>1, ClosingFits DEF b
    <3>3. Kept(assembly',
               Without(Without(Ahead(open, d + 1), chain), close)
               \cup (IF FALSE /\ b.kind \in Tested THEN {Place(chain, "chain_end", b.chain)} ELSE {}),
               Without(Without(Behind(open, d + 1), chain), close))
      BY <1>2, <2>1, <2>4, <2>7, <3>1, <3>2, KeptByClose
    <3>4. Kept(assembly', Ahead(open, d), Behind(open, d))
      BY <3>2, <3>3, KeptWeakens
    <3>5. QED
      BY <2>2, <2>3, <3>4
  <2>8. QED
    BY <2>6, <2>7
<1>5. QED
  BY <1>3, <1>4

LEMMA ChainLineKept ==
  ASSUME Inv, JumpsKept, NEW k \in ChainKinds, ChainLine(k)
  PROVE  JumpsKept'
<1> SUFFICES ASSUME wellFormed' PROVE Kept(assembly', Ahead(open', Len(open')), Behind(open', Len(open')))
  BY DEF JumpsKept
<1> DEFINE d == indentation_level - 1
           b == open[d + 1]
           e == [kind |-> k, id |-> line + 1, chain |-> Closing.chain]
           close == Number(d, CloseOffset[b.kind])
           chain == Number(d, ChainOffset)
           skip  == Place(chain, "chain_end", b.chain)
           start == Number(d, OpenOffset[k])
           test  == Place(Number(d, TestOffset[k]), "close", line + 1)
           closed == assembly \o CloseCode(b, d, TRUE)
           left   == Without(Without(Ahead(open, d + 1), chain), close) \cup {skip}
           kept   == Without(Without(Behind(open, d + 1), chain), close)
<1>1. NextLine /\ indentation_level > 0 /\ line + 1 \in Nat
  BY NextLineType DEF ChainLine
<1>2. /\ d \in 0 .. BodyCap - 1 /\ d \in Nat /\ indentation_level = d + 1
      /\ Len(open) = d + 1 /\ open \in Seq(Body) /\ assembly \in Seq(Items)
      /\ Closing = b /\ b \in Body /\ b.kind \in Kinds /\ b.chain \in Nat /\ b.kind = bodies[d]
  BY <1>1, ClosingIsInnermost, BodyCapAssumption DEF Inv, TypeOK, Nesting, Body
<1>3. CASE d = 0 /\ bodies[0] # "function"
  <2>1. ~wellFormed /\ UNCHANGED wellFormed
    <3>1. open[1].kind # "function" /\ Len(open) > 0
      BY <1>2, <1>3
    <3>2. QED
      BY <1>3, <3>1 DEF ChainLine, Inv, Nesting
  <2>2. QED
    BY <2>1
<1>4. CASE ~(d = 0 /\ bodies[0] # "function")
  <2>1. /\ assembly' = assembly \o CloseCode(b, d, TRUE) \o OpenCode(e, d)
        /\ open' = [open EXCEPT ![Len(open)] = e]
        /\ wellFormed /\ b.kind \in {"if", "elif"}
    BY <1>2, <1>4 DEF ChainLine
  <2>2. e \in Body /\ e.kind = k /\ e.id = line + 1 /\ e.chain = b.chain /\ k \in Kinds
    BY <1>1, <1>2 DEF Body, Kinds
  <2>3. d \in Nat \ {0} /\ d > 0
    <3>1. d = 0 => b.kind = "function"
      <4>1. open[1].kind = "function"
        BY <1>2, <2>1 DEF Inv, Nesting
      <4>2. QED
        BY <4>1
    <3>2. QED
      BY <1>2, <2>1, <3>1
  <2> HIDE DEF d, b, e
  <2>4. Len(open') = d + 1 /\ open'[d + 1] = e /\ \A i \in 1 .. d : open'[i] = open[i]
    BY <1>2, <2>1, <2>2
  <2>5. /\ Ahead(open', d + 1) = Ahead(open, d) \cup Owed(e, d)
        /\ Behind(open', d + 1) = Behind(open, d) \cup Start(e, d)
    <3>1. Ahead(open', d) = Ahead(open, d) /\ Behind(open', d) = Behind(open, d)
      BY <1>2, <2>4, SameBelow
    <3>2. QED
      BY <2>3, <2>4, <3>1, SlotAdded
  <2>6. /\ \A p \in Ahead(open, d + 1) : p.n = close => p = Place(close, "close", b.id)
        /\ \A p \in Ahead(open, d + 1) : p.n = chain => p = Place(chain, "chain_end", b.chain)
        /\ Without(Without(Ahead(open, d + 1), chain), close) \subseteq Ahead(open, d)
        /\ Behind(open, d) \subseteq kept
    BY <1>2, <2>3, ClosingFits DEF b
  <2>7. Kept(closed, left, kept)
    <3>1. b.kind \in Tested /\ b.kind # "bare" /\ b.kind # "while"
      BY <2>1 DEF Tested
    <3>2. Kept(assembly, Ahead(open, d + 1), Behind(open, d + 1))
      BY <1>2, <2>1 DEF JumpsKept
    <3>3. Kept(assembly \o CloseCode(b, d, TRUE),
               Without(Without(Ahead(open, d + 1), chain), close)
               \cup (IF TRUE /\ b.kind \in Tested THEN {Place(chain, "chain_end", b.chain)} ELSE {}),
               kept)
      BY <1>2, <2>3, <2>6, <3>1, <3>2, KeptByClose
    <3>4. QED
      BY <3>1, <3>3
  <2>8. closed \in Seq(Items)
    BY <1>2, CloseCodeType, ConcatType
  <2>9. \A p \in Ahead(open, d) \cup Behind(open, d) \cup {skip} : p.n # start
    <3>1. OpenOffset[k] \in LabelOffsets /\ ChainOffset \in LabelOffsets /\ OpenOffset[k] # ChainOffset
      BY <2>2, Offsets DEF ChainOffset
    <3>2. start # chain
      BY <1>2, <3>1, NumberApart
    <3>3. \A p \in Ahead(open, d) \cup Behind(open, d) : p.n # start
      BY <1>2, <3>1, LowerDepth
    <3>4. skip.n = chain
      BY DEF Place
    <3>5. QED
      BY <3>2, <3>3, <3>4
  <2>10. /\ left \subseteq Ahead(open, d) \cup {skip}
         /\ \A p \in left : p.n # start
    BY <2>6, <2>9
  <2> HIDE DEF closed, left, kept, skip
  <2>11. Kept(assembly', IF k \in Tested THEN left \cup {test} ELSE left,
              Without(kept, start) \cup {Place(start, "open", line + 1)})
    <3>1. start = Number(d, OpenOffset[e.kind]) /\ test = Place(Number(d, TestOffset[e.kind]), "close", e.id)
      BY <2>2
    <3>2. \A p \in left : p.n # Number(d, OpenOffset[e.kind])
      BY <2>10, <3>1
    <3>3. Kept(closed \o OpenCode(e, d),
               IF e.kind \in Tested
               THEN left \cup {Place(Number(d, TestOffset[e.kind]), "close", e.id)} ELSE left,
               Without(kept, Number(d, OpenOffset[e.kind]))
                 \cup {Place(Number(d, OpenOffset[e.kind]), "open", e.id)})
      BY <1>2, <2>2, <2>7, <2>8, <3>2, KeptByOpen
    <3>4. assembly' = closed \o OpenCode(e, d)
      BY <2>1 DEF closed
    <3> HIDE DEF start, test
    <3>5. QED
      BY <2>2, <3>1, <3>3, <3>4
  <2>12. (IF k \in Tested THEN left \cup {test} ELSE left) \subseteq Ahead(open, d) \cup Owed(e, d)
    <3>1. skip \in Owed(e, d)
      BY <2>2 DEF Owed, skip
    <3>2. k \in Tested => test \in Owed(e, d)
      BY <2>2 DEF Owed
    <3> HIDE DEF test
    <3>3. QED
      BY <2>10, <3>1, <3>2
  <2>13. Behind(open, d) \cup Start(e, d)
           \subseteq Without(kept, start) \cup {Place(start, "open", line + 1)}
    BY <2>2, <2>6, <2>9 DEF Start, Without
  <2>14. QED
    BY <2>4, <2>5, <2>11, <2>12, <2>13, KeptWeakens
<1>5. QED
  BY <1>3, <1>4

LEMMA SpecJumpsKept == Spec => []JumpsKept
<1>1. Inv /\ JumpsKept /\ [Next]_vars => JumpsKept'
  <2> SUFFICES ASSUME Inv, JumpsKept, [Next]_vars PROVE JumpsKept'
    OBVIOUS
  <2>1. CASE UNCHANGED vars
    BY <2>1 DEF vars, JumpsKept
  <2>2. QED
    BY <2>1, FunctionLineKept, OpenLineKept, CloseLineKept, ChainLineKept DEF Next
<1>2. QED
  BY <1>1, InitJumpsKept, SpecInv, PTL DEF Spec

\* In a well-formed program every jump lands on the place the source means,
\* for every nesting depth and every length of program: no other body's label
\* of the same number is ever nearer.
THEOREM JumpsLand == Spec => []JumpsReachTheirBody
<1>1. Inv /\ JumpsKept => JumpsReachTheirBody
  <2> SUFFICES ASSUME Inv, JumpsKept, wellFormed,
                      NEW i \in Jumps, NEW j \in DOMAIN assembly, Reaches(i, j)
               PROVE  assembly[j].role = assembly[i].role /\ assembly[j].of = assembly[i].of
    BY DEF JumpsReachTheirBody
  <2>1. /\ assembly \in Seq(Items) /\ DOMAIN assembly = 1 .. Len(assembly)
        /\ ForwardKept(assembly, Ahead(open, Len(open))) /\ BackwardKept(assembly)
        /\ i \in 1 .. Len(assembly) /\ j \in 1 .. Len(assembly)
    BY DEF Inv, TypeOK, JumpsKept, Kept, Jumps
  <2>2. /\ IsLabel(assembly[j], assembly[i].n)
        /\ IF assembly[i].op \in ForwardJumps THEN i < j ELSE j < i
        /\ \A k \in 1 .. Len(assembly) :
             /\ IsLabel(assembly[k], assembly[i].n)
             /\ IF assembly[i].op \in ForwardJumps THEN i < k ELSE k < i
             => IF i < j THEN j <= k ELSE k <= j
    BY <2>1 DEF Reaches, Defines, IsLabel
  <2>3. \A k \in 1 .. Len(assembly) :
          Marks(assembly[k], PlaceOf(assembly[i])) =>
            /\ IsLabel(assembly[k], assembly[i].n)
            /\ assembly[k].role = assembly[i].role /\ assembly[k].of = assembly[i].of
    BY DEF Marks, PlaceOf, Place, IsLabel
  <2>4. CASE assembly[i].op \in ForwardJumps
    <3>1. i < j
      BY <2>2, <2>4
    <3>2. PICK k \in 1 .. Len(assembly) :
            /\ i < k /\ Marks(assembly[k], PlaceOf(assembly[i]))
            /\ \A l \in 1 .. Len(assembly) : i < l /\ l < k => ~IsLabel(assembly[l], assembly[i].n)
      BY <2>1, <2>2, <2>4, <3>1 DEF ForwardKept
    <3>3. j <= k /\ ~(j < k)
      BY <2>2, <2>3, <2>4, <3>1, <3>2
    <3>4. j = k
      BY <3>3
    <3>5. QED
      BY <2>3, <3>2, <3>4
  <2>5. CASE assembly[i].op \notin ForwardJumps
    <3>1. assembly[i].op \in BackwardJumps /\ j < i
      BY <2>2, <2>5 DEF Jumps
    <3>2. PICK k \in 1 .. Len(assembly) :
            /\ k < i /\ Marks(assembly[k], PlaceOf(assembly[i]))
            /\ \A l \in 1 .. Len(assembly) : k < l /\ l < i => ~IsLabel(assembly[l], assembly[i].n)
      BY <2>1, <3>1 DEF BackwardKept
    <3>3. ~(k < j)
      BY <2>2, <3>1, <3>2
    <3>4. IsLabel(assembly[k], assembly[i].n) /\ k < i /\ ~(i < j)
      BY <2>1, <2>3, <3>1, <3>2
    <3>5. k <= j
      BY <2>2, <2>5, <3>4
    <3>6. j = k
      BY <2>1, <3>3, <3>5
    <3>7. QED
      BY <2>3, <3>2, <3>6
  <2>6. QED
    BY <2>4, <2>5
<1>2. QED
  BY <1>1, SpecInv, SpecJumpsKept, PTL

\* Between two functions of a well-formed program no jump waits for a label.
THEOREM NoneDangles == Spec => []NoDanglingJump
<1>1. Inv /\ JumpsKept => NoDanglingJump
  <2> SUFFICES ASSUME Inv, JumpsKept, wellFormed, ~function, NEW i \in Jumps
               PROVE  \E j \in DOMAIN assembly : Defines(j, i)
    BY DEF NoDanglingJump
  <2>1. /\ assembly \in Seq(Items) /\ DOMAIN assembly = 1 .. Len(assembly)
        /\ ForwardKept(assembly, Ahead(open, Len(open))) /\ BackwardKept(assembly)
        /\ i \in 1 .. Len(assembly)
    BY DEF Inv, TypeOK, JumpsKept, Kept, Jumps
  <2>2. Ahead(open, Len(open)) = {}
    <3>1. Len(open) = 0
      BY BodyCapAssumption DEF Inv, TypeOK, Nesting
    <3>2. QED
      BY <3>1, NothingBelow
  <2>3. \A j \in 1 .. Len(assembly) :
          Marks(assembly[j], PlaceOf(assembly[i])) => assembly[j].op = "label" /\ assembly[j].n = assembly[i].n
    BY DEF Marks, PlaceOf, Place
  <2>4. CASE assembly[i].op \in ForwardJumps
    <3>1. \E j \in 1 .. Len(assembly) : i < j /\ Marks(assembly[j], PlaceOf(assembly[i]))
      BY <2>1, <2>2, <2>4 DEF ForwardKept
    <3>2. QED
      BY <2>1, <2>3, <2>4, <3>1 DEF Defines
  <2>5. CASE assembly[i].op \notin ForwardJumps
    <3>1. assembly[i].op \in BackwardJumps
      BY <2>5 DEF Jumps
    <3>2. \E j \in 1 .. Len(assembly) : j < i /\ Marks(assembly[j], PlaceOf(assembly[i]))
      BY <2>1, <3>1 DEF BackwardKept
    <3>3. QED
      BY <2>1, <2>3, <2>5, <3>2 DEF Defines
  <2>6. QED
    BY <2>4, <2>5
<1>2. QED
  BY <1>1, SpecInv, SpecJumpsKept, PTL

=============================================================================
