------------------------------ MODULE AstTree -------------------------------
(***************************************************************************)
(* The parser of a line (src/src/ast.c).  The tokens of a line are pushed  *)
(* into a tree one by one, each where precedence and the number of         *)
(* arguments operations still expect put it: below a node that expects an  *)
(* argument, or in the place of a node, which becomes its first argument.  *)
(* There is no grammar and no lookahead.                                   *)
(*                                                                         *)
(* One kind of operation stands for those with its precedence and its      *)
(* number of arguments: MUL for DIV, ADD for SUB, ADDRESS for INDIRECTION, *)
(* CONSTANT for GLOBAL, IF for WHILE.  A string is pushed as the ADDRESS   *)
(* of a global made for it.  The operation EVAL has four names here: EVAL  *)
(* evaluates to a value, NAME to a word unknown so far, TYPE to a type,    *)
(* and STRAY is a value where none belongs.                                *)
(***************************************************************************)
EXTENDS Naturals, Sequences, FiniteSets, SequencesExt

CONSTANTS
  MaxTokens,   (* bound on the tokens of a line                            *)
  MaxHeader    (* the same, of a function's header                         *)

ASSUME BoundsAssumption == MaxTokens \in Nat \ {0} /\ MaxHeader \in Nat

VARIABLES
  tokens,    (* the operations of the tokens pushed so far                 *)
  tree,      (* root, last and the nodes of the tree                       *)
  refused    (* whether vltl_ast_tree_insert returned an error             *)

vars == <<tokens, tree, refused>>

-----------------------------------------------------------------------------
Openers  == {"GROUPING_OPEN", "INDEX_OPEN"}
Closers  == {"GROUPING_CLOSE", "INDEX_CLOSE"}
Unaries == {"ADDRESS", "CALL"}
Operands == {"EVAL", "NAME", "TYPE", "STRAY"}
Words    == {"RETURN", "LOCAL", "CONSTANT", "FUNCTION", "EXTERNAL", "IF", "ELIF", "ELSE"}
Braces   == {"BODY_OPEN", "BODY_CLOSE"}
Binaries == {"MUL", "ADD", "TEST_EQUALS", "TYPEAS", "EQUALS", "COMMA"}

Kinds == Openers \cup Closers \cup Operands \cup Unaries \cup Words \cup Braces \cup Binaries
           \cup {"ATTRIBUTE", "CSV"}

\* vltl_ast_operation_precedence_determine: the less, the tighter.
Precedence(k) ==
  CASE k \in Openers \cup Closers \cup Operands \cup Braces -> 0
    [] k = "ATTRIBUTE"                                      -> 0
    [] k = "CALL"                                           -> 1
    [] k = "ADDRESS"                                        -> 2
    [] k = "MUL"                                            -> 3
    [] k = "ADD"                                            -> 4
    [] k = "TEST_EQUALS"                                    -> 7
    [] k = "TYPEAS"                                         -> 13
    [] k = "EQUALS"                                         -> 14
    [] k \in {"COMMA", "CSV"}                               -> 15
    [] k \in Words \ {"EXTERNAL"}                           -> 18
    [] k = "EXTERNAL"                                       -> 19

\* vltl_ast_operation_precedence_order_determine
RightToLeft(k) == Precedence(k) \in {2, 13, 14, 19, 20}

\* vltl_ast_operation_expected_argc
ExpectedArgc(k) ==
  CASE k \in {"INDEX_OPEN", "FUNCTION", "ELIF"}                           -> 3
    [] k \in Binaries \cup {"GROUPING_OPEN", "EXTERNAL", "IF", "ELSE"}    -> 2
    [] k \in Unaries \cup {"ATTRIBUTE", "RETURN", "LOCAL", "CONSTANT"}    -> 1
    [] k \in Closers \cup Operands \cup Braces \cup {"CSV"}               -> 0

-----------------------------------------------------------------------------
\* A node is named by the position of its token; NULL is no node.
NULL == 0

\* The node made for what an empty pair of parentheses, closed at n, holds.
CsvAt(n) == MaxTokens + MaxHeader + n

Node(kind, parent) == [kind |-> kind, args |-> <<>>, parent |-> parent]

\* vltl_ast_operation_insert: a new node n below parent.
Inserted(t, parent, n, kind) ==
  [root  |-> IF parent = NULL THEN n ELSE t.root,
   last  |-> n,
   nodes |-> [m \in DOMAIN t.nodes \cup {n} |->
                IF m = n           THEN Node(kind, parent)
                ELSE IF m = parent THEN [t.nodes[m] EXCEPT !.args = Append(@, n)]
                ELSE t.nodes[m]]]

\* Fault: the parent of the node adopted keeps it as its argument.
AdoptedAside(t, c, n, kind) ==
  [root  |-> IF t.nodes[c].parent = NULL THEN n ELSE t.root,
   last  |-> n,
   nodes |-> [m \in DOMAIN t.nodes \cup {n} |->
                IF m = n      THEN [Node(kind, t.nodes[c].parent) EXCEPT !.args = <<c>>]
                ELSE IF m = c THEN [t.nodes[m] EXCEPT !.parent = n]
                ELSE t.nodes[m]]]

\* vltl_ast_operation_adopt: a new node n takes the place of c.
Adopted(t, c, n, kind) ==
  [root  |-> IF t.nodes[c].parent = NULL THEN n ELSE t.root,
   last  |-> n,
   nodes |-> [m \in DOMAIN t.nodes \cup {n} |->
                IF m = n      THEN [Node(kind, t.nodes[c].parent) EXCEPT !.args = <<c>>]
                ELSE IF m = c THEN [t.nodes[m] EXCEPT !.parent = n]
                ELSE [t.nodes[m] EXCEPT !.args = [i \in DOMAIN @ |-> IF @[i] = c THEN n ELSE @[i]]]]]

Hungry(t, n) == Len(t.nodes[n].args) < ExpectedArgc(t.nodes[n].kind)

\* Node n and its ancestors, upwards.
Upwards(t, n) ==
  LET up[k \in 0 .. Cardinality(DOMAIN t.nodes)] ==
        IF k = 0 THEN <<n>>
        ELSE LET below == up[k - 1]
                 above == t.nodes[Last(below)].parent
             IN IF above = NULL THEN below ELSE Append(below, above)
  IN up[Cardinality(DOMAIN t.nodes)]

\* Fault: nor does it take one of its own precedence.
TakesTighter(t, n, kind) ==
  Precedence(kind) < Precedence(t.nodes[n].kind) /\ Hungry(t, n)

\* Node n takes an operation of that kind as its next argument.
Takes(t, n, kind) ==
  Precedence(kind) <= Precedence(t.nodes[n].kind) /\ Hungry(t, n)

\* Of a set of nodes the first from last upwards.
Nearest(t, nodes) ==
  LET up == Upwards(t, t.last)
  IN up[Min({i \in DOMAIN up : up[i] \in nodes})]

\* The nodes, from last upwards, that take the operation: the nearest of them
\* gets it.  Only an operand or a group looks above last.
Takers(t, kind) ==
  LET up    == Upwards(t, t.last)
      reach == IF ExpectedArgc(kind) = 0 \/ kind = "GROUPING_OPEN" THEN ToSet(up) ELSE {t.last}
  IN {n \in reach : Takes(t, n, kind)}

\* Fault: an operation of the same precedence is not climbed over.
ClimbsLooser(t, c, kind) ==
  LET q == t.nodes[t.nodes[c].parent].kind
  IN ~ (q = "GROUPING_OPEN" /\ Hungry(t, t.nodes[c].parent)) /\ Precedence(kind) > Precedence(q)

\* From c, the search for the node to displace goes on above its parent.  The
\* order that decides is that of c.
Climbs(t, c, kind) ==
  LET q == t.nodes[t.nodes[c].parent].kind
  IN /\ ~ (q = "GROUPING_OPEN" /\ Hungry(t, t.nodes[c].parent))
     /\ IF RightToLeft(t.nodes[c].kind) THEN Precedence(kind) > Precedence(q)
                                        ELSE Precedence(kind) >= Precedence(q)

\* The node displaced: where the climb from last ends.
Displaced(t, kind) ==
  Nearest(t, {c \in DOMAIN t.nodes : t.nodes[c].parent = NULL \/ ~Climbs(t, c, kind)})

-----------------------------------------------------------------------------
(***************************************************************************)
(* Lines                                                                   *)
(***************************************************************************)

Final(t) == IF t = <<>> THEN "START" ELSE t[Len(t)]

\* How many brackets are open around position i of t.
Depth(t, i) ==
  Cardinality({j \in 1 .. i - 1 : t[j] \in Openers})
    - Cardinality({j \in 1 .. i : j <= Len(t) /\ t[j] \in Closers})

\* The bracket innermost around position i, or "START".
Around(t, i) ==
  LET open == {j \in 1 .. i - 1 : t[j] \in Openers /\ Depth(t, j) = Depth(t, i) - 1}
  IN IF open = {} THEN "START" ELSE t[Max(open)]

Starts(t, words) == t # <<>> /\ t[1] \in words

Header(t)   == Starts(t, {"FUNCTION", "EXTERNAL"})
Declares(t) == Starts(t, {"LOCAL", "CONSTANT"})

\* An expression has begun, or may begin.
InExpression(t) == ~Header(t) /\ (Declares(t) => "EQUALS" \in ToSet(t))

\* An operand of an expression has just ended; one is needed.
Operand(t) == InExpression(t) /\ Final(t) \in {"EVAL", "GROUPING_CLOSE", "INDEX_CLOSE"}
Wants(t) ==
  InExpression(t) /\
    Final(t) \in {"START", "RETURN", "IF", "ELIF", "ADDRESS"} \cup Openers \cup Binaries

\* The tokens are a line that may end here.
Complete(t) ==
  /\ t # <<>> /\ Around(t, Len(t) + 1) = "START"
  /\ CASE Starts(t, {"FUNCTION", "IF"}) -> Final(t) = "BODY_OPEN"
       [] Starts(t, {"EXTERNAL"})       -> Final(t) = "BODY_CLOSE"
       [] Starts(t, {"BODY_CLOSE"})     -> Len(t) = 1 \/ Final(t) = "BODY_OPEN"
       [] Declares(t) -> /\ Operand(t)
                         /\ \A i \in DOMAIN t : t[i] = "COMMA" => Around(t, i) # "START"
       [] OTHER                         -> Operand(t)

\* Token k may come after t: the line goes on as the language has it, or, once
\* complete, with a value too many.
Follows(t, k) ==
  LET end    == Len(t) + 1
      around == Around(t, end)
      named  == {"LOCAL", "CONSTANT", "FUNCTION"}
  IN CASE k = "FUNCTION"                 -> t \in {<<>>, <<"EXTERNAL">>}
       [] k \in {"ELIF", "ELSE"}         -> t = <<"BODY_CLOSE">>
       [] k \in Words \ {"FUNCTION", "ELIF", "ELSE"} -> t = <<>>
       [] k = "BODY_CLOSE" -> t = <<>> \/ (Starts(t, {"EXTERNAL"}) /\ Final(t) = "BODY_OPEN")
       [] k = "BODY_OPEN" ->
            \/ Operand(t) /\ around = "START" /\ ("IF" \in ToSet(t) \/ "ELIF" \in ToSet(t))
            \/ Final(t) = "ELSE"
            \/ Header(t) /\ Final(t) = "GROUPING_CLOSE"
       [] k = "NAME" -> \/ Final(t) \in named
                        \/ Header(t) /\ Final(t) \in {"GROUPING_OPEN", "COMMA"}
       [] k \in {"TYPE", "ATTRIBUTE"}    -> Final(t) \in {"TYPEAS", "ATTRIBUTE"}
       [] k = "TYPEAS" -> IF Header(t) THEN Final(t) = "NAME" /\ around = "GROUPING_OPEN"
                                       ELSE Declares(t) /\ Len(t) = 2
       [] k = "EVAL"                     -> Final(t) \in named \/ Wants(t)
       [] k = "STRAY"                    -> Complete(t)
       [] k \in Unaries                  -> Wants(t)
       [] k = "GROUPING_OPEN" ->
            \/ Wants(t) \/ Final(t) = "CALL"
            \/ Header(t) /\ Final(t) \in {"NAME", "EVAL"} /\ around = "START"
       [] k = "GROUPING_CLOSE" ->
            /\ around = "GROUPING_OPEN"
            /\ \/ Operand(t) \/ IsSuffix(<<"CALL", "GROUPING_OPEN">>, t)
               \/ Header(t) /\ Final(t) \in {"GROUPING_OPEN", "TYPE"}
       [] k = "INDEX_OPEN"  -> Operand(t) /\ Final(t) = "EVAL" /\ t[1] # "LOCAL"
       [] k = "INDEX_CLOSE" -> Operand(t) /\ around = "INDEX_OPEN"
       [] k = "EQUALS"      -> Operand(t) \/ (Declares(t) /\ Final(t) = "TYPE")
       [] k = "COMMA"       -> Operand(t) \/ (Header(t) /\ Final(t) = "TYPE")
       [] k \in {"MUL", "ADD", "TEST_EQUALS"} -> Operand(t)
       [] OTHER             -> FALSE

Bound(t) == IF Header(t) THEN MaxHeader ELSE MaxTokens

-----------------------------------------------------------------------------
Empty == [root |-> NULL, last |-> NULL, nodes |-> <<>>]

Init == tokens = <<>> /\ tree = Empty /\ refused = FALSE

Read(k) ==
  /\ ~refused
  /\ Follows(tokens, k)
  /\ tokens' = Append(tokens, k)
  /\ Len(tokens') <= Bound(tokens')

\* The first token becomes the root.
Plant(k) ==
  /\ Read(k)
  /\ tree.root = NULL
  /\ tree' = Inserted(tree, NULL, Len(tokens'), k)
  /\ UNCHANGED refused

\* The token becomes an argument of a node that takes it.  A closing
\* parenthesis right after the opening one first puts an empty CSV there.
Place(k) ==
  /\ Read(k)
  /\ tree.root # NULL /\ Takers(tree, k) # {}
  /\ LET n == Len(tokens')
         p == Nearest(tree, Takers(tree, k))
         empty == k = "GROUPING_CLOSE" /\ p = tree.last /\ tree.nodes[p].args = <<>>
     IN tree' = IF empty
                THEN Inserted(Inserted(tree, p, CsvAt(n), "CSV"), p, n, k)
                ELSE Inserted(tree, p, n, k)
  /\ UNCHANGED refused

\* The token becomes the parent of the node it displaces.
Displace(k) ==
  /\ Read(k)
  /\ tree.root # NULL /\ Takers(tree, k) = {} /\ ExpectedArgc(k) > 0
  /\ tree' = Adopted(tree, Displaced(tree, k), Len(tokens'), k)
  /\ UNCHANGED refused

\* An operand that nothing takes ("Cannot take ownership of this node!").
Refuse(k) ==
  /\ Read(k)
  /\ tree.root # NULL /\ Takers(tree, k) = {} /\ ExpectedArgc(k) = 0
  /\ refused' = TRUE
  /\ UNCHANGED tree

Next == \E k \in Kinds : Plant(k) \/ Place(k) \/ Displace(k) \/ Refuse(k)

Spec == Init /\ [][Next]_vars

-----------------------------------------------------------------------------
(***************************************************************************)
(* The tree C's rules of precedence give a complete line: the operation    *)
(* that binds loosest, outside of brackets, is the root, the rest of the   *)
(* line its arguments.                                                     *)
(***************************************************************************)

\* The position of the root of t[lo .. hi]; nothing stands for an empty CSV.
Top(t, lo, hi) ==
  LET level == {i \in lo .. hi : Depth(t, i) = Depth(t, lo)
                                   /\ (lo = hi \/ t[i] \notin Closers \cup Braces)}
      loose == {i \in level : \A j \in level : Precedence(t[j]) <= Precedence(t[i])}
  IN IF lo > hi THEN CsvAt(lo)
     ELSE IF RightToLeft(t[Min(loose)]) \/ t[Min(loose)] = "ATTRIBUTE" THEN Min(loose) ELSE Max(loose)

\* The parts of t[lo .. hi] that are the arguments of its root.
Parts(t, lo, hi) ==
  LET top == Top(t, lo, hi)
      k   == t[top]
  IN IF lo > hi THEN <<>>
     ELSE IF k \in Binaries                THEN <<<<lo, top - 1>>, <<top + 1, hi>>>>
     ELSE IF k = "INDEX_OPEN"              THEN <<<<lo, top - 1>>, <<top + 1, hi - 1>>, <<hi, hi>>>>
     ELSE IF k = "FUNCTION" THEN <<<<top + 1, top + 1>>, <<top + 2, hi - 1>>, <<hi, hi>>>>
     ELSE IF k = "ELIF"     THEN <<<<lo, top - 1>>, <<top + 1, hi - 1>>, <<hi, hi>>>>
     ELSE IF k = "ELSE"     THEN <<<<lo, top - 1>>, <<hi, hi>>>>
     ELSE IF ExpectedArgc(k) = 2           THEN <<<<top + 1, hi - 1>>, <<hi, hi>>>>
     ELSE IF ExpectedArgc(k) = 1           THEN <<<<top + 1, hi>>>>
     ELSE <<>>

\* Who is which argument of whom in the tree of t.
ArcsLikeC(t) ==
  LET arcs[iv \in (1 .. Len(t) + 1) \X (0 .. Len(t))] ==
        LET parts == Parts(t, iv[1], iv[2])
        IN {<<Top(t, iv[1], iv[2]), i, Top(t, parts[i][1], parts[i][2])>> : i \in DOMAIN parts}
             \cup UNION {arcs[parts[i]] : i \in DOMAIN parts}
  IN arcs[<<1, Len(t)>>]

Arcs(t) == UNION {{<<n, i, t.nodes[n].args[i]>> : i \in DOMAIN t.nodes[n].args} : n \in DOMAIN t.nodes}

LikeC == tree.root = Top(tokens, 1, Len(tokens)) /\ Arcs(tree) = ArcsLikeC(tokens)

\* What the parser does not get right, by the tokens of a line:

\* a call, an address or an indirection that is first in a pair of brackets;
PrefixInBrackets ==
  \E i \in 1 .. Len(tokens) - 1 : tokens[i] \in Openers /\ tokens[i + 1] \in Unaries

\* an operation between the brackets of an index;
OperationInIndex ==
  \E i \in DOMAIN tokens :
    tokens[i] \in Binaries \cup {"INDEX_OPEN"} /\ Around(tokens, i) = "INDEX_OPEN"

SameLevel(i, j) ==
  /\ i < j
  /\ Depth(tokens, i) = Depth(tokens, j)
  /\ \A m \in i .. j : Depth(tokens, m) >= Depth(tokens, i)

\* two assignments in a row;
AssignmentChain ==
  \E i, j \in DOMAIN tokens :
    SameLevel(i, j) /\ tokens[i] = "EQUALS" /\ tokens[j] = "EQUALS"

\* between two operations that bind alike, one that groups from the right.
RightBetweenLeft ==
  \E i, m, j \in DOMAIN tokens :
    /\ SameLevel(i, m) /\ SameLevel(m, j)
    /\ tokens[i] \in Binaries \ {"COMMA"} /\ tokens[j] \in Binaries /\ ~RightToLeft(tokens[i])
    /\ Precedence(tokens[i]) = Precedence(tokens[j])
    /\ RightToLeft(tokens[m])

-----------------------------------------------------------------------------
(***************************************************************************)
(* Properties                                                              *)
(***************************************************************************)

\* The nodes are one tree that starts at the root: each other node is one
\* argument of its parent, and none has more arguments than it expects.
TypeOK ==
  /\ tokens \in Seq(Kinds)
  /\ refused \in BOOLEAN
  /\ tree.root = NULL <=> DOMAIN tree.nodes = {}
  /\ LET arcs == Arcs(tree)
     IN /\ Cardinality(arcs) = Cardinality(DOMAIN tree.nodes \ {tree.root})
        /\ {a[3] : a \in arcs} = DOMAIN tree.nodes \ {tree.root}
        /\ \A a \in arcs : tree.nodes[a[3]].parent = a[1]
  /\ \A n \in DOMAIN tree.nodes :
       /\ Len(tree.nodes[n].args) <= ExpectedArgc(tree.nodes[n].kind)
       /\ tree.root = Last(Upwards(tree, n))

\* The operations written after their first argument.
Infix == Binaries \cup {"INDEX_OPEN", "ELIF", "ELSE"}

\* What stands for node n, given what stands for its arguments.
Spelled(n, parts) ==
  LET left == IF tree.nodes[n].kind \in Infix THEN 1 ELSE 0
      own  == IF n \in DOMAIN tokens THEN <<n>> ELSE <<>>
  IN FlattenSeq(SubSeq(parts, 1, left)) \o own \o FlattenSeq(SubSeq(parts, left + 1, Len(parts)))

\* The tokens of the tree, read from the left.
Reading ==
  LET size == Cardinality(DOMAIN tree.nodes)
      read[d \in 0 .. size] ==
        [n \in DOMAIN tree.nodes |->
           IF d = 0 THEN <<>>
           ELSE Spelled(n, [i \in DOMAIN tree.nodes[n].args |-> read[d - 1][tree.nodes[n].args[i]]])]
  IN read[size][tree.root]

\* The tokens before the one refused.
Pushed == IF refused THEN Front(tokens) ELSE tokens

\* Wherever precedence puts the tokens of a line, complete or not, in the tree,
\* read from the left they are all there in their order.
TokensInOrder ==
  Pushed # <<>> /\ ~PrefixInBrackets => Reading = [i \in DOMAIN Pushed |-> i]

\* Apart from the first three kinds of lines above, a complete line is not
\* refused and has the tree C would give it (ast.c: "the C operator precedence
\* rules are used").
AssociatesLikeC ==
  Complete(tokens) /\ ~PrefixInBrackets /\ ~OperationInIndex /\ ~AssignmentChain
    => ~refused /\ LikeC
=============================================================================
