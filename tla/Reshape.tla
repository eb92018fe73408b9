------------------------------ MODULE Reshape -------------------------------
(***************************************************************************)
(* A line from its tokens to the semantic tree: vltl_ast_tree_convert, as  *)
(* in AstTree, then vltl_reshape_ast_tree (src/src/reshape.c), then the    *)
(* check of vltl_sast_tree_convert (src/src/sast.c) that every operation   *)
(* has its arguments.  Reshaping makes a list of what commas separate,     *)
(* drops attributes, and carries out what the line declares.               *)
(*                                                                         *)
(* A line may end anywhere.  What the parser returns is ignored: after a   *)
(* refused token the line goes on with the tree made so far, without the   *)
(* token and whatever follows it.  So nothing but the checks below stands  *)
(* between a line that is cut short and its instructions.                  *)
(*                                                                         *)
(* Which tables a declaration changes is in CompileFile and Scopes, what   *)
(* the operations of the tree are converted to in Codegen.                 *)
(***************************************************************************)
EXTENDS AstTree

CONSTANTS
  ArgumentsMax,   (* VLTL_AST_OPERATION_ARGUMENTS_MAX (9)                  *)
  CdeclMax        (* the parameters a function may have (4)                *)

ASSUME ListsAssumption == CdeclMax \in Nat /\ ArgumentsMax \in Nat /\ CdeclMax < ArgumentsMax

VARIABLES
  stage,      (* "reading", or how the line ended                          *)
  shape,      (* the tree handed on                                        *)
  declared    (* tokens: the name declared, then those of its parameters   *)

allVars == <<vars, stage, shape, declared>>

-----------------------------------------------------------------------------
\* A tree as a value: an operation, its token and the trees below it.
Term(kind, token, args) == [kind |-> kind, token |-> token, args |-> args]

NoTerm       == Term("NONE", NULL, <<>>)
Failed(how)  == Term(how, NULL, <<>>)
List(items)  == Term("CSV", NULL, items)

Failures(terms) == SelectSeq(terms, LAMBDA x : x.kind \in {"refused", "crashed"})
Items(x)        == IF x.kind = "CSV" THEN x.args ELSE <<x>>
Has(x, i)       == i <= Len(x.args)

Upto(s, n) == SubSeq(s, 1, IF n < Len(s) THEN n ELSE Len(s))

\* Fault: the items right of the comma come first.
ListedBackwards(args) ==
  IF Len(args) = 1 THEN Failed("crashed") ELSE List(Items(args[2]) \o Items(args[1]))

\* vltl_reshape_ast_tree_recurse_comma: what is left of the comma, then as much
\* of what is right of it as there is room for.  Without a right side the code
\* uses a null pointer.
Listed(args) ==
  LET left == Items(args[1])
  IN IF Len(left) >= ArgumentsMax THEN Failed("refused")
     ELSE IF Len(args) = 1        THEN Failed("crashed")
     ELSE List(left \o Upto(Items(args[2]), ArgumentsMax - Len(left)))

\* vltl_reshape_ast_tree_recurse: node n and what is below it, reshaped.
RECURSIVE Reshaped(_)
Reshaped(n) ==
  LET node == tree.nodes[n]
      args == [i \in DOMAIN node.args |-> Reshaped(node.args[i])]
  IN CASE Failures(args) # <<>>                     -> Failures(args)[1]
       [] node.kind = "CSV"                         -> List(args)
       [] node.kind = "COMMA" /\ args # <<>>        -> Listed(args)
       [] node.kind = "ATTRIBUTE" /\ args # <<>>    -> args[1]
       [] OTHER                                     -> Term(node.kind, n, args)

\* Fault: an operation may lack arguments.
FullAtMost(x) == x.kind \in {"CSV", "CDECL"} \/ Len(x.args) <= ExpectedArgc(x.kind)

\* An operation has its arguments; so have it and all below it.
Full(x) == x.kind \in {"CSV", "CDECL"} \/ Len(x.args) = ExpectedArgc(x.kind)

RECURSIVE AllFull(_)
AllFull(x) == Full(x) /\ \A i \in DOMAIN x.args : AllFull(x.args[i])

\* The line is a name of some type, with a value.
Typed(x) ==
  /\ Has(x, 1) /\ x.args[1].kind = "EQUALS"
  /\ LET as == x.args[1].args[1]
     IN as.kind = "TYPEAS" /\ Has(as, 2) /\ as.args[2].kind = "TYPE"

-----------------------------------------------------------------------------
ShapeInit == Init /\ stage = "reading" /\ shape = NoTerm /\ declared = <<>>

\* vltl_ast_tree_convert goes on to the next token.
ReadToken == stage = "reading" /\ Next /\ UNCHANGED <<stage, shape, declared>>

Root == Reshaped(tree.root)

\* The line, not empty, has no more tokens or one that was refused.
Ended(kinds) ==
  /\ stage = "reading"
  /\ tree.root # NULL
  /\ Root.kind \in kinds
  /\ UNCHANGED vars

GiveUp(how) == stage' = how /\ UNCHANGED <<shape, declared>>

HandOn(x, names) ==
  /\ stage' = IF AllFull(x) THEN "shaped" ELSE "refused"
  /\ shape' = x
  /\ declared' = names

\* A failure further down.
Broken == Ended({"refused", "crashed"}) /\ GiveUp(Root.kind)

\* The value of a constant is converted here and now; the result of converting
\* it is not looked at, but its root is used.
DeclareConstant ==
  /\ Ended({"CONSTANT"})
  /\ IF ~Typed(Root) \/ Root.args[1].args[1].args[1].kind # "NAME" THEN GiveUp("refused")
     ELSE LET is == Root.args[1]
          IN IF ~Has(is, 2) \/ ~Full(is.args[2]) THEN GiveUp("crashed")
             ELSE HandOn(is.args[2], <<is.args[1].args[1].token>>)

\* A local becomes an assignment to its name.
DeclareLocal ==
  /\ Ended({"LOCAL"})
  /\ IF ~Typed(Root) THEN GiveUp("refused")
     ELSE LET is   == Root.args[1]
              name == is.args[1].args[1]
          IN HandOn([is EXCEPT !.args[1] = name], <<name.token>>)

\* Of each parameter its name is declared, whatever else there is of it.
DeclareFunction ==
  /\ Ended({"FUNCTION"})
  /\ IF \/ ~Has(Root, 2) \/ Root.args[1].kind # "NAME" \/ ~Has(Root.args[2], 1)
        \/ Root.args[2].args[1].kind \notin {"TYPEAS", "CSV"}
     THEN GiveUp("refused")
     ELSE LET params == Items(Root.args[2].args[1])
          IN IF \E i \in DOMAIN params : params[i].args = <<>> THEN GiveUp("crashed")
             ELSE IF Len(params) > CdeclMax THEN GiveUp("refused")
             ELSE HandOn(Term("CDECL", Len(params), <<>>),
                         <<Root.args[1].token>>
                           \o [i \in DOMAIN params |-> params[i].args[1].token])

\* Of an external function nothing but its name is looked at.
DeclareExternal ==
  /\ Ended({"EXTERNAL"})
  /\ IF ~Has(Root, 1) \/ ~Has(Root.args[1], 1) \/ Root.args[1].args[1].kind # "NAME"
     THEN GiveUp("refused")
     ELSE stage' = "shaped" /\ declared' = <<Root.args[1].args[1].token>> /\ UNCHANGED shape

\* Any other line is handed on as it is.
Hand ==
  /\ Ended(Kinds \ {"CONSTANT", "LOCAL", "FUNCTION", "EXTERNAL"})
  /\ HandOn(Root, <<>>)

ShapeNext ==
  \/ ReadToken \/ Broken \/ DeclareConstant \/ DeclareLocal \/ DeclareFunction
  \/ DeclareExternal \/ Hand

ShapeSpec == ShapeInit /\ [][ShapeNext]_allVars

-----------------------------------------------------------------------------
(***************************************************************************)
(* What a line means, by C's rules of precedence                           *)
(***************************************************************************)

\* The tree of t[lo .. hi], commas as lists and without attributes.
RECURSIVE Written(_, _, _)
Written(t, lo, hi) ==
  LET top   == Top(t, lo, hi)
      parts == Parts(t, lo, hi)
      args  == [i \in DOMAIN parts |-> Written(t, parts[i][1], parts[i][2])]
  IN CASE lo > hi               -> List(<<>>)
       [] t[top] = "COMMA"      -> List(Items(args[1]) \o <<args[2]>>)
       [] t[top] = "ATTRIBUTE"  -> args[1]
       [] OTHER                 -> Term(t[top], top, args)

\* The tokens that name what the line t declares.
Named(t) ==
  IF Declares(t) THEN <<2>>
  ELSE SelectSeq([i \in DOMAIN t |-> i],
                 LAMBDA i : t[i] = "NAME" /\ (t[1] = "EXTERNAL" => i = 3))

\* The tree to hand on for the line t.
Meant(t) ==
  LET all == Written(t, 1, Len(t))
  IN CASE t[1] = "CONSTANT" -> all.args[1].args[2]
       [] t[1] = "LOCAL"    -> [all.args[1] EXCEPT !.args[1] = @.args[1]]
       [] t[1] = "FUNCTION" -> Term("CDECL", Len(Named(t)) - 1, <<>>)
       [] t[1] = "EXTERNAL" -> NoTerm
       [] OTHER             -> all

\* What the line declares is known already, and may not be.
AlreadyKnown ==
  \/ Starts(tokens, {"CONSTANT", "FUNCTION"}) /\ tokens[2] = "EVAL"
  \/ Starts(tokens, {"EXTERNAL"}) /\ tokens[3] = "EVAL"

\* A list is longer than an operation can have arguments.
TooLong ==
  \E i \in DOMAIN tokens :
    tokens[i] = "COMMA" /\
      Cardinality({j \in DOMAIN tokens :
                     tokens[j] = "COMMA" /\ (i = j \/ SameLevel(i, j) \/ SameLevel(j, i))})
        >= ArgumentsMax

-----------------------------------------------------------------------------
(***************************************************************************)
(* Properties                                                              *)
(***************************************************************************)

\* Headers of functions apart, of which the end is never looked at, and lists
\* too long, of which the end may be dropped, what is handed on is a complete
\* line with all its tokens in their order, in whatever way they are grouped; a
\* token refused comes after a complete line.  In other words: of a line cut
\* short some operation lacks an argument, which is all that is checked.
HandsOnWholeLines ==
  stage = "shaped" /\ ~Header(tokens) /\ ~TooLong =>
    /\ Complete(Pushed)
    /\ Reading = [i \in DOMAIN Pushed |-> i]

\* What is declared is what the line names, a function's parameters in their
\* order and all of them, although their list was made from both ends.
DeclaresAsWritten ==
  stage = "shaped" => declared = IF Header(tokens) \/ Declares(tokens) THEN Named(tokens) ELSE <<>>

\* Apart from the kinds of lines that the parser does not get right, a complete
\* line is handed on, in the shape that C's rules give it; in lists also
\* where the parser groups from the right what belongs to the left.
ShapedAsWritten ==
  stage # "reading" /\ Complete(tokens) /\ ~PrefixInBrackets /\ ~OperationInIndex
    /\ ~AssignmentChain /\ ~RightBetweenLeft /\ ~AlreadyKnown /\ ~TooLong
    /\ (Header(tokens) => Len(Named(tokens)) <= CdeclMax + 1) =>
      stage = "shaped" /\ shape = Meant(tokens)
=============================================================================
