------------------------------- MODULE Bodies -------------------------------
(***************************************************************************)
(* The control-flow half of the code generator (src/src/compile.c): the    *)
(* nesting of bodies kept in vltl_global_context and the numeric labels    *)
(* and jumps written for function, if, elif, else, while and bare bodies.  *)
(*                                                                         *)
(* Every label is a GNU as local label: its number is reused, and a jump   *)
(* "Nf" goes to the next definition of N, "Nb" to the last one.  Whether a *)
(* jump reaches the place the source program means therefore depends on    *)
(* every label written in between.                                         *)
(*                                                                         *)
(* One action compiles one source line.  Lines without a brace change none *)
(* of this state and are left out.                                         *)
(***************************************************************************)
EXTENDS Naturals, Sequences

CONSTANTS
  BodyCap,   (* VLTL_LANG_BODY_CAP, the length of the bodies array         *)
  MaxLines   (* bound on the number of lines compiled                      *)

ASSUME BodyCapAssumption == BodyCap \in Nat \ {0}
ASSUME MaxLinesAssumption == MaxLines \in Nat

VARIABLES
  indentation_level, (* vltl_global_context.indentation_level              *)
  bodies,            (* body_kind of each slot, stale ones included        *)
  function,          (* whether vltl_global_context.function is not NULL   *)
  status,            (* "ok", "error" (compilation failed), "corrupt"      *)
  assembly,          (* the labels, jumps and conditions written so far    *)
  line,              (* number of lines compiled                           *)
  open,              (* history: the source bodies still open              *)
  wellFormed         (* history: each elif/else followed an if or elif
                        and each function a closed one    *)

vars == <<indentation_level, bodies, function, status, assembly, line,
          open, wellFormed>>

-----------------------------------------------------------------------------
OpenKinds  == {"bare", "if", "while"}
ChainKinds == {"elif", "else"}
Kinds      == OpenKinds \cup ChainKinds \cup {"function"}
Tested     == {"if", "elif", "while"}    \* the kinds with a condition

LabelIterate == 1000
ChainOffset  == 21
OpenOffset  == [bare |-> 1, if |-> 2, elif |-> 3, else |-> 4, while |-> 5,
                function |-> 6]
\* What the test of an if, elif or while jumps to when it fails.
TestOffset  == [if |-> 12, elif |-> 13, while |-> 15]
\* Fault: elif and else both closed with the else label.
CloseOffsetOfElse == [bare |-> 11, if |-> 12, elif |-> 14, else |-> 14,
                      while |-> 15, function |-> 16]

\* An else body is closed with the label of an elif body.
CloseOffset == [bare |-> 11, if |-> 12, elif |-> 13, else |-> 13,
                while |-> 15, function |-> 16]

\* Faults: the level taken off twice; one number for every level.
NumberOffByOne(d, offset) == (d - 1) * LabelIterate + offset
NumberFlat(d, offset)     == offset

\* The number of a label of the body in slot d of bodies.
Number(d, offset) == d * LabelIterate + offset

(***************************************************************************)
(* What is written.  "role" and "of" are history: which place of the       *)
(* source program a label stands for, or which place a jump must reach. A  *)
(* body is named by the line that opens it, a chain by its first line.     *)
(***************************************************************************)
Item(op, n, role, of) == [op |-> op, n |-> n, role |-> role, of |-> of]

ForwardJumps  == {"jmp_f", "jz_f"}
BackwardJumps == {"jmp_b"}
Ops           == {"label", "cond"} \cup ForwardJumps \cup BackwardJumps
Roles         == {"open", "close", "chain_end", "none"}
Items         == [op : Ops, n : Nat, role : Roles, of : Nat]
Body          == [kind : Kinds, id : Nat, chain : Nat]

\* BODY_OPEN, between the code of the condition and its test.
OpenCode(b, d) ==
  LET cond == <<Item("cond", 0, "none", b.id)>>
      mark == <<Item("label", Number(d, OpenOffset[b.kind]), "open", b.id)>>
      test == <<Item("jz_f", Number(d, TestOffset[b.kind]), "close", b.id)>>
  IN IF b.kind \in Tested THEN cond \o mark \o test ELSE mark

\* BODY_CLOSE of the body in slot d; chained when an elif or else adopted it.
CloseCode(b, d, chained) ==
  LET chainEnd == Item("label", Number(d, ChainOffset), "chain_end", b.chain)
      skipRest == Item("jmp_f", Number(d, ChainOffset), "chain_end", b.chain)
      again    == Item("jmp_b", Number(d, OpenOffset["while"]), "open", b.id)
      mark     == Item("label", Number(d, CloseOffset[b.kind]), "close", b.id)
  IN IF d = 0 \/ b.kind = "bare"
     THEN <<mark>>
     ELSE <<IF chained /\ b.kind \in Tested THEN skipRest ELSE chainEnd>>
          \o (IF b.kind = "while" THEN <<again, mark>> ELSE <<mark>>)

-----------------------------------------------------------------------------
Init ==
  /\ indentation_level = 0
  /\ bodies = [d \in 0 .. BodyCap - 1 |-> "UNSET"]
  /\ function = FALSE
  /\ status = "ok"
  /\ assembly = <<>>
  /\ line = 0
  /\ open = <<>>
  /\ wellFormed = TRUE

NextLine == status = "ok" /\ line < MaxLines /\ line' = line + 1

\* Compilation of the line fails and compile_file gives up.
Fail ==
  /\ status' = "error"
  /\ UNCHANGED <<indentation_level, bodies, function, assembly, open>>

\* Fault: the kind is stored after the level went up, one slot too far.
MarkedAbove(d, k) == [bodies EXCEPT ![d + 1] = k]

\* The body opened in slot d is of kind k.
Marked(d, k) == [bodies EXCEPT ![d] = k]

\* "function f() {".  Inside a function, where only a brace is missing, the
\* header is compiled like any other line and fails on the level.
FunctionLine ==
  /\ NextLine
  /\ wellFormed' = (wellFormed /\ open = <<>>)
  /\ IF indentation_level # 0
     THEN Fail
     ELSE /\ indentation_level' = 1
          /\ bodies' = Marked(0, "function")
          /\ function' = TRUE
          /\ open' = <<[kind |-> "function", id |-> line + 1, chain |-> line + 1]>>
          /\ UNCHANGED <<status, assembly>>

\* "{", "if(c) {" or "while(c) {" inside a function.  The guard of the code
\* lets the level pass the array by one: that write is out of bounds.
OpenLine(k) ==
  /\ NextLine
  /\ function
  /\ indentation_level < BodyCap + 1
  /\ IF indentation_level = BodyCap
     THEN /\ status' = "corrupt"
          /\ UNCHANGED <<indentation_level, bodies, function, assembly, open, wellFormed>>
     ELSE LET b == [kind |-> k, id |-> line + 1, chain |-> line + 1]
          IN /\ indentation_level' = indentation_level + 1
             /\ bodies' = Marked(indentation_level, k)
             /\ assembly' = assembly \o OpenCode(b, indentation_level)
             /\ open' = Append(open, b)
             /\ UNCHANGED <<function, status, wellFormed>>

\* The body closed by a brace: its kind is the one stored in its slot.
Closing ==
  [open[Len(open)] EXCEPT !.kind = bodies[indentation_level - 1]]

\* Fault: the function is never ended.
NeverEnded(d) == TRUE

\* Closing the body in slot 0 ends the function.
StillInFunction(d) == d > 0

\* "}" on a line of its own.
CloseLine ==
  /\ NextLine
  /\ function
  /\ indentation_level > 0
  /\ LET d == indentation_level - 1
     IN IF d = 0 /\ bodies[0] # "function"
        THEN Fail /\ UNCHANGED wellFormed
        ELSE /\ indentation_level' = d
             /\ function' = StillInFunction(d)
             /\ assembly' = assembly \o CloseCode(Closing, d, FALSE)
             /\ open' = SubSeq(open, 1, Len(open) - 1)
             /\ UNCHANGED <<bodies, status, wellFormed>>

\* "} elif(c) {" or "} else {": the brace is a child of the elif or else, and
\* is compiled first.  Nothing checks what kind of body it closes.
ChainLine(k) ==
  /\ NextLine
  /\ function
  /\ indentation_level > 0
  /\ LET d == indentation_level - 1
         b == [kind |-> k, id |-> line + 1, chain |-> Closing.chain]
     IN IF d = 0 /\ bodies[0] # "function"
        THEN Fail /\ UNCHANGED wellFormed
        ELSE /\ bodies' = Marked(d, k)
             /\ function' = StillInFunction(d)
             /\ assembly' = assembly \o CloseCode(Closing, d, TRUE) \o OpenCode(b, d)
             /\ open' = [open EXCEPT ![Len(open)] = b]
             /\ wellFormed' = (wellFormed /\ Closing.kind \in {"if", "elif"})
             /\ UNCHANGED <<indentation_level, status>>

Next ==
  \/ FunctionLine
  \/ \E k \in OpenKinds : OpenLine(k)
  \/ CloseLine
  \/ \E k \in ChainKinds : ChainLine(k)

Spec == Init /\ [][Next]_vars

-----------------------------------------------------------------------------
(***************************************************************************)
(* The assembler's view: where a jump written at i lands.                  *)
(***************************************************************************)
Jumps == {i \in DOMAIN assembly : assembly[i].op \in ForwardJumps \cup BackwardJumps}

\* j defines the number jump i names, on the side of i it is looked for.
Defines(j, i) ==
  /\ assembly[j].op = "label"
  /\ assembly[j].n = assembly[i].n
  /\ IF assembly[i].op \in ForwardJumps THEN i < j ELSE j < i

\* j is the definition nearest to i.
Reaches(i, j) ==
  /\ Defines(j, i)
  /\ \A k \in DOMAIN assembly :
       Defines(k, i) => IF i < j THEN j <= k ELSE k <= j

(***************************************************************************)
(* Properties                                                              *)
(***************************************************************************)

\* Every variable has its type.
TypeOK ==
  /\ indentation_level \in 0 .. BodyCap
  /\ bodies \in [0 .. BodyCap - 1 -> Kinds \cup {"UNSET"}]
  /\ function \in BOOLEAN
  /\ status \in {"ok", "error", "corrupt"}
  /\ assembly \in Seq(Items)
  /\ line \in 0 .. MaxLines
  /\ open \in Seq(Body)
  /\ wellFormed \in BOOLEAN

\* A jump written by if, elif, while or a closing brace never lands on a label
\* of another body or another if/elif/else chain that happens to have the same
\* number: whatever follows, the label it reaches is the one the source means.
JumpsReachTheirBody ==
  wellFormed =>
    \A i \in Jumps, j \in DOMAIN assembly :
      Reaches(i, j) => /\ assembly[j].role = assembly[i].role
                       /\ assembly[j].of = assembly[i].of

\* When the last brace of a function has been compiled no jump is left without
\* a label: the assembler never sees an undefined local label, and no jump can
\* run into the next function.
NoDanglingJump ==
  wellFormed /\ ~function =>
    \A i \in Jumps : \E j \in DOMAIN assembly : Defines(j, i)

\* The compiler's idea of the nesting is the source's: the kinds stored in the
\* live slots of bodies are those of the open source bodies, outermost first,
\* and a function is being compiled exactly while some body is open.
ContextMatchesSource ==
  wellFormed =>
    /\ Len(open) = indentation_level
    /\ \A d \in 1 .. Len(open) : bodies[d - 1] = open[d].kind
    /\ function <=> indentation_level > 0

\* BODY_CLOSE never meets a slot it cannot close: compiling a well-formed
\* program does not fail on its braces.
NeverFails == wellFormed => status # "error"

\* A while loop tests its condition anew on every iteration: the code of the
\* condition is between the label the closing brace jumps back to and the jump.
LoopRetestsCondition ==
  \A i \in Jumps, j \in DOMAIN assembly :
    assembly[i].op = "jmp_b" /\ Reaches(i, j) =>
      \E c \in j .. i : assembly[c].op = "cond" /\ assembly[c].of = assembly[i].of
=============================================================================
