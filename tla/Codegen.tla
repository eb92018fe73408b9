------------------------------ MODULE Codegen -------------------------------
(***************************************************************************)
(* The code of one line inside a function (src/src/sast.c and the writing  *)
(* of instructions in src/src/compile.c).  The tree of the parser becomes  *)
(* a tree of machine operations, is reshaped so that every operand passes  *)
(* through a register, is connected (each operation learns its register,   *)
(* and values that a later operand overwrites are saved and restored) and  *)
(* is written out in post-order.  The model then runs the instructions.    *)
(* Connecting also evaluates operations on known numbers; the value of a   *)
(* constant or a global is what its expression evaluates to then.          *)
(*                                                                         *)
(* Values are terms: the value of a - b is <<"SUB", a, b>>, so that no two *)
(* computations agree by accident.  One operation stands for those that    *)
(* are converted alike: SUB for ADD and MUL, IF for ELIF and WHILE, VAR    *)
(* for a local and a global, IMMEDIATE for a literal and a constant,       *)
(* GLOBAL for the declarations of a global and of a constant.              *)
(***************************************************************************)
EXTENDS Integers, Sequences, FiniteSets, SequencesExt

CONSTANTS
  Statements,  (* the trees of the lines to compile                        *)
  Bits         (* the width of a number (64 in the code)                   *)

VARIABLES
  source,    (* the tree of the parser                                     *)
  stage,     (* how far vltl_compile_line is with it                       *)
  tree,      (* the tree of machine operations                             *)
  code,      (* the instructions still to be run                           *)
  regs, mem  (* the machine                                                *)

vars == <<source, stage, tree, code, regs, mem>>

-----------------------------------------------------------------------------
\* Operands.
Reg(r) == <<"REG", r>>
Tmp(n) == <<"TMP", n>>
Tbd    == <<"TBD">>
Unset  == <<"UNSET">>
Junk   == <<"JUNK">>
Zero   == <<"ZERO">>
One    == <<"ONE">>
Immediate(n) == <<"IMMEDIATE", n>>

IsReg(x) == x[1] = "REG"
IsImmediate(x) == x[1] = "IMMEDIATE"

\* enum vltl_asm_register_amd64, without RBP and RSP.
Registers == <<"RAX", "RBX", "RCX", "RDX", "RSI", "RDI", "R8", "R9", "R10", "R11",
               "R12", "R13", "R14", "R15">>

\* Fault: two registers are forgotten.
PreferredTwelve == <<"R11", "R10", "R9", "R8", "RCX", "RDX", "RSI", "RDI", "RAX",
                     "R15", "R14", "R13">>

\* use_these_registers_amd64.
Preferred == <<"R11", "R10", "R9", "R8", "RCX", "RDX", "RSI", "RDI", "RAX",
               "R15", "R14", "R13", "R12", "RBX">>

\* The registers of the first four arguments of a function.
ArgumentRegs == <<"RDI", "RSI", "RDX", "RCX">>

-----------------------------------------------------------------------------
(***************************************************************************)
(* From the tree of the parser to the tree of machine operations           *)
(***************************************************************************)

\* vltl_sast_operation: evaluates_to is what an operand is, destination
\* where the value of an operation is.
Op(k, args) == [kind |-> k, args |-> args, evaluates_to |-> Unset, destination |-> Unset,
                before |-> <<>>, after |-> <<>>]

Eval(x) == [Op("EVAL", <<>>) EXCEPT !.evaluates_to = x]

Store(x, op) == Op("STORE", <<Eval(x), op>>)

InRax(op) == [op EXCEPT !.destination = Reg("RAX")]

\* vltl_sast_operation_convert_amd64_*, one for each kind of operation.
Subtraction(l, r) == Op("SUB", <<l, r>>)
Comparison(l, r)  == Op("TEST_EQUALS", <<l, r>>)
Division(l, r)    == InRax(Op("DIV", <<Store(Reg("RAX"), l), r>>))
Grouping(op)      == Op("GROUPING_OPEN", <<op, Op("GROUPING_CLOSE", <<>>)>>)
Indirection(op)   == Op("INDIRECTION", <<op>>)
Address(op)       == Op("LEA", <<Eval(Tbd), op>>)
Index(base, op)   == Op("LOAD_SRC3", <<Eval(Tbd), Op("LOAD", <<Eval(Tbd), base>>), Eval(Zero), op,
                                       Op("INDEX_CLOSE", <<>>)>>)
Call(op)          == InRax(Op("CALL", <<Eval(<<"FUNCTION">>), op>>))
Csv(ops)          == Op("CSV", ops)
Return(op)        == Op("RETURN", <<Store(Reg("RAX"), op)>>)
Assignment(to, op) == Op("STORE", <<to, op>>)
Condition(op)     == Op("IF", <<op, Op("BODY_OPEN", <<>>)>>)

RECURSIVE Converted(_)
Converted(e) ==
  LET of(i) == Converted(e[i])
  IN CASE e[1] \in {"VAR", "IMMEDIATE"} -> Eval(e)
       [] e[1] = "SUB"           -> Subtraction(of(2), of(3))
       [] e[1] = "TEST_EQUALS"   -> Comparison(of(2), of(3))
       [] e[1] = "DIV"           -> Division(of(2), of(3))
       [] e[1] = "GROUPING_OPEN" -> Grouping(of(2))
       [] e[1] = "INDIRECTION"   -> Indirection(of(2))
       [] e[1] = "ADDRESS"       -> Address(of(2))
       [] e[1] = "INDEX_OPEN"    -> Index(of(2), of(3))
       [] e[1] = "CALL"          -> Call(of(2))
       [] e[1] = "CSV"           -> Csv([i \in 1 .. Len(e) - 1 |-> of(i + 1)])
       [] e[1] = "RETURN"        -> Return(of(2))
       [] e[1] = "EQUALS"        -> Assignment(of(2), of(3))
       [] e[1] = "GLOBAL"        -> of(3)
       [] e[1] = "IF"            -> Condition(of(2))

\* Fault: the source of a store stays in memory too.
KeptWhole(k, i) == k \in {"CALL", "STORE"} \/ <<k, i>> \in {<<"LEA", 2>>, <<"LOAD_SRC3", 2>>}

\* Whether argument i of an operation of kind k stays as it is rather than
\* passing through a register: it is the destination, or used as a pointer.
Kept(k, i) == k = "CALL" \/ <<k, i>> \in {<<"STORE", 1>>, <<"LEA", 2>>, <<"LOAD_SRC3", 2>>}

\* vltl_sast_tree_reshape_eval
ThroughRegister(k, i, op) ==
  IF op.kind = "EVAL" /\ op.evaluates_to[1] \notin {"TBD", "REG"} /\ ~Kept(k, i)
  THEN Store(Tbd, op)
  ELSE op

\* vltl_sast_tree_reshape_call_helper
InArgumentReg(i, op) ==
  [Op("LOAD", <<Eval(Reg(ArgumentRegs[i])), op>>) EXCEPT !.destination = Reg(ArgumentRegs[i])]

\* vltl_sast_tree_reshape_call: the arguments are a list, or one operation.
InArgumentRegs(call) ==
  LET given == call.args[2].args[1]
      taken == IF given.kind = "CSV"
               THEN [given EXCEPT !.args = [i \in DOMAIN @ |-> InArgumentReg(i, @[i])]]
               ELSE InArgumentReg(1, given)
  IN [call EXCEPT !.args[2].args[1] = taken]

RECURSIVE Reshaped(_)
Reshaped(op) ==
  LET new == [op EXCEPT !.args =
                [i \in DOMAIN @ |-> ThroughRegister(op.kind, i, Reshaped(@[i]))]]
  IN IF op.kind = "CALL" THEN InArgumentRegs(new) ELSE new

\* The calls of a tree have at most four arguments each.
RECURSIVE FewArguments(_)
FewArguments(op) ==
  /\ op.kind = "CSV" => Len(op.args) <= Len(ArgumentRegs)
  /\ \A i \in DOMAIN op.args : FewArguments(op.args[i])

-----------------------------------------------------------------------------
(***************************************************************************)
(* Connecting                                                              *)
(***************************************************************************)
\* The line declares a global or a constant: it stands outside a function, where
\* no registers are given to values and none are saved.
Declares == source[1] = "GLOBAL"

Free(inuse) == SelectSeq(Preferred, LAMBDA r : r \notin inuse)

\* vltl_sast_tree_connect_resolve_tbd
Resolved(op, inuse) ==
  IF Declares THEN op
  ELSE [op EXCEPT !.evaluates_to = Reg(Free(inuse)[1]), !.destination = Reg(Free(inuse)[1])]

\* vltl_sast_tree_connect_adopt_tbd: a value in a register that an earlier
\* argument is in moves to one that none of them is in.
Moved(op, inuse) ==
  LET to == Resolved(Eval(Tbd), inuse)
  IN [Op("STORE", <<to, op>>) EXCEPT !.evaluates_to = op.evaluates_to,
                                     !.destination = to.evaluates_to]

\* Registers an operation changes besides its destination.
Clobbers(k) ==
  CASE k = "RETURN" -> {"RAX"}
    [] k = "DIV"    -> {"RAX", "RDX"}
    [] k = "CALL"   -> {"RAX", "RBX", "R12", "R13", "R14", "R15"}
    [] OTHER        -> {}

RegOf(op) == IF IsReg(op.destination) THEN {op.destination[2]} ELSE {}

\* Fault: the second operand first.
TwoSwapped(k, x, y) ==
  CASE k = "SUB"         -> (y + 2 ^ Bits - x) % 2 ^ Bits
    [] k = "DIV"         -> x \div y
    [] k = "TEST_EQUALS" -> IF x = y THEN 1 ELSE 0

\* vltl_sast_tree_connect_sub_two, _div_two and _test_equals, on uint64_t.
Two(k, x, y) ==
  CASE k = "SUB"         -> (x + 2 ^ Bits - y) % 2 ^ Bits
    [] k = "DIV"         -> x \div y
    [] k = "TEST_EQUALS" -> IF x = y THEN 1 ELSE 0

Arithmetic == {"SUB", "DIV", "TEST_EQUALS"}

\* vltl_sast_tree_connect_evaluate_two applies to op.
BothKnown(op) ==
  op.kind \in Arithmetic /\ \A i \in 1 .. 2 : IsImmediate(op.args[i].evaluates_to)

DividesByZero(op) ==
  op.kind = "DIV" /\ BothKnown(op) /\ op.args[2].evaluates_to = Immediate(0)

\* What op is known to be once its arguments are.
Known(op) ==
  CASE BothKnown(op) ->
         Immediate(Two(op.kind, op.args[1].evaluates_to[2], op.args[2].evaluates_to[2]))
    [] op.kind \in {"GROUPING_OPEN", "RETURN", "IF"} -> op.args[1].evaluates_to
    [] op.kind = "STORE" -> op.args[2].evaluates_to
    [] OTHER -> op.evaluates_to

\* Where the value of an operation is.
FromArguments(op) ==
  LET k == op.kind
      a == op.args
  IN CASE k \in {"LEA", "INDIRECTION", "SUB", "DIV", "TEST_EQUALS", "LOAD", "LOAD_SRC3",
                 "GROUPING_OPEN", "RETURN", "IF"}
                      -> [op EXCEPT !.destination = a[1].destination]
       [] k = "STORE" -> [op EXCEPT !.destination = a[1].evaluates_to]
       [] OTHER       -> op

\* What vltl_sast_tree_connect_recurse knows while it goes over the arguments
\* of op: from, the registers they are in; below, those changed below op; n,
\* the function's num_tmp_variables; end, "connected" unless no register was
\* found ("refused") or the compiler divided by zero ("trapped").
Start(op, n) == [op |-> [op EXCEPT !.args = <<>>], from |-> {}, below |-> {}, n |-> n,
                 end |-> "connected"]
Ended(s) == s.end # "connected"

\* vltl_sast_tree_connect_protect_siblings: an earlier argument in a register
\* that the last one changed is saved after it is computed, and restored
\* before op.
Protected(s, changed) ==
  LET last      == Len(s.op.args)
      holder(r) == {j \in 1 .. last - 1 : s.op.args[j].destination = Reg(r)}
      struck    == SelectSeq(Registers, LAMBDA r : r \in changed /\ holder(r) # {})
      save(j)   == LET mine == SelectSeq([i \in DOMAIN struck |-> i],
                                         LAMBDA i : j \in holder(struck[i]))
                   IN [i \in DOMAIN mine |-> Store(Tmp(s.n + mine[i]), Eval(Reg(struck[mine[i]])))]
  IN IF Declares THEN [s EXCEPT !.below = @ \cup changed]
     ELSE [s EXCEPT !.op.args   = [j \in DOMAIN @ |-> [@[j] EXCEPT !.after = @ \o save(j)]],
                    !.op.before = @ \o [i \in DOMAIN struck |->
                                          Store(Reg(struck[i]), Eval(Tmp(s.n + i)))],
                    !.below = @ \cup (changed \cap s.from),
                    !.n     = @ + Len(struck)]

RECURSIVE Connected(_, _, _), WithArgument(_, _, _)

\* s after argument arg of an operation, which has the registers above in use
\* around it, is connected.
WithArgument(s, arg, above) ==
  LET c    == Connected(arg, above \cup s.from, s.n)
      here == IF RegOf(c.op) \cap s.from # {} THEN Moved(c.op, s.from) ELSE c.op
  IN IF Ended(s) THEN s
     ELSE IF Ended(c) THEN [s EXCEPT !.end = c.end]
     ELSE Protected([s EXCEPT !.op.args = Append(@, here),
                              !.from    = @ \cup RegOf(here),
                              !.below   = @ \cup RegOf(here),
                              !.n       = c.n],
                    c.below)

\* vltl_sast_tree_connect_recurse
Connected(op, above, n) ==
  LET s == FoldLeft(LAMBDA t, arg : WithArgument(t, arg, above), Start(op, n), op.args)
      new == FromArguments(s.op)
  IN IF op.evaluates_to = Tbd
     THEN IF ~Declares /\ Free(above) = <<>> THEN [Start(op, n) EXCEPT !.end = "refused"]
          ELSE LET own == Resolved(op, above) IN [Start(own, n) EXCEPT !.below = RegOf(own)]
     ELSE IF Ended(s) THEN s
     ELSE IF DividesByZero(new) THEN [s EXCEPT !.end = "trapped"]
     ELSE [s EXCEPT !.op    = [new EXCEPT !.evaluates_to = Known(new)],
                    !.below = @ \cup RegOf(new) \cup Clobbers(op.kind)]

-----------------------------------------------------------------------------
(***************************************************************************)
(* Writing the instructions                                                *)
(***************************************************************************)

\* vltl_compile_operation_operandify
Operand(op) == IF op.kind = "EVAL" THEN op.evaluates_to ELSE op.destination

\* The number of arguments of a call.
Arity(call) ==
  LET given == call.args[2].args[1] IN IF given.kind = "CSV" THEN Len(given.args) ELSE 1

\* vltl_compile_operation_convert_instruction: one instruction, with the
\* operands that are not implied.
Instruction(op) ==
  LET operands == [i \in DOMAIN op.args |-> Operand(op.args[i])]
      k == op.kind
  IN CASE k \in {"STORE", "LOAD"} -> << <<"mov">> \o operands >>
       [] k = "LEA"    -> << <<"lea">> \o operands >>
       [] k = "SUB"    -> << <<"sub">> \o operands >>
       [] k = "DIV"    -> << <<"xor", Reg("RDX")>>, <<"idiv", operands[2]>> >>
       [] k = "CALL"   -> << <<"call", Arity(op)>> >>
       [] k = "RETURN" -> << <<"ret">> >>
       [] OTHER        -> <<>>

\* vltl_compile_operation_convert_label, of a comparison and of a condition.
Compare(op) ==
  LET l == Operand(op.args[1])
      r == Operand(op.args[2])
  IN << <<"cmp", l, r>>, <<"mov", op.destination, Zero>>, <<"mov", r, One>>,
        <<"cmove", op.destination, r>> >>

Test(op) == << <<"test", op.destination>> >>

\* vltl_compile_operation_convert: the instructions of op itself.
Instructions(op) ==
  LET d == op.destination
  IN CASE op.kind = "TEST_EQUALS" -> Compare(op)
       [] op.kind = "IF"          -> Test(op)
       [] op.kind = "INDIRECTION" -> << <<"mov", d, Operand(op.args[1])>>, <<"deref", d, d>> >>
       [] op.kind = "LOAD_SRC3"   -> << <<"index", d, Operand(op.args[2]), Operand(op.args[4])>> >>
       [] OTHER                   -> Instruction(op)

RECURSIVE Written(_)

\* Fault: operands are restored after the operation.
WrittenRestoresLate(op) ==
  LET all(ops) == FlattenSeq([i \in DOMAIN ops |-> Written(ops[i])])
  IN IF op.kind = "EVAL" THEN <<>>
     ELSE all(op.args) \o Instructions(op) \o all(op.before) \o all(op.after)

\* vltl_compile_convert_recurse
Written(op) ==
  LET all(ops) == FlattenSeq([i \in DOMAIN ops |-> Written(ops[i])])
  IN IF op.kind = "EVAL" THEN <<>>
     ELSE all(op.args) \o all(op.before) \o Instructions(op) \o all(op.after)

-----------------------------------------------------------------------------
(***************************************************************************)
(* Running the instructions                                                *)
(***************************************************************************)

\* The registers a function may leave changed: its frame saves the others.
CallerSaved == {"RAX", "RCX", "RDX", "RSI", "RDI", "R8", "R9", "R10", "R11"}

\* What the machine knows of operand x; temporary locals start undefined.
Read(x) == CASE IsReg(x)        -> regs[x[2]]
             [] x \in DOMAIN mem -> mem[x]
             [] x[1] = "TMP"     -> Junk
             [] OTHER            -> x

\* The machine after operand x is set to v.
Sets(x, v) ==
  IF IsReg(x)
  THEN regs' = [regs EXCEPT ![x[2]] = v] /\ UNCHANGED mem
  ELSE mem' = (x :> v) @@ mem /\ UNCHANGED regs

\* rdx:rax by the operand, if the division does not trap.
Quotient(divisor) ==
  IF regs["RDX"] = Zero /\ divisor # Zero THEN <<"DIV", regs["RAX"], divisor>> ELSE Junk

\* What the called function, which follows the calling convention, leaves.
AfterCall(n) ==
  [r \in DOMAIN regs |->
     CASE r = "RAX" -> <<"CALL", [i \in 1 .. n |-> regs[ArgumentRegs[i]]]>>
       [] r \in CallerSaved \ {"RAX"} -> Junk
       [] OTHER -> regs[r]]

Effect(ins) ==
  CASE ins[1] = "mov"   -> Sets(ins[2], Read(ins[3]))
    [] ins[1] = "lea"   -> Sets(ins[2], <<"ADDRESS", ins[3]>>)
    [] ins[1] = "sub"   -> Sets(ins[2], <<"SUB", Read(ins[2]), Read(ins[3])>>)
    [] ins[1] = "xor"   -> Sets(ins[2], Zero)
    [] ins[1] = "idiv"  -> /\ regs' = [regs EXCEPT !["RAX"] = Quotient(Read(ins[2])), !["RDX"] = Junk]
                           /\ UNCHANGED mem
    [] ins[1] = "cmp"   -> Sets(Reg("FLAGS"), <<"TEST_EQUALS", Read(ins[2]), Read(ins[3])>>)
    [] ins[1] = "cmove" -> Sets(ins[2], IF Read(ins[2]) = Zero /\ Read(ins[3]) = One
                                        THEN regs["FLAGS"] ELSE Junk)
    [] ins[1] = "deref" -> Sets(ins[2], <<"INDIRECTION", Read(ins[3])>>)
    [] ins[1] = "index" -> Sets(ins[2], <<"INDEX_OPEN", Read(ins[3]), Read(ins[4])>>)
    [] ins[1] = "call"  -> regs' = AfterCall(ins[2]) /\ UNCHANGED mem
    [] ins[1] = "test"  -> Sets(Reg("FLAGS"), Read(ins[2]))
    [] ins[1] = "ret"   -> UNCHANGED <<regs, mem>>

-----------------------------------------------------------------------------
Init ==
  /\ source \in Statements
  /\ stage = "parsed"
  /\ tree = Op("UNSET", <<>>)
  /\ code = <<>>
  /\ regs = [r \in ToSet(Registers) \cup {"FLAGS"} |-> Junk]
  /\ mem = <<>>

Convert ==
  /\ stage = "parsed"
  /\ stage' = "converted"
  /\ tree' = Converted(source)
  /\ UNCHANGED <<source, code, regs, mem>>

Reshape ==
  /\ stage = "converted"
  /\ IF FewArguments(tree)
     THEN stage' = "reshaped" /\ tree' = Reshaped(tree)
     ELSE stage' = "refused" /\ UNCHANGED tree
  /\ UNCHANGED <<source, code, regs, mem>>

Connect ==
  /\ stage = "reshaped"
  /\ LET c == Connected(tree, {}, 0)
     IN stage' = c.end /\ tree' = IF Ended(c) THEN tree ELSE c.op
  /\ UNCHANGED <<source, code, regs, mem>>

\* A constant or a global gets what its expression is known to be.
Declare ==
  /\ stage = "connected"
  /\ Declares
  /\ IF IsImmediate(tree.evaluates_to)
     THEN stage' = "declared" /\ mem' = (source[2] :> tree.evaluates_to)
     ELSE stage' = "refused" /\ UNCHANGED mem
  /\ UNCHANGED <<source, tree, code, regs>>

Write ==
  /\ stage = "connected"
  /\ ~Declares
  /\ stage' = "running"
  /\ code' = Written(tree)
  /\ UNCHANGED <<source, tree, regs, mem>>

Run ==
  /\ stage = "running"
  /\ code # <<>>
  /\ Effect(Head(code))
  /\ code' = Tail(code)
  /\ stage' = IF Len(code) = 1 THEN "done" ELSE "running"
  /\ UNCHANGED <<source, tree>>

Next == Convert \/ Reshape \/ Connect \/ Declare \/ Write \/ Run

Spec == Init /\ [][Next]_vars

-----------------------------------------------------------------------------
(***************************************************************************)
(* What a line means                                                       *)
(***************************************************************************)
IsBinary(e) == e[1] \in Arithmetic

IsLeaf(e) == e[1] \in {"VAR", "IMMEDIATE", "ADDRESS"}

Operands(e) == IF IsLeaf(e) THEN {} ELSE {e[i] : i \in 2 .. Len(e)}

RECURSIVE Value(_)
Value(e) ==
  CASE IsLeaf(e)              -> e
    [] e[1] = "GROUPING_OPEN" -> Value(e[2])
    [] e[1] = "CALL" ->
         LET given == e[2][2]
         IN <<"CALL", IF given[1] = "CSV" THEN [i \in 1 .. Len(given) - 1 |-> Value(given[i + 1])]
                      ELSE <<Value(given)>> >>
    [] OTHER -> [i \in DOMAIN e |-> IF i = 1 THEN e[1] ELSE Value(e[i])]

\* The line's expression and all the expressions in it.
Expression == Last(source)

RECURSIVE Within(_)
Within(e) == {e} \cup UNION {Within(x) : x \in Operands(e)}

Has(e, k) == \E x \in Within(e) : x[1] = k

\* Whether the value of e ends in RAX.
RECURSIVE EndsInRax(_)
EndsInRax(e) ==
  \/ e[1] \in {"CALL", "DIV"}
  \/ e[1] \in {"GROUPING_OPEN", "INDIRECTION", "SUB", "TEST_EQUALS"} /\ EndsInRax(e[2])

\* Whether e keeps its first operand in RAX while it computes the second.
HoldsRax(e) == IsBinary(e) /\ (e[1] = "DIV" \/ EndsInRax(e[2]))

\* Whether e keeps its first operand elsewhere meanwhile.
HoldsOther(e) == e[1] = "INDEX_OPEN" \/ (IsBinary(e) /\ ~HoldsRax(e))

\* The number of registers e takes for operands that wait for others.
RECURSIVE Width(_)
Width(e) ==
  CASE Operands(e) = {}     -> 1
    [] IsBinary(e)          -> Max({Width(e[2]), 1 + Width(e[3])})
    [] e[1] = "INDEX_OPEN"  -> 3 + Width(e[3])
    [] OTHER                -> Max({Width(x) : x \in Operands(e)})

(***************************************************************************)
(* Numbers: what a function would compute for an expression of literals    *)
(***************************************************************************)
Negative(n) == n >= 2 ^ (Bits - 1)

\* A division the processor stops at.
Trap == 2 ^ Bits

\* xor rdx, rdx; idiv: a dividend that is never negative by a divisor that may
\* be, and a quotient that has to fit.
Idiv(x, y) ==
  LET by == IF Negative(y) THEN 2 ^ Bits - y ELSE y
      q  == x \div by
  IN IF y = 0 \/ q > 2 ^ (Bits - 1) \/ (q = 2 ^ (Bits - 1) /\ ~Negative(y)) THEN Trap
     ELSE IF Negative(y) THEN (2 ^ Bits - q) % 2 ^ Bits
     ELSE q

RECURSIVE Computes(_)
Computes(e) ==
  CASE e[1] = "IMMEDIATE"     -> e[2]
    [] e[1] = "GROUPING_OPEN" -> Computes(e[2])
    [] OTHER ->
         LET x == Computes(e[2])
             y == Computes(e[3])
         IN CASE Trap \in {x, y}       -> Trap
              [] e[1] = "SUB"          -> (x - y) % 2 ^ Bits
              [] e[1] = "DIV"          -> Idiv(x, y)
              [] e[1] = "TEST_EQUALS"  -> IF x = y THEN 1 ELSE 0

\* The expression is made of numbers.
OfNumbers(e) ==
  \A x \in Within(e) : x[1] \in {"IMMEDIATE", "GROUPING_OPEN"} \cup Arithmetic

\* The compiler divides unsigned numbers and the processor signed ones.  They
\* differ when the divisor is negative, or the quotient is.
DividesSigned(e) ==
  \E d \in Within(e) :
    d[1] = "DIV" /\ OfNumbers(d) /\ (Computes(d) = Trap \/ Negative(Computes(d[3])))

\* A division in e by what the compiler takes for zero.
ByZero(e) ==
  \E d \in Within(e) :
    d[1] = "DIV" /\ OfNumbers(d) /\ (Computes(d[3]) = 0 \/ DividesSigned(d[3]))

-----------------------------------------------------------------------------
\* What goes wrong.  A call changes registers besides those Clobbers lists,
\* and an operand that waits for it in one of them is lost;
LostToCall ==
  \E e \in Within(Expression) :
    \/ HoldsOther(e) /\ Has(e[3], "CALL")
    \/ e[1] = "CSV" /\ \E i \in 3 .. Len(e) : Has(e[i], "CALL")

\* so is one that waits in RAX for a division two operations further down,
\* of which only the operation between hears;
LostToDivision ==
  \E e \in Within(Expression) :
    /\ HoldsRax(e) /\ (Has(e[3], "DIV") \/ Has(e[3], "CALL"))
    /\ ~EndsInRax(e[3]) /\ \A x \in Operands(e[3]) : ~EndsInRax(x)

\* or for an operation whose operands are both in RAX, and which moves one of
\* them to a register it believes free;
LostToMove ==
  \E e \in Within(Expression) :
    HoldsOther(e) /\ \E x \in Within(e[3]) \ {e[3]} : HoldsRax(x) /\ EndsInRax(x[3])

\* a division with five operands waiting has the sixth register, RDX, for its
\* divisor or for one of them;
RECURSIVE DividesBelow(_, _)
DividesBelow(e, waiting) ==
  LET more == waiting + IF e[1] = "INDEX_OPEN" THEN 3 ELSE 1
  IN \/ e[1] = "DIV" /\ waiting >= 5
     \/ /\ Operands(e) # {}
        /\ \/ DividesBelow(e[2], waiting)
           \/ \E i \in 3 .. Len(e) : DividesBelow(e[i], more)

\* and the register of an earlier argument is not known to be taken.
LostArgument ==
  \E e \in Within(Expression) :
    /\ e[1] = "CSV"
    /\ \/ \E i \in 3 .. Len(e) : Width(e[i]) >= 11 - i
       \/ Len(e) > 4 /\ Has(e[5], "DIV")

-----------------------------------------------------------------------------
(***************************************************************************)
(* Properties                                                              *)
(***************************************************************************)
Memory(x) == x[1] \in {"VAR", "TMP"}

\* Every operand of an instruction is known, a register among them is one the
\* code generator may use, and at most one is in memory.
Encodable ==
  \A i \in DOMAIN code :
    code[i][1] # "call" =>
      /\ \A j \in 2 .. Len(code[i]) :
           /\ code[i][j] \notin {Unset, Tbd}
           /\ IsReg(code[i][j]) => code[i][j][2] \in ToSet(Registers)
      /\ Cardinality({j \in 2 .. Len(code[i]) : Memory(code[i][j])}) <= 1

\* The line assigns to something else than a name.
AssignsElsewhere == source[1] = "EQUALS" /\ source[2][1] # "VAR"

\* The value is where the line puts it, and no other variable has changed.  An
\* assignment through @, to [...] or to brackets ends in a register: the code
\* reads what is there and the value is put in its place.
Correct ==
  /\ CASE source[1] = "RETURN"  -> regs["RAX"] = Value(Expression)
       [] source[1] = "IF"      -> regs["FLAGS"] = Value(Expression)
       [] AssignsElsewhere      -> \E r \in ToSet(Registers) : regs[r] = Value(Expression)
       [] source[1] = "EQUALS"  -> source[2] \in DOMAIN mem /\ mem[source[2]] = Value(Expression)
  /\ \A x \in DOMAIN mem : x[1] = "VAR" => source[1] = "EQUALS" /\ x = source[2]

\* Apart from the five kinds of lines above, what runs computes the value of
\* the line: each register and each temporary local keeps an operand for as
\* long as it is needed.
ComputesValue ==
  stage = "done" /\ ~LostToCall /\ ~LostToDivision /\ ~LostToMove /\ ~LostArgument
    /\ ~DividesBelow(Expression, 0) => Correct

\* Only a statement that needs more registers than there are, or a line that
\* passes more arguments than are supported, is refused, and a declaration whose
\* value is not made of numbers: one of numbers may be nested as deep as it likes.
RefusedOnlyTooWide ==
  stage = "refused" =>
    \/ ~Declares /\ Width(Expression) > Len(Registers)
    \/ \E e \in Within(Expression) : e[1] = "CSV" /\ Len(e) - 1 > Len(ArgumentRegs)
    \/ Declares /\ ~OfNumbers(Expression)

\* Signed divisions apart, a constant or a global has the value that a function
\* would compute for the same expression, wrap-around included; and the compiler
\* stops on a division of its own only where the source divides by zero.
FoldsAsComputed ==
  /\ stage = "declared" /\ ~DividesSigned(Expression) =>
       mem[source[2]] = Immediate(Computes(Expression))
  /\ stage = "trapped" => ByZero(Expression)

\* Lines with calls but without divisions compute their value: operands are
\* protected from what a later one overwrites (sast.c: "protect lower-index
\* operations if arguments of connect_me->arguments[i] clobber their
\* destination").
CallsKeepOperands == stage = "done" /\ ~Has(Expression, "DIV") /\ ~LostArgument => Correct
=============================================================================
