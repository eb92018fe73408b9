----------------------------- MODULE MCCodegen ------------------------------
(***************************************************************************)
(* Lines of a few operations, for TLC.                                     *)
(***************************************************************************)
EXTENDS Codegen

CONSTANT
  Operations,  (* the number of operations of a line                       *)
  Depths,      (* how deep the last operation of a chain of lines is       *)
  Literals     (* the literals of expressions of numbers                   *)

Binding == [TEST_EQUALS |-> 1, SUB |-> 2, DIV |-> 3]

\* Whether the first token of e stands before its operand.
RECURSIVE StartsPrefix(_)
StartsPrefix(e) ==
  \/ e[1] \in {"CALL", "INDIRECTION", "ADDRESS"}
  \/ IsBinary(e) /\ StartsPrefix(e[2])

\* The expressions that may stand in brackets, of those in E, in brackets:
\* the parser refuses the others.
Grouped(E) == {<<"GROUPING_OPEN", e>> : e \in {e \in E : ~StartsPrefix(e)}}

\* The expressions E as operands of k: the ones that bind less tightly, or as
\* tightly on the right, are in brackets.
AsOperands(E, k, right) ==
  LET loose(e) == IsBinary(e) /\ (Binding[e[1]] < Binding[k] + right)
  IN {e \in E : ~loose(e)} \cup Grouped({e \in E : loose(e)})

\* The expressions of n operations; the names of their variables start with p.
RECURSIVE Expressions(_, _)
Expressions(n, p) ==
  LET here    == <<"VAR", p>>
      first   == Append(p, 1)
      second  == Append(p, 2)
      one     == Expressions(n - 1, first)
      single(E) == {e \in E : ~IsBinary(e)} \cup Grouped({e \in E : IsBinary(e)})
  IN IF n = 0 THEN {here}
     ELSE UNION {
       {<<"INDIRECTION", e>> : e \in single(one)},
       {<<"ADDRESS", here>> : x \in IF n = 1 THEN {1} ELSE {}},
       {<<"INDEX_OPEN", here, e>> : e \in {e \in single(one) : ~StartsPrefix(e)}},
       {<<"CALL", g>> : g \in Grouped(one)},
       UNION {
         LET l == Expressions(m, first)
             r == Expressions(n - 1 - m, second)
         IN {<<"CALL", <<"GROUPING_OPEN", <<"CSV", x, y>> >> >> : x \in {x \in l : ~StartsPrefix(x)}, y \in r}
              \cup UNION {{<<k, x, y>> : x \in AsOperands(l, k, 0), y \in AsOperands(r, k, 1)}
                          : k \in DOMAIN Binding}
         : m \in 0 .. n - 1}}

\* e as the last operand of a chain of d subtractions.
RECURSIVE Under(_, _)
Under(d, e) ==
  IF d = 0 THEN e
  ELSE LET rest == Under(d - 1, e)
       IN <<"SUB", <<"VAR", <<3, d>> >>, IF IsBinary(rest) THEN <<"GROUPING_OPEN", rest>> ELSE rest>>

\* Calls of n arguments, e at the end of a chain the j-th.
WideCalls ==
  {<<"CALL", <<"GROUPING_OPEN",
      <<"CSV">> \o [i \in 1 .. n |-> IF i = j THEN Under(d, e) ELSE <<"VAR", <<4, i>> >>] >> >> :
     n \in 3 .. 5, j \in 2 .. 4, d \in {0, 4, 5}, e \in Expressions(1, <<1>>)}

\* The expressions of n operations on numbers.
RECURSIVE OnNumbers(_)
OnNumbers(n) ==
  LET operand(m) == {IF IsBinary(e) THEN <<"GROUPING_OPEN", e>> ELSE e : e \in OnNumbers(m)}
  IN IF n = 0 THEN {<<"IMMEDIATE", i>> : i \in Literals}
     ELSE UNION {{<<k, x, y>> : k \in Arithmetic, x \in operand(m), y \in operand(n - 1 - m)} :
                   m \in 0 .. n - 1}

\* A chain of d subtractions of numbers, each in brackets within the one before.
RECURSIVE NumberChain(_)
NumberChain(d) ==
  IF d = 0 THEN <<"IMMEDIATE", 1>>
  ELSE <<"SUB", <<"IMMEDIATE", 2>>, <<"GROUPING_OPEN", NumberChain(d - 1)>> >>

\* Declarations, some longer than there are registers, and statements with
\* numbers among their operands.
Numbers ==
  LET v == <<"VAR", <<2>> >>
      N == UNION {OnNumbers(n) : n \in 0 .. 2}
      mixed == {<<"SUB", v, <<"GROUPING_OPEN", e>> >> : e \in OnNumbers(1)}
  IN {<<"GLOBAL", v, e>> : e \in N \cup OnNumbers(Operations) \cup mixed
                                  \cup Expressions(1, <<1>>)
                                  \cup {Under(14, <<"IMMEDIATE", 1>>), NumberChain(15)}}
       \cup {<<"RETURN", e>> : e \in N \cup mixed}

\* Assignments to what is not a name.
Elsewhere ==
  LET v == <<"VAR", <<2>> >>
  IN {<<"EQUALS", t, e>> :
        t \in {<<"INDIRECTION", v>>, <<"GROUPING_OPEN", v>>, <<"INDEX_OPEN", v, <<"VAR", <<3>> >> >>,
               <<"INDIRECTION", <<"GROUPING_OPEN", <<"SUB", v, <<"VAR", <<3>> >> >> >> >>},
        e \in UNION {Expressions(n, <<1>>) : n \in 0 .. 1}}

MCStatements ==
  LET E == UNION {Expressions(n, <<1>>) : n \in 0 .. Operations}
             \cup {Under(d, e) : d \in Depths, e \in Expressions(1, <<1>>)} \cup WideCalls
  IN {<<"RETURN", e>> : e \in E} \cup {<<"EQUALS", <<"VAR", <<2>> >>, e>> : e \in E}
       \cup {<<"IF", e>> : e \in E} \cup Numbers \cup Elsewhere
=============================================================================
