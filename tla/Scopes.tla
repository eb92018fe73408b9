------------------------------- MODULE Scopes -------------------------------
(***************************************************************************)
(* Names inside a function (src/src/lang/function.c and the parts of       *)
(* lexer.c, reshape.c, sast.c, compile.c and asm/operand.c that look names *)
(* up).  Each open body has a table of locals; a local gets the next slot  *)
(* of the function's frame, which is never given back.  What a called      *)
(* function pushes comes right after the frame, whose size is fixed.       *)
(*                                                                         *)
(* A name is looked up twice.  Reading the line, the lexer decides whether *)
(* it is a local or a global.  Writing its instructions, a local is looked *)
(* up again, by name, for its slot.  Between the two the line may have     *)
(* declared locals, or closed the body that held the name.                 *)
(*                                                                         *)
(* A line names at most one variable besides the ones it declares.  Beside *)
(* the compiler's tables the model keeps what the source means by a name,  *)
(* and which local's value each slot of the frame holds.  Braces are those *)
(* of a well-formed program; what else they do is in Bodies.               *)
(***************************************************************************)
EXTENDS Integers, Sequences

CONSTANTS
  Names,      (* the names a source may use                                *)
  Nothing,    (* stands for no name, and for no value                      *)
  MaxParams,  (* bound on the parameters of a function                     *)
  FrameSlots, (* the slots of a frame: 0x400 bytes, of eight each (128)    *)
  MaxLines    (* bound on the lines of a source                            *)

ASSUME NothingAssumption == Nothing \notin Names
ASSUME BoundsAssumption == MaxParams \in 0 .. 4 /\ MaxLines \in Nat
ASSUME FrameSlotsAssumption == FrameSlots \in Nat /\ FrameSlots >= MaxParams

VARIABLES
  globals,    (* the names in the tables of globals and constants          *)
  context,    (* the bodies' local_variables, and the function's counters  *)
  status,     (* "ok", or "refused" once a line failed                     *)
  frame,      (* the value each slot written so far holds                  *)
  open,       (* what the open bodies of the source declare                *)
  wellScoped, (* whether the source declares each name it uses, once       *)
  last,       (* the last line: its kind, the variable it names and reads  *)
  line        (* number of lines compiled                                  *)

vars == <<globals, context, status, frame, open, wellScoped, last, line>>

-----------------------------------------------------------------------------
(***************************************************************************)
(* Tables                                                                  *)
(***************************************************************************)
\* What a slot, or a name in the source, stands for.
Parameter(n) == <<"parameter", n>>
Local(n)     == <<"local", n>>
Spilled(n)   == <<"spilled", n>>
Global(x)    == <<"global", x>>
Overwritten  == <<"overwritten">>

\* The name of temporary local n; what is read of the name of a parameter
\* that is already the name of a global.
Temporary(n) == <<"_tmp_", n>>
Misread(x)   == <<"misread", x>>

\* A source could itself call a local what the compiler calls a temporary one
\* (_tmp_0x1): such sources are left out.
ASSUME ReservedAssumption ==
  /\ \A n \in 0 .. MaxLines : Temporary(n) \notin Names
  /\ \A x \in Names : Misread(x) \notin Names

Empty == [x \in {} |-> Nothing]
With(f, x, v) == [y \in DOMAIN f \cup {x} |-> IF y = x THEN v ELSE f[y]]

\* The tables that hold x, of the tables s from the outermost body inwards.
Holding(s, x) == {d \in DOMAIN s : x \in DOMAIN s[d]}

\* Fault: bodies searched from the outermost.
FoundOutermost(s, x) == s[CHOOSE d \in Holding(s, x) : \A e \in Holding(s, x) : d <= e][x]

\* vltl_lang_function_local_get, when there is such a local: the innermost.
Found(s, x) == s[CHOOSE d \in Holding(s, x) : \A e \in Holding(s, x) : e <= d][x]

\* vltl_lang_function_local_exists
ExistsAnywhere(s, x) == Holding(s, x) # {}

\* vltl_lang_function_local_exists_here
ExistsHere(s, x) == x \in DOMAIN s[Len(s)]

Outer(s) == SubSeq(s, 1, Len(s) - 1)
Declared(s, x, v) == [s EXCEPT ![Len(s)] = With(@, x, v)]

\* Fault: the size of the frame is not counted up.
WithLocalUncounted(c, x) == [c EXCEPT !.locals = Declared(@, x, c.size + 1)]

\* vltl_lang_function_local_set: the next slot, in the innermost body.
WithLocal(c, x) ==
  [c EXCEPT !.locals = Declared(@, x, c.size + 1), !.size = @ + 1]

\* A value of the line is saved in a temporary local, or is not.
WithTemporary(c, spills) ==
  IF spills THEN [WithLocal(c, Temporary(c.temps)) EXCEPT !.temps = @ + 1] ELSE c

\* The function and its first body, with the locals names[1], names[2] ...
NewFunction(names) ==
  LET f[i \in 0 .. Len(names)] ==
        IF i = 0 THEN [locals |-> <<Empty>>, size |-> 0, temps |-> 0]
        ELSE WithLocal(f[i - 1], names[i])
  IN f[Len(names)]

-----------------------------------------------------------------------------
(***************************************************************************)
(* A name on a line                                                        *)
(***************************************************************************)
\* What the lexer takes x for.
Token(x) ==
  IF ExistsAnywhere(context.locals, x) THEN "local"
  ELSE IF x \in globals THEN "global"
  ELSE "unknown"

\* Whether x, taken for a token when the line was read, and the temporary of
\* the line can be written as operands when the tables are s.
Writable(x, spills, s) ==
  /\ x # Nothing => \/ Token(x) = "global"
                    \/ Token(x) = "local" /\ Holding(s, x) # {}
  /\ spills => Holding(s, Temporary(context.temps)) # {}

\* The value of that operand in frame m.
ReadFrom(x, s, m) ==
  IF x = Nothing THEN Nothing
  ELSE IF Token(x) = "global" THEN Global(x)
  ELSE IF Found(s, x) \in DOMAIN m THEN m[Found(s, x)]
  ELSE Nothing

\* What the source means by x where the bodies o are open: the declaration in
\* the body all others that declare x are around, or the global.
Means(x, o) ==
  IF \E d \in DOMAIN o : x \in DOMAIN o[d]
  THEN LET d == CHOOSE d \in DOMAIN o : /\ x \in DOMAIN o[d]
                                        /\ \A e \in d + 1 .. Len(o) : x \notin DOMAIN o[e]
       IN o[d][x]
  ELSE IF x \in globals THEN Global(x)
  ELSE Nothing

Legal(x, o) == x # Nothing => Means(x, o) # Nothing

\* The line is of a kind, names x, means m by it and reads v.
Naming(kind, x, spills, m, v) ==
  last' = [kind |-> kind, name |-> x, spills |-> spills, means |-> m, reads |-> v]

\* The frame of a line whose tables are c, once a temporary is stored in it.
Saving(c, spills) == IF spills THEN With(frame, c.size, Spilled(line)) ELSE frame

\* The frame f once the line has called a function, if it does: slots are taken
\* without looking at the size of the frame, and those past its end are where
\* the called function has its own.
AfterCall(f, calls) ==
  [n \in DOMAIN f |-> IF calls /\ n > FrameSlots THEN Overwritten ELSE f[n]]

Refused == status' = "refused" /\ UNCHANGED <<context, frame, open>>

-----------------------------------------------------------------------------
Init ==
  /\ globals \in SUBSET Names
  /\ context = [locals |-> <<>>, size |-> 0, temps |-> 0]
  /\ status = "ok"
  /\ frame = Empty
  /\ open = <<>>
  /\ wellScoped = TRUE
  /\ last = [kind |-> "none", name |-> Nothing, spills |-> FALSE,
              means |-> Nothing, reads |-> Nothing]
  /\ line = 0

NextLine == status = "ok" /\ line < MaxLines /\ line' = line + 1 /\ UNCHANGED globals

\* "function f(p: long, ...) {".  The name of a parameter is taken from a
\* token that is assumed to be unknown: of one that is known, other bytes are
\* read.  The prologue stores the arguments in the first slots.
FunctionLine(params) ==
  LET names    == [i \in DOMAIN params |->
                     IF params[i] \in globals THEN Misread(params[i]) ELSE params[i]]
      distinct == \A i, j \in DOMAIN params : params[i] = params[j] => i = j
  IN /\ NextLine
     /\ context.locals = <<>>
     /\ wellScoped' = (wellScoped /\ distinct)
     /\ Naming("function", Nothing, FALSE, Nothing, Nothing)
     /\ \/ ~distinct /\ Refused
        \/ /\ distinct
           /\ context' = NewFunction(names)
           /\ frame' = [i \in DOMAIN params |-> Parameter(i)]
           /\ open' = << [x \in {params[i] : i \in DOMAIN params} |->
                            Parameter(CHOOSE i \in DOMAIN params : params[i] = x)] >>
           /\ UNCHANGED status

\* "local x: long = y", or "= f(y)".  x is declared before y is written.  Which x is meant
\* when y is x itself, the language leaves open.
LocalLine(x, y, spills, calls) ==
  LET c       == WithTemporary(WithLocal(context, x), spills)
      saved   == Saving(c, spills)
      refused == ExistsHere(context.locals, x) \/ ~Writable(y, spills, c.locals)
      read    == ReadFrom(y, c.locals, saved)
  IN /\ NextLine
     /\ context.locals # <<>>
     /\ wellScoped' = (wellScoped /\ x \notin DOMAIN open[Len(open)] /\ Legal(y, open))
     /\ \/ refused /\ Refused /\ Naming("local", y, spills, Means(y, open), Nothing)
        \/ /\ ~refused
           /\ Naming("local", y, spills, IF y = x THEN read ELSE Means(y, open), read)
           /\ context' = c
           /\ frame' = With(AfterCall(saved, calls), Found(c.locals, x), Local(line))
           /\ open' = Declared(open, x, Local(line))
           /\ UNCHANGED status

\* Any other line inside a body that names y; "f(y)"; and "if(y) {",
\* "while(y) {" or "{", which open a body once y is written.
UseLine(y, spills, opens, calls) ==
  LET c       == WithTemporary(context, spills)
      refused == ~Writable(y, spills, c.locals)
  IN /\ NextLine
     /\ context.locals # <<>>
     /\ wellScoped' = (wellScoped /\ Legal(y, open))
     /\ \/ refused /\ Refused /\ Naming("use", y, spills, Means(y, open), Nothing)
        \/ /\ ~refused
           /\ frame' = AfterCall(Saving(c, spills), calls)
           /\ Naming("use", y, spills, Means(y, open), ReadFrom(y, c.locals, Saving(c, spills)))
           /\ context' = IF opens THEN [c EXCEPT !.locals = Append(@, Empty)] ELSE c
           /\ open' = IF opens THEN Append(open, Empty) ELSE open
           /\ UNCHANGED status

\* "}"
CloseLine ==
  /\ NextLine
  /\ context.locals # <<>>
  /\ context' = [context EXCEPT !.locals = Outer(@)]
  /\ open' = Outer(open)
  /\ Naming("close", Nothing, FALSE, Nothing, Nothing)
  /\ UNCHANGED <<status, frame, wellScoped>>

\* "} elif(y) {" and "} else {": the line is read, and its temporary declared,
\* inside the body it closes; y is written outside.
ChainLine(y, spills, calls) ==
  LET inner   == WithTemporary(context, spills)
      outer   == [inner EXCEPT !.locals = Outer(@)]
      refused == ~Writable(y, spills, outer.locals)
  IN /\ NextLine
     /\ Len(context.locals) > 1
     /\ wellScoped' = (wellScoped /\ Legal(y, Outer(open)))
     /\ \/ refused /\ Refused /\ Naming("chain", y, spills, Means(y, Outer(open)), Nothing)
        \/ /\ ~refused
           /\ Naming("chain", y, spills, Means(y, Outer(open)), ReadFrom(y, outer.locals, frame))
           /\ context' = [outer EXCEPT !.locals = Append(@, Empty)]
           /\ open' = Append(Outer(open), Empty)
           /\ frame' = AfterCall(frame, calls)
           /\ UNCHANGED status

MaybeNamed == Names \cup {Nothing}

Next ==
  \/ \E n \in 0 .. MaxParams : \E params \in [1 .. n -> Names] : FunctionLine(params)
  \/ \E x \in Names, y \in MaybeNamed, spills, calls \in BOOLEAN : LocalLine(x, y, spills, calls)
  \/ \E y \in MaybeNamed, spills, opens, calls \in BOOLEAN : UseLine(y, spills, opens, calls)
  \/ CloseLine
  \/ \E y \in MaybeNamed, spills, calls \in BOOLEAN : ChainLine(y, spills, calls)

Spec == Init /\ [][Next]_vars

-----------------------------------------------------------------------------
(***************************************************************************)
(* Properties                                                              *)
(***************************************************************************)

\* Every variable has its type; every local has a slot the function counted,
\* and no two of the open bodies have the same.
TypeOK ==
  /\ globals \subseteq Names
  /\ Len(context.locals) = Len(open)
  /\ \A d \in DOMAIN open : DOMAIN open[d] \subseteq Names
  /\ \A d \in DOMAIN context.locals : \A x \in DOMAIN context.locals[d] :
       /\ context.locals[d][x] \in 1 .. context.size
       /\ \A e \in DOMAIN context.locals : \A y \in DOMAIN context.locals[e] :
            context.locals[d][x] = context.locals[e][y] => d = e /\ x = y
  /\ DOMAIN frame \subseteq 1 .. context.size
  /\ context.temps \in 0 .. context.size
  /\ status \in {"ok", "refused"} /\ wellScoped \in BOOLEAN /\ line \in 0 .. MaxLines

\* The line names a parameter that is also the name of a global: the code has
\* no such parameter.
HiddenParameter ==
  last.name \in globals /\ last.means \in {Parameter(n) : n \in 1 .. MaxParams}

\* The line names a local that a call has overwritten, of a function with more
\* parameters, locals and temporaries than its frame has slots.
LostToCall == last.reads = Overwritten /\ context.size > FrameSlots

\* What a line reads for a name is the value last given to the declaration the
\* name means there: no other local, of this body or one already closed, no
\* temporary and, while they fit the frame, no called function shares its slot
\* or hides it.
ReadsItsDeclaration ==
  status = "ok" /\ wellScoped /\ ~HiddenParameter /\ ~LostToCall => last.reads = last.means

\* A source that declares what it uses is not refused, hiding names of outer
\* bodies included, unless the condition of an elif needs a temporary local, or
\* names a global that the body before it hides: both are lost with that body.
\* On any other line the name and the temporary are found again when they are
\* written, whatever the line declares before that.
AcceptsWellScoped ==
  status = "refused" /\ wellScoped =>
    /\ last.kind = "chain"
    /\ last.spills \/
       /\ last.means = Global(last.name) \/ HiddenParameter
       /\ last.name \in DOMAIN open[Len(open)]
=============================================================================
