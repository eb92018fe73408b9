---------------------------- MODULE CompileFile -----------------------------
(***************************************************************************)
(* The driver of the compiler (vltl_compile_file in src/src/compile.c).    *)
(* It reads the source twice.  The first time it only looks at the first   *)
(* word of each line and queues the declarations by kind.  The second time *)
(* it compiles the queued lines, one kind after the other, and for a       *)
(* function the lines that follow its header until its last brace.  A name *)
(* is known to the lines compiled after its declaration, whatever their    *)
(* place in the file.                                                      *)
(*                                                                         *)
(* Of compiling one line the model keeps what the driver depends on: the   *)
(* names it defines and needs, the nesting, whether a function is open,    *)
(* and whether it fails.                                                   *)
(***************************************************************************)
EXTENDS Naturals, Sequences, FiniteSets

CONSTANTS
  Names,      (* the names a source may declare                            *)
  NoName,     (* stands for no name                                        *)
  MaxLines,   (* bound on the length of the source                         *)
  QueueCap,   (* capacity of each queue of lines (20 in the code)          *)
  BodyCap     (* VLTL_LANG_BODY_CAP, which limits the nesting              *)

ASSUME NoNameAssumption == NoName \notin Names
ASSUME QueueCapAssumption == QueueCap \in Nat \ {0}
ASSUME BodyCapAssumption == BodyCap \in Nat \ {0}
ASSUME MaxLinesAssumption == MaxLines \in Nat

VARIABLES
  source,     (* the lines of the source file                              *)
  phase,      (* what the driver is at: a pass, or how it ended            *)
  pos,        (* lines before the position of src_file                     *)
  queues,     (* constant_lines, global_lines, ...: queued line numbers    *)
  current,    (* number of the line whose text is in current_line          *)
  level,      (* vltl_global_context.indentation_level                     *)
  function,   (* whether vltl_global_context.function is not NULL          *)
  table,      (* what each name is in the tables of names                  *)
  times       (* history: how often a line was compiled, up to twice       *)

vars == <<source, phase, pos, queues, current, level, function, table, times>>

-----------------------------------------------------------------------------
Declarations == {"constant", "global", "external", "function"}
Meanings     == {"unknown", "constant", "global", "function"}
Phases       == {"classify", "done", "failed"} \cup Declarations

\* A line declares or uses a name, opens or closes a body, or starts with what
\* is no token.  The value of a constant or a global may need one other name.
Lines ==
  [kind : {"constant", "global"}, name : Names, needs : Names \cup {NoName}]
  \cup [kind : {"external", "function", "use"}, name : Names, needs : {NoName}]
  \cup [kind : {"open", "close", "illegible"}, name : {NoName}, needs : {NoName}]

Sources == UNION {[1 .. n -> Lines] : n \in 0 .. MaxLines}

Init ==
  /\ source \in Sources
  /\ phase = "classify"
  /\ pos = 0
  /\ queues = [k \in Declarations |-> <<>>]
  /\ current = 0
  /\ level = 0
  /\ function = FALSE
  /\ table = [x \in Names |-> "unknown"]
  /\ times = [l \in 1 .. MaxLines |-> 0]

\* Faults: the last place of a queue stays empty; externals come last.
FullEarly(q) == Len(q) + 1 >= QueueCap
NextPassExternalLast == [constant |-> "global", global |-> "function",
                         function |-> "external", external |-> "done"]

\* The queue takes no more lines.
QueueFull(q) == Len(q) = QueueCap

\* Which pass follows the pass over the lines of one kind.
NextPass == [constant |-> "global", global |-> "external",
             external |-> "function", function |-> "done"]

-----------------------------------------------------------------------------
(***************************************************************************)
(* First reading                                                           *)
(***************************************************************************)

\* The first word of one line is read and, if the line is a declaration, the
\* line is queued.  What enqueue returns is ignored: once the queue is full the
\* line is forgotten.  A first word that is no token ends the compilation.
Classify ==
  /\ phase = "classify"
  /\ pos < Len(source)
  /\ pos' = pos + 1
  /\ LET k == source[pos + 1].kind
     IN /\ phase' = IF k = "illegible" THEN "failed" ELSE phase
        /\ queues' = IF k \in Declarations /\ ~QueueFull(queues[k])
                     THEN [queues EXCEPT ![k] = Append(@, pos + 1)]
                     ELSE queues
  /\ UNCHANGED <<source, current, level, function, table, times>>

EndOfSource ==
  /\ phase = "classify"
  /\ pos = Len(source)
  /\ phase' = "constant"
  /\ UNCHANGED <<source, pos, queues, current, level, function, table, times>>

-----------------------------------------------------------------------------
(***************************************************************************)
(* vltl_compile_line, applied to line l                                    *)
(***************************************************************************)
Keep == UNCHANGED <<phase, level, function, table>>
GiveUp == phase' = "failed" /\ UNCHANGED <<level, function, table>>
Define(x, meaning) ==
  table' = [table EXCEPT ![x] = meaning] /\ UNCHANGED <<phase, level, function>>

Unknown(x) == table[x] = "unknown"

\* A constant or a global: its name must be new, and its value known here and
\* now, so that it needs nothing but constants.
CompileValue(l) ==
  IF Unknown(l.name) /\ (l.needs = NoName \/ table[l.needs] = "constant")
  THEN Define(l.name, l.kind)
  ELSE GiveUp

CompileExternal(l) == IF Unknown(l.name) THEN Define(l.name, "function") ELSE GiveUp

\* A function's header: its name must be new and no body open.
CompileHeader(l) ==
  IF Unknown(l.name) /\ level = 0
  THEN /\ table' = [table EXCEPT ![l.name] = "function"]
       /\ level' = 1
       /\ function' = TRUE
       /\ UNCHANGED phase
  ELSE GiveUp

\* A body opens, as long as the code's own (generous) limit allows.
CompileOpen ==
  IF level < BodyCap + 1
  THEN level' = level + 1 /\ UNCHANGED <<phase, function, table>>
  ELSE GiveUp

\* Faults: the last brace does not end the function; a brace ends nothing.
CloseKeepsFunction ==
  level' = level - 1 /\ UNCHANGED <<phase, function, table>>
CloseKeepsLevel == UNCHANGED <<phase, level, function, table>>

\* A body closes; with the outermost one the function ends.
CompileClose ==
  level' = level - 1 /\ function' = (level' > 0) /\ UNCHANGED <<phase, table>>

\* A statement; whether an unknown name makes it fail depends on where in the
\* statement the name is.
CompileUse(l) == Keep \/ (Unknown(l.name) /\ GiveUp)

CompileLine(n) ==
  LET l == source[n]
  IN /\ times' = [times EXCEPT ![n] = IF @ = 2 THEN 2 ELSE @ + 1]
     /\ CASE l.kind \in {"constant", "global"} -> CompileValue(l)
          [] l.kind = "external" -> CompileExternal(l)
          [] l.kind = "function" -> CompileHeader(l)
          [] l.kind = "open" -> CompileOpen
          [] l.kind = "close" -> CompileClose
          [] l.kind = "use" -> CompileUse(l)
          [] l.kind = "illegible" -> GiveUp

-----------------------------------------------------------------------------
(***************************************************************************)
(* Second reading                                                          *)
(***************************************************************************)

\* Fault: the position of the file stays where the last function ended.
SeekNowhere(l) == pos

\* Where src_file stands when queued line l has been sought and read.
Seek(l) == l

\* The oldest queued line of the pass is sought, read and compiled.
CompileQueued ==
  /\ phase \in Declarations
  /\ ~function
  /\ queues[phase] # <<>>
  /\ LET l == Head(queues[phase])
     IN /\ queues' = [queues EXCEPT ![phase] = Tail(@)]
        /\ pos' = Seek(l)
        /\ current' = l
        /\ CompileLine(l)
  /\ UNCHANGED source

\* Inside a function the next line is read and compiled.  At the end of the
\* file fgets leaves the buffer alone, and its last line is compiled again.
CompileBodyLine ==
  /\ phase = "function"
  /\ function
  /\ pos' = IF pos < Len(source) THEN pos + 1 ELSE pos
  /\ current' = IF pos < Len(source) THEN pos + 1 ELSE current
  /\ CompileLine(current')
  /\ UNCHANGED <<source, queues>>

EndOfPass ==
  /\ phase \in Declarations
  /\ ~function
  /\ queues[phase] = <<>>
  /\ phase' = NextPass[phase]
  /\ UNCHANGED <<source, pos, queues, current, level, function, table, times>>

Next == Classify \/ EndOfSource \/ CompileQueued \/ CompileBodyLine \/ EndOfPass

\* One thread, which takes steps as long as there are any.
Spec == Init /\ [][Next]_vars /\ WF_vars(Next)

-----------------------------------------------------------------------------
(***************************************************************************)
(* Properties                                                              *)
(***************************************************************************)

\* Every variable has its type.
TypeOK ==
  /\ source \in Sources
  /\ phase \in Phases
  /\ pos \in 0 .. MaxLines
  /\ queues \in [Declarations -> Seq(1 .. MaxLines)]
  /\ current \in 0 .. MaxLines
  /\ level \in 0 .. BodyCap + 1
  /\ function \in BOOLEAN
  /\ table \in [Names -> Meanings]
  /\ times \in [1 .. MaxLines -> 0 .. 2]

LinesOf(k) == {l \in DOMAIN source : source[l].kind = k}

\* Line l declares something and finds room in its queue.
Queued(l) ==
  /\ source[l].kind \in Declarations
  /\ Cardinality({m \in LinesOf(source[l].kind) : m <= l}) <= QueueCap

AllQueued == \A l \in DOMAIN source : source[l].kind \in Declarations => Queued(l)

Braces(i, j, kinds) == Cardinality({l \in i .. j : source[l].kind \in kinds})

\* The line with the last brace of the function whose header is line h.
Ends(h, m) ==
  /\ Braces(h, m, {"open", "function"}) = Braces(h, m, {"close"})
  /\ \A l \in h .. m - 1 : Braces(h, l, {"open", "function"}) > Braces(h, l, {"close"})

\* Every function has its last brace, and no header is inside a function.
Balanced ==
  \A h \in LinesOf("function") :
    \E m \in h .. Len(source) : Ends(h, m) /\ Braces(h, m, {"function"}) = 1

\* Line l is in the function whose header is line h, the header included.
InFunctionOf(h, l) == \E m \in h .. Len(source) : l \in h .. m /\ Ends(h, m)

InFunction(l) == \E h \in LinesOf("function") : InFunctionOf(h, l)

(***************************************************************************)
(* A source the language accepts: all lines legible, balanced, no deeper   *)
(* than the bodies the compiler has room for, its declarations outside     *)
(* functions, each name declared once; a constant needs only constants     *)
(* above it, a global only constants, and a function uses any constant,    *)
(* global or external of the file, itself and the functions above it.      *)
(***************************************************************************)
WellFormed ==
  /\ LinesOf("illegible") = {}
  /\ Balanced
  /\ \A h \in LinesOf("function"), l \in DOMAIN source :
       InFunctionOf(h, l) =>
         Braces(h, l, {"open", "function"}) <= Braces(h, l, {"close"}) + BodyCap
  /\ \A k \in Declarations \ {"function"} : \A l \in LinesOf(k) : ~InFunction(l)
  /\ \A l, m \in DOMAIN source :
       source[l].kind \in Declarations /\ source[m].kind \in Declarations
         /\ source[l].name = source[m].name => l = m
  /\ \A l \in LinesOf("constant") \cup LinesOf("global") :
       source[l].needs # NoName =>
         \E m \in LinesOf("constant") :
           /\ source[m].name = source[l].needs
           /\ source[l].kind = "constant" => m < l
  /\ \A l \in LinesOf("use") : InFunction(l) =>
       \E m \in DOMAIN source :
         /\ source[m].name = source[l].name
         /\ \/ source[m].kind \in {"constant", "global", "external"}
            \/ source[m].kind = "function" /\ m < l

\* A source that declares all it uses is never rejected for the order its
\* declarations stand in: every name a line needs was defined by an earlier
\* pass or an earlier line of its pass.
AcceptsWellFormed == WellFormed /\ AllQueued => phase # "failed"

\* When compilation succeeds, every declaration that found room in its queue was
\* compiled exactly once and, in a balanced source, so was every line of every
\* function queued, and nothing else: a declaration too many is lost without an
\* error, a function with its whole body.
CompiledOnce ==
  phase = "done" =>
    /\ \A l \in DOMAIN source : Queued(l) => times[l] = 1
    /\ Balanced =>
         \A l \in DOMAIN source :
           ~Queued(l) =>
             times[l] = IF \E h \in LinesOf("function") : Queued(h) /\ InFunctionOf(h, l)
                        THEN 1 ELSE 0

\* In a balanced source the lines of a function are compiled one after the
\* other, without a gap and without anything in between.
BodyInOrder ==
  [][Balanced /\ function => current' = current + 1]_vars

\* The statement that is the last line of the file is compiled inside a function
\* that the file does not end.
PastTheEnd == function /\ pos = Len(source) /\ source[current].kind = "use"

\* The compiler comes to an end on every source, or the source has a function
\* without its last brace and, at the end of the file, the compiler reads its
\* last line, a statement, again and again: braces and declarations there end it.
Terminates ==
  <>(phase \in {"done", "failed"}) \/ (~Balanced /\ <>[]PastTheEnd)
=============================================================================
