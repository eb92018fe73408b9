# Verification of volatile

volatile is a compiler for a small, C-like, line-oriented systems language. It
reads one source file and prints GNU assembly for x86-64. It is one thread of C
with no recovery: an error ends the compilation. What makes it hard to get right
is not concurrency of threads but long sequences of legal steps over shared,
fixed-size state: tables that fill and grow, frames that nest, labels that pair
up, tokens that displace each other in a tree, and operands that wait in
registers while later ones are computed.

This directory holds TLA+ models of those parts, the TLC configurations that
check them on small instances, and proofs that TLAPS checks for every value of
the constants. Paths below are relative to the repository.

## 1. The system

### Components and how they interact

    source file
        |  read twice
    compiler driver -- queues of lines (ring buffers) -- one pass per kind
        |  one line at a time
      lexer ----------- asks the tables what a word is
        v
      line parser ----- tokens into a tree, by precedence
        v
      reshaping ------- what the line declares
        |         \____ tables of names (hash tables -> key storage -> arenas)
        v          \___ scopes and locals, bodies
      semantic tree --- conversion, reshaping, registers, assembly
        v
    assembly output

| component | code | state | operations | hard because |
|---|---|---|---|---|
| compiler driver | `src/compile.c` (`vltl_compile_file`, `vltl_compile_line`) | position in the source, four queues of lines, the current line and function | first reading, one pass per kind, bodies of functions | a line is used long after it was read, by seeking back; names may be used before the line that declares them |
| bodies | `src/compile.c` (body open and close), `header/lang/body.h` | nesting depth, array of open bodies | open, close, close and chain | local labels are numbers made from the depth; a jump goes to the *next* or *previous* definition of its number |
| arena allocator | `src/ds/varena.c` | two ends of the current frame, headers of enclosing frames kept in the arena | claim, alloc, disclaim | headers live among the data; frames nest |
| ring buffer | `src/ds/vqueue.c` | slots, unwrapped front and back, length | enqueue, dequeue, their batch forms, peeks, reset | batches wrap, overwrite and exceed the capacity |
| tables of names | `src/ds/nkht.c` | slots, length, iterator | set, get, double, iterate, destroy | open addressing, growth that may be refused, keys whose text cannot be copied |
| growable array | `src/ds/varray.c` | slots, number usable | grow, shrink, set, get | cap and stored count move differently |
| key storage | `src/ds/nkht.c` (`nkht_strdup`) | array of arenas | copy a key, add arenas, free | several allocations, each of which may fail, some after others have succeeded |
| line parser | `src/ast.c` | tree, last node | insert one token | no grammar: each token is placed by looking at the last node, and a refused token does not stop the line |
| scopes and locals | `src/lang/function.c`, `src/lang/local.c`, parts of `lexer.c`, `reshape.c`, `asm/operand.c` | a table of locals per open body, slots of the frame | declare, look up, open, close | a name is looked up twice, and its line may declare locals or close a body in between |
| lexer | `src/lexer.c` | position in the line, tokens so far | next token | no separator is required: where a token ends depends on the characters around it |
| reshaping of declarations | `src/reshape.c` | the tree, tables of constants, globals, functions | make lists, declare | works on trees nobody has checked for completeness |
| semantic tree, code generation | `src/sast.c` | tree of operations, registers in use, temporary locals | convert, reshape, connect, write | an operand waits in a register while later ones run |
| register pool | `src/global.c`, `src/asm/register.c` | which registers are in use | take, release, clear | shared by all operations of a line |
| error stack | `src/ds/iestack.c`, `src/ds/vstack.c` | bounded stack | push, pop | its limit is an assertion |
| output, hash, start-up | `src/asm/*`, `src/convert.c`, `src/dye.c`, `src/siphash.c`, `src/core.c`, `src/error.c` | none that matters here | formatting, printing | - |

### What would make each part correct

* driver: a correct program is accepted whatever the order of its declarations;
  each declaration and each line of a body is compiled exactly once, in order;
  the compiler stops.
* lexer: whatever stands side by side, a token means what its characters say, or
  the line is refused.
* bodies: each jump lands where the source means it to; a well-formed program is
  never refused for its braces.
* arena: blocks do not overlap, stores do not reach headers, disclaim is the
  inverse of claim.
* ring buffer, tables of names: they are a bounded FIFO and a map.
* key storage: keys do not move or overlap, and everything is freed.
* parser, reshaping: the tree holds the tokens of the line in order, grouped as C
  groups them; only complete lines go further; what is declared is what was named.
* code generation: the instructions compute the value of the line; what is computed
  at compile time is what would be computed at run time.
* scopes: what is read for a name is the value of its innermost live declaration,
  live locals have different slots, and a source that declares what it uses is
  accepted.

`PROJECT.json` lists every hazard with its line and the properties that watch it.

## 2. The modules

| module | models | state and actions in terms of the code |
|---|---|---|
| `CompileFile` | `vltl_compile_file` | `source`, `pos` are `src_file`; `queues` are `constant_lines` .. `function_lines`, here as the sequences `Fifo` allows; `table` what each name is. `Classify` and `EndOfSource` are the first reading, which a line that begins with no token ends, `CompileQueued` a turn of a pass (a function seeks back to its header), `CompileBodyLine` the inner loop over a body, `EndOfPass` the step to the next queue. Of compiling a line it keeps the names defined and needed, the nesting and failure. |
| `Bodies` | body open, close and chaining in `vltl_compile_line` | `indentation_level` and `bodies` as in the global context; `assembly` the labels and jumps written so far, with the body each belongs to recorded beside the number it is written with. One action per kind of brace line. `open` and `wellFormed` are what the source says, read without the compiler, so that the two can be compared. |
| `Varena` | `varena.c` | `top`, `bottom` delimit the current frame, `frames` the saved headers, `bytes` who wrote each byte last. `Claim`, `Alloc`, `Store` (the owner using a block), `Disclaim`. |
| `Fifo` | - | what a ring buffer promises: a bounded queue with the same return codes. |
| `Vqueue` | `vqueue.c` | `front`, `back` are the unwrapped indices of the code; one action per operation, the batch forms as one copy in up to two parts. |
| `Map` | - | what a table of names promises. |
| `HashTable` | `nkht.c` | `slots`, `len`, the iterator's `cursor`. `Set` includes the doubling and its refusal, and a copy of the key's text that fails and leaves a slot without a key. `Destroy` frees all. The hash of a key is any of `Hashes` and its text any of `KeyBytes` long, chosen once, as salt and program are. |
| `Varray` | `varray.c` | operators for what growing, shrinking and setting make of an array. |
| `KeyStore` | `nkht_strdup`, `nkht_deinit` | a part of `HashTable`: `storage` is the array of arenas (through `Varray`), `arenas` every arena created with its capacity, top and whether it lives. `CopyKey` adds the arenas it needs, `CopyFails` stops after any of them, `Release` frees what the array names. |
| `Scopes` | `function.c`; the lookups of `lexer.c:744` and `asm/operand.c:253`; functions and locals of `reshape.c` | `context.locals` are the tables of the open bodies, each giving the slot (`frame_offset` / 8) of a name, `context.size` is `stack_frame_size`, `context.temps` is `num_tmp_variables`. One action per kind of line, from the lexer's lookup to the writing of the operand. `frame` is the stack frame at run time, whose slots beyond `FrameSlots` a call overwrites; `open` and `wellScoped` are what the source says. |
| `Lexer` | `lexer.c` | `line` is the text, `at` the position, `tokens` what was read. One action per outcome of a turn of `vltl_lexer_line_convert`: a token, a comment, each refusal, the end, and `Crash`, where memory is used that was not got (`lexer.c:118`, `lexer.c:626`). `source` remembers the lexemes the line was written of, with or without spaces, so that meaning and reading can be compared. |
| `AstTree` | `vltl_ast_tree_insert` and its helpers | `tree` has `root`, `last` and the nodes with their arguments and parents. A token is planted as root, placed below the last node, put in the place of a node it displaces, or refused. `Follows` and `Complete` say which lines there are. |
| `Reshape` | the rest of a line's way to the semantic tree: `vltl_reshape_ast_tree`, and the check of arguments in `sast.c:3094` | extends `AstTree` with `stage`, the `shape` handed on and what is `declared`. One action per kind of declaration, one for other lines, one for what breaks. `Meant` is the shape C's rules give the line. |
| `Codegen` | `vltl_sast_tree_convert`, `_reshape`, `_connect` and the writing of a line | the stages of one line: `Convert`, `Reshape`, `Connect` (which evaluates operations on literals, to `Bits` bits), `Write` or, of a constant or global, the declaration; then `Run`, which executes one instruction. Values are symbolic terms, so two different computations never agree by accident. |

`AstTreeProofs`, `BodiesProofs`, `CompileFileProofs`, `HashTableProofs`, `LexerProofs`, `MemoryProofs` (of `Varena`
and `Vqueue`) and `ScopesProofs` hold the theorems, `Lemmas` what several of them use. Each
`MC...` module extends one of the above for TLC. `CompileFile` relies on what
`Fifo` promises and `Vqueue` implements; `HashTable` uses `KeyStore`, which uses
`Varray`, and whose arenas are frames of `Varena` that are never claimed twice; `HashTable`
implements `Map`, which is what `CompileFile` uses as `table` and `Scopes` as the
table of a body; `Scopes` and `Bodies` describe the same lines, the one the names,
the other the jumps; `Lexer` makes the tokens that `AstTree` starts from, and `Reshape`
the trees that `Codegen` starts from.

Several modules define, beside an operator, a variant with another name
(`NumberOffByOne` beside `Number`). No specification uses these: each is the
mistake, marked as a fault, that `PROJECT.json` puts in the operator's place to show that a property
notices it.

### What was abstracted

Text is spelled out in `Lexer` only: elsewhere names, lines and keys are model values or sizes. Values
of the language are terms. Kinds of tokens with the same precedence and number
of arguments are one kind. Alignment of addresses, messages and formatting are
left out. The hash is any function.

## 3. What TLC checks

| run | instance | shows |
|---|---|---|
| `bodies` | every program of up to 8 brace lines, 8 bodies | every jump of `if`, `elif`, `else`, `while` reaches its body and none is left dangling; the compiler's nesting is the source's; no well-formed program is refused |
| `varena` | 8 bytes, headers of 2, requests of up to 3 | no shared bytes, intact headers, disclaim undoes claim, data stays |
| `vqueue` | 2 elements, 3 slots, batches of up to 4, positions up to 8 | the ring buffer implements `Fifo`, and its indices agree |
| `compile_file` | 2 names, sources of up to 4 lines, queues of 2 | order of declarations does not matter; every declaration that finds room in its queue is compiled once, with its body in order, and nothing else is; the compiler comes to an end, except at the end of a file that leaves a function open after a statement |
| `hash_table` | 3 keys of 4 bytes, 2 values, 2 slots to begin with, 3 hashes, arenas of 2, 4, 8 with a header of 1, any allocation refused | the table implements `Map` through collisions, growth and refused growth; iteration is exact; the table stays sparse; the text of a key stays where it is and its own; destroying the table frees every arena, also after a failure |
| `lexer` | lines of up to 3 of 24 lexemes, each with or without a space, arrays of 3 tokens, tokens of up to 8 characters | an accepted line is read as written, two kinds of quotes apart; only operators directly before another symbol, and what is too long, are refused; every line of 3 lexemes fills the array, so refusals of longer lines are left to the theorem `RefusedAsMeant` |
| `scopes` | functions of up to 6 lines, 2 names that may also be globals, 2 parameters, frames of 3 slots, calls | as long as locals fit the frame, what a line reads for a name is the value of the declaration it means; slots are never shared; with two exceptions a well-scoped source is accepted |
| `ast_tree` | lines of up to 8 tokens, headers of up to 16, ended anywhere; lists of 3, 2 parameters | after every token the nodes are one tree and, one kind of line apart, it has the tokens in their order; only complete lines are handed on; what they declare is what they name; four kinds of lines apart they have the shape C gives them |
| `codegen` | expressions of up to 3 operations, chains of up to 15, calls of up to 5 arguments; returned, assigned or tested; expressions of up to 3 operations on numbers of 4 bits, declared | instructions are encodable and, five kinds of lines apart, compute the value; only statements that are too wide, and calls with too many arguments, are refused; a constant is what a function would compute, signed divisions apart |

Three runs end in a counterexample, which is their point:

| run | states | what the code does |
|---|---|---|
| `bodies_loop` | a loop tests its condition each time (comment at `compile.c:293`) | the label jumped back to is written after the code of the condition: it is computed once |
| `ast_associate` | operations of one precedence group from the left (`ast.c:68`) | `a - @p - b` becomes `a - (@p - b)`: the node displaced, not the parent, decides the direction |
| `codegen_calls` | operands are protected from what a later operand changes (`sast.c:995`) | in `a - g(b)` the value of `a` waits in R11, which a called function may change; in `f(a, g(b))` the argument in RDI is not saved |

### Bounds, and why they are enough

* `bodies`: eight lines hold a function, a chain of `if`, `elif`, `else` and a
  nested body with the braces of all of them; labels depend only on depth and
  kind, so a deeper program repeats these cases. All five properties are proved without a bound.
* `varena`: two frames can be open over the first and each may hold two blocks;
  all safety properties are proved without a bound.
* `vqueue`: a batch of four exceeds three slots, one of three fills them at every
  offset. `MaxIndex` bounds the unwrapped positions; the code never resets them,
  except on reset, and they are used only modulo the capacity, so a position
  twice round behaves as one before. The 64-bit wrap of the positions is
  out of reach in practice and not modelled. The refinement is proved without a bound.
* `compile_file`: two names make every relation of two declarations; with queues
  of two the third declaration of a kind meets a full queue. With a limit of two bodies
  a function and three bodies opened in it are refused at the last. Four lines hold
  a header and a body that the file does not end, with each kind of line as the last. All properties but
  `Terminates` are proved without a bound.
* `hash_table`: a table of two slots grows with the second key and again with a
  later one and, when that memory is refused, fills and rejects. The hashes collide in some sizes or in
  all. Permuting keys or values changes neither specification nor properties.
  A key of four bytes fits neither the first nor the second arena, so that two are
  added at once, either of which may fail, and the second key needs one more.
  All seven properties, the refinement included, are proved without a bound.
* `lexer`: a token ends depending on the character after it and on the kind it began
  with, so three lexemes hold each one with a neighbour on both sides. The lexemes
  are one of each form, and what is a prefix of another (`=` of `==`, `/` of `//`).
  Three tokens fill the array, and `unsigned` fills the room for a token. All three
  properties are proved for lines of any length and lexemes of these forms, from one
  hypothesis that TLC evaluates for the instance (`ConversionAssumption` of `MCLexer`).
* `scopes`: six lines hold a function, a local, an `if` body with a local, an `elif`
  and a use; two names are enough for one to hide another thing of its name while
  a third thing is looked up, and to declare a local more than a frame of three slots has.
  All three properties are proved without a bound.
* `ast_tree`: eight tokens hold brackets within brackets with an operation on each
  side; placement looks only at the path from the last node up. `TypeOK` and `TokensInOrder`
  are proved for lines of any length. Headers of functions
  need sixteen for three parameters with attributes and types, one more than there
  may be (the code's limits of nine and four are scaled down to three and two), and
  three commas make a list too long from the left and from the right.
* `codegen`: three operations have every nesting in which one operand waits for
  another that itself has one waiting, and chains of up to 15 pass the fourteen
  registers: in a statement they are refused, in a declaration of numbers they are
  evaluated, since no registers are given outside a function. `ComputesValue` was also explored once with four operations. Numbers of four bits
  wrap with literals up to 7, and become negative.

Deadlock is not checked where the program ends: `bodies`, `compile_file`,
`hash_table`, `lexer`, `scopes`, `ast_tree`, `codegen` and the three runs above stop
when the source, the line or the memory bound is used up or the table is destroyed.
It is checked for the ring buffer and the arena, which can always be called.

### Fairness

`CompileFile` alone states liveness (`Terminates`), under `WF_vars(Next)`: the
compiler is a single thread, every step of which is a finite piece of code, and
nothing else can keep it from taking the next. No assumption is made on which
step it takes where the code leaves one open. `Terminates`
is claimed of every source. The result of reading the next line of a body is ignored
(`compile.c:1240`), so that a file that ends inside a function has its last line
compiled again and again: a brace or a declaration there makes the compiler stop
sooner or later, with an error or because the brace ends the function, a statement
does not. The property therefore allows one way not to end: the source is not
balanced, and from some point on the driver is past the end of it with a statement
as the last line (`PastTheEnd`).

## 4. What is proved

The proofs assume only what the modules assume of their constants: capacities
and header sizes are positive, the zero element is an element, what stands for
nothing is no name. Some of these assumptions are more than a matter of types.
`ReservedAssumption` of `Scopes` says that no source declares a local with the name of
a temporary one (`_tmp_0x1`, `sast.c:1100`), or with the bytes of a table entry that a
parameter may be named by: the code accepts such a source and then confuses the two.
`ArenaAssumption` of `HashTable` says that an arena is larger than its header, as the code asserts
(`nkht.c:427`). `InitialCapAssumption` says that a table begins with 2, 4, ... or 256 slots; the code has
16. That it is a power of two is what the search depends on. One slot had to be excluded: the
attempt at a proof showed that `StaysSparse` is then false: one key fills the slot, the table
grows to four slots, and the second key makes it half full.

**`BodiesProofs`.** `TypeCorrect`, `ContextCorrect`, `BracesCompile`, `JumpsLand`,
`NoneDangles`. The invariant is `Inv == TypeOK /\ Nesting`. `Nesting` relates the compiler's state
to the source's: as long as nothing failed and the source is well-formed, the
level is the number of bodies the source has open, the array holds their kinds,
and a function is open exactly when some body is. It is needed because the guards
look at the level, the array and the function separately: that no guard refuses a
well-formed line follows only from the three agreeing. For the jumps a second
invariant speaks of the assembly written so far, jump by jump. A jump forward has either reached its label, with
no other of its number in between, or waits for one that an open body will write, and no
label of that number was written since; a jump back has its loop's label as the last of its number.
A body deeper inside has other numbers, and one of the same depth is begun only after this
one has ended: that is the whole argument, and the reason local labels can be numbers made from the depth.

**`MemoryProofs`**, the arena. `ArenaTypeCorrect`, `NoSharedBytes`, `HeadersSafe`,
`DisclaimExact`, `DataKept`. The invariant adds to the properties the layout of
the arena: the ends of the frames are in order with room for a header between
them (`FramesOrdered`), different frames cover different bytes (`FramesApart`),
and each live block lies in the part of its frame below the frame's top
(`BlocksInFrames`). A new block starts at the top of the frame, hence beyond
every other; a claim starts at the end of the current frame, behind its header; a
disclaim returns to the frame recorded in a header no store has reached.

**`MemoryProofs`**, the ring buffer. `IndicesCorrect`: the wrapped back is always `len` slots
after the wrapped front. `TypeCorrect`, and `ImplementsFifo`: every step of the ring buffer is
the step of `Fifo` of the same name, with the same return code and output, or a
stutter, for every capacity and batch size. The contents of the abstract queue are the slots from the front on, modulo
the capacity; each operation is then an equation between sequences, proved element by
element from lemmas on the remainder, which the provers do not have. The batch forms are the ones worth it: the copy
in two pieces, and the one that overwrites elements it has just written.

**`ScopesProofs`.** `OneSlotEach`, `NamesReadRight`, `WellScopedCompiles`. The invariant `IInv` relates the tables
of the compiler to the source, body by body and name by name (`Agrees`): a
declaration has a local in the table of its body and no other table, whose slot
holds what the declaration was given, unless a call has overwritten the slot; slots are
within the size of the frame and no two alike (`SlotsApart`). A lookup goes through the bodies from the inside in code and source alike,
so that it ends at the same body; a store goes to a slot that is nobody else's. Temporaries are
numbered by a count that only grows, so that their names are new.

**`HashTableProofs`.** `RefusedWhenFull`, `Sparse`, `IteratesOverAll`, `ImplementsMap`. The code relies on a
fact of arithmetic that it never states: a step that is odd, repeated as often as a
table has slots, visits each of them, because the number of slots is a power of two. `OddsCancel` says of
a number that what it divides when multiplied by an odd one it divides; it holds of 1 and of
twice any number of which it holds, so of every capacity a table can have, and makes the guesses of a
search distinct (`StrideInjective`) and hence all slots (`StrideOnto`). The invariant on the table is `AllReached`:
the search for each key in it reaches the key's slot through slots taken by other keys.
Setting a key fills a free slot or changes a value, which no search before notices
(`Filling`). Doubling meets the old slots in an order that starts anywhere; `RehashedCopies` follows the
recursive function of `Rehashed` slot by slot and shows that the new table holds what the slots met so far
held, and nothing else, so that counting is preserved by injections in both directions. `SetInIs` then
says in four cases (refused, set, put in a slot without a key, spoilt) what a set does to the map,
which both `StaysSparse` and the refinement follow from. The iteration has met the keys of the slots before the cursor, each once.

In the second half of the module, with the key storage: `TextsStayPut`, `NoArenaLeaks`, `TypeCorrect`. The
invariant `StoreInv` says what the array of arenas looks like: it names the first, second, ... and last arena
in order, and e more positions name none, where e is not zero only after a key was lost, which its slot shows (`Stock`,
`Stocked`); and each key's text lies below the top of its arena and apart from the others' (`TextsIn`). Arenas are
only ever added or filled further (`Extended`), so texts stay; a new one begins at the top of its arena. That adding
arenas ends, for a key of any length, is `NeededIs`: the i-th one added has more than i
bytes, so that one of the first m + `FrameSize` has room for m bytes. The growth of the array is followed through the
operators of `Varray`: asked for one more position, it grows by one.

**`CompileFileProofs`.** `TypeCorrect`, `EachLineOnce`, `WellFormedCompiles`, `BodiesInOrder`. The invariant has
five parts. `Typed`. `Lined`: a queue holds, in order, the declarations of its kind that found
room and were not compiled, and none once its pass is over. `Known`: the tables know exactly the names whose declarations were
compiled. `Inside`: in an open function of a balanced source, the nesting is what the braces since the header make it. `Reached`:
of the lines that are not queued, exactly those were compiled that lie in a function begun, up
to the current line. That two functions share no line, and that the level falls to zero
exactly at the last brace, follow from counting braces over intervals, for which there are lemmas.
The proof showed `AcceptsWellFormed` to be false as it was first written: a source nested
deeper than the limit of `CompileOpen` is refused however well-formed, which no source of
four lines can show. `WellFormed` now has the limit in it (`BodyCap`, one less than what the
code admits), and the run has one that its sources reach.

**`LexerProofs`.** `ReadAsMeant`, `RefusedAsMeant`, `TypeCorrect`. The invariant says where the lexer stands. `Layout`
names the position at which each lexeme of the source ends in the line; that there are such
positions, for the line as it is put together, is `Flattens`, from the function that concatenates. `Reads`: while the
lexer runs, it stands after as many lexemes as it has tokens, each token is what its lexeme means, and it
stopped with an error only for one of the reasons listed (`Refusable`). What a step needs is then
`ReadsLexeme`: at the start of a lexeme, chomp stops exactly where it ends, and the
text is that of the lexeme, or it is an operation and chomp swallowed the symbols after it. The first is shown for each kind in turn (the `Chomps`
lemmas): what follows a number or a word is no letter, no digit and no point, because lexemes that would merge are
excluded (`Apart`); a quoted text has no quote of its kind inside, since `Quoting` is excluded, so the
first that closes is its last. The second ends in a refusal (`Swallows`): were the longer text an
operation, so would be the lexeme with one character more, since an operation's beginnings are operations, and then
the two lexemes read together as another, in C as well. This is what the lexer rests on without saying so.

The theorems about reading assume of the constants: the codes of five characters are those of ASCII; an operation is a word or
made of symbols, and then each of its beginnings is an operation (`OperationsAssumption`; the table in
`lang/operation.c` has `//` and `/`, `==` and `=`, and otherwise symbols of one character); none goes on after the comment; a lexeme that means something is
formed as numbers, words, quoted texts and operations are (`LexemesAssumption`). `ReadAsMeant` and `RefusedAsMeant` have one hypothesis
more, `ConvertsLexemes`: that a lexeme by itself is converted to the token it means. This is a matter of folds over its
digits, which the provers cannot follow for every text, so it is evaluated for each lexeme of the instance; the theorems carry it
from lexemes that stand alone to lines of any length.
The proof found an ambiguity in the model: of a text of symbols that names an attribute, two cases of `Found` were
true. The code looks no further once an operation is not found (`lexer.c:693`), and the cases now exclude each other.

**`AstTreeProofs`.** `OneTree`, `InOrder`. The inductive invariant of the first is `TreeInv`. `Linked` says of each node that it is one
argument of its parent, that its arguments are different nodes whose parent it is, and that it has no more of them than its
kind takes; but this holds of a circle of nodes too. `Above` therefore gives each node the set of those above it: a node is not
above its parent, so that no arc closes a circle, and the sets grow with each step down, so that the way up that the search follows
ends at the root (`Upwards`). Putting a node below another (`Inserted`) or in the place of one (`Adopted`), and the list
that a comma may put in between, keep both.

That the tokens are in their order is a statement about the whole tree that the parser never looks at: it decides
by precedence and by how many arguments are missing on the way up from the last node. The invariant `OrderInv`
gives each node the run of tokens, from `lo` to `hi`, that it is read as with everything below it (`Ordered`). An operation written
after its first argument begins where that argument does and stands just behind it; every further argument begins where
the one before ended. All that is above the last node ends where the line does. A new node below one of
these is then read last, and one that displaces one of these begins where it did and is read behind it, in both cases whichever of
them it is: precedence decides the shape, not the order. What is left is that a token
is never put in the wrong of the two ways, with something below it that was written before it and belongs behind. This follows from how lines go on:
what may stand before an operation with a first argument on its left (`BeforeInfix`) expects no argument, what may stand before any other operation (`BeforePrefix`) still
expects one, of which `Fresh` says that it lies ahead, and the headers and declarations, whose words take arguments on both sides, begin in
one of a few ways (`Begun`, `NameBelow`). It does not follow for a call, an address or an indirection just behind an opening
bracket, which the property excludes (`PrefixInBrackets`) since the parser does displace the bracket then. `Reading`, a recursive function over depth, is at
last shown to be the numbers from `lo` to `hi` (`RunsFlatten`, `ReadingIs`).

Induction needs care: the induction theorems of the library take a predicate as a
parameter, which no installed prover can be given. Where a proof needs it over
numbers that are not steps of the system (how deep a lookup goes, how long a list of
tables is), it is done in set form: of the counterexamples, a set of numbers, the
least is taken (`NatLeast` of `Lemmas`), and it contradicts the one before; `SetInduction` is the same
for a set that holds 0 and with each number the next. In the same way `NewFunctionIs`
shows what the recursive function of the parameters of a function is. `RecursiveFunction` and
`RecursiveOnNat` of `Lemmas` say that a function defined by its value at 0 and a step exists; the step is a
function itself, so that they can be cited. They are what `Rehashed`, `WithArenas`, `TwoTo`, `Upwards` and `Reading` are proved about with.

Only model-checked: `HandsOnWholeLines`, `DeclaresAsWritten`, `ShapedAsWritten`, the properties of
`Codegen`, and `Terminates`. `Terminates` stays with TLC, since the prover does not handle liveness under fairness; so do
`Reshape` and `Codegen`, whose definitions over trees are `RECURSIVE`: the prover loses its arithmetic in
a module that has one. That the tree of a complete line has the shape C gives it (`ShapedAsWritten`) is an induction over
all subtrees of the line and of the tree at once, against a definition by recursion over intervals of tokens; it is checked
for every line of the bounds above.

## 5. Further observations

Met while reading and modelling; they are either exceptions the properties name
or too small for a run of their own.

* `compile.c:190`: the guard on the depth admits 257 bodies for an array of 256
  (`lang/body.h:11`).
* `compile.c:1107`: each queue holds 20 lines and the result of enqueueing is
  ignored, so the 21st declaration of a kind is dropped without a word, a function
  with its whole body. `CompiledOnce` says exactly which lines are lost;
  `AcceptsWellFormed` excludes such sources (`AllQueued`).
* `compile.c:921`: what the parser returns is looked at only when debugging. After a
  token it refuses, the line is compiled without that token and without the rest:
  `return 1 2`, `local x: long = 5 6 7` and `if a == 1 { }` are accepted, the last
  without its closing brace. `HandsOnWholeLines` shows the limit of it: what is
  compiled then is itself a complete line.
* Lexer: `'\''` is read as a backslash, `""` never closes, `"\""` is refused
  (`Quoting`); operators that stand together are looked up as one, so that `("a"` and
  `=(` are refused (`RunsOn`); `'ab'` is `'a'`; a number that starts with zero is octal
  up to the first digit that is not, so `08` is 0, and there are no hexadecimal
  numbers; a tab is a symbol; a char of 128 or more is negative. A line of exactly as
  many tokens as the array holds is refused (`lexer.c`, end of
  `vltl_lexer_line_convert`), and the guard on a token's length admits two characters
  more than its buffer.
* `reshape.c:429`, `reshape.c:436`: the right side of a comma is used without looking
  whether there is one (`return a ,`), and so is the value of a constant
  (`constant x: long =`): reshaping comes before the check that every operation has
  its arguments. In lists of more than nine items the end is dropped, or the line
  refused, depending on how the commas were grouped (`TooLong`).
* `external function f` and `function f ( a: long` without the rest are accepted: the
  end of a header is never looked at.
* `sast.c:1221`: the compiler divides numbers as unsigned ones (`uint64_t`), the
  instruction it writes (`idiv`) as signed ones: `global g: long = 7/(1-2)` is 0 while a function that returns
  `7/(1-2)` returns -7 (`DividesSigned`).
* An assignment through `@`, to `a[i]` or to brackets reads what is there and puts the
  value in the register it was read to; nothing is stored (`AssignsElsewhere`).
* `varray.c:111`: resizing beyond the capacity adds to the stored count instead of
  setting it (`varray.h:59`). Nothing calls it that way.
* `lexer.c:744`: the condition of an `elif` is read while the body before it is still
  open, and written when it is closed. `AcceptsWellScoped` excepts what follows: a
  global that this body hides with a local cannot be named, and a condition that
  needs a temporary local (`a/b == b/a`) is always refused.
* `reshape.c:316`, `reshape.c:353`: a parameter with the name of a global or constant is
  declared under some other name, because the token is not one of an unknown word;
  its uses silently read the global (`HiddenParameter`).
* `reshape.c:219`: a local is declared before its value is read, so that
  `local q: long = q` reads the new `q`.
* `compile.c:127`: a frame has 0x400 bytes and nothing counts its locals, of which
  the 129th lies below the stack pointer, where a call overwrites it (`LostToCall` of
  `Scopes`).
* `vht.c:288`: `vht_del` frees a slot as if it had never been used, so that a key
  placed beyond it is no longer found. Nothing calls it.
* `ast.c:848`: a prefix operator right after an opening bracket is refused
  (`PrefixInBrackets`); `ast.c:970` names one bracket twice, so an operation
  inside an index is refused or misgrouped (`OperationInIndex`); `ast.c:953`
  groups a chain of assignments from the left (`AssignmentChain`). In lists the
  grouping from the right does no harm: reshaping makes one list of either.
* `sast.c:1220`: an operation on two literals is evaluated by the compiler, which a
  literal division by zero ends.
* Division clears RDX instead of extending the sign: a negative dividend counts as
  a large positive one, a negative divisor as negative (`Idiv`).
* `Codegen` names five kinds of lines whose value is lost: an operand that waits
  for a call (`LostToCall`) or, in RAX, for a division two operations down
  (`LostToDivision`, as `a / (b - c / d)`), one overwritten by a move to a
  register believed free (`LostToMove`, as `a - (b / (c / d))`), a division with five operands waiting
  (`DividesBelow`), and an argument's register that is not known to be taken
  (`LostArgument`).

## 6. What is not modelled, and why

* The register pool as a structure of its own, the error stack and vstack, and the
  writing of the data section (`compile.c:1259`): left for later, see below.
* In `Codegen`: strings and the headers of functions.
* In `AstTree`: the entry a string literal makes in the table of globals, and the
  detokenizer, which is for debugging.
* In `Scopes`: lines with more than one variable besides the ones they declare.
* In `Lexer`: which declaration a word names, which is in `Scopes`, and the offsets kept
  with tokens, which nothing reads.
* `vht.c`: the compiler creates such a table for each function and never uses it.
  `vht.c:288`, should it ever: a deleted key hides the keys placed beyond it.
* In `vltl_compile_convert` (called from `compile.c:959`) the case of a function,
  `compile.c:738` to `compile.c:873`: it is never reached, since reshaping has
  turned a function's header into a declaration of parameters (CDECL) by then.
* Constant tables of the language, formatting of assembly and of messages,
  start-up: no state to check. The keyed hash is third-party, and any hash will do.

## 7. Plan

Done so far, in this order: what every compilation depends on (bodies, memory, queues,
tables), then the places where a wrong program can come out silently (parser, code
generation, scopes), then the way of a line from its characters to the semantic tree
(lexer, reshaping), the limit of the frame, constants, and failures of memory in the
tables; then the proofs, of everything but `Reshape` and `Codegen`. What is left:

`Vstack` and the error stack, the register pool, the data section.
