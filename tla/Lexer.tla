-------------------------------- MODULE Lexer --------------------------------
(***************************************************************************)
(* The lexer (src/src/lexer.c): a line of text becomes a sequence of       *)
(* tokens.  vltl_lexer_token_chomp finds where the next token ends,        *)
(* vltl_lexer_token_tokenize says what it is, and vltl_lexer_line_convert  *)
(* repeats the two until the line, or its comment, is reached.             *)
(*                                                                         *)
(* A line is a sequence of characters without its newline; what follows it *)
(* in memory is the null character.  What a word names in the program is   *)
(* left to Scopes: here it is a word.                                      *)
(***************************************************************************)
EXTENDS Integers, Sequences, FiniteSets, SequencesExt

CONSTANTS
  Code,         (* the code of each character                              *)
  Operations,   (* the spellings of vltl_global_table_operations           *)
  Attributes,   (* those of vltl_global_table_attributes                   *)
  Types,        (* and of vltl_global_table_types                          *)
  Comment,      (* the spelling of the operation that starts a comment     *)
  MaxTokens,    (* VLTL_LEXER_LINE_TOKENS_MAX                              *)
  MaxText,      (* tmp_cap, the room for the text of a token               *)
  Lexemes,      (* what lines are written of: spellings and their meaning  *)
  MaxLexemes,   (* bound: the lexemes of a line                            *)
  NoToken       (* what is not a token                                     *)

Chars == DOMAIN Code

ASSUME CodeAssumption == Code \in [Chars -> 0 .. 127] /\ IsInjective(Code)
ASSUME CharsAssumption == {" ", "'", "\"", "\\", ".", "0", "1", "t", "n", "r", "x", "b"} \subseteq Chars
ASSUME AsciiAssumption ==
  Code[" "] = 32 /\ Code["\""] = 34 /\ Code["'"] = 39 /\ Code["."] = 46 /\ Code["\\"] = 92
ASSUME SpellingsAssumption == Operations \cup Attributes \cup Types \subseteq Seq(Chars) \ {<<>>}
ASSUME LimitsAssumption == MaxTokens \in Nat \ {0} /\ MaxText \in Nat \ {0} /\ MaxLexemes \in Nat

VARIABLES
  line,      (* the text                                                   *)
  at,        (* offset_into_line_buffer, from 1                            *)
  tokens,    (* dest->tokens                                               *)
  status,    (* "run", "ok", or the error returned                         *)
  source     (* history: the lexemes the line was written of, each with a  *)
             (* space or none before it                                    *)

vars == <<line, at, tokens, status, source>>

-----------------------------------------------------------------------------
Written(l) == IF l.spaced THEN <<" ">> \o l.lexeme.text ELSE l.lexeme.text

Digits  == {c \in Chars : Code[c] \in 48 .. 57}
Letters == {c \in Chars : Code[c] \in 65 .. 90 \cup 97 .. 122 \cup {95}}
Symbols == Chars \ (Digits \cup Letters \cup {" "})
Quotes  == {"'", "\""}

AllIn(text, S) == \A i \in DOMAIN text : text[i] \in S

\* The first position from i on whose character is in S, or is not: the end of
\* the line if there is none.
FirstIn(S, i)  == Min({j \in i .. Len(line) : line[j] \in S} \cup {Len(line) + 1})
FirstOut(S, i) == FirstIn(Chars \ S, i)

Start == FirstOut({" "}, at)

\* The kind a first character presumes.
PresumedBy(c) ==
  CASE c \in Digits  -> "number"
    [] c \in Letters -> "word"
    [] c = "'"       -> "char"
    [] c = "\""      -> "string"
    [] OTHER         -> "operation"

Presumed == PresumedBy(line[Start])

\* A quote closes a token unless the character before it is a quote as well.
Closes == {j \in Start + 1 .. Len(line) : line[j] = line[Start] /\ line[j - 1] # line[Start]}

\* Fault: a digit is no part of a word.
EndOfPlainWord == FirstOut(Letters, Start)

EndOfWord == FirstOut(Letters \cup Digits, Start)

\* The position after the token at Start.
End ==
  CASE Presumed = "number"    -> FirstOut(Digits, Start)
    [] Presumed = "word"      -> EndOfWord
    [] Presumed = "operation" -> FirstIn(Digits \cup Letters \cup {" "}, Start)
    [] OTHER                  -> Min(Closes) + 1

\* vltl_lexer_token_chomp finds no end: a quote is missing, or a number has a
\* point.
Endless ==
  \/ Presumed \in {"char", "string"} /\ Closes = {}
  \/ Presumed = "number" /\ End <= Len(line) /\ line[End] = "."

-----------------------------------------------------------------------------
Literal(n) == [kind |-> "literal", value |-> n]
String(s)  == [kind |-> "string", value |-> s]
Named(kind, text) == [kind |-> kind, value |-> text]

DigitOf(c) == Code[c] - (IF c \in Digits THEN 48 ELSE IF Code[c] < 97 THEN 55 ELSE 87)
HexDigits  == {c \in Chars : Code[c] \in 48 .. 57 \cup 65 .. 70 \cup 97 .. 102}

ValueIn(base, digits) == FoldLeft(LAMBDA n, c : base * n + DigitOf(c), 0, digits)

\* A char is signed.
Char(n) == IF n % 256 < 128 THEN n % 256 ELSE (n % 256) - 256

\* sscanf: a number that starts with zero is octal, and ends at a digit that
\* is not.
Number(text) ==
  LET base   == IF text[1] = "0" THEN 8 ELSE 10
      within == {i \in 0 .. Len(text) : \A j \in 1 .. i : DigitOf(text[j]) < base}
  IN Literal(ValueIn(base, SubSeq(text, 1, Max(within))))

\* The text up to its first quote; when a backslash comes before that quote,
\* the search starts over at the opening quote and fails.
Quoted(text) ==
  LET close == Min({i \in 2 .. Len(text) : text[i] = "\""})
  IN IF text[close - 1] = "\\" THEN NoToken ELSE String(SubSeq(text, 2, close - 1))

\* The digits of an escape, at most max of them.
Escaped(text, base, max) ==
  LET digits == SubSeq(text, 4, Len(text) - 1)
  IN IF Len(digits) <= max /\ \A i \in DOMAIN digits : digits[i] \in HexDigits /\ DigitOf(digits[i]) < base
     THEN Literal(Char(ValueIn(base, digits))) ELSE NoToken

\* The character after the quote, or its escape; what follows is not looked at.
Character(text) ==
  CASE text[2] # "\\" -> Literal(Code[text[2]])
    [] text[2] = "\\" /\ text[3] = "'" -> Literal(Code["\\"])
    [] text[2] = "\\" /\ text[3] = "t" -> Literal(9)
    [] text[2] = "\\" /\ text[3] = "n" -> Literal(10)
    [] text[2] = "\\" /\ text[3] = "r" -> Literal(13)
    [] text[2] = "\\" /\ text[3] = "x" -> Escaped(text, 16, 2)
    [] text[2] = "\\" /\ text[3] = "b" -> Escaped(text, 2, 8)
    [] OTHER -> NoToken

\* The tables are searched in this order; an operation must be found.
Found(presumed, text) ==
  CASE text \in Operations -> Named("operation", text)
    [] presumed = "operation" /\ text \notin Operations -> NoToken
    [] presumed # "operation" /\ text \in Attributes \ Operations -> Named("attribute", text)
    [] presumed # "operation" /\ text \in Types \ (Operations \cup Attributes) -> Named("type", text)
    [] OTHER -> Named("word", text)

\* vltl_lexer_token_tokenize
Tokenized(presumed, text) ==
  CASE presumed = "number" -> Number(text)
    [] presumed = "string" -> Quoted(text)
    [] presumed = "char"   -> Character(text)
    [] OTHER               -> Found(presumed, text)

-----------------------------------------------------------------------------
(***************************************************************************)
(* What is assumed of the spellings, and of the lexemes that mean          *)
(* something                                                               *)
(***************************************************************************)

\* An operation is a word, or made of symbols; then each of its beginnings is
\* an operation as well ("/" of "//", "=" of "==").
ASSUME OperationsAssumption ==
  \A o \in Operations :
    \/ o[1] \in Letters
    \/ /\ AllIn(o, Symbols \ (Quotes \cup {"."}))
       /\ \A m \in 1 .. Len(o) : SubSeq(o, 1, m) \in Operations

\* No operation goes on after the comment's spelling, and NoToken is none.
ASSUME CommentAssumption ==
  /\ Comment \in Operations /\ Comment[1] \notin Letters /\ Len(Comment) < MaxText
  /\ \A o \in Operations : ~IsStrictPrefix(Comment, o)
  /\ Named("operation", Comment) # NoToken

\* A text as C would write a number, a word, a character, a string or an
\* operation: between its quotes a quote follows a backslash.
Formed(text) ==
  CASE text[1] \in Digits  -> AllIn(text, Digits)
    [] text[1] \in Letters -> AllIn(text, Letters \cup Digits)
    [] text[1] \in Quotes  ->
         /\ Last(text) = text[1]
         /\ Len(text) > 2 \/ text = <<"\"", "\"">>
         /\ \A i \in 2 .. Len(text) - 1 : text[i] = text[1] => text[i - 1] = "\\"
    [] OTHER               -> text \in Operations

ASSUME LexemesAssumption ==
  \A l \in Lexemes : /\ l.text \in Seq(Chars) \ {<<>>}
                     /\ l.token # NoToken => Formed(l.text)

-----------------------------------------------------------------------------
Init ==
  /\ source \in UNION {[1 .. n -> [lexeme : Lexemes, spaced : BOOLEAN]] : n \in 0 .. MaxLexemes}
  /\ source # <<>> => ~source[1].spaced
  /\ line = FlattenSeq([i \in DOMAIN source |-> Written(source[i])])
  /\ at = 1
  /\ tokens = <<>>
  /\ status = "run"

Stop(s) == status' = s /\ UNCHANGED <<line, at, tokens, source>>

\* Fault: room is seen for one token more.
RoomForOneMore == Len(tokens) <= MaxTokens

\* Fault: and here for one token fewer.
RoomForOneLess == Len(tokens) + 1 < MaxTokens

HasRoom == Len(tokens) < MaxTokens

\* The array is full, whether or not anything is left of the line.
Full == status = "run" /\ ~HasRoom /\ Stop("EXFULL")

Running == status = "run" /\ HasRoom

EndOfLine == Running /\ Start > Len(line) /\ Stop("ok")

Chomped == Running /\ Start <= Len(line) /\ ~Endless

Unended == Running /\ Start <= Len(line) /\ Endless /\ Stop("EINVAL")

Text    == SubSeq(line, Start, End - 1)
Token   == Tokenized(Presumed, Text)

\* The bound on the text is two characters too large for the terminated copy.
TooLong  == Chomped /\ Len(Text) - 1 > MaxText /\ Stop("EINVAL")
Overruns == Chomped /\ Len(Text) \in {MaxText, MaxText + 1} /\ Stop("corrupt")

\* The copy of the text finds no memory.
OutOfMemory == Chomped /\ Stop("ENOMEM")

Copied == Chomped /\ Len(Text) < MaxText

\* Neither does the copy of a string, or the trace of a token: nobody looks, and
\* the compiler writes through a null pointer.
Crash == Copied /\ Token # NoToken /\ Stop("crashed")

Unknown == Copied /\ Token = NoToken /\ Stop("EINVAL")

\* A comment is no token, and ends the line.
ReadComment == Copied /\ Text = Comment /\ Stop("ok")

ReadToken ==
  /\ Copied
  /\ Token # NoToken /\ Text # Comment
  /\ tokens' = Append(tokens, Token)
  /\ at' = End
  /\ UNCHANGED <<line, status, source>>

Next ==
  \/ Full \/ EndOfLine \/ Unended \/ TooLong \/ Overruns \/ OutOfMemory
  \/ Crash \/ Unknown \/ ReadComment \/ ReadToken

Spec == Init /\ [][Next]_vars

-----------------------------------------------------------------------------
(***************************************************************************)
(* Properties                                                              *)
(***************************************************************************)

\* Every variable has its type; no token lies past the array.
TypeOK ==
  /\ line \in Seq(Chars)
  /\ at \in 1 .. Len(line) + 1
  /\ Len(tokens) <= MaxTokens
  /\ \A i \in DOMAIN tokens :
       tokens[i].kind \in {"operation", "attribute", "type", "word", "string", "literal"}
  /\ status \in {"run", "ok", "EINVAL", "EXFULL", "ENOMEM", "crashed", "corrupt"}

\* The lexemes that are read: those before the first comment.
Comments == {i \in DOMAIN source : source[i].lexeme.text = Comment}
Read     == 1 .. Min(Comments \cup {Len(source) + 1}) - 1
Spell(i) == source[i].lexeme.text

\* The lexemes the language has but the lexer does not: the empty string and
\* quotes after a backslash.
Quoting(text) ==
  \/ text = <<"\"", "\"">>
  \/ \E i \in 2 .. Len(text) - 1 : text[i - 1] = "\\" /\ text[i] = text[1]

\* Each lexeme that has a meaning, taken by itself, is converted to it.
ConvertsLexemes ==
  \A l \in Lexemes :
    l.token # NoToken /\ ~Quoting(l.text) => Tokenized(PresumedBy(l.text[1]), l.text) = l.token

Sound == \A i \in Read : source[i].lexeme.token # NoToken /\ ~Quoting(Spell(i))

\* Lexeme i and what follows read together as another lexeme, in C as well.
Merges(i) ==
  /\ ~source[i + 1].spaced
  /\ \/ {Last(Spell(i)), Head(Spell(i + 1))} \subseteq Digits \cup Letters
     \/ \E o \in Operations : IsStrictPrefix(Spell(i), o) /\ IsPrefix(o, Spell(i) \o Spell(i + 1))

Separate == \A i \in Read : i < Len(source) => ~Merges(i)

\* Lexeme i is an operator, and another one or a quote follows it directly.
RunsOn(i) ==
  /\ i < Len(source) /\ ~source[i + 1].spaced
  /\ Spell(i) \in Operations /\ Last(Spell(i)) \in Symbols
  /\ Head(Spell(i + 1)) \in Symbols

Meaning == [i \in Read |-> source[i].lexeme.token]

\* Whatever stands side by side, with spaces or without, a lexeme is read as
\* what it means, or the line is refused: a missing space never makes the
\* compiler see another program.  Known not to hold of the empty string and
\* of quotes after a backslash.
NeverMisread ==
  Sound /\ Separate => IsPrefix(tokens, Meaning) /\ (status = "ok" => tokens = Meaning)

\* The lines refused are those with an operator directly before another one,
\* or before a quote, those with a lexeme longer than a token may be, and
\* those of as many tokens as the array holds.
RefusedOnlyRunTogether ==
  Sound /\ Separate /\ status \in {"EINVAL", "EXFULL", "corrupt"} =>
    \/ \E i \in Read \cup Comments : RunsOn(i)
    \/ \E i \in Read : Len(Spell(i)) >= MaxText
    \/ Cardinality(Read) >= MaxTokens
=============================================================================
