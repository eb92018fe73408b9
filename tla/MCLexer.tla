------------------------------- MODULE MCLexer -------------------------------
(***************************************************************************)
(* Every line of up to three of these lexemes, each after a space or       *)
(* directly after the one before.  Some of them mean nothing, and are      *)
(* there to see what becomes of the others.  "unsigned" is as long as the  *)
(* room for a token, and longer with what is written next to it.           *)
(***************************************************************************)
EXTENDS Lexer, TLC

Ascii == <<" ", "!", "\"", "#", "$", "%", "&", "'", "(", ")", "*", "+", ",", "-", ".", "/",
           "0", "1", "2", "3", "4", "5", "6", "7", "8", "9", ":", ";", "<", "=", ">", "?", "@",
           "A", "B", "C", "D", "E", "F", "G", "H", "I", "J", "K", "L", "M", "N", "O", "P", "Q",
           "R", "S", "T", "U", "V", "W", "X", "Y", "Z", "[", "\\", "]", "^", "_", "backquote",
           "a", "b", "c", "d", "e", "f", "g", "h", "i", "j", "k", "l", "m", "n", "o", "p", "q",
           "r", "s", "t", "u", "v", "w", "x", "y", "z">>

MCCode == [c \in Range(Ascii) |-> 31 + CHOOSE i \in DOMAIN Ascii : Ascii[i] = c]

MCOperations == {<<"i", "f">>, <<"=">>, <<"=", "=">>, <<"(">>, <<"-">>, <<"/">>, <<"/", "/">>}
MCAttributes == {<<"u", "n", "s", "i", "g", "n", "e", "d">>}
MCTypes      == {<<"i", "n", "t">>}
MCComment    == <<"/", "/">>

Lexeme(text, token) == [text |-> text, token |-> token]

MCLexemes ==
  {Lexeme(o, Named("operation", o)) : o \in MCOperations}
    \cup {Lexeme(t, Named("type", t)) : t \in MCTypes}
    \cup {Lexeme(a, Named("attribute", a)) : a \in MCAttributes}
    \cup {Lexeme(<<"a", "1">>, Named("word", <<"a", "1">>)),
          Lexeme(<<"1", "0">>, Literal(10)),
          Lexeme(<<"0", "1", "0">>, Literal(8)),
          Lexeme(<<"'", "a", "'">>, Literal(97)),
          Lexeme(<<"'", "\\", "n", "'">>, Literal(10)),
          Lexeme(<<"'", "\\", "x", "b", "0", "'">>, Literal(-80)),
          Lexeme(<<"'", "\\", "b", "1", "1", "'">>, Literal(3)),
          Lexeme(<<"'", "\\", "'", "'">>, Literal(39)),
          Lexeme(<<"\"", "a", "\"">>, String(<<"a">>)),
          Lexeme(<<"\"", "\"">>, String(<<>>)),
          Lexeme(<<"\"", "\\", "\"", "\"">>, String(<<"\"">>))}
    \cup {Lexeme(text, NoToken) : text \in {<<"'", "a", "b", "'">>, <<"1", ".", "0">>, <<"'">>, <<"0", "x", "1">>}}

\* Each of them that means something is converted to its meaning: what the
\* theorems about lines of any length start from.
ASSUME ConversionAssumption == ConvertsLexemes
=============================================================================
