------------------------------ MODULE MCLexer ------------------------------
(* Lexer on all texts of up to MaxLength characters of one of the alphabets:*)
(* numbers and operators, the two literals, the two comments.               *)
EXTENDS Lexer

CONSTANT MaxLength

Alphabets ==
  {{"e", "1", ".", "+", "@"}, {"\"", "'", "\\", "nl", "NUL"}, {"/", "*", "nl", "=", "1"}}

Texts == UNION {[1..n -> alphabet] : n \in 0..MaxLength, alphabet \in Alphabets}
=============================================================================
