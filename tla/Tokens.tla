------------------------------- MODULE Tokens -------------------------------
(***************************************************************************)
(* How compiler/src/lexer.c cuts one token off the source text: white      *)
(* space and comments, identifiers, numbers, string and character          *)
(* literals, operators, and the line and column a token is given.          *)
(*                                                                         *)
(* A text is a sequence of characters, each a string; "nl" is the newline, *)
(* "NUL" the character 0.  One letter and one digit stand for all, but for *)
(* e, which may begin an exponent.  A place is what Lexer keeps of its way *)
(* through the text: pos (from 1), line and column.  A token is its kind,  *)
(* its place in the text and the location it is given; its value is left   *)
(* out, and what its text spells is text[from .. to - 1].                  *)
(***************************************************************************)
EXTENDS Naturals, Sequences, FiniteSets, FiniteSetsExt

Digits == {"1"}
Letters == {"a", "e", "_"}
Blanks == {" ", "nl"}

\* The if chain of lexer_next: operators of two characters come first.
TwoChar ==
  {<<"+", "+">>, <<"-", "-">>, <<"-", ">">>, <<"=", "=">>, <<"!", "=">>, <<"<", "=">>,
   <<">", "=">>, <<"&", "&">>, <<"|", "|">>, <<"<", "<">>, <<">", ">">>, <<"+", "=">>,
   <<"-", "=">>, <<"*", "=">>, <<"/", "=">>, <<"%", "=">>}

\* Its switch.
OneChar ==
  {"+", "-", "*", "/", "%", "=", "<", ">", "!", "&", "|", "^", "~", "(", ")", "{", "}",
   "[", "]", ";", ",", ".", ":"}

\* "@" stands for every character no token begins with.
Characters == Letters \cup Digits \cup Blanks \cup OneChar \cup {"\"", "'", "\\", "@", "NUL"}

Start == [pos |-> 1, line |-> 1, column |-> 1]

\* peek_char, and peek_next one further: behind the end there is a NUL.
Char(text, i) == IF i > Len(text) THEN "NUL" ELSE text[i]

Newlines(text, i, j) == {k \in i..(j - 1) : Char(text, k) = "nl"}

\* Slip: a newline does not begin a line at column 1.
advance_keeps_column(text, place, i) ==
  LET crossed == Newlines(text, place.pos, i)
  IN  [pos    |-> i,
       line   |-> place.line + Cardinality(crossed),
       column |-> place.column + (i - place.pos)]

\* advance, called until the position is i.
advance(text, place, i) ==
  LET crossed == Newlines(text, place.pos, i)
  IN  [pos    |-> i,
       line   |-> place.line + Cardinality(crossed),
       column |-> IF crossed = {} THEN place.column + (i - place.pos)
                                  ELSE i - Max(crossed)]

\* The position a call of advance leads to: it stays at the end of the text.
Step(text, i, n) == IF i + n > Len(text) THEN Len(text) + 1 ELSE i + n

\* The end of a run of characters of set from i on.
RunEnd(text, i, set) ==
  Min({k \in i..(Len(text) + 1) : Char(text, k) \notin set})

\* The end of a comment whose /* ends before i: behind the first */, or
\* where the text ends.
CommentEnd(text, i) ==
  LET stops == {k \in i..(Len(text) + 1) :
                  \/ Char(text, k) = "NUL"
                  \/ Char(text, k) = "*" /\ Char(text, k + 1) = "/"}
  IN  IF Char(text, Min(stops)) = "NUL" THEN Min(stops) ELSE Min(stops) + 2

LineEnd(text, i) == Min({k \in i..(Len(text) + 1) : Char(text, k) \in {"NUL", "nl"}})

\* Where a loop stops that goes from position k to turn[k] in one turn.
LoopEnd(turn) ==
  LET end[k \in DOMAIN turn] == IF turn[k] = k THEN k ELSE end[turn[k]]
  IN  end

\* skip_whitespace_and_comments, one turn of its loop.
Skip(text) ==
  [k \in 1..(Len(text) + 1) |->
     CASE Char(text, k) \in Blanks -> k + 1
       [] Char(text, k) = "/" /\ Char(text, k + 1) = "/" -> LineEnd(text, k)
       [] Char(text, k) = "/" /\ Char(text, k + 1) = "*" -> CommentEnd(text, k + 2)
       [] OTHER -> k]

Skipped(text, i) == LoopEnd(Skip(text))[i]

\* The functions below return the kind of a token that begins at i and where
\* it ends.

lex_ident_or_kw(text, i) == [kind |-> "IDENT", to |-> RunEnd(text, i, Letters \cup Digits)]

\* A point needs a digit behind it, an exponent does not.
lex_number(text, i) ==
  LET whole == RunEnd(text, i, Digits)
      point == Char(text, whole) = "." /\ Char(text, whole + 1) \in Digits
      fraction == IF point THEN RunEnd(text, whole + 1, Digits) ELSE whole
      exponent == Char(text, fraction) = "e"
      sign == IF Char(text, fraction + 1) \in {"+", "-"} THEN 1 ELSE 0
  IN  IF exponent THEN [kind |-> "FLOAT", to |-> RunEnd(text, fraction + 1 + sign, Digits)]
      ELSE [kind |-> IF point THEN "FLOAT" ELSE "INT", to |-> fraction]

\* Slip: a quote behind a backslash ends the string.
lex_string_ends_early(text, i) ==
  LET close == Min({k \in (i + 1)..(Len(text) + 1) : Char(text, k) \in {"\"", "NUL"}})
  IN  IF Char(text, close) = "\"" THEN [kind |-> "STRING", to |-> close + 1]
                                  ELSE [kind |-> "ERROR", to |-> close]

\* One turn of the loop of lex_string: a backslash takes the next character
\* with it, whatever that is.
Spell(text) ==
  [k \in 1..(Len(text) + 1) |->
     CASE Char(text, k) \in {"\"", "NUL"} -> k
       [] Char(text, k) = "\\" -> Step(text, k, 2)
       [] OTHER -> k + 1]

lex_string(text, i) ==
  LET end == LoopEnd(Spell(text))[i + 1]
  IN  IF Char(text, end) = "\"" THEN [kind |-> "STRING", to |-> end + 1]
                                ELSE [kind |-> "ERROR", to |-> end]

lex_char(text, i) ==
  LET end == Step(text, i, IF Char(text, i + 1) = "\\" THEN 3 ELSE 2)
  IN  IF Char(text, end) = "'" THEN [kind |-> "CHAR", to |-> end + 1]
                               ELSE [kind |-> "ERROR", to |-> end]

\* Slip: an operator of one character is not consumed.
lex_operator_stays(text, i) ==
  IF <<Char(text, i), Char(text, i + 1)>> \in TwoChar
  THEN [kind |-> "OP", to |-> i + 2]
  ELSE IF Char(text, i) \in OneChar THEN [kind |-> "OP", to |-> i]
                                   ELSE [kind |-> "ERROR", to |-> i + 1]

lex_operator(text, i) ==
  IF <<Char(text, i), Char(text, i + 1)>> \in TwoChar
  THEN [kind |-> "OP", to |-> i + 2]
  ELSE [kind |-> IF Char(text, i) \in OneChar THEN "OP" ELSE "ERROR", to |-> i + 1]

Lexed(text, i) ==
  CASE Char(text, i) = "NUL"     -> [kind |-> "EOF", to |-> i]
    [] Char(text, i) \in Letters -> lex_ident_or_kw(text, i)
    [] Char(text, i) \in Digits  -> lex_number(text, i)
    [] Char(text, i) = "\""      -> lex_string(text, i)
    [] Char(text, i) = "'"       -> lex_char(text, i)
    [] OTHER                     -> lex_operator(text, i)

\* make_token: the column is that of the first character, the line the one
\* the lexer has reached.
make_token(lexed, first, last) ==
  [kind |-> lexed.kind, from |-> first.pos, to |-> lexed.to,
   line |-> last.line, column |-> first.column]

\* lexer_next without a lookahead: the next token from place on, and the
\* place behind it.
Scan(text, place) ==
  LET first == advance(text, place, Skipped(text, place.pos))
      lexed == Lexed(text, first.pos)
      last  == advance(text, first, lexed.to)
  IN  [token |-> make_token(lexed, first, last), place |-> last]
=============================================================================
