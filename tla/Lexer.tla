------------------------------- MODULE Lexer -------------------------------
(***************************************************************************)
(* The lexer of compiler/src/lexer.c as the parser drives it: lexer_next   *)
(* for the current token, lexer_peek for a look at the one behind it.      *)
(* lexer_peek keeps the token it lexed; by then the position has moved     *)
(* and a bad token has been reported, although nobody has taken it.        *)
(* The parser may peek at any time.                                        *)
(***************************************************************************)
EXTENDS Tokens

CONSTANT Sources    (* the texts a program may be                            *)

ASSUME LexerAssumption == Sources \subseteq Seq(Characters)

VARIABLES
  src,            (* Lexer.src                                              *)
  at,             (* Lexer.pos, line and column                             *)
  has_lookahead,
  lookahead,
  current,        (* Parser.current                                         *)
  shown,          (* what lexer_peek last returned                          *)
  reported,       (* the places of the errors reported                      *)
  before          (* history: where the lookahead was lexed, and what had   *)
                  (* been reported by then                                  *)

vars == <<src, at, has_lookahead, lookahead, current, shown, reported, before>>

NoToken == [kind |-> "NONE", from |-> 0, to |-> 0, line |-> 0, column |-> 0]

\* Slip: the column starts at 0.
lexer_init_zero ==
  /\ src \in Sources
  /\ at = [pos |-> 1, line |-> 1, column |-> 0]
  /\ has_lookahead = FALSE
  /\ lookahead = NoToken
  /\ current = NoToken
  /\ shown = NoToken
  /\ reported = <<>>
  /\ before = [place |-> Start, reported |-> <<>>]

lexer_init ==
  /\ src \in Sources
  /\ at = Start
  /\ has_lookahead = FALSE
  /\ lookahead = NoToken
  /\ current = NoToken
  /\ shown = NoToken
  /\ reported = <<>>
  /\ before = [place |-> Start, reported |-> <<>>]

Reports(token) == IF token.kind = "ERROR" THEN <<token.from>> ELSE <<>>

\* Lexing moves the position and reports.
Lex(next) ==
  /\ at' = next.place
  /\ reported' = reported \o Reports(next.token)

\* Slip: the token lexed by lexer_peek is forgotten.
lexer_next_lexes ==
  \E next \in {Scan(src, at)} :
    /\ Lex(next)
    /\ current' = next.token
    /\ has_lookahead' = FALSE
    /\ UNCHANGED <<src, lookahead, shown, before>>

\* The parser's advance.
lexer_next ==
  \/ /\ has_lookahead
     /\ has_lookahead' = FALSE
     /\ current' = lookahead
     /\ UNCHANGED <<src, at, lookahead, shown, reported, before>>
  \/ /\ ~has_lookahead
     /\ \E next \in {Scan(src, at)} :
        Lex(next) /\ current' = next.token
     /\ UNCHANGED <<src, has_lookahead, lookahead, shown, before>>

lexer_peek ==
  /\ \/ /\ ~has_lookahead
        /\ \E next \in {Scan(src, at)} :
           Lex(next) /\ lookahead' = next.token
        /\ has_lookahead' = TRUE
        /\ before' = [place |-> at, reported |-> reported]
     \/ /\ has_lookahead
        /\ UNCHANGED <<at, reported, lookahead, has_lookahead, before>>
  /\ shown' = lookahead'
  /\ UNCHANGED <<src, current>>

Init == lexer_init
Next == lexer_next \/ lexer_peek

\* The parser goes on taking tokens.
Spec == Init /\ [][Next]_vars /\ WF_vars(lexer_next)
-----------------------------------------------------------------------------

Places == [pos : Nat \ {0}, line : Nat \ {0}, column : Nat \ {0}]
Kinds == {"NONE", "EOF", "IDENT", "INT", "FLOAT", "STRING", "CHAR", "OP", "ERROR"}
TokenType == [kind : Kinds, from : Nat, to : Nat, line : Nat, column : Nat]

TypeOK ==
  /\ {at, before.place} \subseteq Places
  /\ at.pos <= Len(src) + 1
  /\ has_lookahead \in BOOLEAN
  /\ {lookahead, current, shown} \subseteq TokenType
  /\ {reported, before.reported} \subseteq Seq(1..Len(src))

\* The lexer the parser sees: while a token waits, the one that is still in
\* front of it, whose report has not been made.
SeenPlace == IF has_lookahead THEN before.place ELSE at
SeenReports == IF has_lookahead THEN before.reported ELSE reported

Stream ==
  INSTANCE TokenStream
  WITH text <- src, place <- SeenPlace, reported <- SeenReports

\* However lexer_next and lexer_peek are mixed, the parser gets the tokens of
\* the text in order, each once, a look shows the token that comes next and
\* changes nothing, and every bad token is reported once.
ImplementsStream == Stream!Spec

\* Where a character of the text is, by counting.
LineOf(i) == 1 + Cardinality({k \in 1..(i - 1) : src[k] = "nl"})
ColumnOf(i) ==
  LET newlines == {k \in 1..(i - 1) : src[k] = "nl"}
  IN  IF newlines = {} THEN i ELSE i - Max(newlines)

OnOneLine(token) == \A k \in token.from..(token.to - 1) : src[k] # "nl"

\* A token has the line and column of its first character, behind whatever
\* comments, literals and bad characters the lexer went through before it; a
\* token that spans lines has the line of its end.
PlacedAtStart ==
  \A token \in {current, lookahead} \ {NoToken} :
    /\ token.column = ColumnOf(token.from)
    /\ token.line = LineOf(IF OnOneLine(token) THEN token.from ELSE token.to)

\* How many backslashes stand right before character k of a token.
Backslashes(token, k) ==
  k - 1 - Max({j \in token.from..(k - 1) : src[j] # "\\"})

\* A string literal ends at its first quote that no backslash protects, where
\* a backslash that is itself protected protects nothing: no text behind the
\* literal is taken into it, and none of it is left to be read as code.
StringsWhole ==
  \A token \in {current, lookahead} : token.kind = "STRING" =>
    \A k \in (token.from + 1)..(token.to - 1) :
      src[k] = "\"" => (k = token.to - 1 <=> Backslashes(token, k) % 2 = 0)

\* The parser gets to the end of every text: each call that returns no end of
\* file has consumed something.
ReachesEnd == <>(current.kind = "EOF")
=============================================================================
