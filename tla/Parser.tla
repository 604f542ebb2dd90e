------------------------------- MODULE Parser -------------------------------
(***************************************************************************)
(* The recursive-descent parser of compiler/src/parser.c over the token    *)
(* kinds of one source file.                                               *)
(*                                                                         *)
(* todo is the C call stack: what is left to do, first thing first.  An    *)
(* element is either a token kind, for a call of expect(), or the name of  *)
(* a parse function or of the rest of one (a loop, an optional part).  A   *)
(* step replaces the first element by what the function does next.         *)
(*                                                                         *)
(* Token kinds the parser treats alike are one kind.  The tree is left     *)
(* out, and with it the precedence of the binary operators: parse_mul up   *)
(* to parse_or read together "unary (operator unary)*".  The source text   *)
(* is chosen as the lexer is asked for it.                                 *)
(***************************************************************************)
EXTENDS Integers, Sequences, FiniteSets

CONSTANTS
  Source,     (* the token kinds source files are made of                   *)
  MaxTokens,  (* bound on the tokens of a file                              *)
  MaxTodo     (* a file ends where it would nest deeper than this           *)

\* Type keywords: parse_for knows "type" as the start of a declaration,
\* parse_stmt "type" and "utype" (ushort, ulong), parse_type "void" as well.
Types == {"type", "utype", "void", "ident"}
Literals == {"literal", "string"}
\* "-" stands for MINUS, "*" for STAR, "!" for NOT, TILDE and AMP, "++" for
\* INC and DEC, "+" for every operator that is binary only.
Prefixes == {"-", "*", "!", "++"}
Binaries == {"-", "*", "+"}
\* "=" is ASSIGN, "+=" every compound assignment.
Assignments == {"=", "+="}
Openers == {"(", "[", "{"}
Closers == {")", "]", "}"}

\* TOK_ERROR is "error"; "break" is BREAK and CONTINUE; "->" is ARROW.
Kinds == Types \cup Literals \cup Prefixes \cup Binaries \cup Assignments
         \cup Openers \cup Closers
         \cup {"fn", "struct", "import", "if", "else", "while", "for", "return",
               "break", "const", ";", ",", ".", "->", "error", "eof"}

ASSUME ParserAssumption ==
  /\ Source \subseteq Kinds \ {"eof"}
  /\ MaxTokens \in Nat
  /\ MaxTodo \in Nat

None == "none"

VARIABLES
  todo,       (* the call stack                                             *)
  current,    (* Parser.current                                             *)
  peeked,     (* the token after it, once lexer_peek has looked at it       *)
  left,       (* how many more tokens the file may have                     *)
  had_error,  (* Parser.had_error                                           *)
  owed,       (* history: fn, struct and import tokens consumed, less the   *)
              (* declarations entered in the Program                        *)
  open        (* history: the brackets consumed and not closed              *)

vars == <<todo, current, peeked, left, had_error, owed, open>>

\* Slip: the end of the text is not looked for.
NextToken_endless(kind, remaining) ==
  \/ kind = "eof" /\ remaining = 0
  \/ /\ Len(todo) < MaxTodo
     /\ kind \in Source /\ remaining = left - 1

\* What lexer_next may return: the file goes on or it is over.
NextToken(kind, remaining) ==
  \/ kind = "eof" /\ remaining = 0
  \/ /\ left > 0 /\ Len(todo) < MaxTodo
     /\ kind \in Source /\ remaining = left - 1

\* parser_init, and parse_program called.
Init ==
  /\ todo = <<"parse_program">>
  /\ current \in Source \cup {"eof"}
  /\ peeked = None
  /\ left = MaxTokens
  /\ had_error = FALSE
  /\ owed = 0
  /\ open = <<>>

Top == IF todo = <<>> THEN None ELSE Head(todo)
Matches(o, c) == <<o, c>> \in {<<"(", ")">>, <<"[", "]">>, <<"{", "}">>}
Keyword == current \in {"fn", "struct", "import"}

\* The brackets open once current is consumed; a closing bracket that closes
\* nothing stays in the record.
Consumed ==
  IF current \in Closers /\ open # <<>> /\ Matches(open[1], current) THEN Tail(open)
  ELSE IF current \in Openers \cup Closers THEN <<current>> \o open
  ELSE open

\* advance: current is consumed and the next token takes its place.
advance ==
  /\ \/ peeked # None /\ current' = peeked /\ UNCHANGED left
     \/ peeked = None /\ NextToken(current', left')
  /\ peeked' = None

\* The three things a parse function does between two calls, with what is
\* left to do afterwards: it goes on without touching the token, consumes it,
\* or reports it.  The histories are kept up to the first report.
Go(steps) ==
  /\ todo' = steps \o Tail(todo)
  /\ UNCHANGED <<current, peeked, left, had_error, owed, open>>

Take(steps) ==
  /\ todo' = steps \o Tail(todo)
  /\ advance
  /\ owed' = IF ~had_error /\ Keyword THEN owed + 1 ELSE owed
  /\ open' = IF ~had_error THEN Consumed ELSE open
  /\ UNCHANGED had_error

Report(steps) ==
  /\ todo' = steps \o Tail(todo)
  /\ had_error' = TRUE
  /\ owed' = 0 /\ open' = <<>>
  /\ UNCHANGED <<current, peeked, left>>

\* expect(k): a token that is not k is reported and stays.
expect ==
  /\ Top \in Kinds
  /\ \/ current = Top /\ Take(<<>>)
     \/ current # Top /\ Report(<<>>)

parse_type ==
  \/ /\ Top = "parse_type"
     /\ \/ current \in Types /\ Take(<<"stars">>)
        \/ current \notin Types /\ Report(<<>>)
  \/ /\ Top = "stars"
     /\ \/ current = "*" /\ Take(<<"stars">>)
        \/ current # "*" /\ Go(<<>>)

\* Slip: the closing parenthesis is not asked for.
parse_primary_unclosed ==
  /\ Top = "parse_primary"
  /\ \/ current \in Literals \cup {"ident"} /\ Take(<<>>)
     \/ current = "(" /\ Take(<<"parse_expr">>)
     \/ current \notin Literals \cup {"ident", "("} /\ Report(<<>>)

\* Slip: the token that is no expression is not consumed.
parse_primary_stays ==
  /\ Top = "parse_primary"
  /\ \/ current \in Literals \cup {"ident"} /\ Take(<<>>)
     \/ current = "(" /\ Take(<<"parse_expr", ")">>)
     \/ current \notin Literals \cup {"ident", "("} /\ Report(<<>>)

\* An error in parse_primary consumes the token, whatever it is.
parse_primary ==
  /\ Top = "parse_primary"
  /\ \/ current \in Literals \cup {"ident"} /\ Take(<<>>)
     \/ current = "(" /\ Take(<<"parse_expr", ")">>)
     \/ /\ current \notin Literals \cup {"ident", "("}
        /\ todo' = Tail(todo)
        /\ advance
        /\ had_error' = TRUE
        /\ owed' = 0 /\ open' = <<>>

parse_postfix ==
  \/ Top = "parse_postfix" /\ Go(<<"parse_primary", "suffixes">>)
  \/ /\ Top = "suffixes"
     /\ \/ current = "(" /\ Take(<<"arguments", ")", "suffixes">>)
        \/ current \in {".", "->"} /\ Take(<<"ident", "suffixes">>)
        \/ current = "[" /\ Take(<<"parse_expr", "]", "suffixes">>)
        \/ current = "++" /\ Take(<<"suffixes">>)
        \/ current \notin {"(", ".", "->", "[", "++"} /\ Go(<<>>)
  \/ /\ Top = "arguments"
     /\ \/ current = ")" /\ Go(<<>>)
        \/ current # ")" /\ Go(<<"parse_expr", "more_arguments">>)
  \/ /\ Top = "more_arguments"
     /\ \/ current = "," /\ Take(<<"parse_expr", "more_arguments">>)
        \/ current # "," /\ Go(<<>>)

parse_unary ==
  /\ Top = "parse_unary"
  /\ \/ current \in Prefixes /\ Take(<<"parse_unary">>)
     \/ current \notin Prefixes /\ Go(<<"parse_postfix">>)

\* parse_mul, parse_add, parse_cmp, parse_and and parse_or.
parse_or ==
  \/ Top = "parse_or" /\ Go(<<"parse_unary", "operators">>)
  \/ /\ Top = "operators"
     /\ \/ current \in Binaries /\ Take(<<"parse_unary", "operators">>)
        \/ current \notin Binaries /\ Go(<<>>)

\* parse_assign, which is right associative, and parse_expr.
parse_expr ==
  \/ Top = "parse_expr" /\ Go(<<"parse_or", "assignment">>)
  \/ /\ Top = "assignment"
     /\ \/ current \in Assignments /\ Take(<<"parse_expr">>)
        \/ current \notin Assignments /\ Go(<<>>)

parse_var_decl ==
  \/ Top = "parse_var_decl" /\ Go(<<"parse_type", "ident", "initializer", ";">>)
  \/ /\ Top = "initializer"
     /\ \/ current = "=" /\ Take(<<"parse_expr">>)
        \/ current # "=" /\ Go(<<>>)

\* parse_for takes every identifier for the start of a declaration.
parse_for ==
  \/ /\ Top = "parse_for"
     /\ Go(<<"(", "for_init", "for_cond", ";", "for_step", ")", "parse_stmt">>)
  \/ /\ Top = "for_init"
     /\ \/ current = ";" /\ Go(<<";">>)
        \/ current \in {"type", "ident"} /\ Go(<<"parse_var_decl">>)
        \/ current \notin {";", "type", "ident"} /\ Go(<<"parse_expr", ";">>)
  \/ /\ Top = "for_cond"
     /\ \/ current = ";" /\ Go(<<>>)
        \/ current # ";" /\ Go(<<"parse_expr">>)
  \/ /\ Top = "for_step"
     /\ \/ current = ")" /\ Go(<<>>)
        \/ current # ")" /\ Go(<<"parse_expr">>)

parse_block ==
  \/ Top = "parse_block" /\ Go(<<"{", "statements", "}">>)
  \/ /\ Top = "statements"
     /\ \/ current \in {"}", "eof"} /\ Go(<<>>)
        \/ current \notin {"}", "eof"} /\ Go(<<"parse_stmt", "statements">>)

\* lexer_peek, which parse_stmt calls when a statement starts with a name.
lexer_peek ==
  /\ Top = "parse_stmt" /\ current = "ident" /\ peeked = None
  /\ NextToken(peeked', left')
  /\ UNCHANGED <<todo, current, had_error, owed, open>>

\* parse_if, parse_while and parse_return are called once their keyword is
\* consumed.  A name starts a declaration when a name or a star follows.
parse_stmt ==
  \/ /\ Top = "parse_stmt"
     /\ \/ current = "{" /\ Go(<<"parse_block">>)
        \/ current = "if" /\ Take(<<"(", "parse_expr", ")", "parse_stmt", "else_part">>)
        \/ current = "while" /\ Take(<<"(", "parse_expr", ")", "parse_stmt">>)
        \/ current = "for" /\ Take(<<"parse_for">>)
        \/ current = "return" /\ Take(<<"return_value", ";">>)
        \/ current = "break" /\ Take(<<";">>)
        \/ current = "const" /\ Take(<<"parse_var_decl">>)
        \/ current \in {"type", "utype"} /\ Go(<<"parse_var_decl">>)
        \/ /\ current = "ident" /\ peeked \in {"ident", "*"}
           /\ Go(<<"parse_var_decl">>)
        \/ /\ \/ current = "ident" /\ peeked \notin {"ident", "*", None}
              \/ current \notin {"{", "if", "while", "for", "return", "break",
                                 "const", "type", "utype", "ident"}
           /\ Go(<<"parse_expr", ";">>)
  \/ /\ Top = "else_part"
     /\ \/ current = "else" /\ Take(<<"parse_stmt">>)
        \/ current # "else" /\ Go(<<>>)
  \/ /\ Top = "return_value"
     /\ \/ current = ";" /\ Go(<<>>)
        \/ current # ";" /\ Go(<<"parse_expr">>)

parse_function ==
  \/ /\ Top = "parse_function"
     /\ Go(<<"fn", "ident", "(", "parameters", ")", "->", "parse_type", "parse_block">>)
  \/ /\ Top = "parameters"
     /\ \/ current = ")" /\ Go(<<>>)
        \/ current # ")" /\ Go(<<"parse_type", "ident", "more_parameters">>)
  \/ /\ Top = "more_parameters"
     /\ \/ current = "," /\ Take(<<"parse_type", "ident", "more_parameters">>)
        \/ current # "," /\ Go(<<>>)

parse_struct ==
  \/ /\ Top = "parse_struct"
     /\ Go(<<"struct", "ident", "{", "fields", "}", ";">>)
  \/ /\ Top = "fields"
     /\ \/ current \in {"}", "eof"} /\ Go(<<>>)
        \/ /\ current \notin {"}", "eof"}
           /\ Go(<<"parse_type", "ident", ";", "fields">>)

parse_import ==
  \/ Top = "parse_import" /\ Go(<<"import", "import_path", ";">>)
  \/ /\ Top = "import_path"
     /\ \/ current \in {"string", "ident"} /\ Take(<<>>)
        \/ current \notin {"string", "ident"} /\ Report(<<>>)

\* synchronize leaves fn and } for parse_program to look at.
synchronize ==
  /\ Top = "synchronize"
  /\ \/ current \in {"eof", "fn", "}"} /\ Go(<<>>)
     \/ current = ";" /\ Take(<<>>)
     \/ current \notin {"eof", "fn", "}", ";"} /\ Take(<<"synchronize">>)

\* Slip: the count of a kind of declaration is not advanced.
Declare_uncounted(function) == Go(<<function, "parse_program">>)

\* A declaration is entered in the Program before its function is called.
Declare(function) ==
  /\ todo' = <<function>> \o todo
  /\ owed' = IF ~had_error THEN owed - 1 ELSE owed
  /\ UNCHANGED <<current, peeked, left, had_error, open>>

parse_program ==
  /\ Top = "parse_program"
  /\ \/ current = "eof" /\ Go(<<>>)
     \/ current = "fn" /\ Declare("parse_function")
     \/ current = "struct" /\ Declare("parse_struct")
     \/ current = "import" /\ Declare("parse_import")
     \/ /\ current \notin {"eof", "fn", "struct", "import"}
        /\ Report(<<"synchronize", "parse_program">>)

Next ==
  \/ expect \/ parse_type
  \/ parse_primary \/ parse_postfix \/ parse_unary \/ parse_or \/ parse_expr
  \/ parse_var_decl \/ parse_for \/ parse_block \/ lexer_peek \/ parse_stmt
  \/ parse_function \/ parse_struct \/ parse_import
  \/ synchronize \/ parse_program

\* The parser is one thread: it goes on as long as it has something to do.
Spec == Init /\ [][Next]_vars /\ WF_vars(Next)

Done == todo = <<>>
Accepted == Done /\ ~had_error
-----------------------------------------------------------------------------

\* The parse functions, and what may be left of one.
Calls ==
  {"parse_program", "synchronize", "parse_function", "parameters", "more_parameters",
   "parse_struct", "fields", "parse_import", "import_path", "parse_block", "statements",
   "parse_stmt", "else_part", "return_value", "parse_for", "for_init", "for_cond",
   "for_step", "parse_var_decl", "initializer", "parse_type", "stars", "parse_expr",
   "assignment", "parse_or", "operators", "parse_unary", "parse_postfix", "suffixes",
   "arguments", "more_arguments", "parse_primary"}

TypeOK ==
  /\ todo \in Seq(Calls \cup Kinds)
  /\ current \in Kinds
  /\ peeked \in Kinds \cup {None}
  /\ left \in 0..MaxTokens
  /\ had_error \in BOOLEAN
  /\ owed \in Int
  /\ open \in Seq(Openers \cup Closers)

\* The closing brackets that active functions will expect, by their place.
Awaited == {i \in DOMAIN todo : todo[i] \in Closers}

\* As long as nothing is reported, the brackets consumed and not closed are
\* exactly those whose closing bracket some active function will expect, in
\* that order: no path through expressions, statements and declarations
\* accepts a file with unbalanced or crossed brackets.
Balanced ==
  ~had_error /\ (\A i \in DOMAIN todo : todo[i] \notin Openers) =>
    /\ Cardinality(Awaited) = Len(open)
    /\ \A i \in Awaited : Matches(open[Cardinality({j \in Awaited : j <= i})], todo[i])

\* A file accepted without a report has every declaration it spells in its
\* Program: no fn, struct or import is swallowed by an earlier construct.
NothingSwallowed == Accepted => owed = 0 /\ current = "eof"

\* The two states parse_program and parse_struct never leave: neither loop
\* consumes the token it reports.
StrayBrace == current = "}" /\ Top \in {"parse_program", "synchronize"}
BadField ==
  /\ \E i \in DOMAIN todo : todo[i] = "fields"
  /\ current \notin Types \cup {"}", "eof", ";"}

\* Every other file is parsed to its end, however many errors it has: each
\* loop of each function consumes a token before it comes round.
TerminatesOrStuck == <>(Done \/ []StrayBrace \/ []BadField)

\* "No silent failures" (docs/getting-started.md): parsing ends, so that what
\* it reported is printed.
Terminates == <>Done
=============================================================================
