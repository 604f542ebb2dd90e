------------------------------ MODULE CReader -------------------------------
(***************************************************************************)
(* How a C compiler reads the text of an expression (external): a machine  *)
(* that takes one token a step or applies one operator.  codegen.c writes  *)
(* parentheses around a binary expression and nothing else, so what a text *)
(* means is decided by C's tokens, which take the longest match, and by    *)
(* the levels of C's operators.                                            *)
(*                                                                         *)
(* A frame is what waits for an operand: a prefix or binary operator, an   *)
(* assignment, an opening bracket, a call with its first arguments, a      *)
(* member access or a string.  The frames are a stack: <<>>, or the top    *)
(* frame and the stack below.  The value is the operand just read, <<>>    *)
(* where one is expected.                                                  *)
(***************************************************************************)
EXTENDS CTypes

Frame(kind, op, left) == [kind |-> kind, op |-> op, left |-> left]
Config(frames, value, text) == [frames |-> frames, value |-> value, text |-> text]
IsTop(frames, kind) == frames # <<>> /\ frames[1].kind = kind

Pairs == {<<"+", "+">>, <<"-", "-">>, <<"&", "&">>, <<"|", "|">>,
          <<"=", "=">>, <<"!", "=">>, <<"<", "=">>, <<">", "=">>}
Marks == {"(", ")", "[", "]", Comma, ".", "=", "+", "-", "*", "/", "%", "<", ">", "!", "~", "&", "|",
          Cast, Quote, "'", "\\", "\n", "\t", Space}

\* The sign a text begins with, and what is behind it.
IsPair(text) == Len(text) > 1 /\ <<text[1], text[2]>> \in Pairs
Sign(text) ==
  CASE text = <<>> -> <<>>
    [] text # <<>> /\ IsPair(text) -> <<text[1], text[2]>>
    [] OTHER -> <<text[1]>>
Behind(text) == IF IsPair(text) THEN Tail(Tail(text)) ELSE Tail(text)

PrefixOp(sign) ==
  CASE sign = <<"-">>      -> "NEG"     [] sign = <<"!">>      -> "NOT"
    [] sign = <<"~">>      -> "BIT_NOT" [] sign = <<"&">>      -> "ADDR"
    [] sign = <<"*">>      -> "DEREF"   [] sign = <<"+", "+">> -> "PRE_INC"
    [] sign = <<"-", "-">> -> "PRE_DEC" [] sign = <<Cast>>      -> "CAST"
    [] OTHER               -> "none"
PostfixOp(sign) ==
  CASE sign = <<"+", "+">> -> "POST_INC" [] sign = <<"-", "-">> -> "POST_DEC" [] OTHER -> "none"
BinaryOp(sign) ==
  CASE sign = <<"|", "|">> -> "OR" [] sign = <<"&", "&">> -> "AND"
    [] sign = <<"=", "=">> -> "EQ" [] sign = <<"!", "=">> -> "NE"
    [] sign = <<"<">>      -> "LT" [] sign = <<">">>      -> "GT"
    [] sign = <<"<", "=">> -> "LE" [] sign = <<">", "=">> -> "GE"
    [] sign = <<"+">>      -> "ADD" [] sign = <<"-">>     -> "SUB"
    [] sign = <<"*">>      -> "MUL" [] sign = <<"/">>     -> "DIV" [] sign = <<"%">> -> "MOD"
    [] OTHER               -> "none"

\* What is on a higher level binds closer.  Only a unary expression may
\* stand to the left of =, and nothing else binds its value.
Precedence(op) ==
  CASE op = "OR" -> 2 [] op = "AND" -> 3 [] op \in {"EQ", "NE"} -> 4
    [] op \in {"LT", "GT", "LE", "GE"} -> 5 [] op \in {"ADD", "SUB"} -> 6
    [] op \in {"MUL", "DIV", "MOD"} -> 7
FrameLevel(frame) ==
  CASE frame.kind = "prefix" -> 8
    [] frame.kind = "binary" -> Precedence(frame.op)
    [] frame.kind = "assign" -> 1
    [] OTHER -> 0
SignLevel(sign) ==
  CASE sign \in {<<>>, <<")">>, <<"]">>, <<Comma>>} -> 1
    [] BinaryOp(sign) # "none" -> Precedence(BinaryOp(sign))
    [] sign = <<"=">> -> 8
    [] OTHER -> 9

Applied(frame, value) ==
  CASE frame.kind = "prefix" -> c_unary(frame.op, value)
    [] frame.kind = "binary" -> c_binary(frame.op, frame.left, value)
    [] frame.kind = "assign" -> c_assign(frame.left, value)

Operand(piece) ==
  CASE piece \in Integers                -> expr_int(piece)
    [] piece \in Range(Floats) \ Integers -> expr_float(piece)
    [] OTHER                             -> expr_ident(piece)

Begins(text, piece) == text # <<>> /\ text[1] = piece
IsWord(text) == text # <<>> /\ text[1] \notin Marks
IsCharacter(text) ==
  Begins(text, "'") /\ Len(text) > 2 /\ text[2] \notin {"'", "\\", "\n"} /\ text[3] = "'"

\* Inside a string literal.
Unescaped(c) == CASE c = "n" -> "\n" [] c = "t" -> "\t" [] OTHER -> c
IsEscape(text) == Begins(text, "\\") /\ Len(text) > 1 /\ text[2] \in {"n", "t", Quote, "\\"}
StringStep(chars, below, text) ==
  LET more(c, rest) == Config(<<Frame("string", "none", Append(chars, c)), below>>, <<>>, rest) IN
  IF Begins(text, Quote) THEN Config(below, <<c_leaf(expr_string(chars))>>, Tail(text))
  ELSE IF IsEscape(text) THEN more(Unescaped(text[2]), Tail(Tail(text)))
  ELSE IF text # <<>> /\ text[1] \notin {"\\", "\n"} THEN more(text[1], Tail(text))
  ELSE Config(<<Frame("string", "none", chars), below>>, <<>>, text)

\* Where an operand is expected.
OperandStep(frames, text) ==
  LET push(frame, rest) == Config(<<frame, frames>>, <<>>, rest)
      op == PrefixOp(Sign(text))
  IN
  IF IsTop(frames, ".")
  THEN IF IsWord(text) THEN Config(frames[2], <<c_member(frames[1].left, text[1])>>, Tail(text))
       ELSE Config(frames, <<>>, text)
  ELSE IF op # "none" THEN push(Frame("prefix", op, <<>>), Behind(text))
  ELSE IF Begins(text, "(") THEN push(Frame("(", "none", <<>>), Tail(text))
  ELSE IF Begins(text, Quote) THEN push(Frame("string", "none", <<>>), Tail(text))
  ELSE IF IsCharacter(text)
  THEN Config(frames, <<c_leaf(expr_char(text[2]))>>, Tail(Tail(Tail(text))))
  ELSE IF Begins(text, ")") /\ IsTop(frames, "call") /\ frames[1].left = <<>>
  THEN Config(frames[2], <<c_call(frames[1].op, <<>>)>>, Tail(text))
  ELSE IF IsWord(text) THEN Config(frames, <<c_leaf(Operand(text[1]))>>, Tail(text))
  ELSE Config(frames, <<>>, text)

\* A space between two tokens says nothing; emit_expr never writes two.
Skip(text) == IF Begins(text, Space) THEN Tail(text) ELSE text

\* How close the top frame binds.
Level(frames) == IF frames = <<>> THEN 0 ELSE FrameLevel(frames[1])

\* Behind an operand.
OperatorStep(frames, v, unread) ==
  LET text == Skip(unread)
      sign == Sign(text)
      push(frame) == Config(<<frame, frames>>, <<>>, Behind(text))
      pop(value) == Config(frames[2], <<value>>, Tail(text))
      args == Append(frames[1].left, v)
  IN
  IF PostfixOp(sign) # "none" THEN Config(frames, <<c_unary(PostfixOp(sign), v)>>, Behind(text))
  ELSE IF sign = <<".">> THEN push(Frame(".", "none", v))
  ELSE IF sign = <<"[">> THEN push(Frame("[", "none", v))
  ELSE IF sign = <<"(">> /\ v.tree.kind = "ident" THEN push(Frame("call", v.tree.value[1], <<>>))
  ELSE IF SignLevel(sign) <= Level(frames) THEN Config(frames[2], <<Applied(frames[1], v)>>, unread)
  ELSE IF BinaryOp(sign) # "none" THEN push(Frame("binary", BinaryOp(sign), v))
  ELSE IF sign = <<"=">> /\ Level(frames) <= 1 THEN push(Frame("assign", "none", v))
  ELSE IF sign = <<")">> /\ IsTop(frames, "(") THEN pop(v)
  ELSE IF sign = <<"]">> /\ IsTop(frames, "[") THEN pop(c_index(frames[1].left, v))
  ELSE IF sign = <<")">> /\ IsTop(frames, "call") THEN pop(c_call(frames[1].op, args))
  ELSE IF sign = <<Comma>> /\ IsTop(frames, "call")
  THEN Config(<<Frame("call", frames[1].op, args), frames[2]>>, <<>>, Tail(text))
  ELSE Config(frames, <<v>>, text)

Step(c) ==
  IF IsTop(c.frames, "string") THEN StringStep(c.frames[1].left, c.frames[2], c.text)
  ELSE IF c.value = <<>> THEN OperandStep(c.frames, Skip(c.text))
  ELSE OperatorStep(c.frames, c.value[1], c.text)

Steps(c, n) ==
  LET run[k \in Nat] == IF k = 0 THEN c ELSE Step(run[k - 1]) IN run[n]

\* Every piece is taken once, and what it stands for applied once.
CRead(text) ==
  LET last == Steps(Config(<<>>, <<>>, text), 2 * Len(text))
  IN  IF last.frames = <<>> /\ last.value # <<>> /\ last.text = <<>> THEN last.value[1] ELSE Broken
=============================================================================
