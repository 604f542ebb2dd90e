------------------------------ MODULE Emission ------------------------------
(***************************************************************************)
(* emit_expr of compiler/src/codegen.c: the text it writes for a node, from*)
(* the texts of the operands.  A text is a sequence of pieces: a character,*)
(* a name, a number or a cast.                                             *)
(***************************************************************************)
EXTENDS Syntax, SequencesExt

CONSTANTS
  Pieces,     (* what texts are made of                                     *)
  Integers,   (* the spellings of whole numbers                             *)
  Floats      (* how %g prints each of the other numbers: a function from   *)
              (* the spelling in the source                                 *)

Space == " "
Comma == ","
Quote == "\""
Cast == "(long long)"

Binaries ==
  [ADD |-> <<"+">>, SUB |-> <<"-">>, MUL |-> <<"*">>, DIV |-> <<"/">>, MOD |-> <<"%">>,
   EQ |-> <<"=", "=">>, NE |-> <<"!", "=">>, LT |-> <<"<">>, GT |-> <<">">>,
   LE |-> <<"<", "=">>, GE |-> <<">", "=">>, AND |-> <<"&", "&">>, OR |-> <<"|", "|">>]
emit_binop(op) == Binaries[op]

Unaries ==
  [NEG |-> <<"-">>, NOT |-> <<"!">>, BIT_NOT |-> <<"~">>, ADDR |-> <<"&">>, DEREF |-> <<"*">>,
   PRE_INC |-> <<"+", "+">>, PRE_DEC |-> <<"-", "-">>,
   POST_INC |-> <<"+", "+">>, POST_DEC |-> <<"-", "-">>]

\* The loop of EXPR_STRING.
escape(c) ==
  CASE c = "\n" -> <<"\\", "n">> [] c = "\t" -> <<"\\", "t">>
    [] c = Quote -> <<"\\", Quote>> [] c = "\\" -> <<"\\", "\\">> [] OTHER -> <<c>>

emit_string(chars) == <<Quote>> \o FlattenSeq([n \in DOMAIN chars |-> escape(chars[n])]) \o <<Quote>>

\* The text of '%c' ends at the character 0.
emit_literal(e) ==
  CASE e.kind = "float"  -> <<Floats[e.value[1]]>>
    [] e.kind = "string" -> emit_string(e.value)
    [] e.kind = "char"   -> IF e.value[1] = "NUL" THEN <<"'">> ELSE <<"'", e.value[1], "'">>
    [] e.kind = "bool"   -> <<IF e.value[1] = "true" THEN "1" ELSE "0">>
    [] e.kind = "null"   -> <<"NULL">>
    [] OTHER             -> e.value

emit_unary(op, operand) ==
  IF op \in PostfixOps THEN operand \o Unaries[op] ELSE Unaries[op] \o operand

\* Slip: a binary expression is written without its parentheses.
emit_binary_bare(op, l, r) == l \o <<Space>> \o emit_binop(op) \o <<Space>> \o r

emit_binary(op, l, r) == <<"(">> \o l \o <<Space>> \o emit_binop(op) \o <<Space>> \o r \o <<")">>

\* What the calls of printf begin with, and what the arguments of the others.
Formats ==
  [print |-> <<"%", "s">>, println |-> <<"%", "s", "\\", "n">>,
   print_int |-> <<"%", "l", "l", "d", "\\", "n">>, print_float |-> <<"%", "g", "\\", "n">>]
Printf(name) == <<"printf", "(", Quote>> \o Formats[name] \o <<Quote>>
After(separator, args) == FlattenSeq([n \in DOMAIN args |-> separator \o args[n]])
First(args) == SubSeq(args, 1, 1)
Rest(args) == SubSeq(args, 2, Len(args))
Separator == <<Comma, Space>>

\* Slip: the loops over the arguments of print and println start at 1.
emit_call_from_1(name, args) ==
  (CASE name \in {"print", "println"} -> Printf(name) \o After(Separator, Rest(args))
     [] name = "print_int" -> Printf(name) \o After(Separator \o <<Cast>>, First(args))
     [] name = "print_float" -> Printf(name) \o After(Separator, First(args))
     [] OTHER -> <<name, "(">> \o FlattenSeq(First(args)) \o After(Separator, Rest(args)))
  \o <<")">>

\* print_int and print_float leave every argument but the first.
emit_call(name, args) ==
  (CASE name \in {"print", "println"} -> Printf(name) \o After(Separator, args)
     [] name = "print_int" -> Printf(name) \o After(Separator \o <<Cast>>, First(args))
     [] name = "print_float" -> Printf(name) \o After(Separator, First(args))
     [] OTHER -> <<name, "(">> \o FlattenSeq(First(args)) \o After(Separator, Rest(args)))
  \o <<")">>

emit_assign(target, value) == target \o <<Space, "=", Space>> \o value
emit_member(object, member) == object \o <<".", member>>
emit_index(array, index) == array \o <<"[">> \o index \o <<"]">>

\* The C type written for a type.
emit_type(type) ==
  CASE type.kind = "int"    -> Type(type.stars, "longlong", NoName)
    [] type.kind = "bool"   -> Type(type.stars, "int", NoName)
    [] type.kind = "string" -> Type(type.stars + 1, "char", NoName)
    [] OTHER                -> type
=============================================================================
