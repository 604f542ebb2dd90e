------------------------------- MODULE Syntax -------------------------------
(***************************************************************************)
(* The expressions and types of compiler/include/ast.h and the constructors*)
(* of compiler/src/ast.c, without source locations and the arena.  An      *)
(* expression is a record with its kind; a type is what is at the end of   *)
(* its chain of pointers and how many there are: int** is "int" with two   *)
(* stars.  The name is that of a struct; the others have none.             *)
(***************************************************************************)
EXTENDS Naturals, Sequences

\* What the literal spells: a number is its text, a string its characters.
expr_int(text) == [kind |-> "int", value |-> <<text>>]
expr_float(text) == [kind |-> "float", value |-> <<text>>]
expr_bool(text) == [kind |-> "bool", value |-> <<text>>]
expr_string(chars) == [kind |-> "string", value |-> chars]
expr_char(char) == [kind |-> "char", value |-> <<char>>]
expr_null == [kind |-> "null", value |-> <<>>]
expr_ident(name) == [kind |-> "ident", value |-> <<name>>]

expr_unary(op, operand) == [kind |-> "unary", op |-> op, operands |-> <<operand>>]
expr_binary(op, l, r) == [kind |-> "binary", op |-> op, operands |-> <<l, r>>]
expr_assign(target, value) == [kind |-> "assign", op |-> "=", operands |-> <<target, value>>]
expr_member(object, member) == [kind |-> "member", op |-> member, operands |-> <<object>>]
expr_index(array, index) == [kind |-> "index", op |-> "[]", operands |-> <<array, index>>]
expr_call(name, args) == [kind |-> "call", op |-> name, operands |-> args]

PrefixOps == {"NEG", "NOT", "BIT_NOT", "ADDR", "DEREF", "PRE_INC", "PRE_DEC"}
PostfixOps == {"POST_INC", "POST_DEC"}
Increments == {"PRE_INC", "PRE_DEC"} \cup PostfixOps

Prefixed(e) == e.kind = "unary" /\ e.op \in PrefixOps

Type(stars, kind, name) == [stars |-> stars, kind |-> kind, name |-> name]
NoName == ""
type_new(kind) == Type(0, kind, NoName)
type_struct(name) == Type(0, "struct", name)
type_ptr(base) == Type(base.stars + 1, base.kind, base.name)
IsPtr(type) == type.stars > 0
Base(type) == Type(type.stars - 1, type.kind, type.name)
=============================================================================
