---------------------------- MODULE Expressions -----------------------------
(***************************************************************************)
(* One expression on its way through the compiler: parser.c builds it from *)
(* the inside out with the constructors of ast.c, check_expr of            *)
(* typecheck.c gives it a type or a report, emit_expr of codegen.c writes  *)
(* it, and the C compiler reads the text again.  Neither the tree nor its  *)
(* type reaches the C compiler: it has only the text.                      *)
(*                                                                         *)
(* check_expr and emit_expr walk over the tree and make of a node what     *)
(* they made of its operands, so an expression is built together with what *)
(* becomes of it: the tree, the result of check_expr, the text, and what   *)
(* the text is meant to be to the C compiler.                              *)
(***************************************************************************)
EXTENDS CReader

CONSTANTS
  Leaves,     (* the literals and names the sources begin with              *)
  Siblings,   (* those that are the other operand or argument               *)
  Operators,  (* the binary operators the sources use                       *)
  Members,    (* the names of fields                                        *)
  Declared,   (* the types variables are declared and functions return      *)
  Habits,     (* which of the constructs in AllHabits they use              *)
  MaxHeight   (* bound on the operators above a leaf                        *)

AllHabits ==
  {"assignment_operand",  (* (a = b) + 1, -(a = b), (a = b) = c             *)
   "postfix_on_prefix",   (* p->a, which is a field of *p, (-a)++, (-a)[i]  *)
   "doubled_prefix",      (* - -a, &(&a)                                    *)
   "float_literal",       (* 7.0, or more digits than %g prints             *)
   "escaped_char",        (* '\n', '\'', '\\'                               *)
   "function_as_value",   (* g + 1, where g is a function                   *)
   "argument_mismatch",   (* arguments the function does not take           *)
   "compound_effect",     (* a[i++] += 1                                    *)
   "other_struct",        (* an S* where a T* is due                        *)
   "literal_arithmetic",  (* 100000 * 100000, - ~7: literals only           *)
   "strlen_operand"}      (* strlen(s) - 8, strlen(s) < -1                  *)

\* The types a source can spell.
Kinds == {"int", "float", "bool", "string", "char", "void"}
IsType(type) ==
  /\ type = Type(type.stars, type.kind, type.name)
  /\ type.stars \in Nat
  /\ type.kind = "struct" \/ (type.kind \in Kinds /\ type.name = NoName)

\* A name is one piece and no number.
IsName(piece) == piece \in Pieces /\ piece \notin Marks \cup Integers \cup Range(Floats)

IsLeaf(e) ==
  \/ \E x \in Integers : e = expr_int(x)
  \/ \E x \in DOMAIN Floats : e = expr_float(x)
  \/ \E x \in {"true", "false"} : e = expr_bool(x)
  \/ e = expr_string(e.value) /\ e.value \in Seq(Pieces)
  \/ e.kind = "char" /\ e = expr_char(e.value[1]) /\ e.value[1] \in Pieces
  \/ e = expr_null
  \/ e.kind = "ident" /\ e = expr_ident(e.value[1]) /\ IsName(e.value[1])

\* What print and its like take.
Printable ==
  [print |-> type_new("string"), println |-> type_new("string"), print_int |-> type_new("int"),
   print_float |-> type_new("float")]

\* Numbers are told apart by their spelling, and the sources leave NULL and
\* printf to C.
ASSUME ExpressionsAssumption ==
  /\ Habits \subseteq AllHabits
  /\ MaxHeight \in Nat
  /\ {"0", "1"} \subseteq Integers /\ {"0", "1"} \cap Wide = {}
  /\ Integers \cup Range(Floats) \cup Marks \cup {"s", "l", "d", "g", "n", "t"} \subseteq Pieces
  /\ Integers \cap DOMAIN Floats = {} /\ (Integers \cup Range(Floats)) \cap Marks = {}
  /\ \A piece \in DOMAIN Params \cup Members \cup {"NULL", "printf"} : IsName(piece)
  /\ "NULL" \notin DOMAIN Types /\ "printf" \notin DOMAIN Params
  /\ \A e \in Leaves : IsLeaf(e)
  /\ Siblings \subseteq Leaves
  /\ Operators \subseteq DOMAIN Binaries
  /\ \A name \in DOMAIN Types : IsType(Types[name])
  /\ \A name \in DOMAIN Fields : \A m \in DOMAIN Fields[name] : IsType(Fields[name][m])
  /\ \A type \in Declared : IsType(type)
  /\ \A name \in DOMAIN Params \cap Printing : Params[name] = <<Printable[name]>>

VARIABLES
  expr,       (* the expression so far                                      *)
  height,     (* operators above its first leaf                             *)
  read,       (* what the C compiler reads in the text codegen_to_c writes  *)
  effects     (* history: the side effects the source spells out            *)

vars == <<expr, height, read, effects>>

\* What the text of a literal and of a call should say.
MeantLeaf(e) ==
  CASE e.kind = "bool" -> expr_int(IF e.value[1] = "true" THEN "1" ELSE "0")
    [] e.kind = "null" -> expr_ident("NULL")
    [] OTHER -> e
MeantFormat ==
  [print |-> <<"%", "s">>, println |-> <<"%", "s", "\n">>,
   print_int |-> <<"%", "l", "l", "d", "\n">>, print_float |-> <<"%", "g", "\n">>]
MeantCall(name, args) ==
  IF name \notin Printing THEN c_call(name, args)
  ELSE c_call("printf", <<c_leaf(expr_string(MeantFormat[name]))>> \o
         [n \in DOMAIN args |->
            IF n = 1 /\ name = "print_int" THEN c_unary("CAST", args[n]) ELSE args[n]])

Leaf(e) ==
  [tree |-> e, checked |-> check_leaf(e), text |-> emit_literal(e), meant |-> c_leaf(MeantLeaf(e))]

Unary(op, x) ==
  [tree |-> expr_unary(op, x.tree),
   checked |-> check_expr(check_unary(op, x.checked.type), <<x.checked>>),
   text |-> emit_unary(op, x.text),
   meant |-> c_unary(op, x.meant)]

Binary(op, l, r) ==
  [tree |-> expr_binary(op, l.tree, r.tree),
   checked |-> check_expr(check_binary(op, l.checked.type, r.checked.type), <<l.checked, r.checked>>),
   text |-> emit_binary(op, l.text, r.text),
   meant |-> c_binary(op, l.meant, r.meant)]

Assign(target, value) ==
  [tree |-> expr_assign(target.tree, value.tree),
   checked |-> check_expr(check_assign(target.tree, target.checked.type, value.checked.type),
                          <<target.checked, value.checked>>),
   text |-> emit_assign(target.text, value.text),
   meant |-> c_assign(target.meant, value.meant)]

Field(object, m) ==
  [tree |-> expr_member(object.tree, m),
   checked |-> check_expr(struct_field_type(object.checked.type, m), <<object.checked>>),
   text |-> emit_member(object.text, m),
   meant |-> c_member(object.meant, m)]

Index(array, index) ==
  [tree |-> expr_index(array.tree, index.tree),
   checked |-> check_expr(check_index(array.checked.type), <<array.checked, index.checked>>),
   text |-> emit_index(array.text, index.text),
   meant |-> c_index(array.meant, index.meant)]

Called(name, args) ==
  [tree |-> expr_call(name, [n \in DOMAIN args |-> args[n].tree]),
   checked |-> check_expr(check_call(name), [n \in DOMAIN args |-> args[n].checked]),
   text |-> emit_call(name, [n \in DOMAIN args |-> args[n].text]),
   meant |-> MeantCall(name, [n \in DOMAIN args |-> args[n].meant])]

\* parse_postfix: a->b.
Arrow(e, m) == Field(Unary("DEREF", e), m)

\* parse_assign: e op= value.  The target is one node with two parents.
Compound(op, e, value) == Assign(e, Binary(op, e, value))
-----------------------------------------------------------------------------
\* codegen_to_c runs if nothing was reported.
Written(e) == IF e.checked.reports = {} THEN CRead(e.text) ELSE Broken

Uses(habit, condition) == condition => habit \in Habits

\* Those the sources use.
Used(leaves) ==
  {e \in leaves :
     /\ Uses("float_literal", e.kind = "float" /\ Floats[e.value[1]] # e.value[1])
     /\ Uses("escaped_char", e.kind = "char" /\ e.value[1] \in {"NUL", "\n", "'", "\\"})
     /\ Uses("function_as_value", e.kind = "ident" /\ e.value[1] \in DOMAIN Params)}

Init ==
  /\ \E e \in Used(Leaves) : expr = Leaf(e)
  /\ height = 0
  /\ read = Written(expr)
  /\ effects = 0

\* The expression gets one operator more around it, doing as much itself.
Grow(e, own) ==
  /\ expr' = e
  /\ read' = Written(e)
  /\ height' = height + 1
  /\ effects' = effects + own

IsAssign == expr.tree.kind = "assign"

\* An int that C has as something else, of the same value: a literal or the
\* sign of one, and the length of a string.
IsLiteral(e) ==
  e.kind = "int" \/ (e.kind = "unary" /\ e.op \in {"NEG", "BIT_NOT"} /\ e.operands[1].kind = "int")
IsLength(e) == e.kind = "call" /\ e.op = "strlen"

\* parse_unary, with the operand in parentheses where it needs them.
Prefix(op) ==
  /\ Uses("assignment_operand", IsAssign)
  /\ Uses("doubled_prefix", Prefixed(expr.tree) /\ <<op, expr.tree.op>> \in
       {<<"NEG", "NEG">>, <<"NEG", "PRE_DEC">>, <<"ADDR", "ADDR">>})
  /\ Uses("literal_arithmetic",
          op \in {"NEG", "BIT_NOT"} /\ IsLiteral(expr.tree) /\ Prefixed(expr.tree))
  /\ Uses("strlen_operand", op \in {"NEG", "BIT_NOT"} /\ IsLength(expr.tree))
  /\ Grow(Unary(op, expr), IF op \in Increments THEN 1 ELSE 0)

\* parse_postfix.
Grown(e, own) ==
  /\ Uses("assignment_operand", IsAssign)
  /\ Uses("postfix_on_prefix", Prefixed(expr.tree))
  /\ Grow(e, own)

Postfix(op) == Grown(Unary(op, expr), 1)
\* a.m, and a->m as the field of *a.
Member(m) ==
  \/ Grown(Field(expr, m), 0)
  \/ "postfix_on_prefix" \in Habits /\ Grown(Arrow(expr, m), 0)
IndexOf(i) == Grown(Index(expr, Leaf(i)), 0)

\* The expression inside the brackets may be any.
IndexBy(a) == Grow(Index(Leaf(a), expr), 0)

Combines(op, s) ==
  /\ Uses("assignment_operand", IsAssign)
  /\ Uses("literal_arithmetic", op \in Arithmetic /\ IsLiteral(expr.tree) /\ s.kind = "int")
  /\ Uses("strlen_operand", IsLength(expr.tree))

BinaryWith(op, s) ==
  /\ Combines(op, s)
  /\ \/ Grow(Binary(op, expr, Leaf(s)), 0)
     \/ Grow(Binary(op, Leaf(s), expr), 0)

AssignTo(t) == Grow(Assign(Leaf(t), expr), 1)
AssignFrom(v) ==
  /\ Uses("assignment_operand", IsAssign)
  /\ Grow(Assign(expr, Leaf(v)), 1)

CompoundAssign(op, v) ==
  /\ Combines(op, v)
  /\ Uses("compound_effect", effects > 0)
  /\ Grow(Compound(op, expr, Leaf(v)), 1)

Call(name, before, after) ==
  LET args == before \o <<expr>> \o after IN
  /\ Uses("argument_mismatch",
          Params[name] # [n \in DOMAIN args |-> args[n].checked.type])
  /\ Uses("assignment_operand", IsAssign /\ name = "print_int")
  /\ Grow(Called(name, args), 1)

Arguments == {<<>>} \cup {<<Leaf(s)>> : s \in Used(Siblings)}

Accepted == expr.checked.reports = {}

Next ==
  /\ height < MaxHeight
  /\ Accepted
  /\ \/ \E op \in PrefixOps : Prefix(op)
     \/ \E op \in PostfixOps : Postfix(op)
     \/ \E m \in Members : Member(m)
     \/ \E s \in Used(Siblings) :
          \/ IndexOf(s) \/ IndexBy(s) \/ AssignTo(s) \/ AssignFrom(s)
          \/ \E op \in Operators : BinaryWith(op, s)
          \/ \E op \in Operators \cap Arithmetic : CompoundAssign(op, s)
     \/ \E name \in DOMAIN Params, before, after \in Arguments : Call(name, before, after)

Spec == Init /\ [][Next]_vars
-----------------------------------------------------------------------------
\* The checker gives every expression a type the source could spell, or
\* reports it.
TypeOK ==
  /\ height \in 0..MaxHeight
  /\ IsType(expr.checked.type) \/ (~Accepted /\ expr.checked.type = Error)
  /\ expr.checked.reports \subseteq
       {"GHL102", "GHL201", "GHL202", "GHL203", "GHL205", "GHL206", "GHL210", "GHL211",
        "GHL212", "GHL213"}
  /\ effects \in 0..MaxHeight

\* The C compiler reads an accepted expression as the tree that was checked,
\* down to the characters of its strings, although emit_expr parenthesises
\* binary expressions only and writes signs next to each other.
SameTree == Accepted => read = expr.meant

\* C stores a value of one type as what it is in the other: a number as a
\* number of its sort, although a double is rounded to a float and an int cut
\* to a char, and never a long long or a length as less than a long long.
SameSort(from, to) ==
  /\ Category(from) = Category(to)
  /\ IsPtr(from) => from = to
  /\ from \in {LongLong, SizeT} => to = LongLong

\* An accepted expression is computed by C, unless C rejects it, as what the
\* checker takes it for: an integer as an integer, a float as a float or a
\* double, and an int in 64 bits, not counting literals and their signs that
\* an int of C holds, and strlen.  None is undefined behaviour by its types,
\* and what a declaration or a return may take, by the checker, keeps its sort.
SameType ==
  Accepted =>
    /\ read.type # Undefined
    /\ read.type # Rejected /\ expr.checked.type # type_new("void")
         => Category(read.type) = Category(emit_type(expr.checked.type))
    /\ expr.checked.type = type_new("int") =>
         \/ read.type \in {Rejected, LongLong}
         \/ read.type = CInt /\ IsLiteral(expr.tree)
         \/ read.type = SizeT /\ IsLength(expr.tree)
    /\ \A declared \in Declared :
         /\ Uses("other_struct", IsPtr(declared) /\ declared.name # expr.checked.type.name)
         /\ {} \in {check_var_decl(declared, expr.checked), check_return(declared, expr.checked)}
         /\ Convertible(read.type, emit_type(declared))
         => SameSort(read.type, emit_type(declared))

\* Every assignment, increment and call the source spells out is in the C
\* code once.
EffectsKept == Accepted => read.effects = effects
=============================================================================
