----------------------------- MODULE TypeRules -----------------------------
(***************************************************************************)
(* check_expr of compiler/src/typecheck.c: the type it gives an expression *)
(* and what it reports.  A result is a type and the set of the codes       *)
(* reported on the way.                                                    *)
(***************************************************************************)
EXTENDS Syntax

CONSTANTS
  Types,      (* the type of each variable and the result of each function: *)
              (* what lookup finds                                          *)
  Const,      (* the names that are const                                   *)
  Fields      (* the type of each field, for each struct                    *)

Error == type_new("error")

Clean(type) == [type |-> type, reports |-> {}]
Report(code) == [type |-> Error, reports |-> {code}]

\* Two types of the same kind behind as many pointers; structs are not told
\* apart, and what was reported already equals anything it meets on the way.
type_eq(a, b) ==
  \/ a.kind = "error" /\ a.stars <= b.stars
  \/ b.kind = "error" /\ b.stars <= a.stars
  \/ a.kind = b.kind /\ a.stars = b.stars

Arithmetic == {"ADD", "SUB", "MUL", "DIV", "MOD"}
Comparisons == {"EQ", "NE", "LT", "GT", "LE", "GE"}
Logical == {"AND", "OR"}

\* Slip: a float operand does not make the result a float.
check_binary_int(op, lt, rt) ==
  IF op \notin Arithmetic THEN Clean(type_new("bool"))
  ELSE IF {lt, rt} \subseteq {type_new("int"), type_new("float")} THEN Clean(type_new("int"))
  ELSE Report("GHL202")

\* A float makes a float of whatever it meets.
check_binary(op, lt, rt) ==
  CASE op \in Comparisons \cup Logical -> Clean(type_new("bool"))
    [] op \in Arithmetic /\ {lt, rt} = {type_new("int")} -> Clean(type_new("int"))
    [] op \in Arithmetic /\ type_new("float") \in {lt, rt} -> Clean(type_new("float"))
    [] OTHER -> Report("GHL202")

\* Slip: whatever is dereferenced is taken for a pointer.
check_unary_any(op, ot) ==
  CASE op = "NOT"   -> Clean(type_new("bool"))
    [] op = "ADDR"  -> Clean(type_ptr(ot))
    [] op = "DEREF" -> Clean(Base(ot))
    [] OTHER        -> Clean(ot)

check_unary(op, ot) ==
  CASE op = "NOT"   -> Clean(type_new("bool"))
    [] op = "ADDR"  -> Clean(type_ptr(ot))
    [] op = "DEREF" -> IF IsPtr(ot) THEN Clean(Base(ot)) ELSE Report("GHL203")
    [] OTHER        -> Clean(ot)

\* The names check_expr knows by itself, before it looks any up.
Maths == {"sqrt", "sin", "cos", "tan", "pow", "floor", "ceil", "fabs"}
Printing == {"print", "println", "print_int", "print_float"}
Builtins ==
  [n \in Maths \cup Printing \cup {"strlen"} |->
     type_new(IF n \in Maths THEN "float" ELSE IF n \in Printing THEN "void" ELSE "int")]

\* The arguments are not counted, nor their types asked for.
check_call(name) ==
  CASE name \in DOMAIN Builtins -> Clean(Builtins[name])
    [] name \notin DOMAIN Builtins /\ name \in DOMAIN Types -> Clean(Types[name])
    [] OTHER -> Report("GHL205")

check_assign(target, tt, vt) ==
  [type |-> tt,
   reports |->
     (IF target.kind = "ident" /\ target.value[1] \in Const THEN {"GHL206"} ELSE {})
     \cup (IF type_eq(tt, vt) THEN {} ELSE {"GHL201"})]

struct_field_type(ot, member) ==
  IF ot.kind # "struct" \/ IsPtr(ot) THEN Report("GHL210")
  ELSE IF ot.name \notin DOMAIN Fields THEN Report("GHL211")
  ELSE IF member \notin DOMAIN Fields[ot.name] THEN Report("GHL212")
  ELSE Clean(Fields[ot.name][member])

check_index(at) ==
  CASE IsPtr(at)               -> Clean(Base(at))
    [] at = type_new("string") -> Clean(type_new("char"))
    [] OTHER                   -> Report("GHL213")

check_leaf(e) ==
  CASE e.kind = "null"  -> Clean(type_ptr(type_new("void")))
    [] e.kind = "ident" -> IF e.value[1] \in DOMAIN Types THEN Clean(Types[e.value[1]])
                           ELSE Report("GHL102")
    [] OTHER            -> Clean(type_new(e.kind))

\* What check_expr makes of a node, from what it made of the operands.
check_expr(own, operands) ==
  [type |-> own.type,
   reports |-> own.reports \cup UNION {operands[n].reports : n \in DOMAIN operands}]

\* check_stmt: what is reported where an expression of the given result is
\* the initial value of a variable, or what a function returns.
check_var_decl(declared, result) ==
  result.reports \cup (IF type_eq(declared, result.type) THEN {} ELSE {"GHL201"})

check_return(ret_type, result) ==
  result.reports \cup (IF type_eq(ret_type, result.type) THEN {} ELSE {"GHL207"})
=============================================================================
