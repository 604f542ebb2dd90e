------------------------------- MODULE CTypes ------------------------------
(***************************************************************************)
(* The C compiler's expressions (external): each is its tree, the type C   *)
(* gives it in the emitted program, and how many side effects it has.  The *)
(* type may also be that C rejects the expression or that its behaviour is *)
(* undefined.                                                              *)
(***************************************************************************)
EXTENDS TypeRules, Emission

CONSTANTS
  Params,     (* the parameters of each function the sources call           *)
  Wide        (* the integers that no int of C holds                        *)

Rejected == type_new("rejected")
Undefined == type_new("undefined")
Double == type_new("double")
Float == type_new("float")
CInt == type_new("int")
LongLong == type_new("longlong")
SizeT == type_new("size_t")
CharPointer == Type(1, "char", NoName)

Category(type) ==
  CASE IsPtr(type) -> "ptr"
    [] ~IsPtr(type) /\ type.kind \in {"longlong", "size_t", "int", "char"} -> "integer"
    [] ~IsPtr(type) /\ type.kind \in {"float", "double"} -> "floating"
    [] OTHER -> type.kind
Number(type) == Category(type) \in {"integer", "floating"}
Scalar(type) == Number(type) \/ IsPtr(type)
Convertible(from, to) == from = to \/ (Number(from) /\ Number(to)) \/ (IsPtr(from) /\ IsPtr(to))
When(condition, type) == IF condition THEN type ELSE Rejected

Broken == [tree |-> [kind |-> "broken", value |-> <<>>], type |-> Rejected, effects |-> 0]

\* An operand that has no type leaves the whole expression without one.
Node(tree, type, own, operands) ==
  LET types == {operands[n].type : n \in DOMAIN operands}
      below[n \in 0..Len(operands)] == IF n = 0 THEN 0 ELSE below[n - 1] + operands[n].effects
  IN  [tree |-> tree,
       type |-> IF Undefined \in types THEN Undefined
                ELSE IF Rejected \in types THEN Rejected ELSE type,
       effects |-> own + below[Len(operands)]]

LeafType(e) ==
  CASE e.kind = "int"    -> IF e.value[1] \in Wide THEN LongLong ELSE CInt
    [] e.kind = "float"  -> Double
    [] e.kind = "char"   -> CInt
    [] e.kind = "string" -> CharPointer
    [] e.kind = "ident" /\ e.value[1] = "NULL" -> Type(1, "void", NoName)
    [] e.kind = "ident" /\ e.value[1] # "NULL" /\ e.value[1] \in DOMAIN Params ->
         Type(1, "function", NoName)
    [] e.kind = "ident" /\ e.value[1] \in DOMAIN Types \ ({"NULL"} \cup DOMAIN Params) ->
         emit_type(Types[e.value[1]])
    [] OTHER -> Rejected
c_leaf(e) == [tree |-> e, type |-> LeafType(e), effects |-> 0]

\* The usual arithmetic conversions; the promotion is that of one operand.
Common(l, r) ==
  LET both == {l, r} IN
  IF Double \in both THEN Double
  ELSE IF Float \in both THEN Float
  ELSE IF SizeT \in both THEN SizeT
  ELSE IF LongLong \in both THEN LongLong ELSE CInt
Promoted(type) == Common(type, type)

BinaryType(op, l, r) ==
  CASE op \in Logical \cup Comparisons -> When(Scalar(l) /\ Scalar(r), CInt)
    [] op \in Arithmetic /\ Number(l) /\ Number(r) ->
         When(op = "MOD" => Category(l) = "integer" /\ Category(r) = "integer", Common(l, r))
    [] op \in {"ADD", "SUB"} /\ IsPtr(l) -> When(Category(r) = "integer", l)
    [] op = "ADD" /\ IsPtr(r) /\ ~IsPtr(l) -> When(Category(l) = "integer", r)
    [] OTHER -> Rejected
c_binary(op, l, r) ==
  Node(expr_binary(op, l.tree, r.tree), BinaryType(op, l.type, r.type), 0, <<l, r>>)

Lvalue(e) ==
  \/ e.kind = "ident" /\ e.value[1] \notin {"NULL"} \cup DOMAIN Params
  \/ e.kind \in {"member", "index"}
  \/ e.kind = "unary" /\ e.op = "DEREF"

UnaryType(op, e, type) ==
  CASE op = "NEG"     -> When(Number(type), Promoted(type))
    [] op = "BIT_NOT" -> When(Category(type) = "integer", Promoted(type))
    [] op = "NOT"     -> When(Scalar(type), CInt)
    [] op = "CAST"    -> When(Scalar(type), LongLong)
    [] op = "ADDR"    -> When(Lvalue(e), type_ptr(type))
    [] op = "DEREF"   -> When(IsPtr(type), Base(type))
    [] OTHER          -> When(Lvalue(e) /\ Scalar(type), type)
c_unary(op, x) ==
  Node(expr_unary(op, x.tree), UnaryType(op, x.tree, x.type), IF op \in Increments THEN 1 ELSE 0,
       <<x>>)

c_assign(target, value) ==
  Node(expr_assign(target.tree, value.tree),
       When(Lvalue(target.tree) /\ Convertible(value.type, target.type), target.type),
       1, <<target, value>>)

c_member(object, member) ==
  Node(expr_member(object.tree, member),
       LET field == struct_field_type(object.type, member)
       IN  When(field.reports = {}, emit_type(field.type)), 0, <<object>>)

c_index(array, index) ==
  Node(expr_index(array.tree, index.tree),
       When(IsPtr(array.type) /\ Category(index.type) = "integer", Base(array.type)),
       0, <<array, index>>)

\* printf takes what its format says.
PrintfType(format, args) ==
  LET fits(t) ==
        CASE format[2] = "s" -> t = CharPointer
          [] format[2] = "l" -> t = LongLong
          [] format[2] = "g" -> Category(t) = "floating"
  IN  IF Len(args) > 1 /\ fits(args[2].type) THEN CInt ELSE Undefined

\* What the headers declare, and what emit_type writes for the others.
ResultType(name) ==
  CASE name \in Maths -> Double
    [] name = "strlen" -> SizeT
    [] OTHER -> emit_type(check_call(name).type)

CallType(name, args) ==
  IF name = "printf" THEN PrintfType(args[1].tree.value, args)
  ELSE When(/\ Len(args) = Len(Params[name])
            /\ \A n \in DOMAIN args : Convertible(args[n].type, emit_type(Params[name][n])),
            ResultType(name))
c_call(name, args) ==
  Node(expr_call(name, [n \in DOMAIN args |-> args[n].tree]), CallType(name, args), 1, args)
=============================================================================
