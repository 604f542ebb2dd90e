--------------------------- MODULE MCExpressions ----------------------------
(* Expressions on a small instance for TLC.                                  *)
EXTENDS Expressions

I == type_new("int")
F == type_new("float")
S == type_struct("S")

MCTypes == [i |-> I, f |-> F, b |-> type_new("bool"), t |-> type_new("string"), p |-> type_ptr(I),
            s |-> S, q |-> type_ptr(S), r |-> type_struct("T"), k |-> I, g |-> I]
MCConst == {"k", "g"}
MCFields == [S |-> [m |-> I, n |-> type_ptr(S)], T |-> [m |-> F]]
MCParams == [print |-> <<type_new("string")>>, println |-> <<type_new("string")>>,
             print_int |-> <<I>>, print_float |-> <<F>>, g |-> <<I, F>>, sqrt |-> <<F>>,
             strlen |-> <<type_new("string")>>]
MCDeclared ==
  LET bases == {I, F, S, type_struct("T")} IN
  bases \cup {type_ptr(t) : t \in bases \cup {type_ptr(I), type_new("void")}}
  \cup {type_new(k) : k \in {"bool", "char", "string"}}
MCIntegers == {"0", "1", "7", "3000000000"}
MCWide == {"3000000000"}
MCFloats == ("0.5" :> "0.5") @@ ("7.0" :> "7") @@ ("1.2345678" :> "1.23457")

MCPieces ==
  Marks \cup MCIntegers \cup Range(MCFloats) \cup DOMAIN MCTypes \cup DOMAIN MCParams
  \cup {"m", "o", "unknown", "NULL", "printf", "NUL", "s", "l", "d", "g", "n", "t"}

MCSiblings == {expr_ident("i"), expr_ident("p"), expr_int("7")}
MCStrings == {<<>>, <<"\\", "n">>, <<"\n", Quote>>}
MCLeaves ==
  {expr_ident(n) : n \in DOMAIN MCTypes \cup {"unknown"}}
  \cup {expr_int("7"), expr_int("3000000000"), expr_bool("true"), expr_null}
  \cup {expr_float(x) : x \in DOMAIN MCFloats}
  \cup {expr_char(c) : c \in {"n", "NUL", "\n", "'", "\\"}}
  \cup {expr_string(chars) : chars \in MCStrings}
=============================================================================
