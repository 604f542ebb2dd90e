------------------------------ MODULE MCCText -------------------------------
(* CText on a small instance for TLC.                                        *)
EXTENDS CText

StructNames == {"S", "T"}
FuncNames == {"f", "T", "abs"}
StructDefs == [name : StructNames, types : {<<>>, <<"S">>}]
FuncDefs == [name : FuncNames, types : {<<>>, <<"S">>},
             calls : {<<>>} \cup {<<n>> : n \in {"f", "T"}}]

MCFiles ==
  {[structs |-> ss, funcs |-> fs] :
     ss \in {<<>>} \cup {<<d>> : d \in StructDefs}, fs \in {<<>>} \cup {<<d>> : d \in FuncDefs}}

MCNames == StructNames \cup FuncNames \cup Range(Headers)
MCLibrary == [h \in Range(Headers) |-> IF h = "stdlib.h" THEN {"abs"} ELSE {}]
Tokens == {Token(k, n) : k \in Kinds, n \in MCNames} \cup {Token("digit", "")}
MCPieces == {<<t>> : t \in Tokens}
MCNumbers == {Literal}
MCCapacities == {2, 4, 8, 16, 32}
=============================================================================
