------------------------------ MODULE MCParser ------------------------------
(* Parser on files over small sets of token kinds for TLC.                  *)
EXTENDS Parser
=============================================================================
