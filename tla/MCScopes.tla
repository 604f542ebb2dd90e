------------------------------ MODULE MCScopes ------------------------------
(* Scopes on a small instance for TLC.                                       *)
EXTENDS Scopes
=============================================================================
