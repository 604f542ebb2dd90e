------------------------------ MODULE MCArena ------------------------------
(* Arena on a small instance for TLC: a buffer of 20 bytes and requests on  *)
(* both sides of a multiple of 8, one of them several times the buffer.     *)
EXTENDS Arena
=============================================================================
