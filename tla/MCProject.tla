----------------------------- MODULE MCProject ------------------------------
(* Project on a small instance for TLC.                                      *)
EXTENDS Project
=============================================================================
