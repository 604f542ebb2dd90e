--------------------------- MODULE MCDiagnostics ---------------------------
(* Diagnostics on a small instance for TLC.                                *)
EXTENDS Diagnostics
=============================================================================
