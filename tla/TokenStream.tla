---------------------------- MODULE TokenStream ----------------------------
(***************************************************************************)
(* What the parser relies on in the lexer: the tokens of a text one after  *)
(* the other, each handed out once, with a look at the next one that       *)
(* changes nothing.  A bad token is reported when it is handed out.        *)
(***************************************************************************)
EXTENDS Sequences

CONSTANTS
  Sources,    (* the texts a program may be                                 *)
  Scan(_, _), (* the next token of a text from a place on, and the place    *)
              (* behind it                                                  *)
  Start,      (* the place where every text begins                          *)
  NoToken     (* what the parser has before its first token                 *)

VARIABLES
  text,       (* the source                                                 *)
  place,      (* the place behind the last token handed out                 *)
  current,    (* the last token handed out                                  *)
  shown,      (* the last token looked at                                   *)
  reported    (* where the reports so far begin                             *)

vars == <<text, place, current, shown, reported>>

Init ==
  /\ text \in Sources
  /\ place = Start
  /\ current = NoToken
  /\ shown = NoToken
  /\ reported = <<>>

\* The report a token comes with, if any.
Reports(token) == IF token.kind = "ERROR" THEN <<token.from>> ELSE <<>>

Take ==
  \E next \in {Scan(text, place)} :
    /\ current' = next.token
    /\ place' = next.place
    /\ reported' = reported \o Reports(next.token)
    /\ UNCHANGED <<text, shown>>

Look ==
  /\ shown' = Scan(text, place).token
  /\ UNCHANGED <<text, place, current, reported>>

Next == Take \/ Look

Spec == Init /\ [][Next]_vars
=============================================================================
