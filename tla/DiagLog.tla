------------------------------ MODULE DiagLog ------------------------------
(***************************************************************************)
(* What the rest of the compiler may assume of the diagnostic engine: an   *)
(* ordered log of diagnostics, each with at most one help text, that grows *)
(* at its end and is emptied as a whole.  Only the newest entry can be     *)
(* given a help text.                                                      *)
(***************************************************************************)
EXTENDS Naturals, Sequences

CONSTANTS
  Codes,     (* diagnostic codes ("GHL101", ...)                            *)
  Levels,    (* severities of a diagnostic                                  *)
  NoHelp     (* the help text of a diagnostic that was given none           *)

VARIABLE log

Entry == [level : Levels, code : Codes, help : Codes \cup {NoHelp}]

Init == log = <<>>

\* A diagnostic is reported: it becomes the last entry.
Report(level, code) ==
  log' = Append(log, [level |-> level, code |-> code, help |-> NoHelp])

\* The newest entry gets a help text, or loses the one it had.
Explain(help) ==
  /\ log # <<>>
  /\ log' = [log EXCEPT ![Len(log)].help = help]

\* The compilation ends and every entry goes.
Discard == log' = <<>>

Next ==
  \/ \E level \in Levels, code \in Codes : Report(level, code)
  \/ \E help \in Codes \cup {NoHelp} : Explain(help)
  \/ Discard

Spec == Init /\ [][Next]_log
=============================================================================
