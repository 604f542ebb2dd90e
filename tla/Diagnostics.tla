---------------------------- MODULE Diagnostics ----------------------------
(***************************************************************************)
(* The diagnostic engine of compiler/src/diagnostics.c: a singly linked    *)
(* list with a head and a tail pointer, and two counters.  Every stage of  *)
(* the compiler reports into it and asks it whether to go on.              *)
(*                                                                         *)
(* A pointer is an index into heap, the nodes in the order calloc returned *)
(* them; Nil is NULL.  Message formatting, locations and the layout of     *)
(* the print-out are left out.  calloc and strdup may fail.                *)
(*                                                                         *)
(* Here and in the other modules, a definition marked "Slip" is a mistake  *)
(* the code could have and does not; no specification uses it.             *)
(***************************************************************************)
EXTENDS Naturals, Sequences

CONSTANTS
  Codes,             (* diagnostic codes                                    *)
  NoHelp,            (* a NULL help pointer                                 *)
  MaxCalls           (* bound on the calls made to one engine               *)

ASSUME DiagAssumption ==
  /\ NoHelp \notin Codes
  /\ MaxCalls \in Nat

VARIABLES
  heap,           (* the nodes calloc returned and diag_free has not freed  *)
  head, tail,     (* DiagnosticEngine.head and .tail                        *)
  error_count,
  warning_count,
  warnings_as_errors,
  no_warnings,
  asked,          (* history: the code of the last diagnostic asked for     *)
  failures,       (* history: calls whose diagnostic calloc failed          *)
  freed,          (* history: diag_free has run                             *)
  calls           (* number of calls made, bounded by MaxCalls              *)

options == <<warnings_as_errors, no_warnings>>

vars == <<heap, head, tail, error_count, warning_count, options, asked,
          failures, freed, calls>>

Nil == 0
Levels == {"DIAG_ERROR", "DIAG_WARNING", "DIAG_NOTE"}

Init ==
  /\ heap = <<>>
  /\ head = Nil /\ tail = Nil
  /\ error_count = 0 /\ warning_count = 0
  /\ warnings_as_errors = FALSE /\ no_warnings = FALSE
  /\ asked = NoHelp
  /\ failures = 0
  /\ freed = FALSE
  /\ calls = 0

Call ==
  /\ ~freed
  /\ calls < MaxCalls
  /\ calls' = calls + 1

\* The owner of the engine sets its public option fields before it reports
\* anything.  compile_file leaves them as diag_init set them.
SetOptions ==
  /\ calls = 0
  /\ warnings_as_errors' \in BOOLEAN
  /\ no_warnings' \in BOOLEAN
  /\ UNCHANGED <<heap, head, tail, error_count, warning_count, asked, failures,
                 freed, calls>>

\* diag_new: the node calloc returned, not linked yet.
NewNode(level, code) ==
  [level |-> level, code |-> code, help |-> NoHelp, source_line |-> NoHelp,
   next |-> Nil]

\* Slip: the new node is put in front of the list.
Push_front(d) ==
  LET this == Len(heap) + 1
  IN  /\ heap' = Append(heap, [d EXCEPT !.next = head])
      /\ head' = this
      /\ tail' = IF head = Nil THEN this ELSE tail

\* diag_push of a new node d: linked behind the tail, or made the head.
Push(d) ==
  LET this == Len(heap) + 1
      linked == IF head = Nil THEN heap ELSE [heap EXCEPT ![tail].next = this]
  IN  /\ heap' = Append(linked, d)
      /\ head' = IF head = Nil THEN this ELSE head
      /\ tail' = this

\* diag_new returned NULL: the caller returns without reporting anything.
Lost ==
  /\ failures' = failures + 1
  /\ UNCHANGED <<heap, head, tail, error_count, warning_count>>

diag_error(code) ==
  /\ Call
  /\ asked' = code
  /\ UNCHANGED <<options, freed>>
  /\ \/ /\ Push(NewNode("DIAG_ERROR", code))
        /\ error_count' = error_count + 1
        /\ UNCHANGED <<warning_count, failures>>
     \/ Lost

\* Slip: the option changes the counter and not the level.
WarningLevel_fixed == "DIAG_WARNING"

WarningLevel == IF warnings_as_errors THEN "DIAG_ERROR" ELSE "DIAG_WARNING"

\* A suppressed warning returns before anything is allocated.
diag_warning(code) ==
  /\ Call
  /\ asked' = code
  /\ UNCHANGED <<options, freed>>
  /\ \/ /\ no_warnings
        /\ UNCHANGED <<heap, head, tail, error_count, warning_count, failures>>
     \/ /\ ~no_warnings
        /\ Push(NewNode(WarningLevel, code))
        /\ error_count' = error_count + (IF warnings_as_errors THEN 1 ELSE 0)
        /\ warning_count' = warning_count + (IF warnings_as_errors THEN 0 ELSE 1)
        /\ UNCHANGED failures
     \/ ~no_warnings /\ Lost

diag_note(code) ==
  /\ Call
  /\ asked' = code
  /\ UNCHANGED <<options, freed>>
  /\ \/ /\ Push(NewNode("DIAG_NOTE", code))
        /\ UNCHANGED <<error_count, warning_count, failures>>
     \/ Lost

\* Slip: the text goes to the oldest diagnostic.
Annotate_head(field) ==
  /\ Call
  /\ asked # NoHelp
  /\ head # Nil
  /\ heap' = [heap EXCEPT ![head][field] = asked]
  /\ UNCHANGED <<head, tail, error_count, warning_count, options, asked,
                 failures, freed>>

\* diag_help and diag_set_source annotate whatever the tail is.  Callers
\* annotate the diagnostic they just asked for, so the text is named by that
\* diagnostic's code; if strdup fails the tail is left without a text.
Annotate(field) ==
  /\ Call
  /\ asked # NoHelp
  /\ \/ /\ tail = Nil
        /\ UNCHANGED heap
     \/ /\ tail # Nil
        /\ \E text \in {asked, NoHelp} :
             heap' = [heap EXCEPT ![tail][field] = text]
  /\ UNCHANGED <<head, tail, error_count, warning_count, options, asked,
                 failures, freed>>

diag_help == Annotate("help")
diag_set_source == Annotate("source_line")

\* Slip: diag_free leaves the tail pointer behind.
diag_free_keeps_tail ==
  /\ Call
  /\ heap' = <<>>
  /\ head' = Nil
  /\ freed' = TRUE
  /\ UNCHANGED <<tail, error_count, warning_count, options, asked, failures>>

\* diag_free: the list goes, the counters stay.
diag_free ==
  /\ Call
  /\ heap' = <<>>
  /\ head' = Nil /\ tail' = Nil
  /\ freed' = TRUE
  /\ UNCHANGED <<error_count, warning_count, options, asked, failures>>

Next ==
  \/ SetOptions
  \/ \E code \in Codes : diag_error(code) \/ diag_warning(code) \/ diag_note(code)
  \/ diag_help
  \/ diag_set_source
  \/ diag_free

Spec == Init /\ [][Next]_vars

diag_has_errors == error_count > 0

-----------------------------------------------------------------------------
(* The list as diag_print_all walks it: from head along next until NULL.    *)
(* A list of n nodes is walked in n steps at most.                          *)
Printed ==
  LET walk[k \in 0..Len(heap)] ==
        IF k = 0 THEN [at |-> head, out |-> <<>>]
        ELSE LET w == walk[k - 1]
             IN  IF w.at = Nil THEN w
                 ELSE [at  |-> heap[w.at].next,
                       out |-> Append(w.out, [level |-> heap[w.at].level,
                                              code  |-> heap[w.at].code,
                                              help  |-> heap[w.at].help])]
  IN  walk[Len(heap)].out

Log == INSTANCE DiagLog WITH log <- Printed
-----------------------------------------------------------------------------

Node ==
  [level : Levels, code : Codes, help : Codes \cup {NoHelp},
   source_line : Codes \cup {NoHelp}, next : Nat]

TypeOK ==
  /\ heap \in Seq(Node)
  /\ head \in 0..Len(heap)
  /\ tail \in 0..Len(heap)
  /\ error_count \in Nat
  /\ warning_count \in Nat
  /\ options \in BOOLEAN \X BOOLEAN
  /\ asked \in Codes \cup {NoHelp}
  /\ failures \in Nat
  /\ freed \in BOOLEAN
  /\ calls \in 0..MaxCalls

\* The linked list is the log every stage assumes: each call adds one entry
\* at the end, explains the newest entry, empties the log, or does nothing
\* (diag_push and diag_help of diagnostics.c against DiagLog).
ImplementsLog == Log!Spec

\* The list holds every node allocated, in the order of allocation, and ends
\* in NULL: no diagnostic is cut off, doubled or put on a cycle.
ListShape ==
  /\ head = IF heap = <<>> THEN Nil ELSE 1
  /\ tail = Len(heap)
  /\ \A i \in 1..Len(heap) : heap[i].next = IF i = Len(heap) THEN Nil ELSE i + 1

\* diag_has_errors, on which compile_file decides whether to go on, is true
\* exactly when the list that will be printed holds an error.
HasErrorsExact ==
  ~freed => (diag_has_errors <=>
               \E i \in 1..Len(heap) : heap[i].level = "DIAG_ERROR")

\* As long as every diagnostic asked for is reported (calloc delivers and no
\* warning is suppressed), a help text or a source line is printed under the
\* diagnostic it was written for and under no other one, although diag_help
\* and diag_set_source are not told which diagnostic that is.
AnnotationsMatch ==
  (failures = 0 /\ ~no_warnings) =>
    \A i \in 1..Len(heap) :
      {heap[i].help, heap[i].source_line} \subseteq {NoHelp, heap[i].code}
=============================================================================
