------------------------- MODULE DiagnosticsProofs -------------------------
(***************************************************************************)
(* Proofs about Diagnostics, for every set of codes and any number of      *)
(* calls: the list is never damaged, diag_has_errors is exact, and every   *)
(* annotation is under the diagnostic it was written for.                  *)
(***************************************************************************)
EXTENDS Diagnostics, SequenceTheorems, FiniteSetTheorems, WellFoundedInduction, TLAPS

(* The strengthening for the annotations: diag_help writes to the tail, so  *)
(* the tail has to be the diagnostic that was asked for last.  The options  *)
(* can only change while the list is empty.                                 *)
TailIsAsked ==
  /\ (failures = 0 /\ ~no_warnings /\ heap # <<>>) => heap[Len(heap)].code = asked
  /\ calls = 0 => heap = <<>>

IInv ==
  /\ TypeOK
  /\ ListShape
  /\ HasErrorsExact
  /\ AnnotationsMatch
  /\ TailIsAsked

-----------------------------------------------------------------------------
\* A sequence with one field of its last element replaced.
LEMMA LastField ==
  ASSUME NEW s \in Seq(Node), s # <<>>, NEW r \in Node,
         NEW t, t = [s EXCEPT ![Len(s)] = r]
  PROVE  /\ t \in Seq(Node) /\ Len(t) = Len(s)
         /\ \A i \in 1..Len(s) : t[i] = IF i = Len(s) THEN r ELSE s[i]
<1>1. Len(s) \in 1..Len(s)
  OBVIOUS
<1> QED BY <1>1, ExceptSeq

\* Reporting a diagnostic puts it behind an otherwise unchanged list.
LEMMA PushKeeps ==
  ASSUME IInv, NEW level \in Levels, NEW code \in Codes,
         Push(NewNode(level, code))
  PROVE  /\ heap' \in Seq(Node) /\ Len(heap') = Len(heap) + 1
         /\ heap' # <<>>
         /\ head' \in 0..Len(heap') /\ tail' \in 0..Len(heap')
         /\ ListShape'
         /\ heap'[Len(heap')] = NewNode(level, code)
         /\ \A i \in 1..Len(heap) :
              /\ heap'[i].level = heap[i].level
              /\ heap'[i].code = heap[i].code
              /\ heap'[i].help = heap[i].help
              /\ heap'[i].source_line = heap[i].source_line
<1> DEFINE d == NewNode(level, code)
           this == Len(heap) + 1
           linked == IF head = Nil THEN heap ELSE [heap EXCEPT ![tail].next = this]
<1>1. heap \in Seq(Node) /\ Len(heap) \in Nat /\ tail = Len(heap)
      /\ head = (IF heap = <<>> THEN Nil ELSE 1)
      /\ \A i \in 1..Len(heap) : heap[i].next = IF i = Len(heap) THEN Nil ELSE i + 1
  BY DEF IInv, TypeOK, ListShape
<1>2. d \in Node /\ d.next = Nil
  BY DEF NewNode, Node, Nil
<1>3. heap' = Append(linked, d) /\ tail' = this
      /\ head' = (IF head = Nil THEN this ELSE head)
  BY DEF Push
<1>4. /\ linked \in Seq(Node) /\ Len(linked) = Len(heap)
      /\ \A i \in 1..Len(heap) :
           /\ linked[i].next = i + 1
           /\ linked[i].level = heap[i].level
           /\ linked[i].code = heap[i].code
           /\ linked[i].help = heap[i].help
           /\ linked[i].source_line = heap[i].source_line
  <2>1. CASE heap = <<>>
    BY <2>1, <1>1
  <2>2. CASE heap # <<>>
    <3> DEFINE r == [heap[Len(heap)] EXCEPT !.next = this]
    <3>1. Len(heap) \in 1..Len(heap) /\ heap[Len(heap)] \in Node
      BY <2>2, <1>1
    <3>2. /\ r \in Node /\ r.next = this
          /\ r.level = heap[Len(heap)].level /\ r.code = heap[Len(heap)].code
          /\ r.help = heap[Len(heap)].help
          /\ r.source_line = heap[Len(heap)].source_line
      <4>1. this \in Nat
        BY <1>1
      <4> HIDE DEF this
      <4> QED BY <3>1, <4>1 DEF Node
    <3>3. linked = [heap EXCEPT ![Len(heap)] = r]
      BY <2>2, <1>1 DEF Nil
    <3>4. /\ linked \in Seq(Node) /\ Len(linked) = Len(heap)
          /\ \A i \in 1..Len(heap) :
               linked[i] = IF i = Len(heap) THEN r ELSE heap[i]
      <4> HIDE DEF linked, r
      <4> QED BY <2>2, <3>2, <3>3, <1>1, LastField
    <3> HIDE DEF linked, r
    <3> QED BY <3>2, <3>4, <1>1
  <2> QED BY <2>1, <2>2
<1> HIDE DEF linked, d
<1>5. /\ heap' \in Seq(Node) /\ Len(heap') = this
      /\ heap'[this] = d /\ \A i \in 1..Len(heap) : heap'[i] = linked[i]
  BY <1>1, <1>2, <1>3, <1>4
<1>6. heap' # <<>>
  BY <1>5, <1>1
<1>7. head' = 1
  BY <1>1, <1>3 DEF Nil
<1>8. \A i \in 1..Len(heap') :
        heap'[i].next = IF i = Len(heap') THEN Nil ELSE i + 1
  <2> SUFFICES ASSUME NEW i \in 1..Len(heap')
               PROVE  heap'[i].next = IF i = Len(heap') THEN Nil ELSE i + 1
    OBVIOUS
  <2>1. CASE i = this
    BY <2>1, <1>5, <1>2
  <2>2. CASE i \in 1..Len(heap)
    BY <2>2, <1>5, <1>4, <1>1
  <2> QED BY <2>1, <2>2, <1>5, <1>1
<1>9. ListShape'
  BY <1>3, <1>5, <1>6, <1>7, <1>8 DEF ListShape
<1>10. \A i \in 1..Len(heap) :
         /\ heap'[i].level = heap[i].level
         /\ heap'[i].code = heap[i].code
         /\ heap'[i].help = heap[i].help
         /\ heap'[i].source_line = heap[i].source_line
  BY <1>4, <1>5
<1> QED BY <1>1, <1>3, <1>5, <1>6, <1>7, <1>9, <1>10 DEF d

\* Annotating the tail changes one text of the last node and nothing else.
LEMMA AnnotateKeeps ==
  ASSUME IInv, NEW field \in {"help", "source_line"}, Annotate(field)
  PROVE  /\ heap' \in Seq(Node) /\ Len(heap') = Len(heap)
         /\ heap' = <<>> <=> heap = <<>>
         /\ \A i \in 1..Len(heap) :
              /\ heap'[i].next = heap[i].next
              /\ heap'[i].level = heap[i].level
              /\ heap'[i].code = heap[i].code
              /\ {heap'[i].help, heap'[i].source_line} \subseteq
                   {heap[i].help, heap[i].source_line, NoHelp}
                     \cup (IF i = Len(heap) THEN {asked} ELSE {})
<1>1. heap \in Seq(Node) /\ Len(heap) \in Nat /\ tail = Len(heap)
  BY DEF IInv, TypeOK, ListShape
<1>2. CASE tail = Nil
  BY <1>1, <1>2 DEF Annotate, Nil
<1>3. CASE tail # Nil
  <2>1. heap # <<>> /\ Len(heap) \in 1..Len(heap) /\ heap[Len(heap)] \in Node
    BY <1>1, <1>3 DEF Nil
  <2>2. PICK text \in {asked, NoHelp} : heap' = [heap EXCEPT ![tail][field] = text]
    BY <1>3 DEF Annotate
  <2> DEFINE r == [heap[Len(heap)] EXCEPT ![field] = text]
  <2>3. heap' = [heap EXCEPT ![Len(heap)] = r]
    BY <1>1, <2>2
  <2>4. text \in Codes \cup {NoHelp}
    BY <2>2 DEF IInv, TypeOK
  <2>5. /\ r \in Node /\ r.next = heap[Len(heap)].next
        /\ r.level = heap[Len(heap)].level /\ r.code = heap[Len(heap)].code
        /\ {r.help, r.source_line} \subseteq
             {heap[Len(heap)].help, heap[Len(heap)].source_line, text}
    <3>1. CASE field = "help"
      BY <3>1, <2>1, <2>4 DEF Node
    <3>2. CASE field = "source_line"
      BY <3>2, <2>1, <2>4 DEF Node
    <3> QED BY <3>1, <3>2
  <2> HIDE DEF r
  <2>6. /\ heap' \in Seq(Node) /\ Len(heap') = Len(heap)
        /\ \A i \in 1..Len(heap) : heap'[i] = IF i = Len(heap) THEN r ELSE heap[i]
    BY <1>1, <2>1, <2>3, <2>5, LastField
  <2>7. heap' # <<>>
    BY <2>1, <2>6, <1>1
  <2> QED BY <2>1, <2>2, <2>5, <2>6, <2>7
<1> QED BY <1>2, <1>3

-----------------------------------------------------------------------------
\* diag_init establishes the invariant.
LEMMA InitIInv == Init => IInv
<1> SUFFICES ASSUME Init PROVE IInv
  OBVIOUS
<1>1. heap = <<>> /\ heap \in Seq(Node) /\ Len(heap) = 0
  BY DEF Init
<1>2. TypeOK
  <2>1. freed \in BOOLEAN /\ options \in BOOLEAN \X BOOLEAN
    BY DEF Init, options
  <2>2. /\ head \in 0..Len(heap) /\ tail \in 0..Len(heap)
        /\ error_count \in Nat /\ warning_count \in Nat /\ failures \in Nat
        /\ calls \in 0..MaxCalls
    BY <1>1, DiagAssumption DEF Init, Nil
  <2> QED BY <1>1, <2>1, <2>2 DEF Init, TypeOK
<1>3. ListShape /\ AnnotationsMatch /\ TailIsAsked
  BY <1>1 DEF Init, ListShape, AnnotationsMatch, TailIsAsked, Nil
<1>4. HasErrorsExact
  BY <1>1 DEF Init, HasErrorsExact, diag_has_errors
<1> QED BY <1>2, <1>3, <1>4 DEF IInv

\* What a report that finds memory does to the invariant: the error counter
\* has to follow the level of the new diagnostic.
LEMMA ReportKeeps ==
  ASSUME IInv, NEW level \in Levels, NEW code \in Codes,
         Call, Push(NewNode(level, code)), asked' = code,
         UNCHANGED <<options, freed, failures>>,
         error_count' = error_count + (IF level = "DIAG_ERROR" THEN 1 ELSE 0),
         warning_count' \in Nat
  PROVE  IInv'
<1> DEFINE d == NewNode(level, code)
<1>1. /\ heap \in Seq(Node) /\ Len(heap) \in Nat /\ error_count \in Nat
      /\ ~freed /\ ~freed' /\ calls' = calls + 1 /\ calls' \in 0..MaxCalls
      /\ calls' # 0
  BY DiagAssumption DEF IInv, TypeOK, Call, options
<1>2. /\ heap' \in Seq(Node) /\ Len(heap') = Len(heap) + 1 /\ heap' # <<>>
      /\ head' \in 0..Len(heap') /\ tail' \in 0..Len(heap')
      /\ ListShape'
      /\ heap'[Len(heap')] = d
      /\ \A i \in 1..Len(heap) :
           /\ heap'[i].level = heap[i].level
           /\ heap'[i].code = heap[i].code
           /\ heap'[i].help = heap[i].help
           /\ heap'[i].source_line = heap[i].source_line
  BY PushKeeps
<1>3. d.level = level /\ d.code = code /\ d.help = NoHelp /\ d.source_line = NoHelp
  BY DEF NewNode
<1> HIDE DEF d
<1>4. TypeOK'
  BY <1>1, <1>2 DEF IInv, TypeOK, options
<1>5. \A i \in 1..Len(heap') : i \in 1..Len(heap) \/ i = Len(heap')
  BY <1>1, <1>2
<1>6. HasErrorsExact'
  <2>1. CASE level = "DIAG_ERROR"
    <3>1. error_count' > 0 /\ Len(heap') \in 1..Len(heap')
      BY <2>1, <1>1, <1>2
    <3> QED BY <3>1, <2>1, <1>2, <1>3 DEF HasErrorsExact, diag_has_errors
  <2>2. CASE level # "DIAG_ERROR"
    <3>1. error_count' = error_count
      BY <2>2, <1>1
    <3>2. (\E i \in 1..Len(heap') : heap'[i].level = "DIAG_ERROR")
            <=> \E i \in 1..Len(heap) : heap[i].level = "DIAG_ERROR"
      <4>1. heap'[Len(heap')].level # "DIAG_ERROR"
        BY <2>2, <1>2, <1>3
      <4>2. \A i \in 1..Len(heap) : i \in 1..Len(heap')
        BY <1>1, <1>2
      <4> QED BY <4>1, <4>2, <1>2, <1>5
    <3> QED BY <3>1, <3>2, <1>1 DEF IInv, HasErrorsExact, diag_has_errors
  <2> QED BY <2>1, <2>2
<1>7. AnnotationsMatch'
  <2> SUFFICES ASSUME failures' = 0, ~no_warnings', NEW i \in 1..Len(heap')
               PROVE  {heap'[i].help, heap'[i].source_line}
                        \subseteq {NoHelp, heap'[i].code}
    BY DEF AnnotationsMatch
  <2>1. CASE i = Len(heap')
    BY <2>1, <1>2, <1>3
  <2>2. CASE i \in 1..Len(heap)
    <3>1. failures = 0 /\ ~no_warnings
      BY DEF options
    <3>2. {heap[i].help, heap[i].source_line} \subseteq {NoHelp, heap[i].code}
      BY <3>1, <2>2 DEF IInv, AnnotationsMatch
    <3> QED BY <3>2, <2>2, <1>2
  <2> QED BY <2>1, <2>2, <1>5
<1>8. TailIsAsked'
  BY <1>1, <1>2, <1>3 DEF TailIsAsked
<1> QED BY <1>2, <1>4, <1>6, <1>7, <1>8 DEF IInv

\* What a report that finds no memory does to it.
LEMMA LostKeeps ==
  ASSUME IInv, NEW code \in Codes, Call, Lost, asked' = code,
         UNCHANGED <<options, freed>>
  PROVE  IInv'
<1>1. /\ failures \in Nat /\ failures' = failures + 1 /\ failures' # 0
      /\ calls' \in 0..MaxCalls /\ calls' # 0
  BY DiagAssumption DEF IInv, TypeOK, Call, Lost
<1>2. UNCHANGED <<heap, head, tail, error_count, warning_count>>
  BY DEF Lost
<1> QED BY <1>1, <1>2
        DEF IInv, TypeOK, ListShape, HasErrorsExact, AnnotationsMatch,
            TailIsAsked, diag_has_errors, options

\* Every call of the engine keeps the invariant.
LEMMA StepIInv == IInv /\ [Next]_vars => IInv'
<1> SUFFICES ASSUME IInv, [Next]_vars PROVE IInv'
  OBVIOUS
<1>1. ASSUME SetOptions PROVE IInv'
  <2>1. heap = <<>>
    BY <1>1 DEF IInv, TailIsAsked, SetOptions
  <2> QED BY <1>1, <2>1
          DEF IInv, TypeOK, ListShape, HasErrorsExact, AnnotationsMatch,
              TailIsAsked, diag_has_errors, options, SetOptions
<1>2. ASSUME NEW code \in Codes, diag_error(code) PROVE IInv'
  <2>1. CASE Lost
    BY <1>2, <2>1, LostKeeps DEF diag_error
  <2>2. CASE ~Lost
    <3>1. Push(NewNode("DIAG_ERROR", code)) /\ error_count' = error_count + 1
          /\ UNCHANGED <<warning_count, failures>>
      BY <1>2, <2>2 DEF diag_error
    <3>2. Call /\ asked' = code /\ UNCHANGED <<options, freed, failures>>
          /\ warning_count' \in Nat /\ "DIAG_ERROR" \in Levels
      BY <1>2, <3>1 DEF diag_error, IInv, TypeOK, Levels
    <3> QED BY <3>1, <3>2, ReportKeeps
  <2> QED BY <2>1, <2>2
<1>3. ASSUME NEW code \in Codes, diag_warning(code) PROVE IInv'
  <2>1. CASE no_warnings
    <3>1. /\ UNCHANGED <<heap, head, tail, error_count, warning_count, failures,
                         options, freed>>
          /\ no_warnings' /\ asked' = code /\ calls' \in 0..MaxCalls /\ calls' # 0
      BY <1>3, <2>1, DiagAssumption
      DEF diag_warning, Lost, Call, options, IInv, TypeOK
    <3> QED BY <3>1
            DEF IInv, TypeOK, ListShape, HasErrorsExact, AnnotationsMatch,
                TailIsAsked, diag_has_errors, options
  <2>2. CASE ~no_warnings /\ Lost
    BY <1>3, <2>2, LostKeeps DEF diag_warning
  <2>3. CASE ~no_warnings /\ ~Lost
    <3> DEFINE level == IF warnings_as_errors THEN "DIAG_ERROR" ELSE "DIAG_WARNING"
    <3>1. /\ Push(NewNode(level, code))
          /\ error_count' = error_count + (IF warnings_as_errors THEN 1 ELSE 0)
          /\ warning_count' = warning_count + (IF warnings_as_errors THEN 0 ELSE 1)
          /\ UNCHANGED failures
      BY <1>3, <2>3 DEF diag_warning, WarningLevel
    <3>2. Call /\ asked' = code /\ UNCHANGED <<options, freed, failures>>
          /\ warning_count' \in Nat
      BY <1>3, <3>1 DEF diag_warning, IInv, TypeOK
    <3>3. /\ level \in Levels
          /\ error_count' = error_count + (IF level = "DIAG_ERROR" THEN 1 ELSE 0)
      BY <3>1 DEF Levels
    <3> HIDE DEF level
    <3> QED BY <3>1, <3>2, <3>3, ReportKeeps
  <2> QED BY <2>1, <2>2, <2>3
<1>4. ASSUME NEW code \in Codes, diag_note(code) PROVE IInv'
  <2>1. CASE Lost
    BY <1>4, <2>1, LostKeeps DEF diag_note
  <2>2. CASE ~Lost
    <3>1. Push(NewNode("DIAG_NOTE", code))
          /\ UNCHANGED <<error_count, warning_count, failures>>
      BY <1>4, <2>2 DEF diag_note
    <3>2. /\ Call /\ asked' = code /\ UNCHANGED <<options, freed, failures>>
          /\ warning_count' \in Nat /\ "DIAG_NOTE" \in Levels
          /\ error_count' = error_count + (IF "DIAG_NOTE" = "DIAG_ERROR" THEN 1 ELSE 0)
      BY <1>4, <3>1 DEF diag_note, IInv, TypeOK, Levels
    <3> QED BY <3>1, <3>2, ReportKeeps
  <2> QED BY <2>1, <2>2
<1>5. ASSUME NEW field \in {"help", "source_line"}, Annotate(field) PROVE IInv'
  <2>1. /\ heap' \in Seq(Node) /\ Len(heap') = Len(heap)
        /\ heap' = <<>> <=> heap = <<>>
        /\ \A i \in 1..Len(heap) :
             /\ heap'[i].next = heap[i].next
             /\ heap'[i].level = heap[i].level
             /\ heap'[i].code = heap[i].code
             /\ {heap'[i].help, heap'[i].source_line} \subseteq
                  {heap[i].help, heap[i].source_line, NoHelp}
                    \cup (IF i = Len(heap) THEN {asked} ELSE {})
    BY <1>5, AnnotateKeeps
  <2>2. /\ UNCHANGED <<head, tail, error_count, warning_count, options, asked,
                       failures, freed>>
        /\ ~freed /\ calls' \in 0..MaxCalls /\ calls' # 0
    BY <1>5, DiagAssumption DEF Annotate, Call, IInv, TypeOK
  <2>3. TypeOK'
    BY <2>1, <2>2 DEF IInv, TypeOK, options
  <2>4. ListShape'
    BY <2>1, <2>2 DEF IInv, ListShape
  <2>5. HasErrorsExact'
    BY <2>1, <2>2 DEF IInv, HasErrorsExact, diag_has_errors
  <2>6. Len(heap) \in 1..Len(heap) \/ heap = <<>>
    BY DEF IInv, TypeOK
  <2>7. AnnotationsMatch'
    <3> SUFFICES ASSUME failures = 0, ~no_warnings, NEW i \in 1..Len(heap)
                 PROVE  {heap'[i].help, heap'[i].source_line}
                          \subseteq {NoHelp, heap'[i].code}
      BY <2>1, <2>2 DEF AnnotationsMatch, options
    <3>1. {heap[i].help, heap[i].source_line} \subseteq {NoHelp, heap[i].code}
      BY DEF IInv, AnnotationsMatch
    <3>2. i = Len(heap) => heap[i].code = asked
      BY DEF IInv, TailIsAsked
    <3> QED BY <3>1, <3>2, <2>1
  <2>8. TailIsAsked'
    BY <2>1, <2>2, <2>6 DEF IInv, TailIsAsked, options
  <2> QED BY <2>3, <2>4, <2>5, <2>7, <2>8 DEF IInv
<1>6. ASSUME diag_free PROVE IInv'
  <2>1. calls' \in 0..MaxCalls
    BY <1>6, DiagAssumption DEF diag_free, Call, IInv, TypeOK
  <2> QED BY <1>6, <2>1
          DEF diag_free, IInv, TypeOK, ListShape, HasErrorsExact,
              AnnotationsMatch, TailIsAsked, options, Nil
<1>7. ASSUME UNCHANGED vars PROVE IInv'
  BY <1>7 DEF vars, IInv, TypeOK, ListShape, HasErrorsExact, AnnotationsMatch,
              TailIsAsked, diag_has_errors, options
<1> QED BY <1>1, <1>2, <1>3, <1>4, <1>5, <1>6, <1>7
        DEF Next, diag_help, diag_set_source

\* The strengthened invariant holds in every state of every engine.
THEOREM DiagnosticsIInv == Spec => []IInv
  BY InitIInv, StepIInv, PTL DEF Spec

\* The variables keep their types.
THEOREM DiagnosticsTypes == Spec => []TypeOK
<1>1. IInv => TypeOK
  BY DEF IInv
<1> QED BY <1>1, DiagnosticsIInv, PTL

\* The linked list never loses a node and never becomes cyclic.
THEOREM DiagnosticsListShape == Spec => []ListShape
<1>1. IInv => ListShape
  BY DEF IInv
<1> QED BY <1>1, DiagnosticsIInv, PTL

\* The question compile_file asks at each gate is answered exactly.
THEOREM DiagnosticsHasErrors == Spec => []HasErrorsExact
<1>1. IInv => HasErrorsExact
  BY DEF IInv
<1> QED BY <1>1, DiagnosticsIInv, PTL

\* A help text is under its own diagnostic as long as none is dropped.
THEOREM DiagnosticsAnnotations == Spec => []AnnotationsMatch
<1>1. IInv => AnnotationsMatch
  BY DEF IInv
<1> QED BY <1>1, DiagnosticsIInv, PTL

-----------------------------------------------------------------------------
(* The list as a log.                                                        *)

\* A set of naturals that is not empty has a least element: of the finite
\* sets 0..x for its elements, one holds no other.
LEMMA Least ==
  ASSUME NEW S \in SUBSET Nat, S # {}
  PROVE  \E x \in S : \A y \in S : x <= y
<1> DEFINE T == {0..x : x \in S}
<1>1. T \subseteq FiniteSubsetsOf(Nat) /\ T # {}
  <2>1. \A x \in S : IsFiniteSet(0..x)
    BY FS_Interval
  <2>2. \A x \in S : 0..x \in FiniteSubsetsOf(Nat)
    <3> TAKE x \in S
    <3>1. 0..x \in SUBSET Nat
      OBVIOUS
    <3> QED BY <2>1, <3>1 DEF FiniteSubsetsOf
  <2> QED BY <2>2
<1>2. IsWellFoundedOn(StrictSubsetOrdering(Nat), FiniteSubsetsOf(Nat))
  BY FS_StrictSubsetOrderingWellFounded
<1>3. \E t \in T : \A u \in T : ~(<<u, t>> \in StrictSubsetOrdering(Nat))
  <2> HIDE DEF T
  <2> QED BY <1>1, <1>2, WFMin
<1>4. PICK x \in S : \A u \in T : ~(<<u, 0..x>> \in StrictSubsetOrdering(Nat))
  BY <1>3
<1>5. \A y \in S : x <= y
  <2> SUFFICES ASSUME NEW y \in S, y < x PROVE FALSE
    OBVIOUS
  <2>1. 0..y \in T
    OBVIOUS
  <2>2. 0..y \subseteq 0..x /\ 0..y # 0..x
    <3>1. x \in 0..x /\ x \notin 0..y
      OBVIOUS
    <3> QED BY <3>1
  <2>3. 0..y \in SUBSET Nat /\ 0..x \in SUBSET Nat
    OBVIOUS
  <2>4. <<0..y, 0..x>> \in StrictSubsetOrdering(Nat)
    BY <2>2, <2>3 DEF StrictSubsetOrdering
  <2> QED BY <1>4, <2>1, <2>4
<1> QED BY <1>5

\* What diag_print_all prints of node i.
Shown(h, i) == [level |-> h[i].level, code |-> h[i].code, help |-> h[i].help]
Entries(h) == [i \in 1..Len(h) |-> Shown(h, i)]

\* A function on 1..n is a sequence.
LEMMA FunctionSeq ==
  ASSUME NEW S, NEW n \in Nat, NEW g \in [1..n -> S]
  PROVE  g \in Seq(S) /\ Len(g) = n
OBVIOUS

\* A function on 1..n+1 is the sequence of its first n values and the last.
LEMMA LastAppended ==
  ASSUME NEW n \in Nat, NEW f, NEW g,
         f = [i \in 1..(n + 1) |-> f[i]], g = [i \in 1..n |-> f[i]]
  PROVE  f = Append(g, f[n + 1])
<1> DEFINE S == {f[i] : i \in 1..(n + 1)}
<1>1. \A i \in 1..(n + 1) : f[i] \in S
  OBVIOUS
<1> HIDE DEF S
<1>2. f \in Seq(S) /\ Len(f) = n + 1
  BY <1>1
<1>3. g \in Seq(S) /\ Len(g) = n /\ \A i \in 1..n : g[i] = f[i]
  <2>1. \A i \in 1..n : f[i] \in S
    BY <1>1
  <2>2. \A i \in 1..n : g[i] = f[i]
    OBVIOUS
  <2>3. g \in [1..n -> S]
    BY <2>1
  <2> QED BY <2>2, <2>3, FunctionSeq
<1>4. f[n + 1] \in S
  BY <1>1
<1> QED BY <1>2, <1>3, <1>4, AppendProperties

Walked == Printed = Entries(heap)

\* The walk from head along next prints every node, in order of allocation.
LEMMA PrintedIs == IInv => Walked
<1> SUFFICES ASSUME IInv PROVE Printed = Entries(heap)
  BY DEF Walked
<1> DEFINE n == Len(heap)
           from == [at |-> head, out |-> <<>>]
           turn(w) == IF w.at = Nil THEN w
                      ELSE [at |-> heap[w.at].next, out |-> Append(w.out, Shown(heap, w.at))]
           walk == CHOOSE f : f = [k \in 0..n |-> IF k = 0 THEN from ELSE turn(f[k - 1])]
           out(k) == [i \in 1..k |-> Shown(heap, i)]
           g == [k \in 0..n |-> [at |-> IF k = n THEN Nil ELSE k + 1, out |-> out(k)]]
<1>1. Printed = walk[n].out
  BY DEF Printed, Shown
<1>2. n \in Nat /\ head = (IF n = 0 THEN Nil ELSE 1)
      /\ \A i \in 1..n : heap[i].next = IF i = n THEN Nil ELSE i + 1
  BY DEF IInv, TypeOK, ListShape
<1>3. g[0] = from
  <2>1. out(0) = <<>>
    OBVIOUS
  <2>2. (IF 0 = n THEN Nil ELSE 0 + 1) = head
    BY <1>2
  <2>3. 0 \in 0..n
    BY <1>2
  <2> HIDE DEF out, n
  <2> QED BY <2>1, <2>2, <2>3
<1>4. ASSUME NEW k \in 0..n, k # 0 PROVE g[k] = turn(g[k - 1])
  <2>1. k - 1 \in 0..n /\ k - 1 # n /\ (k - 1) + 1 = k /\ k # Nil /\ k \in 1..n
    <3> HIDE DEF n, g, turn, walk, from, out
    <3>1. k \in 1..n
      BY <1>2, <1>4
    <3>2. k - 1 \in 0..n /\ k - 1 # n /\ (k - 1) + 1 = k
      BY <1>2, <3>1
    <3> QED BY <3>1, <3>2 DEF Nil
  <2>2. out(k) = Append(out(k - 1), Shown(heap, k))
    <3>1. k - 1 \in Nat
      BY <2>1
    <3> DEFINE new == out(k)
               old == out(k - 1)
    <3>2. new = [i \in 1..((k - 1) + 1) |-> new[i]] /\ old = [i \in 1..(k - 1) |-> new[i]]
          /\ new[(k - 1) + 1] = Shown(heap, k)
      BY <2>1
    <3> HIDE DEF new, old
    <3>3. new = Append(old, Shown(heap, k))
      BY <3>1, <3>2, LastAppended
    <3> QED BY <3>3 DEF new, old
  <2> HIDE DEF n, out
  <2>3. g[k - 1] = [at |-> k, out |-> out(k - 1)]
    BY <2>1
  <2>4. g[k] = [at |-> IF k = n THEN Nil ELSE k + 1, out |-> out(k)]
    OBVIOUS
  <2>5. turn([at |-> k, out |-> out(k - 1)]) = [at |-> heap[k].next, out |-> Append(out(k - 1), Shown(heap, k))]
    BY <2>1
  <2> QED BY <1>2, <2>1, <2>2, <2>3, <2>4, <2>5
<1>5. g = [k \in 0..n |-> IF k = 0 THEN from ELSE turn(g[k - 1])]
  <2> DEFINE other == [k \in 0..n |-> IF k = 0 THEN from ELSE turn(g[k - 1])]
  <2>1. \A k \in 0..n : g[k] = other[k]
    <3> HIDE DEF g, turn, from, n
    <3> QED BY <1>3, <1>4
  <2>2. g = [k \in 0..n |-> g[k]] /\ other = [k \in 0..n |-> other[k]]
    <3> HIDE DEF turn, from, n, out
    <3> QED OBVIOUS
  <2> HIDE DEF g, other, n
  <2>3. g = other
    BY <2>1, <2>2
  <2> QED BY <2>3 DEF other
<1> HIDE DEF g, turn, from, n
<1>6. walk = [k \in 0..n |-> IF k = 0 THEN from ELSE turn(walk[k - 1])]
  BY <1>5
<1> HIDE DEF walk
<1>7. \A k \in 0..n : walk[k] = g[k]
  <2> DEFINE B == {k \in 0..n : walk[k] # g[k]}
  <2>1. SUFFICES ASSUME B # {} PROVE FALSE
    OBVIOUS
  <2>2. B \in SUBSET Nat
    BY <1>2
  <2>3. PICK k \in B : \A j \in B : k <= j
    <3> HIDE DEF B
    <3> QED BY <2>1, <2>2, Least
  <2>4. walk[k] = (IF k = 0 THEN from ELSE turn(walk[k - 1]))
        /\ g[k] = (IF k = 0 THEN from ELSE turn(g[k - 1]))
    BY <1>3, <1>4, <1>6
  <2>5. k # 0 => k - 1 \in 0..n /\ ~(k <= k - 1)
    BY <1>2
  <2>6. k # 0 => walk[k - 1] = g[k - 1]
    BY <2>3, <2>5
  <2> QED BY <2>4, <2>6
<1>8. walk[n].out = out(n)
  <2>1. n \in 0..n
    BY <1>2
  <2> DEFINE last == [at |-> IF n = n THEN Nil ELSE n + 1, out |-> out(n)]
  <2>2. g[n] = last
    <3> HIDE DEF out
    <3> QED BY <2>1 DEF g
  <2>3. last.out = out(n)
    OBVIOUS
  <2> HIDE DEF last
  <2> QED BY <1>7, <2>1, <2>2, <2>3
<1> QED BY <1>1, <1>8 DEF Entries, n

\* A report puts its diagnostic at the end of the log.
LEMMA PushReports ==
  ASSUME IInv, NEW level \in Levels, NEW code \in Codes, Push(NewNode(level, code))
  PROVE  Entries(heap') = Append(Entries(heap), [level |-> level, code |-> code, help |-> NoHelp])
<1> DEFINE n == Len(heap)
           e == [level |-> level, code |-> code, help |-> NoHelp]
           new == Entries(heap')
           old == Entries(heap)
<1>1. /\ n \in Nat /\ Len(heap') = n + 1 /\ heap'[n + 1] = NewNode(level, code)
      /\ \A i \in 1..n : /\ heap'[i].level = heap[i].level
                         /\ heap'[i].code = heap[i].code
                         /\ heap'[i].help = heap[i].help
  BY PushKeeps DEF IInv, TypeOK
<1>2. Shown(heap', n + 1) = e
  BY <1>1 DEF Shown, NewNode
<1>3. \A i \in 1..n : Shown(heap', i) = Shown(heap, i)
  BY <1>1 DEF Shown
<1>4. new = [i \in 1..(n + 1) |-> Shown(heap', i)] /\ old = [i \in 1..n |-> Shown(heap, i)]
  BY <1>1 DEF Entries
<1>6. new = [i \in 1..(n + 1) |-> new[i]] /\ old = [i \in 1..n |-> new[i]] /\ new[n + 1] = e
  <2>1. \A i \in 1..n : i \in 1..(n + 1)
    BY <1>1
  <2>2. n + 1 \in 1..(n + 1)
    BY <1>1
  <2> HIDE DEF n, e, old, new
  <2>3. \A i \in 1..(n + 1) : new[i] = Shown(heap', i)
    BY <1>4
  <2>4. \A i \in 1..n : new[i] = Shown(heap, i)
    BY <1>3, <2>1, <2>3
  <2> QED BY <1>2, <1>4, <2>2, <2>3, <2>4
<1> HIDE DEF n, e, old, new
<1>8. new = Append(old, e)
  BY <1>1, <1>6, LastAppended
<1> QED BY <1>8 DEF new, old, e

\* A step of the engine is a step of the log, or none.
LEMMA LogStep == IInv /\ IInv' /\ [Next]_vars => [Log!Next]_Printed
<1> SUFFICES ASSUME IInv, IInv', [Next]_vars PROVE Log!Next \/ Printed' = Printed
  OBVIOUS
<1>1. Printed = Entries(heap) /\ Printed' = Entries(heap')
  <2>1. IInv' => Walked'
    BY PrintedIs, PTL
  <2> QED BY <2>1, PrintedIs DEF Walked
<1>2. heap' = heap => Printed' = Printed
  BY <1>1
<1>3. ASSUME NEW level \in Levels, NEW code \in Codes, Push(NewNode(level, code))
      PROVE  Log!Next
  <2>1. Log!Report(level, code)
    BY <1>1, <1>3, PushReports DEF Log!Report
  <2> QED BY <2>1 DEF Log!Next
<1>4. CASE SetOptions
  BY <1>2, <1>4 DEF SetOptions
<1>5. ASSUME NEW code \in Codes, diag_error(code) PROVE Log!Next \/ Printed' = Printed
  BY <1>2, <1>3, <1>5 DEF diag_error, Lost, Levels
<1>6. ASSUME NEW code \in Codes, diag_warning(code) PROVE Log!Next \/ Printed' = Printed
  <2>1. WarningLevel \in Levels
    BY DEF WarningLevel, Levels
  <2> QED BY <1>2, <1>3, <1>6, <2>1 DEF diag_warning, Lost
<1>7. ASSUME NEW code \in Codes, diag_note(code) PROVE Log!Next \/ Printed' = Printed
  BY <1>2, <1>3, <1>7 DEF diag_note, Lost, Levels
<1>8. ASSUME NEW field \in {"help", "source_line"}, Annotate(field)
      PROVE  Log!Next \/ Printed' = Printed
  <2>1. heap \in Seq(Node) /\ Len(heap) \in Nat /\ tail = Len(heap) /\ asked \in Codes \cup {NoHelp}
    BY DEF IInv, TypeOK, ListShape
  <2>2. CASE tail = Nil
    BY <1>2, <1>8, <2>2 DEF Annotate
  <2>3. CASE tail # Nil
    <3> DEFINE n == Len(heap)
    <3>1. heap # <<>> /\ n \in 1..n /\ heap[n] \in Node
      BY <2>1, <2>3 DEF Nil
    <3>2. PICK text \in {asked, NoHelp} : heap' = [heap EXCEPT ![tail][field] = text]
      BY <1>8, <2>3 DEF Annotate
    <3> DEFINE r == [heap[n] EXCEPT ![field] = text]
    <3>3. heap' = [heap EXCEPT ![n] = r]
      BY <2>1, <3>2
    <3>4. text \in Codes \cup {NoHelp}
      BY <2>1, <3>2
    <3>5. /\ r \in Node /\ r.level = heap[n].level /\ r.code = heap[n].code
          /\ r.help = IF field = "help" THEN text ELSE heap[n].help
      <4>1. CASE field = "help"
        BY <3>1, <3>4, <4>1 DEF Node
      <4>2. CASE field = "source_line"
        BY <3>1, <3>4, <4>2 DEF Node
      <4> QED BY <4>1, <4>2
    <3> HIDE DEF r
    <3>6. /\ Len(heap') = n
          /\ \A i \in 1..n : heap'[i] = IF i = n THEN r ELSE heap[i]
      BY <2>1, <3>1, <3>3, <3>5, LastField
    <3> DEFINE old == Entries(heap)
               new == Entries(heap')
    <3>7. Len(old) = n /\ old = [i \in 1..n |-> Shown(heap, i)] /\ new = [i \in 1..n |-> Shown(heap', i)]
      BY <2>1, <3>6 DEF Entries
    <3>8. \A i \in 1..n : i # n => Shown(heap', i) = Shown(heap, i)
      BY <3>6 DEF Shown
    <3>9. CASE field = "help"
      <4>1. Shown(heap', n) = [old[n] EXCEPT !.help = text]
        <5>1. old[n] = [level |-> heap[n].level, code |-> heap[n].code, help |-> heap[n].help]
          BY <3>1, <3>7 DEF Shown
        <5>2. Shown(heap', n) = [level |-> heap[n].level, code |-> heap[n].code, help |-> text]
          BY <3>1, <3>5, <3>6, <3>9 DEF Shown
        <5> QED BY <5>1, <5>2
      <4> HIDE DEF old, new, n
      <4>2. new = [old EXCEPT ![n].help = text]
        BY <3>1, <3>7, <3>8, <4>1
      <4>3. old # <<>>
        BY <3>1, <3>7
      <4>4. Log!Explain(text)
        BY <1>1, <3>7, <4>2, <4>3 DEF Log!Explain, old, new
      <4> QED BY <3>4, <4>4 DEF Log!Next
    <3>10. CASE field # "help"
      <4>1. Shown(heap', n) = Shown(heap, n)
        BY <3>1, <3>5, <3>6, <3>10 DEF Shown
      <4>2. new = old
        <5> HIDE DEF n
        <5> QED BY <3>7, <3>8, <4>1
      <4> QED BY <1>1, <4>2
    <3> QED BY <3>9, <3>10
  <2> QED BY <2>2, <2>3
<1>9. CASE diag_free
  <2>1. Entries(heap') = <<>>
    BY <1>9 DEF diag_free, Entries
  <2>2. Log!Discard
    BY <1>1, <2>1 DEF Log!Discard
  <2> QED BY <2>2 DEF Log!Next
<1>10. CASE UNCHANGED vars
  BY <1>2, <1>10 DEF vars
<1> QED BY <1>4, <1>5, <1>6, <1>7, <1>8, <1>9, <1>10 DEF Next, diag_help, diag_set_source

\* The linked list with its two pointers is the log every stage assumes: each
\* call adds one entry at the end, explains the newest one, empties the log or
\* does nothing.
THEOREM DiagnosticsImplementsLog == Spec => ImplementsLog
<1>1. Init => Log!Init
  <2> SUFFICES ASSUME Init PROVE Printed = <<>>
    BY DEF Log!Init
  <2>1. heap = <<>>
    BY DEF Init
  <2>2. Printed = Entries(heap)
    BY InitIInv, PrintedIs DEF Walked
  <2>3. Entries(heap) = <<>>
    BY <2>1 DEF Entries
  <2> QED BY <2>2, <2>3
<1>2. IInv /\ IInv' /\ [Next]_vars => [Log!Next]_Printed
  BY LogStep
<1> QED BY <1>1, <1>2, DiagnosticsIInv, PTL DEF Spec, ImplementsLog, Log!Spec
=============================================================================
