--------------------------- MODULE DriverProofs ----------------------------
(***************************************************************************)
(* Proofs about Driver, for every set of runs, of modules and bound on the *)
(* imports: what a run frees, what it does after an error, and, when runs  *)
(* do not overlap, whose program it builds.                                *)
(***************************************************************************)
EXTENDS Driver, TLAPS

Diag == [file : Files, in_buffer : BOOLEAN]

\* A diagnostic whose name is in the buffer was reported after an import
\* wrote it, so what diag_print_all finds there is a path.
BufferSet ==
  \A r \in Runs :
    /\ merged[r] # {} => modpath[r] # None
    /\ \A i \in 1..Len(diags[r]) : diags[r][i].in_buffer => modpath[r] # None

Typed == TypeOK /\ BufferSet
-----------------------------------------------------------------------------
\* Appending one diagnostic to the list of one run.
LEMMA ReportTyped ==
  ASSUME Typed, NEW r \in Runs, NEW d \in Diag, report(r, d)
  PROVE  /\ diags' \in [Runs -> Seq(Diag)]
         /\ \A q \in Runs : \A i \in 1..Len(diags'[q]) :
              \/ i \in 1..Len(diags[q]) /\ diags'[q][i] = diags[q][i]
              \/ q = r /\ diags'[q][i] = d
<1>1. diags \in [Runs -> Seq(Diag)]
  BY DEF Typed, TypeOK, Diag
<1>2. diags' = [diags EXCEPT ![r] = Append(diags[r], d)]
  BY DEF report
<1>3. Append(diags[r], d) \in Seq(Diag)
      /\ Len(Append(diags[r], d)) = Len(diags[r]) + 1
      /\ \A i \in 1..Len(diags[r]) : Append(diags[r], d)[i] = diags[r][i]
      /\ Append(diags[r], d)[Len(diags[r]) + 1] = d
  BY <1>1
<1>4. Len(diags[r]) \in Nat
  BY <1>1
<1>5. diags' \in [Runs -> Seq(Diag)]
  BY <1>1, <1>2, <1>3
<1>6. ASSUME NEW q \in Runs, NEW i \in 1..Len(diags'[q])
      PROVE  \/ i \in 1..Len(diags[q]) /\ diags'[q][i] = diags[q][i]
             \/ q = r /\ diags'[q][i] = d
  <2>1. CASE q # r
    BY <2>1, <1>1, <1>2, <1>6
  <2>2. CASE q = r
    <3>1. diags'[q] = Append(diags[r], d)
      BY <2>2, <1>1, <1>2
    <3>2. i \in 1..Len(diags[r]) \/ i = Len(diags[r]) + 1
      BY <3>1, <1>3, <1>4, <1>6
    <3> QED BY <3>1, <3>2, <2>2, <1>3
  <2> QED BY <2>1, <2>2
<1> QED BY <1>5, <1>6

\* The two kinds of diagnostic.
LEMMA Abouts == AboutMain \in Diag /\ \A m \in Modules : About(m) \in Diag
  BY DEF AboutMain, About, Diag, Files

\* The end of compile_file.
LEMMA ReturnTyped ==
  ASSUME Typed, NEW r \in Runs, NEW freed, NEW s \in {"success", "failure"},
         Return(r, freed, s)
  PROVE  /\ stage' \in [Runs -> Stages]
         /\ held' \in [Runs -> SUBSET Allocations]
         /\ status' \in [Runs -> {None, "success", "failure"}]
  BY DEF Typed, TypeOK, Return, Goto, Stages

\* Going on to the next stage.
LEMMA GotoTyped ==
  ASSUME Typed, NEW r \in Runs, NEW s \in Stages, Goto(r, s)
  PROVE  stage' \in [Runs -> Stages]
  BY DEF Typed, TypeOK, Goto

\* What diag_print_all prints are file names.
LEMMA PrintTyped ==
  ASSUME Typed, NEW r \in Runs, diag_print_all(r)
  PROVE  /\ printed' \in [Runs -> Seq(Files \cup {Dead})]
         /\ Len(printed'[r]) = Len(diags[r])
         /\ \A q \in Runs \ {r} : printed'[q] = printed[q]
<1>1. /\ diags[r] \in Seq(Diag) /\ printed \in [Runs -> Seq(Files \cup {Dead})]
      /\ modpath[r] \in Modules \cup {None}
  BY DEF Typed, TypeOK, Diag
<1>2. Len(diags[r]) \in Nat /\ DOMAIN diags[r] = 1..Len(diags[r])
  BY <1>1
<1>0. PICK found \in {modpath[r], Dead} :
        printed' = [printed EXCEPT ![r] =
                      [i \in DOMAIN diags[r] |->
                         IF diags[r][i].in_buffer THEN found ELSE Main]]
  BY DEF diag_print_all
<1> DEFINE names == [i \in DOMAIN diags[r] |->
                       IF diags[r][i].in_buffer THEN found ELSE Main]
<1>3. \A i \in 1..Len(diags[r]) : names[i] \in Files \cup {Dead}
  BY <1>1, <1>2 DEF Typed, BufferSet, Files
<1>4. names \in [1..Len(diags[r]) -> Files \cup {Dead}]
  BY <1>2, <1>3
<1>5. names \in Seq(Files \cup {Dead}) /\ Len(names) = Len(diags[r])
  BY <1>2, <1>4
<1>6. printed' = [printed EXCEPT ![r] = names]
  BY <1>0
<1> QED BY <1>1, <1>5, <1>6

\* Of the buffers of literals a text has some or none.
LEMMA LexedTyped ==
  ASSUME Typed, NEW r \in Runs
  PROVE  /\ Lexed(held[r]) \in SUBSET Allocations
         /\ held[r] \in SUBSET Allocations
  BY DEF Lexed, Allocations, Typed, TypeOK

-----------------------------------------------------------------------------
\* Before any run starts: no source, no report, no file.
LEMMA InitTyped == Init => Typed
  BY DEF Init, Typed, TypeOK, BufferSet, Stages

\* Every step of every run keeps the types.
LEMMA StepTyped == Typed /\ [Next]_vars => Typed'
<1> SUFFICES ASSUME Typed, [Next]_vars PROVE Typed'
  OBVIOUS
<1> USE DEF disk, frontend
<1>1. ASSUME NEW r \in Runs, read_source(r) PROVE Typed'
  <2>1. /\ stage' \in [Runs -> Stages]
        /\ held' \in [Runs -> SUBSET Allocations]
        /\ status' \in [Runs -> {None, "success", "failure"}]
    <3>1. CASE Goto(r, "arena") /\ held' = [held EXCEPT ![r] = {"src"}]
               /\ UNCHANGED status
      BY <3>1, GotoTyped DEF Stages, Typed, TypeOK, Allocations
    <3>2. CASE Return(r, {}, "failure")
      BY <3>2, ReturnTyped
    <3> QED BY <1>1, <3>1, <3>2 DEF read_source
  <2> QED BY <1>1, <2>1 DEF read_source, Typed, TypeOK, BufferSet
<1>2. ASSUME NEW r \in Runs, create_arena(r) PROVE Typed'
  <2>1. /\ stage' \in [Runs -> Stages]
        /\ held' \in [Runs -> SUBSET Allocations]
        /\ status' \in [Runs -> {None, "success", "failure"}]
    <3>1. CASE Goto(r, "parse") /\ held' = [held EXCEPT ![r] = @ \cup {"arena", "diag"}]
               /\ UNCHANGED status
      BY <3>1, GotoTyped DEF Stages, Typed, TypeOK, Allocations
    <3>2. CASE Return(r, {"src"}, "failure")
      BY <3>2, ReturnTyped
    <3> QED BY <1>2, <3>1, <3>2 DEF create_arena
  <2> QED BY <1>2, <2>1 DEF create_arena, Typed, TypeOK, BufferSet
<1>3. ASSUME NEW r \in Runs, parse_main(r) PROVE Typed'
  <2>1. stage' \in [Runs -> Stages]
    BY <1>3, GotoTyped DEF parse_main, Stages
  <2>2. imports' \in [Runs -> Seq(Modules)]
    <3>1. PICK n \in 0..MaxImports[r] : \E paths \in [1..n -> Modules] :
            imports' = [imports EXCEPT ![r] = paths]
      BY <1>3 DEF parse_main
    <3>2. PICK paths \in [1..n -> Modules] : imports' = [imports EXCEPT ![r] = paths]
      BY <3>1
    <3>3. n \in Nat /\ paths \in Seq(Modules)
      BY DriverAssumption
    <3> QED BY <3>2, <3>3 DEF Typed, TypeOK
  <2>3. held' \in [Runs -> SUBSET Allocations]
    <3>1. CASE UNCHANGED held
      BY <3>1 DEF Typed, TypeOK
    <3>2. CASE held' = [held EXCEPT ![r] = Lexed(held[r])]
      BY <3>2, LexedTyped DEF Typed, TypeOK
    <3> QED BY <1>3, <3>1, <3>2 DEF parse_main
  <2>4. CASE report(r, AboutMain)
    <3>1. /\ diags' \in [Runs -> Seq(Diag)]
          /\ \A q \in Runs : \A i \in 1..Len(diags'[q]) :
               \/ i \in 1..Len(diags[q]) /\ diags'[q][i] = diags[q][i]
               \/ q = r /\ diags'[q][i] = AboutMain
      BY <2>4, ReportTyped, Abouts
    <3>2. UNCHANGED <<merged, modpath, printed, status, disk>>
      BY <1>3 DEF parse_main
    <3>3. BufferSet'
      <4>1. modpath' = modpath /\ merged' = merged
        BY <3>2
      <4>2. ASSUME NEW q \in Runs, NEW i \in 1..Len(diags'[q]),
                   diags'[q][i].in_buffer
            PROVE  modpath[q] # None
        <5>1. diags'[q][i] # AboutMain
          BY <4>2 DEF AboutMain
        <5>2. i \in 1..Len(diags[q]) /\ diags[q][i].in_buffer
          BY <3>1, <4>2, <5>1
        <5> QED BY <5>2 DEF Typed, BufferSet
      <4> QED BY <4>1, <4>2 DEF Typed, BufferSet
    <3> QED BY <2>1, <2>2, <2>3, <3>1, <3>2, <3>3 DEF Typed, TypeOK, Diag
  <2>5. CASE UNCHANGED diags
    BY <1>3, <2>1, <2>2, <2>5, <2>3 DEF parse_main, Typed, TypeOK, BufferSet
  <2> QED BY <1>3, <2>4, <2>5 DEF parse_main
<1>4. ASSUME NEW r \in Runs, gate(r) PROVE Typed'
  <2>1. PICK g \in {<<"gate_parse", "import">>, <<"gate_import", "typecheck">>,
                    <<"gate_typecheck", "checked">>} :
          /\ \/ diag_print_all(r) /\ Return(r, {"src", "arena", "diag"}, "failure")
             \/ Goto(r, g[2]) /\ UNCHANGED <<held, printed, status>>
          /\ UNCHANGED <<frontend, disk>>
    BY <1>4 DEF gate
  <2>2. CASE diag_print_all(r) /\ Return(r, {"src", "arena", "diag"}, "failure")
    <3>1. printed' \in [Runs -> Seq(Files \cup {Dead})]
      BY <2>2, PrintTyped
    <3>2. /\ stage' \in [Runs -> Stages]
          /\ held' \in [Runs -> SUBSET Allocations]
          /\ status' \in [Runs -> {None, "success", "failure"}]
      BY <2>2, ReturnTyped
    <3> QED BY <2>1, <3>1, <3>2 DEF Typed, TypeOK, BufferSet
  <2>3. CASE Goto(r, g[2]) /\ UNCHANGED <<held, printed, status>>
    <3>1. g[2] \in Stages
      BY DEF Stages
    <3>2. stage' \in [Runs -> Stages]
      BY <2>3, <3>1, GotoTyped
    <3> QED BY <2>1, <2>3, <3>2 DEF Typed, TypeOK, BufferSet
  <2> QED BY <2>1, <2>2, <2>3
<1>5. ASSUME NEW r \in Runs, import_module(r) PROVE Typed'
  <2>1. /\ imports[r] \in Seq(Modules) /\ imports[r] # <<>>
        /\ Head(imports[r]) \in Modules /\ Tail(imports[r]) \in Seq(Modules)
    BY <1>5 DEF import_module, Typed, TypeOK
  <2> DEFINE m == Head(imports[r])
  <2>2. /\ modpath' = [modpath EXCEPT ![r] = m]
        /\ imports' = [imports EXCEPT ![r] = Tail(imports[r])]
        /\ UNCHANGED <<stage, printed, status, disk>>
    BY <1>5 DEF import_module
  <2>3. /\ modpath' \in [Runs -> Modules \cup {None}]
        /\ imports' \in [Runs -> Seq(Modules)]
    BY <2>1, <2>2 DEF Typed, TypeOK
  <2>4. \/ report(r, AboutMain) /\ UNCHANGED <<held, merged>>
        \/ /\ report(r, About(m)) \/ UNCHANGED diags
           /\ \E has \in {held[r], Lexed(held[r])} :
                held' = [held EXCEPT ![r] = has \cup {"msrc"}]
           /\ merged' = [merged EXCEPT ![r] = @ \cup {m}]
    BY <1>5 DEF import_module
  <2>5. /\ held' \in [Runs -> SUBSET Allocations]
        /\ merged' \in [Runs -> SUBSET Modules]
        /\ \A q \in Runs \ {r} : merged'[q] = merged[q]
    <3>1. CASE UNCHANGED <<held, merged>>
      BY <3>1 DEF Typed, TypeOK
    <3>2. ASSUME NEW has \in {held[r], Lexed(held[r])},
                 held' = [held EXCEPT ![r] = has \cup {"msrc"}],
                 merged' = [merged EXCEPT ![r] = @ \cup {m}]
          PROVE  /\ held' \in [Runs -> SUBSET Allocations]
                 /\ merged' \in [Runs -> SUBSET Modules]
                 /\ \A q \in Runs \ {r} : merged'[q] = merged[q]
      <4>1. has \cup {"msrc"} \in SUBSET Allocations
        BY LexedTyped DEF Allocations
      <4>2. merged[r] \cup {m} \in SUBSET Modules
        BY <2>1 DEF Typed, TypeOK
      <4> QED BY <3>2, <4>1, <4>2 DEF Typed, TypeOK
    <3> QED BY <2>4, <3>1, <3>2
  <2>6. /\ diags' \in [Runs -> Seq(Diag)]
        /\ \A q \in Runs : \A i \in 1..Len(diags'[q]) :
             q # r => i \in 1..Len(diags[q]) /\ diags'[q][i] = diags[q][i]
    <3>1. CASE UNCHANGED diags
      BY <3>1 DEF Typed, TypeOK, Diag
    <3>2. CASE report(r, AboutMain)
      BY <3>2, ReportTyped, Abouts
    <3>3. CASE report(r, About(m))
      BY <3>3, ReportTyped, Abouts, <2>1
    <3> QED BY <2>4, <3>1, <3>2, <3>3
  <2>7. BufferSet'
    <3> SUFFICES ASSUME NEW q \in Runs
                 PROVE  /\ merged'[q] # {} => modpath'[q] # None
                        /\ \A i \in 1..Len(diags'[q]) :
                             diags'[q][i].in_buffer => modpath'[q] # None
      BY DEF BufferSet
    <3>1. CASE q = r
      BY <3>1, <2>1, <2>2, DriverAssumption DEF Typed, TypeOK
    <3>2. CASE q # r
      <4>1. modpath[q] = modpath'[q] /\ merged'[q] = merged[q]
        BY <3>2, <2>2, <2>5 DEF Typed, TypeOK
      <4>2. merged[q] # {} => modpath[q] # None
        BY DEF Typed, BufferSet
      <4>3. ASSUME NEW i \in 1..Len(diags'[q]), diags'[q][i].in_buffer PROVE modpath[q] # None
        <5>1. i \in 1..Len(diags[q]) /\ diags[q][i].in_buffer
          BY <3>2, <2>6, <4>3
        <5> QED BY <5>1 DEF Typed, BufferSet
      <4> QED BY <4>1, <4>2, <4>3
    <3> QED BY <3>1, <3>2
  <2>8. TypeOK'
    BY <2>2, <2>3, <2>5, <2>6 DEF Typed, TypeOK, Diag
  <2> QED BY <2>7, <2>8 DEF Typed
<1>6. ASSUME NEW r \in Runs, imports_done(r) PROVE Typed'
  BY <1>6, GotoTyped DEF imports_done, Stages, Typed, TypeOK, BufferSet
<1>7. ASSUME NEW r \in Runs, typecheck(r) PROVE Typed'
  <2>1. stage' \in [Runs -> Stages]
        /\ UNCHANGED <<held, imports, merged, modpath, printed, status, disk>>
    BY <1>7, GotoTyped DEF typecheck, Stages
  <2>2. ASSUME NEW d \in Diag, d.in_buffer => modpath[r] # None, report(r, d)
        PROVE  Typed'
    <3>1. /\ diags' \in [Runs -> Seq(Diag)]
          /\ \A q \in Runs : \A i \in 1..Len(diags'[q]) :
               \/ i \in 1..Len(diags[q]) /\ diags'[q][i] = diags[q][i]
               \/ q = r /\ diags'[q][i] = d
      BY <2>2, ReportTyped
    <3>2. BufferSet'
      BY <2>1, <2>2, <3>1 DEF Typed, BufferSet
    <3> QED BY <2>1, <3>1, <3>2 DEF Typed, TypeOK, Diag
  <2>3. CASE UNCHANGED diags
    BY <2>1, <2>3 DEF Typed, TypeOK, BufferSet
  <2>4. CASE report(r, AboutMain)
    BY <2>4, <2>2, Abouts DEF AboutMain
  <2>5. ASSUME NEW m \in merged[r], report(r, About(m)) PROVE Typed'
    <3>1. m \in Modules /\ modpath[r] # None
      BY <2>5 DEF Typed, TypeOK, BufferSet
    <3> QED BY <2>2, <2>5, <3>1, Abouts
  <2> QED BY <1>7, <2>3, <2>4, <2>5 DEF typecheck
<1>8. ASSUME NEW r \in Runs, checked(r) PROVE Typed'
  <2>1. /\ stage' \in [Runs -> Stages]
        /\ held' \in [Runs -> SUBSET Allocations]
        /\ status' \in [Runs -> {None, "success", "failure"}]
    <3>1. CASE Goto(r, "open") /\ held' = [held EXCEPT ![r] = @ \cup {"c_code"}]
               /\ UNCHANGED status
      BY <3>1, GotoTyped DEF Stages, Typed, TypeOK, Allocations
    <3>2. CASE Return(r, {"src", "arena", "diag"}, "success")
      BY <3>2, ReturnTyped
    <3> QED BY <1>8, <3>1, <3>2 DEF checked
  <2> QED BY <1>8, <2>1 DEF checked, Typed, TypeOK, BufferSet
<1>9. ASSUME NEW r \in Runs, open_c_file(r) PROVE Typed'
  <2>1. /\ stage' \in [Runs -> Stages]
        /\ held' \in [Runs -> SUBSET Allocations]
        /\ status' \in [Runs -> {None, "success", "failure"}]
    <3>1. CASE Goto(r, "write") /\ UNCHANGED <<held, status>>
      BY <3>1, GotoTyped DEF Stages, Typed, TypeOK, Allocations
    <3>2. CASE Return(r, {"src", "arena", "diag", "c_code"}, "failure")
      BY <3>2, ReturnTyped
    <3> QED BY <1>9, <3>1, <3>2 DEF open_c_file
  <2> QED BY <1>9, <2>1 DEF open_c_file, Typed, TypeOK, BufferSet
<1>10. ASSUME NEW r \in Runs, write_c_file(r) PROVE Typed'
  <2>1. stage' \in [Runs -> Stages]
    BY <1>10, GotoTyped DEF write_c_file, Stages
  <2>2. c_file' \in Runs \cup {None, Truncated, Mixed}
    BY <1>10 DEF write_c_file
  <2> QED BY <1>10, <2>1, <2>2 DEF write_c_file, Typed, TypeOK, BufferSet
<1>11. ASSUME NEW r \in Runs, gcc_compile(r) \/ gcc_link(r) PROVE Typed'
  <2>1. /\ \/ Goto(r, "link") /\ UNCHANGED <<held, status>>
           \/ Goto(r, "built") /\ UNCHANGED <<held, status>>
           \/ Return(r, {"src", "arena", "diag"}, "failure")
        /\ UNCHANGED <<frontend, printed, c_file, ran>>
    BY <1>11 DEF gcc_compile, gcc_link
  <2>2. /\ stage' \in [Runs -> Stages]
        /\ held' \in [Runs -> SUBSET Allocations]
        /\ status' \in [Runs -> {None, "success", "failure"}]
    <3>1. CASE (Goto(r, "link") \/ Goto(r, "built")) /\ UNCHANGED <<held, status>>
      BY <3>1, GotoTyped DEF Stages, Typed, TypeOK, Allocations
    <3>2. CASE Return(r, {"src", "arena", "diag"}, "failure")
      BY <3>2, ReturnTyped
    <3> QED BY <2>1, <3>1, <3>2
  <2>3. /\ object' \in [Runs -> Runs \cup {None}]
        /\ exe' \in [Runs -> Runs \cup {None}]
    <3>1. CASE UNCHANGED <<object, exe>>
      BY <3>1 DEF Typed, TypeOK
    <3>2. CASE c_file \in Runs /\ object' = [object EXCEPT ![r] = c_file]
               /\ UNCHANGED exe
      BY <3>2 DEF Typed, TypeOK
    <3>3. CASE exe' = [exe EXCEPT ![r] = object[r]] /\ UNCHANGED object
      BY <3>3 DEF Typed, TypeOK
    <3> QED BY <1>11, <3>1, <3>2, <3>3 DEF gcc_compile, gcc_link
  <2> QED BY <2>1, <2>2, <2>3 DEF Typed, TypeOK, BufferSet
<1>12. ASSUME NEW r \in Runs, built(r) PROVE Typed'
  <2>1. /\ stage' \in [Runs -> Stages]
        /\ held' \in [Runs -> SUBSET Allocations]
        /\ status' \in [Runs -> {None, "success", "failure"}]
    BY <1>12, ReturnTyped DEF built
  <2>2. ran' \in [Runs -> Runs \cup {None}]
    BY <1>12 DEF built, Typed, TypeOK
  <2> QED BY <1>12, <2>1, <2>2 DEF built, Typed, TypeOK, BufferSet
<1>13. ASSUME NEW r \in Runs, kill(r) PROVE Typed'
  <2>1. stage' \in [Runs -> Stages]
    BY <1>13, GotoTyped DEF kill, Stages
  <2> QED BY <1>13, <2>1 DEF kill, Typed, TypeOK, BufferSet
<1>14. ASSUME UNCHANGED vars PROVE Typed'
  BY <1>14 DEF vars, Typed, TypeOK, BufferSet
<1> QED BY <1>1, <1>2, <1>3, <1>4, <1>5, <1>6, <1>7, <1>8, <1>9, <1>10, <1>11,
           <1>12, <1>13, <1>14 DEF Next, compile_file

\* The types the other proofs start from.
LEMMA AlwaysTyped == Spec => []Typed
  BY InitTyped, StepTyped, PTL DEF Spec

\* The variables keep their types, for every set of runs and modules.
THEOREM DriverTypes == Spec => []TypeOK
<1>1. Typed => TypeOK
  BY DEF Typed
<1> QED BY <1>1, AlwaysTyped, PTL

-----------------------------------------------------------------------------
(* Memory.  EverythingFreed is about the end of a run only; what makes it   *)
(* so is that each stage holds no more than what its exits free.            *)
HeldByStage ==
  \A r \in Runs :
    /\ stage[r] \in {"new", "exit", "killed"} => held[r] \subseteq {"msrc", "strings"}
    /\ stage[r] = "arena" => held[r] \subseteq {"src", "msrc", "strings"}
    /\ stage[r] \notin {"open", "write"} => "c_code" \notin held[r]

\* No step of a run, and no kill, leaves a stage holding what it should not.
LEMMA StepHeld == Typed /\ HeldByStage /\ [Next]_vars => HeldByStage'
<1> SUFFICES ASSUME Typed, HeldByStage, [Next]_vars PROVE HeldByStage'
  OBVIOUS
<1>1. CASE UNCHANGED vars
  BY <1>1 DEF vars, HeldByStage
<1>2. ASSUME NEW r \in Runs, compile_file(r) \/ kill(r) PROVE HeldByStage'
  <2>1. /\ stage \in [Runs -> Stages]
        /\ held \in [Runs -> SUBSET Allocations]
    BY DEF Typed, TypeOK
  <2> USE DEF HeldByStage, At, Goto, Return, Lexed, Allocations
  <2>2. CASE read_source(r) \/ create_arena(r)
    BY <2>1, <2>2 DEF read_source, create_arena
  <2>3. CASE parse_main(r) \/ imports_done(r) \/ typecheck(r)
    BY <2>1, <2>3 DEF parse_main, imports_done, typecheck
  <2>4. CASE gate(r)
    BY <2>1, <2>4 DEF gate
  <2>5. CASE import_module(r)
    BY <2>1, <2>5 DEF import_module
  <2>6. CASE checked(r) \/ open_c_file(r) \/ write_c_file(r)
    BY <2>1, <2>6 DEF checked, open_c_file, write_c_file
  <2>7. CASE gcc_compile(r) \/ gcc_link(r) \/ built(r)
    BY <2>1, <2>7 DEF gcc_compile, gcc_link, built
  <2>8. CASE kill(r)
    BY <2>1, <2>8 DEF kill
  <2> QED BY <1>2, <2>2, <2>3, <2>4, <2>5, <2>6, <2>7, <2>8 DEF compile_file
<1> QED BY <1>1, <1>2 DEF Next

\* Every way out of compile_file frees what was allocated on the way in, but
\* for the texts of modules and the buffers of string literals.
THEOREM DriverEverythingFreed == Spec => []EverythingFreed
<1>1. Init => HeldByStage
  BY DEF Init, HeldByStage
<1>2. HeldByStage => EverythingFreed
  BY DEF HeldByStage, EverythingFreed, Over
<1> QED BY <1>1, <1>2, StepHeld, AlwaysTyped, PTL DEF Spec

-----------------------------------------------------------------------------
(* What a run builds.  Without overlap the C file belongs, from fopen until *)
(* gcc has read it, to the one run that is on its way; a stage further what *)
(* it read is in object, and then in exe.                                   *)
Idle(r) == At(r, "new") \/ Over(r)

OneAtATime == \A q, r \in Runs : q # r => Idle(q) \/ Idle(r)

BuildByStage ==
  \A r \in Runs :
    /\ stage[r] = "write" => c_file = Truncated
    /\ stage[r] = "gcc" => c_file \in {r, Truncated}
    /\ stage[r] = "link" => object[r] = r
    /\ stage[r] = "built" => exe[r] = r
    /\ status[r] = "success" =>
         stage[r] = "exit" /\ (r \notin CheckRuns => exe[r] = r)
    /\ ran[r] \in {None, r}

\* Without overlap a run starts only when the others are over.
LEMMA StepOne ==
  Typed /\ Overlap = FALSE /\ OneAtATime /\ [Next]_vars => OneAtATime'
<1> SUFFICES ASSUME Typed, Overlap = FALSE, OneAtATime, [Next]_vars
             PROVE  OneAtATime'
  OBVIOUS
<1> USE DEF OneAtATime, Idle, Over, At
<1>1. CASE UNCHANGED vars
  BY <1>1 DEF vars
<1>2. ASSUME NEW r \in Runs, compile_file(r) \/ kill(r) PROVE OneAtATime'
  <2>1. stage \in [Runs -> Stages]
    BY DEF Typed, TypeOK
  <2>2. \A q \in Runs \ {r} : stage'[q] = stage[q]
    BY <1>2, <2>1 DEF compile_file, read_source, create_arena, parse_main, gate,
       import_module, imports_done, typecheck, checked, open_c_file, write_c_file,
       gcc_compile, gcc_link, built, kill, Goto, Return
  <2>3. \A q \in Runs \ {r} : Idle(q)
    <3>1. CASE read_source(r)
      BY <3>1 DEF read_source
    <3>2. CASE ~read_source(r)
      <4>1. ~Idle(r)
        BY <1>2, <3>2, <2>1 DEF compile_file, create_arena, parse_main, gate,
           import_module, imports_done, typecheck, checked, open_c_file,
           write_c_file, gcc_compile, gcc_link, built, kill
      <4> QED BY <4>1
    <3> QED BY <3>1, <3>2
  <2> QED BY <2>2, <2>3
<1> QED BY <1>1, <1>2 DEF Next

\* Whose text is in the C file, in object and in the executable, step by step.
LEMMA StepBuild ==
  Typed /\ OneAtATime /\ BuildByStage /\ [Next]_vars => BuildByStage'
<1> SUFFICES ASSUME Typed, OneAtATime, BuildByStage, [Next]_vars
             PROVE  BuildByStage'
  OBVIOUS
<1>1. CASE UNCHANGED vars
  BY <1>1 DEF vars, BuildByStage
<1>2. ASSUME NEW r \in Runs, compile_file(r) \/ kill(r) PROVE BuildByStage'
  <2>1. /\ stage \in [Runs -> Stages]
        /\ status \in [Runs -> {None, "success", "failure"}]
        /\ object \in [Runs -> Runs \cup {None}]
        /\ exe \in [Runs -> Runs \cup {None}]
        /\ ran \in [Runs -> Runs \cup {None}]
    BY DEF Typed, TypeOK
  <2>2. ~Idle(r) => \A q \in Runs \ {r} : stage[q] \notin {"write", "gcc"}
    BY DEF OneAtATime, Idle, Over, At
  <2>3. Truncated \notin Runs
    BY DriverAssumption
  <2> USE DEF BuildByStage, At, Goto, Return, disk
  <2>4. CASE read_source(r) \/ create_arena(r)
    BY <2>1, <2>4 DEF read_source, create_arena
  <2>5. CASE parse_main(r) \/ imports_done(r) \/ typecheck(r)
    BY <2>1, <2>5 DEF parse_main, imports_done, typecheck
  <2>6. CASE gate(r)
    BY <2>1, <2>6 DEF gate
  <2>7. CASE import_module(r)
    BY <2>1, <2>7 DEF import_module
  <2>8. CASE checked(r)
    BY <2>1, <2>8 DEF checked
  <2>9. CASE open_c_file(r)
    BY <2>1, <2>2, <2>9 DEF open_c_file, Idle, Over
  <2>10. CASE write_c_file(r)
    BY <2>1, <2>2, <2>10 DEF write_c_file, Idle, Over
  <2>11. CASE gcc_compile(r)
    BY <2>1, <2>3, <2>11 DEF gcc_compile
  <2>12. CASE gcc_link(r)
    BY <2>1, <2>12 DEF gcc_link
  <2>13. CASE built(r)
    BY <2>1, <2>13 DEF built
  <2>14. CASE kill(r)
    BY <2>1, <2>14 DEF kill, Over
  <2> QED BY <1>2, <2>4, <2>5, <2>6, <2>7, <2>8, <2>9, <2>10, <2>11, <2>12,
             <2>13, <2>14 DEF compile_file
<1> QED BY <1>1, <1>2 DEF Next

\* If runs do not overlap, a successful build leaves its own program, and
\* "ghlc run" starts it, however many runs failed or were killed before.
\* Overlapping runs may build each other's.
THEOREM DriverBuildsItsOwn ==
  ASSUME Overlap = FALSE
  PROVE  Spec => []BuildsItsOwn
<1>1. Init => OneAtATime /\ BuildByStage
  BY DEF Init, OneAtATime, BuildByStage, Idle, At, None
<1>2. Typed /\ OneAtATime /\ BuildByStage /\ [Next]_vars
        => OneAtATime' /\ BuildByStage'
  BY StepOne, StepBuild
<1>3. BuildByStage => BuildsItsOwn
  BY DEF BuildByStage, BuildsItsOwn
<1> QED BY <1>1, <1>2, <1>3, AlwaysTyped, PTL DEF Spec

-----------------------------------------------------------------------------
(* Errors.  Where a run that has reported one can be, and that it will have *)
(* printed as many when it ends.                                            *)
ErrorsByStage ==
  \A r \in Runs :
    /\ stage[r] # "exit" => status[r] = None
    /\ diags[r] # <<>> =>
         /\ stage[r] \in {"gate_parse", "import", "gate_import", "gate_typecheck",
                          "exit", "killed"}
         /\ status[r] # "success"
         /\ stage[r] = "exit" => Len(printed[r]) = Len(diags[r])

\* A run with errors goes on to no stage behind a gate.
LEMMA StepErrors == Typed /\ ErrorsByStage /\ [Next]_vars => ErrorsByStage'
<1> SUFFICES ASSUME Typed, ErrorsByStage, [Next]_vars PROVE ErrorsByStage'
  OBVIOUS
<1>1. CASE UNCHANGED vars
  BY <1>1 DEF vars, ErrorsByStage
<1>2. ASSUME NEW r \in Runs, compile_file(r) \/ kill(r) PROVE ErrorsByStage'
  <2>1. /\ stage \in [Runs -> Stages]
        /\ status \in [Runs -> {None, "success", "failure"}]
        /\ DOMAIN diags = Runs
    BY DEF Typed, TypeOK
  <2> USE DEF ErrorsByStage, At, Goto, Return, frontend
  <2>2. CASE read_source(r) \/ create_arena(r)
    BY <2>1, <2>2 DEF read_source, create_arena, None
  <2>3. CASE parse_main(r) \/ import_module(r) \/ typecheck(r)
    BY <2>1, <2>3 DEF parse_main, import_module, typecheck, report, None
  <2>4. CASE gate(r)
    <3>1. PICK g \in {<<"gate_parse", "import">>, <<"gate_import", "typecheck">>,
                      <<"gate_typecheck", "checked">>} :
            /\ At(r, g[1])
            /\ \/ diag_print_all(r) /\ Return(r, {"src", "arena", "diag"}, "failure")
               \/ /\ ~diag_has_errors(r)
                  /\ Goto(r, g[2])
                  /\ UNCHANGED <<held, printed, status>>
            /\ UNCHANGED diags
      BY <2>4 DEF gate
    <3>2. CASE diag_print_all(r) /\ Return(r, {"src", "arena", "diag"}, "failure")
      <4>1. Len(printed'[r]) = Len(diags[r])
            /\ \A q \in Runs \ {r} : printed'[q] = printed[q]
        BY <3>2, PrintTyped
      <4> QED BY <2>1, <3>1, <3>2, <4>1 DEF None
    <3>3. CASE /\ ~diag_has_errors(r) /\ Goto(r, g[2])
               /\ UNCHANGED <<held, printed, status>>
      BY <2>1, <3>1, <3>3 DEF diag_has_errors, None
    <3> QED BY <3>1, <3>2, <3>3
  <2>5. CASE imports_done(r) \/ checked(r) \/ open_c_file(r) \/ write_c_file(r)
    BY <2>1, <2>5 DEF imports_done, checked, open_c_file, write_c_file, None
  <2>6. CASE gcc_compile(r) \/ gcc_link(r) \/ built(r)
    BY <2>1, <2>6 DEF gcc_compile, gcc_link, built, None
  <2>7. CASE kill(r)
    BY <2>1, <2>7 DEF kill, Over, None
  <2> QED BY <1>2, <2>2, <2>3, <2>4, <2>5, <2>6, <2>7 DEF compile_file
<1> QED BY <1>1, <1>2 DEF Next

\* No step takes back a report.
LEMMA ReportsStay ==
  ASSUME Typed, [Next]_vars, NEW r \in Runs, diags[r] # <<>>
  PROVE  diags'[r] # <<>>
<1>1. DOMAIN diags = Runs /\ \A q \in Runs : diags[q] \in Seq(Diag)
  BY DEF Typed, TypeOK, Diag
<1>2. ASSUME NEW q \in Runs, NEW d, report(q, d) PROVE diags'[r] # <<>>
  BY <1>1, <1>2 DEF report
<1>3. CASE UNCHANGED diags
  BY <1>3
<1>4. \/ UNCHANGED diags
      \/ \E q \in Runs : \E d \in Diag : report(q, d)
  <2>1. ASSUME NEW q \in Runs, parse_main(q) \/ import_module(q) \/ typecheck(q)
        PROVE  UNCHANGED diags \/ \E d \in Diag : report(q, d)
    <3>1. CASE parse_main(q)
      BY <3>1, Abouts DEF parse_main
    <3>2. CASE import_module(q)
      <4>1. Head(imports[q]) \in Modules
        BY <3>2 DEF import_module, Typed, TypeOK
      <4> QED BY <3>2, <4>1, Abouts DEF import_module
    <3>3. CASE typecheck(q)
      BY <3>3, Abouts DEF typecheck, Typed, TypeOK
    <3> QED BY <2>1, <3>1, <3>2, <3>3
  <2> QED BY <2>1 DEF Next, compile_file, vars, frontend, read_source,
             create_arena, gate, imports_done, checked, open_c_file,
             write_c_file, gcc_compile, gcc_link, built, kill
<1> QED BY <1>2, <1>3, <1>4

\* Once an error is reported a run goes no further than the next gate, never
\* ends in success and, if it ends, has printed everything.
THEOREM DriverErrorsStopTheRun == Spec => ErrorsStopTheRun
<1>1. Init => ErrorsByStage
  BY DEF Init, ErrorsByStage
<1>2. Typed /\ ErrorsByStage /\ ErrorsByStage' /\ [Next]_vars =>
        [\A r \in Runs : diag_has_errors(r) =>
           /\ stage'[r] \notin {"checked", "open", "write", "gcc", "link", "built"}
           /\ status'[r] # "success"
           /\ stage'[r] = "exit" => Len(printed'[r]) = Len(diags'[r])]_vars
  <2> SUFFICES ASSUME Typed, ErrorsByStage', [Next]_vars,
                      NEW r \in Runs, diag_has_errors(r)
               PROVE  /\ stage'[r] \notin {"checked", "open", "write", "gcc", "link", "built"}
                      /\ status'[r] # "success"
                      /\ stage'[r] = "exit" => Len(printed'[r]) = Len(diags'[r])
    OBVIOUS
  <2>1. diags'[r] # <<>>
    BY ReportsStay DEF diag_has_errors
  <2> QED BY <2>1 DEF ErrorsByStage
<1> QED BY <1>1, <1>2, StepErrors, AlwaysTyped, PTL DEF Spec, ErrorsStopTheRun

-----------------------------------------------------------------------------
(* File names.  A diagnostic points to the buffer if and only if it is about *)
(* a module, so what is read in the buffer is printed over no other.        *)
Pointing == {AboutMain} \cup {About(m) : m \in Modules}

Blames(names, ds) ==
  \A i \in DOMAIN names : names[i] = Main <=> ds[i].file = Main

NamesByStage ==
  \A r \in Runs :
    /\ \A i \in 1..Len(diags[r]) : diags[r][i] \in Pointing
    /\ stage[r] # "exit" => DOMAIN printed[r] = {}
    /\ Blames(printed[r], diags[r])

\* Who points to the buffer is about a module.
LEMMA PointingIs ==
  ASSUME Main \notin Modules, NEW d \in Pointing
  PROVE  d.file = Main <=> ~d.in_buffer
  BY DEF Pointing, AboutMain, About

\* Of a step that prints nothing all that matters is what it reports.
LEMMA ReportNames ==
  ASSUME Typed, NamesByStage, NEW r \in Runs, stage[r] # "exit",
         UNCHANGED printed,
         \A q \in Runs \ {r} : stage'[q] = stage[q],
         UNCHANGED diags \/ \E d \in Pointing : report(r, d)
  PROVE  NamesByStage'
<1>1. \A q \in Runs \ {r} : diags'[q] = diags[q]
  BY DEF report, Typed, TypeOK
<1>2. \A i \in 1..Len(diags'[r]) : diags'[r][i] \in Pointing
  <2>1. CASE UNCHANGED diags
    BY <2>1 DEF NamesByStage
  <2>2. ASSUME NEW d \in Pointing, report(r, d)
        PROVE  \A i \in 1..Len(diags'[r]) : diags'[r][i] \in Pointing
    <3>1. d \in Diag
      BY Abouts DEF Pointing
    <3> QED BY <2>2, <3>1, ReportTyped DEF NamesByStage
  <2> QED BY <2>1, <2>2
<1> SUFFICES ASSUME NEW q \in Runs
    PROVE  /\ \A i \in 1..Len(diags'[q]) : diags'[q][i] \in Pointing
           /\ stage'[q] # "exit" => DOMAIN printed'[q] = {}
           /\ Blames(printed'[q], diags'[q])
  BY DEF NamesByStage
<1>3. CASE q = r
  BY <1>2, <1>3 DEF NamesByStage, Blames
<1>4. CASE q # r
  BY <1>1, <1>4 DEF NamesByStage
<1> QED BY <1>3, <1>4

\* What a gate prints: the program's path over reports about the program, what
\* is found in the buffer over the others.
LEMMA PrintNames ==
  ASSUME Typed, NamesByStage, Main \notin Modules, NEW r \in Runs, diag_print_all(r)
  PROVE  /\ \A q \in Runs \ {r} : printed'[q] = printed[q]
         /\ Blames(printed'[r], diags[r])
<1>1. PICK found \in {modpath[r], Dead} :
        printed' = [printed EXCEPT ![r] =
                      [i \in DOMAIN diags[r] |->
                         IF diags[r][i].in_buffer THEN found ELSE Main]]
  BY DEF diag_print_all
<1>2. found # Main
  BY DEF Typed, TypeOK, None, Dead, Main
<1>3. DOMAIN diags[r] = 1..Len(diags[r]) /\ DOMAIN printed = Runs
  BY DEF Typed, TypeOK
<1>4. \A i \in 1..Len(diags[r]) : diags[r][i].file = Main <=> ~diags[r][i].in_buffer
  BY PointingIs DEF NamesByStage
<1> QED BY <1>1, <1>2, <1>3, <1>4 DEF Blames

\* Every step keeps the names apart.
LEMMA StepNames ==
  Typed /\ Main \notin Modules /\ NamesByStage /\ [Next]_vars => NamesByStage'
<1> SUFFICES ASSUME Typed, Main \notin Modules, NamesByStage, [Next]_vars
             PROVE  NamesByStage'
  OBVIOUS
<1>1. CASE UNCHANGED vars
  BY <1>1 DEF vars, NamesByStage
<1>2. ASSUME NEW r \in Runs, compile_file(r) \/ kill(r) PROVE NamesByStage'
  <2>1. stage \in [Runs -> Stages] /\ imports \in [Runs -> Seq(Modules)]
        /\ merged \in [Runs -> SUBSET Modules]
    BY DEF Typed, TypeOK
  <2>2. CASE parse_main(r) \/ import_module(r) \/ typecheck(r)
    <3>1. UNCHANGED diags \/ \E d \in Pointing : report(r, d)
      <4>1. import_module(r) => Head(imports[r]) \in Modules
        BY <2>1 DEF import_module
      <4> QED BY <2>1, <2>2, <4>1 DEF parse_main, import_module, typecheck, Pointing
    <3>2. stage[r] # "exit" /\ UNCHANGED printed
      BY <2>2 DEF parse_main, import_module, typecheck, At
    <3>3. \A q \in Runs \ {r} : stage'[q] = stage[q]
      BY <2>1, <2>2 DEF parse_main, import_module, typecheck, Goto
    <3> QED BY <3>1, <3>2, <3>3, ReportNames
  <2>3. CASE read_source(r) \/ create_arena(r) \/ imports_done(r) \/ checked(r)
             \/ open_c_file(r) \/ write_c_file(r) \/ gcc_compile(r) \/ gcc_link(r)
             \/ built(r) \/ kill(r)
    <3>1. stage[r] # "exit" /\ UNCHANGED <<diags, printed>>
      BY <2>3 DEF read_source, create_arena, imports_done, checked, open_c_file,
         write_c_file, gcc_compile, gcc_link, built, kill, frontend, At, Over
    <3>2. \A q \in Runs \ {r} : stage'[q] = stage[q]
      BY <2>1, <2>3 DEF read_source, create_arena, imports_done, checked,
         open_c_file, write_c_file, gcc_compile, gcc_link, built, kill, Goto, Return
    <3> QED BY <3>1, <3>2, ReportNames
  <2>4. CASE gate(r)
    <3>1. /\ stage[r] # "exit" /\ UNCHANGED diags
          /\ \A q \in Runs \ {r} : stage'[q] = stage[q]
      BY <2>1, <2>4 DEF gate, At, Goto, Return, frontend
    <3>2. CASE UNCHANGED printed
      BY <3>1, <3>2, ReportNames
    <3>3. CASE diag_print_all(r) /\ stage'[r] = "exit"
      <4>1. /\ \A q \in Runs \ {r} : printed'[q] = printed[q]
            /\ Blames(printed'[r], diags[r])
        BY <3>3, PrintNames
      <4> QED BY <3>1, <3>3, <4>1 DEF NamesByStage
    <3> QED BY <2>1, <2>4, <3>2, <3>3 DEF gate, Return, Goto
  <2> QED BY <1>2, <2>2, <2>3, <2>4 DEF compile_file
<1> QED BY <1>1, <1>2 DEF Next

\* For any number of imports, a diagnostic is printed under the program's path
\* if and only if it is about the program, as long as the program does not
\* import itself under that path.
THEOREM DriverNamesTheProgram ==
  ASSUME Main \notin Modules
  PROVE  Spec => []NamesTheProgram
<1>1. Init => NamesByStage
  <2>1. ASSUME NEW s, s = <<>> PROVE 1..Len(s) = {} /\ DOMAIN s = {}
    BY <2>1
  <2>2. ASSUME Init, NEW r \in Runs
        PROVE  1..Len(diags[r]) = {} /\ DOMAIN printed[r] = {}
    <3>1. diags[r] = <<>> /\ printed[r] = <<>>
      BY <2>2 DEF Init
    <3> QED BY <2>1, <3>1
  <2> QED BY <2>2, Zenon DEF NamesByStage, Blames
<1>2. NamesByStage => NamesTheProgram
  BY DEF NamesByStage, Blames, NamesTheProgram
<1>3. Typed /\ NamesByStage /\ [Next]_vars => NamesByStage'
  BY StepNames
<1> QED BY <1>1, <1>2, <1>3, AlwaysTyped, PTL DEF Spec
=============================================================================
