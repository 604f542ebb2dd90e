---------------------------- MODULE ProjectProofs ----------------------------
(***************************************************************************)
(* Proofs about Project, for every set of arguments, outputs and ghl.toml  *)
(* lines: what the commands of ghlc leave in the directory of a project.   *)
(***************************************************************************)
EXTENDS Project, SequenceTheorems, TLAPS

-----------------------------------------------------------------------------
(* Paths and contents.                                                       *)

Places == {None, "src", "include", "assets", "build", "bin"}

\* The paths of a project, one by one,
LEMMA PathsAre ==
  Paths = {"src_main", "main", "other", "in_build", "bin_name", "bin_app", "bin_dir",
           "build_out", "elsewhere", "bare"}
  BY DEF Paths, DirOf

\* and the directories they lie in.
LEMMA DirsAre ==
  /\ DirOf["src_main"] = "src" /\ DirOf["main"] = None /\ DirOf["other"] = None
  /\ DirOf["bin_name"] = "bin" /\ DirOf["bin_app"] = "bin" /\ DirOf["build_out"] = "build"
  /\ DirOf["elsewhere"] = "out" /\ DirOf["bare"] = None
  /\ DirOf["in_build"] = "build" /\ DirOf["bin_dir"] = "bin"
  BY DEF DirOf

\* The three things a path may hold are told apart, and so are the texts.
LEMMA ContentsAre ==
  /\ \A t : Source(t) # Absent /\ Source(t)[2] = t
  /\ \A p, t : Exe(p, t) # Absent
  /\ \A t, p, u : Source(t) # Exe(p, u)
  /\ Source("template") # Source("edited")
  /\ Source("template") # Source("broken") /\ Source("edited") # Source("broken")
  BY DEF Source, Exe, Absent

-----------------------------------------------------------------------------
(* The inductive invariant.                                                  *)

\* What lies in a directory has a directory.
Housed ==
  /\ dirs \subseteq Places
  /\ files = [p \in Paths |-> files[p]]
  /\ \A p \in Paths : files[p] # Absent => DirOf[p] \in dirs

\* ghl.toml names sources as entries and paths as outputs.
EntryLines == [key : {"entry"}, value : Sources \cup {None}]
OutputLines == [key : {"output"}, value : Paths \cup {None}]
Configured == toml \in Seq(EntryLines \cup OutputLines)

Inv == Housed /\ Configured /\ last.code \in {0, 1}

\* What a line of ghl.toml decides.
LEMMA LoadIs ==
  ASSUME Configured
  PROVE  load_ghl_toml("entry") \in Sources \cup {None}
         /\ load_ghl_toml("output") \in Paths \cup {None}
<1>1. ASSUME NEW key
      PROVE  load_ghl_toml(key) = None
             \/ \E i \in DOMAIN toml : toml[i].key = key /\ load_ghl_toml(key) = toml[i].value
  BY DEF load_ghl_toml
<1>2. \A i \in DOMAIN toml : toml[i] \in EntryLines \cup OutputLines
  BY DEF Configured
<1>3. \A r \in EntryLines \cup OutputLines :
        /\ r.key = "entry" => r.value \in Sources \cup {None}
        /\ r.key = "output" => r.value \in Paths \cup {None}
  BY DEF EntryLines, OutputLines
<1> QED BY <1>1, <1>2, <1>3

\* What load_ghl_toml reads in the file of a new project.
LEMMA LoadTemplate ==
  ASSUME toml = Template
  PROVE  load_ghl_toml("entry") = "src_main" /\ load_ghl_toml("output") = "bin_name"
<1>1. DOMAIN toml = {1, 2} /\ toml[1] = Line("entry", "src_main")
      /\ toml[2] = Line("output", "bin_name")
  <2>1. Len(Template) = 2 /\ Template[1] = Line("entry", "src_main")
        /\ Template[2] = Line("output", "bin_name") /\ DOMAIN Template = 1..2
    BY DEF Template, template
  <2>2. 1..2 = {1, 2}
    OBVIOUS
  <2> QED BY <2>1, <2>2
<1>2. /\ toml[1].key = "entry" /\ toml[1].value = "src_main"
      /\ toml[2].key = "output" /\ toml[2].value = "bin_name"
  BY <1>1 DEF Line
<1> DEFINE hits(key) == {i \in DOMAIN toml : toml[i].key = key /\ toml[i].value # None}
           final(key) == {i \in hits(key) : \A j \in hits(key) : j <= i}
<1>3. hits("entry") = {1} /\ hits("output") = {2}
  BY <1>1, <1>2 DEF None
<1>4. final("entry") = {1} /\ final("output") = {2}
  BY <1>3
<1>5. (CHOOSE i \in {1} : TRUE) = 1 /\ (CHOOSE i \in {2} : TRUE) = 2
  OBVIOUS
<1>6. \A key : load_ghl_toml(key)
               = IF final(key) = {} THEN None ELSE toml[CHOOSE i \in final(key) : TRUE].value
  BY DEF load_ghl_toml
<1> HIDE DEF hits, final
<1> QED BY <1>2, <1>4, <1>5, <1>6

\* The source that is found is one, if any is.
LEMMA FoundIs ==
  ASSUME Configured
  PROVE  Found \in Sources \cup {None}
  BY LoadIs DEF Found, Sources

\* The output that is chosen is a path.
LEMMA OutputIs ==
  ASSUME Configured, NEW option \in Outputs \cup {None}, NEW named \in BOOLEAN
  PROVE  Output(named, option) \in Paths
<1>1. "build_out" \in Paths /\ "bin_app" \in Paths
  BY PathsAre
<1>2. option # None => option \in Paths
  BY ProjectAssumption
<1> QED BY <1>1, <1>2, LoadIs DEF Output

\* The directories main makes before it compiles.
LEMMA EnsuredIs ==
  ASSUME NEW cmd, NEW option, NEW named \in BOOLEAN
  PROVE  Ensured(cmd, named, option) \subseteq {"bin", "build"}
  BY DEF Ensured

\* What build, run and check leave behind: nothing in files, or the program.
LEMMA CompileIs ==
  ASSUME Inv, NEW cmd \in {"build", "run", "check"}, NEW source \in Arguments \cup {None},
         NEW option \in Outputs \cup {None}, compile(cmd, source, option)
  PROVE  \E src \in Sources \cup {None}, out \in Paths :
           /\ dirs \subseteq dirs' /\ dirs' \subseteq dirs \cup {"bin", "build"}
           /\ toml' = toml
           /\ last'.cmd = cmd /\ last'.src = src /\ last'.out = out
           /\ last'.code \in {0, 1}
           /\ \/ files' = files /\ (last'.code = 1 \/ cmd = "check")
              \/ /\ src # None /\ cmd # "check" /\ DirOf[out] \in dirs'
                 /\ files' = [files EXCEPT ![out] = Exe(src, files[src][2])]
                 /\ cmd = "run" /\ DirOf[out] # None => last'.ran = Exe(src, files[src][2])
           /\ DirOf[out] = None /\ cmd = "run" => "bare_output" \in Habits
           /\ out \in Sources /\ cmd # "check" => "source_as_output" \in Habits
<1> DEFINE named == source # None
           src == IF named THEN source ELSE Found
           out == Output(named, option)
           made == Ensured(cmd, named, option)
           result == [cmd |-> cmd, code |-> 0, plain |-> ~named /\ option = None,
                      src |-> src, out |-> out, ran |-> Absent]
<1>1. src \in Sources \cup {None}
  BY FoundIs, ProjectAssumption DEF Inv
<1>2. out \in Paths
  BY OutputIs DEF Inv
<1>3. made \subseteq {"bin", "build"}
  BY EnsuredIs
<1>4. /\ None \in dirs /\ toml' = toml
      /\ DirOf[out] = None /\ cmd = "run" => "bare_output" \in Habits
      /\ out \in Sources /\ cmd # "check" => "source_as_output" \in Habits
      /\ \/ src # None /\ compile_file(cmd, result, src, out, made)
         \/ /\ src = None
            /\ dirs' = IF option = None /\ load_ghl_toml("output") # None
                       THEN dirs \cup {"bin"} ELSE dirs
            /\ last' = [result EXCEPT !.code = 1]
            /\ files' = files
  BY DEF compile
<1> DEFINE failed == [result EXCEPT !.code = 1]
           running(r) == [result EXCEPT !.ran = r]
<1>5. /\ result.cmd = cmd /\ result.src = src /\ result.out = out /\ result.code = 0
      /\ failed.cmd = cmd /\ failed.src = src /\ failed.out = out /\ failed.code = 1
      /\ \A r : /\ running(r).cmd = cmd /\ running(r).src = src /\ running(r).out = out
                /\ running(r).code = 0 /\ running(r).ran = r
  OBVIOUS
<1>6. CASE src = None
  <2>1. dirs \subseteq dirs' /\ dirs' \subseteq dirs \cup {"bin", "build"} /\ files' = files
        /\ last' = failed
    BY <1>4, <1>6 DEF compile_file
  <2> HIDE DEF named, src, out, made, result, failed
  <2> QED BY <1>1, <1>2, <1>4, <1>5, <2>1
<1>7. CASE src # None /\ compile_file(cmd, result, src, out, made)
  <2> DEFINE there == dirs \cup made \cup {"build"}
             exe == Exe(src, files[src][2])
             ran == running(exe)
  <2>1. /\ src # None
        /\ \/ dirs' = dirs \cup made /\ last' = failed /\ files' = files
           \/ dirs' = dirs \cup made /\ last' = result /\ files' = files /\ cmd = "check"
           \/ dirs' = there /\ last' = failed /\ files' = files
           \/ /\ dirs' = there /\ cmd # "check" /\ DirOf[out] \in there
              /\ files' = [files EXCEPT ![out] = exe]
              /\ last' = IF cmd = "run" /\ DirOf[out] # None THEN ran ELSE result
    <3> HIDE DEF named, src, out, made, result
    <3> QED BY <1>7 DEF compile_file, Checked_only, Linked, Program
  <2>2. /\ ran.cmd = cmd /\ ran.src = src /\ ran.out = out /\ ran.code = 0 /\ ran.ran = exe
    BY <1>5
  <2> HIDE DEF named, src, out, made, result, failed, running, ran, exe
  <2>3. dirs \subseteq dirs' /\ dirs' \subseteq dirs \cup {"bin", "build"}
    BY <1>3, <2>1
  <2>4. last' \in {failed, result, ran}
    BY <2>1
  <2>5. last'.cmd = cmd /\ last'.src = src /\ last'.out = out /\ last'.code \in {0, 1}
    BY <1>5, <2>2, <2>4
  <2>6. \/ files' = files /\ (last'.code = 1 \/ cmd = "check")
        \/ /\ src # None /\ cmd # "check" /\ DirOf[out] \in dirs'
           /\ files' = [files EXCEPT ![out] = exe]
           /\ cmd = "run" /\ DirOf[out] # None => last'.ran = exe
    <3>1. CASE last' = failed /\ files' = files
      BY <1>5, <3>1
    <3>2. CASE files' = files /\ cmd = "check"
      BY <3>2
    <3>3. CASE /\ dirs' = there /\ cmd # "check" /\ DirOf[out] \in there
               /\ files' = [files EXCEPT ![out] = exe]
               /\ last' = IF cmd = "run" /\ DirOf[out] # None THEN ran ELSE result
      <4> HIDE DEF there
      <4> QED BY <1>7, <2>2, <3>3
    <3> QED BY <2>1, <3>1, <3>2, <3>3
  <2> QED BY <1>1, <1>2, <1>4, <2>3, <2>5, <2>6 DEF exe
<1> QED BY <1>4, <1>6, <1>7

-----------------------------------------------------------------------------
(* The actions, one by one.                                                  *)

\* cmd_new leaves everything else in its place.
LEMMA NewIs ==
  ASSUME cmd_new
  PROVE  /\ dirs' = dirs \cup Places
         /\ last' = Did("new", 0)
         /\ files' = files \/ files' = [files EXCEPT !["src_main"] = Source("template")]
         /\ toml' = toml \/ toml' \in {template("bin_name"), template("bin_dir")}
         /\ Habits \cap {"unwritable", "trailing_slash"} = {} =>
              toml' = Template /\ files' = [files EXCEPT !["src_main"] = Source("template")]
<1>1. NewOutputs \subseteq {"bin_name", "bin_dir"}
      /\ ("trailing_slash" \notin Habits => NewOutputs = {"bin_name"})
  BY DEF NewOutputs
<1>2. PICK output \in NewOutputs :
        \/ toml' = template(output) /\ files' = [files EXCEPT !["src_main"] = Source("template")]
        \/ /\ "unwritable" \in Habits
           /\ \/ toml' = template(output) /\ UNCHANGED files
              \/ files' = [files EXCEPT !["src_main"] = Source("template")] /\ UNCHANGED toml
              \/ UNCHANGED <<files, toml>>
  BY DEF cmd_new
<1>3. dirs' = dirs \cup Places /\ last' = Did("new", 0)
  BY DEF cmd_new, Places
<1> QED BY <1>1, <1>2, <1>3 DEF Template

\* The fields of an answer,
LEMMA DidIs ==
  ASSUME NEW cmd, NEW code
  PROVE  /\ Did(cmd, code).cmd = cmd /\ Did(cmd, code).code = code
         /\ Did(cmd, code).plain = FALSE
  BY DEF Did, Nothing

\* and of no answer yet.
LEMMA NothingIs ==
  Nothing.cmd = "none" /\ Nothing.code = 0 /\ Nothing.plain = FALSE
  BY DEF Nothing

\* One path is written, in a directory that is there.
LEMMA Written ==
  ASSUME Housed, NEW p \in Paths, NEW content, files' = [files EXCEPT ![p] = content],
         dirs' \subseteq Places, dirs \subseteq dirs', content = Absent \/ DirOf[p] \in dirs'
  PROVE  Housed'
<1>1. files' = [q \in Paths |-> files'[q]] /\ files'[p] = content
      /\ \A q \in Paths \ {p} : files'[q] = files[q]
  BY DEF Housed
<1>2. \A q \in Paths : files'[q] # Absent => DirOf[q] \in dirs'
  BY <1>1 DEF Housed
<1> QED BY <1>1, <1>2 DEF Housed

\* The ghl.toml of a new project has lines of the two kinds.
LEMMA TemplateIs ==
  ASSUME NEW output \in {"bin_name", "bin_dir"}
  PROVE  template(output) \in Seq(EntryLines \cup OutputLines)
<1>1. Line("entry", "src_main") \in EntryLines
  BY DEF Line, EntryLines, Sources
<1>2. Line("output", output) \in OutputLines
  BY PathsAre DEF Line, OutputLines
<1> QED BY <1>1, <1>2 DEF template

\* cmd_new keeps the invariant, its files written or not.
LEMMA NewKept ==
  ASSUME Inv, cmd_new
  PROVE  Inv'
<1>1. dirs' = dirs \cup Places /\ dirs' = Places
  BY NewIs DEF Inv, Housed
<1>2. Housed'
  <2>1. CASE files' = files
    BY <1>1, <2>1 DEF Inv, Housed
  <2>2. CASE files' = [files EXCEPT !["src_main"] = Source("template")]
    <3>1. "src_main" \in Paths /\ DirOf["src_main"] \in dirs'
      BY <1>1, PathsAre, DirsAre DEF Places
    <3> QED BY <1>1, <2>2, <3>1, Written DEF Inv
  <2> QED BY <2>1, <2>2, NewIs
<1>3. Configured'
  BY NewIs, TemplateIs DEF Inv, Configured
<1>4. last'.code \in {0, 1}
  <2>1. last' = Did("new", 0)
    BY NewIs
  <2> QED BY <2>1, DidIs
<1> QED BY <1>2, <1>3, <1>4 DEF Inv

\* clean keeps it: it only empties two directories.
LEMMA CleanKept ==
  ASSUME Inv, clean
  PROVE  Inv'
<1>1. files' = [p \in Paths |-> cleaned(p)] /\ dirs' = dirs /\ toml' = toml
      /\ last' = Did("clean", 0)
  BY DEF clean
<1>2. \A p \in Paths : files'[p] # Absent => files[p] # Absent
  BY <1>1 DEF cleaned
<1>3. files' = [p \in Paths |-> files'[p]]
  BY <1>1
<1>4. Housed'
  BY <1>1, <1>2, <1>3 DEF Inv, Housed
<1>5. last'.code \in {0, 1}
  BY <1>1, DidIs
<1> QED BY <1>1, <1>4, <1>5 DEF Inv, Configured

\* So do build, run and check, whatever they are given.
LEMMA CompileKept ==
  ASSUME Inv, NEW cmd \in {"build", "run", "check"}, NEW source \in Arguments \cup {None},
         NEW option \in Outputs \cup {None}, compile(cmd, source, option)
  PROVE  Inv'
<1>1. PICK src \in Sources \cup {None}, out \in Paths :
           /\ dirs \subseteq dirs' /\ dirs' \subseteq dirs \cup {"bin", "build"}
           /\ toml' = toml
           /\ last'.code \in {0, 1}
           /\ \/ files' = files
              \/ /\ DirOf[out] \in dirs'
                 /\ files' = [files EXCEPT ![out] = Exe(src, files[src][2])]
  BY CompileIs
<1>2. dirs' \subseteq Places
  BY <1>1 DEF Inv, Housed, Places
<1>3. Housed'
  <2>1. CASE files' = files
    BY <1>1, <1>2, <2>1 DEF Inv, Housed
  <2>2. CASE DirOf[out] \in dirs' /\ files' = [files EXCEPT ![out] = Exe(src, files[src][2])]
    <3> QED BY <1>1, <1>2, <2>2, Written DEF Inv
  <2> QED BY <1>1, <2>1, <2>2
<1> QED BY <1>1, <1>3 DEF Inv, Configured

\* So does the user, with an editor, rm, cp and ghl.toml.
LEMMA UserKept ==
  ASSUME Inv,
         \/ \E p \in Sources : edit(p) \/ remove(p)
         \/ copy
         \/ \E entry \in Entries \cup {None} : configure(Line("entry", entry))
         \/ \E output \in TomlOutputs \cup {None} : configure(Line("output", output))
  PROVE  Inv'
<1>1. last' = Nothing
  BY DEF edit, remove, copy, configure, User
<1>2. last'.code \in {0, 1}
  BY <1>1, NothingIs
<1>3. \A p \in Sources : p \in Paths
  BY PathsAre DEF Sources
<1>4. ASSUME NEW p \in Sources, edit(p) PROVE Inv'
  <2>1. PICK text \in {"edited", "broken"} : files' = [files EXCEPT ![p] = Source(text)]
    BY <1>4 DEF edit
  <2>2. dirs' = dirs /\ toml' = toml /\ DirOf[p] \in dirs'
    BY <1>4 DEF edit
  <2>3. Housed'
    BY <1>3, <2>1, <2>2, Written DEF Inv, Housed
  <2> QED BY <1>2, <2>2, <2>3 DEF Inv, Configured
<1>5. ASSUME NEW p \in Sources, remove(p) PROVE Inv'
  <2>1. files' = [files EXCEPT ![p] = Absent] /\ dirs' = dirs /\ toml' = toml
    BY <1>5 DEF remove
  <2>2. Housed'
    BY <1>3, <2>1, Written DEF Inv, Housed
  <2> QED BY <1>2, <2>1, <2>2 DEF Inv, Configured
<1>6. CASE copy
  <2>1. dirs' = {None} \cup {DirOf[p] : p \in {q \in Paths : files[q] # Absent}}
        /\ files' = files /\ toml' = toml /\ None \in dirs
    BY <1>6 DEF copy, User
  <2>2. \A d \in dirs' : d \in dirs
    BY <2>1 DEF Inv, Housed
  <2>3. \A p \in Paths : files[p] # Absent => DirOf[p] \in dirs'
    BY <2>1
  <2>4. Housed'
    BY <2>1, <2>2, <2>3 DEF Inv, Housed
  <2> QED BY <1>2, <2>1, <2>4 DEF Inv, Configured
<1>7. ASSUME NEW line \in EntryLines \cup OutputLines, configure(line) PROVE Inv'
  <2>1. toml' = Append(toml, line) /\ dirs' = dirs /\ files' = files
    BY <1>7 DEF configure
  <2>2. Configured'
    BY <2>1 DEF Inv, Configured
  <2> QED BY <1>2, <2>1, <2>2 DEF Inv, Housed
<1>8. \A entry \in Entries \cup {None} : Line("entry", entry) \in EntryLines
  BY ProjectAssumption DEF Line, EntryLines
<1>9. \A output \in TomlOutputs \cup {None} : Line("output", output) \in OutputLines
  BY ProjectAssumption DEF Line, OutputLines
<1> QED BY <1>4, <1>5, <1>6, <1>7, <1>8, <1>9

\* It holds in an empty directory.
LEMMA ProjectInit == Init => Inv
<1> SUFFICES ASSUME Init PROVE Inv
  OBVIOUS
<1>1. Configured /\ last.code \in {0, 1}
  BY NothingIs DEF Init, Configured
<1>2. CASE dirs = {} /\ files = [p \in Paths |-> Absent]
  BY <1>1, <1>2 DEF Inv, Housed
<1>3. CASE dirs = {None}
           /\ files = [p \in Paths |-> IF p = "main" THEN Source("edited") ELSE Absent]
  BY <1>1, <1>3, DirsAre DEF Inv, Housed, Places
<1> QED BY <1>2, <1>3 DEF Init

\* Every command and every act of the user keeps it.
LEMMA ProjectNext == Inv /\ [Next]_vars => Inv'
<1> SUFFICES ASSUME Inv, [Next]_vars PROVE Inv'
  OBVIOUS
<1>1. CASE cmd_new
  BY <1>1, NewKept
<1>2. CASE clean
  BY <1>2, CleanKept
<1>3. CASE \E cmd \in {"build", "run", "check"}, source \in Arguments \cup {None},
              option \in Outputs \cup {None} : compile(cmd, source, option)
  BY <1>3, CompileKept
<1>4. CASE \/ \E p \in Sources : edit(p) \/ remove(p)
           \/ copy
           \/ \E entry \in Entries \cup {None} : configure(Line("entry", entry))
           \/ \E output \in TomlOutputs \cup {None} : configure(Line("output", output))
  BY <1>4, UserKept
<1>5. CASE UNCHANGED vars
  BY <1>5 DEF vars, Inv, Housed, Configured
<1> QED BY <1>1, <1>2, <1>3, <1>4, <1>5 DEF Next

\* The invariant of a project.
LEMMA ProjectInvariant == Spec => []Inv
  BY ProjectInit, ProjectNext, PTL DEF Spec

-----------------------------------------------------------------------------
(* The theorems.                                                             *)

\* What is in the directory lies in directories that are there, and ghl.toml
\* holds lines that load_ghl_toml understands.
THEOREM ProjectTypes == Spec => []TypeOK
<1>1. ASSUME Inv PROVE TypeOK
  <2>1. toml \in Seq([key : {"entry", "output"}, value : Paths \cup {None}])
    <3>1. EntryLines \cup OutputLines \subseteq [key : {"entry", "output"}, value : Paths \cup {None}]
      <4>1. \A p \in Sources : p \in Paths
        BY PathsAre DEF Sources
      <4> QED BY <4>1 DEF EntryLines, OutputLines
    <3> QED BY <1>1, <3>1, SeqMonotonic DEF Inv, Configured
  <2> QED BY <1>1, <2>1 DEF Inv, Housed, TypeOK, Places
<1> QED BY <1>1, ProjectInvariant, PTL

\* build, run and check without arguments, in a project as new made it.
LEMMA PlainIs ==
  ASSUME Inv, NEW cmd \in {"build", "run", "check"}, NEW source \in Arguments \cup {None},
         NEW option \in Outputs \cup {None}, compile(cmd, source, option),
         last'.plain, toml' = Template, Compiles(files'["src_main"])
  PROVE  /\ last'.code = 0
         /\ cmd # "check" => files'["bin_name"] = Exe("src_main", files'["src_main"][2])
<1> DEFINE named == source # None
           src == IF named THEN source ELSE Found
           out == Output(named, option)
           made == Ensured(cmd, named, option)
           result == [cmd |-> cmd, code |-> 0, plain |-> ~named /\ option = None,
                      src |-> src, out |-> out, ran |-> Absent]
           failed == [result EXCEPT !.code = 1]
           ran(r) == [result EXCEPT !.ran = r]
<1>1. toml = Template
  BY DEF compile
<1>2. \/ src # None /\ compile_file(cmd, result, src, out, made)
      \/ src = None /\ last' = failed
  BY DEF compile
<1>3. /\ failed.plain = (~named /\ option = None) /\ result.plain = (~named /\ option = None)
      /\ \A r : ran(r).plain = (~named /\ option = None) /\ ran(r).code = 0
      /\ result.code = 0
  OBVIOUS
<1>4. last' = failed \/ last' = result \/ \E r : last' = ran(r)
  <2>1. CASE src = None
    BY <1>2, <2>1 DEF compile_file
  <2>2. CASE compile_file(cmd, result, src, out, made)
    <3> HIDE DEF named, src, out, made, result
    <3> QED BY <2>2 DEF compile_file
  <2> QED BY <1>2, <2>1, <2>2
<1>5. ~named /\ option = None
  <2> HIDE DEF result, failed, ran, named
  <2> QED BY <1>3, <1>4
<1>6. src = "src_main"
  <2>1. load_ghl_toml("entry") = "src_main"
    BY <1>1, LoadTemplate
  <2> QED BY <1>5, <2>1 DEF Found, None
<1>7. out = "bin_name"
  <2>1. load_ghl_toml("output") = "bin_name"
    BY <1>1, LoadTemplate
  <2> QED BY <1>5, <2>1 DEF Output, None
<1>8. made = {"bin"}
  BY <1>5 DEF Ensured
<1> DEFINE there == dirs \cup made \cup {"build"}
           exe == Exe(src, files[src][2])
<1> HIDE DEF named, src, out, made, result, failed, ran
<1>9. \/ ~Compiles(files[src]) /\ files' = files
      \/ last' = result /\ cmd = "check"
      \/ DirOf[out] \notin there \/ out = "bin_dir"
      \/ /\ files' = [files EXCEPT ![out] = exe]
         /\ last' = IF cmd = "run" /\ DirOf[out] # None THEN ran(exe) ELSE result
  <2>1. src # None
    BY <1>6 DEF None
  <2>2. compile_file(cmd, result, src, out, made)
    BY <1>2, <2>1
  <2> QED BY <2>2 DEF compile_file, Checked_only, Linked, Program, ran
<1>10. DirOf[out] \in there /\ out # "bin_dir"
  BY <1>7, <1>8, DirsAre
<1>11. CASE ~Compiles(files[src]) /\ files' = files
  BY <1>6, <1>11
<1>12. CASE last' = result /\ cmd = "check"
  BY <1>3, <1>12
<1>13. CASE /\ files' = [files EXCEPT ![out] = exe]
            /\ last' = IF cmd = "run" /\ DirOf[out] # None THEN ran(exe) ELSE result
  <2> HIDE DEF exe
  <2>1. last'.code = 0
    BY <1>3, <1>13
  <2>2. files'["bin_name"] = exe /\ files'["src_main"] = files["src_main"]
    <3>1. files = [p \in Paths |-> files[p]] /\ "bin_name" \in Paths /\ "src_main" \in Paths
      BY PathsAre DEF Inv, Housed
    <3> QED BY <1>7, <1>13, <3>1
  <2> QED BY <1>6, <2>1, <2>2 DEF exe
<1> QED BY <1>9, <1>10, <1>11, <1>12, <1>13

\* As long as new can write its files and is given a name that does not end in
\* a slash, what it reports as created is there,
\* and the project it made builds without arguments whatever was cleaned,
\* edited, copied or built before: main makes bin before it calls gcc.
THEOREM NewProjectsBuild ==
  ASSUME Habits \cap {"unwritable", "trailing_slash"} = {}
  PROVE  Spec => []NewProjectBuilds
<1>1. Init => NewProjectBuilds
  BY NothingIs DEF Init, NewProjectBuilds
<1>2. Inv /\ NewProjectBuilds /\ [Next]_vars => NewProjectBuilds'
  <2> SUFFICES ASSUME Inv, NewProjectBuilds, [Next]_vars PROVE NewProjectBuilds'
    OBVIOUS
  <2>1. CASE cmd_new
    <3>1. toml' = Template /\ files' = [files EXCEPT !["src_main"] = Source("template")]
          /\ last' = Did("new", 0)
      BY <2>1, NewIs
    <3>2. files'["src_main"] = Source("template")
      BY <3>1, PathsAre DEF Inv, Housed
    <3>3. last'.plain = FALSE
      BY <3>1, DidIs
    <3> QED BY <3>1, <3>2, <3>3 DEF NewProjectBuilds
  <2>2. CASE clean
    <3>1. last' = Did("clean", 0)
      BY <2>2 DEF clean
    <3>2. last'.plain = FALSE /\ last'.cmd = "clean"
      BY <3>1, DidIs, ZenonT(60)
    <3> QED BY <3>2 DEF NewProjectBuilds
  <2>3. ASSUME NEW cmd \in {"build", "run", "check"}, NEW source \in Arguments \cup {None},
               NEW option \in Outputs \cup {None}, compile(cmd, source, option)
        PROVE  NewProjectBuilds'
    <3>1. last'.cmd = cmd
      BY <2>3, CompileIs
    <3>2. last'.plain /\ toml' = Template /\ Compiles(files'["src_main"]) =>
            /\ last'.code = 0
            /\ cmd # "check" => files'["bin_name"] = Exe("src_main", files'["src_main"][2])
      BY <2>3, PlainIs
    <3> QED BY <3>1, <3>2 DEF NewProjectBuilds, Compiles
  <2>4. CASE \/ \E p \in Sources : edit(p) \/ remove(p)
             \/ copy
             \/ \E entry \in Entries \cup {None} : configure(Line("entry", entry))
             \/ \E output \in TomlOutputs \cup {None} : configure(Line("output", output))
    <3>1. last' = Nothing
      BY <2>4 DEF edit, remove, copy, configure, User
    <3>2. last'.plain = FALSE /\ last'.cmd = "none"
      BY <3>1, NothingIs
    <3> QED BY <3>2 DEF NewProjectBuilds
  <2>5. CASE UNCHANGED vars
    BY <2>5 DEF vars, NewProjectBuilds
  <2> QED BY <2>1, <2>2, <2>3, <2>4, <2>5 DEF Next
<1> QED BY <1>1, <1>2, ProjectInvariant, PTL DEF Spec

\* Unless run is given an output without a directory, or a source is named as
\* the output, a build or a run that reports success has made its program
\* from the source as it is, and run has run that one.
THEOREM SuccessesAreReal ==
  ASSUME Habits \cap {"bare_output", "source_as_output"} = {}
  PROVE  Spec => []SuccessIsReal
<1>1. Init => SuccessIsReal
  BY NothingIs DEF Init, SuccessIsReal
<1>2. Inv /\ SuccessIsReal /\ [Next]_vars => SuccessIsReal'
  <2> SUFFICES ASSUME Inv, SuccessIsReal, [Next]_vars PROVE SuccessIsReal'
    OBVIOUS
  <2>1. CASE cmd_new \/ clean
    <3>1. last' = Did("new", 0) \/ last' = Did("clean", 0)
      BY <2>1, NewIs DEF clean
    <3>2. Did("new", 0).cmd = "new" /\ Did("clean", 0).cmd = "clean"
      BY DidIs
    <3>3. last'.cmd = "new" \/ last'.cmd = "clean"
      BY <3>1, <3>2
    <3> QED BY <3>3 DEF SuccessIsReal
  <2>2. ASSUME NEW cmd \in {"build", "run", "check"}, NEW source \in Arguments \cup {None},
               NEW option \in Outputs \cup {None}, compile(cmd, source, option)
        PROVE  SuccessIsReal'
    <3>1. PICK src \in Sources \cup {None}, out \in Paths :
           /\ last'.cmd = cmd /\ last'.src = src /\ last'.out = out
           /\ \/ files' = files /\ (last'.code = 1 \/ cmd = "check")
              \/ /\ src # None
                 /\ files' = [files EXCEPT ![out] = Exe(src, files[src][2])]
                 /\ cmd = "run" /\ DirOf[out] # None => last'.ran = Exe(src, files[src][2])
                 /\ DirOf[out] \in dirs'
           /\ DirOf[out] = None /\ cmd = "run" => "bare_output" \in Habits
           /\ out \in Sources /\ cmd # "check" => "source_as_output" \in Habits
      BY <2>2, CompileIs
    <3> SUFFICES ASSUME cmd # "check", last'.code = 0
                 PROVE  /\ files'[out] = Exe(src, files'[src][2])
                        /\ cmd = "run" => last'.ran = files'[out]
      BY <3>1 DEF SuccessIsReal
    <3>2. src # None /\ files' = [files EXCEPT ![out] = Exe(src, files[src][2])]
          /\ (cmd = "run" /\ DirOf[out] # None => last'.ran = Exe(src, files[src][2]))
      BY <3>1
    <3>3. src \in Sources /\ src # out /\ src \in Paths /\ out \in Paths
      BY <3>1, <3>2, PathsAre DEF Sources
    <3>4. files'[out] = Exe(src, files[src][2]) /\ files'[src] = files[src]
      BY <3>2, <3>3 DEF Inv, Housed
    <3>5. cmd = "run" => DirOf[out] # None
      BY <3>1
    <3> QED BY <3>2, <3>4, <3>5
  <2>3. CASE \/ \E p \in Sources : edit(p) \/ remove(p)
             \/ copy
             \/ \E entry \in Entries \cup {None} : configure(Line("entry", entry))
             \/ \E output \in TomlOutputs \cup {None} : configure(Line("output", output))
    <3>1. last' = Nothing
      BY <2>3 DEF edit, remove, copy, configure, User
    <3>2. last'.cmd = "none"
      BY <3>1, NothingIs
    <3> QED BY <3>2 DEF SuccessIsReal
  <2>4. CASE UNCHANGED vars
    BY <2>4 DEF vars, SuccessIsReal
  <2> QED BY <2>1, <2>2, <2>3, <2>4 DEF Next
<1> QED BY <1>1, <1>2, ProjectInvariant, PTL DEF Spec

\* Where the user keeps no sources in build and bin, there are none.
NoneInBuild ==
  \A p \in Sources : DirOf[p] \in {"build", "bin"} => files[p] # Source("edited")

\* Only the user writes sources, besides new, and new writes them to src.
LEMMA NoneInBuildNext ==
  ASSUME "source_in_build" \notin Habits, Inv, NoneInBuild, [Next]_vars
  PROVE  NoneInBuild'
<1> SUFFICES ASSUME NEW p \in Sources, DirOf[p] \in {"build", "bin"}
             PROVE  files'[p] # Source("edited")
  BY DEF NoneInBuild
<1>1. /\ files[p] # Source("edited") /\ p \in Paths /\ p # "src_main"
      /\ files = [q \in Paths |-> files[q]]
  BY PathsAre, DirsAre DEF NoneInBuild, Sources, Inv, Housed
<1>2. Absent # Source("edited") /\ \A t : Source(t) = Source("edited") => t = "edited"
  BY ContentsAre
<1>3. CASE cmd_new
  BY <1>1, <1>3, NewIs
<1>4. CASE clean
  BY <1>1, <1>2, <1>4 DEF clean, cleaned
<1>5. ASSUME NEW cmd \in {"build", "run", "check"}, NEW source \in Arguments \cup {None},
             NEW option \in Outputs \cup {None}, compile(cmd, source, option)
      PROVE  files'[p] # Source("edited")
  <2>1. PICK src \in Sources \cup {None}, out \in Paths :
         files' = files \/ files' = [files EXCEPT ![out] = Exe(src, files[src][2])]
    BY <1>5, CompileIs
  <2>2. Exe(src, files[src][2]) # Source("edited")
    BY ContentsAre
  <2> HIDE DEF Exe
  <2> QED BY <1>1, <2>1, <2>2
<1>6. ASSUME NEW q \in Sources, edit(q) PROVE files'[p] # Source("edited")
  <2>1. q # p /\ \E content : files' = [files EXCEPT ![q] = content]
    BY <1>6 DEF edit
  <2> QED BY <1>1, <2>1
<1>7. ASSUME NEW q \in Sources, remove(q) PROVE files'[p] # Source("edited")
  BY <1>1, <1>2, <1>7 DEF remove
<1>8. CASE \/ copy
           \/ \E entry \in Entries \cup {None} : configure(Line("entry", entry))
           \/ \E output \in TomlOutputs \cup {None} : configure(Line("output", output))
           \/ UNCHANGED vars
  BY <1>1, <1>8 DEF copy, configure, vars
<1> QED BY <1>3, <1>4, <1>5, <1>6, <1>7, <1>8 DEF Next

\* Unless new is called on a directory that is there, a source is named as an
\* output, or one is kept in build or bin, no command changes a source the
\* user wrote, whatever else ghl.toml and the command line name.
THEOREM EditsAreKept ==
  ASSUME Habits \cap {"new_again", "source_as_output", "source_in_build"} = {}
  PROVE  Spec => EditsKept
<1> DEFINE Keeping ==
      last' # Nothing => \A p \in Sources : files[p] = Source("edited") => files'[p] = files[p]
<1>1. ASSUME Inv, NoneInBuild, [Next]_vars PROVE Keeping \/ UNCHANGED vars
  <2> SUFFICES ASSUME last' # Nothing, NEW p \in Sources, files[p] = Source("edited"),
                      ~UNCHANGED vars
               PROVE  files'[p] = files[p]
    OBVIOUS
  <2>1. p \in Paths /\ files[p] # Absent
    BY PathsAre, ContentsAre DEF Sources
  <2>2. CASE cmd_new
    <3>1. dirs = {}
      BY <2>2 DEF cmd_new
    <3>2. DirOf[p] \in dirs
      BY <1>1, <2>1 DEF Inv, Housed
    <3> QED BY <3>1, <3>2
  <2>3. CASE clean
    <3>1. files'[p] = cleaned(p)
      BY <2>1, <2>3 DEF clean
    <3>2. DirOf[p] \notin {"build", "bin"}
      BY <1>1 DEF NoneInBuild
    <3> QED BY <3>1, <3>2 DEF cleaned
  <2>4. ASSUME NEW cmd \in {"build", "run", "check"}, NEW source \in Arguments \cup {None},
               NEW option \in Outputs \cup {None}, compile(cmd, source, option)
        PROVE  files'[p] = files[p]
    <3>1. PICK src \in Sources \cup {None}, out \in Paths :
           /\ files' = files \/ (cmd # "check" /\ files' = [files EXCEPT ![out] = Exe(src, files[src][2])])
           /\ out \in Sources /\ cmd # "check" => "source_as_output" \in Habits
      BY <1>1, <2>4, CompileIs
    <3> QED BY <1>1, <2>1, <3>1 DEF Inv, Housed
  <2>5. ~(\/ \E q \in Sources : edit(q) \/ remove(q)
          \/ copy
          \/ \E entry \in Entries \cup {None} : configure(Line("entry", entry))
          \/ \E output \in TomlOutputs \cup {None} : configure(Line("output", output)))
    BY DEF edit, remove, copy, configure, User
  <2> QED BY <1>1, <2>2, <2>3, <2>4, <2>5 DEF Next
<1>2. Inv /\ NoneInBuild /\ [Next]_vars => [Keeping]_vars
  BY <1>1
<1>3. Init => NoneInBuild
  <2> SUFFICES ASSUME Init, NEW p \in Sources, DirOf[p] \in {"build", "bin"}
               PROVE  files[p] # Source("edited")
    BY DEF NoneInBuild
  <2>1. p \in Paths
    BY PathsAre DEF Sources
  <2>2. p # "main"
    BY DirsAre DEF None
  <2>3. files[p] = Absent
    BY <2>1, <2>2 DEF Init
  <2> QED BY <2>3, ContentsAre
<1>4. Inv /\ NoneInBuild /\ [Next]_vars => NoneInBuild'
  BY NoneInBuildNext
<1> QED BY <1>2, <1>3, <1>4, ProjectInvariant, PTL DEF Spec, EditsKept
=============================================================================
