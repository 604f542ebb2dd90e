------------------------------ MODULE Project -------------------------------
(***************************************************************************)
(* The commands of ghlc (main and cmd_new in compiler/src/main.c) on the   *)
(* directory of one project: new from the directory above, build, run,     *)
(* check and clean from inside, with a user who edits and removes files    *)
(* between them.  compile_file is the module Driver's; here it is what it  *)
(* leaves in the directory.                                                *)
(***************************************************************************)
EXTENDS Naturals, Sequences

CONSTANTS
  Arguments,  (* the source files given on the command line                 *)
  Outputs,    (* what -o is given                                           *)
  Entries,    (* what a user may write to ghl.toml as the entry ...         *)
  TomlOutputs,(* ... and as the output                                      *)
  MaxLines,   (* bound on the lines of ghl.toml                             *)
  Habits      (* which of the situations in AllHabits occur                 *)

AllHabits ==
  {"new_again",           (* new on a directory that is there               *)
   "unwritable",          (* fopen fails in new                             *)
   "trailing_slash",      (* new demo/, of which basename_of makes nothing  *)
   "bare_output",         (* run -o with a name without a directory         *)
   "source_as_output",    (* -o or ghl.toml name a source as the output     *)
   "source_in_build"}     (* the user keeps a source in build or bin        *)

None == ""

\* The directory of each path a command may meet, None for the project's own.
\* bin_dir is "bin/", a path that is no file.
DirOf ==
  [src_main |-> "src", main |-> None, other |-> None, in_build |-> "build",
   bin_name |-> "bin", bin_app |-> "bin", bin_dir |-> "bin", build_out |-> "build",
   elsewhere |-> "out", bare |-> None]
Paths == DOMAIN DirOf
Sources == {"src_main", "main", "other", "in_build"}

ASSUME ProjectAssumption ==
  /\ Arguments \subseteq Sources
  /\ Outputs \cup TomlOutputs \subseteq Paths
  /\ Entries \subseteq Sources
  /\ Habits \subseteq AllHabits
  /\ MaxLines \in Nat

VARIABLES
  dirs,       (* the directories that are there, None for the project's own *)
  files,      (* the content of each path                                   *)
  toml,       (* the lines of ghl.toml, <<>> also if there is none          *)
  last        (* what the last command did                                  *)

vars == <<dirs, files, toml, last>>

Absent == <<>>
Source(text) == <<"source", text>>
Exe(path, text) == <<"exe", path, text>>
Compiles(content) == content \in {Source("template"), Source("edited")}

Nothing ==
  [cmd |-> "none", code |-> 0, plain |-> FALSE, src |-> None, out |-> None, ran |-> Absent]
Did(cmd, code) == [Nothing EXCEPT !.cmd = cmd, !.code = code]

\* No project yet, or a directory with one file.
Init ==
  /\ \/ dirs = {} /\ files = [p \in Paths |-> Absent]
     \/ dirs = {None} /\ files = [p \in Paths |-> IF p = "main" THEN Source("edited") ELSE Absent]
  /\ toml = <<>>
  /\ last = Nothing

Line(key, value) == [key |-> key, value |-> value]
template(output) == <<Line("entry", "src_main"), Line("output", output)>>
Template == template("bin_name")

\* "bin/" and what basename_of leaves of the name: what follows its last
\* slash, which is nothing if the slash is at the end.
NewOutputs == {"bin_name"} \cup {p \in {"bin_dir"} : "trailing_slash" \in Habits}

\* cmd_new.  What fopen cannot open is left out, and never mentioned.
cmd_new ==
  /\ dirs # {} => "new_again" \in Habits
  /\ dirs' = dirs \cup {None, "src", "include", "assets", "build", "bin"}
  /\ \E written \in {template(output) : output \in NewOutputs} :
       \/ toml' = written /\ files' = [files EXCEPT !["src_main"] = Source("template")]
       \/ /\ "unwritable" \in Habits
          /\ \/ toml' = written /\ UNCHANGED files
             \/ files' = [files EXCEPT !["src_main"] = Source("template")] /\ UNCHANGED toml
             \/ UNCHANGED <<files, toml>>
  /\ last' = Did("new", 0)

\* Slip: the sources are taken for artifacts.
cleaned_all(p) == IF DirOf[p] # None THEN Absent ELSE files[p]

\* rm -rf build/* bin/*
cleaned(p) == IF DirOf[p] \in {"build", "bin"} THEN Absent ELSE files[p]

clean ==
  /\ None \in dirs
  /\ files' = [p \in Paths |-> cleaned(p)]
  /\ last' = Did("clean", 0)
  /\ UNCHANGED <<dirs, toml>>

\* load_ghl_toml: the last line with a key wins; an empty value is no match
\* of sscanf, and the line is skipped.
load_ghl_toml(key) ==
  LET hits == {i \in DOMAIN toml : toml[i].key = key /\ toml[i].value # None}
      final == {i \in hits : \A j \in hits : j <= i}
  IN  IF final = {} THEN None ELSE toml[CHOOSE i \in final : TRUE].value

\* main, without a source: ghl.toml, then the usual places.
Found ==
  CASE load_ghl_toml("entry") # None -> load_ghl_toml("entry")
    [] load_ghl_toml("entry") = None /\ files["src_main"] # Absent -> "src_main"
    [] load_ghl_toml("entry") = None /\ files["src_main"] = Absent /\ files["main"] # Absent
         -> "main"
    [] OTHER -> None

\* Slip: bin is made for the default output only.
Ensured_default(cmd, named, option) ==
  CASE option = None /\ ~named -> IF load_ghl_toml("output") = None THEN {"bin"} ELSE {}
    [] option = None /\ named /\ cmd # "check" -> {"build"}
    [] OTHER -> {}

\* The directory main makes before it compiles: bin if nothing is named,
\* wherever the output of ghl.toml is.
Ensured(cmd, named, option) ==
  CASE option = None /\ ~named -> {"bin"}
    [] option = None /\ named /\ cmd # "check" -> {"build"}
    [] OTHER -> {}

\* The output: -o, then ghl.toml's if no source was named, then a default.
Output(named, option) ==
  CASE option # None -> option
    [] option = None /\ named -> "build_out"
    [] OTHER -> IF load_ghl_toml("output") # None THEN load_ghl_toml("output") ELSE "bin_app"

Checked_only(cmd) == cmd = "check"

\* Slip: gcc is not called if the program is there.
Program_stale(src, out) == IF files[out] # Absent THEN files[out] ELSE Exe(src, files[src][2])

Program(src, out) == Exe(src, files[src][2])

\* Slip: gcc is taken to make the directory it needs.
Linked_always(out, there) == TRUE

\* gcc writes the program only where there is a directory for it, and over
\* whatever file is there.
Linked(out, there) == DirOf[out] \in there /\ out # "bin_dir"

\* compile_file: what it checks, then build/ghl_out.c, gcc and the program.
\* The shell finds a program without a directory in its path, not here.
compile_file(cmd, result, src, out, made) ==
  LET there == dirs \cup made \cup {"build"}
      exe == Program(src, out)
  IN  \/ /\ ~Compiles(files[src])
         /\ dirs' = dirs \cup made
         /\ last' = [result EXCEPT !.code = 1]
         /\ UNCHANGED files
      \/ /\ Compiles(files[src]) /\ Checked_only(cmd)
         /\ dirs' = dirs \cup made
         /\ last' = result
         /\ UNCHANGED files
      \/ /\ Compiles(files[src]) /\ ~Checked_only(cmd)
         /\ ~Linked(out, there)
         /\ dirs' = there
         /\ last' = [result EXCEPT !.code = 1]
         /\ UNCHANGED files
      \/ /\ Compiles(files[src]) /\ ~Checked_only(cmd)
         /\ Linked(out, there)
         /\ dirs' = there
         /\ files' = [files EXCEPT ![out] = exe]
         /\ last' = IF cmd = "run" /\ DirOf[out] # None THEN [result EXCEPT !.ran = exe]
                    ELSE result

\* main for build, run and check; source is the last one named, option what
\* follows -o, each None if there is none.
compile(cmd, source, option) ==
  LET named == source # None
      src == IF named THEN source ELSE Found
      out == Output(named, option)
      result == [cmd |-> cmd, code |-> 0, plain |-> ~named /\ option = None,
                 src |-> src, out |-> out, ran |-> Absent]
  IN  /\ None \in dirs
      /\ DirOf[out] = None /\ cmd = "run" => "bare_output" \in Habits
      /\ out \in Sources /\ cmd # "check" => "source_as_output" \in Habits
      /\ \/ src # None /\ compile_file(cmd, result, src, out, Ensured(cmd, named, option))
         \/ /\ src = None
            /\ dirs' = IF option = None /\ load_ghl_toml("output") # None
                       THEN dirs \cup {"bin"} ELSE dirs
            /\ last' = [result EXCEPT !.code = 1]
            /\ UNCHANGED files
      /\ UNCHANGED toml
-----------------------------------------------------------------------------
\* The user: writes a source, removes one, adds a line to ghl.toml, or copies
\* the project by a tool that keeps no empty directories.
User == None \in dirs /\ last' = Nothing

edit(p) ==
  /\ User /\ DirOf[p] \in dirs
  /\ DirOf[p] \in {"build", "bin"} => "source_in_build" \in Habits
  /\ \E text \in {"edited", "broken"} : files' = [files EXCEPT ![p] = Source(text)]
  /\ UNCHANGED <<dirs, toml>>

remove(p) ==
  /\ User
  /\ files' = [files EXCEPT ![p] = Absent]
  /\ UNCHANGED <<dirs, toml>>

configure(line) ==
  /\ User /\ Len(toml) < MaxLines
  /\ toml' = Append(toml, line)
  /\ UNCHANGED <<dirs, files>>

copy ==
  /\ User
  /\ dirs' = {None} \cup {DirOf[p] : p \in {q \in Paths : files[q] # Absent}}
  /\ UNCHANGED <<files, toml>>

Next ==
  \/ cmd_new \/ clean \/ copy
  \/ \E cmd \in {"build", "run", "check"}, source \in Arguments \cup {None},
        option \in Outputs \cup {None} : compile(cmd, source, option)
  \/ \E p \in Sources : edit(p) \/ remove(p)
  \/ \E entry \in Entries \cup {None} : configure(Line("entry", entry))
  \/ \E output \in TomlOutputs \cup {None} : configure(Line("output", output))

Spec == Init /\ [][Next]_vars
-----------------------------------------------------------------------------
TypeOK ==
  /\ dirs \subseteq {None, "src", "include", "assets", "build", "bin"}
  /\ \A p \in Paths : files[p] # Absent => DirOf[p] \in dirs
  /\ toml \in Seq([key : {"entry", "output"}, value : Paths \cup {None}])
  /\ last.code \in {0, 1}

\* What new reports as created is there.  In a project as new made it, build,
\* run and check succeed without arguments and build src/main.ghl into bin,
\* whatever was cleaned, copied without its empty directories, or built to
\* other places before, as long as the source compiles.
NewProjectBuilds ==
  /\ last.cmd = "new" => toml = Template /\ files["src_main"] = Source("template")
  /\ last.plain /\ toml = Template /\ Compiles(files["src_main"]) =>
       /\ last.code = 0
       /\ last.cmd # "check" => files["bin_name"] = Exe("src_main", files["src_main"][2])

\* After a build or a run that reports success there is a program at the
\* output, made from the source as it is now; and that is what ran.
SuccessIsReal ==
  last.cmd \in {"build", "run"} /\ last.code = 0 =>
    /\ files[last.out] = Exe(last.src, files[last.src][2])
    /\ last.cmd = "run" => last.ran = files[last.out]

\* No command changes a source the user wrote, as long as the user asks for no
\* new over what is there, for no source as the output, which gcc overwrites
\* like any file, and keeps none where clean deletes and builds write.
EditsKept ==
  [][last' # Nothing =>
       \A p \in Sources : files[p] = Source("edited") => files'[p] = files[p]]_vars
=============================================================================
