------------------------------- MODULE Driver -------------------------------
(***************************************************************************)
(* compile_file of compiler/src/main.c: one run of ghlc from reading the   *)
(* source to running the result, and several runs that share a directory.  *)
(*                                                                         *)
(* The stages before code generation are their outcome: what they report   *)
(* into the diagnostic engine.  A run writes its C text to                 *)
(* build/ghl_out.c, which is one file for every run in the directory, has  *)
(* gcc compile it and gcc write the executable.  The text a run generates  *)
(* is the run itself; gcc may reject it.  A run can be killed.  Each run   *)
(* asks for an executable of its own (-o).                                 *)
(***************************************************************************)
EXTENDS Naturals, Sequences

CONSTANTS
  Runs,        (* runs of ghlc in one directory                             *)
  CheckRuns,   (* those that are "ghlc check"                               *)
  RunRuns,     (* those that are "ghlc run"                                 *)
  Modules,     (* paths of imported modules                                 *)
  MaxImports,  (* bound on the imports of the program of each run           *)
  Overlap      (* whether a run may start while another one is going on     *)

None == "none"      (* no file, no content                                  *)
Truncated == "truncated"
Mixed == "mixed"    (* the texts of two runs, one over the other            *)
Main == "main"      (* the path of the program itself                       *)
Dead == "dead"      (* what is read from memory whose lifetime is over      *)

ASSUME DriverAssumption ==
  /\ CheckRuns \subseteq Runs /\ RunRuns \subseteq Runs
  /\ CheckRuns \cap RunRuns = {}
  /\ {None, Truncated, Mixed} \cap Runs = {}
  /\ {None, Dead} \cap Modules = {}
  /\ MaxImports \in [Runs -> Nat]
  /\ Overlap \in BOOLEAN

VARIABLES
  stage,      (* where each run is                                          *)
  held,       (* what it has and not freed: src, arena, the engine diag,    *)
              (* c_code, the texts msrc of modules, and the buffers strings *)
              (* of string literals                                         *)
  imports,    (* the imports compile_file has not resolved yet              *)
  merged,     (* the modules merge_program has merged                       *)
  modpath,    (* what was last written to the buffer of that name, a local  *)
              (* of the import loop                                         *)
  diags,      (* the diagnostics reported: the file each is about, and      *)
              (* whether its filename points to modpath or to src_path      *)
  printed,    (* the file names diag_print_all has printed                  *)
  status,     (* the exit status: "success" is 0, "failure" 1               *)
  c_file,     (* build/ghl_out.c: None, Truncated, a run's text or Mixed    *)
  object,     (* what gcc read, for each run                                *)
  exe,        (* the executable each run asked for: whose program it is     *)
  ran         (* the program each "ghlc run" started                        *)

vars == <<stage, held, imports, merged, modpath, diags, printed, status,
          c_file, object, exe, ran>>

disk == <<c_file, object, exe, ran>>
frontend == <<imports, merged, modpath, diags>>

Init ==
  /\ stage = [r \in Runs |-> "new"]
  /\ held = [r \in Runs |-> {}]
  /\ imports = [r \in Runs |-> <<>>]
  /\ merged = [r \in Runs |-> {}]
  /\ modpath = [r \in Runs |-> None]
  /\ diags = [r \in Runs |-> <<>>]
  /\ printed = [r \in Runs |-> <<>>]
  /\ status = [r \in Runs |-> None]
  /\ c_file = None
  /\ object = [r \in Runs |-> None]
  /\ exe = [r \in Runs |-> None]
  /\ ran = [r \in Runs |-> None]

At(r, s) == stage[r] = s
Goto(r, s) == stage' = [stage EXCEPT ![r] = s]
Over(r) == stage[r] \in {"exit", "killed"}

diag_has_errors(r) == diags[r] # <<>>

\* Slip: the diagnostics of the program carry no file name.
AboutMain_unnamed == [file |-> None, in_buffer |-> FALSE]

\* Stages report about the program, whose path stays, or about a module,
\* whose path is in the buffer only until the next import, at most until the
\* loop ends, and with it the lifetime of the buffer.
AboutMain == [file |-> Main, in_buffer |-> FALSE]

\* Slip: the module's lexer is given the path of the program.
About_as_main(m) == [file |-> m, in_buffer |-> FALSE]

About(m) == [file |-> m, in_buffer |-> TRUE]
report(r, d) == diags' = [diags EXCEPT ![r] = Append(@, d)]

\* The end of compile_file: what is freed, and the exit status.
Return(r, freed, s) ==
  /\ Goto(r, "exit")
  /\ held' = [held EXCEPT ![r] = @ \ freed]
  /\ status' = [status EXCEPT ![r] = s]

\* diag_print_all, which prints names in the buffer only behind the loop, when
\* the buffer is no more: what is read there is undefined, the path last
\* written or anything else.
diag_print_all(r) ==
  \E found \in {modpath[r], Dead} :
    printed' = [printed EXCEPT ![r] =
                  [i \in DOMAIN diags[r] |->
                     IF diags[r][i].in_buffer THEN found ELSE Main]]

read_source(r) ==
  /\ At(r, "new")
  /\ Overlap \/ \A q \in Runs \ {r} : At(q, "new") \/ Over(q)
  /\ \/ /\ Goto(r, "arena")
        /\ held' = [held EXCEPT ![r] = {"src"}]
        /\ UNCHANGED status
     \/ Return(r, {}, "failure")
  /\ UNCHANGED <<frontend, printed, disk>>

\* Slip: the source text is not freed when there is no arena.
create_arena_leaks(r) ==
  /\ At(r, "arena")
  /\ \/ /\ Goto(r, "parse")
        /\ held' = [held EXCEPT ![r] = @ \cup {"arena", "diag"}]
        /\ UNCHANGED status
     \/ Return(r, {}, "failure")
  /\ UNCHANGED <<frontend, printed, disk>>

create_arena(r) ==
  /\ At(r, "arena")
  /\ \/ /\ Goto(r, "parse")
        /\ held' = [held EXCEPT ![r] = @ \cup {"arena", "diag"}]
        /\ UNCHANGED status
     \/ Return(r, {"src"}, "failure")
  /\ UNCHANGED <<frontend, printed, disk>>

\* What lexing a text allocates besides tokens in the arena: a buffer for each
\* string literal, if there is one.
Lexed(has) == has \cup {"strings"}

\* parse_program over the source, with what its lexer allocates and reports.
parse_main(r) ==
  /\ At(r, "parse")
  /\ Goto(r, "gate_parse")
  /\ \E n \in 0..MaxImports[r] : \E paths \in [1..n -> Modules] :
       imports' = [imports EXCEPT ![r] = paths]
  /\ report(r, AboutMain) \/ UNCHANGED diags
  /\ UNCHANGED held \/ held' = [held EXCEPT ![r] = Lexed(@)]
  /\ UNCHANGED <<merged, modpath, printed, status, disk>>

\* Slip: nothing is asked after the type checker.
gate_two(r) ==
  \/ /\ At(r, "gate_typecheck")
     /\ Goto(r, "checked")
     /\ UNCHANGED <<held, printed, status, frontend, disk>>
  \/ \E g \in {<<"gate_parse", "import">>, <<"gate_import", "typecheck">>} :
       /\ At(r, g[1])
       /\ \/ /\ diag_has_errors(r)
             /\ diag_print_all(r)
             /\ Return(r, {"src", "arena", "diag"}, "failure")
          \/ /\ ~diag_has_errors(r)
             /\ Goto(r, g[2])
             /\ UNCHANGED <<held, printed, status>>
       /\ UNCHANGED <<frontend, disk>>

\* The three times compile_file asks diag_has_errors.
gate(r) ==
  \E g \in {<<"gate_parse", "import">>, <<"gate_import", "typecheck">>,
            <<"gate_typecheck", "checked">>} :
    /\ At(r, g[1])
    /\ \/ /\ diag_has_errors(r)
          /\ diag_print_all(r)
          /\ Return(r, {"src", "arena", "diag"}, "failure")
       \/ /\ ~diag_has_errors(r)
          /\ Goto(r, g[2])
          /\ UNCHANGED <<held, printed, status>>
    /\ UNCHANGED <<frontend, disk>>

\* One round of the import loop: the path is resolved, which writes the
\* buffer, the module read, parsed and merged.  A module that is not found
\* or not readable is reported at the import and skipped; the paths tried are
\* written to the buffer as well.
import_module(r) ==
  /\ At(r, "import")
  /\ imports[r] # <<>>
  /\ LET m == Head(imports[r])
     IN  /\ modpath' = [modpath EXCEPT ![r] = m]
         /\ \/ report(r, AboutMain) /\ UNCHANGED <<held, merged>>
            \/ /\ report(r, About(m)) \/ UNCHANGED diags
               /\ \E has \in {held[r], Lexed(held[r])} :
                    held' = [held EXCEPT ![r] = has \cup {"msrc"}]
               /\ merged' = [merged EXCEPT ![r] = @ \cup {m}]
  /\ imports' = [imports EXCEPT ![r] = Tail(@)]
  /\ UNCHANGED <<stage, printed, status, disk>>

imports_done(r) ==
  /\ At(r, "import")
  /\ imports[r] = <<>>
  /\ Goto(r, "gate_import")
  /\ UNCHANGED <<held, frontend, printed, status, disk>>

\* The checker reports at most one error about each file here; what tells
\* files apart does not depend on how many there are.
typecheck(r) ==
  /\ At(r, "typecheck")
  /\ Goto(r, "gate_typecheck")
  /\ \/ UNCHANGED diags
     \/ report(r, AboutMain)
     \/ \E m \in merged[r] : report(r, About(m))
  /\ UNCHANGED <<held, imports, merged, modpath, printed, status, disk>>

\* check ends here, build and run generate the C text.
checked(r) ==
  /\ At(r, "checked")
  /\ \/ r \in CheckRuns /\ Return(r, {"src", "arena", "diag"}, "success")
     \/ /\ r \notin CheckRuns
        /\ Goto(r, "open")
        /\ held' = [held EXCEPT ![r] = @ \cup {"c_code"}]
        /\ UNCHANGED status
  /\ UNCHANGED <<frontend, printed, disk>>

\* Slip: a file that cannot be opened is compiled as it is.
open_c_file_anyway(r) ==
  /\ At(r, "open")
  /\ \/ c_file' = Truncated /\ Goto(r, "write")
     \/ UNCHANGED c_file /\ Goto(r, "gcc")
  /\ UNCHANGED <<held, status, frontend, printed, object, exe, ran>>

\* fopen(.., "w") truncates the file, or fails.
open_c_file(r) ==
  /\ At(r, "open")
  /\ \/ /\ c_file' = Truncated
        /\ Goto(r, "write")
        /\ UNCHANGED <<held, status>>
     \/ /\ Return(r, {"src", "arena", "diag", "c_code"}, "failure")
        /\ UNCHANGED c_file
  /\ UNCHANGED <<frontend, printed, object, exe, ran>>

\* fputs and fclose: the text reaches the file from its first byte on; over
\* another run's text, the end of a longer one stays behind it.  Nobody asks
\* whether they succeed; on a full disk the file is left cut.
write_c_file(r) ==
  /\ At(r, "write")
  /\ c_file' \in IF c_file = Truncated THEN {r, Truncated} ELSE {r, Mixed}
  /\ held' = [held EXCEPT ![r] = @ \ {"c_code"}]
  /\ Goto(r, "gcc")
  /\ UNCHANGED <<frontend, printed, status, object, exe, ran>>

\* gcc reads the file that is there; it accepts a whole text or not, and it
\* never accepts a cut or a mixed one.
gcc_compile(r) ==
  /\ At(r, "gcc")
  /\ \/ /\ c_file \in Runs
        /\ object' = [object EXCEPT ![r] = c_file]
        /\ Goto(r, "link")
        /\ UNCHANGED <<held, status>>
     \/ /\ Return(r, {"src", "arena", "diag"}, "failure")
        /\ UNCHANGED object
  /\ UNCHANGED <<frontend, printed, c_file, exe, ran>>

gcc_link(r) ==
  /\ At(r, "link")
  /\ \/ /\ exe' = [exe EXCEPT ![r] = object[r]]
        /\ Goto(r, "built")
        /\ UNCHANGED <<held, status>>
     \/ /\ Return(r, {"src", "arena", "diag"}, "failure")
        /\ UNCHANGED exe
  /\ UNCHANGED <<frontend, printed, c_file, object, ran>>

\* "Build succeeded", and "ghlc run" starts the executable.
built(r) ==
  /\ At(r, "built")
  /\ ran' = IF r \in RunRuns THEN [ran EXCEPT ![r] = exe[r]] ELSE ran
  /\ Return(r, {"src", "arena", "diag"}, "success")
  /\ UNCHANGED <<frontend, printed, c_file, object, exe>>

\* The run is killed; its memory goes with it, its files stay.
kill(r) ==
  /\ ~Over(r) /\ ~At(r, "new")
  /\ Goto(r, "killed")
  /\ held' = [held EXCEPT ![r] = {}]
  /\ UNCHANGED <<frontend, printed, status, disk>>

compile_file(r) ==
  \/ read_source(r) \/ create_arena(r) \/ parse_main(r) \/ gate(r)
  \/ import_module(r) \/ imports_done(r) \/ typecheck(r) \/ checked(r)
  \/ open_c_file(r) \/ write_c_file(r) \/ gcc_compile(r) \/ gcc_link(r) \/ built(r)

Next == \E r \in Runs : compile_file(r) \/ kill(r)

Spec == Init /\ [][Next]_vars
-----------------------------------------------------------------------------

Stages == {"new", "arena", "parse", "gate_parse", "import", "gate_import",
           "typecheck", "gate_typecheck", "checked", "open", "write", "gcc",
           "link", "built", "exit", "killed"}
Allocations == {"src", "arena", "diag", "c_code", "msrc", "strings"}
Files == Modules \cup {Main}

TypeOK ==
  /\ stage \in [Runs -> Stages]
  /\ held \in [Runs -> SUBSET Allocations]
  /\ imports \in [Runs -> Seq(Modules)]
  /\ diags \in [Runs -> Seq([file : Files, in_buffer : BOOLEAN])]
  /\ printed \in [Runs -> Seq(Files \cup {Dead})]
  /\ merged \in [Runs -> SUBSET Modules]
  /\ modpath \in [Runs -> Modules \cup {None}]
  /\ status \in [Runs -> {None, "success", "failure"}]
  /\ c_file \in Runs \cup {None, Truncated, Mixed}
  /\ object \in [Runs -> Runs \cup {None}]
  /\ exe \in [Runs -> Runs \cup {None}]
  /\ ran \in [Runs -> Runs \cup {None}]

\* A run that reported an error ends with failure and every error printed,
\* and has not touched build/ghl_out.c nor an executable: no gate is missed
\* on any path through the stages.
ErrorsStopTheRun ==
  [][\A r \in Runs : diag_has_errors(r) =>
       /\ stage'[r] \notin {"checked", "open", "write", "gcc", "link", "built"}
       /\ status'[r] # "success"
       /\ stage'[r] = "exit" => Len(printed'[r]) = Len(diags'[r])]_vars

\* Every path out of compile_file frees the source text, the arena, the
\* diagnostics and the C text.  What is left to the end of the process are
\* the texts of modules, of which compile_file says so, and the buffers of
\* string literals, which no one frees.
EverythingFreed == \A r \in Runs : Over(r) => held[r] \subseteq {"msrc", "strings"}

\* The executable a successful build leaves is its own program, and it is the
\* one "ghlc run" starts: whatever earlier runs, failed or killed half way,
\* left in build/.
BuildsItsOwn ==
  \A r \in Runs \ CheckRuns :
    /\ status[r] = "success" => exe[r] = r
    /\ ran[r] \in {None, r}

\* A diagnostic is printed under the program's path if and only if it is about
\* the program, its imports that fail included; whatever stands over one about
\* a module, nobody is sent to look for it in the program.
NamesTheProgram ==
  \A r \in Runs : \A i \in DOMAIN printed[r] :
    printed[r][i] = Main <=> diags[r][i].file = Main

\* That each is printed under the path of the file it is about does not hold,
\* not even with one import: the name of a module is read from a buffer that
\* is no more.
NamesItsFile ==
  \A r \in Runs : \A i \in DOMAIN printed[r] : printed[r][i] = diags[r][i].file
=============================================================================
