------------------------------- MODULE CText --------------------------------
(***************************************************************************)
(* From the parsed files to the C text: compile_file of main.c merges the  *)
(* programs of the imported modules into that of the main file,            *)
(* typecheck_program of typecheck.c looks for functions defined twice or   *)
(* not at all, codegen_to_c of codegen.c writes structs, prototypes and    *)
(* functions into a StringBuilder, and gcc reads the text in its order.    *)
(*                                                                         *)
(* A file is a sequence of structs and one of functions.  A struct has the *)
(* types of its fields, a function those of its signature and the names it *)
(* calls; a type is a name of Structs, the others need no declaration.  A  *)
(* character of the text is a token.                                       *)
(***************************************************************************)
EXTENDS StringBuilder, SequencesExt

CONSTANTS
  Names,                (* the identifiers of the programs, and Headers     *)
  Library,              (* the functions each of the Headers declares, with *)
                        (* types no function of a program has               *)
  Files,                (* the files there are: see File                    *)
  Modules,              (* the names of modules                             *)
  MaxImports,           (* bound on the imports of the main file            *)
  Habits                (* which of the constructs in AllHabits they use    *)

AllHabits ==
  {"late_struct",       (* a type whose struct comes later, or never        *)
   "twin_struct",       (* two structs of a name, or a module with a struct *)
                        (* imported twice                                   *)
   "same_name",         (* a struct and a function of a name                *)
   "library_name"}      (* a struct or function with a name of the library, *)
                        (* such as abs                                      *)

Struct == [name : Names, types : Seq(Names)]
Func == [name : Names, types : Seq(Names), calls : Seq(Names)]
File == [structs : Seq(Struct), funcs : Seq(Func)]

Headers == <<"stdio.h", "stdlib.h", "string.h", "stdbool.h", "math.h">>

Kinds == {"include", "struct", "end_struct", "type", "prototype", "function", "call", "end_function"}
Token(kind, name) == [kind |-> kind, name |-> name]

\* What is printed with sb_appendf.
Literal == <<Token("digit", ""), Token("digit", "")>>

ASSUME CTextAssumption ==
  /\ Files \subseteq File
  /\ Range(Headers) \subseteq Names
  /\ Library \in [Range(Headers) -> SUBSET Names]
  /\ {<<Token(k, n)>> : k \in Kinds, n \in Names} \subseteq Pieces
  /\ Literal \in Numbers
  /\ MaxImports \in Nat
  /\ Habits \subseteq AllHabits

VARIABLES
  files,      (* the program of the main file and of each module        *)
  imports,    (* the modules the main file imports, in order                *)
  merged,     (* how many of them are merged                                *)
  prog,       (* the Program                                                *)
  stage,      (* "import", "check", "emit", "compile" or "done"             *)
  reported,   (* typecheck_program reported an error                        *)
  todo,       (* what codegen_to_c has still to append                      *)
  c_error     (* gcc rejects the text                                       *)

source == <<files, imports, merged, prog>>
vars == <<source, stage, reported, todo, c_error, builder>>

Main == "main file"
NamesOf(defs) == [n \in DOMAIN defs |-> defs[n].name]
Distinct(seq) == \A m, n \in DOMAIN seq : seq[m] = seq[n] => m = n

\* Slip: the functions and structs of src are written over the first of dst.
merge_program_over(dst, src) ==
  LET Over(d, s) == s \o SubSeq(d, Len(s) + 1, Len(d))
  IN  [structs |-> Over(dst.structs, src.structs), funcs |-> Over(dst.funcs, src.funcs)]

merge_program(dst, src) ==
  [structs |-> dst.structs \o src.structs, funcs |-> dst.funcs \o src.funcs]

\* What the sources use of AllHabits.
Known(structs, n) == {structs[m].name : m \in 1..n}
Orderly(p) ==
  /\ \A n \in DOMAIN p.structs : Range(p.structs[n].types) \subseteq Known(p.structs, n - 1)
  /\ \A f \in Range(p.funcs) : Range(f.types) \subseteq Known(p.structs, Len(p.structs))
Declared(headers) == UNION {Library[h] : h \in headers}
Uses(habit, condition) == condition => habit \in Habits
Habitual(all) ==
  /\ Uses("late_struct", ~Orderly(all))
  /\ Uses("twin_struct", ~Distinct(NamesOf(all.structs)))
  /\ Uses("same_name", Range(NamesOf(all.structs)) \cap Range(NamesOf(all.funcs)) # {})
  /\ Uses("library_name", (Range(NamesOf(all.structs)) \cup Range(NamesOf(all.funcs)))
                             \cap Declared(Range(Headers)) # {})

\* The Program after each of the imports.
Merging(f, names) ==
  LET whole[n \in 0..Len(names)] ==
        IF n = 0 THEN f[Main] ELSE merge_program(whole[n - 1], f[names[n]])
  IN  whole

Whole(f, names) == Merging(f, names)[Len(names)]

Init ==
  /\ files \in [{Main} \cup Modules -> Files]
  /\ imports \in UNION {[1..n -> Modules] : n \in 0..MaxImports}
  /\ \A m \in Modules \ Range(imports) : files[m] = files[Main]
  /\ Habitual(Whole(files, imports))
  /\ merged = 0
  /\ prog = files[Main]
  /\ stage = "import" /\ reported = FALSE /\ todo = <<>> /\ c_error = FALSE
  /\ BuilderInit

Import ==
  /\ stage = "import" /\ merged < Len(imports)
  /\ merged' = merged + 1
  /\ prog' = merge_program(prog, files[imports[merged']])
  /\ UNCHANGED <<files, imports, stage, reported, todo, c_error, builder>>

\* Slip: a function is registered although its name is taken.
Redefined_never(funcs) == FALSE

\* define, in the scope of the functions.
Redefined(funcs) == ~Distinct(NamesOf(funcs))

typecheck_program ==
  /\ stage = "import" /\ merged = Len(imports)
  /\ reported' = (\/ Redefined(prog.funcs)
                  \/ \E f \in Range(prog.funcs) :
                       ~(Range(f.calls) \subseteq Range(NamesOf(prog.funcs))))
  /\ stage' = IF reported' THEN "done" ELSE "check"
  /\ UNCHANGED <<source, todo, c_error, builder>>
-----------------------------------------------------------------------------
Piece(kind, name) == << <<Token(kind, name)>> >>
Each(seq, Of(_)) == FlattenSeq([n \in DOMAIN seq |-> Of(seq[n])])

include(header) == Piece("include", header)

emit_type(name) == Piece("type", name)

emit_struct(sd) ==
  Piece("struct", sd.name) \o Each(sd.types, emit_type) \o Piece("end_struct", sd.name)

prototype(f) == Piece("prototype", f.name) \o Each(f.types, emit_type)

\* The body: its calls, and a literal.
emit_call(name) == Piece("call", name)
emit_function(f) ==
  Piece("function", f.name) \o Each(f.types, emit_type) \o Each(f.calls, emit_call)
  \o <<Literal>> \o Piece("end_function", f.name)

\* Slip: the prototypes come before the structs.
Layout_prototypes_first(p) ==
  Each(Headers, include) \o Each(p.funcs, prototype) \o Each(p.structs, emit_struct)
  \o Each(p.funcs, emit_function)

Layout(p) ==
  Each(Headers, include) \o Each(p.structs, emit_struct) \o Each(p.funcs, prototype)
  \o Each(p.funcs, emit_function)

codegen_to_c ==
  /\ stage = "check"
  /\ sb_init
  /\ todo' = Layout(prog)
  /\ stage' = "emit"
  /\ UNCHANGED <<source, reported, c_error>>

append(s) == IF s = Literal THEN sb_appendf(s) ELSE sb_append(s)

Emit ==
  /\ stage = "emit" /\ todo # <<>>
  /\ append(Head(todo))
  /\ todo' = Tail(todo)
  /\ stage' = IF use' = "crashed" THEN "done" ELSE "emit"
  /\ UNCHANGED <<source, reported, c_error>>

HandOver ==
  /\ stage = "emit" /\ todo = <<>>
  /\ sb_to_string
  /\ stage' = IF held THEN "compile" ELSE "done"
  /\ UNCHANGED <<source, reported, todo, c_error>>

\* gcc, external: what is named has to be declared above, and nothing is
\* defined twice or otherwise than a header declares it.
Above(text, n, kind) == {text[m].name : m \in {k \in 1..n - 1 : text[k].kind = kind}}
Declares(text, n) ==
  LET above(kind) == Above(text, n, kind)
      given == Declared(above("include"))
      name == text[n].name
  IN  CASE text[n].kind = "type"      -> name \in above("end_struct")
        [] text[n].kind = "call"      -> name \in above("prototype") \cup above("function")
        [] text[n].kind = "struct"    -> name \notin above("struct") \cup given
        [] text[n].kind = "prototype" -> name \notin above("struct") \cup given
        [] text[n].kind = "function"  ->
             name \notin above("function") \cup above("struct") \cup given
        [] OTHER                      -> TRUE

gcc ==
  /\ stage = "compile"
  /\ c_error' = ~\A n \in DOMAIN data : Declares(data, n)
  /\ stage' = "done"
  /\ UNCHANGED <<source, reported, todo, builder>>

Next == Import \/ typecheck_program \/ codegen_to_c \/ Emit \/ HandOver \/ gcc

Spec == Init /\ [][Next]_vars
-----------------------------------------------------------------------------
Compiled == stage = "done" /\ use = "handed"

TypeOK ==
  /\ BuilderTypeOK
  /\ stage \in {"import", "check", "emit", "compile", "done"}
  /\ {reported, c_error} \subseteq BOOLEAN
  /\ merged \in 0..Len(imports)
  /\ Range(todo) \subseteq Pieces \cup Numbers

\* gcc finds every name of an accepted program declared above its use and
\* none defined twice, whichever file it came from.
AcceptedByC == Compiled /\ ~lost => ~c_error

\* The C text of an accepted program defines every function of the main file
\* and of every imported module exactly once.
EveryFunctionOnce ==
  Compiled /\ ~lost =>
    \A m \in {Main} \cup Range(imports) : \A f \in Range(files[m].funcs) :
      Cardinality({n \in DOMAIN data : data[n] = Token("function", f.name)}) = 1
=============================================================================
