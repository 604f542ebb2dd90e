# A verification project for GaphopLang

GaphopLang is a small compiled language. Its compiler, `ghlc` (`compiler/`, C11), reads a `.ghl` file, parses it,
merges the modules it imports, checks names and types, writes one C file and has `gcc` build it. This directory holds TLA+ modules that
model the compiler, TLC configurations that check them on small instances, and proofs of their main invariants.

Paths below are relative to the root of the repository.

## 1. The system

| Component | Source | State | Operations |
|---|---|---|---|
| Diagnostic engine | `compiler/src/diagnostics.c` | linked list (head, tail), two counters, two options | `diag_error`, `diag_warning`, `diag_note`, `diag_help`, `diag_set_source`, `diag_has_errors`, `diag_print_all`, `diag_free` |
| Arena | `compiler/src/common.c:3-46` | buffer, size, used | `arena_create`, `arena_alloc`, `arena_strdup`, `arena_reset`, `arena_destroy` |
| String builder | `compiler/src/common.c:48-90` | buffer, length, capacity | `sb_init`, `sb_append`, `sb_appendf`, `sb_to_string`, `sb_free` |
| Lexer | `compiler/src/lexer.c` | position, line, column, one token of lookahead | `lexer_init`, `lexer_next`, `lexer_peek` |
| AST constructors | `compiler/src/ast.c` | none: nodes in the arena | one for each kind of type, expression, statement and declaration |
| Parser | `compiler/src/parser.c` | the current token, `had_error`, the call stack | one function for each construct, `expect`, `synchronize` |
| Type checker | `compiler/src/typecheck.c` | chain of scopes, struct table, current function, builtins | `check_expr`, `check_stmt`, `check_function`, `define`, `lookup` |
| Code generator | `compiler/src/codegen.c` | the output text | `emit_expr`, `emit_stmt`, `emit_function`, `codegen_to_c` |
| Driver | `compiler/src/main.c:55-240` | source text, arena, engine, `build/ghl_out.c`, the executable | `compile_file`, `merge_program`, `resolve_module_path` |
| Project commands | rest of `compiler/src/main.c` | the directory of a project, `ghl.toml` | `new`, `build`, `run`, `check`, `clean` |
| Browser IDE | `ide/index.html` | none | a static page whose script has a syntax error and never runs |

How they interact. The driver owns one engine and one arena for a compilation and hands both to every stage. The parser pulls tokens from
the lexer, one at a time, with one token of lookahead in `parse_stmt`. Lexer, parser and checker report into the engine and go on; only the driver
asks, three times, whether there were errors. Tokens, types, symbols and nodes live in the arena. The checker annotates the tree and keeps its scopes to
itself; the code generator walks the same tree again and leaves the resolution of names to the C compiler. Runs of `ghlc` in one directory share
`build/ghl_out.c`.

What is hard here:

* the engine's callers annotate "the last diagnostic", whatever that is (`diagnostics.c:85-103`);
* growing the arena may move it under every pointer into it (`common.c:20`);
* error recovery in a recursive-descent parser must make progress in every loop, and must not accept a file it skipped parts of;
* scoping is implemented twice, by `typecheck.c` and by the braces `codegen.c` writes;
* an expression is read twice as well: the checker has the tree, C only the text `emit_expr` writes of it;
* `lexer_peek` moves and reports before anyone takes the token it looked at;
* the C text is collected in a buffer that drops a piece in silence when it cannot grow;
* the driver has nine ways out, three gates, a buffer that is reused for each import and gone when its names are printed, and a file other runs share;
* the commands of `ghlc` find what earlier commands and the user left in the directory.

What makes each component correct is stated as properties in the modules, listed in section 3.

## 2. The modules

| Module | Models | Extends |
|---|---|---|
| `DiagLog` | what the stages assume of the engine: an append-only log whose newest entry can be explained | |
| `Diagnostics` | the engine as it is: list, counters, options, failing `calloc` and `strdup`; implements `DiagLog` | |
| `DiagnosticsProofs` | proofs | `Diagnostics` |
| `Arena` | the arena with in-place and moving growth, failing `realloc`, the doubling loop step by step | |
| `TokenStream` | what the parser assumes of the lexer: the tokens one after the other, and a look that changes nothing | |
| `Tokens` | the next token of a text: comments, numbers, literals, operators, as functions | |
| `Lexer` | `lexer_next` and `lexer_peek` in any order; implements `TokenStream` | `Tokens` |
| `LexerProofs` | proofs | `Lexer` |
| `Parser` | every parse function over token kinds, with an explicit call stack | |
| `ParserProofs` | proofs | `Parser` |
| `Scopes` | the checker's and C's resolution of names, in lockstep over one function | |
| `ScopesProofs` | proofs | `Scopes` |
| `Syntax` | the types and expressions of `ast.c` | |
| `TypeRules` | what `check_expr` makes of a node, and the types `check_stmt` asks for | `Syntax` |
| `Emission` | what `emit_expr` writes for a node: a text of pieces | `Syntax` |
| `CTypes` | the types and side effects of C expressions | `TypeRules`, `Emission` |
| `CReader` | how C reads a text: a machine that takes one token a step | `CTypes` |
| `Expressions` | one expression from the parser through checker and emitter to C | `CReader` |
| `ExpressionsProofs` | proofs | `Expressions` |
| `StringBuilder` | the string builder, with failing `malloc` and `realloc` | |
| `CText` | merging the imports, functions defined twice or not at all, `codegen_to_c` on the builder, gcc's declarations | `StringBuilder` |
| `CommonProofs` | proofs about the two parts of `common.c`, the arena and the builder, and about `CText` | `Arena`, `CText` |
| `Driver` | `compile_file`, several runs in one directory | |
| `DriverProofs` | proofs | `Driver` |
| `Project` | the commands of `ghlc` on one directory, and a user | |
| `ProjectProofs` | proofs | `Project` |
| `MC...` | the same modules as roots for TLC, one per module, with their `.cfg` files | |

In every module an action has the name of the function it models. A definition marked *Slip* is a mistake the code could have made and did
not (a dropped guard, a missing reset): no specification uses it; it is there to show that a property can tell it from the code, by putting it in the place
of the definition that follows it.

**Diagnostics.** A pointer is an index into `heap`, the sequence of nodes in order of allocation; `Nil` is NULL. Each public function is one action, with one disjunct per
outcome: reported, suppressed by `no_warnings`, or lost because `calloc` failed. `asked`, `failures` and `freed` are history variables. `Printed`
is the walk of `diag_print_all`; `diag_has_errors` is the test of `error_count`. The options are set before the first report; `main.c` never sets them, the engine's interface allows it.

**Arena.** An address is a buffer number and an offset. `arena_alloc` is split where its loop is: it fits (`arena_alloc_fits`), or it enters the loop
(`arena_alloc_grow`), goes round it (`double`), and ends in `realloc_ok`, which may or may not move the buffer, or `realloc_fails`. `blocks` is the history of what was handed out since the last reset.
`peak` is the largest `used + request` served, which is what the size is measured against.
Sizes do not wrap: a request is at most a few times the length of the source text.

**Parser.** `todo` is the C call stack, first thing first: a token kind stands for a call of `expect`, any other string for a parse function or the rest of one. A step
takes the first element, looks at `current`, and pushes what the function does next (`Go`, `Take`, `Report` say what happens to the token). The
file is chosen token by token as the lexer delivers it, so every file over the given kinds, up to the bound, is read. Kinds the parser treats alike are one kind;
the three type-keyword kinds are apart because `parse_for`, `parse_stmt` and `parse_type` each know another set. The tree and precedence are left out.

**Scopes.** One function is chosen statement by statement; `tc` is the chain of scopes of `check_stmt`, `cc` the scopes the C compiler has for what
`emit_stmt` writes. `path` is the nesting of constructs. Two tables, `checker_scopes` and `c_scopes`, say how many scopes each side closes when a construct ends; opening them is in the actions. A name is used in one of five ways (`Ways`): it is read, assigned to, incremented, written to
in part (`c.x = 1`, `c[0] = 1`, `*c = 1`) or has its address taken, with which it may be written to anywhere. `check_expr` asks about const for the second only. `Habits` names the seven constructs on which the two sides part or a const is not asked about (section 5), so
that the rest can be checked without them and each can be checked alone.

**Lexer.** A text is a sequence of classes of characters; `Scan` gives the next token of a text from a place on, and the place behind it, following `lex_number`, `lex_string`, `lex_char` and the chain of
operators. A token is its kind, its characters and its position; its value is left out, and keywords are identifiers. `Lexer` has the state of the C struct. `before` is a history variable: where a token that waits was lexed, which is where
the parser believes the lexer to be; the refinement to `TokenStream` maps the position and the reports to it while a token waits. The two loops of the lexer that go on over unequal pieces, the one that skips blanks and comments and the one
inside a string literal, are given by one turn each (`Skip`, `Spell`: from a character to the one where the next turn begins), and `LoopEnd` is where they stop.

**Syntax, TypeRules, Emission, CTypes, CReader, Expressions.** A type is what is at the end of its chain of pointers and their number, an expression a record. `check_expr` and `emit_expr` walk over the tree and make of a node what they made of its
operands; so `Expressions` builds an expression, one operator a step as the parser does, together with what becomes of it: `tree`, `checked` (the answer of `check_expr`), `text` (what `emit_expr` writes) and `meant` (what the text should be to C:
the tree, with `print` spelled as `printf`, the type C gives it and its number of side effects). A text is a sequence of pieces: a character, a name, a number, a cast. `read` is what a C compiler makes of the text. `CReader` is that compiler
as a machine: a stack of frames, each a thing that waits for an operand, and one step for each token or operator applied; tokens take the longest match, and a frame is left when what follows binds less. `CTypes` says what type and effects C
gives what was read: an integer literal is an `int` of C unless it needs more (`Wide`), since `emit_expr` writes no suffix, and what is computed of such literals alone stays one; `strlen` is a `size_t`. `effects` counts the assignments, increments and calls of the source. `check_var_decl` and `check_return` are the two cases of `check_stmt` that compare types. `Habits` names eleven constructs on which the two sides part
(section 5). The parser's own precedence climbing is not in it: a tree is built as if with all its parentheses.

**StringBuilder, CText.** `held`, `data`, `len` and `cap` are the fields of the C struct, `use` who owns the buffer, `asked` and `lost` are history. The doubling loop of `sb_append` is the smallest capacity that is enough. `CText` chooses the
files, merges them one import at a time, checks for functions that are defined twice or unknown, and appends the pieces of `codegen_to_c` one by one, the five `#include`s first, each of which may be dropped; then `gcc` (external) goes through
the text in its order, having the functions of a header (`Library`) behind its `#include`. A character of the text is a whole token, the body of a function its calls and one printed number.

**Project.** `files` maps each path to its content: a source, or a program together with the source it was made of and where. `dirs` are the directories there are: `cmd_new` makes five, `clean` empties two, `main` makes `bin` or `build` before it compiles,
and gcc cannot write where there is none. `compile_file` is what the module `Driver` looks into, here one step with its outcome decided by the source. An output may be any path, a source too: gcc writes over it. `new` may be given a name with a slash at its end, of
which `basename_of` leaves nothing (`NewOutputs`). `edit`, `remove`, `configure` (a line more in `ghl.toml`) and `copy` (a copy that keeps no empty directories)
are the user's. Six `Habits` are what the code has no defence against (section 5).

**Driver.** `stage` is how far a run is in `compile_file`; each action is the code between two observable points (allocation, a gate, a file operation, `gcc`). The front end is
its outcome: reports about the program or about a module. A diagnostic holds a *pointer* to its file name, which for a module is the buffer `modpath`; that is why `diags` records both
the file meant and whether the name is in the buffer. The buffer is a local of the import loop, and every name in it is printed at a gate behind the loop, where reading it is undefined: `diag_print_all` finds there the path written last, or anything else (`Dead`).
`held` has what is allocated outside the arena, among it the buffers the lexer makes for string literals (`Lexed`). `kill` may happen at any stage but the first. `gcc` is external: it accepts only a whole text, and may reject that. Each run has its own output file, as with `-o`;
`codegen_to_c` never returns NULL except on an allocation failure it does not survive, and is left out.

## 3. Runs

| Run | Checks | States |
|---|---|---|
| `diagnostics` | `TypeOK`; `ListShape`: no node cut off, doubled or on a cycle; `HasErrorsExact`: counter and list agree under every option; `AnnotationsMatch`: each text under its own diagnostic while nothing is dropped; `ImplementsLog`: refinement of `DiagLog` | 11 000 |
| `arena` | `BlocksSound`: blocks are disjoint, inside the buffer and aligned; `GoodWhileSmall`: no block moves while what is needed fits the first buffer; `GrowReturns`: the loop ends | 15 000 |
| `arena_moves` | violation of `PointersStayGood` | |
| `lexer` | `PlacedAtStart`: a token has the line and column of its first character, or the line of its end if it spans lines, which is what `make_token` gives it; `StringsWhole`: a literal ends at the first quote no backslash protects; `ImplementsStream`: refinement of `TokenStream`; `ReachesEnd` | 37 000 |
| `parser` | `Balanced`: brackets consumed are those the call stack will close; `NothingSwallowed`: every `fn`, `struct`, `import` of an accepted file is in the Program; `TerminatesOrStuck`: parsing ends, except in two loops | 300 000 |
| `parser_stray_brace` | violation of `Terminates` | |
| `scopes` | `SameMeaning`: an accepted function means the same to the checker and to C; `AcceptedByC`; `ConstsKept`: no const is written to; all without the seven habits | 718 000 |
| `scopes_bare_block` | violation of `SameMeaning` by one habit | |
| `expressions` | `SameTree`: C reads the tree that was checked; `SameType`: as the same sort of type, an `int` in 64 bits but for literals, their signs and `strlen`, nothing undefined by its types, also where a variable is declared with a value or a value is returned; `EffectsKept`: each side effect once; all without the eleven habits | 292 000 |
| `c_text` | `Bounded`: nothing is written outside the builder's buffer; `WholeUnlessLost`; `AcceptedByC`: every name gcc meets is declared above, once, by the text or a header; `EveryFunctionOnce`: no import loses or doubles a function; all without the four habits | 612 000 |
| `driver` | `ErrorsStopTheRun`; `EverythingFreed`: all but the texts of modules and the buffers of string literals; `BuildsItsOwn`; `NamesTheProgram`: a diagnostic has the program's path if and only if it is about the program; for a build, a run and a check in any order, each failing or killed anywhere | 1 270 000 |
| `project` | `NewProjectBuilds`: what `new` made builds, after any cleaning, copying and building elsewhere; `SuccessIsReal`: success means a program made from the source as it is; `EditsKept`: no command touches what the user wrote; all without the six habits | 395 000 |

Each passing run also checks the `TypeOK` of its module, which for `arena` is `ArenaTypeOK`.

A *habit* is a construct or a situation in which the code does not do what the property says. The passing runs have `Habits = {}` (and `driver` has `Overlap = FALSE`), so they do not show that these cases go well: they show that nothing else breaks the property. The cases
themselves are in section 5, each with the constant that lets it in and the property TLC then finds violated; `scopes_bare_block` is one of them as a run of its own.

### Bounds

* `MaxCalls = 4`, two codes: two reports and two annotations in any order, the shortest sequence in which a text can go astray behind a later report; also three reports and a free.
* Arena: a buffer of 20 bytes, requests of 1, 8, 13 and 40 bytes: below, at and above a multiple of 8, and one that, behind other blocks, makes the loop go round. `MaxUsed = 90` allows two growths.
* `MaxTokens = 10`, `MaxTodo = 14`: `fn f() -> T { }` takes eight tokens, so a whole function with one of the shortest statements fits, and every statement and expression appears in a file that is cut off, where all
  invariants but `NothingSwallowed` are as strong; a file ends where it would nest deeper.
* Scopes: two names, three declarations, nesting of five. A wrong answer needs one name declared twice and a use; the third declaration and the second name let it be shadowed on the way.
* Lexer: texts of up to four characters from three alphabets of five: what the branches of the lexer tell apart within numbers and operators, within literals, and within comments. The longest thing a branch looks at is three characters (`1e+`), or a backslash between a quote and
  a second one; the fourth lets something follow.
* Expressions: three operators over every kind of leaf, binary operators of three precedence levels, one of them with a sign that is also a prefix; integers inside and outside of an `int` of C. C can misread only what is next to each other: an operator inside another, and a third around or between them.
* C text: at most one struct and one function in a file and one import, so that each order of two structs and two functions occurs; a first buffer of 2 that has to grow up to four times, where the code has 64. One function, `abs`, is in a header. A module that is imported twice needs two imports and is in the proofs only.
* Project: three lines of `ghl.toml`: the two `new` writes and one that overrides them. One path for each directory that is treated differently, and a source among the outputs.
* Driver: three runs, since what a second one leaves behind must be read by a third; no imports for the build, one at most for the run, two for the check, so that the buffer is overwritten while a diagnostic points to it, and printed.

### Fairness

* `Arena`: weak fairness of the loop and of `realloc`; a call begun on the one thread goes on.
* `Parser`: weak fairness of `Next`; the parser is a deterministic loop on one thread, the choice of tokens is the environment's.
* `Lexer`: weak fairness of `lexer_next`: the parser goes on taking tokens, as every loop of it does that does not hang (`parser`). `lexer_peek` is not fair, and any number of looks may come between.
* The other modules state safety only.

`CHECK_DEADLOCK FALSE` is in every configuration but that of `project`, which never stops, because each system ends: an engine freed, an arena destroyed, a file parsed, a function closed, an expression at its bound or rejected, a text compiled, all runs over.

## 4. Proofs

Each module of proofs names its inductive invariant, proves that it holds at first, one lemma for each action or group of actions that it is kept, and draws the theorems from it. The table lists the theorems; all are about
every value of the constants that the assumption of the module admits.

| Module | Theorem | Property | Under |
|---|---|---|---|
| `DiagnosticsProofs` | `DiagnosticsTypes`, `DiagnosticsListShape`, `DiagnosticsHasErrors`, `DiagnosticsAnnotations` | `TypeOK`, `ListShape`, `HasErrorsExact`, `AnnotationsMatch` | |
| | `DiagnosticsImplementsLog` | `ImplementsLog` | |
| `CommonProofs` | `ArenaTypes`, `ArenaBlocksSound`, `ArenaNoWaste`, `ArenaGoodWhileSmall` | `ArenaTypeOK`, `BlocksSound`, `NoWaste`, `GoodWhileSmall` | |
| | `BuilderBounded`, `BuilderKeepsText` | `Bounded`, `WholeUnlessLost`, under any caller (`BuilderSpec`) | |
| | `CTextTypes`, `CTextBounded`, `CTextKeepsText`, `FunctionsOnce` | `TypeOK`, `Bounded`, `WholeUnlessLost`, `EveryFunctionOnce` | |
| | `TextIsAccepted` | `AcceptedByC` | no habit of `CText`: structs in order and once, no name twice or of the library |
| `LexerProofs` | `LexerTypes`, `TokensPlacedAtStart`, `LiteralsAreWhole`, `LexerImplementsStream` | `TypeOK`, `PlacedAtStart`, `StringsWhole`, `ImplementsStream` | |
| `ParserProofs` | `ParserTypes`, `BracketsBalance`, `ParserKeepsDeclarations` | `TypeOK`, `Balanced`, `NothingSwallowed` | |
| `ScopesProofs` | `ScopesTypes` | `TypeOK` | |
| | `NamesMeanTheSame` | `SameMeaning` | no bare blocks, unbraced bodies, self initializers |
| | `NamesCompile` | `AcceptedByC` | no bare blocks, unbraced bodies, reused parameters |
| | `NamesKeepConsts` | `ConstsKept` | no bare blocks, unbraced bodies; no `++`, write to a part or `&` of a const |
| `ExpressionsProofs` | `ExpressionTypes` | `TypeOK` | |
| | `TextReadsAsTree` | `SameTree` | no assignment as an operand, postfix on a prefix, doubled prefix, number `%g` changes, character that needs an escape, or argument the function does not take (`Reshaping`) |
| | `EffectsAreKept` | `EffectsKept` | nothing of `Reshaping`, and no effect in the target of a compound assignment |
| | `TypesCarryOver` | `SameType` | nothing of `Reshaping`, no function used as a value, no literals computed with each other, no `strlen` as an operand (`Cutting`), no struct pointer given for another struct's |
| `DriverProofs` | `DriverTypes`, `DriverEverythingFreed`, `DriverErrorsStopTheRun` | `TypeOK`, `EverythingFreed`, `ErrorsStopTheRun` | |
| | `DriverBuildsItsOwn` | `BuildsItsOwn` | runs do not overlap |
| | `DriverNamesTheProgram` | `NamesTheProgram` | no module has the program's own path |
| `ProjectProofs` | `ProjectTypes` | `TypeOK` | |
| | `NewProjectsBuild` | `NewProjectBuilds` | every file of `new` can be written, and its name does not end in a slash |
| | `SuccessesAreReal` | `SuccessIsReal` | no output without a directory given to `run`, and none that is a source |
| | `EditsAreKept` | `EditsKept` | no `new` in a directory that is there, no output that is a source, no source kept in `build` or `bin` |

What is in the last column is needed: section 5 says what happens without it. (`EffectsAreKept` and `TypesCarryOver` ask for all that `TextReadsAsTree` asks for because they are about the expression C reads; some of those habits alone would leave their property true.)

**Diagnostics.** `AnnotationsMatch` needs `TailIsAsked`: while nothing was dropped, the tail is the diagnostic last asked for. `PushKeeps`, `AnnotateKeeps`, `ReportKeeps` and `LostKeeps` are the steps the actions share.
`ImplementsLog` is a refinement whose mapping, `Printed`, walks the list as `diag_print_all` does. `PrintedIs` shows that, with the shape `ListShape` gives the list, the walk meets the nodes in the order in which they were made, so that `Printed` is what
is in the heap (`Walked`). Then `diag_error`, `diag_warning` and `diag_note` report, `diag_help` and `diag_set_source` explain, `diag_free` discards, and a call whose `calloc` or `strdup` failed stutters.

**Arena.** The assumption is `ArenaAssumption` (a buffer of at least one byte, no request of zero bytes). No invariant of the runs is inductive: a block handed out behind `used` is
aligned only if `used` is a multiple of 8, and `NoWaste`, which no run repeats (the buffer is its initial size or less than twice what was needed at once), survives a growth only if, inside the loop, every size tried before was too small. `ArenaInv` adds these (`used % 8 = 0`, `used <= peak`, `Growing`).
`AlignFacts` and `AlignedSum` hold the arithmetic, `HandOutKeeps` the one step all paths share.
`ArenaGoodWhileSmall`: inside the loop more is needed than the buffer holds, so a growth that succeeds lifts `peak` above the
initial size (`NeverGrown`). It is the condition under which the compiler's use of the arena is sound today; the run `arena_moves` shows it cannot be dropped.

**Lexer.** `LexerAssumption` says that a text is a sequence of the classes of characters. `Inv` says that every place the lexer has been at is `Placed`, its line and column those of its position, and that every token it made is `Read`: it lies in
the text, has the line and column that are counted there, and if it is a string literal it is what `lex_string` reads from its first character. `ScanIs` is the step: from a placed position, `Scan` finds a token that is read and a
position that is placed. The two loops are sets of turns that never go back (`Turns`); `LoopStops` proves, downwards from the end of the text, that such a loop stops, `LoopEndIs` where. `SpellIs` follows the loop of a literal: a turn that
begins at a character has an even number of backslashes before it, so the quote the loop stops at is the first with that. The refinement looks at no character: its invariant is `Waiting`, a token that waits is the one `Scan` finds at `before.place`, the position is the one behind it, and its
report is the only one made ahead of time. With it `lexer_next` is `Take` whether a token waits or not, and `lexer_peek` is `Look`.

**Parser.** `Inv` has the types, `Bottom` (`parse_program` lies under everything else and nowhere else) and, as long as nothing is reported, `Clean`: no `synchronize` is on the stack; only the function on top may owe a declaration to its keyword (`Owing`); an opening bracket that is expected is expected at once (`OpensFirst`), and the closing ones to come are those of the
brackets that are open (`Closed`). The two are related by an increasing matching (`Awaits`), of which `AwaitsSame`, `AwaitsLess` and `AwaitsMore` say what a step does to it: pushes no closing bracket, takes one, or takes an
opening one and pushes its closing one. There is one lemma for each parse function. Files and the call stack may be of any length.

**Scopes.** The two chains of scopes have different lengths. The invariant (`Aligned`) is that there are heights in both chains, one for each construct that is open, such that every name means the same in both below them, and that each side closes down to the
height of the construct; `Together` adds the types. It holds without the two habits that open scopes on one side only; each theorem then needs those that break it alone: the step in question is the only one that is looked at again.

**Expressions.** `ExpressionsAssumption` says that leaves, names and types are such as the source can spell, that a name is no number and no mark, and that numbers are told apart by their spelling; nothing bounds the tables of variables, functions,
structs and operators, or the height of an expression. Types first: `Checked` holds of leaves and is kept by each rule of `check_expr`. For `SameTree` the machine of `CReader` is followed over texts of any length: `Reaches(c, d, n)` says that it comes from one configuration to another in
at most `n` steps, and steps are put together. What a text does to the machine depends on what stands around it, and three kinds are enough: one that is read as an operand wherever an operand is expected (`Plain`), only where nothing behind it binds as close as a prefix (`Tight`), and only
where nothing but brackets and assignments waits (`Loose`). The invariant, `Readable`, gives each expression its kind by its outermost operator, and says which signs the text may begin with, since C takes the longest token: names, numbers, literals, calls, members, indices, postfixes
and binary expressions are plain, prefixes tight and assignments loose. Each constructor takes readable operands to a readable expression; the habits in `Reshaping` are the steps for which it does not. Strings go character by character: `Spells` says what an escaped text adds to a
literal. The bound `2 * Len(text)` of `CRead` comes out of the count of steps. `EffectsKept` then needs only that the effects meant are those of the source. `SameType` needs `Typed`: an accepted expression has a C type that agrees with the checker's in category, in full for pointers and structs, and exactly for a
place that can be assigned to; `Stored` says what follows for a declaration and a return. `Typed` alone lets an `int` of C pass for the checker's; `Fits` says which expressions may be one, and goes by the outermost operator: an `int` literal, or
the sign of one, becomes 64 bits wide with the first operand that is neither.

**String builder.** `Bounded` and `WholeUnlessLost` hold together (`BuilderInv`): a piece is written behind what is there only because `len` is the length of the
text, and the text is whole only because of that. The assumption that matters is on `Numbers`: what is printed with `sb_appendf` is shorter than its buffer, which is so for the numbers `codegen.c` prints. There are theorems
about the builder under any caller (`BuilderSpec`) and under `codegen_to_c`.

**C text.** `CTextAssumption` says that the files are made of names (`Names`, the identifiers that can occur), that every token of one is a piece, and that the printed number is one of `Numbers`. `Inv` has three parts. `Sources`: what is merged so far is
`Merging` at that import, and has every function of the files it came from. `Checked`: behind `typecheck_program` the Program is `Ready`, that is without a function twice or unknown, and in order if the sources use no habit. `Emitted`, and `Told` after the
last piece: the text so far is `Telling`, every token of it suits those above it (`Suits`), the tokens in it are those of the pieces of the layout appended so far, and what is to come is the rest of that layout. `TellsOnce` and `TellsGcc` draw the two properties from a text
that tells. That the next piece suits is a fact about the layout alone: `Sound` says of a list of pieces that each suits what is above, `ConcatSound` and `FlattenSound` put lists together, and `LayoutSound` is the result, from one lemma for
each of the headers, the structs, the prototypes and the functions; without the habits no name is one the headers declare (`Given`). A dropped piece leaves `asked` as it should be and sets `lost`, so only a text that is whole is spoken of. `FlattenSeq` and `Merging` are defined by recursive functions; `Recursion` shows that these exist, and so have the values their definitions give them.

**Driver.** Each property speaks about the end of a run, so each proof says what holds at every stage before it: what is held (`HeldByStage`), whose text is in the C file, in `object` and
in the executable (`BuildByStage`, with `OneAtATime`), where a run with errors can be (`ErrorsByStage`), which diagnostics point to the buffer, namely those about modules (`Pointing`), and what was printed for them (`NamesByStage`, with `Blames`). Types need `BufferSet`: a diagnostic that points to the buffer was reported after an import wrote it.
`DriverAssumption` says that the markers `None`, `Truncated` and `Mixed` are no runs and that `None` and `Dead` are no modules.

**Project.** `Inv` is `Housed` (a path with something in it lies in a directory that is there) and `Configured` (`ghl.toml` has lines of two kinds, whose values are paths). `CompileIs` says once what `build`, `run` and `check` may leave
behind; the theorems follow from it, from `LoadTemplate` (what is read in a new project's `ghl.toml`) and from the assumption on `Habits`; `EditsAreKept` needs besides that no source the user wrote is where `clean` deletes (`NoneInBuild`).

Induction over positions of a text, nodes of a list or parts of a program is done with the least element of a set of numbers (`Least`), which the library states without an operator as parameter.

Only model-checked:

* liveness (`GrowReturns`, `TerminatesOrStuck`, `ReachesEnd`), which the prover does not reach;
* what the habits lead to (section 5): a theorem says what holds without them, a counterexample of TLC what happens with them.

## 5. What the checks found

Three have a run whose counterexample shows them.

| Run | What happens |
|---|---|
| `arena_moves` | a program large enough to grow the arena leaves the tree full of dangling pointers |
| `parser_stray_brace` | a `}` at the top level keeps `parse_program` and `synchronize` going for ever |
| `scopes_bare_block` | `{ int x = 2; }` inside a block is emitted without braces: an outer `x` after it is the inner one, or C rejects the redefinition |

The others are kept out of the passing runs by a constant; changing it in the `.cfg` brings each back. A habit is to be set alone.

| Constant | Violates | What happens |
|---|---|---|
| `MCParser`: `Source = {"struct", "ident", "{", ";"}` | `Terminates` | a token in a struct that starts no field keeps `parse_struct` going for ever |
| `MCScopes`: `Habits = {"self_initializer"}` | `SameMeaning` | `int x = x + 1` in an inner scope is checked with the outer `x` and reads the new one |
| `"unbraced_body"` | `SameMeaning` | `if (c) int x = 2;` declares `x` for the rest of the block to the checker, in braces of its own to C |
| `"unbraced_body"` or `"bare_block"` | `AcceptedByC`, `ConstsKept` | the same, seen by gcc, or hiding that a constant is assigned |
| `"reused_parameter"` | `AcceptedByC` | a local with a parameter's name passes the checker, gcc rejects it |
| `"const_increment"` | `ConstsKept` | `++` and `--` on a const pass the checker, and the C text has no const |
| `"const_part"` | `ConstsKept` | so do `c.x = 1`, `c[0] = 1` and `*c = 1`: `typecheck.c:241` asks only if the target is a name |
| `"const_address"` | `ConstsKept` | so does `*p = 1` after `p = &c` |
| `MCDriver`: `INVARIANT NamesItsFile` | `NamesItsFile` | the names of modules are in a local array of the import loop (`main.c:129`), which is gone when the gates print them (`main.c:154`, `166`): what stands over an error about a module is undefined, and with two imports at best the path of the last |
| `MCDriver`: `Overlap = TRUE` | `BuildsItsOwn` | two builds in one directory: one reports success for the other's program |
| `MCExpressions`: `Habits = {"assignment_operand"}` | `SameTree` | `(a = b) + 1` is emitted without its parentheses and assigns `b + 1` |
| `"postfix_on_prefix"` | `SameTree` | `p->m`, for the parser the field of `*p`, is emitted `*p.m`, which gcc rejects |
| `"doubled_prefix"` | `SameTree` | `- -x` is emitted `--x`: for 5 it prints 4 |
| `"literal_arithmetic"` | `SameType` | `100000 * 100000` is an `int` to the checker, of 64 bits where it is emitted, but literals have no suffix and C multiplies in 32: undefined |
| `"strlen_operand"` | `SameType` | `strlen(s) - 8` is an `int` to the checker and unsigned in C: it is never less than 0 |
| `"float_literal"` | `SameTree` | `7.0` is emitted as `7`: `7.0 / 2.0` prints 3 |
| `"escaped_char"` | `SameTree` | a newline, a quote or a backslash as a character makes no C character, and gcc rejects the text |
| `"function_as_value"` | `SameType` | `g + 1` for a function `g` is accepted and adds to its address |
| `"argument_mismatch"` | `SameType`, `SameTree` | arguments are not looked at: `print(5)` is accepted and crashes |
| `"compound_effect"` | `EffectsKept` | `a[i++] += 1` increments `i` twice |
| `"other_struct"` | `SameType` | structs are one type to `type_eq`: a `T*` can be set to an `S*` |
| `MCCText`: `Habits = {"late_struct"}` | `AcceptedByC` | a struct used above its definition passes the checker, gcc rejects it |
| `"twin_struct"` | `AcceptedByC` | two structs of a name, or one module imported twice, likewise |
| `"same_name"` | `AcceptedByC` | a struct and a function of a name, likewise |
| `"library_name"` | `AcceptedByC` | a function called `abs` or `pow` passes the checker, gcc rejects it: a header declares another |
| `MCProject`: `Habits = {"new_again"}` | `EditsKept` | `new` writes over the sources of a project that is there |
| `"unwritable"` | `NewProjectBuilds` | `new` says a project was created although a file of it could not be written |
| `"trailing_slash"` | `NewProjectBuilds` | `new demo/` writes `output = "bin/"` to `ghl.toml`, which gcc cannot write |
| `"source_as_output"` | `SuccessIsReal`, `EditsKept` | `build a.ghl -o a.ghl`, or the same by `ghl.toml`: gcc writes the program over the source |
| `"source_in_build"` | `EditsKept` | `clean` deletes whatever is in `build` and `bin`, sources too |
| `"bare_output"` | `SuccessIsReal` | `run -o name` builds `name` and starts what the shell finds under it, not in this directory |

Beside these: the buffer of every string literal (`sb_init` in `lex_string`) and the texts of modules are freed by no way out of `compile_file` (`strings` and `msrc` of `Driver`), which the end of the process makes good; a diagnostic whose `calloc` fails is dropped and not counted (`Lost` of `Diagnostics`), so that under memory pressure an error may let the build go on; a dropped piece of C text (`append_dropped`) is noticed by nobody but gcc, if at all; and an
output in a directory that is not there makes gcc fail, also when `ghl.toml` names it (`Linked` of `Project`).

## 6. Not modelled

* The values of tokens and the table of keywords; a NUL in a text, which ends it; whether `1e` should be a number.
* The parser's precedence climbing (`Parser` knows what is consumed, `Expressions` the trees), and the constructors of statements and declarations in `ast.c`, which allocate a node and fill it in.
* Statements in `TypeRules`: that `return;` is only for functions without a value is one comparison. Neither the checker nor the generator looks at `break` and `continue`, at whether a function returns at all, or at the type of a condition, so there is
  nothing in this code to model; what they do is C's affair.
* The integer types of the source other than `int` (a literal is an `int` to the checker, so that `short s = 1;` is a type mismatch), and all values: what is computed of an `int` of C is told by its type, whether it overflows is not.
* Names that are keywords of C or macros of its headers; outputs that are `ghl.toml` or `build/ghl_out.c` themselves; that a part of a value which is no object (`f().m = 1`) cannot be assigned to in C.
* `resolve_module_path`, which only asks the file system; `help` and `version`.
* The layout of the C text, and of what is printed.
* The IDE, a page whose script does not parse; the standard modules and examples, which are input; the build files.

## 7. Plan

The order follows what is hardest to test. Done: all modules of section 2, with the proofs of section 4. Left:

1. A composition of `Driver` with `Diagnostics`, so that a lost diagnostic meets the gates.
2. Precedence climbing: that the tree the parser builds of a sequence of operators is the one its precedence table says.
