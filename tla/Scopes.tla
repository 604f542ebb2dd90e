------------------------------- MODULE Scopes -------------------------------
(***************************************************************************)
(* What a name means.  typecheck.c resolves the names of a function with   *)
(* its own chain of scopes; codegen.c then writes the function out as C    *)
(* and the C compiler resolves the same names once more, by the braces     *)
(* codegen.c wrote.  Nothing hands the first answer to the second.         *)
(*                                                                         *)
(* The function is chosen statement by statement, and both walks of the    *)
(* tree, which visit it in the same order, advance together: tc is what    *)
(* check_stmt keeps, cc what the C compiler keeps for the emitted text.    *)
(* codegen.c runs only if the checker reports nothing, so the function     *)
(* ends at the first report.  Types, calls and the names of functions are  *)
(* left out; a declaration is a number, 0 is none.                         *)
(***************************************************************************)
EXTENDS Naturals, Sequences, FiniteSets, FiniteSetsExt

CONSTANTS
  Names,      (* the identifiers of the function                            *)
  Habits,     (* which of the constructs in AllHabits the sources use       *)
  MaxDecls,   (* bound on the declarations in the function                  *)
  MaxDepth    (* bound on the nesting of its statements                     *)

AllHabits ==
  {"bare_block",          (* a block directly inside a block                *)
   "unbraced_body",       (* a declaration as the body of if, while or for  *)
   "self_initializer",    (* int x = x + 1, where x names an outer x        *)
   "reused_parameter",    (* a local of the body with a parameter's name    *)
   "const_increment",     (* ++ or -- on a const                            *)
   "const_part",          (* c.x = 1, c[0] = 1 or *c = 1, c a const         *)
   "const_address"}       (* &c, through which a const can be written to    *)

ASSUME ScopesAssumption ==
  /\ Habits \subseteq AllHabits
  /\ MaxDecls \in Nat
  /\ MaxDepth \in Nat

VARIABLES
  path,       (* the constructs that are open, innermost last               *)
  tc,         (* TypeChecker.scope: the symbols of each scope               *)
  cc,         (* the scopes of the C compiler over the emitted text         *)
  decls,      (* number of declarations so far                              *)
  consts,     (* those declared const                                       *)
  reported,   (* the checker called diag_error                              *)
  c_error,    (* the C compiler rejects what was emitted                    *)
  agree,      (* history: every name so far means the same to both          *)
  written     (* history: the declarations the C code writes to             *)

vars == <<path, tc, cc, decls, consts, reported, c_error, agree, written>>

Empty == [n \in Names |-> 0]

\* typecheck_program's scope of functions, then check_function's push_scope;
\* emit_function opens the one scope that C has for parameters and body.
Init ==
  /\ path = <<"parameters">>
  /\ tc = <<Empty, Empty>>
  /\ cc = <<Empty, Empty>>
  /\ decls = 0
  /\ consts = {}
  /\ reported = FALSE
  /\ c_error = FALSE
  /\ agree = TRUE
  /\ written = {}

Open == path[Len(path)]
push_scope(scopes) == Append(scopes, Empty)

\* lookup: the innermost scope that has the name.
lookup(scopes, n) ==
  LET having == {i \in 1..Len(scopes) : scopes[i][n] # 0}
  IN  IF having = {} THEN 0 ELSE scopes[Max(having)][n]

\* Slip: the symbol gets the number of the next declaration.
define_next(scopes, n, d) == [scopes EXCEPT ![Len(scopes)][n] = d + 1]

\* define, without its check.
define(scopes, n, d) == [scopes EXCEPT ![Len(scopes)][n] = d]
Defined(scopes, n) == scopes[Len(scopes)][n] # 0

\* Where a statement may stand: in a block, or as the body that an if, a
\* while or a for still waits for.
Room == path # <<>> /\ ~reported /\ Open \in {"body", "block", "branch", "for"}

\* The body of an if, a while or a for is one statement.
Taken ==
  CASE Open = "branch" -> [path EXCEPT ![Len(path)] = "branch_done"]
    [] Open = "for"    -> [path EXCEPT ![Len(path)] = "for_done"]
    [] OTHER           -> path

\* Slip: a name the checker does not find is let pass.
Refer_undefined(n, tcs, ccs, write) ==
  LET t == lookup(tcs, n)
      c == lookup(ccs, n)
  IN  /\ reported' = (write = "assign" /\ t \in consts)
      /\ agree' = (agree /\ t = c)
      /\ c_error' = (c_error \/ c = 0)
      /\ written' = IF write = "no" THEN written ELSE written \cup {c}

\* Slip: an assignment does not ask whether its target is const.
Refer_const(n, tcs, ccs, write) ==
  LET t == lookup(tcs, n)
      c == lookup(ccs, n)
  IN  /\ reported' = (t = 0)
      /\ agree' = (agree /\ t = c)
      /\ c_error' = (c_error \/ c = 0)
      /\ written' = IF write = "no" THEN written ELSE written \cup {c}

\* EXPR_IDENT: n is resolved by the checker with scopes tcs and by the C
\* compiler with ccs.  write is what is done to it: nothing; EXPR_ASSIGN with
\* n as its target, for which alone the checker asks about const; ++ or --;
\* an assignment or increment whose target is reached from n by members,
\* indices and *; or &n, with which n may be written to wherever the address
\* gets, so that it counts as written.
Ways == {"no", "assign", "increment", "part", "address"}

Refer(n, tcs, ccs, write) ==
  LET t == lookup(tcs, n)
      c == lookup(ccs, n)
  IN  /\ reported' = (t = 0 \/ (write = "assign" /\ t \in consts))
      /\ agree' = (agree /\ t = c)
      /\ c_error' = (c_error \/ c = 0)
      /\ written' = IF write = "no" THEN written ELSE written \cup {c}

\* The ways to write to a const that check_expr lets pass, each a habit.
Unasked == [increment |-> "const_increment", part |-> "const_part",
            address |-> "const_address"]
Usual(n, write) ==
  lookup(tc, n) \in consts /\ write \in DOMAIN Unasked => Unasked[write] \in Habits

Reference(n, write) ==
  /\ Room
  /\ Usual(n, write)
  /\ Refer(n, tc, cc, write)
  /\ path' = Taken
  /\ UNCHANGED <<tc, cc, decls, consts>>

\* The condition and the step of a for are read in the scope of its header.
HeaderReference(n, write) ==
  /\ path # <<>> /\ ~reported /\ Open = "header"
  /\ Usual(n, write)
  /\ Refer(n, tc, cc, write)
  /\ UNCHANGED <<path, tc, cc, decls, consts>>

\* A parameter is defined by check_function and emitted into the scope C has
\* for parameters and body.
Parameter(n) ==
  /\ path # <<>> /\ ~reported /\ Open = "parameters"
  /\ decls < MaxDecls
  /\ decls' = decls + 1
  /\ reported' = Defined(tc, n)
  /\ tc' = define(tc, n, decls')
  /\ cc' = define(cc, n, decls')
  /\ UNCHANGED <<path, consts, c_error, agree, written>>

\* STMT_BLOCK of the body: the checker opens a scope, C has one already.
Body ==
  /\ path = <<"parameters">> /\ ~reported
  /\ path' = <<"body">>
  /\ tc' = push_scope(tc)
  /\ UNCHANGED <<cc, decls, consts, reported, c_error, agree, written>>

\* STMT_VAR_DECL.  The checker resolves the initializer, then defines n; in C
\* the scope of n starts before its initializer.  init = n is one that names
\* an outer n, and no other initializer can tell the two apart.
Declare(n, const, init) ==
  LET d == decls + 1
      cc2 == define(cc, n, d)
  IN  /\ decls < MaxDecls
      /\ decls' = d
      /\ consts' = IF const THEN consts \cup {d} ELSE consts
      /\ init => "self_initializer" \in Habits
      /\ path = <<"body">> /\ tc[2][n] # 0 => "reused_parameter" \in Habits
      /\ tc' = define(tc, n, d)
      /\ cc' = cc2
      /\ reported' = (Defined(tc, n) \/ (init /\ lookup(tc, n) = 0))
      /\ c_error' = (c_error \/ Defined(cc, n))
      /\ agree' = (agree /\ (init => lookup(tc, n) = lookup(cc2, n)))
      /\ UNCHANGED written

VarDecl(n, const, init) ==
  /\ Room
  /\ Open \in {"branch", "for"} => "unbraced_body" \in Habits
  /\ Declare(n, const, init)
  /\ path' = Taken

\* STMT_IF and STMT_WHILE: only C opens a scope for each body.
Branch ==
  /\ Room
  /\ Len(path) < MaxDepth
  /\ path' = Append(Taken, "branch")
  /\ cc' = push_scope(cc)
  /\ UNCHANGED <<tc, decls, consts, reported, c_error, agree, written>>

\* STMT_FOR: both open a scope for the header ...
For ==
  /\ Room
  /\ Len(path) < MaxDepth
  /\ path' = Append(Taken, "for_init")
  /\ tc' = push_scope(tc)
  /\ cc' = push_scope(cc)
  /\ UNCHANGED <<decls, consts, reported, c_error, agree, written>>

ForInit ==
  /\ path # <<>> /\ ~reported /\ Open = "for_init"
  /\ path' = [path EXCEPT ![Len(path)] = "header"]
  /\ \/ UNCHANGED <<tc, cc, decls, consts, reported, c_error, agree, written>>
     \/ \E n \in Names, init \in BOOLEAN : Declare(n, FALSE, init)

\* ... and C one more for the body.
ForBody ==
  /\ path # <<>> /\ ~reported /\ Open = "header"
  /\ path' = [path EXCEPT ![Len(path)] = "for"]
  /\ cc' = push_scope(cc)
  /\ UNCHANGED <<tc, decls, consts, reported, c_error, agree, written>>

\* STMT_BLOCK: the checker opens a scope, emit_stmt writes no braces.
Block ==
  /\ Room
  /\ Len(path) < MaxDepth
  /\ Open \in {"body", "block"} => "bare_block" \in Habits
  /\ path' = Append(Taken, "block")
  /\ tc' = push_scope(tc)
  /\ UNCHANGED <<cc, decls, consts, reported, c_error, agree, written>>

\* Slip: check_stmt does not pop the scope of a for.
checker_scopes_leak(construct) ==
  CASE construct = "body"  -> 2
    [] construct = "block" -> 1
    [] OTHER               -> 0

\* How many scopes check_stmt pushes for a construct.  For the body it is the
\* block's and check_function's.
checker_scopes(construct) ==
  CASE construct = "body"                    -> 2
    [] construct \in {"block", "for_done"}   -> 1
    [] OTHER                                 -> 0

\* How many braces emit_stmt and emit_function write for it, the header of a
\* for counting as one.
c_scopes(construct) ==
  CASE construct = "for_done"                -> 2
    [] construct \in {"body", "branch_done"} -> 1
    [] OTHER                                 -> 0

\* The innermost construct ends: each side closes what it opened for it.
Leave ==
  /\ path # <<>> /\ ~reported
  /\ Open \in {"body", "block", "branch_done", "for_done"}
  /\ path' = SubSeq(path, 1, Len(path) - 1)
  /\ tc' = SubSeq(tc, 1, Len(tc) - checker_scopes(Open))
  /\ cc' = SubSeq(cc, 1, Len(cc) - c_scopes(Open))
  /\ UNCHANGED <<decls, consts, reported, c_error, agree, written>>

Next ==
  \/ \E n \in Names :
       \/ Parameter(n)
       \/ \E const, init \in BOOLEAN : VarDecl(n, const, init)
       \/ \E write \in Ways :
            Reference(n, write) \/ HeaderReference(n, write)
  \/ Body \/ Branch \/ For \/ ForInit \/ ForBody \/ Block \/ Leave

Spec == Init /\ [][Next]_vars

\* The whole function was checked and nothing reported.
Accepted == path = <<>> /\ ~reported
-----------------------------------------------------------------------------

Decls == 0..MaxDecls
Constructs == {"parameters", "body", "block", "branch", "branch_done", "for_init",
               "header", "for", "for_done"}

TypeOK ==
  /\ path \in Seq(Constructs)
  /\ tc \in Seq([Names -> Decls])
  /\ cc \in Seq([Names -> Decls])
  /\ decls \in Decls
  /\ consts \subseteq 1..MaxDecls
  /\ {reported, c_error, agree} \subseteq BOOLEAN
  /\ written \subseteq Decls

\* In an accepted function every name means the same declaration to the
\* checker and to the C compiler: the program that runs is the one that was
\* checked, although STMT_BLOCK, if, while, for and the parameters each have
\* a different number of scopes on the two sides.
SameMeaning == Accepted => agree

\* The C compiler finds no undeclared and no redefined name in what is
\* emitted for an accepted function.
AcceptedByC == Accepted => ~c_error

\* Of the five ways to use a name, an assignment to it is the one in which
\* check_expr asks about const, and the C text has no const.  Where the
\* others are not used on consts (the const_ habits), no statement of an
\* accepted function writes to a const, by whatever scope the C code finds it.
ConstsKept == Accepted => written \cap consts = {}
=============================================================================
