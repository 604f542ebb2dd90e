---------------------------- MODULE ScopesProofs -----------------------------
(***************************************************************************)
(* Proofs about Scopes: types for every set of habits, and, where none of  *)
(* them occurs, that the checker and the C compiler mean the same.         *)
(***************************************************************************)
EXTENDS Scopes, SequenceTheorems, FiniteSetTheorems, WellFoundedInduction, TLAPS

-----------------------------------------------------------------------------
(* Sets of positions have a maximum, and lookup finds it.                    *)

\* A set of naturals that is not empty has a least element: of the finite
\* sets 0..x for its elements, one holds no other.
LEMMA Least ==
  ASSUME NEW S \in SUBSET Nat, S # {}
  PROVE  \E x \in S : \A y \in S : x <= y
<1> DEFINE T == {0..x : x \in S}
<1>1. T \subseteq FiniteSubsetsOf(Nat) /\ T # {}
  <2>1. \A x \in S : IsFiniteSet(0..x)
    BY FS_Interval
  <2>2. \A x \in S : 0..x \in FiniteSubsetsOf(Nat)
    <3> TAKE x \in S
    <3>1. 0..x \in SUBSET Nat
      OBVIOUS
    <3> QED BY <2>1, <3>1 DEF FiniteSubsetsOf
  <2> QED BY <2>2
<1>2. IsWellFoundedOn(StrictSubsetOrdering(Nat), FiniteSubsetsOf(Nat))
  BY FS_StrictSubsetOrderingWellFounded
<1>3. \E t \in T : \A u \in T : ~(<<u, t>> \in StrictSubsetOrdering(Nat))
  <2> HIDE DEF T
  <2> QED BY <1>1, <1>2, WFMin
<1>4. PICK x \in S : \A u \in T : ~(<<u, 0..x>> \in StrictSubsetOrdering(Nat))
  BY <1>3
<1>5. \A y \in S : x <= y
  <2> SUFFICES ASSUME NEW y \in S, y < x PROVE FALSE
    OBVIOUS
  <2>1. 0..y \in T
    OBVIOUS
  <2>2. 0..y \subseteq 0..x /\ 0..y # 0..x
    <3>1. x \in 0..x /\ x \notin 0..y
      OBVIOUS
    <3> QED BY <3>1
  <2>3. 0..y \in SUBSET Nat /\ 0..x \in SUBSET Nat
    OBVIOUS
  <2>4. <<0..y, 0..x>> \in StrictSubsetOrdering(Nat)
    BY <2>2, <2>3 DEF StrictSubsetOrdering
  <2> QED BY <1>4, <2>1, <2>4
<1> QED BY <1>5
\* Max is what its name says on a set of positions.
LEMMA MaxOf ==
  ASSUME NEW m \in Nat, NEW S \in SUBSET (1..m), S # {}
  PROVE  Max(S) \in S /\ \A y \in S : Max(S) >= y
<1> DEFINE T == {m - x : x \in S}
<1>1. T \in SUBSET Nat /\ T # {}
  <2>1. \A x \in S : m - x \in Nat
    OBVIOUS
  <2>2. PICK x \in S : TRUE
    OBVIOUS
  <2>3. m - x \in T
    OBVIOUS
  <2> QED BY <2>1, <2>3
<1>2. PICK z \in T : \A y \in T : z <= y
  BY <1>1, Least
<1>3. PICK x \in S : z = m - x
  OBVIOUS
<1>4. \A y \in S : x >= y
  <2> TAKE y \in S
  <2>1. m - y \in T
    OBVIOUS
  <2> QED BY <1>2, <1>3, <2>1
<1> QED BY <1>4 DEF Max

\* What lookup finds among the first i scopes.
Having(scopes, i, n) == {k \in 1..i : scopes[k][n] # 0}
Look(scopes, i, n) ==
  IF Having(scopes, i, n) = {} THEN 0 ELSE scopes[Max(Having(scopes, i, n))][n]

\* lookup starts at the innermost scope.
LEMMA LookupIsLook ==
  ASSUME NEW scopes, NEW n
  PROVE  lookup(scopes, n) = Look(scopes, Len(scopes), n)
  BY DEF lookup, Look, Having

\* The innermost scope answers if it has the name, the next one otherwise.
LEMMA LookTop ==
  ASSUME NEW scopes, NEW i \in Nat \ {0}, NEW n
  PROVE  Look(scopes, i, n) = IF scopes[i][n] # 0 THEN scopes[i][n] ELSE Look(scopes, i - 1, n)
<1>1. CASE scopes[i][n] = 0
  <2>1. Having(scopes, i, n) = Having(scopes, i - 1, n)
    BY <1>1 DEF Having
  <2> QED BY <1>1, <2>1 DEF Look
<1>2. CASE scopes[i][n] # 0
  <2> DEFINE H == Having(scopes, i, n)
  <2>1. i \in H /\ H \in SUBSET (1..i)
    BY <1>2 DEF Having
  <2>2. Max(H) \in H /\ \A y \in H : Max(H) >= y
    BY <2>1, MaxOf
  <2>3. Max(H) = i
    BY <2>1, <2>2
  <2> QED BY <1>2, <2>1, <2>3 DEF Look
<1> QED BY <1>1, <1>2

\* What lies above the first i scopes does not matter to them.
LEMMA LookSame ==
  ASSUME NEW scopes, NEW others, NEW i \in Nat, NEW n,
         \A k \in 1..i : scopes[k] = others[k]
  PROVE  Look(scopes, i, n) = Look(others, i, n)
<1> DEFINE H == Having(scopes, i, n)
<1>1. H = Having(others, i, n)
  BY DEF Having
<1>2. H # {} => Max(H) \in 1..i
  <2> SUFFICES ASSUME H # {} PROVE Max(H) \in 1..i
    OBVIOUS
  <2>1. H \in SUBSET (1..i)
    BY DEF Having
  <2> QED BY <2>1, MaxOf
<1> QED BY <1>1, <1>2 DEF Look

\* An answer is a declaration or none.
LEMMA LookType ==
  ASSUME NEW D, 0 \in D, NEW scopes \in Seq([Names -> D]), NEW i \in 0..Len(scopes), NEW n \in Names
  PROVE  Look(scopes, i, n) \in D
<1> DEFINE H == Having(scopes, i, n)
<1>1. H # {} => Max(H) \in 1..Len(scopes)
  <2> SUFFICES ASSUME H # {} PROVE Max(H) \in 1..Len(scopes)
    OBVIOUS
  <2>1. H \in SUBSET (1..i)
    BY DEF Having
  <2>2. i \in Nat /\ i <= Len(scopes) /\ Len(scopes) \in Nat
    OBVIOUS
  <2>3. Max(H) \in 1..i
    BY <2>1, <2>2, MaxOf
  <2> QED BY <2>2, <2>3
<1> QED BY <1>1 DEF Look

-----------------------------------------------------------------------------
(* Types.                                                                    *)

Scopes_of(d) == Seq([Names -> 0..d])

\* Cutting a sequence off, even below nothing, leaves a sequence.
LEMMA CutIsSeq ==
  ASSUME NEW S, NEW s \in Seq(S), NEW n \in Int, n <= Len(s)
  PROVE  SubSeq(s, 1, n) \in Seq(S)
<1>1. CASE n \in Nat
  BY <1>1, SubSeqProperties
<1>2. CASE n \notin Nat
  BY <1>2
<1> QED BY <1>1, <1>2

\* Opening, defining and looking up keep to the declarations there are.
LEMMA PushType ==
  ASSUME NEW d \in Nat, NEW scopes \in Scopes_of(d)
  PROVE  push_scope(scopes) \in Scopes_of(d)
  BY DEF push_scope, Empty, Scopes_of

\* define keeps the type of a chain of scopes.
LEMMA DefineType ==
  ASSUME NEW d \in Nat, NEW scopes \in Scopes_of(d), NEW n \in Names
  PROVE  define(scopes, n, d + 1) \in Scopes_of(d + 1)
<1> DEFINE Scope == [Names -> 0..(d + 1)]
           top == [scopes[Len(scopes)] EXCEPT ![n] = d + 1]
<1>1. [Names -> 0..d] \subseteq Scope
  OBVIOUS
<1>2. scopes \in Seq(Scope)
  BY <1>1, SeqMonotonic DEF Scopes_of
<1>3. define(scopes, n, d + 1) = [scopes EXCEPT ![Len(scopes)] = top]
  BY DEF define
<1>4. CASE Len(scopes) = 0
  <2>1. define(scopes, n, d + 1) = scopes
    BY <1>2, <1>3, <1>4
  <2> QED BY <1>2, <2>1 DEF Scopes_of
<1>5. CASE Len(scopes) # 0
  <2>1. Len(scopes) \in 1..Len(scopes)
    BY <1>2, <1>5
  <2>2. scopes[Len(scopes)] \in Scope
    BY <1>2, <2>1
  <2>3. top \in Scope
    BY <2>2
  <2>4. [scopes EXCEPT ![Len(scopes)] = top] \in Seq(Scope)
    BY <1>2, <2>1, <2>3, ExceptSeq
  <2> QED BY <1>3, <2>4 DEF Scopes_of
<1> QED BY <1>4, <1>5

\* A name means a declaration that was made, or none.
LEMMA LookupType ==
  ASSUME NEW d \in Nat, NEW scopes \in Scopes_of(d), NEW n \in Names
  PROVE  lookup(scopes, n) \in 0..d
<1> DEFINE D == 0..d
<1>1. 0 \in D /\ scopes \in Seq([Names -> D])
  BY DEF Scopes_of
<1>2. Len(scopes) \in 0..Len(scopes)
  BY DEF Scopes_of
<1>3. Look(scopes, Len(scopes), n) \in D
  <2> HIDE DEF D
  <2> QED BY <1>1, <1>2, LookType
<1> QED BY <1>3, LookupIsLook

\* TypeOK, with only the declarations made so far.
Typed ==
  /\ path \in Seq(Constructs)
  /\ tc \in Scopes_of(decls)
  /\ cc \in Scopes_of(decls)
  /\ decls \in Decls
  /\ consts \subseteq 1..decls
  /\ reported \in BOOLEAN
  /\ c_error \in BOOLEAN
  /\ agree \in BOOLEAN
  /\ written \subseteq 0..decls

\* What is open stays a sequence of constructs.
LEMMA OpenType ==
  ASSUME Typed, path # <<>>
  PROVE  /\ Open \in Constructs
         /\ \A k \in Constructs : [path EXCEPT ![Len(path)] = k] \in Seq(Constructs)
         /\ Taken \in Seq(Constructs)
<1>1. path \in Seq(Constructs) /\ Len(path) \in 1..Len(path)
  BY DEF Typed
<1>2. Open \in Constructs
  BY <1>1 DEF Open
<1>3. \A k \in Constructs : [path EXCEPT ![Len(path)] = k] \in Seq(Constructs)
  BY <1>1, ExceptSeq
<1>4. "branch_done" \in Constructs /\ "for_done" \in Constructs
  BY DEF Constructs
<1>5. Taken \in Seq(Constructs)
  BY <1>1, <1>3, <1>4 DEF Taken
<1> QED BY <1>2, <1>3, <1>5

\* A reference leaves what was declared alone.
LEMMA ReferType ==
  ASSUME Typed, NEW n \in Names, NEW write, Refer(n, tc, cc, write),
         path' \in Seq(Constructs), UNCHANGED <<tc, cc, decls, consts>>
  PROVE  Typed'
<1>1. decls \in Nat
  BY ScopesAssumption DEF Typed, Decls
<1>2. lookup(cc, n) \in 0..decls
  BY <1>1, LookupType DEF Typed
<1> QED BY <1>2 DEF Typed, Refer

\* A declaration is the next one.
LEMMA DeclareType ==
  ASSUME Typed, NEW n \in Names, NEW const, NEW init, Declare(n, const, init),
         path' \in Seq(Constructs)
  PROVE  Typed'
<1>1. decls \in Nat /\ decls' = decls + 1 /\ decls' \in Decls
  BY ScopesAssumption DEF Typed, Decls, Declare
<1>2. tc' \in Scopes_of(decls') /\ cc' \in Scopes_of(decls')
  BY <1>1, DefineType DEF Typed, Declare
<1>3. consts' \subseteq 1..decls' /\ written' \subseteq 0..decls'
  BY <1>1 DEF Typed, Declare
<1>4. reported' \in BOOLEAN /\ c_error' \in BOOLEAN /\ agree' \in BOOLEAN
  BY DEF Typed, Declare
<1> QED BY <1>1, <1>2, <1>3, <1>4 DEF Typed

\* Both sides start with two empty scopes.
LEMMA ScopesTypedInit == Init => Typed
<1> SUFFICES ASSUME Init PROVE Typed
  OBVIOUS
<1>1. path \in Seq(Constructs)
  BY DEF Init, Constructs
<1>2. tc \in Scopes_of(decls) /\ cc \in Scopes_of(decls)
  BY DEF Init, Scopes_of, Empty
<1>3. decls \in Decls
  BY ScopesAssumption DEF Init, Decls
<1> QED BY <1>1, <1>2, <1>3 DEF Init, Typed

\* Every statement keeps the types of both chains.
LEMMA ScopesTypedNext == Typed /\ [Next]_vars => Typed'
<1> SUFFICES ASSUME Typed, [Next]_vars PROVE Typed'
  OBVIOUS
<1>0. decls \in Nat
  BY ScopesAssumption DEF Typed, Decls
<1>1. ASSUME NEW n \in Names, Parameter(n) PROVE Typed'
  <2>1. decls' = decls + 1 /\ decls' \in Decls
    BY <1>0, <1>1, ScopesAssumption DEF Typed, Decls, Parameter
  <2>2. tc' \in Scopes_of(decls') /\ cc' \in Scopes_of(decls')
    BY <1>0, <1>1, <2>1, DefineType DEF Typed, Parameter
  <2>3. consts' \subseteq 1..decls' /\ written' \subseteq 0..decls'
    BY <1>0, <1>1, <2>1 DEF Typed, Parameter
  <2>4. reported' \in BOOLEAN
    BY <1>1 DEF Parameter, Defined
  <2> QED BY <1>1, <2>1, <2>2, <2>3, <2>4 DEF Typed, Parameter
<1>2. ASSUME NEW n \in Names, NEW const, NEW init, VarDecl(n, const, init) PROVE Typed'
  BY <1>2, OpenType, DeclareType DEF VarDecl, Room
<1>3. ASSUME NEW n \in Names, NEW write, Reference(n, write) PROVE Typed'
  BY <1>3, OpenType, ReferType DEF Reference, Room
<1>4. ASSUME NEW n \in Names, NEW write, HeaderReference(n, write) PROVE Typed'
  <2>1. path' \in Seq(Constructs)
    BY <1>4 DEF HeaderReference, Typed
  <2> QED BY <1>4, <2>1, ReferType DEF HeaderReference
<1>5. CASE Body
  <2>1. path' \in Seq(Constructs)
    BY <1>5 DEF Body, Constructs
  <2>2. tc' \in Scopes_of(decls)
    BY <1>0, <1>5, PushType DEF Typed, Body
  <2> QED BY <1>5, <2>1, <2>2 DEF Typed, Body
<1>6. CASE Branch
  <2>1. path' \in Seq(Constructs)
    BY <1>6, OpenType, AppendProperties DEF Branch, Room, Constructs
  <2>2. cc' \in Scopes_of(decls)
    BY <1>0, <1>6, PushType DEF Typed, Branch
  <2> QED BY <1>6, <2>1, <2>2 DEF Typed, Branch
<1>7. CASE For
  <2>1. path' \in Seq(Constructs)
    BY <1>7, OpenType, AppendProperties DEF For, Room, Constructs
  <2>2. tc' \in Scopes_of(decls) /\ cc' \in Scopes_of(decls)
    BY <1>0, <1>7, PushType DEF Typed, For
  <2> QED BY <1>7, <2>1, <2>2 DEF Typed, For
<1>8. CASE ForInit
  <2>1. path' \in Seq(Constructs)
    BY <1>8, OpenType DEF ForInit, Constructs
  <2>2. CASE UNCHANGED <<tc, cc, decls, consts, reported, c_error, agree, written>>
    BY <2>1, <2>2 DEF Typed
  <2>3. ASSUME NEW n \in Names, NEW init, Declare(n, FALSE, init) PROVE Typed'
    BY <2>1, <2>3, DeclareType
  <2> QED BY <1>8, <2>2, <2>3 DEF ForInit
<1>9. CASE ForBody
  <2>1. path' \in Seq(Constructs)
    BY <1>9, OpenType DEF ForBody, Constructs
  <2>2. cc' \in Scopes_of(decls)
    BY <1>0, <1>9, PushType DEF Typed, ForBody
  <2> QED BY <1>9, <2>1, <2>2 DEF Typed, ForBody
<1>10. CASE Block
  <2>1. path' \in Seq(Constructs)
    BY <1>10, OpenType, AppendProperties DEF Block, Room, Constructs
  <2>2. tc' \in Scopes_of(decls)
    BY <1>0, <1>10, PushType DEF Typed, Block
  <2> QED BY <1>10, <2>1, <2>2 DEF Typed, Block
<1>11. CASE Leave
  <2>1. Len(path) - 1 <= Len(path) /\ Len(path) - 1 \in Int
    BY DEF Typed
  <2>2. path' \in Seq(Constructs)
    BY <1>11, <2>1, CutIsSeq DEF Typed, Leave
  <2>3. checker_scopes(Open) \in Nat /\ c_scopes(Open) \in Nat
    BY DEF checker_scopes, c_scopes
  <2>4. tc' \in Scopes_of(decls)
    <3>1. tc \in Seq([Names -> 0..decls]) /\ Len(tc) \in Nat
      BY DEF Typed, Scopes_of
    <3>2. Len(tc) - checker_scopes(Open) \in Int /\ Len(tc) - checker_scopes(Open) <= Len(tc)
      BY <2>3, <3>1
    <3> QED BY <1>11, <3>1, <3>2, CutIsSeq DEF Leave, Scopes_of
  <2>5. cc' \in Scopes_of(decls)
    <3>1. cc \in Seq([Names -> 0..decls]) /\ Len(cc) \in Nat
      BY DEF Typed, Scopes_of
    <3>2. Len(cc) - c_scopes(Open) \in Int /\ Len(cc) - c_scopes(Open) <= Len(cc)
      BY <2>3, <3>1
    <3> QED BY <1>11, <3>1, <3>2, CutIsSeq DEF Leave, Scopes_of
  <2> QED BY <1>11, <2>2, <2>4, <2>5 DEF Typed, Leave
<1>12. CASE UNCHANGED vars
  BY <1>12 DEF Typed, vars
<1> QED
  BY <1>1, <1>2, <1>3, <1>4, <1>5, <1>6, <1>7, <1>8, <1>9, <1>10, <1>11, <1>12 DEF Next

\* The types, as the run checks them.
LEMMA TypedIsTypeOK == Typed => TypeOK
<1> SUFFICES ASSUME Typed PROVE TypeOK
  OBVIOUS
<1>1. decls \in Nat /\ decls <= MaxDecls /\ MaxDecls \in Nat
  BY ScopesAssumption DEF Typed, Decls
<1>2. [Names -> 0..decls] \subseteq [Names -> Decls]
  BY <1>1 DEF Decls
<1>3. tc \in Seq([Names -> Decls]) /\ cc \in Seq([Names -> Decls])
  BY <1>2, SeqMonotonic DEF Typed, Scopes_of
<1>4. consts \subseteq 1..MaxDecls /\ written \subseteq Decls
  BY <1>1 DEF Typed, Decls
<1> QED BY <1>3, <1>4 DEF Typed, TypeOK

\* The scopes of both sides hold declarations that were made, whatever
\* constructs the sources use (check_stmt, emit_stmt).
THEOREM ScopesTypes == Spec => []TypeOK
<1>1. Spec => []Typed
  BY ScopesTypedInit, ScopesTypedNext, PTL DEF Spec
<1> QED BY <1>1, TypedIsTypeOK, PTL

-----------------------------------------------------------------------------
(* What opening, declaring and closing do to what names mean.                *)

Table == Seq([Names -> Nat])

\* A new scope goes on top of those there are.
LEMMA PushIs ==
  ASSUME NEW scopes \in Table
  PROVE  /\ Len(scopes) \in Nat
         /\ Len(push_scope(scopes)) = Len(scopes) + 1
         /\ push_scope(scopes)[Len(scopes) + 1] = Empty
         /\ \A i \in 1..Len(scopes) : push_scope(scopes)[i] = scopes[i]
  BY AppendProperties DEF push_scope, Table, Empty

\* It hides nothing.
LEMMA LookPush ==
  ASSUME NEW scopes \in Table, NEW n \in Names
  PROVE  Look(push_scope(scopes), Len(scopes) + 1, n) = Look(scopes, Len(scopes), n)
<1> DEFINE new == push_scope(scopes)
           l == Len(scopes)
<1>1. l \in Nat /\ l + 1 \in Nat \ {0} /\ (l + 1) - 1 = l
  BY PushIs
<1>2. Look(new, l + 1, n) = Look(new, l, n)
  <2>1. new[l + 1][n] = 0
    BY PushIs DEF Empty
  <2> HIDE DEF new, l
  <2> QED BY <1>1, <2>1, LookTop
<1>3. Look(new, l, n) = Look(scopes, l, n)
  BY <1>1, PushIs, LookSame
<1> QED BY <1>2, <1>3

\* A declaration is found from where it is made, and changes no other name.
LEMMA LookDefine ==
  ASSUME NEW scopes \in Table, Len(scopes) # 0, NEW n \in Names, NEW d \in Nat \ {0}
  PROVE  /\ define(scopes, n, d) \in Table
         /\ Len(define(scopes, n, d)) = Len(scopes)
         /\ define(scopes, n, d)[Len(scopes)] = [scopes[Len(scopes)] EXCEPT ![n] = d]
         /\ \A i \in 1..(Len(scopes) - 1) : define(scopes, n, d)[i] = scopes[i]
         /\ \A m \in Names : Look(define(scopes, n, d), Len(scopes), m)
                               = IF m = n THEN d ELSE Look(scopes, Len(scopes), m)
<1> DEFINE new == define(scopes, n, d)
           l == Len(scopes)
           top == [scopes[l] EXCEPT ![n] = d]
<1>1. l \in Nat \ {0} /\ l - 1 \in Nat /\ l \in 1..l
  BY DEF Table
<1>2. scopes[l] \in [Names -> Nat] /\ top \in [Names -> Nat]
  BY <1>1 DEF Table
<1>3. new = [scopes EXCEPT ![l] = top]
  BY DEF define
<1>4. new \in Table /\ Len(new) = l /\ new[l] = top /\ \A i \in 1..(l - 1) : new[i] = scopes[i]
  BY <1>1, <1>2, <1>3, ExceptSeq DEF Table
<1>5. ASSUME NEW m \in Names
      PROVE  Look(new, l, m) = IF m = n THEN d ELSE Look(scopes, l, m)
  <2>1. Look(new, l - 1, m) = Look(scopes, l - 1, m)
    BY <1>1, <1>4, LookSame
  <2>2. new[l][m] = IF m = n THEN d ELSE scopes[l][m]
    BY <1>2, <1>4
  <2>3. Look(new, l, m) = IF new[l][m] # 0 THEN new[l][m] ELSE Look(new, l - 1, m)
    BY <1>1, LookTop
  <2>4. Look(scopes, l, m) = IF scopes[l][m] # 0 THEN scopes[l][m] ELSE Look(scopes, l - 1, m)
    BY <1>1, LookTop
  <2> HIDE DEF new, l
  <2> QED BY <2>1, <2>2, <2>3, <2>4
<1> QED BY <1>4, <1>5

-----------------------------------------------------------------------------
(* The two chains of scopes, construct by construct.  t and c say how many   *)
(* scopes the checker and C have while construct k is the innermost one.     *)

Ended == {"branch_done", "for_done"}
Outer == Ended \cup {"body", "block"}
Inner == Constructs \ {"parameters", "body"}

checker_rise(k) == IF k \in {"branch", "branch_done"} THEN 0 ELSE 1
c_rise(k) == IF k = "block" THEN 0 ELSE IF k \in {"for", "for_done"} THEN 2 ELSE 1

\* What the two chains have in common at the heights i and j of a construct
\* k.  Once an if, a while or a for has its body, no name is read at its own
\* height any more: only there may they differ.
Met(k, tcs, i, ccs, j) ==
  /\ k \notin Ended => \A n \in Names : Look(tcs, i, n) = Look(ccs, j, n)
  /\ k \in {"parameters", "block", "for_init"} => tcs[i] = ccs[j]
  /\ k \in {"branch", "for"} => ccs[j] = Empty
  /\ k = "body" => \A n \in Names : ccs[j][n] # 0 => tcs[i][n] # 0 \/ tcs[i - 1][n] # 0

Base(p, t, c) ==
  /\ c[1] = 2
  /\ \/ p[1] = "parameters" /\ t[1] = 2
     \/ p[1] = "body" /\ t[1] = 3

Rises(p, t, c) ==
  \A k \in 2..Len(p) :
    /\ p[k] \in Inner /\ p[k - 1] \in Outer
    /\ p[k] = "block" => p[k - 1] \in Ended
    /\ t[k] = t[k - 1] + checker_rise(p[k])
    /\ c[k] = c[k - 1] + c_rise(p[k])

\* A declaration in construct k is in no scope of a construct around it whose
\* names are read again.
Apart(p, t, c) ==
  \A j, k \in 1..Len(p) : j < k =>
    /\ t[j] <= t[k] /\ c[j] <= c[k]
    /\ p[j] \in {"body", "block"} => c[j] < c[k]
    /\ p[k] \in {"block", "for_init", "header"} => t[j] < t[k]

Heights(p, t, c) == Base(p, t, c) /\ Rises(p, t, c) /\ Apart(p, t, c)

Aligned(p, tcs, ccs) ==
  \E t, c \in [1..Len(p) -> Nat] :
    /\ Heights(p, t, c)
    /\ t[Len(p)] = Len(tcs) /\ c[Len(p)] = Len(ccs)
    /\ \A k \in 1..Len(p) : Met(p[k], tcs, t[k], ccs, c[k])

\* Only the scopes up to a construct's heights matter to it.
LEMMA MetFrame ==
  ASSUME NEW k, NEW tcs, NEW ccs, NEW tcs2, NEW ccs2,
         NEW i \in Nat \ {0, 1}, NEW j \in Nat \ {0},
         \A x \in 1..i : tcs[x] = tcs2[x],
         \A x \in 1..j : ccs[x] = ccs2[x],
         Met(k, tcs, i, ccs, j)
  PROVE  Met(k, tcs2, i, ccs2, j)
<1>1. \A n \in Names : Look(tcs, i, n) = Look(tcs2, i, n)
  BY LookSame
<1>2. \A n \in Names : Look(ccs, j, n) = Look(ccs2, j, n)
  BY LookSame
<1>3. i \in 1..i /\ i - 1 \in 1..i /\ j \in 1..j
  OBVIOUS
<1>4. tcs[i] = tcs2[i] /\ tcs[i - 1] = tcs2[i - 1] /\ ccs[j] = ccs2[j]
  BY <1>3
<1> QED BY <1>1, <1>2, <1>4 DEF Met

\* Every construct is at least at the heights of the first.
LEMMA HeightsBound ==
  ASSUME NEW p, Len(p) \in Nat \ {0}, NEW t \in [1..Len(p) -> Nat], NEW c \in [1..Len(p) -> Nat],
         Heights(p, t, c), NEW k \in 1..Len(p)
  PROVE  /\ t[k] \in Nat \ {0, 1} /\ c[k] \in Nat \ {0, 1}
         /\ t[k] <= t[Len(p)] /\ c[k] <= c[Len(p)]
<1>1. t[1] >= 2 /\ c[1] = 2
  BY DEF Heights, Base
<1>2. t[1] <= t[k] /\ c[1] <= c[k]
  BY DEF Heights, Apart
<1>3. t[k] <= t[Len(p)] /\ c[k] <= c[Len(p)]
  BY DEF Heights, Apart
<1> QED BY <1>1, <1>2, <1>3

\* A construct opens inside the innermost one.
LEMMA NestHeights ==
  ASSUME NEW p \in Seq(Constructs), p # <<>>, p[Len(p)] \in Outer,
         NEW k \in {"branch", "for_init", "block"}, k = "block" => p[Len(p)] \in Ended,
         NEW t \in [1..Len(p) -> Nat], NEW c \in [1..Len(p) -> Nat], Heights(p, t, c),
         NEW t2, NEW c2,
         \A i \in 1..Len(p) : t2[i] = t[i] /\ c2[i] = c[i],
         t2[Len(p) + 1] = t[Len(p)] + checker_rise(k),
         c2[Len(p) + 1] = c[Len(p)] + c_rise(k)
  PROVE  Heights(Append(p, k), t2, c2)
<1> DEFINE l == Len(p)
           q == Append(p, k)
<1>1. l \in Nat \ {0} /\ l \in 1..l /\ l + 1 # 1 /\ (l + 1) - 1 = l
  OBVIOUS
<1>2. Len(q) = l + 1 /\ q[l + 1] = k /\ \A i \in 1..l : q[i] = p[i]
  BY AppendProperties DEF Constructs
<1>3. k \in Inner /\ checker_rise(k) \in {0, 1} /\ c_rise(k) \in {0, 1}
      /\ (k # "branch" => checker_rise(k) = 1) /\ (k # "block" => c_rise(k) = 1)
  BY DEF Inner, Constructs, checker_rise, c_rise
<1>4. Base(q, t2, c2)
  BY <1>1, <1>2 DEF Heights, Base
<1>5. Rises(q, t2, c2)
  <2> SUFFICES ASSUME NEW i \in 2..(l + 1)
               PROVE  /\ q[i] \in Inner /\ q[i - 1] \in Outer
                      /\ q[i] = "block" => q[i - 1] \in Ended
                      /\ t2[i] = t2[i - 1] + checker_rise(q[i])
                      /\ c2[i] = c2[i - 1] + c_rise(q[i])
    BY <1>2 DEF Rises
  <2>1. CASE i = l + 1
    BY <1>1, <1>2, <1>3, <2>1
  <2>2. CASE i # l + 1
    <3>1. i \in 2..l /\ i \in 1..l /\ i - 1 \in 1..l
      BY <1>1, <2>2
    <3> HIDE DEF l, q
    <3> QED BY <1>2, <3>1 DEF Heights, Rises, l
  <2> QED BY <2>1, <2>2
<1>6. Apart(q, t2, c2)
  <2> SUFFICES ASSUME NEW i \in 1..(l + 1), NEW j \in 1..(l + 1), i < j
               PROVE  /\ t2[i] <= t2[j] /\ c2[i] <= c2[j]
                      /\ q[i] \in {"body", "block"} => c2[i] < c2[j]
                      /\ q[j] \in {"block", "for_init", "header"} => t2[i] < t2[j]
    BY <1>2 DEF Apart
  <2>1. i \in 1..l
    BY <1>1
  <2>2. CASE j = l + 1
    <3>1. i < l \/ i = l
      BY <2>1
    <3>2. t[i] <= t[l] /\ c[i] <= c[l] /\ (i < l /\ p[i] \in {"body", "block"} => c[i] < c[l])
      <4>1. CASE i = l
        <5>1. t[i] = t[l] /\ c[i] = c[l] /\ t[l] \in Nat /\ c[l] \in Nat
          BY <1>1, <4>1
        <5> QED BY <1>1, <4>1, <5>1
      <4>2. CASE i < l
        BY <1>1, <2>1, <4>2 DEF Heights, Apart
      <4> QED BY <3>1, <4>1, <4>2
    <3>3. t[i] \in Nat /\ t[l] \in Nat /\ c[i] \in Nat /\ c[l] \in Nat
      BY <1>1, <2>1
    <3>4. t2[i] = t[i] /\ c2[i] = c[i] /\ t2[j] = t[l] + checker_rise(k) /\ c2[j] = c[l] + c_rise(k)
      BY <2>1, <2>2
    <3>5. q[i] = p[i] /\ q[j] = k
      BY <1>2, <2>1, <2>2
    <3>6. t2[i] <= t2[j] /\ c2[i] <= c2[j]
      <4> HIDE DEF l
      <4> QED BY <1>3, <3>2, <3>3, <3>4
    <3>7. ASSUME q[i] \in {"body", "block"} PROVE c2[i] < c2[j]
      <4>1. CASE i = l
        <5>1. k # "block"
          BY <3>5, <3>7, <4>1 DEF Ended
        <5> HIDE DEF l
        <5> QED BY <1>3, <3>3, <3>4, <4>1, <5>1
      <4>2. CASE i < l
        <5> HIDE DEF l
        <5> QED BY <1>3, <3>2, <3>3, <3>4, <3>5, <3>7, <4>2
      <4> QED BY <3>1, <4>1, <4>2
    <3>8. ASSUME q[j] \in {"block", "for_init", "header"} PROVE t2[i] < t2[j]
      <4>1. k # "branch"
        BY <3>5, <3>8
      <4> HIDE DEF l
      <4> QED BY <1>3, <3>2, <3>3, <3>4, <4>1
    <3> QED BY <3>6, <3>7, <3>8
  <2>3. CASE j # l + 1
    <3>1. j \in 1..l
      BY <1>1, <2>3
    <3> HIDE DEF q
    <3> QED BY <1>2, <2>1, <3>1 DEF Heights, Apart
  <2> QED BY <2>2, <2>3
<1> QED BY <1>4, <1>5, <1>6 DEF Heights

\* A construct that is opened keeps the two chains aligned.
LEMMA AlignedNest ==
  ASSUME NEW p \in Seq(Constructs), p # <<>>, p[Len(p)] \in Outer,
         NEW k \in {"branch", "for_init", "block"}, k = "block" => p[Len(p)] \in Ended,
         NEW tcs \in Table, NEW ccs \in Table, Aligned(p, tcs, ccs),
         \A n \in Names : lookup(tcs, n) = lookup(ccs, n),
         k = "block" => ccs[Len(ccs)] = Empty,
         NEW tcs2, tcs2 = IF k = "branch" THEN tcs ELSE push_scope(tcs),
         NEW ccs2, ccs2 = IF k = "block" THEN ccs ELSE push_scope(ccs)
  PROVE  Aligned(Append(p, k), tcs2, ccs2)
<1> DEFINE l == Len(p)
           q == Append(p, k)
<1>1. l \in Nat \ {0} /\ l \in 1..l /\ l + 1 \in 1..(l + 1)
  OBVIOUS
<1>2. Len(q) = l + 1 /\ q[l + 1] = k /\ \A i \in 1..l : q[i] = p[i]
  BY AppendProperties DEF Constructs
<1>3. PICK t \in [1..l -> Nat], c \in [1..l -> Nat] :
        /\ Heights(p, t, c)
        /\ t[l] = Len(tcs) /\ c[l] = Len(ccs)
        /\ \A i \in 1..l : Met(p[i], tcs, t[i], ccs, c[i])
  BY DEF Aligned
<1>4. Len(tcs) \in Nat /\ Len(ccs) \in Nat
  BY DEF Table
<1>5. /\ Len(tcs2) = Len(tcs) + checker_rise(k)
      /\ \A i \in 1..Len(tcs) : tcs2[i] = tcs[i]
      /\ \A n \in Names : Look(tcs2, Len(tcs2), n) = Look(tcs, Len(tcs), n)
      /\ k # "branch" => tcs2[Len(tcs2)] = Empty
  BY PushIs, LookPush DEF checker_rise
<1>6. /\ Len(ccs2) = Len(ccs) + c_rise(k)
      /\ \A i \in 1..Len(ccs) : ccs2[i] = ccs[i]
      /\ \A n \in Names : Look(ccs2, Len(ccs2), n) = Look(ccs, Len(ccs), n)
      /\ ccs2[Len(ccs2)] = Empty
  BY PushIs, LookPush DEF c_rise
<1>7. Len(tcs2) \in Nat /\ Len(ccs2) \in Nat
  BY <1>4, <1>5, <1>6 DEF checker_rise, c_rise
<1> DEFINE t2 == [i \in 1..(l + 1) |-> IF i = l + 1 THEN Len(tcs2) ELSE t[i]]
           c2 == [i \in 1..(l + 1) |-> IF i = l + 1 THEN Len(ccs2) ELSE c[i]]
<1>8. t2 \in [1..(l + 1) -> Nat] /\ c2 \in [1..(l + 1) -> Nat]
  BY <1>7
<1>9. (\A i \in 1..l : t2[i] = t[i] /\ c2[i] = c[i]) /\ t2[l + 1] = Len(tcs2) /\ c2[l + 1] = Len(ccs2)
  BY <1>1
<1>10. Heights(q, t2, c2)
  <2>1. t2[l + 1] = t[l] + checker_rise(k) /\ c2[l + 1] = c[l] + c_rise(k)
    BY <1>3, <1>5, <1>6, <1>9
  <2> HIDE DEF t2, c2
  <2> QED BY <1>3, <1>9, <2>1, NestHeights
<1>11. ASSUME NEW i \in 1..(l + 1) PROVE Met(q[i], tcs2, t2[i], ccs2, c2[i])
  <2>1. CASE i = l + 1
    <3>1. \A n \in Names : Look(tcs2, Len(tcs2), n) = Look(ccs2, Len(ccs2), n)
      BY <1>5, <1>6, LookupIsLook
    <3>2. k # "branch" => tcs2[Len(tcs2)] = ccs2[Len(ccs2)]
      BY <1>5, <1>6
    <3>3. Met(k, tcs2, Len(tcs2), ccs2, Len(ccs2))
      BY <1>6, <3>1, <3>2 DEF Met
    <3> QED BY <1>2, <1>9, <2>1, <3>3
  <2>2. CASE i # l + 1
    <3>1. i \in 1..l
      BY <1>1, <2>2
    <3>2. t[i] \in Nat \ {0, 1} /\ c[i] \in Nat \ {0, 1} /\ t[i] <= t[l] /\ c[i] <= c[l]
      BY <1>1, <1>3, <3>1, HeightsBound
    <3>3. \A x \in 1..t[i] : tcs[x] = tcs2[x]
      BY <1>3, <1>4, <1>5, <3>2
    <3>4. \A x \in 1..c[i] : ccs[x] = ccs2[x]
      BY <1>3, <1>4, <1>6, <3>2
    <3>5. Met(p[i], tcs2, t[i], ccs2, c[i])
      BY <1>3, <3>1, <3>2, <3>3, <3>4, MetFrame, ZenonT(60)
    <3> QED BY <1>2, <1>9, <3>1, <3>5
  <2> QED BY <2>1, <2>2
<1>12. t2[Len(q)] = Len(tcs2) /\ c2[Len(q)] = Len(ccs2)
  BY <1>2, <1>9
<1> HIDE DEF t2, c2, q, l
<1> QED BY <1>2, <1>8, <1>10, <1>11, <1>12 DEF Aligned, q

\* The innermost construct goes on: its body is there, or its header is.
Goes_on == {<<"branch", "branch_done">>, <<"for", "for_done">>,
            <<"for_init", "header">>, <<"header", "for">>}

\* From one part of a construct to the next, the heights stay or gain one.
LEMMA TurnHeights ==
  ASSUME NEW p \in Seq(Constructs), p # <<>>, NEW k, <<p[Len(p)], k>> \in Goes_on,
         NEW t \in [1..Len(p) -> Nat], NEW c \in [1..Len(p) -> Nat], Heights(p, t, c),
         NEW c2,
         \A i \in 1..(Len(p) - 1) : c2[i] = c[i],
         c2[Len(p)] = c[Len(p)] + (IF k = "for" THEN 1 ELSE 0)
  PROVE  Heights([p EXCEPT ![Len(p)] = k], t, c2)
<1> DEFINE l == Len(p)
           q == [p EXCEPT ![l] = k]
<1>1. l \in Nat \ {0} /\ l \in 1..l
  OBVIOUS
<1>2. Len(q) = l /\ q[l] = k /\ \A i \in 1..(l - 1) : q[i] = p[i]
  BY <1>1
<1>3. /\ k \in Inner /\ p[l] \notin {"parameters", "body", "block"}
      /\ k \notin {"block", "for_init"} /\ (k = "header" => p[l] = "for_init")
      /\ checker_rise(k) = checker_rise(p[l])
      /\ c_rise(k) = c_rise(p[l]) + (IF k = "for" THEN 1 ELSE 0)
  BY DEF Inner, Constructs, checker_rise, c_rise, Goes_on
<1>4. l > 1
  BY <1>1, <1>3 DEF Heights, Base
<1>5. c[l] \in Nat /\ c2[l] \in Nat /\ c[l] <= c2[l]
  BY <1>1
<1>6. Base(q, t, c2)
  <2>1. 1 \in 1..(l - 1)
    BY <1>1, <1>4
  <2>2. q[1] = p[1] /\ c2[1] = c[1]
    BY <1>2, <2>1
  <2> HIDE DEF q
  <2> QED BY <2>2 DEF Heights, Base
<1>7. Rises(q, t, c2)
  <2> SUFFICES ASSUME NEW i \in 2..l
               PROVE  /\ q[i] \in Inner /\ q[i - 1] \in Outer
                      /\ q[i] = "block" => q[i - 1] \in Ended
                      /\ t[i] = t[i - 1] + checker_rise(q[i])
                      /\ c2[i] = c2[i - 1] + c_rise(q[i])
    BY <1>2 DEF Rises
  <2>0. i - 1 \in 1..(l - 1) /\ i \in 1..l
    BY <1>1
  <2>1. q[i - 1] = p[i - 1] /\ c2[i - 1] = c[i - 1] /\ c[i - 1] \in Nat /\ c[i] \in Nat
    <3>1. q[i - 1] = p[i - 1] /\ c2[i - 1] = c[i - 1]
      <4> HIDE DEF q
      <4> QED BY <1>2, <2>0
    <3>2. i - 1 \in 1..l
      BY <1>1, <2>0
    <3> QED BY <2>0, <3>1, <3>2
  <2>2. /\ p[i - 1] \in Outer
        /\ p[i] = "block" => p[i - 1] \in Ended
        /\ t[i] = t[i - 1] + checker_rise(p[i])
        /\ c[i] = c[i - 1] + c_rise(p[i])
        /\ p[i] \in Inner
    BY DEF Heights, Rises
  <2>3. CASE i = l
    <3>1. q[i] = k /\ c2[i] = c[i] + (IF k = "for" THEN 1 ELSE 0)
      BY <1>2, <2>3
    <3>2. c_rise(p[l]) \in Nat
      BY DEF c_rise
    <3>3. c2[i] = c2[i - 1] + c_rise(q[i])
      <4> HIDE DEF l, q
      <4> QED BY <1>3, <2>1, <2>2, <2>3, <3>1, <3>2
    <3> HIDE DEF l, q
    <3> QED BY <1>3, <2>1, <2>2, <2>3, <3>1, <3>3
  <2>4. CASE i # l
    <3>1. q[i] = p[i] /\ c2[i] = c[i]
      <4>1. i \in 1..(l - 1)
        BY <1>1, <2>0, <2>4
      <4> HIDE DEF q
      <4> QED BY <1>2, <4>1
    <3> HIDE DEF l, q
    <3> QED BY <2>1, <2>2, <3>1
  <2> QED BY <2>3, <2>4
<1>8. Apart(q, t, c2)
  <2> SUFFICES ASSUME NEW i \in 1..l, NEW j \in 1..l, i < j
               PROVE  /\ t[i] <= t[j] /\ c2[i] <= c2[j]
                      /\ q[i] \in {"body", "block"} => c2[i] < c2[j]
                      /\ q[j] \in {"block", "for_init", "header"} => t[i] < t[j]
    BY <1>2 DEF Apart
  <2>1. i \in 1..(l - 1)
    BY <1>1
  <2>2. q[i] = p[i] /\ c2[i] = c[i] /\ c[i] \in Nat /\ c[j] \in Nat
    BY <1>2, <2>1
  <2>3. /\ t[i] <= t[j] /\ c[i] <= c[j]
        /\ p[i] \in {"body", "block"} => c[i] < c[j]
        /\ p[j] \in {"block", "for_init", "header"} => t[i] < t[j]
    BY DEF Heights, Apart
  <2>4. CASE j = l
    <3>1. q[j] = k
      BY <1>2, <2>4
    <3>2. q[j] \in {"block", "for_init", "header"} => t[i] < t[j]
      BY <1>3, <2>3, <2>4, <3>1
    <3>3. c[j] <= c2[j] /\ c2[j] \in Nat
      BY <1>5, <2>4
    <3>4. c2[i] <= c2[j] /\ (q[i] \in {"body", "block"} => c2[i] < c2[j])
      <4> HIDE DEF l, q
      <4> QED BY <2>2, <2>3, <3>3
    <3> QED BY <2>3, <3>2, <3>4
  <2>5. CASE j # l
    <3>1. j \in 1..(l - 1)
      BY <1>1, <2>5
    <3>2. q[j] = p[j] /\ c2[j] = c[j]
      BY <1>2, <3>1
    <3> HIDE DEF l, q
    <3> QED BY <2>2, <2>3, <3>2
  <2> QED BY <2>4, <2>5
<1> QED BY <1>6, <1>7, <1>8 DEF Heights

\* The next part of a construct keeps the two chains aligned.
LEMMA AlignedTurn ==
  ASSUME NEW p \in Seq(Constructs), p # <<>>, NEW k, <<p[Len(p)], k>> \in Goes_on,
         NEW tcs \in Table, NEW ccs \in Table, Aligned(p, tcs, ccs),
         NEW ccs2, ccs2 = IF k = "for" THEN push_scope(ccs) ELSE ccs
  PROVE  Aligned([p EXCEPT ![Len(p)] = k], tcs, ccs2)
<1> DEFINE l == Len(p)
           q == [p EXCEPT ![l] = k]
<1>1. l \in Nat \ {0} /\ l \in 1..l
  OBVIOUS
<1>2. Len(q) = l /\ q[l] = k /\ \A i \in 1..(l - 1) : q[i] = p[i]
  BY <1>1
<1>3. PICK t \in [1..l -> Nat], c \in [1..l -> Nat] :
        /\ Heights(p, t, c)
        /\ t[l] = Len(tcs) /\ c[l] = Len(ccs)
        /\ \A i \in 1..l : Met(p[i], tcs, t[i], ccs, c[i])
  BY DEF Aligned
<1>4. Len(tcs) \in Nat /\ Len(ccs) \in Nat
  BY DEF Table
<1>5. /\ Len(ccs2) = Len(ccs) + (IF k = "for" THEN 1 ELSE 0)
      /\ \A i \in 1..Len(ccs) : ccs2[i] = ccs[i]
      /\ \A n \in Names : Look(ccs2, Len(ccs2), n) = Look(ccs, Len(ccs), n)
      /\ k = "for" => ccs2[Len(ccs2)] = Empty
  BY PushIs, LookPush
<1>6. Len(ccs2) \in Nat
  BY <1>4, <1>5
<1> DEFINE c2 == [i \in 1..l |-> IF i = l THEN Len(ccs2) ELSE c[i]]
<1>7. c2 \in [1..l -> Nat]
  BY <1>6
<1>8. (\A i \in 1..(l - 1) : c2[i] = c[i]) /\ c2[l] = Len(ccs2)
  BY <1>1
<1>9. Heights(q, t, c2)
  <2>1. c2[l] = c[l] + (IF k = "for" THEN 1 ELSE 0)
    BY <1>3, <1>5, <1>8
  <2> HIDE DEF c2
  <2> QED BY <1>3, <1>8, <2>1, TurnHeights
<1>10. ASSUME NEW i \in 1..l PROVE Met(q[i], tcs, t[i], ccs2, c2[i])
  <2>0. t[i] \in Nat \ {0, 1} /\ c[i] \in Nat \ {0, 1} /\ t[i] <= t[l] /\ c[i] <= c[l]
    BY <1>1, <1>3, HeightsBound
  <2>1. CASE i = l
    <3>1. k \in Ended \/ (k \in {"for", "header"} /\ p[l] \in {"for_init", "header"})
      BY DEF Goes_on, Ended
    <3>2. k \notin {"parameters", "block", "for_init", "branch", "body"}
      BY DEF Goes_on
    <3>3. p[l] \in {"for_init", "header"}
          => \A n \in Names : Look(tcs, Len(tcs), n) = Look(ccs, Len(ccs), n)
      <4> HIDE DEF l
      <4>1. Met(p[l], tcs, t[l], ccs, c[l])
        BY <1>1, <1>3
      <4>2. Met(p[l], tcs, Len(tcs), ccs, Len(ccs))
        BY <1>3, <4>1
      <4>3. p[l] \in {"for_init", "header"} => p[l] \notin Ended
        BY DEF Ended
      <4> QED BY <4>2, <4>3 DEF Met
    <3>4. k \notin Ended
          => \A n \in Names : Look(tcs, Len(tcs), n) = Look(ccs2, Len(ccs2), n)
      BY <1>5, <3>1, <3>3
    <3>5. Met(k, tcs, Len(tcs), ccs2, Len(ccs2))
      BY <1>5, <3>2, <3>4 DEF Met
    <3> QED BY <1>2, <1>3, <1>8, <2>1, <3>5
  <2>2. CASE i # l
    <3>1. i \in 1..(l - 1)
      BY <1>1, <2>2
    <3>2. \A x \in 1..c[i] : ccs[x] = ccs2[x]
      BY <1>3, <1>4, <1>5, <2>0
    <3>3. Met(p[i], tcs, t[i], ccs2, c[i])
      BY <1>3, <2>0, <3>2, MetFrame
    <3> QED BY <1>2, <1>8, <3>1, <3>3
  <2> QED BY <2>1, <2>2
<1>11. Aligned(q, tcs, ccs2)
  <2> HIDE DEF c2, q, l
  <2> QED BY <1>2, <1>3, <1>7, <1>8, <1>9, <1>10 DEF Aligned
<1> QED BY <1>11

\* A declaration goes into the innermost scope on both sides.
LEMMA AlignedDefine ==
  ASSUME NEW p \in Seq(Constructs), p # <<>>,
         p[Len(p)] \in {"parameters", "body", "block", "for_init"},
         NEW tcs \in Table, NEW ccs \in Table, Aligned(p, tcs, ccs),
         NEW n \in Names, NEW d \in Nat \ {0}
  PROVE  Aligned(p, define(tcs, n, d), define(ccs, n, d))
<1> DEFINE l == Len(p)
           tcs2 == define(tcs, n, d)
           ccs2 == define(ccs, n, d)
           tl == Len(tcs)
           cl == Len(ccs)
<1>1. l \in Nat \ {0} /\ l \in 1..l
  OBVIOUS
<1>2. PICK t \in [1..l -> Nat], c \in [1..l -> Nat] :
        /\ Heights(p, t, c)
        /\ t[l] = tl /\ c[l] = cl
        /\ \A i \in 1..l : Met(p[i], tcs, t[i], ccs, c[i])
  BY DEF Aligned
<1>3. tl \in Nat \ {0, 1} /\ cl \in Nat \ {0, 1}
  BY <1>1, <1>2, HeightsBound
<1>4. /\ Len(tcs2) = tl /\ tcs2[tl] = [tcs[tl] EXCEPT ![n] = d]
      /\ \A i \in 1..(tl - 1) : tcs2[i] = tcs[i]
      /\ \A m \in Names : Look(tcs2, tl, m) = IF m = n THEN d ELSE Look(tcs, tl, m)
  BY <1>3, LookDefine
<1>5. /\ Len(ccs2) = cl /\ ccs2[cl] = [ccs[cl] EXCEPT ![n] = d]
      /\ \A i \in 1..(cl - 1) : ccs2[i] = ccs[i]
      /\ \A m \in Names : Look(ccs2, cl, m) = IF m = n THEN d ELSE Look(ccs, cl, m)
  BY <1>3, LookDefine
<1>6. ASSUME NEW i \in 1..l PROVE Met(p[i], tcs2, t[i], ccs2, c[i])
  <2>0. t[i] \in Nat \ {0, 1} /\ c[i] \in Nat \ {0, 1} /\ Met(p[i], tcs, t[i], ccs, c[i])
    BY <1>1, <1>2, HeightsBound
  <2>1. CASE i = l
    <3>1. Met(p[l], tcs, tl, ccs, cl)
      BY <1>2, <2>0, <2>1
    <3>2. \A m \in Names : Look(tcs2, tl, m) = Look(ccs2, cl, m)
      <4>1. \A m \in Names : Look(tcs, tl, m) = Look(ccs, cl, m)
        BY <3>1 DEF Met, Ended
      <4> HIDE DEF tcs2, ccs2, tl, cl
      <4> QED BY <1>4, <1>5, <4>1
    <3>3. p[l] # "body" => tcs2[tl] = ccs2[cl]
      BY <1>4, <1>5, <3>1 DEF Met
    <3>4. p[l] = "body" => \A m \in Names : ccs2[cl][m] # 0 => tcs2[tl][m] # 0 \/ tcs2[tl - 1][m] # 0
      <4> SUFFICES ASSUME p[l] = "body", NEW m \in Names, ccs2[cl][m] # 0
                   PROVE  tcs2[tl][m] # 0 \/ tcs2[tl - 1][m] # 0
        OBVIOUS
      <4>1. tl \in 1..tl /\ cl \in 1..cl /\ tl - 1 \in 1..(tl - 1)
        <5> HIDE DEF tl, cl
        <5> QED BY <1>3
      <4>2. tcs[tl] \in [Names -> Nat] /\ ccs[cl] \in [Names -> Nat]
        <5>1. tcs \in Seq([Names -> Nat]) /\ ccs \in Seq([Names -> Nat])
          BY DEF Table
        <5> QED BY <4>1, <5>1, ElementOfSeq
      <4>3. ccs[cl][m] # 0 => tcs[tl][m] # 0 \/ tcs[tl - 1][m] # 0
        BY <3>1 DEF Met
      <4>4. tcs2[tl][m] = (IF m = n THEN d ELSE tcs[tl][m]) /\ tcs2[tl - 1][m] = tcs[tl - 1][m]
        BY <1>4, <4>1, <4>2
      <4>5. ccs2[cl][m] = IF m = n THEN d ELSE ccs[cl][m]
        BY <1>5, <4>1, <4>2
      <4> HIDE DEF tcs2, ccs2, tl, cl
      <4> QED BY <4>3, <4>4, <4>5
    <3>5. Met(p[l], tcs2, tl, ccs2, cl)
      BY <3>2, <3>3, <3>4 DEF Met
    <3> QED BY <1>2, <2>1, <3>5
  <2>2. CASE i # l
    <3>1. i < l /\ l # 1
      BY <1>1, <2>2
    <3>2. p[l] \in {"block", "for_init"}
      <4>1. l \in 2..l
        BY <1>1, <3>1
      <4>2. p[l] \in Inner
        BY <1>2, <4>1 DEF Heights, Rises
      <4> QED BY <4>2 DEF Inner
    <3>3. t[i] < tl
      BY <1>1, <1>2, <3>1, <3>2 DEF Heights, Apart
    <3>4. \A x \in 1..t[i] : tcs[x] = tcs2[x]
      BY <1>3, <1>4, <2>0, <3>3
    <3>5. CASE p[i] \in {"body", "block"}
      <4>1. c[i] < cl
        BY <1>1, <1>2, <3>1, <3>5 DEF Heights, Apart
      <4>2. \A x \in 1..c[i] : ccs[x] = ccs2[x]
        BY <1>3, <1>5, <2>0, <4>1
      <4> QED BY <2>0, <3>4, <4>2, MetFrame
    <3>6. CASE p[i] \notin {"body", "block"}
      <4>1. i + 1 \in 2..l /\ (i + 1) - 1 = i
        BY <1>1, <3>1
      <4>2. p[i] \in Outer
        BY <1>2, <4>1 DEF Heights, Rises
      <4>3. p[i] \in Ended
        BY <3>6, <4>2 DEF Outer
      <4> QED BY <4>3 DEF Met, Ended
    <3> QED BY <3>5, <3>6
  <2> QED BY <2>1, <2>2
<1>7. t[l] = Len(tcs2) /\ c[l] = Len(ccs2)
  BY <1>2, <1>4, <1>5
<1>8. Aligned(p, tcs2, ccs2)
  <2> HIDE DEF tcs2, ccs2
  <2> QED BY <1>2, <1>6, <1>7 DEF Aligned
<1> QED BY <1>8

\* STMT_BLOCK of the body: the checker's new scope meets C's only one.
LEMMA AlignedBody ==
  ASSUME NEW tcs \in Table, NEW ccs \in Table, Aligned(<<"parameters">>, tcs, ccs)
  PROVE  Aligned(<<"body">>, push_scope(tcs), ccs)
<1> DEFINE tcs2 == push_scope(tcs)
<1>1. PICK t \in [1..1 -> Nat], c \in [1..1 -> Nat] :
        /\ Heights(<<"parameters">>, t, c)
        /\ t[1] = Len(tcs) /\ c[1] = Len(ccs)
        /\ Met("parameters", tcs, t[1], ccs, c[1])
  BY DEF Aligned
<1>2. Len(tcs) = 2 /\ Len(ccs) = 2
  BY <1>1 DEF Heights, Base
<1>3. Len(tcs2) = 3 /\ tcs2[2] = tcs[2]
  <2>1. 2 + 1 = 3 /\ 2 \in 1..2
    OBVIOUS
  <2> QED BY <1>2, <2>1, PushIs
<1>4. \A n \in Names : Look(tcs2, 3, n) = Look(tcs, 2, n)
  <2>1. 2 + 1 = 3
    OBVIOUS
  <2> HIDE DEF tcs2
  <2> QED BY <1>2, <2>1, LookPush DEF tcs2
<1>5. Met("body", tcs2, 3, ccs, 2)
  <2>1. \A n \in Names : Look(tcs, 2, n) = Look(ccs, 2, n)
    BY <1>1, <1>2 DEF Met, Ended
  <2>2. tcs[2] = ccs[2]
    BY <1>1, <1>2 DEF Met
  <2>3. 3 - 1 = 2
    OBVIOUS
  <2> HIDE DEF tcs2
  <2> QED BY <1>3, <1>4, <2>1, <2>2, <2>3 DEF Met
<1> DEFINE t2 == [i \in 1..1 |-> 3]
           c2 == [i \in 1..1 |-> 2]
<1>6. t2 \in [1..1 -> Nat] /\ c2 \in [1..1 -> Nat] /\ t2[1] = 3 /\ c2[1] = 2
  OBVIOUS
<1>7. Heights(<<"body">>, t2, c2)
  <2>1. Base(<<"body">>, t2, c2)
    BY <1>6 DEF Base
  <2>2. Rises(<<"body">>, t2, c2)
    BY DEF Rises
  <2>3. Apart(<<"body">>, t2, c2)
    BY DEF Apart
  <2> QED BY <2>1, <2>2, <2>3 DEF Heights
<1>8. \A k \in 1..1 : Met(<<"body">>[k], tcs2, t2[k], ccs, c2[k])
  <2> HIDE DEF tcs2, t2, c2
  <2> QED BY <1>5, <1>6
<1>9. Aligned(<<"body">>, tcs2, ccs)
  <2> HIDE DEF tcs2, t2, c2
  <2> QED BY <1>2, <1>3, <1>6, <1>7, <1>8 DEF Aligned
<1> QED BY <1>9

\* Each side closes what it opened for the construct that ends.
LEMMA AlignedCut ==
  ASSUME NEW p \in Seq(Constructs), Len(p) > 1,
         p[Len(p)] \in {"block", "branch_done", "for_done"},
         NEW tcs \in Table, NEW ccs \in Table, Aligned(p, tcs, ccs),
         NEW tn, tn = Len(tcs) - checker_scopes(p[Len(p)]),
         NEW cn, cn = Len(ccs) - c_scopes(p[Len(p)])
  PROVE  Aligned(SubSeq(p, 1, Len(p) - 1), SubSeq(tcs, 1, tn), SubSeq(ccs, 1, cn))
<1> DEFINE l == Len(p)
           q == SubSeq(p, 1, l - 1)
           tcs2 == SubSeq(tcs, 1, tn)
           ccs2 == SubSeq(ccs, 1, cn)
<1>1. l \in Nat \ {0, 1} /\ l \in 1..l /\ l \in 2..l /\ l - 1 \in 1..l /\ l - 1 \in Nat \ {0}
  OBVIOUS
<1>2. Len(q) = l - 1 /\ \A i \in 1..(l - 1) : q[i] = p[i]
  BY <1>1, SubSeqProperties
<1>3. PICK t \in [1..l -> Nat], c \in [1..l -> Nat] :
        /\ Heights(p, t, c)
        /\ t[l] = Len(tcs) /\ c[l] = Len(ccs)
        /\ \A i \in 1..l : Met(p[i], tcs, t[i], ccs, c[i])
  BY DEF Aligned
<1>4. /\ checker_scopes(p[l]) = checker_rise(p[l]) /\ checker_rise(p[l]) \in {0, 1}
      /\ c_scopes(p[l]) = c_rise(p[l]) /\ c_rise(p[l]) \in {0, 1, 2}
  BY DEF checker_scopes, c_scopes, checker_rise, c_rise
<1>5. t[l - 1] = tn /\ c[l - 1] = cn
  <2>1. t[l] = t[l - 1] + checker_rise(p[l]) /\ c[l] = c[l - 1] + c_rise(p[l])
    BY <1>1, <1>3 DEF Heights, Rises
  <2>2. t[l] \in Nat /\ t[l - 1] \in Nat /\ c[l] \in Nat /\ c[l - 1] \in Nat
    BY <1>1
  <2>3. tn = t[l] - checker_rise(p[l]) /\ cn = c[l] - c_rise(p[l])
    BY <1>3, <1>4
  <2> HIDE DEF l
  <2> QED BY <1>4, <2>1, <2>2, <2>3
<1>6. tn \in 1..Len(tcs) /\ cn \in 1..Len(ccs)
  <2>1. t[l - 1] \in Nat \ {0, 1} /\ c[l - 1] \in Nat \ {0, 1}
        /\ t[l - 1] <= t[l] /\ c[l - 1] <= c[l]
    BY <1>1, <1>3, HeightsBound
  <2> QED BY <1>3, <1>5, <2>1
<1>7. Len(tcs2) = tn /\ \A i \in 1..tn : tcs2[i] = tcs[i]
  BY <1>6, SubSeqProperties DEF Table
<1>8. Len(ccs2) = cn /\ \A i \in 1..cn : ccs2[i] = ccs[i]
  BY <1>6, SubSeqProperties DEF Table
<1> DEFINE t2 == [i \in 1..(l - 1) |-> t[i]]
           c2 == [i \in 1..(l - 1) |-> c[i]]
<1>9. t2 \in [1..(l - 1) -> Nat] /\ c2 \in [1..(l - 1) -> Nat]
      /\ \A i \in 1..(l - 1) : t2[i] = t[i] /\ c2[i] = c[i]
  BY <1>1
<1>10. Heights(q, t2, c2)
  <2>0. \A i \in 1..(l - 1) : i \in 1..l
    BY <1>1
  <2>1. Base(q, t2, c2)
    <3>1. 1 \in 1..(l - 1)
      BY <1>1
    <3>2. q[1] = p[1] /\ t2[1] = t[1] /\ c2[1] = c[1]
      <4> HIDE DEF q, t2, c2
      <4> QED BY <1>2, <1>9, <3>1
    <3> HIDE DEF q, t2, c2
    <3> QED BY <1>3, <3>2 DEF Heights, Base
  <2>2. Rises(q, t2, c2)
    <3> SUFFICES ASSUME NEW i \in 2..(l - 1)
                 PROVE  /\ q[i] \in Inner /\ q[i - 1] \in Outer
                        /\ q[i] = "block" => q[i - 1] \in Ended
                        /\ t2[i] = t2[i - 1] + checker_rise(q[i])
                        /\ c2[i] = c2[i - 1] + c_rise(q[i])
      BY <1>2 DEF Rises
    <3>1. i \in 1..(l - 1) /\ i - 1 \in 1..(l - 1) /\ i \in 2..l
      BY <1>1
    <3>2. q[i] = p[i] /\ q[i - 1] = p[i - 1] /\ t2[i] = t[i] /\ t2[i - 1] = t[i - 1]
          /\ c2[i] = c[i] /\ c2[i - 1] = c[i - 1]
      <4> HIDE DEF q, t2, c2
      <4> QED BY <1>2, <1>9, <3>1
    <3> HIDE DEF q, t2, c2
    <3> QED BY <1>3, <3>1, <3>2 DEF Heights, Rises
  <2>3. Apart(q, t2, c2)
    <3> HIDE DEF q, t2, c2, l
    <3> QED BY <1>2, <1>3, <1>9, <2>0 DEF Heights, Apart, l
  <2> QED BY <2>1, <2>2, <2>3 DEF Heights
<1>11. ASSUME NEW i \in 1..(l - 1) PROVE Met(q[i], tcs2, t2[i], ccs2, c2[i])
  <2>0. i \in 1..l
    BY <1>1
  <2>1. t[i] \in Nat \ {0, 1} /\ c[i] \in Nat \ {0, 1} /\ Met(p[i], tcs, t[i], ccs, c[i])
    BY <1>1, <1>3, <2>0, HeightsBound
  <2>2. t[i] <= tn /\ c[i] <= cn
    <3>1. i < l - 1 \/ i = l - 1
      BY <1>1
    <3>2. CASE i < l - 1
      BY <1>1, <1>3, <1>5, <2>0, <3>2 DEF Heights, Apart
    <3>3. CASE i = l - 1
      BY <1>5, <2>1, <3>3
    <3> QED BY <3>1, <3>2, <3>3
  <2>3. \A x \in 1..t[i] : tcs[x] = tcs2[x]
    BY <1>6, <1>7, <2>1, <2>2
  <2>4. \A x \in 1..c[i] : ccs[x] = ccs2[x]
    BY <1>6, <1>8, <2>1, <2>2
  <2>5. Met(p[i], tcs2, t[i], ccs2, c[i])
    BY <2>1, <2>3, <2>4, MetFrame, ZenonT(60)
  <2> QED BY <1>2, <1>9, <2>5
<1>12. t2[l - 1] = Len(tcs2) /\ c2[l - 1] = Len(ccs2)
  <2>1. l - 1 \in 1..(l - 1)
    BY <1>1
  <2> QED BY <1>5, <1>7, <1>8, <1>9, <2>1
<1>13. Aligned(q, tcs2, ccs2)
  <2> HIDE DEF q, tcs2, ccs2, t2, c2, l
  <2>1. Len(q) = l - 1
    BY <1>2
  <2>2. t2 \in [1..Len(q) -> Nat] /\ c2 \in [1..Len(q) -> Nat]
    BY <1>9, <2>1
  <2>3. t2[Len(q)] = Len(tcs2) /\ c2[Len(q)] = Len(ccs2)
    BY <1>12, <2>1
  <2>4. \A i \in 1..Len(q) : Met(q[i], tcs2, t2[i], ccs2, c2[i])
    BY <1>11, <2>1
  <2> QED BY <1>10, <2>2, <2>3, <2>4, Zenon DEF Aligned
<1> QED BY <1>13

\* The two chains are aligned at the parameters.
LEMMA AlignedInit == Init => Aligned(path, tc, cc)
<1> SUFFICES ASSUME Init PROVE Aligned(path, tc, cc)
  OBVIOUS
<1> DEFINE h == [i \in 1..1 |-> 2]
<1>1. h \in [1..1 -> Nat] /\ h[1] = 2
  OBVIOUS
<1>2. path = <<"parameters">> /\ tc = <<Empty, Empty>> /\ cc = <<Empty, Empty>>
      /\ Len(path) = 1 /\ Len(tc) = 2 /\ Len(cc) = 2
  BY DEF Init
<1>3. Heights(path, h, h)
  <2>1. Base(path, h, h)
    BY <1>1, <1>2 DEF Base
  <2>2. Rises(path, h, h)
    BY <1>2 DEF Rises
  <2>3. Apart(path, h, h)
    BY <1>2 DEF Apart
  <2> QED BY <2>1, <2>2, <2>3 DEF Heights
<1>4. Met("parameters", tc, 2, cc, 2)
  BY <1>2 DEF Met
<1> HIDE DEF h
<1> QED BY <1>1, <1>2, <1>3, <1>4 DEF Aligned

-----------------------------------------------------------------------------
(* The two walks stay together.                                              *)

\* The constructs whose scopes only one side keeps: emit_stmt writes no
\* braces for a block, check_stmt opens no scope for a body.
Apart_habits == {"bare_block", "unbraced_body"}

Together == Typed /\ (path # <<>> /\ ~reported => Aligned(path, tc, cc))

\* Both chains are sequences of tables of names.
LEMMA ScopesAreTables == Typed => tc \in Table /\ cc \in Table
<1> SUFFICES ASSUME Typed PROVE tc \in Table /\ cc \in Table
  OBVIOUS
<1>1. decls \in Nat
  BY ScopesAssumption DEF Typed, Decls
<1>2. [Names -> 0..decls] \subseteq [Names -> Nat]
  BY <1>1
<1> QED BY <1>2, SeqMonotonic DEF Typed, Scopes_of, Table

\* Where a name can be read, both sides find the same declaration, and where
\* one can be made, both have the same in the innermost scope.
LEMMA TopsMeet ==
  ASSUME Together, path # <<>>, ~reported
  PROVE  /\ Open \notin Ended => \A n \in Names : lookup(tc, n) = lookup(cc, n)
         /\ Open \in {"parameters", "block", "for_init"} => tc[Len(tc)] = cc[Len(cc)]
         /\ Open \in {"branch", "for"} => cc[Len(cc)] = Empty
         /\ Open = "body" => /\ path = <<"body">> /\ Len(tc) = 3
                             /\ \A n \in Names :
                                  cc[Len(cc)][n] # 0 => tc[Len(tc)][n] # 0 \/ tc[2][n] # 0
<1> DEFINE l == Len(path)
<1>1. path \in Seq(Constructs) /\ l \in Nat \ {0} /\ l \in 1..l
  BY DEF Together, Typed
<1>2. PICK t \in [1..l -> Nat], c \in [1..l -> Nat] :
        /\ Heights(path, t, c)
        /\ t[l] = Len(tc) /\ c[l] = Len(cc)
        /\ \A k \in 1..l : Met(path[k], tc, t[k], cc, c[k])
  BY DEF Together, Aligned
<1>3. Met(Open, tc, Len(tc), cc, Len(cc))
  BY <1>1, <1>2 DEF Open
<1>4. \A n \in Names : lookup(tc, n) = Look(tc, Len(tc), n) /\ lookup(cc, n) = Look(cc, Len(cc), n)
  BY LookupIsLook
<1>5. Open = "body" => path = <<"body">> /\ Len(tc) = 3
  <2> SUFFICES ASSUME Open = "body" PROVE path = <<"body">> /\ Len(tc) = 3
    OBVIOUS
  <2>1. l = 1
    <3>1. l \in 2..l => path[l] \in Inner
      BY <1>2 DEF Heights, Rises
    <3>2. path[l] \notin Inner
      BY DEF Open, Inner
    <3>3. l # 1 => l \in 2..l
      <4> HIDE DEF l
      <4> QED BY <1>1
    <3> QED BY <3>1, <3>2, <3>3
  <2>2. path[1] = "body"
    BY <2>1 DEF Open
  <2>3. path = <<"body">>
    BY <1>1, <2>1, <2>2
  <2>4. t[1] = 3
    BY <1>2, <2>2 DEF Heights, Base
  <2> QED BY <1>2, <2>1, <2>3, <2>4
<1>6. Open = "body" => \A n \in Names : cc[Len(cc)][n] # 0 => tc[Len(tc)][n] # 0 \/ tc[2][n] # 0
  <2>1. 3 - 1 = 2
    OBVIOUS
  <2> QED BY <1>3, <1>5, <2>1 DEF Met
<1> QED BY <1>3, <1>4, <1>5, <1>6 DEF Met

\* A statement takes the place of the body an if, a while or a for waits for.
LEMMA AlignedTaken ==
  ASSUME Together, Room
  PROVE  /\ Taken \in Seq(Constructs) /\ Taken # <<>>
         /\ Taken[Len(Taken)] \in Outer
         /\ Open \in {"branch", "for"} => Taken[Len(Taken)] \in Ended
         /\ Open \in {"body", "block"} => Taken = path
         /\ Aligned(Taken, tc, cc)
<1>1. path \in Seq(Constructs) /\ path # <<>> /\ Len(path) \in 1..Len(path)
  BY DEF Together, Typed, Room
<1>2. Aligned(path, tc, cc) /\ tc \in Table /\ cc \in Table
  BY ScopesAreTables DEF Together, Room
<1>3. Open \in {"body", "block", "branch", "for"}
  BY DEF Room
<1>4. CASE Open \in {"body", "block"}
  <2>1. Taken = path
    BY <1>4 DEF Taken
  <2> QED BY <1>1, <1>2, <1>4, <2>1 DEF Open, Outer
<1>5. ASSUME NEW k \in {"branch_done", "for_done"}, <<Open, k>> \in Goes_on,
             Taken = [path EXCEPT ![Len(path)] = k]
      PROVE  /\ Taken \in Seq(Constructs) /\ Taken # <<>>
             /\ Taken[Len(Taken)] \in Ended
             /\ Aligned(Taken, tc, cc)
  <2>1. k \in Constructs /\ k \in Ended /\ k # "for"
    BY DEF Constructs, Ended
  <2>2. Taken \in Seq(Constructs) /\ Len(Taken) = Len(path) /\ Taken[Len(path)] = k
    BY <1>1, <1>5, <2>1, ExceptSeq
  <2>3. Aligned(Taken, tc, cc)
    BY <1>1, <1>2, <1>5, <2>1, AlignedTurn DEF Open
  <2>4. Taken # <<>>
    BY <1>1, <2>2
  <2> QED BY <2>1, <2>2, <2>3, <2>4
<1>6. CASE Open = "branch"
  <2>1. Taken = [path EXCEPT ![Len(path)] = "branch_done"]
    BY <1>6 DEF Taken
  <2> QED BY <1>5, <1>6, <2>1 DEF Goes_on, Outer
<1>7. CASE Open = "for"
  <2>1. Taken = [path EXCEPT ![Len(path)] = "for_done"]
    BY <1>7 DEF Taken
  <2> QED BY <1>5, <1>7, <2>1 DEF Goes_on, Outer
<1> QED BY <1>3, <1>4, <1>6, <1>7

\* Together holds at the parameters,
LEMMA TogetherInit == Init => Together
  BY ScopesTypedInit, AlignedInit DEF Together

\* and after every statement, unless a habit takes the sides apart.
LEMMA TogetherNext ==
  ASSUME Habits \cap Apart_habits = {}, Together, [Next]_vars
  PROVE  Together'
<1>0. Typed'
  BY ScopesTypedNext DEF Together
<1>1. tc \in Table /\ cc \in Table /\ decls + 1 \in Nat \ {0} /\ path \in Seq(Constructs)
  BY ScopesAreTables, ScopesAssumption DEF Together, Typed, Decls
<1>2. SUFFICES ASSUME path' # <<>>, ~reported' PROVE Aligned(path', tc', cc')
  BY <1>0 DEF Together
<1>3. ASSUME NEW n \in Names, Parameter(n) PROVE Aligned(path', tc', cc')
  <2>1. Aligned(path, tc, cc) /\ path # <<>> /\ path[Len(path)] = "parameters"
    BY <1>3 DEF Together, Parameter, Open
  <2>2. Aligned(path, define(tc, n, decls + 1), define(cc, n, decls + 1))
    BY <1>1, <2>1, AlignedDefine
  <2> QED BY <1>3, <2>2 DEF Parameter
<1>4. ASSUME NEW n \in Names, NEW const, NEW init, VarDecl(n, const, init)
      PROVE  Aligned(path', tc', cc')
  <2>1. Open \in {"body", "block"} /\ path # <<>> /\ Aligned(path, tc, cc)
    BY <1>4 DEF Together, VarDecl, Room, Apart_habits
  <2>2. path' = path
    BY <1>4, <2>1, AlignedTaken DEF VarDecl
  <2>3. Aligned(path, define(tc, n, decls + 1), define(cc, n, decls + 1))
    BY <1>1, <2>1, AlignedDefine DEF Open
  <2> QED BY <1>4, <2>2, <2>3 DEF VarDecl, Declare
<1>5. ASSUME NEW n \in Names, NEW write, Reference(n, write) PROVE Aligned(path', tc', cc')
  BY <1>5, AlignedTaken DEF Reference
<1>6. ASSUME NEW n \in Names, NEW write, HeaderReference(n, write) PROVE Aligned(path', tc', cc')
  BY <1>6 DEF HeaderReference, Together
<1>7. CASE Body
  BY <1>1, <1>7, AlignedBody DEF Body, Together
<1>8. CASE Branch
  <2>1. \A n \in Names : lookup(tc, n) = lookup(cc, n)
    BY <1>8, TopsMeet DEF Branch, Room, Ended
  <2>2. Room
    BY <1>8 DEF Branch
  <2> HIDE DEF Room
  <2> QED BY <1>1, <1>8, <2>1, <2>2, AlignedTaken, AlignedNest DEF Branch
<1>9. CASE For
  <2>1. \A n \in Names : lookup(tc, n) = lookup(cc, n)
    BY <1>9, TopsMeet DEF For, Room, Ended
  <2>2. Room
    BY <1>9 DEF For
  <2> QED BY <1>1, <1>9, <2>1, <2>2, AlignedTaken, AlignedNest DEF For
<1>10. CASE ForInit
  <2>1. path # <<>> /\ path[Len(path)] = "for_init" /\ Aligned(path, tc, cc)
        /\ path' = [path EXCEPT ![Len(path)] = "header"]
    BY <1>10 DEF ForInit, Together, Open
  <2>2. <<path[Len(path)], "header">> \in Goes_on
    BY <2>1 DEF Goes_on
  <2>3. CASE UNCHANGED <<tc, cc, decls, consts, reported, c_error, agree, written>>
    <3>1. Aligned(path', tc, cc)
      BY <1>1, <2>1, <2>2, AlignedTurn
    <3> QED BY <2>3, <3>1
  <2>4. ASSUME NEW n \in Names, NEW init, Declare(n, FALSE, init)
        PROVE  Aligned(path', tc', cc')
    <3> DEFINE tcs == define(tc, n, decls + 1)
               ccs == define(cc, n, decls + 1)
    <3>1. Aligned(path, tcs, ccs)
      BY <1>1, <2>1, AlignedDefine
    <3>2. tcs \in Table /\ ccs \in Table
      <4>1. decls \in Nat /\ tcs \in Scopes_of(decls + 1) /\ ccs \in Scopes_of(decls + 1)
        BY ScopesAssumption, DefineType DEF Together, Typed, Decls
      <4>2. [Names -> 0..(decls + 1)] \subseteq [Names -> Nat]
        BY <4>1
      <4> QED BY <4>1, <4>2, SeqMonotonic DEF Scopes_of, Table
    <3>3. tc' = tcs /\ cc' = ccs
      BY <2>4 DEF Declare
    <3> HIDE DEF tcs, ccs
    <3>4. Aligned(path', tcs, ccs)
      BY <1>1, <2>1, <2>2, <3>1, <3>2, AlignedTurn
    <3> QED BY <3>3, <3>4
  <2> QED BY <1>10, <2>3, <2>4 DEF ForInit
<1>11. CASE ForBody
  <2>1. path # <<>> /\ <<path[Len(path)], "for">> \in Goes_on /\ Aligned(path, tc, cc)
    BY <1>11 DEF ForBody, Together, Open, Goes_on
  <2> QED BY <1>1, <1>11, <2>1, AlignedTurn DEF ForBody
<1>12. CASE Block
  <2>1. Open \in {"branch", "for"} /\ Room
    BY <1>12 DEF Block, Room, Apart_habits
  <2>2. (\A n \in Names : lookup(tc, n) = lookup(cc, n)) /\ cc[Len(cc)] = Empty
    BY <2>1, TopsMeet DEF Room, Ended
  <2> QED BY <1>1, <1>12, <2>1, <2>2, AlignedTaken, AlignedNest DEF Block
<1>13. CASE Leave
  <2>1. Aligned(path, tc, cc) /\ path # <<>> /\ ~reported
        /\ Open \in {"body", "block", "branch_done", "for_done"}
    BY <1>13 DEF Leave, Together
  <2>2. Len(path) > 1
    <3>1. Len(path) # 1
      <4> SUFFICES ASSUME Len(path) = 1 PROVE FALSE
        OBVIOUS
      <4>1. path' = <<>>
        BY <1>1, <1>13 DEF Leave
      <4> QED BY <1>2, <4>1
    <3> DEFINE l == Len(path)
    <3>2. l \in Nat /\ l # 0
      BY <1>1, <2>1
    <3>3. l > 1
      <4>1. l # 1
        BY <3>1
      <4> HIDE DEF l
      <4> QED BY <3>2, <4>1
    <3> QED BY <3>3
  <2>3. path[Len(path)] \in {"block", "branch_done", "for_done"}
    <3>1. Open # "body"
      <4> SUFFICES ASSUME Open = "body" PROVE FALSE
        OBVIOUS
      <4>1. path = <<"body">>
        BY <2>1, TopsMeet
      <4>2. Len(path) = 1
        BY <4>1
      <4> QED BY <2>2, <4>2
    <3> QED BY <2>1, <3>1 DEF Open
  <2> QED BY <1>1, <1>13, <2>1, <2>2, <2>3, AlignedCut DEF Leave, Open
<1>14. CASE UNCHANGED vars
  BY <1>2, <1>14 DEF vars, Together
<1> QED
  BY <1>3, <1>4, <1>5, <1>6, <1>7, <1>8, <1>9, <1>10, <1>11, <1>12, <1>13, <1>14 DEF Next

-----------------------------------------------------------------------------
(* What follows for the accepted function.                                   *)

\* As long as nothing is reported, every name meant the same to both, ...
Agreed == Together /\ (~reported => agree)

\* ... C has rejected nothing, ...
Compiles == Together /\ (~reported => ~c_error)

\* ... and no const was written to.
Constant == Together /\ (~reported => written \cap consts = {})

\* A use means the same to both as long as initializers do not name themselves.
LEMMA AgreedNext ==
  ASSUME Habits \cap (Apart_habits \cup {"self_initializer"}) = {}, Agreed, [Next]_vars
  PROVE  Agreed'
<1>1. Together'
  BY TogetherNext DEF Agreed
<1>2. SUFFICES ASSUME ~reported' PROVE agree'
  BY <1>1 DEF Agreed
<1>3. ASSUME NEW n \in Names, path # <<>>, ~reported, Open \notin Ended
      PROVE  lookup(tc, n) = lookup(cc, n)
  BY <1>3, TopsMeet DEF Agreed
<1>4. ASSUME NEW n \in Names, NEW write, Reference(n, write) PROVE agree'
  BY <1>3, <1>4 DEF Reference, Refer, Room, Ended, Agreed
<1>5. ASSUME NEW n \in Names, NEW write, HeaderReference(n, write) PROVE agree'
  BY <1>3, <1>5 DEF HeaderReference, Refer, Ended, Agreed
<1>6. ASSUME NEW n \in Names, NEW const, NEW init \in BOOLEAN, ~reported, Declare(n, const, init)
      PROVE  agree'
  BY <1>6 DEF Declare, Agreed
<1>7. ASSUME NEW n \in Names, NEW const, NEW init \in BOOLEAN, VarDecl(n, const, init) PROVE agree'
  BY <1>6, <1>7 DEF VarDecl, Room
<1>8. CASE ForInit
  <2>1. CASE UNCHANGED <<tc, cc, decls, consts, reported, c_error, agree, written>>
    BY <1>2, <2>1 DEF Agreed
  <2>2. CASE \E n \in Names, init \in BOOLEAN : Declare(n, FALSE, init)
    BY <1>6, <1>8, <2>2 DEF ForInit
  <2> QED BY <1>8, <2>1, <2>2 DEF ForInit
<1>9. CASE (\E n \in Names : Parameter(n)) \/ Body \/ Branch \/ For \/ ForBody \/ Block \/ Leave
  BY <1>9 DEF Parameter, Body, Branch, For, ForBody, Block, Leave, Room, Agreed
<1>10. CASE UNCHANGED vars
  BY <1>2, <1>10 DEF vars, Agreed
<1> QED
  BY <1>4, <1>5, <1>7, <1>8, <1>9, <1>10 DEF Next

\* What the checker lets pass, C declares and declares once.
LEMMA CompilesNext ==
  ASSUME Habits \cap (Apart_habits \cup {"reused_parameter"}) = {}, Compiles, [Next]_vars
  PROVE  Compiles'
<1>1. Together'
  BY TogetherNext DEF Compiles
<1>2. SUFFICES ASSUME ~reported' PROVE ~c_error'
  BY <1>1 DEF Compiles
<1>3. ASSUME NEW n \in Names, NEW write, path # <<>>, ~reported, Open \notin Ended,
             Refer(n, tc, cc, write)
      PROVE  ~c_error'
  <2>1. lookup(tc, n) = lookup(cc, n)
    BY <1>3, TopsMeet DEF Compiles
  <2> QED BY <1>2, <1>3, <2>1 DEF Refer, Compiles
<1>4. ASSUME NEW n \in Names, NEW write, Reference(n, write) PROVE ~c_error'
  BY <1>3, <1>4 DEF Reference, Room, Ended
<1>5. ASSUME NEW n \in Names, NEW write, HeaderReference(n, write) PROVE ~c_error'
  BY <1>3, <1>5 DEF HeaderReference, Ended
<1>6. ASSUME NEW n \in Names, NEW const, NEW init, Declare(n, const, init),
             path # <<>>, ~reported, Open \in {"body", "block", "for_init"}
      PROVE  ~c_error'
  <2>1. ~Defined(tc, n) /\ ~c_error
    BY <1>2, <1>6 DEF Declare, Compiles
  <2>2. ~Defined(cc, n)
    <3>1. CASE Open = "body"
      <4>1. tc[2][n] = 0
        BY <1>6, <3>1, TopsMeet DEF Declare, Compiles
      <4> QED BY <1>6, <2>1, <3>1, <4>1, TopsMeet DEF Defined, Compiles
    <3>2. CASE Open # "body"
      BY <1>6, <2>1, <3>2, TopsMeet DEF Defined, Compiles
    <3> QED BY <3>1, <3>2
  <2> QED BY <1>6, <2>1, <2>2 DEF Declare
<1>7. ASSUME NEW n \in Names, NEW const, NEW init, VarDecl(n, const, init) PROVE ~c_error'
  BY <1>6, <1>7 DEF VarDecl, Room, Apart_habits
<1>8. CASE ForInit
  BY <1>6, <1>8 DEF ForInit, Compiles
<1>9. CASE (\E n \in Names : Parameter(n)) \/ Body \/ Branch \/ For \/ ForBody \/ Block \/ Leave
  BY <1>9 DEF Parameter, Body, Branch, For, ForBody, Block, Leave, Room, Compiles
<1>10. CASE UNCHANGED vars
  BY <1>2, <1>10 DEF vars, Compiles
<1> QED
  BY <1>4, <1>5, <1>7, <1>8, <1>9, <1>10 DEF Next

\* The ways to write to a const about which check_expr does not ask.
Const_habits == {"const_increment", "const_part", "const_address"}

\* Nothing but these writes to a const.
LEMMA ConstantNext ==
  ASSUME Habits \cap (Apart_habits \cup Const_habits) = {}, Constant, [Next]_vars
  PROVE  Constant'
<1>0. decls \in Nat /\ written \subseteq 0..decls /\ consts \subseteq 1..decls
  BY ScopesAssumption DEF Constant, Together, Typed, Decls
<1>1. Together'
  BY TogetherNext DEF Constant
<1>2. SUFFICES ASSUME ~reported' PROVE written' \cap consts' = {}
  BY <1>1 DEF Constant
<1>3. ASSUME NEW n \in Names, NEW write \in Ways,
             path # <<>>, ~reported, Open \notin Ended,
             Usual(n, write),
             Refer(n, tc, cc, write), consts' = consts
      PROVE  written' \cap consts' = {}
  <2>1. lookup(tc, n) = lookup(cc, n)
    BY <1>3, TopsMeet DEF Constant
  <2>2. write # "no" => lookup(tc, n) \notin consts
    <3>1. CASE write \in {"increment", "part", "address"}
      BY <1>3, <3>1 DEF Usual, Unasked, Const_habits
    <3>2. CASE write = "assign"
      BY <1>2, <1>3, <3>2 DEF Refer
    <3> QED BY <1>3, <3>1, <3>2 DEF Ways
  <2>3. written \cap consts = {}
    BY <1>3 DEF Constant
  <2>4. written' = IF write = "no" THEN written ELSE written \cup {lookup(cc, n)}
    BY <1>3 DEF Refer
  <2> QED BY <1>3, <2>1, <2>2, <2>3, <2>4
<1>4. ASSUME NEW n \in Names, NEW write \in Ways, Reference(n, write)
      PROVE  written' \cap consts' = {}
  BY <1>3, <1>4 DEF Reference, Room, Ended
<1>5. ASSUME NEW n \in Names, NEW write \in Ways, HeaderReference(n, write)
      PROVE  written' \cap consts' = {}
  BY <1>3, <1>5 DEF HeaderReference, Ended
<1>6. ASSUME NEW n \in Names, NEW const, NEW init, ~reported, Declare(n, const, init)
      PROVE  written' \cap consts' = {}
  <2>1. decls + 1 \notin written
    BY <1>0
  <2>2. written \cap consts = {}
    BY <1>6 DEF Constant
  <2> QED BY <1>6, <2>1, <2>2 DEF Declare
<1>7. ASSUME NEW n \in Names, NEW const, NEW init, VarDecl(n, const, init)
      PROVE  written' \cap consts' = {}
  BY <1>6, <1>7 DEF VarDecl, Room
<1>8. CASE ForInit
  BY <1>6, <1>8 DEF ForInit, Constant
<1>9. CASE (\E n \in Names : Parameter(n)) \/ Body \/ Branch \/ For \/ ForBody \/ Block \/ Leave
  BY <1>9 DEF Parameter, Body, Branch, For, ForBody, Block, Leave, Room, Constant
<1>10. CASE UNCHANGED vars
  BY <1>2, <1>10 DEF vars, Constant
<1> QED
  BY <1>4, <1>5, <1>7, <1>8, <1>9, <1>10 DEF Next

\* check_stmt and the text of emit_stmt give every name of an accepted
\* function the same meaning, wherever the sources use neither bare blocks
\* nor unbraced bodies nor initializers that name what they initialize.
THEOREM NamesMeanTheSame ==
  ASSUME Habits \cap (Apart_habits \cup {"self_initializer"}) = {}
  PROVE  Spec => []SameMeaning
<1>1. Init => Agreed
  BY TogetherInit DEF Init, Agreed
<1>2. Agreed /\ [Next]_vars => Agreed'
  BY AgreedNext
<1>3. Agreed => SameMeaning
  BY DEF Agreed, SameMeaning, Accepted
<1> QED BY <1>1, <1>2, <1>3, PTL DEF Spec

\* C finds no name undeclared and none declared twice in what emit_stmt
\* writes for an accepted function, wherever the sources use neither bare
\* blocks nor unbraced bodies nor a parameter's name for a local.
THEOREM NamesCompile ==
  ASSUME Habits \cap (Apart_habits \cup {"reused_parameter"}) = {}
  PROVE  Spec => []AcceptedByC
<1>1. Init => Compiles
  BY TogetherInit DEF Init, Compiles
<1>2. Compiles /\ [Next]_vars => Compiles'
  BY CompilesNext
<1>3. Compiles => AcceptedByC
  BY DEF Compiles, AcceptedByC, Accepted
<1> QED BY <1>1, <1>2, <1>3, PTL DEF Spec

\* The C code of an accepted function writes to no const, wherever the sources
\* use neither bare blocks nor unbraced bodies, and do to a const none of the
\* three things that check_expr does not ask about: an increment, a write to
\* a part of it or to what it points to, and taking its address.
THEOREM NamesKeepConsts ==
  ASSUME Habits \cap (Apart_habits \cup Const_habits) = {}
  PROVE  Spec => []ConstsKept
<1>1. Init => Constant
  BY TogetherInit DEF Init, Constant
<1>2. Constant /\ [Next]_vars => Constant'
  BY ConstantNext
<1>3. Constant => ConstsKept
  BY DEF Constant, ConstsKept, Accepted
<1> QED BY <1>1, <1>2, <1>3, PTL DEF Spec
=============================================================================
