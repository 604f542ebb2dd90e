---------------------------- MODULE LexerProofs ----------------------------
(***************************************************************************)
(* Proofs about Lexer, for texts of every length.  It implements the       *)
(* stream of tokens, whatever Scan makes of a text: that proof never looks *)
(* into Scan.  The types, the places of tokens and the ends of string      *)
(* literals are about what Scan does.                                      *)
(***************************************************************************)
EXTENDS Lexer, SequenceTheorems, FiniteSetTheorems, WellFoundedInduction, TLAPS

-----------------------------------------------------------------------------
(* Least and greatest positions.                                             *)

\* A set of naturals that is not empty has a least element: of the finite
\* sets 0..x for its elements, one holds no other.
LEMMA Least ==
  ASSUME NEW S \in SUBSET Nat, S # {}
  PROVE  \E x \in S : \A y \in S : x <= y
<1> DEFINE T == {0..x : x \in S}
<1>1. T \subseteq FiniteSubsetsOf(Nat) /\ T # {}
  <2>1. \A x \in S : IsFiniteSet(0..x)
    BY FS_Interval
  <2>2. \A x \in S : 0..x \in FiniteSubsetsOf(Nat)
    <3> TAKE x \in S
    <3>1. 0..x \in SUBSET Nat
      OBVIOUS
    <3> QED BY <2>1, <3>1 DEF FiniteSubsetsOf
  <2> QED BY <2>2
<1>2. IsWellFoundedOn(StrictSubsetOrdering(Nat), FiniteSubsetsOf(Nat))
  BY FS_StrictSubsetOrderingWellFounded
<1>3. \E t \in T : \A u \in T : ~(<<u, t>> \in StrictSubsetOrdering(Nat))
  <2> HIDE DEF T
  <2> QED BY <1>1, <1>2, WFMin
<1>4. PICK x \in S : \A u \in T : ~(<<u, 0..x>> \in StrictSubsetOrdering(Nat))
  BY <1>3
<1>5. \A y \in S : x <= y
  <2> SUFFICES ASSUME NEW y \in S, y < x PROVE FALSE
    OBVIOUS
  <2>1. 0..y \in T
    OBVIOUS
  <2>2. 0..y \subseteq 0..x /\ 0..y # 0..x
    <3>1. x \in 0..x /\ x \notin 0..y
      OBVIOUS
    <3> QED BY <3>1
  <2>3. 0..y \in SUBSET Nat /\ 0..x \in SUBSET Nat
    OBVIOUS
  <2>4. <<0..y, 0..x>> \in StrictSubsetOrdering(Nat)
    BY <2>2, <2>3 DEF StrictSubsetOrdering
  <2> QED BY <1>4, <2>1, <2>4
<1> QED BY <1>5

\* Max is what its name says on a set of positions.
LEMMA MaxOf ==
  ASSUME NEW m \in Nat, NEW S \in SUBSET (1..m), S # {}
  PROVE  Max(S) \in S /\ \A y \in S : Max(S) >= y
<1> DEFINE T == {m - x : x \in S}
<1>1. T \in SUBSET Nat /\ T # {}
  <2>1. \A x \in S : m - x \in Nat
    OBVIOUS
  <2>2. PICK x \in S : TRUE
    OBVIOUS
  <2>3. m - x \in T
    OBVIOUS
  <2> QED BY <2>1, <2>3
<1>2. PICK z \in T : \A y \in T : z <= y
  BY <1>1, Least
<1>3. PICK x \in S : z = m - x
  OBVIOUS
<1>4. \A y \in S : x >= y
  <2> TAKE y \in S
  <2>1. m - y \in T
    OBVIOUS
  <2> QED BY <1>2, <1>3, <2>1
<1> QED BY <1>4 DEF Max

\* The least element of a set that is not empty.
LEMMA MinOf ==
  ASSUME NEW S \in SUBSET Nat, S # {}
  PROVE  Min(S) \in S /\ \A y \in S : Min(S) <= y
<1>1. PICK x \in S : \A y \in S : x <= y
  BY Least
<1> QED BY <1>1 DEF Min

\* What holds at a position as soon as it holds at all later ones holds at
\* every position.
LEMMA Backwards ==
  ASSUME NEW n \in Nat, NEW G \in SUBSET (1..n),
         \A k \in 1..n : (\A j \in 1..n : j > k => j \in G) => k \in G
  PROVE  \A k \in 1..n : k \in G
<1> SUFFICES ASSUME NEW bad \in 1..n, bad \notin G PROVE FALSE
  OBVIOUS
<1> DEFINE B == {k \in 1..n : k \notin G}
<1>1. B \in SUBSET (1..n) /\ B # {}
  OBVIOUS
<1> DEFINE m == Max(B)
<1>2. m \in B /\ \A y \in B : m >= y
  BY <1>1, MaxOf
<1> HIDE DEF m
<1>3. \A j \in 1..n : j > m => j \in G
  <2> SUFFICES ASSUME NEW j \in 1..n, j > m, j \notin G PROVE FALSE
    OBVIOUS
  <2>1. j \in B
    OBVIOUS
  <2>2. m >= j /\ m \in 1..n
    BY <1>2, <2>1
  <2> QED BY <2>2
<1> QED BY <1>2, <1>3

-----------------------------------------------------------------------------
(* Loops over the text.                                                      *)

\* A loop that never goes back, over positions up to n.
Turns(n) == {turn \in [1..n -> 1..n] : \A k \in 1..n : turn[k] >= k}

\* Such a loop stops somewhere from every position: its end is a function.
LEMMA LoopStops ==
  ASSUME NEW n \in Nat, NEW turn \in Turns(n)
  PROVE  \E f : f = [k \in 1..n |-> IF turn[k] = k THEN k ELSE f[turn[k]]]
<1> DEFINE Fits(f, k) ==
             \A j \in k..n : f[j] = IF turn[j] = j THEN j ELSE f[turn[j]]
           G == {k \in 1..n : \E f \in [k..n -> 1..n] : Fits(f, k)}
<1>1. \A k \in 1..n : turn[k] \in 1..n /\ turn[k] >= k
  BY DEF Turns
<1>2. ASSUME NEW k \in 1..n, \A j \in 1..n : j > k => j \in G
      PROVE  k \in G
  <2>1. CASE k = n
    <3> DEFINE f == [j \in k..n |-> j]
    <3>1. \A j \in k..n : j = n
      BY <2>1
    <3>2. f \in [k..n -> 1..n] /\ Fits(f, k)
      BY <1>1, <2>1, <3>1
    <3> QED BY <3>2
  <2>2. CASE k # n
    <3>1. k + 1 \in 1..n /\ k + 1 > k
      BY <2>2
    <3>2. PICK g \in [(k + 1)..n -> 1..n] : Fits(g, k + 1)
      BY <1>2, <3>1
    <3> DEFINE f == [j \in k..n |-> IF j = k THEN IF turn[k] = k THEN k ELSE g[turn[k]]
                                             ELSE g[j]]
    <3>3. \A j \in k..n : j = k \/ j \in (k + 1)..n
      OBVIOUS
    <3>4. turn[k] # k => turn[k] \in (k + 1)..n
      BY <1>1
    <3>5. f \in [k..n -> 1..n]
      BY <3>3, <3>4
    <3>6. \A j \in (k + 1)..n : f[j] = g[j]
      OBVIOUS
    <3>7. ASSUME NEW j \in k..n PROVE f[j] = IF turn[j] = j THEN j ELSE f[turn[j]]
      <4>1. CASE j = k
        BY <3>4, <3>6, <4>1
      <4>2. CASE j \in (k + 1)..n
        <5>1. turn[j] \in (k + 1)..n
          BY <1>1, <4>2
        <5>2. g[j] = IF turn[j] = j THEN j ELSE g[turn[j]]
          BY <3>2, <4>2
        <5> QED BY <3>6, <4>2, <5>1, <5>2
      <4> QED BY <3>3, <4>1, <4>2
    <3> QED BY <3>5, <3>7
  <2> QED BY <2>1, <2>2
<1>3. CASE n = 0
  <2> DEFINE f == [k \in 1..n |-> k]
  <2>1. 1..n = {}
    BY <1>3
  <2>2. f = [k \in 1..n |-> IF turn[k] = k THEN k ELSE f[turn[k]]]
    BY <2>1
  <2> QED BY <2>2
<1>4. CASE n # 0
  <2>1. 1 \in G
    <3>1. \A k \in 1..n : k \in G
      <4>1. G \in SUBSET (1..n)
        OBVIOUS
      <4> HIDE DEF G
      <4> QED BY <1>2, <4>1, Backwards
    <3>2. 1 \in 1..n
      BY <1>4
    <3> QED BY <3>1, <3>2
  <2>2. PICK f \in [1..n -> 1..n] : Fits(f, 1)
    BY <2>1
  <2>3. f = [k \in 1..n |-> IF turn[k] = k THEN k ELSE f[turn[k]]]
    BY <2>2
  <2> QED BY <2>3
<1> QED BY <1>3, <1>4

\* A loop whose turns never go back ends, and where the next turn changes nothing.
LEMMA LoopEndIs ==
  ASSUME NEW n \in Nat, NEW turn \in Turns(n)
  PROVE  \A k \in 1..n :
           /\ LoopEnd(turn)[k] = IF turn[k] = k THEN k ELSE LoopEnd(turn)[turn[k]]
           /\ LoopEnd(turn)[k] \in k..n
           /\ turn[LoopEnd(turn)[k]] = LoopEnd(turn)[k]
<1> DEFINE f == LoopEnd(turn)
<1>1. DOMAIN turn = 1..n /\ \A k \in 1..n : turn[k] \in 1..n /\ turn[k] >= k
  BY DEF Turns
<1>2. f = [k \in 1..n |-> IF turn[k] = k THEN k ELSE f[turn[k]]]
  <2>1. \E g : g = [k \in 1..n |-> IF turn[k] = k THEN k ELSE g[turn[k]]]
    BY LoopStops
  <2>2. f = CHOOSE g : g = [k \in 1..n |-> IF turn[k] = k THEN k ELSE g[turn[k]]]
    BY <1>1 DEF LoopEnd
  <2> HIDE DEF f
  <2> QED BY <2>1, <2>2
<1> HIDE DEF f
<1>3. \A k \in 1..n : f[k] = IF turn[k] = k THEN k ELSE f[turn[k]]
  BY <1>2
<1> DEFINE G == {k \in 1..n : f[k] \in k..n /\ turn[f[k]] = f[k]}
<1>4. ASSUME NEW k \in 1..n, \A j \in 1..n : j > k => j \in G PROVE k \in G
  <2>1. CASE turn[k] = k
    BY <1>3, <2>1
  <2>2. CASE turn[k] # k
    <3>1. turn[k] \in 1..n /\ turn[k] > k
      BY <1>1, <2>2
    <3>2. turn[k] \in G
      BY <1>4, <3>1
    <3>3. f[k] = f[turn[k]]
      BY <1>3, <2>2
    <3> QED BY <3>1, <3>2, <3>3
  <2> QED BY <2>1, <2>2
<1>5. \A k \in 1..n : k \in G
  <2>1. G \in SUBSET (1..n)
    OBVIOUS
  <2> HIDE DEF G
  <2> QED BY <1>4, <2>1, Backwards
<1>6. \A k \in 1..n : f[k] \in k..n /\ turn[f[k]] = f[k]
  BY <1>5
<1> QED BY <1>3, <1>6 DEF f

-----------------------------------------------------------------------------
(* What the scanning functions return.                                       *)

\* Behind the end of a text there are NULs only.
LEMMA CharIs ==
  ASSUME NEW S, NEW text \in Seq(S)
  PROVE  /\ Len(text) \in Nat
         /\ \A i \in Nat : i > Len(text) => Char(text, i) = "NUL"
         /\ \A i \in 1..Len(text) : Char(text, i) = text[i]
  BY DEF Char

\* A run of characters ends in the text or behind it.
LEMMA RunEndIs ==
  ASSUME NEW S, NEW text \in Seq(S), NEW i \in 1..(Len(text) + 1), NEW set, "NUL" \notin set
  PROVE  RunEnd(text, i, set) \in i..(Len(text) + 1)
<1> DEFINE ends == {k \in i..(Len(text) + 1) : Char(text, k) \notin set}
<1>1. Len(text) \in Nat /\ Len(text) + 1 \in ends
  BY CharIs
<1>2. ends \in SUBSET Nat
  BY <1>1
<1>3. Min(ends) \in ends
  <2> HIDE DEF ends
  <2> QED BY <1>1, <1>2, MinOf
<1> QED BY <1>3 DEF RunEnd

\* So does a line comment,
LEMMA LineEndIs ==
  ASSUME NEW S, NEW text \in Seq(S), NEW i \in 1..(Len(text) + 1)
  PROVE  LineEnd(text, i) \in i..(Len(text) + 1)
<1> DEFINE ends == {k \in i..(Len(text) + 1) : Char(text, k) \in {"NUL", "nl"}}
<1>1. Len(text) \in Nat /\ Len(text) + 1 \in ends
  BY CharIs
<1>2. ends \in SUBSET Nat
  BY <1>1
<1>3. Min(ends) \in ends
  <2> HIDE DEF ends
  <2> QED BY <1>1, <1>2, MinOf
<1> QED BY <1>3 DEF LineEnd

\* and a block comment, closed or not.
LEMMA CommentEndIs ==
  ASSUME NEW S, NEW text \in Seq(S), NEW i \in 1..(Len(text) + 1)
  PROVE  CommentEnd(text, i) \in i..(Len(text) + 1)
<1> DEFINE stops == {k \in i..(Len(text) + 1) :
                       \/ Char(text, k) = "NUL"
                       \/ Char(text, k) = "*" /\ Char(text, k + 1) = "/"}
           m == Min(stops)
<1>1. Len(text) \in Nat /\ Len(text) + 1 \in stops
  BY CharIs
<1>2. stops \in SUBSET Nat
  BY <1>1
<1>3. m \in stops
  <2> HIDE DEF stops
  <2> QED BY <1>1, <1>2, MinOf
<1>4. CommentEnd(text, i) = IF Char(text, m) = "NUL" THEN m ELSE m + 2
  BY DEF CommentEnd
<1>5. Char(text, m) # "NUL" => m + 1 <= Len(text)
  <2> SUFFICES ASSUME Char(text, m) # "NUL", m + 1 > Len(text) PROVE FALSE
    BY <1>1, <1>3
  <2>1. Char(text, m + 1) = "NUL"
    BY <1>1, <1>3, CharIs
  <2> QED BY <1>3, <2>1
<1> HIDE DEF m
<1> QED BY <1>1, <1>3, <1>4, <1>5

\* No turn of skip_whitespace_and_comments goes back or behind the end.
LEMMA SkipTurns ==
  ASSUME NEW S, NEW text \in Seq(S)
  PROVE  Skip(text) \in Turns(Len(text) + 1)
<1> DEFINE n == Len(text) + 1
           turn(k) ==
             CASE Char(text, k) \in Blanks -> k + 1
               [] Char(text, k) = "/" /\ Char(text, k + 1) = "/" -> LineEnd(text, k)
               [] Char(text, k) = "/" /\ Char(text, k + 1) = "*" -> CommentEnd(text, k + 2)
               [] OTHER -> k
<1>1. ASSUME NEW k \in 1..n PROVE turn(k) \in k..n
  <2>1. Len(text) \in Nat /\ (Char(text, k) # "NUL" => k <= Len(text))
        /\ (Char(text, k + 1) # "NUL" => k + 1 <= Len(text))
    BY CharIs
  <2>2. CASE Char(text, k) \in Blanks
    <3>1. turn(k) = k + 1 /\ Char(text, k) # "NUL"
      BY <2>2 DEF Blanks
    <3> HIDE DEF turn
    <3> QED BY <2>1, <3>1
  <2>3. CASE Char(text, k) = "/" /\ Char(text, k + 1) = "/"
    <3>1. turn(k) = LineEnd(text, k)
      BY <2>3 DEF Blanks
    <3> HIDE DEF turn
    <3> QED BY <3>1, LineEndIs
  <2>4. CASE Char(text, k) = "/" /\ Char(text, k + 1) = "*"
    <3>1. turn(k) = CommentEnd(text, k + 2)
      BY <2>4 DEF Blanks
    <3>2. k + 2 \in 1..n
      BY <2>1, <2>4
    <3>3. CommentEnd(text, k + 2) \in (k + 2)..n
      BY <3>2, CommentEndIs
    <3> HIDE DEF turn
    <3> QED BY <2>1, <3>1, <3>3
  <2>5. CASE Char(text, k) \notin Blanks /\ ~(Char(text, k) = "/" /\ Char(text, k + 1) \in {"/", "*"})
    <3>1. turn(k) = k
      BY <2>5
    <3> HIDE DEF turn
    <3> QED BY <2>1, <3>1
  <2> QED BY <2>2, <2>3, <2>4, <2>5
<1>2. Skip(text) = [k \in 1..n |-> turn(k)]
  BY DEF Skip
<1>3. n \in Nat
  BY CharIs
<1> HIDE DEF turn, n
<1>4. Skip(text) \in [1..n -> 1..n] /\ \A k \in 1..n : Skip(text)[k] >= k
  BY <1>1, <1>2, <1>3
<1> QED BY <1>4 DEF Turns, n

\* Skipping blanks and comments never goes back and never leaves the text.
LEMMA SkippedIs ==
  ASSUME NEW S, NEW text \in Seq(S), NEW i \in 1..(Len(text) + 1)
  PROVE  Skipped(text, i) \in i..(Len(text) + 1)
<1>1. Len(text) + 1 \in Nat
  BY CharIs
<1> QED BY <1>1, SkipTurns, LoopEndIs DEF Skipped

\* Neither does a turn of the loop of lex_string, which stops at a quote or
\* at the end only.
LEMMA SpellTurns ==
  ASSUME NEW S, NEW text \in Seq(S)
  PROVE  /\ Spell(text) \in Turns(Len(text) + 1)
         /\ \A k \in 1..(Len(text) + 1) :
              /\ Char(text, k) \in {"\"", "NUL"} => Spell(text)[k] = k
              /\ Char(text, k) = "\\" => Spell(text)[k] = Step(text, k, 2)
              /\ Char(text, k) \notin {"\"", "NUL", "\\"} => Spell(text)[k] = k + 1
              /\ Char(text, k) \notin {"\"", "NUL"} => Spell(text)[k] > k
<1> DEFINE n == Len(text) + 1
           turn(k) ==
             CASE Char(text, k) \in {"\"", "NUL"} -> k
               [] Char(text, k) = "\\" -> Step(text, k, 2)
               [] OTHER -> k + 1
<1>1. ASSUME NEW k \in 1..n
      PROVE  /\ turn(k) \in k..n
             /\ Char(text, k) \in {"\"", "NUL"} => turn(k) = k
             /\ Char(text, k) = "\\" => turn(k) = Step(text, k, 2)
             /\ Char(text, k) \notin {"\"", "NUL", "\\"} => turn(k) = k + 1
             /\ Char(text, k) \notin {"\"", "NUL"} => turn(k) > k
  <2>1. Len(text) \in Nat /\ n \in Nat /\ k \in Nat /\ k <= n
        /\ (Char(text, k) # "NUL" => k + 1 <= n)
    <3>1. Len(text) \in Nat /\ (Char(text, k) # "NUL" => k <= Len(text))
      BY CharIs
    <3> QED BY <3>1
  <2>2. CASE Char(text, k) \in {"\"", "NUL"}
    <3>1. turn(k) = k
      BY <2>2
    <3>2. Char(text, k) # "\\"
      BY <2>2
    <3> HIDE DEF turn, n
    <3>3. turn(k) \in k..n
      BY <2>1, <3>1
    <3> QED BY <2>2, <3>1, <3>2, <3>3
  <2>3. CASE Char(text, k) = "\\"
    <3>1. turn(k) = Step(text, k, 2)
      BY <2>3
    <3>2. Step(text, k, 2) \in (k + 1)..n
      BY <2>1, <2>3 DEF Step
    <3> HIDE DEF turn
    <3> QED BY <2>1, <2>3, <3>1, <3>2
  <2>4. CASE Char(text, k) \notin {"\"", "NUL", "\\"}
    <3>1. turn(k) = k + 1
      BY <2>4
    <3>2. Char(text, k) \notin {"\"", "NUL"} /\ Char(text, k) # "\\"
      BY <2>4
    <3>3. Char(text, k) # "NUL"
      BY <3>2
    <3> HIDE DEF turn, n
    <3>4. turn(k) \in k..n /\ turn(k) > k
      BY <2>1, <3>1, <3>3
    <3> QED BY <2>4, <3>1, <3>2, <3>4
  <2> QED BY <2>2, <2>3, <2>4
<1>2. Spell(text) = [k \in 1..n |-> turn(k)]
  BY DEF Spell
<1>3. n \in Nat
  BY CharIs
<1> HIDE DEF turn, n
<1>4. ASSUME NEW k \in 1..n PROVE turn(k) \in 1..n /\ turn(k) >= k
  <2>1. turn(k) \in k..n
    BY <1>1
  <2> QED BY <1>3, <2>1
<1>5. Spell(text) \in [1..n -> 1..n] /\ \A k \in 1..n : Spell(text)[k] = turn(k)
  BY <1>2, <1>4
<1>6. Spell(text) \in Turns(n)
  BY <1>4, <1>5 DEF Turns
<1> HIDE DEF Spell
<1>7. ASSUME NEW k \in 1..n
      PROVE  /\ Char(text, k) \in {"\"", "NUL"} => Spell(text)[k] = k
             /\ Char(text, k) = "\\" => Spell(text)[k] = Step(text, k, 2)
             /\ Char(text, k) \notin {"\"", "NUL", "\\"} => Spell(text)[k] = k + 1
             /\ Char(text, k) \notin {"\"", "NUL"} => Spell(text)[k] > k
  <2>1. Spell(text)[k] = turn(k)
    BY <1>5
  <2> QED BY <1>1, <2>1
<1> QED BY <1>6, <1>7 DEF n

\* A token begins where the lexer is and ends in the text; only a character
\* of the text can be an error.
LEMMA LexedIs ==
  ASSUME NEW S, NEW text \in Seq(S), NEW i \in 1..(Len(text) + 1)
  PROVE  /\ Lexed(text, i).kind \in {"EOF", "IDENT", "INT", "FLOAT", "STRING", "CHAR", "OP", "ERROR"}
         /\ Lexed(text, i).to \in i..(Len(text) + 1)
         /\ Lexed(text, i).kind = "ERROR" => i \in 1..Len(text)
         /\ Lexed(text, i).kind = "STRING" =>
              Char(text, i) = "\"" /\ Lexed(text, i) = lex_string(text, i)
<1> DEFINE n == Len(text) + 1
           ends(r) == r.to \in i..n
<1>1. Len(text) \in Nat /\ n \in Nat /\ i \in Nat /\ i <= n
      /\ (\A k \in Nat : Char(text, k) # "NUL" => k <= Len(text))
  <2>1. Len(text) \in Nat /\ (\A k \in Nat : k > Len(text) => Char(text, k) = "NUL")
    BY CharIs
  <2> QED BY <2>1
<1>2. /\ "NUL" \notin Letters \cup Digits /\ "NUL" \notin Letters /\ "NUL" \notin Digits
      /\ Letters \cap Digits = {}
      /\ "\"" \notin Letters \cup Digits /\ "'" \notin Letters \cup Digits
  BY DEF Letters, Digits
<1>3. CASE Char(text, i) = "NUL"
  <2>1. Lexed(text, i) = [kind |-> "EOF", to |-> i]
    <3>1. Char(text, i) \notin Letters /\ Char(text, i) \notin Digits
          /\ Char(text, i) # "\"" /\ Char(text, i) # "'"
      BY <1>2, <1>3
    <3> QED BY <1>3, <3>1 DEF Lexed
  <2> QED BY <1>1, <2>1
<1>4. CASE Char(text, i) \in Letters
  <2>1. Lexed(text, i) = [kind |-> "IDENT", to |-> RunEnd(text, i, Letters \cup Digits)]
    <3>1. Char(text, i) \notin Digits /\ Char(text, i) # "NUL"
          /\ Char(text, i) # "\"" /\ Char(text, i) # "'"
      BY <1>2, <1>4
    <3> QED BY <1>4, <3>1 DEF Lexed, lex_ident_or_kw
  <2>2. RunEnd(text, i, Letters \cup Digits) \in i..n
    BY <1>2, RunEndIs
  <2> QED BY <2>1, <2>2
<1>5. CASE Char(text, i) \in Digits
  <2> DEFINE whole == RunEnd(text, i, Digits)
             point == Char(text, whole) = "." /\ Char(text, whole + 1) \in Digits
             fraction == IF point THEN RunEnd(text, whole + 1, Digits) ELSE whole
             exponent == Char(text, fraction) = "e"
             sign == IF Char(text, fraction + 1) \in {"+", "-"} THEN 1 ELSE 0
             stop == RunEnd(text, fraction + 1 + sign, Digits)
  <2>1. Lexed(text, i) = lex_number(text, i)
    <3>1. Char(text, i) \notin Letters /\ Char(text, i) # "NUL"
          /\ Char(text, i) # "\"" /\ Char(text, i) # "'"
      BY <1>2, <1>5
    <3> QED BY <1>5, <3>1 DEF Lexed
  <2>2. Lexed(text, i) = IF exponent THEN [kind |-> "FLOAT", to |-> stop]
                         ELSE [kind |-> IF point THEN "FLOAT" ELSE "INT", to |-> fraction]
    BY <2>1 DEF lex_number
  <2>3. whole \in i..n
    BY <1>2, RunEndIs
  <2> HIDE DEF whole
  <2>4. fraction \in i..n
    <3>1. CASE point
      <4>1. whole + 1 \in 1..n
        <5>1. whole \in Nat /\ whole + 1 \in Nat
          BY <1>1, <2>3
        <5>2. Char(text, whole + 1) # "NUL"
          BY <1>2, <3>1
        <5>3. whole + 1 <= Len(text)
          BY <1>1, <5>1, <5>2
        <5> QED BY <1>1, <5>1, <5>3
      <4>2. RunEnd(text, whole + 1, Digits) \in (whole + 1)..n
        BY <1>2, <4>1, RunEndIs
      <4> QED BY <1>1, <2>3, <3>1, <4>2
    <3>2. CASE ~point
      BY <2>3, <3>2
    <3> QED BY <3>1, <3>2
  <2> HIDE DEF fraction, point
  <2>5. exponent => stop \in i..n
    <3> SUFFICES ASSUME exponent PROVE stop \in i..n
      OBVIOUS
    <3>1. fraction <= Len(text)
      BY <1>1, <2>4
    <3>2. fraction + 1 + sign \in 1..n
      <4>1. CASE Char(text, fraction + 1) \in {"+", "-"}
        BY <1>1, <2>4, <4>1
      <4>2. CASE Char(text, fraction + 1) \notin {"+", "-"}
        BY <1>1, <2>4, <3>1, <4>2
      <4> QED BY <4>1, <4>2
    <3> HIDE DEF sign, exponent
    <3>3. stop \in (fraction + 1 + sign)..n
      BY <1>2, <3>2, RunEndIs
    <3>4. sign \in Nat
      BY DEF sign
    <3> HIDE DEF stop
    <3> QED BY <1>1, <2>4, <3>3, <3>4
  <2>6. i <= Len(text)
    BY <1>1, <1>2, <1>5
  <2> HIDE DEF exponent, stop
  <2> QED BY <1>1, <2>2, <2>4, <2>5, <2>6
<1>6. CASE Char(text, i) = "\""
  <2> DEFINE end == LoopEnd(Spell(text))[i + 1]
  <2>1. Lexed(text, i) = lex_string(text, i)
    BY <1>6 DEF Lexed, Letters, Digits
  <2>2. Lexed(text, i) = IF Char(text, end) = "\"" THEN [kind |-> "STRING", to |-> end + 1]
                                                   ELSE [kind |-> "ERROR", to |-> end]
    BY <2>1 DEF lex_string
  <2>3. i <= Len(text) /\ i + 1 \in 1..n /\ n \in Nat
    <3>1. Char(text, i) # "NUL"
      BY <1>6
    <3> QED BY <1>1, <3>1
  <2>4. end \in (i + 1)..n
    BY <2>3, SpellTurns, LoopEndIs
  <2> HIDE DEF end
  <2>5. CASE Char(text, end) = "\""
    <3>1. Char(text, end) # "NUL"
      BY <2>5
    <3>2. end + 1 \in i..n
      BY <1>1, <2>4, <3>1
    <3>3. Lexed(text, i) = [kind |-> "STRING", to |-> end + 1]
      BY <2>2, <2>5
    <3>4. Lexed(text, i).to = end + 1 /\ Lexed(text, i).kind = "STRING"
      BY <3>3
    <3> QED BY <1>6, <2>1, <3>2, <3>4, Zenon
  <2>6. CASE Char(text, end) # "\""
    <3>1. Lexed(text, i) = [kind |-> "ERROR", to |-> end]
      BY <2>2, <2>6
    <3>2. Lexed(text, i).to = end /\ Lexed(text, i).kind = "ERROR"
      BY <3>1
    <3>3. end \in i..n /\ i \in 1..Len(text)
      BY <1>1, <2>3, <2>4
    <3> QED BY <3>2, <3>3
  <2> QED BY <2>5, <2>6
<1>7. CASE Char(text, i) = "'"
  <2> DEFINE end == Step(text, i, IF Char(text, i + 1) = "\\" THEN 3 ELSE 2)
  <2>1. Lexed(text, i) = lex_char(text, i)
    BY <1>7 DEF Lexed, Letters, Digits
  <2>2. Lexed(text, i) = IF Char(text, end) = "'" THEN [kind |-> "CHAR", to |-> end + 1]
                                                  ELSE [kind |-> "ERROR", to |-> end]
    BY <2>1 DEF lex_char
  <2>3. i <= Len(text)
    BY <1>1, <1>7
  <2>4. end \in i..n
    BY <1>1, <2>3 DEF Step
  <2> HIDE DEF end
  <2>5. Char(text, end) = "'" => end <= Len(text)
    BY <1>1, <2>4
  <2> QED BY <1>1, <2>2, <2>3, <2>4, <2>5
<1>8. CASE /\ Char(text, i) \notin {"NUL", "\"", "'"}
           /\ Char(text, i) \notin Letters /\ Char(text, i) \notin Digits
  <2>1. Lexed(text, i) = lex_operator(text, i)
    BY <1>8 DEF Lexed
  <2>2. i <= Len(text)
    BY <1>1, <1>8
  <2>3. CASE <<Char(text, i), Char(text, i + 1)>> \in TwoChar
    <3>1. Lexed(text, i) = [kind |-> "OP", to |-> i + 2]
      BY <2>1, <2>3 DEF lex_operator
    <3>2. <<Char(text, i), "NUL">> \notin TwoChar
      BY DEF TwoChar
    <3>3. i + 1 <= Len(text)
      BY <1>1, <2>3, <3>2
    <3> QED BY <1>1, <3>1, <3>3
  <2>4. CASE <<Char(text, i), Char(text, i + 1)>> \notin TwoChar
    <3>1. Lexed(text, i) = [kind |-> IF Char(text, i) \in OneChar THEN "OP" ELSE "ERROR", to |-> i + 1]
      BY <2>1, <2>4 DEF lex_operator
    <3> QED BY <1>1, <2>2, <3>1
  <2> QED BY <2>3, <2>4
<1> QED BY <1>3, <1>4, <1>5, <1>6, <1>7, <1>8

-----------------------------------------------------------------------------
(* Lines and columns.                                                        *)

\* The newlines in front of position i.
Before(text, i) == {k \in 1..(i - 1) : text[k] = "nl"}

LineAt(text, i) == 1 + Cardinality(Before(text, i))
ColumnAt(text, i) == IF Before(text, i) = {} THEN i ELSE i - Max(Before(text, i))

\* A place has the line and column of its position.
Placed(text, place) ==
  /\ place \in Places
  /\ place.pos <= Len(text) + 1
  /\ place.line = LineAt(text, place.pos)
  /\ place.column = ColumnAt(text, place.pos)

\* Lines and columns are counted from 1.
LEMMA PlaceIs ==
  ASSUME NEW S, NEW text \in Seq(S), NEW i \in 1..(Len(text) + 1)
  PROVE  /\ LineAt(text, i) \in Nat \ {0} /\ ColumnAt(text, i) \in Nat \ {0}
         /\ IsFiniteSet(Before(text, i)) /\ Before(text, i) \in SUBSET (1..(i - 1))
<1> DEFINE B == Before(text, i)
<1>1. i \in Nat \ {0} /\ i - 1 \in Nat
  OBVIOUS
<1>2. B \in SUBSET (1..(i - 1))
  BY DEF Before
<1>3. IsFiniteSet(1..(i - 1))
  BY <1>1, FS_Interval
<1>4. IsFiniteSet(B)
  <2> HIDE DEF B
  <2> QED BY <1>2, <1>3, FS_Subset
<1> HIDE DEF B
<1>5. Cardinality(B) \in Nat
  BY <1>4, FS_CardinalityType
<1>6. B # {} => Max(B) \in 1..(i - 1)
  BY <1>1, <1>2, MaxOf
<1>7. LineAt(text, i) = 1 + Cardinality(B) /\ ColumnAt(text, i) = IF B = {} THEN i ELSE i - Max(B)
  BY DEF B, LineAt, ColumnAt
<1> QED BY <1>1, <1>2, <1>4, <1>5, <1>6, <1>7 DEF B

\* advance keeps the place true to the text.
LEMMA AdvanceIs ==
  ASSUME NEW S, NEW text \in Seq(S), NEW place, Placed(text, place),
         NEW i \in place.pos..(Len(text) + 1)
  PROVE  Placed(text, advance(text, place, i)) /\ advance(text, place, i).pos = i
<1> DEFINE p == place.pos
           n == Len(text)
           crossed == Newlines(text, p, i)
           A == Before(text, p)
           B == Before(text, i)
<1>1. p \in Nat \ {0} /\ n \in Nat /\ i \in Nat /\ p <= i /\ i <= n + 1 /\ i \in 1..(n + 1) /\ p \in 1..(n + 1)
      /\ i # 0 /\ i - 1 \in Nat
  <2>1. p \in Nat \ {0} /\ n \in Nat
    BY DEF Placed, Places
  <2> QED BY <2>1
<1>2. place.line = 1 + Cardinality(A) /\ place.column = IF A = {} THEN p ELSE p - Max(A)
  BY DEF Placed, LineAt, ColumnAt
<1>3. crossed = {k \in p..(i - 1) : text[k] = "nl"}
  <2>1. ASSUME NEW k \in p..(i - 1) PROVE Char(text, k) = text[k]
    <3>1. k \in 1..n
      BY <1>1
    <3> QED BY <3>1, CharIs
  <2> QED BY <2>1 DEF Newlines
<1>4. B = A \cup crossed /\ A \cap crossed = {}
  <2>1. \A k : k \in 1..(i - 1) <=> k \in 1..(p - 1) \/ k \in p..(i - 1)
    BY <1>1
  <2>2. \A k : ~(k \in 1..(p - 1) /\ k \in p..(i - 1))
    BY <1>1
  <2> HIDE DEF p
  <2> QED BY <1>3, <2>1, <2>2 DEF Before
<1>5. crossed \in SUBSET (1..(i - 1)) /\ \A k \in crossed : k >= p
  BY <1>1, <1>3
<1>6. IsFiniteSet(A) /\ IsFiniteSet(B) /\ A \in SUBSET (1..(p - 1)) /\ B \in SUBSET (1..(i - 1))
  BY <1>1, PlaceIs
<1>7. IsFiniteSet(crossed)
  <2>1. crossed \subseteq B
    BY <1>4
  <2> HIDE DEF crossed, B
  <2> QED BY <1>6, <2>1, FS_Subset
<1>8. advance(text, place, i) =
        [pos |-> i, line |-> place.line + Cardinality(crossed),
         column |-> IF crossed = {} THEN place.column + (i - p) ELSE i - Max(crossed)]
  BY DEF advance
<1> HIDE DEF crossed, A, B, n, p
<1>9. Cardinality(A) \in Nat /\ Cardinality(crossed) \in Nat
      /\ Cardinality(B) = Cardinality(A) + Cardinality(crossed)
  <2>1. Cardinality(A \cap crossed) = 0
    BY <1>4, FS_EmptySet
  <2>2. Cardinality(A) \in Nat /\ Cardinality(crossed) \in Nat
    BY <1>6, <1>7, FS_CardinalityType
  <2>3. Cardinality(A \cup crossed) = Cardinality(A) + Cardinality(crossed) - Cardinality(A \cap crossed)
    BY <1>6, <1>7, FS_Union
  <2>4. Cardinality(B) = Cardinality(A) + Cardinality(crossed) - 0
    BY <1>4, <2>1, <2>3
  <2> QED BY <2>2, <2>4
<1>10. LineAt(text, i) = 1 + Cardinality(B) /\ ColumnAt(text, i) = IF B = {} THEN i ELSE i - Max(B)
  BY DEF B, LineAt, ColumnAt
<1>11. place.line + Cardinality(crossed) = LineAt(text, i)
  BY <1>2, <1>9, <1>10
<1>12. (IF crossed = {} THEN place.column + (i - p) ELSE i - Max(crossed)) = ColumnAt(text, i)
  <2>1. CASE crossed = {}
    <3>1. B = A
      BY <1>4, <2>1
    <3>2. A # {} => Max(A) \in 1..(p - 1)
      <4>1. p - 1 \in Nat
        BY <1>1
      <4> QED BY <1>6, <4>1, MaxOf
    <3> QED BY <1>1, <1>2, <1>10, <2>1, <3>1, <3>2
  <2>2. CASE crossed # {}
    <3>1. B # {}
      BY <1>4, <2>2
    <3>2. Max(crossed) \in crossed /\ \A y \in crossed : Max(crossed) >= y
      BY <1>1, <1>5, <2>2, MaxOf
    <3>3. Max(B) \in B /\ \A y \in B : Max(B) >= y
      BY <1>1, <1>6, <3>1, MaxOf
    <3>4. Max(B) >= Max(crossed) /\ Max(crossed) >= p /\ Max(B) \in Nat /\ Max(crossed) \in Nat
      <4>1. Max(crossed) \in B /\ Max(crossed) >= p
        BY <1>4, <1>5, <3>2
      <4>2. Max(B) >= Max(crossed)
        BY <3>3, <4>1
      <4>3. Max(B) \in 1..(i - 1) /\ Max(crossed) \in 1..(i - 1)
        BY <1>6, <3>3, <4>1
      <4> QED BY <1>1, <4>1, <4>2, <4>3
    <3>5. Max(B) \notin A
      BY <1>1, <1>6, <3>4
    <3>6. Max(crossed) >= Max(B)
      BY <1>4, <3>2, <3>3, <3>5
    <3>7. Max(B) = Max(crossed)
      BY <3>4, <3>6
    <3> QED BY <1>10, <2>2, <3>1, <3>7
  <2> QED BY <2>1, <2>2
<1>13. LineAt(text, i) \in Nat \ {0} /\ ColumnAt(text, i) \in Nat \ {0}
  BY <1>1, PlaceIs DEF n
<1>14. advance(text, place, i) = [pos |-> i, line |-> LineAt(text, i), column |-> ColumnAt(text, i)]
  BY <1>8, <1>11, <1>12
<1> DEFINE a == [pos |-> i, line |-> LineAt(text, i), column |-> ColumnAt(text, i)]
<1>15. a \in Places /\ a.pos = i /\ a.line = LineAt(text, i) /\ a.column = ColumnAt(text, i)
  BY <1>1, <1>13 DEF Places
<1> HIDE DEF a
<1>16. Placed(text, a) /\ a.pos = i
  BY <1>1, <1>15 DEF Placed, n
<1> QED BY <1>14, <1>16 DEF a

-----------------------------------------------------------------------------
(* The tokens that are read.                                                 *)

\* A token that was read lies in the text; it has the column of its first
\* character and the line of its end, and a string literal is what lex_string
\* made of it.
Read(text, token) ==
  /\ token \in TokenType
  /\ token.from \in 1..(Len(text) + 1)
  /\ token.to \in token.from..(Len(text) + 1)
  /\ token.line = LineAt(text, token.to)
  /\ token.column = ColumnAt(text, token.from)
  /\ token.kind = "ERROR" => token.from \in 1..Len(text)
  /\ token.kind = "STRING" =>
       /\ Char(text, token.from) = "\""
       /\ lex_string(text, token.from).kind = "STRING"
       /\ token.to = lex_string(text, token.from).to

\* From a place of the text on, Scan finds a token that is Read and a place again.
LEMMA ScanIs ==
  ASSUME NEW S, NEW text \in Seq(S), NEW place, Placed(text, place)
  PROVE  Read(text, Scan(text, place).token) /\ Placed(text, Scan(text, place).place)
<1> DEFINE n == Len(text)
           first == advance(text, place, Skipped(text, place.pos))
           i == first.pos
           lexed == Lexed(text, i)
           last == advance(text, first, lexed.to)
           token == [kind |-> lexed.kind, from |-> i, to |-> lexed.to,
                     line |-> last.line, column |-> first.column]
<1>1. Scan(text, place) = [token |-> token, place |-> last]
  BY DEF Scan, make_token
<1>2. n \in Nat /\ place.pos \in 1..(n + 1)
  BY DEF Placed, Places
<1>3. Skipped(text, place.pos) \in place.pos..(n + 1)
  BY <1>2, SkippedIs
<1>4. Placed(text, first)
  BY <1>3, AdvanceIs
<1> HIDE DEF first
<1>5. i \in 1..(n + 1) /\ first.column \in Nat /\ first.column = ColumnAt(text, i)
  BY <1>2, <1>4 DEF Placed, Places
<1>6. /\ lexed.kind \in {"EOF", "IDENT", "INT", "FLOAT", "STRING", "CHAR", "OP", "ERROR"}
      /\ lexed.to \in i..(n + 1)
      /\ lexed.kind = "ERROR" => i \in 1..n
      /\ lexed.kind = "STRING" => Char(text, i) = "\"" /\ lexed = lex_string(text, i)
  <2> HIDE DEF i
  <2> QED BY <1>5, LexedIs
<1> HIDE DEF lexed
<1>7. Placed(text, last) /\ last.pos = lexed.to
  BY <1>4, <1>6, AdvanceIs
<1> HIDE DEF last
<1>8. last.line \in Nat /\ last.line = LineAt(text, lexed.to)
  BY <1>7 DEF Placed, Places
<1>9. lexed.kind \in Kinds /\ i \in Nat /\ lexed.to \in Nat
  <2>1. lexed.kind \in Kinds
    BY <1>6 DEF Kinds
  <2>2. lexed.to \in i..(n + 1)
    BY <1>6
  <2> HIDE DEF i
  <2> QED BY <1>2, <1>5, <2>1, <2>2
<1>10. token \in TokenType
  <2> HIDE DEF i
  <2> QED BY <1>5, <1>8, <1>9 DEF TokenType
<1>11. /\ token.kind = lexed.kind /\ token.from = i /\ token.to = lexed.to
       /\ token.line = last.line /\ token.column = first.column
  OBVIOUS
<1> HIDE DEF token
<1>12. token.kind = "STRING" =>
         /\ Char(text, token.from) = "\""
         /\ lex_string(text, token.from).kind = "STRING"
         /\ token.to = lex_string(text, token.from).to
  BY <1>6, <1>11, Zenon
<1>13. token.kind = "ERROR" => token.from \in 1..Len(text)
  BY <1>6, <1>11
<1>14. token.from \in 1..(n + 1) /\ token.to \in token.from..(n + 1)
  BY <1>5, <1>6, <1>11
<1>15. token.line = LineAt(text, token.to) /\ token.column = ColumnAt(text, token.from)
  BY <1>5, <1>8, <1>11
<1>16. Read(text, token)
  BY <1>10, <1>12, <1>13, <1>14, <1>15, Zenon DEF Read
<1> QED BY <1>1, <1>7, <1>16

\* A token and what it makes Reports are of the right type.
LEMMA ReportsIs ==
  ASSUME NEW S, NEW text \in Seq(S), NEW token, Read(text, token)
  PROVE  Reports(token) \in Seq(1..Len(text))
<1>1. CASE token.kind = "ERROR"
  <2>1. token.from \in 1..Len(text)
    BY <1>1 DEF Read
  <2>2. Reports(token) = <<token.from>>
    BY <1>1 DEF Reports
  <2> QED BY <2>1, <2>2
<1>2. CASE token.kind # "ERROR"
  <2>1. Reports(token) = <<>>
    BY <1>2 DEF Reports
  <2> QED BY <2>1
<1> QED BY <1>1, <1>2

-----------------------------------------------------------------------------
(* The invariant.                                                            *)

\* Every place the lexer keeps is true to the text, and every token it keeps
\* was read from it.
Inv ==
  /\ src \in Sources
  /\ has_lookahead \in BOOLEAN
  /\ Placed(src, at) /\ Placed(src, before.place)
  /\ lookahead = NoToken \/ Read(src, lookahead)
  /\ current = NoToken \/ Read(src, current)
  /\ shown = NoToken \/ Read(src, shown)
  /\ reported \in Seq(1..Len(src)) /\ before.reported \in Seq(1..Len(src))

\* The start of the text is line 1, column 1.
LEMMA StartIs ==
  ASSUME NEW S, NEW text \in Seq(S)
  PROVE  Placed(text, Start)
<1>1. Before(text, 1) = {}
  <2>1. 1..(1 - 1) = {}
    OBVIOUS
  <2> QED BY <2>1 DEF Before
<1>2. LineAt(text, 1) = 1 /\ ColumnAt(text, 1) = 1
  <2>1. Cardinality(Before(text, 1)) = 0
    BY <1>1, FS_EmptySet
  <2> QED BY <1>1, <2>1 DEF LineAt, ColumnAt
<1>3. Start \in Places /\ Start.pos = 1 /\ Start.line = 1 /\ Start.column = 1
  BY DEF Start, Places
<1>4. Len(text) \in Nat
  OBVIOUS
<1> QED BY <1>2, <1>3, <1>4 DEF Placed

\* Lexing the next token keeps the place and the reports in order.
LEMMA LexIs ==
  ASSUME Inv, NEW next, next = Scan(src, at), Lex(next)
  PROVE  Read(src, next.token) /\ Placed(src, at') /\ reported' \in Seq(1..Len(src))
<1>1. src \in Seq(Characters)
  BY LexerAssumption DEF Inv
<1>2. Read(src, next.token) /\ Placed(src, next.place)
  BY <1>1, ScanIs DEF Inv
<1>3. Reports(next.token) \in Seq(1..Len(src))
  BY <1>1, <1>2, ReportsIs
<1>4. reported' = reported \o Reports(next.token) /\ at' = next.place
  BY DEF Lex
<1> QED BY <1>2, <1>3, <1>4, ConcatProperties DEF Inv

\* lexer_init puts the lexer at the first character.
LEMMA InitHolds == Init => Inv
<1> SUFFICES ASSUME Init PROVE Inv
  OBVIOUS
<1>1. src \in Sources /\ src \in Seq(Characters)
  BY LexerAssumption DEF Init, lexer_init
<1>2. at = Start /\ before = [place |-> Start, reported |-> <<>>] /\ reported = <<>>
  BY DEF Init, lexer_init
<1>3. before.place = Start /\ before.reported = <<>> /\ <<>> \in Seq(1..Len(src))
  BY <1>2
<1>4. lookahead = NoToken /\ current = NoToken /\ shown = NoToken /\ has_lookahead \in BOOLEAN
  BY DEF Init, lexer_init
<1> QED BY <1>1, <1>2, <1>3, <1>4, StartIs DEF Inv

\* Taking and looking, with or without a token that waits.
LEMMA NextKeeps == Inv /\ [Next]_vars => Inv'
<1> SUFFICES ASSUME Inv, [Next]_vars PROVE Inv'
  OBVIOUS
<1>1. CASE /\ has_lookahead
           /\ has_lookahead' = FALSE
           /\ current' = lookahead
           /\ UNCHANGED <<src, at, lookahead, shown, reported, before>>
  BY <1>1 DEF Inv
<1>2. ASSUME NEW next, next = Scan(src, at), Lex(next), current' = next.token,
             UNCHANGED <<src, has_lookahead, lookahead, shown, before>>
      PROVE  Inv'
  <2>1. Read(src, next.token) /\ Placed(src, at') /\ reported' \in Seq(1..Len(src))
    BY <1>2, LexIs
  <2> QED BY <1>2, <2>1 DEF Inv
<1>3. ASSUME NEW next, next = Scan(src, at), Lex(next), lookahead' = next.token,
             has_lookahead' = TRUE, before' = [place |-> at, reported |-> reported],
             shown' = lookahead', UNCHANGED <<src, current>>
      PROVE  Inv'
  <2>1. Read(src, next.token) /\ Placed(src, at') /\ reported' \in Seq(1..Len(src))
    BY <1>3, LexIs
  <2>2. before'.place = at /\ before'.reported = reported
    BY <1>3
  <2> QED BY <1>3, <2>1, <2>2 DEF Inv
<1>4. CASE /\ UNCHANGED <<at, reported, lookahead, has_lookahead, before>>
           /\ shown' = lookahead'
           /\ UNCHANGED <<src, current>>
  BY <1>4 DEF Inv
<1>5. CASE UNCHANGED vars
  BY <1>5 DEF vars, Inv
<1>6. CASE lexer_next
  BY <1>1, <1>2, <1>6 DEF lexer_next
<1>7. CASE lexer_peek
  BY <1>3, <1>4, <1>7 DEF lexer_peek
<1> QED BY <1>5, <1>6, <1>7 DEF Next

\* The invariant of the lexer.
LEMMA LexerInvariant == Spec => []Inv
BY InitHolds, NextKeeps, PTL DEF Spec

\* The place is a position in the text, or the one behind it, with a line and
\* a column; the tokens and the places reported are what they say.
THEOREM LexerTypes == Spec => []TypeOK
<1>1. Inv => TypeOK
  <2> SUFFICES ASSUME Inv PROVE TypeOK
    OBVIOUS
  <2>1. NoToken \in TokenType
    BY DEF NoToken, TokenType, Kinds
  <2>2. {lookahead, current, shown} \subseteq TokenType
    BY <2>1 DEF Inv, Read
  <2>3. {at, before.place} \subseteq Places /\ at.pos <= Len(src) + 1
    BY DEF Inv, Placed
  <2> QED BY <2>2, <2>3 DEF Inv, TypeOK
<1> QED BY <1>1, LexerInvariant, PTL

\* However much of the text the lexer went through before a token, newlines
\* in blanks, comments and literals included, the token has the line and
\* column of its first character, or the line of its end when it spans lines.
THEOREM TokensPlacedAtStart == Spec => []PlacedAtStart
<1>1. ASSUME Inv, NEW token, Read(src, token)
      PROVE  /\ token.column = ColumnOf(token.from)
             /\ token.line = LineOf(IF OnOneLine(token) THEN token.from ELSE token.to)
  <2>1. token.line = LineOf(token.to) /\ token.column = ColumnOf(token.from)
    BY <1>1 DEF Read, LineAt, ColumnAt, Before, LineOf, ColumnOf
  <2>2. OnOneLine(token) => Before(src, token.from) = Before(src, token.to)
    <3> SUFFICES ASSUME OnOneLine(token) PROVE Before(src, token.from) = Before(src, token.to)
      OBVIOUS
    <3>1. src \in Seq(Characters)
      BY <1>1, LexerAssumption DEF Inv
    <3>2. Len(src) \in Nat
      BY <3>1
    <3>3. token.from \in Nat /\ token.to \in Nat /\ token.from <= token.to
      <4>1. token.from \in 1..(Len(src) + 1) /\ token.to \in token.from..(Len(src) + 1)
        BY <1>1, Zenon DEF Read
      <4> QED BY <3>2, <4>1
    <3>4. \A k \in token.from..(token.to - 1) : src[k] # "nl"
      BY DEF OnOneLine
    <3>5. \A k : k \in 1..(token.to - 1) <=>
                   k \in 1..(token.from - 1) \/ (k \in token.from..(token.to - 1) /\ k \in 1..(token.to - 1))
      BY <3>3
    <3> QED BY <3>4, <3>5 DEF Before
  <2>3. OnOneLine(token) => LineOf(token.from) = LineOf(token.to)
    BY <2>2 DEF Before, LineOf
  <2> QED BY <2>1, <2>3
<1>2. Inv => PlacedAtStart
  <2> SUFFICES ASSUME Inv, NEW token \in {current, lookahead} \ {NoToken}
               PROVE  /\ token.column = ColumnOf(token.from)
                      /\ token.line = LineOf(IF OnOneLine(token) THEN token.from ELSE token.to)
    BY DEF PlacedAtStart
  <2>1. Read(src, token)
    BY DEF Inv
  <2> QED BY <1>1, <2>1
<1> QED BY <1>2, LexerInvariant, PTL

-----------------------------------------------------------------------------
(* Where string literals end.                                                *)

\* How many backslashes stand right before position k of a literal from s on.
Run(text, s, k) == k - 1 - Max({j \in s..(k - 1) : text[j] # "\\"})

\* A character that is no backslash ends the run, a backslash makes it longer.
LEMMA RunIs ==
  ASSUME NEW S, NEW text \in Seq(S), NEW s \in 1..Len(text), text[s] # "\\",
         NEW k \in s..Len(text)
  PROVE  /\ text[k] # "\\" => Run(text, s, k + 1) = 0
         /\ text[k] = "\\" => /\ Run(text, s, k) \in Nat
                             /\ Run(text, s, k + 1) = Run(text, s, k) + 1
<1> DEFINE A == {j \in s..(k - 1) : text[j] # "\\"}
           B == {j \in s..k : text[j] # "\\"}
<1>1. Len(text) \in Nat /\ s \in Nat \ {0} /\ k \in Nat /\ s <= k /\ k <= Len(text) /\ (k + 1) - 1 = k
  OBVIOUS
<1>2. Run(text, s, k) = k - 1 - Max(A) /\ Run(text, s, k + 1) = (k + 1) - 1 - Max(B)
  BY <1>1 DEF Run
<1>3. s \in B /\ B \in SUBSET (1..k)
  BY <1>1
<1>4. CASE text[k] # "\\"
  <2>1. k \in B
    BY <1>1, <1>4
  <2> HIDE DEF B
  <2>2. Max(B) \in B /\ \A y \in B : Max(B) >= y
    BY <1>1, <1>3, MaxOf
  <2>3. Max(B) \in 1..k /\ Max(B) >= k
    BY <1>3, <2>1, <2>2
  <2>4. Run(text, s, k + 1) = 0
    BY <1>1, <1>2, <2>3
  <2> QED BY <1>4, <2>4
<1>5. CASE text[k] = "\\"
  <2>1. s # k
    BY <1>5
  <2>2. A = B
    <3>1. \A j : j \in s..k <=> j \in s..(k - 1) \/ j = k
      BY <1>1
    <3> QED BY <1>5, <3>1
  <2>3. s \in A /\ A \in SUBSET (1..(k - 1)) /\ k - 1 \in Nat
    BY <1>1, <2>1
  <2> HIDE DEF A, B
  <2>4. Max(A) \in 1..(k - 1)
    BY <2>3, MaxOf
  <2>5. Run(text, s, k) \in Nat /\ Run(text, s, k + 1) = Run(text, s, k) + 1
    BY <1>1, <1>2, <2>2, <2>4
  <2> QED BY <1>5, <2>5
<1> QED BY <1>4, <1>5

\* From a position with an even run of backslashes before it, the loop of
\* lex_string stops at the first quote with an even run, if at a quote.
LEMMA SpellIs ==
  ASSUME NEW S, NEW text \in Seq(S), NEW s \in 1..Len(text), text[s] # "\\"
  PROVE  \A q \in (s + 1)..(Len(text) + 1) :
           Run(text, s, q) % 2 = 0 /\ Char(text, LoopEnd(Spell(text))[q]) = "\"" =>
             \A k \in q..LoopEnd(Spell(text))[q] :
               text[k] = "\"" => (k = LoopEnd(Spell(text))[q] <=> Run(text, s, k) % 2 = 0)
<1> DEFINE n == Len(text) + 1
           f == LoopEnd(Spell(text))
           Quote(c) == c = "\""
           Slash(c) == c = "\\"
           Even(k) == Run(text, s, k) % 2 = 0
           Stops(q) == Even(q) /\ Quote(Char(text, f[q])) =>
                         \A k \in q..f[q] : Quote(text[k]) => (k = f[q] <=> Even(k))
           G == {q \in 1..n : q > s => Stops(q)}
<1>1. Len(text) \in Nat /\ n \in Nat /\ s \in Nat \ {0} /\ s <= Len(text)
  OBVIOUS
<1>2. Spell(text) \in Turns(n)
  BY SpellTurns
<1>3. \A q \in 1..n : /\ f[q] = IF Spell(text)[q] = q THEN q ELSE f[Spell(text)[q]]
                      /\ f[q] \in q..n
  BY <1>1, <1>2, LoopEndIs
<1>4. \A q \in 1..n : /\ Quote(Char(text, q)) \/ Char(text, q) = "NUL" => Spell(text)[q] = q
                      /\ Slash(Char(text, q)) => Spell(text)[q] = Step(text, q, 2)
                      /\ ~Quote(Char(text, q)) /\ ~Slash(Char(text, q)) /\ Char(text, q) # "NUL"
                         => Spell(text)[q] = q + 1
  BY SpellTurns, Zenon
<1>5. \A q \in 1..n : q > Len(text) => Char(text, q) = "NUL"
  BY <1>1, CharIs
<1>6. \A q \in 1..Len(text) : Char(text, q) = text[q]
  BY CharIs
<1>7. \A c : /\ Quote(c) => ~Slash(c) /\ c # "NUL"
             /\ Slash(c) => c # "NUL"
  BY Zenon
<1>8. \A k \in s..Len(text) :
        /\ ~Slash(text[k]) => Run(text, s, k + 1) = 0
        /\ Slash(text[k]) => /\ Run(text, s, k) \in Nat
                             /\ Run(text, s, k + 1) = Run(text, s, k) + 1
  BY RunIs
<1> HIDE DEF f, n, Quote, Slash
<1>9. ASSUME NEW q \in 1..n, \A j \in 1..n : j > q => j \in G
      PROVE  q \in G
  <2> SUFFICES ASSUME q > s, Even(q), Quote(Char(text, f[q])) 
               PROVE  \A k \in q..f[q] : Quote(text[k]) => (k = f[q] <=> Even(k))
    OBVIOUS
  <2>1. Char(text, q) # "NUL"
    <3> SUFFICES ASSUME Char(text, q) = "NUL" PROVE FALSE
      OBVIOUS
    <3>1. f[q] = q
      BY <1>3, <1>4
    <3> QED BY <1>7, <3>1
  <2>2. q \in s..Len(text) /\ q \in 1..Len(text) /\ Char(text, q) = text[q] /\ q + 1 \in 1..n /\ q + 1 > q
    <3>1. q <= Len(text)
      BY <1>1, <1>5, <2>1 DEF n
    <3> QED BY <1>1, <1>6, <3>1 DEF n
  <2>3. CASE Quote(text[q])
    <3>1. f[q] = q
      BY <1>3, <1>4, <2>2, <2>3
    <3> QED BY <2>2, <3>1
  <2>4. CASE Slash(text[q])
    <3>1. Spell(text)[q] = Step(text, q, 2) /\ ~Quote(text[q])
      BY <1>4, <1>7, <2>2, <2>4
    <3>2. Run(text, s, q) \in Nat /\ Run(text, s, q + 1) = Run(text, s, q) + 1
      BY <1>8, <2>2, <2>4
    <3>3. ~Even(q + 1)
      BY <3>2
    <3>4. q + 2 <= Len(text)
      <4> SUFFICES ASSUME q + 2 > Len(text) PROVE FALSE
        BY <1>1, <2>2
      <4>1. Spell(text)[q] = n
        BY <3>1 DEF Step, n
      <4>2. n # q /\ n \in 1..n /\ Char(text, n) = "NUL"
        BY <1>1, <1>5, <2>2 DEF n
      <4>3. f[q] = f[n] /\ f[n] = n
        BY <1>1, <1>3, <1>4, <4>1, <4>2
      <4> QED BY <1>7, <4>2, <4>3
    <3>5. Spell(text)[q] = q + 2 /\ q + 2 \in 1..n /\ q + 2 > q /\ q + 2 > s /\ q + 1 \in s..Len(text)
          /\ q + 1 \in 1..Len(text) /\ q + 2 # q
      BY <1>1, <2>2, <3>1, <3>4 DEF Step, n
    <3>6. f[q] = f[q + 2] /\ f[q + 2] \in (q + 2)..n
      BY <1>3, <3>5
    <3>7. ASSUME Even(q + 2)
          PROVE  \A k \in q..f[q] : Quote(text[k]) => (k = f[q] <=> Even(k))
      <4>1. Stops(q + 2)
        BY <1>9, <3>5
      <4>2. \A k \in (q + 2)..f[q] : Quote(text[k]) => (k = f[q] <=> Even(k))
        BY <3>6, <3>7, <4>1
      <4>3. \A k \in q..f[q] : k = q \/ k = q + 1 \/ k \in (q + 2)..f[q]
        BY <1>1, <2>2, <3>6
      <4>4. q + 1 # f[q]
        BY <1>1, <2>2, <3>6
      <4> QED BY <3>1, <3>3, <4>2, <4>3, <4>4
    <3>8. Even(q + 2)
      <4>1. (q + 1) + 1 = q + 2
        BY <2>2
      <4>2. CASE Slash(text[q + 1])
        <5>1. Run(text, s, q + 2) = Run(text, s, q) + 2
          BY <1>8, <3>2, <3>5, <4>1, <4>2
        <5> QED BY <3>2, <5>1
      <4>3. CASE ~Slash(text[q + 1])
        <5>1. Run(text, s, q + 2) = 0
          BY <1>8, <3>5, <4>1, <4>3
        <5> QED BY <5>1
      <4> QED BY <4>2, <4>3
    <3> QED BY <3>7, <3>8
  <2>5. CASE ~Quote(text[q]) /\ ~Slash(text[q])
    <3>1. Spell(text)[q] = q + 1 /\ q + 1 # q /\ q + 1 > s
      BY <1>1, <1>4, <2>1, <2>2, <2>5
    <3>2. f[q] = f[q + 1] /\ f[q + 1] \in (q + 1)..n
      BY <1>3, <2>2, <3>1
    <3>3. Even(q + 1)
      <4>1. Run(text, s, q + 1) = 0
        BY <1>8, <2>2, <2>5
      <4> QED BY <4>1
    <3>4. Stops(q + 1)
      BY <1>9, <2>2, <3>1
    <3>5. \A k \in (q + 1)..f[q] : Quote(text[k]) => (k = f[q] <=> Even(k))
      BY <3>2, <3>3, <3>4
    <3>6. \A k \in q..f[q] : k = q \/ k \in (q + 1)..f[q]
      BY <1>1, <2>2, <3>2
    <3> QED BY <2>5, <3>5, <3>6
  <2> QED BY <2>3, <2>4, <2>5
<1>10. \A q \in 1..n : q \in G
  <2>1. G \in SUBSET (1..n)
    OBVIOUS
  <2> HIDE DEF G
  <2> QED BY <1>1, <1>9, <2>1, Backwards
<1>11. \A q \in (s + 1)..n : Stops(q)
  <2> SUFFICES ASSUME NEW q \in (s + 1)..n PROVE Stops(q)
    OBVIOUS
  <2>1. q \in 1..n /\ q > s
    BY <1>1
  <2> QED BY <1>10, <2>1
<1> QED BY <1>11 DEF Quote, f, n

\* A literal ends at its first quote that no backslash protects: the loop
\* moves two characters on at a backslash, whatever the second one is.
THEOREM LiteralsAreWhole == Spec => []StringsWhole
<1>1. ASSUME Inv, NEW token, Read(src, token), token.kind = "STRING",
             NEW k \in (token.from + 1)..(token.to - 1), src[k] = "\""
      PROVE  k = token.to - 1 <=> Backslashes(token, k) % 2 = 0
  <2> DEFINE s == token.from
             e == LoopEnd(Spell(src))[s + 1]
  <2>1. src \in Seq(Characters) /\ Len(src) \in Nat
    <3>1. Inv
      BY <1>1, Zenon
    <3> QED BY <3>1, LexerAssumption DEF Inv
  <2>2. s \in 1..(Len(src) + 1) /\ token.to \in s..(Len(src) + 1) /\ Char(src, s) = "\""
        /\ lex_string(src, s).kind = "STRING" /\ token.to = lex_string(src, s).to
    BY <1>1, Zenon DEF Read
  <2>3. s \in 1..Len(src) /\ s + 1 \in 1..(Len(src) + 1)
    <3>1. Char(src, s) # "NUL"
      BY <2>2, Zenon
    <3>2. s \in 1..(Len(src) + 1)
      BY <2>2
    <3>3. s \in Nat /\ (s > Len(src) => Char(src, s) = "NUL")
      BY <2>1, <3>2, CharIs
    <3> QED BY <2>1, <3>1, <3>2, <3>3
  <2>4. src[s] # "\\"
    <3>1. src[s] = Char(src, s)
      BY <2>1, <2>3, CharIs
    <3> QED BY <2>2, <3>1, Zenon
  <2>5. lex_string(src, s) = IF Char(src, e) = "\"" THEN [kind |-> "STRING", to |-> e + 1]
                                                     ELSE [kind |-> "ERROR", to |-> e]
    BY DEF lex_string
  <2> HIDE DEF e
  <2>6. Char(src, e) = "\"" /\ lex_string(src, s).to = e + 1
    <3>1. Char(src, e) = "\""
      <4> SUFFICES ASSUME Char(src, e) # "\"" PROVE FALSE
        OBVIOUS
      <4>1. lex_string(src, s) = [kind |-> "ERROR", to |-> e]
        BY <2>5, Zenon
      <4>2. lex_string(src, s).kind = "ERROR"
        <5>1. [kind |-> "ERROR", to |-> e].kind = "ERROR"
          OBVIOUS
        <5> QED BY <4>1, <5>1, Zenon
      <4> QED BY <2>2, <4>2, Zenon
    <3>2. lex_string(src, s) = [kind |-> "STRING", to |-> e + 1]
      BY <2>5, <3>1, Zenon
    <3>3. [kind |-> "STRING", to |-> e + 1].to = e + 1
      OBVIOUS
    <3> QED BY <3>1, <3>2, <3>3, Zenon
  <2>7. e \in (s + 1)..(Len(src) + 1)
    <3>1. Spell(src) \in Turns(Len(src) + 1)
      BY <2>1, SpellTurns
    <3>2. Len(src) + 1 \in Nat
      BY <2>1
    <3> QED BY <2>3, <3>1, <3>2, LoopEndIs DEF e
  <2>8. token.to - 1 = e
    <3>1. token.to = e + 1
      BY <2>2, <2>6, Zenon
    <3> QED BY <2>1, <2>3, <2>7, <3>1
  <2>9. Run(src, s, s + 1) % 2 = 0
    <3>1. s \in s..Len(src)
      BY <2>1, <2>3
    <3>2. Run(src, s, s + 1) = 0
      BY <2>1, <2>3, <2>4, <3>1, RunIs
    <3> QED BY <3>2
  <2>10. s + 1 \in (s + 1)..(Len(src) + 1)
    BY <2>1, <2>3
  <2>11. \A j \in (s + 1)..e : src[j] = "\"" => (j = e <=> Run(src, s, j) % 2 = 0)
    BY <2>1, <2>3, <2>4, <2>6, <2>9, <2>10, SpellIs, Zenon DEF e
  <2>12. k \in (s + 1)..e
    BY <2>8
  <2>13. Backslashes(token, k) = Run(src, s, k)
    BY DEF Backslashes, Run
  <2> QED BY <1>1, <2>8, <2>11, <2>12, <2>13, Zenon
<1>2. Inv => StringsWhole
  <2> SUFFICES ASSUME Inv, NEW token \in {current, lookahead}, token.kind = "STRING",
                      NEW k \in (token.from + 1)..(token.to - 1), src[k] = "\""
               PROVE  k = token.to - 1 <=> Backslashes(token, k) % 2 = 0
    BY DEF StringsWhole
  <2>1. NoToken.kind # "STRING"
    BY DEF NoToken
  <2>2. Read(src, token)
    BY <2>1 DEF Inv
  <2> QED BY <1>1, <2>2, Zenon
<1> QED BY <1>2, LexerInvariant, PTL

-----------------------------------------------------------------------------
(* The stream of tokens.                                                     *)

\* A token that waits is the next one from the place it was lexed at, and
\* only its own report has been made ahead of time.
Waiting ==
  has_lookahead =>
    /\ lookahead = Scan(src, before.place).token
    /\ at = Scan(src, before.place).place
    /\ reported = before.reported \o Reports(lookahead)

\* Waiting holds at the start, when no token waits.
LEMMA WaitingInit == Init => Waiting
BY DEF Init, lexer_init, Waiting

\* Taking a token and looking at one keep Waiting.
LEMMA WaitingStep == Waiting /\ [Next]_vars => Waiting'
<1> SUFFICES ASSUME Waiting, [Next]_vars PROVE Waiting'
  OBVIOUS
<1> DEFINE next == Scan(src, at)
<1>1. CASE lexer_next
  BY <1>1 DEF lexer_next, Waiting
<1>2. CASE lexer_peek
  <2>1. CASE has_lookahead
    BY <1>2, <2>1 DEF lexer_peek, Waiting
  <2>2. CASE ~has_lookahead
    <3>1. /\ at' = next.place
          /\ reported' = reported \o Reports(next.token)
          /\ lookahead' = next.token
          /\ before' = [place |-> at, reported |-> reported]
          /\ src' = src
      BY <1>2, <2>2 DEF lexer_peek, Lex
    <3>2. before'.place = at /\ before'.reported = reported
      BY <3>1
    <3> QED BY <3>1, <3>2 DEF Waiting
  <2> QED BY <2>1, <2>2
<1>3. CASE UNCHANGED vars
  BY <1>3 DEF vars, Waiting
<1> QED BY <1>1, <1>2, <1>3 DEF Next

\* Before anything is taken the stream is at its start.
LEMMA StreamInit == Init => Stream!Init
BY DEF Init, lexer_init, Stream!Init, SeenPlace, SeenReports

\* lexer_next takes the next token of the stream, lexer_peek only looks.
LEMMA StreamStep == Waiting /\ Waiting' /\ [Next]_vars => [Stream!Next]_(Stream!vars)
<1> SUFFICES ASSUME Waiting, Waiting', [Next]_vars
             PROVE  Stream!Next \/ UNCHANGED Stream!vars
  BY DEF Stream!vars
<1> USE DEF SeenPlace, SeenReports
<1>1. CASE lexer_next /\ has_lookahead
  <2>1. /\ current' = Scan(src, SeenPlace).token
        /\ SeenPlace' = Scan(src, SeenPlace).place
        /\ SeenReports' = SeenReports \o Reports(Scan(src, SeenPlace).token)
        /\ UNCHANGED <<src, shown>>
    BY <1>1 DEF lexer_next, Waiting
  <2> QED BY <2>1 DEF Stream!Next, Stream!Take, Reports, Stream!Reports
<1>2. CASE lexer_next /\ ~has_lookahead
  <2>1. /\ current' = Scan(src, SeenPlace).token
        /\ SeenPlace' = Scan(src, SeenPlace).place
        /\ SeenReports' = SeenReports \o Reports(Scan(src, SeenPlace).token)
        /\ UNCHANGED <<src, shown>>
    BY <1>2 DEF lexer_next, Lex
  <2> QED BY <2>1 DEF Stream!Next, Stream!Take, Reports, Stream!Reports
<1>3. CASE lexer_peek
  <2>1. shown' = Scan(src, SeenPlace).token
    BY <1>3 DEF lexer_peek, Waiting
  <2>2. UNCHANGED <<src, current, SeenPlace, SeenReports>>
    BY <1>3 DEF lexer_peek
  <2> QED BY <2>1, <2>2 DEF Stream!Next, Stream!Look
<1>4. CASE UNCHANGED vars
  BY <1>4 DEF vars, Stream!vars
<1> QED BY <1>1, <1>2, <1>3, <1>4 DEF Next

\* However lexer_next and lexer_peek are mixed, the parser gets the tokens of
\* the text in order, each once, and every bad token is reported once.
THEOREM LexerImplementsStream == Spec => ImplementsStream
<1>1. Init => Waiting /\ Stream!Init
  BY WaitingInit, StreamInit
<1>2. Waiting /\ [Next]_vars => Waiting'
  BY WaitingStep
<1>3. Waiting /\ Waiting' /\ [Next]_vars => [Stream!Next]_(Stream!vars)
  BY StreamStep
<1> QED BY <1>1, <1>2, <1>3, PTL DEF Spec, ImplementsStream, Stream!Spec
=============================================================================
