------------------------- MODULE ExpressionsProofs -------------------------
(***************************************************************************)
(* Theorems about Expressions, with their proofs.                          *)
(*                                                                         *)
(* The machine of CReader is followed piece by piece.  Readable(x) says of *)
(* an expression what the text emit_expr wrote for it makes the machine do *)
(* wherever it stands, by how closely the text holds together, and each    *)
(* operator of the parser makes a readable expression of readable ones.    *)
(* Typed(x) says that its type in C agrees with the one check_expr gave.   *)
(* The text is taken for the tree it was written for only in sources that  *)
(* keep off the constructs in Reshaping; what becomes of each of them TLC  *)
(* shows.                                                                  *)
(***************************************************************************)
EXTENDS Expressions, SequenceTheorems, FiniteSetTheorems, WellFoundedInduction, TLAPS

-----------------------------------------------------------------------------
(* Steps                                                                   *)

\* Every set of numbers that is not empty has a least one.
LEMMA Least ==
  ASSUME NEW S \in SUBSET Nat, S # {}
  PROVE  \E x \in S : \A y \in S : x <= y
<1> DEFINE T == {0..x : x \in S}
<1>1. T \subseteq FiniteSubsetsOf(Nat) /\ T # {}
  <2>1. \A x \in S : IsFiniteSet(0..x)
    BY FS_Interval
  <2>2. \A x \in S : 0..x \in FiniteSubsetsOf(Nat)
    <3> TAKE x \in S
    <3>1. 0..x \in SUBSET Nat
      OBVIOUS
    <3> QED BY <2>1, <3>1 DEF FiniteSubsetsOf
  <2> QED BY <2>2
<1>2. IsWellFoundedOn(StrictSubsetOrdering(Nat), FiniteSubsetsOf(Nat))
  BY FS_StrictSubsetOrderingWellFounded
<1>3. \E t \in T : \A u \in T : ~(<<u, t>> \in StrictSubsetOrdering(Nat))
  <2> HIDE DEF T
  <2> QED BY <1>1, <1>2, WFMin
<1>4. PICK x \in S : \A u \in T : ~(<<u, 0..x>> \in StrictSubsetOrdering(Nat))
  BY <1>3
<1>5. \A y \in S : x <= y
  <2> SUFFICES ASSUME NEW y \in S, y < x PROVE FALSE
    OBVIOUS
  <2>1. 0..y \in T
    OBVIOUS
  <2>2. 0..y \subseteq 0..x /\ 0..y # 0..x
    <3>1. x \in 0..x /\ x \notin 0..y
      OBVIOUS
    <3> QED BY <3>1
  <2>3. 0..y \in SUBSET Nat /\ 0..x \in SUBSET Nat
    OBVIOUS
  <2>4. <<0..y, 0..x>> \in StrictSubsetOrdering(Nat)
    BY <2>2, <2>3 DEF StrictSubsetOrdering
  <2> QED BY <1>4, <2>1, <2>4
<1> QED BY <1>5

\* Induction.
LEMMA Upwards ==
  ASSUME NEW G, 0 \in G, \A k \in Nat : k \in G => k + 1 \in G
  PROVE  \A k \in Nat : k \in G
<1> SUFFICES ASSUME NEW j \in Nat, j \notin G PROVE FALSE
  OBVIOUS
<1> DEFINE B == {k \in Nat : k \notin G}
<1>1. B \in SUBSET Nat /\ B # {}
  OBVIOUS
<1>2. PICK k \in B : \A y \in B : k <= y
  <2> HIDE DEF B
  <2> QED BY <1>1, Least
<1>3. k - 1 \in Nat /\ k - 1 + 1 = k /\ k \notin G
  BY <1>2
<1>4. k - 1 \in G
  BY <1>2, <1>3
<1> QED BY <1>3, <1>4

\* The machine of CReader takes one step after the other.
LEMMA StepsAre ==
  ASSUME NEW c
  PROVE  /\ Steps(c, 0) = c
         /\ \A n \in Nat : Steps(c, n + 1) = Step(Steps(c, n))
<1> DEFINE next(f, k) == IF k = 0 THEN c ELSE Step(f[k - 1])
           Runs(f, n) == f = [k \in 0..n |-> next(f, k)]
           G == {n \in Nat : \E f : Runs(f, n)}
           H(n) == CHOOSE f : Runs(f, n)
           Run(f) == f = [k \in Nat |-> next(f, k)]
<1>1. \A n \in Nat : n \in G
  <2>1. 0 \in G
    <3> DEFINE f == [k \in 0..0 |-> c]
    <3>1. Runs(f, 0)
      OBVIOUS
    <3> QED BY <3>1
  <2>2. ASSUME NEW n \in Nat, n \in G PROVE n + 1 \in G
    <3>1. PICK f : Runs(f, n)
      BY <2>2
    <3> DEFINE m == n + 1
               g == [k \in 0..m |-> IF k = m THEN Step(f[n]) ELSE f[k]]
    <3>2. m \in Nat /\ m - 1 = n /\ n \in 0..m /\ n \in 0..n /\ n # m /\ m # 0
      OBVIOUS
    <3>3. \A k \in 0..n : f[k] = IF k = 0 THEN c ELSE Step(f[k - 1])
      BY <3>1
    <3>4. ASSUME NEW k \in 0..m PROVE g[k] = IF k = 0 THEN c ELSE Step(g[k - 1])
      <4>1. CASE k = m
        <5>1. g[m] = Step(f[n]) /\ g[n] = f[n]
          BY <3>2
        <5> HIDE DEF g, m
        <5> QED BY <3>2, <4>1, <5>1
      <4>2. CASE k # m
        <5>1. k \in 0..n /\ (k # 0 => k - 1 \in 0..n /\ k - 1 \in 0..m /\ k - 1 # m)
          BY <4>2
        <5>2. g[k] = f[k] /\ (k # 0 => g[k - 1] = f[k - 1])
          BY <4>2, <5>1
        <5> HIDE DEF g, m
        <5> QED BY <3>3, <5>1, <5>2
      <4> QED BY <4>1, <4>2
    <3>5. Runs(g, m)
      <4>1. g = [k \in 0..m |-> g[k]]
        OBVIOUS
      <4> HIDE DEF g, m
      <4>2. [k \in 0..m |-> g[k]] = [k \in 0..m |-> next(g, k)]
        BY <3>4
      <4> QED BY <4>1, <4>2
    <3> HIDE DEF g
    <3> QED BY <3>2, <3>5
  <2> HIDE DEF G
  <2> QED BY <2>1, <2>2, Upwards
<1>2. ASSUME NEW n \in Nat
      PROVE  \A k \in 0..n : H(n)[k] = IF k = 0 THEN c ELSE Step(H(n)[k - 1])
  <2>1. \E f : Runs(f, n)
    BY <1>1
  <2>2. Runs(H(n), n)
    <3> HIDE DEF Runs
    <3> QED BY <2>1
  <2> HIDE DEF H
  <2> QED BY <2>2
<1>3. ASSUME NEW n \in Nat, NEW m \in Nat, n <= m
      PROVE  H(m)[n] = H(n)[n]
  <2> DEFINE S == {k \in Nat : k <= n => H(m)[k] = H(n)[k]}
  <2>1. 0 \in S
    <3>1. 0 \in 0..n /\ 0 \in 0..m
      OBVIOUS
    <3> HIDE DEF H
    <3> QED BY <1>2, <3>1
  <2>2. ASSUME NEW k \in Nat, k \in S PROVE k + 1 \in S
    <3> DEFINE i == k + 1
    <3>1. i \in Nat /\ i # 0 /\ i - 1 = k
      OBVIOUS
    <3>2. i <= n => i \in 0..n /\ i \in 0..m /\ k <= n
      BY <1>3
    <3> HIDE DEF H, i
    <3>3. i <= n => H(m)[i] = Step(H(m)[k]) /\ H(n)[i] = Step(H(n)[k])
      BY <1>2, <3>1, <3>2
    <3>4. i <= n => H(m)[i] = H(n)[i]
      BY <2>2, <3>2, <3>3
    <3>5. i \in S
      BY <3>1, <3>4
    <3> QED BY <3>5 DEF i
  <2>3. n \in S
    <3> HIDE DEF S
    <3> QED BY <2>1, <2>2, Upwards
  <2> HIDE DEF H
  <2> QED BY <2>3
<1> DEFINE h == [n \in Nat |-> H(n)[n]]
           run == CHOOSE f : Run(f)
<1>4. ASSUME NEW n \in Nat PROVE h[n] = IF n = 0 THEN c ELSE Step(h[n - 1])
  <2>1. n \in 0..n /\ (n # 0 => n - 1 \in Nat /\ n - 1 <= n)
    OBVIOUS
  <2>2. n # 0 => H(n)[n - 1] = H(n - 1)[n - 1]
    <3> HIDE DEF H
    <3> QED BY <1>3, <2>1
  <2>3. h[n] = H(n)[n] /\ (n # 0 => h[n - 1] = H(n - 1)[n - 1])
    BY <2>1
  <2> HIDE DEF H, h
  <2>4. H(n)[n] = IF n = 0 THEN c ELSE Step(H(n)[n - 1])
    BY <1>2, <2>1
  <2> QED BY <2>2, <2>3, <2>4
<1>5. Run(h)
  <2>1. h = [n \in Nat |-> h[n]]
    OBVIOUS
  <2> HIDE DEF h
  <2>2. [n \in Nat |-> h[n]] = [n \in Nat |-> next(h, n)]
    BY <1>4
  <2> QED BY <2>1, <2>2
<1>6. Run(run)
  <2> HIDE DEF h, Run
  <2> QED BY <1>5
<1>7. \A n \in Nat : run[n] = next(run, n)
  <2> HIDE DEF run
  <2> QED BY <1>6
<1>8. \A n \in Nat : Steps(c, n) = run[n]
  BY DEF Steps
<1>9. \A n \in Nat : n + 1 \in Nat /\ n + 1 # 0 /\ n + 1 - 1 = n
  OBVIOUS
<1> HIDE DEF run
<1> QED BY <1>7, <1>8, <1>9

\* The machine comes from c to d in n steps or fewer.
Reaches(c, d, n) == \E k \in 0..n : Steps(c, k) = d

\* Taking m steps and then n more is taking m + n of them.
LEMMA StepsAdd ==
  ASSUME NEW c, NEW m \in Nat, NEW n \in Nat
  PROVE  Steps(c, m + n) = Steps(Steps(c, m), n)
<1> DEFINE d == Steps(c, m)
           G == {k \in Nat : Steps(c, m + k) = Steps(d, k)}
<1>1. 0 \in G
  <2>1. m + 0 = m /\ Steps(d, 0) = d
    BY StepsAre
  <2> QED BY <2>1
<1>2. ASSUME NEW k \in Nat, k \in G PROVE k + 1 \in G
  <2>1. Steps(c, m + k) = Steps(d, k)
    BY <1>2
  <2> DEFINE i == m + k
  <2>2. i \in Nat /\ m + (k + 1) = i + 1
    OBVIOUS
  <2> HIDE DEF d
  <2>3. Steps(d, k + 1) = Step(Steps(d, k))
    BY StepsAre
  <2>4. Steps(c, i + 1) = Step(Steps(c, i))
    <3> HIDE DEF i
    <3> QED BY <2>2, StepsAre
  <2> QED BY <2>1, <2>2, <2>3, <2>4
<1>3. n \in G
  <2> HIDE DEF G
  <2> QED BY <1>1, <1>2, Upwards
<1> QED BY <1>3

\* One way after the other.
LEMMA ThenReaches ==
  ASSUME NEW c, NEW d, NEW e, NEW m \in Nat, NEW n \in Nat, NEW k \in Nat,
         Reaches(c, d, m), Reaches(d, e, n), m + n <= k
  PROVE  Reaches(c, e, k)
<1>1. PICK i \in 0..m : Steps(c, i) = d
  BY DEF Reaches
<1>2. PICK j \in 0..n : Steps(d, j) = e
  BY DEF Reaches
<1>3. i \in Nat /\ j \in Nat /\ i + j \in 0..k
  OBVIOUS
<1>4. Steps(c, i + j) = e
  BY <1>1, <1>2, <1>3, StepsAdd
<1> QED BY <1>3, <1>4 DEF Reaches

\* One step is reached in one step.
LEMMA OneStep ==
  ASSUME NEW c
  PROVE  Reaches(c, Step(c), 1)
<1>1. Steps(c, 0) = c /\ Steps(c, 0 + 1) = Step(Steps(c, 0))
  BY StepsAre
<1>2. 1 \in 0..1 /\ 0 + 1 = 1
  OBVIOUS
<1> QED BY <1>1, <1>2 DEF Reaches

\* A step and then the rest.
LEMMA StepReaches ==
  ASSUME NEW c, NEW e, NEW n \in Nat, Reaches(Step(c), e, n)
  PROVE  Reaches(c, e, n + 1)
<1>1. 1 + n <= n + 1 /\ n + 1 \in Nat
  OBVIOUS
<1> QED BY <1>1, OneStep, ThenReaches

\* Where two configurations take the same step, they come to the same end.
LEMMA SameStep ==
  ASSUME NEW c, NEW d, NEW e, NEW n \in Nat, Step(c) = Step(d), d # e, Reaches(d, e, n)
  PROVE  Reaches(c, e, n)
<1>1. PICK k \in 0..n : Steps(d, k) = e
  BY DEF Reaches
<1>2. k # 0
  <2>1. Steps(d, 0) = d
    BY StepsAre
  <2> QED BY <1>1, <2>1
<1> DEFINE j == k - 1
<1>3. j \in Nat /\ k = 1 + j /\ 0 + 1 = 1
  BY <1>2
<1>4. Steps(d, 1) = Step(d) /\ Steps(c, 1) = Step(c)
  <2>1. Steps(c, 0) = c /\ Steps(c, 0 + 1) = Step(Steps(c, 0))
    BY StepsAre
  <2>2. Steps(d, 0) = d /\ Steps(d, 0 + 1) = Step(Steps(d, 0))
    BY StepsAre
  <2> QED BY <1>3, <2>1, <2>2
<1> HIDE DEF j
<1>5. Steps(d, 1 + j) = Steps(Steps(d, 1), j) /\ Steps(c, 1 + j) = Steps(Steps(c, 1), j)
  BY <1>3, StepsAdd
<1>6. Steps(c, k) = e
  BY <1>1, <1>3, <1>4, <1>5
<1> QED BY <1>6 DEF Reaches

-----------------------------------------------------------------------------
(* Texts and their first signs                                             *)

Text == Seq(Pieces)

\* Concatenation of texts, which keeps SMT from expanding it.
Cat(a, b) == a \o b

\* Texts are joined to texts, and joining is associative.
LEMMA Concat ==
  ASSUME NEW a \in Text, NEW b \in Text
  PROVE  /\ a \o b \in Text
         /\ Len(a \o b) = Len(a) + Len(b) /\ Len(a) \in Nat /\ Len(b) \in Nat
         /\ \A c \in Text : (a \o b) \o c = a \o (b \o c)
<1>1. Len(a) \in Nat /\ Len(b) \in Nat
  BY DEF Text
<1> QED BY <1>1, ConcatProperties, ConcatAssociative, SMTT(60) DEF Text

\* The same, as it is cited.
LEMMA Assoc ==
  ASSUME NEW a \in Text, NEW b \in Text, NEW c \in Text
  PROVE  (a \o b) \o c = a \o (b \o c)
BY Concat, ZenonT(60)

\* What stands in front of a sequence: its first element, its second, and
\* what is behind.
LEMMA HeadsOf ==
  ASSUME NEW S, NEW p \in S, NEW rest \in Seq(S)
  PROVE  /\ <<p>> \in Seq(S) /\ Len(<<p>>) = 1
         /\ <<p>> \o rest \in Seq(S) /\ <<p>> \o rest # <<>>
         /\ Len(<<p>> \o rest) = 1 + Len(rest) /\ Len(rest) \in Nat
         /\ (<<p>> \o rest)[1] = p
         /\ rest # <<>> => (<<p>> \o rest)[2] = rest[1]
         /\ Tail(<<p>> \o rest) = rest
<1> DEFINE s == <<p>>
           t == s \o rest
           n == Len(rest)
<1>1. s \in Seq(S) /\ Len(s) = 1 /\ s[1] = p
  OBVIOUS
<1>2. n \in Nat /\ (rest # <<>> => 1 <= n)
  OBVIOUS
<1> HIDE DEF s, n
<1>3. /\ t \in Seq(S) /\ Len(t) = 1 + n
      /\ \A i \in 1..(1 + n) : t[i] = IF i <= 1 THEN s[i] ELSE rest[i - 1]
  <2>1. t \in Seq(S) /\ Len(t) = Len(s) + Len(rest) /\ \A i \in 1..(Len(s) + Len(rest)) : t[i]
          = IF i <= Len(s) THEN s[i] ELSE rest[i - Len(s)]
    BY <1>1, ConcatProperties
  <2> QED BY <1>1, <2>1 DEF n
<1> HIDE DEF t
<1>4. t # <<>>
  BY <1>2, <1>3
<1>5. t[1] = p /\ (rest # <<>> => t[2] = rest[1])
  <2>1. 1 \in 1..(1 + n) /\ (rest # <<>> => 2 \in 1..(1 + n))
    BY <1>2
  <2> QED BY <1>1, <1>3, <2>1
<1>6. Tail(t) = rest
  <2>1. Tail(t) \in Seq(S) /\ Len(Tail(t)) = n /\ \A i \in 1..n : Tail(t)[i] = t[i + 1]
    BY <1>2, <1>3, <1>4, HeadTailProperties
  <2>2. \A i \in 1..n : t[i + 1] = rest[i]
    BY <1>2, <1>3
  <2>3. \A i \in 1..n : Tail(t)[i] = rest[i]
    BY <2>1, <2>2
  <2> QED BY <1>2, <2>1, <2>3, SeqEqual DEF n
<1> QED BY <1>1, <1>2, <1>3, <1>4, <1>5, <1>6 DEF t, s, n

\* Two elements are one and then another.
LEMMA PairOf ==
  ASSUME NEW S, NEW p \in S, NEW q \in S
  PROVE  <<p, q>> \in Seq(S) /\ Len(<<p, q>>) = 2 /\ <<p, q>> = <<p>> \o <<q>>
<1> DEFINE u == <<p, q>>
           t == <<q>>
           v == <<p>> \o t
<1>1. u \in Seq(S) /\ Len(u) = 2 /\ u[1] = p /\ u[2] = q
  OBVIOUS
<1>2. t \in Seq(S) /\ Len(t) = 1 /\ t[1] = q /\ t # <<>>
  OBVIOUS
<1> HIDE DEF t, u
<1>3. v \in Seq(S) /\ Len(v) = 2 /\ v[1] = p /\ v[2] = q
  BY <1>2, HeadsOf
<1> HIDE DEF v
<1>4. u = v
  <2>1. \A i \in 1..2 : u[i] = v[i]
    BY <1>1, <1>3
  <2> QED BY <1>1, <1>3, <2>1, SeqEqual
<1> QED BY <1>1, <1>4 DEF u, v, t

\* What a text that begins with a given piece is made of.
LEMMA Heads ==
  ASSUME NEW p \in Pieces, NEW rest \in Text
  PROVE  /\ <<p>> \in Text /\ Len(<<p>>) = 1
         /\ <<p>> \o rest \in Text /\ <<p>> \o rest # <<>>
         /\ Len(<<p>> \o rest) = 1 + Len(rest) /\ Len(rest) \in Nat
         /\ (<<p>> \o rest)[1] = p
         /\ rest # <<>> => (<<p>> \o rest)[2] = rest[1]
         /\ Tail(<<p>> \o rest) = rest
<1> DEFINE S == Pieces
<1>1. p \in S /\ rest \in Seq(S)
  BY DEF Text
<1> HIDE DEF S
<1> QED BY <1>1, HeadsOf DEF Text, S

\* A text that begins with two given pieces.
LEMMA TwoPieces ==
  ASSUME NEW p \in Pieces, NEW q \in Pieces, NEW rest \in Text
  PROVE  <<p, q>> \in Text /\ Len(<<p, q>>) = 2 /\ <<p, q>> \o rest = <<p>> \o (<<q>> \o rest)
<1> DEFINE S == Pieces
           s == <<p>>
           t == <<q>>
           u == <<p, q>>
<1>1. p \in S /\ q \in S
  OBVIOUS
<1> HIDE DEF S
<1>2. u \in Seq(S) /\ Len(u) = 2 /\ u = s \o t
  BY <1>1, PairOf
<1> HIDE DEF u
<1>3. s \in Text /\ t \in Text
  BY Heads
<1> HIDE DEF s, t
<1>4. (s \o t) \o rest = s \o (t \o rest)
  BY <1>3, Concat, ZenonT(60)
<1> QED BY <1>2, <1>4 DEF s, t, u, Text, S

\* The pieces with names of their own are none of the others.
LEMMA PiecesDiffer ==
  /\ \A p \in {Space, Quote, Comma, Cast} :
       p \notin {"(", ")", "[", "]", ".", "=", "+", "-", "*", "/", "%", "<", ">", "!", "~", "&", "|",
                "'", "\\", "\n", "\t", "n", "t", "s", "l", "d", "g", "0", "1", "NULL", "printf"}
  /\ Space \notin {Quote, Comma, Cast} /\ Quote \notin {Comma, Cast, Space}
       /\ Comma \notin {Cast, Space, Quote}
  /\ Cast \notin {Space, Quote, Comma}
BY Zenon DEF Space, Quote, Comma, Cast

\* A piece that begins no longer sign.
Alone(p) == \A q : <<p, q>> \notin Pairs

\* A piece that begins none of the longer signs.
LEMMA AloneAre ==
  ASSUME NEW p, p \notin {"+", "-", "&", "|", "=", "!", "<", ">"}
  PROVE  Alone(p)
BY DEF Alone, Pairs

\* The sign is one piece where the next one does not belong to it.
LEMMA SignIs ==
  ASSUME NEW p \in Pieces, NEW rest \in Text, rest = <<>> \/ <<p, rest[1]>> \notin Pairs
  PROVE  Sign(<<p>> \o rest) = <<p>> /\ Behind(<<p>> \o rest) = rest
<1> DEFINE t == <<p>> \o rest
<1>1. t # <<>> /\ Len(t) = 1 + Len(rest) /\ t[1] = p /\ Tail(t) = rest /\ Len(rest) \in Nat
      /\ (rest # <<>> => t[2] = rest[1])
  BY Heads
<1>2. rest = <<>> => Len(t) = 1
  BY <1>1
<1> HIDE DEF t
<1>4. ~IsPair(t)
  <2>1. CASE rest = <<>>
    <3>1. Len(t) = 1
      BY <1>2, <2>1
    <3>2. ~(Len(t) > 1)
      BY <3>1
    <3> QED BY <3>2, Zenon DEF IsPair
  <2>2. CASE rest # <<>>
    <3>1. <<t[1], t[2]>> = <<p, rest[1]>>
      BY <1>1, <2>2
    <3>2. <<t[1], t[2]>> \notin Pairs
      BY <2>2, <3>1
    <3> QED BY <3>2 DEF IsPair
  <2> QED BY <2>1, <2>2
<1>5. Sign(t) = <<t[1]>>
  BY <1>1, <1>4 DEF Sign
<1> QED BY <1>1, <1>4, <1>5 DEF Behind, t

\* It is one piece whatever follows if no longer sign begins with it.
LEMMA SignAlone ==
  ASSUME NEW p \in Pieces, NEW rest \in Text, Alone(p)
  PROVE  Sign(<<p>> \o rest) = <<p>> /\ Behind(<<p>> \o rest) = rest
BY SignIs DEF Alone

\* It is two pieces where they are one of the pairs.
LEMMA SignPair ==
  ASSUME NEW p \in Pieces, NEW q \in Pieces, NEW rest \in Text, <<p, q>> \in Pairs
  PROVE  /\ Sign(<<p, q>> \o rest) = <<p, q>> /\ Behind(<<p, q>> \o rest) = rest
         /\ <<p, q>> \o rest \in Text
         /\ (<<p, q>> \o rest)[1] = p /\ <<p, q>> \o rest # <<>>
<1> DEFINE u == <<q>> \o rest
           t == <<p>> \o u
<1>1. <<p, q>> \o rest = t
  BY TwoPieces
<1>2. u \in Text /\ u[1] = q /\ Tail(u) = rest /\ Len(u) = 1 + Len(rest) /\ Len(rest) \in Nat
        /\ u # <<>>
  BY Heads
<1> HIDE DEF u
<1>4. t \in Text /\ t # <<>> /\ t[1] = p /\ t[2] = q /\ Tail(t) = u /\ Len(t) = 1 + Len(u)
  BY <1>2, Heads
<1> HIDE DEF t
<1>5. IsPair(t)
  BY <1>2, <1>4 DEF IsPair
<1>6. Sign(t) = <<t[1], t[2]>>
  BY <1>4, <1>5 DEF Sign
<1> QED BY <1>1, <1>2, <1>4, <1>5, <1>6 DEF Behind

\* Where an operand can be read.
Open(frames) == ~IsTop(frames, "string") /\ ~IsTop(frames, ".")

\* How a text begins is its first piece.
LEMMA BeginsWith ==
  ASSUME NEW p \in Pieces, NEW rest \in Text
  PROVE  /\ \A q : Begins(<<p>> \o rest, q) <=> p = q
         /\ IsWord(<<p>> \o rest) <=> p \notin Marks
<1> DEFINE t == <<p>> \o rest
<1>1. t # <<>> /\ t[1] = p
  BY Heads
<1> HIDE DEF t
<1>2. \A q : Begins(t, q) <=> p = q
  BY <1>1 DEF Begins
<1>3. IsWord(t) <=> p \notin Marks
  BY <1>1 DEF IsWord
<1> QED BY <1>2, <1>3 DEF t

\* Skip takes one space away, if there is one.
LEMMA SkipIs ==
  ASSUME NEW t
  PROVE  /\ ~Begins(t, Space) => Skip(t) = t
         /\ \A rest \in Text : Skip(<<Space>> \o rest) = rest
<1>1. ~Begins(t, Space) => Skip(t) = t
  BY DEF Skip
<1>2. ASSUME NEW rest \in Text PROVE Skip(<<Space>> \o rest) = rest
  <2> DEFINE u == <<Space>> \o rest
  <2>0. Space \in Pieces
    BY ExpressionsAssumption DEF Marks
  <2>1. Begins(u, Space) /\ Tail(u) = rest
    BY <2>0, Heads, BeginsWith
  <2> HIDE DEF u
  <2>2. Skip(u) = rest
    BY <2>1 DEF Skip
  <2> QED BY <2>2 DEF u
<1> QED BY <1>1, <1>2

\* Where an operand is due the machine looks behind the space.
LEMMA OperandOf ==
  ASSUME NEW F, ~IsTop(F, "string"), NEW t
  PROVE  Step(Config(F, <<>>, t)) = OperandStep(F, Skip(t))
<1> DEFINE c == Config(F, <<>>, t)
<1>1. c.frames = F /\ c.value = <<>> /\ c.text = t
  BY DEF Config
<1> HIDE DEF c
<1>2. ~IsTop(c.frames, "string")
  BY <1>1
<1>3. Step(c) = OperandStep(c.frames, Skip(c.text))
  BY <1>1, <1>2, SMT DEF Step
<1> QED BY <1>1, <1>3 DEF c

\* Where an operator may follow, it asks for one.
LEMMA OperatorOf ==
  ASSUME NEW F, ~IsTop(F, "string"), NEW v, NEW t
  PROVE  Step(Config(F, <<v>>, t)) = OperatorStep(F, v, t)
<1> DEFINE c == Config(F, <<v>>, t)
<1>1. c.frames = F /\ c.value = <<v>> /\ c.text = t
  BY DEF Config
<1>2. <<v>> # <<>> /\ <<v>>[1] = v
  OBVIOUS
<1> HIDE DEF c
<1>3. c.value # <<>> /\ c.value[1] = v /\ ~IsTop(c.frames, "string")
  BY <1>1, <1>2
<1>4. Step(c) = OperatorStep(c.frames, c.value[1], c.text)
  BY <1>3, SMT DEF Step
<1> QED BY <1>1, <1>3, <1>4 DEF c

-----------------------------------------------------------------------------
(* What one step reads                                                     *)

\* The marks are pieces.
LEMMA MarksArePieces == Marks \subseteq Pieces
BY ExpressionsAssumption

\* A name or a number begins no sign.
LEMMA PieceSign ==
  ASSUME NEW p, p \notin Marks
  PROVE  /\ PrefixOp(<<p>>) = "none" /\ Alone(p)
         /\ p \notin {"(", Quote, "'", ")", Space}
<1>1. p \notin {"(", Quote, "'", ")", Space} /\ Alone(p)
  BY AloneAre DEF Marks
<1>2. PrefixOp(<<p>>) = "none"
  <2>1. /\ <<p>> # <<"-">> /\ <<p>> # <<"!">> /\ <<p>> # <<"~">> /\ <<p>> # <<"&">> /\ <<p>> # <<"*">>
        /\ <<p>> # <<Cast>>
    BY DEF Marks
  <2>2. <<p>> # <<"+", "+">> /\ <<p>> # <<"-", "-">>
    OBVIOUS
  <2> QED BY <2>1, <2>2 DEF PrefixOp
<1> QED BY <1>1, <1>2

\* A bracket, a comma, a dot and a quote are signs of their own, and no
\* operators.
LEMMA BracketSign ==
  ASSUME NEW p, p \in {"(", ")", "[", "]", Comma, ".", Quote, "'"}
  PROVE  /\ PrefixOp(<<p>>) = "none" /\ PostfixOp(<<p>>) = "none" /\ BinaryOp(<<p>>) = "none"
         /\ Alone(p) /\ p \in Pieces /\ p \in Marks /\ p # Space
<1>1. Alone(p) /\ p \in Pieces /\ p \in Marks /\ p # Space
  BY AloneAre, MarksArePieces, PiecesDiffer DEF Marks
<1>2. \A q, r : <<p>> # <<q, r>>
  OBVIOUS
<1>3. p \notin {"-", "!", "~", "&", "*", Cast, "<", ">", "+", "/", "%"}
  BY PiecesDiffer
<1>4. \A q \in {"-", "!", "~", "&", "*", Cast, "<", ">", "+", "/", "%"} : <<p>> # <<q>>
  BY <1>3
<1>5. PrefixOp(<<p>>) = "none"
  BY <1>2, <1>4 DEF PrefixOp
<1>6. PostfixOp(<<p>>) = "none"
  BY <1>2, <1>4 DEF PostfixOp
<1>7. BinaryOp(<<p>>) = "none"
  BY <1>2, <1>4 DEF BinaryOp
<1> QED BY <1>1, <1>5, <1>6, <1>7

\* A name or a number is an operand.
LEMMA TakePiece ==
  ASSUME NEW F, Open(F), NEW p \in Pieces, p \notin Marks, NEW rest \in Text
  PROVE  Step(Config(F, <<>>, <<p>> \o rest)) = Config(F, <<c_leaf(Operand(p))>>, rest)
<1> DEFINE t == <<p>> \o rest
<1>1. t[1] = p /\ Tail(t) = rest
  BY Heads
<1>2. Sign(t) = <<p>>
  BY PieceSign, SignAlone
<1>3. /\ ~Begins(t, Space) /\ ~Begins(t, "(") /\ ~Begins(t, Quote) /\ ~Begins(t, "'") /\ ~Begins(t, ")")
      /\ IsWord(t)
  BY PieceSign, BeginsWith
<1> HIDE DEF t
<1>4. Skip(t) = t /\ PrefixOp(Sign(t)) = "none" /\ ~IsTop(F, ".") /\ ~IsTop(F, "string")
  BY <1>2, <1>3, PieceSign, SkipIs DEF Open
<1>5. ~IsCharacter(t)
  BY <1>3 DEF IsCharacter
<1>6. OperandStep(F, t) = Config(F, <<c_leaf(Operand(t[1]))>>, Tail(t))
  BY <1>3, <1>4, <1>5, SMT DEF OperandStep
<1>7. Step(Config(F, <<>>, t)) = OperandStep(F, t)
  BY <1>4, OperandOf
<1> QED BY <1>1, <1>6, <1>7 DEF t

\* A prefix operator waits for its operand.
LEMMA TakePrefix ==
  ASSUME NEW F, Open(F), NEW t, ~Begins(t, Space), PrefixOp(Sign(t)) # "none"
  PROVE  Step(Config(F, <<>>, t))
           = Config(<<Frame("prefix", PrefixOp(Sign(t)), <<>>), F>>, <<>>, Behind(t))
<1>1. Skip(t) = t /\ ~IsTop(F, "string") /\ ~IsTop(F, ".")
  BY SkipIs DEF Open
<1>2. Step(Config(F, <<>>, t)) = OperandStep(F, t)
  BY <1>1, OperandOf
<1>3. OperandStep(F, t) = Config(<<Frame("prefix", PrefixOp(Sign(t)), <<>>), F>>, <<>>, Behind(t))
  BY <1>1, SMT DEF OperandStep
<1> QED BY <1>2, <1>3

\* A parenthesis waits for what is inside.
LEMMA TakeParenthesis ==
  ASSUME NEW F, Open(F), NEW rest \in Text
  PROVE  Step(Config(F, <<>>, <<"(">> \o rest)) = Config(<<Frame("(", "none", <<>>), F>>, <<>>, rest)
<1> DEFINE t == <<"(">> \o rest
<1>0. "(" \in Pieces
  BY BracketSign
<1>1. Begins(t, "(") /\ ~Begins(t, Space) /\ Tail(t) = rest
  BY <1>0, Heads, BeginsWith, PiecesDiffer
<1>2. PrefixOp(Sign(t)) = "none"
  BY BracketSign, SignAlone
<1> HIDE DEF t
<1>3. Skip(t) = t /\ ~IsTop(F, "string") /\ ~IsTop(F, ".")
  BY <1>1, SkipIs DEF Open
<1>4. Step(Config(F, <<>>, t)) = OperandStep(F, t)
  BY <1>3, OperandOf
<1>5. OperandStep(F, t) = Config(<<Frame("(", "none", <<>>), F>>, <<>>, Tail(t))
  BY <1>1, <1>2, <1>3, SMT DEF OperandStep
<1> QED BY <1>1, <1>4, <1>5 DEF t

\* A quote begins a string literal.
LEMMA TakeQuote ==
  ASSUME NEW F, Open(F), NEW rest \in Text
  PROVE  Step(Config(F, <<>>, <<Quote>> \o rest))
           = Config(<<Frame("string", "none", <<>>), F>>, <<>>, rest)
<1> DEFINE t == <<Quote>> \o rest
<1>0. Quote \in Pieces
  BY BracketSign
<1>1. Begins(t, Quote) /\ ~Begins(t, Space) /\ ~Begins(t, "(") /\ Tail(t) = rest
  BY <1>0, Heads, BeginsWith, PiecesDiffer
<1>2. PrefixOp(Sign(t)) = "none"
  BY BracketSign, SignAlone
<1> HIDE DEF t
<1>3. Skip(t) = t /\ ~IsTop(F, "string") /\ ~IsTop(F, ".")
  BY <1>1, SkipIs DEF Open
<1>4. Step(Config(F, <<>>, t)) = OperandStep(F, t)
  BY <1>3, OperandOf
<1>5. OperandStep(F, t) = Config(<<Frame("string", "none", <<>>), F>>, <<>>, Tail(t))
  BY <1>1, <1>2, <1>3, SMT DEF OperandStep
<1> QED BY <1>1, <1>4, <1>5 DEF t

\* A character literal as emit_literal writes it is an operand.
LEMMA TakeCharacter ==
  ASSUME NEW F, Open(F), NEW p \in Pieces, p \notin {"'", "\\", "\n"}, NEW rest \in Text
  PROVE  Step(Config(F, <<>>, <<"'">> \o (<<p>> \o (<<"'">> \o rest))))
           = Config(F, <<c_leaf(expr_char(p))>>, rest)
<1> DEFINE v == <<"'">> \o rest
           u == <<p>> \o v
           t == <<"'">> \o u
<1>0. "'" \in Pieces
  BY BracketSign
<1>1. v # <<>> /\ v[1] = "'" /\ Tail(v) = rest /\ v \in Text /\ Len(v) = 1 + Len(rest)
        /\ Len(rest) \in Nat
  BY <1>0, Heads
<1> HIDE DEF v
<1>2. u # <<>> /\ u[1] = p /\ u[2] = "'" /\ Tail(u) = v /\ u \in Text /\ Len(u) = 1 + Len(v)
  BY <1>1, Heads
<1> HIDE DEF u
<1>3. t # <<>> /\ t[1] = "'" /\ t[2] = p /\ Tail(t) = u /\ t \in Text /\ Len(t) = 1 + Len(u)
  BY <1>0, <1>2, Heads
<1>3a. Begins(t, "'") /\ ~Begins(t, Space) /\ ~Begins(t, "(") /\ ~Begins(t, Quote)
  BY <1>0, <1>2, BeginsWith, PiecesDiffer
<1>4. PrefixOp(Sign(t)) = "none"
  BY <1>2, BracketSign, SignAlone
<1> HIDE DEF t
<1>5. t[3] = "'"
  <2>1. t[3] = Tail(t)[2]
    BY <1>1, <1>2, <1>3, HeadTailProperties DEF Text
  <2> QED BY <1>2, <1>3, <2>1
<1>6. IsCharacter(t)
  <2>1. Len(t) > 2
    BY <1>1, <1>2, <1>3
  <2>2. t[2] \notin {"'", "\\", "\n"}
    BY <1>3
  <2> QED BY <1>3a, <1>5, <2>1, <2>2 DEF IsCharacter
<1>7. Skip(t) = t /\ ~IsTop(F, "string") /\ ~IsTop(F, ".")
  BY <1>3a, SkipIs DEF Open
<1>8. Step(Config(F, <<>>, t)) = OperandStep(F, t)
  BY <1>7, OperandOf
<1>9. OperandStep(F, t) = Config(F, <<c_leaf(expr_char(t[2]))>>, Tail(Tail(Tail(t))))
  BY <1>3a, <1>4, <1>6, <1>7, SMT DEF OperandStep
<1> QED BY <1>1, <1>2, <1>3, <1>8, <1>9 DEF t, u, v

\* What a frame says.
LEMMA FrameIs ==
  ASSUME NEW kind, NEW op, NEW left
  PROVE  /\ Frame(kind, op, left).kind = kind /\ Frame(kind, op, left).op = op
         /\ Frame(kind, op, left).left = left
BY DEF Frame

\* What the machine sees of the frames: the innermost.
LEMMA TopIs ==
  ASSUME NEW f, NEW below
  PROVE  /\ <<f, below>>[1] = f /\ <<f, below>>[2] = below
         /\ Level(<<f, below>>) = FrameLevel(f)
         /\ \A kind : IsTop(<<f, below>>, kind) <=> f.kind = kind
<1> DEFINE F == <<f, below>>
<1>1. F # <<>> /\ F[1] = f /\ F[2] = below
  OBVIOUS
<1> HIDE DEF F
<1>2. Level(F) = FrameLevel(F[1])
  BY <1>1 DEF Level
<1>3. \A kind : IsTop(F, kind) <=> F[1].kind = kind
  BY <1>1 DEF IsTop
<1> QED BY <1>1, <1>2, <1>3 DEF F

\* Behind a dot the name of a field is read.
LEMMA TakeMember ==
  ASSUME NEW below, NEW v, NEW m \in Pieces, m \notin Marks, NEW rest \in Text
  PROVE  Step(Config(<<Frame(".", "none", v), below>>, <<>>, <<m>> \o rest))
           = Config(below, <<c_member(v, m)>>, rest)
<1> DEFINE t == <<m>> \o rest
           f == Frame(".", "none", v)
           F == <<f, below>>
<1>1. t[1] = m /\ Tail(t) = rest
  BY Heads
<1>2. IsWord(t) /\ ~Begins(t, Space)
  BY BeginsWith, PieceSign
<1>3. f.kind = "." /\ f.left = v
  BY FrameIs
<1> HIDE DEF t, f
<1>4. F[1] = f /\ F[2] = below /\ IsTop(F, ".") /\ ~IsTop(F, "string")
  BY <1>3, TopIs
<1> HIDE DEF F
<1>5. Step(Config(F, <<>>, t)) = OperandStep(F, t)
  BY <1>2, <1>4, SkipIs, OperandOf
<1>6. OperandStep(F, t) = Config(F[2], <<c_member(F[1].left, t[1])>>, Tail(t))
  BY <1>2, <1>4, SMT DEF OperandStep
<1> QED BY <1>1, <1>3, <1>4, <1>5, <1>6 DEF t, f, F

\* What ends an operand is no operator, and binds weakest but for nothing
\* at all.
LEMMA BracketLevels ==
  /\ SignLevel(<<>>) = 1 /\ SignLevel(<<")">>) = 1 /\ SignLevel(<<"]">>) = 1 /\ SignLevel(<<Comma>>) = 1
  /\ \A s \in {<<>>, <<")">>, <<"]">>, <<Comma>>} : BinaryOp(s) = "none" /\ PostfixOp(s) = "none"
<1>1. <<")">> \in {<<>>, <<")">>, <<"]">>, <<Comma>>}
  OBVIOUS
<1>2. \A s \in {<<>>, <<")">>, <<"]">>, <<Comma>>} : BinaryOp(s) = "none" /\ PostfixOp(s) = "none"
        /\ s # <<"=">>
  <2>1. \A p \in {")", "]", Comma} : BinaryOp(<<p>>) = "none" /\ PostfixOp(<<p>>) = "none" /\ p # "="
    BY BracketSign, PiecesDiffer
  <2>2. BinaryOp(<<>>) = "none" /\ PostfixOp(<<>>) = "none"
    BY DEF BinaryOp, PostfixOp
  <2> QED BY <2>1, <2>2
<1>3. \A s \in {<<>>, <<")">>, <<"]">>, <<Comma>>} : SignLevel(s) = 1
  BY <1>2 DEF SignLevel
<1> QED BY <1>2, <1>3

\* What emit_binop writes is read as that operator, and as none of the
\* others.
LEMMA BinarySigns ==
  ASSUME NEW op \in DOMAIN Binaries
  PROVE  /\ BinaryOp(Binaries[op]) = op /\ op # "none" /\ PostfixOp(Binaries[op]) = "none"
         /\ Binaries[op] \notin {<<".">>, <<"[">>, <<"(">>}
         /\ Binaries[op] \notin {<<>>, <<")">>, <<"]">>, <<Comma>>}
         /\ Precedence(op) \in 2..7
<1>1. CASE op = "ADD"
  <2>1. Binaries[op] = <<"+">>
    BY <1>1 DEF Binaries
  <2>2. BinaryOp(<<"+">>) = "ADD" /\ PostfixOp(<<"+">>) = "none"
    BY DEF BinaryOp, PostfixOp
  <2>3. Precedence("ADD") = 6
    BY DEF Precedence
  <2>4. <<"+">> # <<Comma>>
    BY PiecesDiffer
  <2> QED BY <1>1, <2>1, <2>2, <2>3, <2>4
<1>2. CASE op = "SUB"
  <2>1. Binaries[op] = <<"-">>
    BY <1>2 DEF Binaries
  <2>2. BinaryOp(<<"-">>) = "SUB" /\ PostfixOp(<<"-">>) = "none"
    BY DEF BinaryOp, PostfixOp
  <2>3. Precedence("SUB") = 6
    BY DEF Precedence
  <2>4. <<"-">> # <<Comma>>
    BY PiecesDiffer
  <2> QED BY <1>2, <2>1, <2>2, <2>3, <2>4
<1>3. CASE op = "MUL"
  <2>1. Binaries[op] = <<"*">>
    BY <1>3 DEF Binaries
  <2>2. BinaryOp(<<"*">>) = "MUL" /\ PostfixOp(<<"*">>) = "none"
    BY DEF BinaryOp, PostfixOp
  <2>3. Precedence("MUL") = 7
    BY DEF Precedence
  <2>4. <<"*">> # <<Comma>>
    BY PiecesDiffer
  <2> QED BY <1>3, <2>1, <2>2, <2>3, <2>4
<1>4. CASE op = "DIV"
  <2>1. Binaries[op] = <<"/">>
    BY <1>4 DEF Binaries
  <2>2. BinaryOp(<<"/">>) = "DIV" /\ PostfixOp(<<"/">>) = "none"
    BY DEF BinaryOp, PostfixOp
  <2>3. Precedence("DIV") = 7
    BY DEF Precedence
  <2>4. <<"/">> # <<Comma>>
    BY PiecesDiffer
  <2> QED BY <1>4, <2>1, <2>2, <2>3, <2>4
<1>5. CASE op = "MOD"
  <2>1. Binaries[op] = <<"%">>
    BY <1>5 DEF Binaries
  <2>2. BinaryOp(<<"%">>) = "MOD" /\ PostfixOp(<<"%">>) = "none"
    BY DEF BinaryOp, PostfixOp
  <2>3. Precedence("MOD") = 7
    BY DEF Precedence
  <2>4. <<"%">> # <<Comma>>
    BY PiecesDiffer
  <2> QED BY <1>5, <2>1, <2>2, <2>3, <2>4
<1>6. CASE op = "EQ"
  <2>1. Binaries[op] = <<"=", "=">>
    BY <1>6 DEF Binaries
  <2>2. BinaryOp(<<"=", "=">>) = "EQ" /\ PostfixOp(<<"=", "=">>) = "none"
    BY DEF BinaryOp, PostfixOp
  <2>3. Precedence("EQ") = 4
    BY DEF Precedence
  <2>4. <<"=", "=">> # <<Comma>>
    BY PiecesDiffer
  <2> QED BY <1>6, <2>1, <2>2, <2>3, <2>4
<1>7. CASE op = "NE"
  <2>1. Binaries[op] = <<"!", "=">>
    BY <1>7 DEF Binaries
  <2>2. BinaryOp(<<"!", "=">>) = "NE" /\ PostfixOp(<<"!", "=">>) = "none"
    BY DEF BinaryOp, PostfixOp
  <2>3. Precedence("NE") = 4
    BY DEF Precedence
  <2>4. <<"!", "=">> # <<Comma>>
    BY PiecesDiffer
  <2> QED BY <1>7, <2>1, <2>2, <2>3, <2>4
<1>8. CASE op = "LT"
  <2>1. Binaries[op] = <<"<">>
    BY <1>8 DEF Binaries
  <2>2. BinaryOp(<<"<">>) = "LT" /\ PostfixOp(<<"<">>) = "none"
    BY DEF BinaryOp, PostfixOp
  <2>3. Precedence("LT") = 5
    BY DEF Precedence
  <2>4. <<"<">> # <<Comma>>
    BY PiecesDiffer
  <2> QED BY <1>8, <2>1, <2>2, <2>3, <2>4
<1>9. CASE op = "GT"
  <2>1. Binaries[op] = <<">">>
    BY <1>9 DEF Binaries
  <2>2. BinaryOp(<<">">>) = "GT" /\ PostfixOp(<<">">>) = "none"
    BY DEF BinaryOp, PostfixOp
  <2>3. Precedence("GT") = 5
    BY DEF Precedence
  <2>4. <<">">> # <<Comma>>
    BY PiecesDiffer
  <2> QED BY <1>9, <2>1, <2>2, <2>3, <2>4
<1>10. CASE op = "LE"
  <2>1. Binaries[op] = <<"<", "=">>
    BY <1>10 DEF Binaries
  <2>2. BinaryOp(<<"<", "=">>) = "LE" /\ PostfixOp(<<"<", "=">>) = "none"
    BY DEF BinaryOp, PostfixOp
  <2>3. Precedence("LE") = 5
    BY DEF Precedence
  <2>4. <<"<", "=">> # <<Comma>>
    BY PiecesDiffer
  <2> QED BY <1>10, <2>1, <2>2, <2>3, <2>4
<1>11. CASE op = "GE"
  <2>1. Binaries[op] = <<">", "=">>
    BY <1>11 DEF Binaries
  <2>2. BinaryOp(<<">", "=">>) = "GE" /\ PostfixOp(<<">", "=">>) = "none"
    BY DEF BinaryOp, PostfixOp
  <2>3. Precedence("GE") = 5
    BY DEF Precedence
  <2>4. <<">", "=">> # <<Comma>>
    BY PiecesDiffer
  <2> QED BY <1>11, <2>1, <2>2, <2>3, <2>4
<1>12. CASE op = "AND"
  <2>1. Binaries[op] = <<"&", "&">>
    BY <1>12 DEF Binaries
  <2>2. BinaryOp(<<"&", "&">>) = "AND" /\ PostfixOp(<<"&", "&">>) = "none"
    BY DEF BinaryOp, PostfixOp
  <2>3. Precedence("AND") = 3
    BY DEF Precedence
  <2>4. <<"&", "&">> # <<Comma>>
    BY PiecesDiffer
  <2> QED BY <1>12, <2>1, <2>2, <2>3, <2>4
<1>13. CASE op = "OR"
  <2>1. Binaries[op] = <<"|", "|">>
    BY <1>13 DEF Binaries
  <2>2. BinaryOp(<<"|", "|">>) = "OR" /\ PostfixOp(<<"|", "|">>) = "none"
    BY DEF BinaryOp, PostfixOp
  <2>3. Precedence("OR") = 2
    BY DEF Precedence
  <2>4. <<"|", "|">> # <<Comma>>
    BY PiecesDiffer
  <2> QED BY <1>13, <2>1, <2>2, <2>3, <2>4
<1> QED BY <1>1, <1>2, <1>3, <1>4, <1>5, <1>6, <1>7, <1>8, <1>9, <1>10, <1>11, <1>12, <1>13 DEF Binaries

\* The sign of an assignment is no other operator.
LEMMA EqualSign ==
  /\ SignLevel(<<"=">>) = 8 /\ BinaryOp(<<"=">>) = "none" /\ PostfixOp(<<"=">>) = "none"
  /\ <<"=">> \notin {<<>>, <<")">>, <<"]">>, <<Comma>>}
<1>1. BinaryOp(<<"=">>) = "none" /\ PostfixOp(<<"=">>) = "none"
  BY DEF BinaryOp, PostfixOp
<1>2. <<"=">> \notin {<<>>, <<")">>, <<"]">>, <<Comma>>}
  BY PiecesDiffer
<1>3. SignLevel(<<"=">>) = 8
  BY <1>1, <1>2 DEF SignLevel
<1> QED BY <1>1, <1>2, <1>3

\* What binds closer than any prefix.
LEMMA Strong ==
  ASSUME NEW s, SignLevel(s) <= 8
  PROVE  PostfixOp(s) = "none" /\ s # <<".">> /\ s # <<"[">> /\ s # <<"(">>
<1>1. \A p \in {".", "[", "("} : SignLevel(<<p>>) = 9
  <2> TAKE p \in {".", "[", "("}
  <2>1. BinaryOp(<<p>>) = "none"
    BY BracketSign
  <2>2. <<p>> \notin {<<>>, <<")">>, <<"]">>, <<Comma>>} /\ <<p>> # <<"=">>
    <3>1. p # ")" /\ p # "]" /\ p # Comma /\ p # "="
      BY PiecesDiffer
    <3> QED BY <3>1
  <2> QED BY <2>1, <2>2 DEF SignLevel
<1>2. \A t \in {<<"+", "+">>, <<"-", "-">>} : SignLevel(t) = 9
  <2> TAKE t \in {<<"+", "+">>, <<"-", "-">>}
  <2>1. BinaryOp(t) = "none"
    BY DEF BinaryOp
  <2>2. t \notin {<<>>, <<")">>, <<"]">>, <<Comma>>} /\ t # <<"=">>
    OBVIOUS
  <2> QED BY <2>1, <2>2 DEF SignLevel
<1>3. PostfixOp(s) # "none" => s \in {<<"+", "+">>, <<"-", "-">>}
  BY DEF PostfixOp
<1>4. ~(9 <= 8)
  OBVIOUS
<1>5. PostfixOp(s) = "none"
  BY <1>2, <1>3, <1>4
<1>6. s # <<".">> /\ s # <<"[">> /\ s # <<"(">>
  BY <1>1, <1>4
<1> QED BY <1>5, <1>6

\* A postfix operator is applied at once.
LEMMA AfterPostfix ==
  ASSUME NEW F, ~IsTop(F, "string"), NEW v, NEW t, ~Begins(t, Space), PostfixOp(Sign(t)) # "none"
  PROVE  Step(Config(F, <<v>>, t)) = Config(F, <<c_unary(PostfixOp(Sign(t)), v)>>, Behind(t))
<1>1. Skip(t) = t
  BY SkipIs
<1>2. OperatorStep(F, v, t) = Config(F, <<c_unary(PostfixOp(Sign(t)), v)>>, Behind(t))
  BY <1>1, SMT DEF OperatorStep
<1> QED BY <1>2, OperatorOf

\* What waits for an operand gets it where no closer operator follows.
LEMMA AfterApplied ==
  ASSUME NEW f, f.kind # "string", NEW below, NEW v, NEW t, SignLevel(Sign(Skip(t))) <= FrameLevel(f),
         FrameLevel(f) \in 0..8, SignLevel(Sign(Skip(t))) \in Nat
  PROVE  Step(Config(<<f, below>>, <<v>>, t)) = Config(below, <<Applied(f, v)>>, t)
<1> DEFINE F == <<f, below>>
           s == Sign(Skip(t))
<1>1. ~IsTop(F, "string") /\ F[1] = f /\ F[2] = below /\ Level(F) = FrameLevel(f)
  BY TopIs
<1>2. SignLevel(s) <= 8
  OBVIOUS
<1>3. PostfixOp(s) = "none" /\ s # <<".">> /\ s # <<"[">> /\ s # <<"(">>
  BY <1>2, Strong
<1>4. SignLevel(s) <= Level(F)
  BY <1>1
<1> HIDE DEF F
<1>5. OperatorStep(F, v, t) = Config(F[2], <<Applied(F[1], v)>>, t)
  BY <1>3, <1>4, SMT DEF OperatorStep
<1>6. Step(Config(F, <<v>>, t)) = OperatorStep(F, v, t)
  BY <1>1, OperatorOf
<1> QED BY <1>1, <1>5, <1>6 DEF F

\* A dot, an index and a call wait for what they need.
LEMMA AfterBracket ==
  ASSUME NEW F, ~IsTop(F, "string"), NEW v, NEW rest \in Text
  PROVE  /\ Step(Config(F, <<v>>, <<".">> \o rest)) = Config(<<Frame(".", "none", v), F>>, <<>>, rest)
         /\ Step(Config(F, <<v>>, <<"[">> \o rest)) = Config(<<Frame("[", "none", v), F>>, <<>>, rest)
         /\ v.tree.kind = "ident" =>
              Step(Config(F, <<v>>, <<"(">> \o rest))
                = Config(<<Frame("call", v.tree.value[1], <<>>), F>>, <<>>, rest)
<1>1. ASSUME NEW p, p \in {".", "[", "("}
      PROVE  /\ p \in Pieces /\ Skip(<<p>> \o rest) = <<p>> \o rest /\ Sign(<<p>> \o rest) = <<p>>
             /\ Behind(<<p>> \o rest) = rest /\ PostfixOp(<<p>>) = "none"
  <2>1. p \in Pieces /\ p # Space /\ Alone(p) /\ PostfixOp(<<p>>) = "none"
    BY <1>1, BracketSign
  <2>2. ~Begins(<<p>> \o rest, Space)
    BY <2>1, BeginsWith
  <2> QED BY <2>1, <2>2, SkipIs, SignAlone
<1>2. ASSUME NEW t
      PROVE  Step(Config(F, <<v>>, t)) = OperatorStep(F, v, t)
  BY OperatorOf
<1>3. Step(Config(F, <<v>>, <<".">> \o rest)) = Config(<<Frame(".", "none", v), F>>, <<>>, rest)
  <2> DEFINE t == <<".">> \o rest
  <2>1. Skip(t) = t /\ Sign(t) = <<".">> /\ Behind(t) = rest /\ PostfixOp(Sign(t)) = "none"
    BY <1>1
  <2> HIDE DEF t
  <2>2. OperatorStep(F, v, t) = Config(<<Frame(".", "none", v), F>>, <<>>, Behind(t))
    BY <2>1, SMT DEF OperatorStep
  <2> QED BY <1>2, <2>1, <2>2 DEF t
<1>4. Step(Config(F, <<v>>, <<"[">> \o rest)) = Config(<<Frame("[", "none", v), F>>, <<>>, rest)
  <2> DEFINE t == <<"[">> \o rest
  <2>1. Skip(t) = t /\ Sign(t) = <<"[">> /\ Behind(t) = rest /\ PostfixOp(Sign(t)) = "none"
    BY <1>1
  <2>0. <<"[">> # <<".">>
    OBVIOUS
  <2> HIDE DEF t
  <2>2. OperatorStep(F, v, t) = Config(<<Frame("[", "none", v), F>>, <<>>, Behind(t))
    BY <2>0, <2>1, SMT DEF OperatorStep
  <2> QED BY <1>2, <2>1, <2>2 DEF t
<1>5. ASSUME v.tree.kind = "ident"
      PROVE  Step(Config(F, <<v>>, <<"(">> \o rest))
               = Config(<<Frame("call", v.tree.value[1], <<>>), F>>, <<>>, rest)
  <2> DEFINE t == <<"(">> \o rest
  <2>1. Skip(t) = t /\ Sign(t) = <<"(">> /\ Behind(t) = rest /\ PostfixOp(Sign(t)) = "none"
    BY <1>1
  <2>0. <<"(">> # <<".">> /\ <<"(">> # <<"[">>
    OBVIOUS
  <2> HIDE DEF t
  <2>2. OperatorStep(F, v, t) = Config(<<Frame("call", v.tree.value[1], <<>>), F>>, <<>>, Behind(t))
    BY <1>5, <2>0, <2>1, SMT DEF OperatorStep
  <2> QED BY <1>2, <2>1, <2>2 DEF t
<1> QED BY <1>3, <1>4, <1>5

\* An operator and the space behind it.
LEMMA SignOfBinary ==
  ASSUME NEW op \in DOMAIN Binaries, NEW rest \in Text
  PROVE  LET t == Binaries[op] \o (<<Space>> \o rest)
         IN  /\ Sign(t) = Binaries[op] /\ Behind(t) = <<Space>> \o rest /\ Binaries[op] \in Text
             /\ t \in Text /\ Skip(<<Space>> \o t) = t /\ <<Space>> \o t \in Text
             /\ Len(Binaries[op]) \in 1..2
<1> DEFINE u == <<Space>> \o rest
           t == Binaries[op] \o u
<1>1. Space \in Pieces
  BY MarksArePieces DEF Marks
<1>2. u \in Text /\ u # <<>> /\ u[1] = Space
  BY <1>1, Heads
<1> HIDE DEF u
<1>3. /\ Sign(t) = Binaries[op] /\ Behind(t) = u /\ Binaries[op] \in Text /\ t \in Text
      /\ Len(Binaries[op]) \in 1..2
  <2>1. CASE op \in {"ADD", "SUB", "MUL", "DIV", "MOD", "LT", "GT"}
    <3>1. PICK p \in Marks : Binaries[op] = <<p>>
      BY <2>1 DEF Binaries, Marks
    <3>2. p \in Pieces /\ <<p, u[1]>> \notin Pairs
      BY <1>2, MarksArePieces, PiecesDiffer DEF Pairs
    <3>3. Sign(<<p>> \o u) = <<p>> /\ Behind(<<p>> \o u) = u
      BY <1>2, <3>2, SignIs
    <3>4. <<p>> \in Text /\ Len(<<p>>) = 1 /\ <<p>> \o u \in Text
      BY <1>2, <3>2, Heads
    <3> QED BY <3>1, <3>3, <3>4
  <2>2. CASE op \in {"EQ", "NE", "LE", "GE", "AND", "OR"}
    <3>1. PICK p \in Marks, q \in Marks : Binaries[op] = <<p, q>> /\ <<p, q>> \in Pairs
      <4> DEFINE first == IF op = "NE" THEN "!" ELSE IF op = "LE" THEN "<" ELSE IF op = "GE" THEN ">"
                          ELSE IF op = "AND" THEN "&" ELSE IF op = "OR" THEN "|" ELSE "="
                 second == IF op = "AND" THEN "&" ELSE IF op = "OR" THEN "|" ELSE "="
      <4>1. Binaries[op] = <<first, second>>
        BY <2>2 DEF Binaries
      <4>2. <<first, second>> \in Pairs
        BY <2>2 DEF Pairs
      <4>3. first \in Marks /\ second \in Marks
        BY DEF Marks
      <4> HIDE DEF first, second
      <4> QED BY <4>1, <4>2, <4>3
    <3>2. p \in Pieces /\ q \in Pieces
      BY MarksArePieces
    <3>3. Sign(<<p, q>> \o u) = <<p, q>> /\ Behind(<<p, q>> \o u) = u /\ <<p, q>> \o u \in Text
      BY <1>2, <3>1, <3>2, SignPair
    <3>4. <<p, q>> \in Text /\ Len(<<p, q>>) = 2
      BY <1>2, <3>2, TwoPieces
    <3> QED BY <3>1, <3>3, <3>4
  <2> QED BY <2>1, <2>2 DEF Binaries
<1> HIDE DEF t
<1>4. Skip(<<Space>> \o t) = t /\ <<Space>> \o t \in Text
  BY <1>1, <1>3, SkipIs, Heads
<1> QED BY <1>3, <1>4 DEF t, u

\* Such an operator waits for its right operand.
LEMMA AfterBinary ==
  ASSUME NEW F, ~IsTop(F, "string"), Level(F) \in 0..1, NEW v, NEW op \in DOMAIN Binaries,
           NEW rest \in Text
  PROVE  Step(Config(F, <<v>>, <<Space>> \o (Binaries[op] \o (<<Space>> \o rest))))
           = Config(<<Frame("binary", op, v), F>>, <<>>, <<Space>> \o rest)
<1> DEFINE t == Binaries[op] \o (<<Space>> \o rest)
           u == <<Space>> \o t
           s == Binaries[op]
<1>1. Sign(t) = s /\ Behind(t) = <<Space>> \o rest /\ Skip(u) = t
  BY SignOfBinary
<1>2. /\ BinaryOp(s) = op /\ op # "none" /\ PostfixOp(s) = "none"
      /\ s # <<".">> /\ s # <<"[">> /\ s # <<"(">>
      /\ s \notin {<<>>, <<")">>, <<"]">>, <<Comma>>} /\ Precedence(op) \in 2..7
  BY BinarySigns
<1> HIDE DEF t, s, u
<1>3. ~(SignLevel(s) <= Level(F))
  <2>1. s # <<"=">>
    BY <1>2, EqualSign
  <2>2. SignLevel(s) = Precedence(op)
    BY <1>2, <2>1 DEF SignLevel
  <2> QED BY <1>2, <2>2
<1>4. OperatorStep(F, v, u) = Config(<<Frame("binary", op, v), F>>, <<>>, Behind(t))
  <2>1. Skip(u) = t /\ Sign(t) = s
    BY <1>1
  <2>2. BinaryOp(s) = op /\ op # "none" /\ PostfixOp(s) = "none" /\ s # <<".">> /\ s # <<"[">>
          /\ s # <<"(">>
    BY <1>2
  <2> QED BY <1>3, <2>1, <2>2, SMT DEF OperatorStep
<1>5. Step(Config(F, <<v>>, u)) = OperatorStep(F, v, u)
  BY OperatorOf
<1> QED BY <1>1, <1>4, <1>5 DEF u, t, s

\* The machine finds the sign emit_assign writes between two spaces.
LEMMA SpacedEqual ==
  ASSUME NEW rest \in Text
  PROVE  LET t == <<"=">> \o (<<Space>> \o rest)
         IN  /\ t \in Text /\ <<Space>> \o t \in Text /\ Skip(<<Space>> \o t) = t /\ Sign(t) = <<"=">>
             /\ Behind(t) = <<Space>> \o rest
<1> DEFINE u == <<Space>> \o rest
           t == <<"=">> \o u
<1>1. Space \in Pieces /\ "=" \in Pieces
  BY MarksArePieces DEF Marks
<1>2. u \in Text /\ u # <<>> /\ u[1] = Space
  BY <1>1, Heads
<1>3. <<"=", Space>> \notin Pairs
  BY PiecesDiffer DEF Pairs
<1> HIDE DEF u
<1>4. Sign(t) = <<"=">> /\ Behind(t) = u /\ t \in Text
  BY <1>1, <1>2, <1>3, SignIs, Heads
<1> HIDE DEF t
<1>5. Skip(<<Space>> \o t) = t /\ <<Space>> \o t \in Text
  BY <1>1, <1>4, SkipIs, Heads
<1> QED BY <1>4, <1>5 DEF t, u

\* Such a sign waits for the value.
LEMMA AfterEqual ==
  ASSUME NEW F, ~IsTop(F, "string"), Level(F) \in 0..1, NEW v, NEW rest \in Text
  PROVE  Step(Config(F, <<v>>, <<Space>> \o (<<"=">> \o (<<Space>> \o rest))))
           = Config(<<Frame("assign", "none", v), F>>, <<>>, <<Space>> \o rest)
<1> DEFINE t == <<"=">> \o (<<Space>> \o rest)
           u == <<Space>> \o t
           s == <<"=">>
<1>1. Sign(t) = s /\ Behind(t) = <<Space>> \o rest /\ Skip(u) = t
  BY SpacedEqual
<1>2. BinaryOp(s) = "none" /\ PostfixOp(s) = "none" /\ s # <<".">> /\ s # <<"[">> /\ s # <<"(">>
  BY EqualSign
<1>3. ~(SignLevel(s) <= Level(F)) /\ Level(F) <= 1
  BY EqualSign
<1>4. s = <<"=">>
  OBVIOUS
<1> HIDE DEF t, s, u
<1>5. OperatorStep(F, v, u) = Config(<<Frame("assign", "none", v), F>>, <<>>, Behind(t))
  <2>1. Skip(u) = t /\ Sign(t) = s
    BY <1>1
  <2>2. s # <<".">> /\ s # <<"[">> /\ s # <<"(">>
    BY <1>2
  <2> QED BY <1>2, <1>3, <1>4, <2>1, <2>2, SMT DEF OperatorStep
<1>6. Step(Config(F, <<v>>, u)) = OperatorStep(F, v, u)
  BY OperatorOf
<1> QED BY <1>1, <1>5, <1>6 DEF u, t, s

\* A closing bracket or a comma ends the operand before it.
LEMMA Closing ==
  ASSUME NEW p \in {")", "]", Comma}, NEW rest \in Text
  PROVE  LET t == <<p>> \o rest
         IN  /\ t \in Text /\ Skip(t) = t /\ Sign(t) = <<p>> /\ Tail(t) = rest /\ Behind(t) = rest
             /\ PostfixOp(Sign(t)) = "none" /\ BinaryOp(Sign(t)) = "none" /\ SignLevel(Sign(t)) = 1
             /\ Sign(t) # <<".">> /\ Sign(t) # <<"[">> /\ Sign(t) # <<"(">> /\ Sign(t) # <<"=">>
<1> DEFINE t == <<p>> \o rest
<1>1. p \in Pieces /\ p # Space /\ Alone(p) /\ p # "." /\ p # "[" /\ p # "(" /\ p # "="
  BY BracketSign, AloneAre, MarksArePieces, PiecesDiffer DEF Marks
<1>2. t \in Text /\ Tail(t) = rest /\ ~Begins(t, Space)
  BY <1>1, Heads, BeginsWith
<1>3. Sign(t) = <<p>> /\ Behind(t) = rest
  BY <1>1, SignAlone
<1>4. <<p>> \in {<<>>, <<")">>, <<"]">>, <<Comma>>}
  OBVIOUS
<1>5. PostfixOp(<<p>>) = "none" /\ BinaryOp(<<p>>) = "none" /\ SignLevel(<<p>>) = 1
  BY <1>4, BracketLevels
<1>6. <<p>> # <<".">> /\ <<p>> # <<"[">> /\ <<p>> # <<"(">> /\ <<p>> # <<"=">>
  BY <1>1
<1> HIDE DEF t
<1> QED BY <1>2, <1>3, <1>5, <1>6, SkipIs DEF t

\* Inside brackets everything is applied before they close.
LEMMA BracketFrame ==
  ASSUME NEW f, f.kind \in {"(", "[", "call"}, NEW below, NEW v
  PROVE  LET F == <<f, below>>
         IN  /\ F[1] = f /\ F[2] = below /\ \A kind : IsTop(F, kind) <=> f.kind = kind
             /\ \A t : Step(Config(F, <<v>>, t)) = OperatorStep(F, v, t)
             /\ \A t : SignLevel(Sign(t)) = 1 => ~(SignLevel(Sign(t)) <= Level(F))
<1> DEFINE F == <<f, below>>
<1>1. F[1] = f /\ F[2] = below /\ Level(F) = FrameLevel(f) /\ \A kind : IsTop(F, kind) <=> f.kind = kind
  BY TopIs
<1> HIDE DEF F
<1>2. FrameLevel(f) = 0
  BY DEF FrameLevel
<1>3. ~IsTop(F, "string")
  BY <1>1
<1>4. \A t : Step(Config(F, <<v>>, t)) = OperatorStep(F, v, t)
  BY <1>3, OperatorOf
<1>5. \A t : SignLevel(Sign(t)) = 1 => ~(SignLevel(Sign(t)) <= Level(F))
  BY <1>1, <1>2
<1> QED BY <1>1, <1>4, <1>5 DEF F

\* What is in parentheses is an operand.
LEMMA CloseParenthesis ==
  ASSUME NEW f, f.kind = "(", NEW below, NEW v, NEW rest \in Text
  PROVE  Step(Config(<<f, below>>, <<v>>, Cat(<<")">>, rest))) = Config(below, <<v>>, rest)
<1> DEFINE F == <<f, below>>
           t == <<")">> \o rest
<1>1. /\ F[1] = f /\ F[2] = below /\ \A kind : IsTop(F, kind) <=> f.kind = kind
      /\ Step(Config(F, <<v>>, t)) = OperatorStep(F, v, t)
      /\ SignLevel(Sign(t)) = 1 => ~(SignLevel(Sign(t)) <= Level(F))
  <2> HIDE DEF t
  <2> QED BY BracketFrame
<1>2. /\ Skip(t) = t /\ Sign(t) = <<")">> /\ Tail(t) = rest
      /\ PostfixOp(Sign(t)) = "none" /\ BinaryOp(Sign(t)) = "none" /\ SignLevel(Sign(t)) = 1
      /\ Sign(t) # <<".">> /\ Sign(t) # <<"[">> /\ Sign(t) # <<"(">> /\ Sign(t) # <<"=">>
  BY Closing
<1>3. Cat(<<")">>, rest) = t
  BY Zenon DEF Cat
<1> HIDE DEF t, F
<1>4. IsTop(F, "(")
  BY <1>1
<1>5. OperatorStep(F, v, t) = Config(F[2], <<v>>, Tail(t))
  BY <1>1, <1>2, <1>4, SMT DEF OperatorStep
<1> QED BY <1>1, <1>2, <1>3, <1>5 DEF F

\* What is in square brackets is an index.
LEMMA CloseIndex ==
  ASSUME NEW f, f.kind = "[", NEW below, NEW v, NEW rest \in Text
  PROVE  Step(Config(<<f, below>>, <<v>>, Cat(<<"]">>, rest)))
           = Config(below, <<c_index(f.left, v)>>, rest)
<1> DEFINE F == <<f, below>>
           t == <<"]">> \o rest
<1>1. /\ F[1] = f /\ F[2] = below /\ \A kind : IsTop(F, kind) <=> f.kind = kind
      /\ Step(Config(F, <<v>>, t)) = OperatorStep(F, v, t)
      /\ SignLevel(Sign(t)) = 1 => ~(SignLevel(Sign(t)) <= Level(F))
  <2> HIDE DEF t
  <2> QED BY BracketFrame
<1>2. /\ Skip(t) = t /\ Sign(t) = <<"]">> /\ Tail(t) = rest
      /\ PostfixOp(Sign(t)) = "none" /\ BinaryOp(Sign(t)) = "none" /\ SignLevel(Sign(t)) = 1
      /\ Sign(t) # <<".">> /\ Sign(t) # <<"[">> /\ Sign(t) # <<"(">> /\ Sign(t) # <<"=">>
  BY Closing
<1>3. Cat(<<"]">>, rest) = t
  BY Zenon DEF Cat
<1> HIDE DEF t, F
<1>4. IsTop(F, "[") /\ ~IsTop(F, "(")
  BY <1>1
<1>5. OperatorStep(F, v, t) = Config(F[2], <<c_index(F[1].left, v)>>, Tail(t))
  BY <1>1, <1>2, <1>4, SMT DEF OperatorStep
<1> QED BY <1>1, <1>2, <1>3, <1>5 DEF F

\* The last argument ends a call.
LEMMA CloseCall ==
  ASSUME NEW f, f.kind = "call", NEW below, NEW v, NEW rest \in Text
  PROVE  Step(Config(<<f, below>>, <<v>>, Cat(<<")">>, rest)))
           = Config(below, <<c_call(f.op, Append(f.left, v))>>, rest)
<1> DEFINE F == <<f, below>>
           t == <<")">> \o rest
<1>1. /\ F[1] = f /\ F[2] = below /\ \A kind : IsTop(F, kind) <=> f.kind = kind
      /\ Step(Config(F, <<v>>, t)) = OperatorStep(F, v, t)
      /\ SignLevel(Sign(t)) = 1 => ~(SignLevel(Sign(t)) <= Level(F))
  <2> HIDE DEF t
  <2> QED BY BracketFrame
<1>2. /\ Skip(t) = t /\ Sign(t) = <<")">> /\ Tail(t) = rest
      /\ PostfixOp(Sign(t)) = "none" /\ BinaryOp(Sign(t)) = "none" /\ SignLevel(Sign(t)) = 1
      /\ Sign(t) # <<".">> /\ Sign(t) # <<"[">> /\ Sign(t) # <<"(">> /\ Sign(t) # <<"=">>
  BY Closing
<1>3. Cat(<<")">>, rest) = t
  BY Zenon DEF Cat
<1>0. <<")">> # <<"]">>
  OBVIOUS
<1> HIDE DEF t, F
<1>4. IsTop(F, "call") /\ ~IsTop(F, "(")
  BY <1>1
<1>5. OperatorStep(F, v, t) = Config(F[2], <<c_call(F[1].op, Append(F[1].left, v))>>, Tail(t))
  BY <1>1, <1>2, <1>4, <1>0, SMT DEF OperatorStep
<1> QED BY <1>1, <1>2, <1>3, <1>5 DEF F

\* A comma makes room for another argument.
LEMMA NextArgument ==
  ASSUME NEW f, f.kind = "call", NEW below, NEW v, NEW rest \in Text
  PROVE  Step(Config(<<f, below>>, <<v>>, Cat(<<Comma>>, rest)))
           = Config(<<Frame("call", f.op, Append(f.left, v)), below>>, <<>>, rest)
<1> DEFINE F == <<f, below>>
           t == <<Comma>> \o rest
<1>1. /\ F[1] = f /\ F[2] = below /\ \A kind : IsTop(F, kind) <=> f.kind = kind
      /\ Step(Config(F, <<v>>, t)) = OperatorStep(F, v, t)
      /\ SignLevel(Sign(t)) = 1 => ~(SignLevel(Sign(t)) <= Level(F))
  <2> HIDE DEF t
  <2> QED BY BracketFrame
<1>2. /\ Skip(t) = t /\ Sign(t) = <<Comma>> /\ Tail(t) = rest
      /\ PostfixOp(Sign(t)) = "none" /\ BinaryOp(Sign(t)) = "none" /\ SignLevel(Sign(t)) = 1
      /\ Sign(t) # <<".">> /\ Sign(t) # <<"[">> /\ Sign(t) # <<"(">> /\ Sign(t) # <<"=">>
  BY Closing
<1>3. Cat(<<Comma>>, rest) = t
  BY Zenon DEF Cat
<1>0. <<Comma>> # <<"]">> /\ <<Comma>> # <<")">>
  BY PiecesDiffer
<1> HIDE DEF t, F
<1>4. IsTop(F, "call") /\ ~IsTop(F, "(")
  BY <1>1
<1>5. OperatorStep(F, v, t) = Config(<<Frame("call", F[1].op, Append(F[1].left, v)), F[2]>>, <<>>,
        Tail(t))
  BY <1>1, <1>2, <1>4, <1>0, SMT DEF OperatorStep
<1> QED BY <1>1, <1>2, <1>3, <1>5 DEF F

-----------------------------------------------------------------------------
(* Sequences joined from the left                                          *)

\* What holds of 0 and passes from each number below n to the next holds up
\* to n.
LEMMA UpTo ==
  ASSUME NEW n \in Nat, NEW G, 0 \in G, \A k \in 0..n : k < n /\ k \in G => k + 1 \in G
  PROVE  \A k \in 0..n : k \in G
<1> DEFINE H == {k \in Nat : k \in 0..n => k \in G}
<1>1. 0 \in H
  OBVIOUS
<1>2. ASSUME NEW k \in Nat, k \in H PROVE k + 1 \in H
  <2>1. k + 1 \in 0..n => k \in 0..n /\ k < n
    OBVIOUS
  <2> QED BY <1>2, <2>1
<1>3. \A k \in Nat : k \in H
  <2> HIDE DEF H
  <2> QED BY <1>1, <1>2, Upwards
<1> QED BY <1>3

\* A function on 1..n is a sequence of length n.
LEMMA FunctionSeq ==
  ASSUME NEW S, NEW n \in Nat, NEW g \in [1..n -> S]
  PROVE  g \in Seq(S) /\ Len(g) = n
OBVIOUS

\* What leads from one value in X to the next, n times.
StepsIn(n, X) == [1..n -> [X -> X]]

\* A function on 0..n that goes by such steps.
Goes(w, n, X, base, step) ==
  w \in [0..n -> X] /\ w[0] = base /\ \A i \in 1..n : w[i] = step[i][w[i - 1]]

\* Steps from every value to the next define a function on 0..n.
LEMMA Recursion ==
  ASSUME NEW n \in Nat, NEW X, NEW base \in X, NEW step \in StepsIn(n, X)
  PROVE  \E w : Goes(w, n, X, base, step)
<1> DEFINE Follows(w, k) == w[0] = base /\ \A i \in 1..k : w[i] = step[i][w[i - 1]]
           G == {k \in 0..n : \E w \in [0..k -> X] : Follows(w, k)}
<1>1. 0 \in G
  <2> DEFINE w == [i \in 0..0 |-> base]
  <2>1. w \in [0..0 -> X] /\ Follows(w, 0)
    OBVIOUS
  <2>2. 0 \in 0..n
    OBVIOUS
  <2> HIDE DEF w, Follows
  <2> QED BY <2>1, <2>2
<1>2. ASSUME NEW k \in 0..n, k < n, k \in G PROVE k + 1 \in G
  <2>1. PICK v \in [0..k -> X] : Follows(v, k)
    BY <1>2
  <2>2. k + 1 \in 1..n /\ k \in 0..k /\ k + 1 \in 0..n
    BY <1>2
  <2>3. step[k + 1] \in [X -> X] /\ v[k] \in X
    BY <2>2 DEF StepsIn
  <2>4. step[k + 1][v[k]] \in X
    BY <2>3
  <2> DEFINE x == step[k + 1][v[k]]
             w == [i \in 0..(k + 1) |-> IF i = k + 1 THEN x ELSE v[i]]
  <2> HIDE DEF x
  <2>5. w \in [0..(k + 1) -> X]
    BY <2>4 DEF x
  <2>6. w[0] = base /\ \A i \in 0..k : w[i] = v[i]
    BY <2>1
  <2>7. w[k + 1] = step[k + 1][w[k]]
    <3>1. w[k + 1] = x /\ w[k] = v[k]
      BY <2>2
    <3> QED BY <3>1 DEF x
  <2>8. ASSUME NEW i \in 1..(k + 1) PROVE w[i] = step[i][w[i - 1]]
    <3>1. CASE i = k + 1
      <4>1. i - 1 = k
        BY <3>1
      <4> QED BY <2>7, <3>1, <4>1
    <3>2. CASE i \in 1..k
      <4>1. i \in 0..k /\ i - 1 \in 0..k
        BY <3>2
      <4>2. v[i] = step[i][v[i - 1]]
        BY <2>1, <3>2
      <4> HIDE DEF w
      <4> QED BY <2>6, <4>1, <4>2
    <3> QED BY <3>1, <3>2
  <2> QED BY <2>2, <2>5, <2>6, <2>8
<1>3. n \in G
  <2> HIDE DEF G
  <2>1. \A k \in 0..n : k \in G
    BY <1>1, <1>2, UpTo
  <2> QED BY <2>1
<1> QED BY <1>3 DEF Goes

\* FlattenSeq appends one sequence after the other.
LEMMA FlattenIs ==
  ASSUME NEW T, NEW seqs \in Seq(Seq(T))
  PROVE  \E w \in [0..Len(seqs) -> Seq(T)] :
           /\ w[0] = <<>>
           /\ \A i \in 1..Len(seqs) : w[i] = w[i - 1] \o seqs[i]
           /\ FlattenSeq(seqs) = w[Len(seqs)]
<1> DEFINE n == Len(seqs)
           X == Seq(T)
           step == [i \in 1..n |-> [x \in X |-> x \o seqs[i]]]
           Flat(f) == f = [i \in 1..n |-> IF i = 1 THEN seqs[i] ELSE f[i - 1] \o seqs[i]]
<1>1. n \in Nat /\ <<>> \in X /\ \A i \in 1..n : seqs[i] \in X
  OBVIOUS
<1>2. \A x, y \in X : x \o y \in X
  OBVIOUS
<1>3. \A x \in X : <<>> \o x = x
  OBVIOUS
<1> HIDE DEF X, n
<1>4. step \in StepsIn(n, X)
  BY <1>1, <1>2 DEF StepsIn
<1>5. PICK w \in [0..n -> X] : w[0] = <<>> /\ \A i \in 1..n : w[i] = step[i][w[i - 1]]
  <2> HIDE DEF step
  <2>1. \E w : Goes(w, n, X, <<>>, step)
    BY <1>1, <1>4, Recursion
  <2> QED BY <2>1 DEF Goes
<1>6. ASSUME NEW i \in 1..n PROVE w[i - 1] \in X /\ w[i] = w[i - 1] \o seqs[i]
  <2>1. i - 1 \in 0..n
    BY <1>1
  <2>2. w[i - 1] \in X
    BY <2>1
  <2>3. step[i] = [x \in X |-> x \o seqs[i]]
    OBVIOUS
  <2>4. w[i] = step[i][w[i - 1]]
    BY <1>5
  <2> HIDE DEF step
  <2> QED BY <2>2, <2>3, <2>4
<1>7. CASE n = 0
  <2>1. FlattenSeq(seqs) = <<>>
    BY <1>7 DEF FlattenSeq, n
  <2> QED BY <1>5, <1>6, <1>7, <2>1 DEF n, X
<1>8. CASE n # 0
  <2> DEFINE f == [i \in 1..n |-> w[i]]
             g == CHOOSE h : Flat(h)
  <2>1. Flat(f)
    <3>1. ASSUME NEW i \in 1..n
          PROVE  f[i] = IF i = 1 THEN seqs[i] ELSE f[i - 1] \o seqs[i]
      <4>1. CASE i = 1
        <5>1. i - 1 = 0
          BY <4>1
        <5>2. w[i] = <<>> \o seqs[i]
          BY <1>5, <1>6, <5>1
        <5> QED BY <1>1, <1>3, <4>1, <5>2
      <4>2. CASE i # 1
        <5>1. i - 1 \in 1..n
          BY <1>1, <4>2
        <5> QED BY <1>6, <4>2, <5>1
      <4> QED BY <4>1, <4>2
    <3> QED BY <3>1
  <2>2. \A i \in 1..n : g[i] = IF i = 1 THEN seqs[i] ELSE g[i - 1] \o seqs[i]
    <3>1. Flat(g)
      <4> HIDE DEF f, Flat
      <4> QED BY <2>1
    <3> HIDE DEF g
    <3> QED BY <3>1
  <2>3. FlattenSeq(seqs) = g[n]
    BY <1>8 DEF FlattenSeq, n
  <2> HIDE DEF f, g, step
  <2>4. ASSUME NEW i \in 1..n, i = 1 \/ g[i - 1] = w[i - 1]
        PROVE  g[i] = w[i]
    <3>1. w[i] = w[i - 1] \o seqs[i]
      BY <1>6
    <3>2. CASE i = 1
      <4>1. i - 1 = 0 /\ g[i] = seqs[i] /\ seqs[i] \in X
        BY <1>1, <2>2, <3>2
      <4> QED BY <1>3, <1>5, <3>1, <4>1
    <3>3. CASE i # 1
      BY <2>2, <2>4, <3>1, <3>3
    <3> QED BY <3>2, <3>3
  <2> DEFINE G == {k \in 0..n : k = 0 \/ g[k] = w[k]}
  <2>7. ASSUME NEW k \in 0..n, k < n, k \in G PROVE k + 1 \in G
    <3> DEFINE i == k + 1
    <3>1. i \in 1..n /\ i - 1 = k /\ i \in 0..n /\ (k = 0 => i = 1)
      BY <1>1, <2>7
    <3>2. k = 0 \/ g[k] = w[k]
      BY <2>7
    <3> HIDE DEF i
    <3>3. g[i] = w[i]
      BY <2>4, <3>1, <3>2
    <3>4. i \in G
      BY <3>1, <3>3
    <3> QED BY <3>4 DEF i
  <2>5. n \in G
    <3>1. 0 \in G
      BY <1>1
    <3> HIDE DEF G
    <3>2. \A k \in 0..n : k \in G
      BY <1>1, <2>7, <3>1, UpTo
    <3> QED BY <1>1, <3>2
  <2>6. g[n] = w[n]
    BY <1>8, <2>5
  <2> QED BY <1>5, <1>6, <2>3, <2>6 DEF n, X
<1> QED BY <1>7, <1>8

-----------------------------------------------------------------------------
(* What a string literal spells                                            *)

InString(chars, below) == <<Frame("string", "none", chars), below>>

\* Inside a string literal the machine reads characters.
LEMMA StringOf ==
  ASSUME NEW chars, NEW below, NEW t
  PROVE  Step(Config(InString(chars, below), <<>>, t)) = StringStep(chars, below, t)
<1> DEFINE f == Frame("string", "none", chars)
           F == <<f, below>>
           c == Config(F, <<>>, t)
<1>1. f.kind = "string" /\ f.left = chars
  BY FrameIs
<1> HIDE DEF f
<1>2. F[1] = f /\ F[2] = below /\ IsTop(F, "string")
  BY <1>1, TopIs
<1> HIDE DEF F
<1>3. c.frames = F /\ c.text = t
  BY DEF Config
<1> HIDE DEF c
<1>4. IsTop(c.frames, "string")
  BY <1>2, <1>3
<1>5. Step(c) = StringStep(c.frames[1].left, c.frames[2], c.text)
  BY <1>4, SMT DEF Step
<1> QED BY <1>1, <1>2, <1>3, <1>5 DEF c, F, f, InString

\* A plain character stands for itself.
LEMMA TakeChar ==
  ASSUME NEW c \in Pieces, c \notin {Quote, "\\", "\n"}, NEW chars, NEW below, NEW rest \in Text
  PROVE  Step(Config(InString(chars, below), <<>>, <<c>> \o rest))
           = Config(InString(Append(chars, c), below), <<>>, rest)
<1> DEFINE t == <<c>> \o rest
<1>1. t # <<>> /\ t[1] = c /\ Tail(t) = rest /\ ~Begins(t, Quote) /\ ~Begins(t, "\\")
  BY Heads, BeginsWith
<1>2. t[1] \notin {"\\", "\n"}
  BY <1>1
<1> HIDE DEF t
<1>3. ~IsEscape(t)
  BY <1>1 DEF IsEscape
<1>4. StringStep(chars, below, t) = Config(InString(Append(chars, t[1]), below), <<>>, Tail(t))
  BY <1>1, <1>2, <1>3, SMT DEF StringStep, InString
<1> QED BY <1>1, <1>4, StringOf DEF t

\* A backslash and a character stand for another.
LEMMA TakeEscape ==
  ASSUME NEW c \in {"n", "t", Quote, "\\"}, NEW chars, NEW below, NEW rest \in Text
  PROVE  Step(Config(InString(chars, below), <<>>, <<"\\">> \o (<<c>> \o rest)))
           = Config(InString(Append(chars, Unescaped(c)), below), <<>>, rest)
<1> DEFINE u == <<c>> \o rest
           t == <<"\\">> \o u
<1>0. c \in Pieces /\ "\\" \in Pieces
  BY MarksArePieces, ExpressionsAssumption DEF Marks
<1>1. u # <<>> /\ u[1] = c /\ Tail(u) = rest /\ u \in Text /\ Len(u) = 1 + Len(rest)
        /\ Len(rest) \in Nat
  BY <1>0, Heads
<1> HIDE DEF u
<1>2. Begins(t, "\\") /\ t[2] = c /\ Tail(t) = u /\ ~Begins(t, Quote) /\ Len(t) = 1 + Len(u)
  BY <1>0, <1>1, Heads, BeginsWith, PiecesDiffer
<1> HIDE DEF t
<1>3. IsEscape(t)
  <2>1. Len(t) > 1
    BY <1>1, <1>2
  <2> QED BY <1>2, <2>1 DEF IsEscape
<1>4. StringStep(chars, below, t) = Config(InString(Append(chars, Unescaped(t[2])), below), <<>>,
        Tail(Tail(t)))
  BY <1>2, <1>3, SMT DEF StringStep, InString
<1> QED BY <1>1, <1>2, <1>4, StringOf DEF t, u

\* A quote ends the literal.
LEMMA TakeClosingQuote ==
  ASSUME NEW chars, NEW below, NEW rest \in Text
  PROVE  Step(Config(InString(chars, below), <<>>, <<Quote>> \o rest))
           = Config(below, <<c_leaf(expr_string(chars))>>, rest)
<1> DEFINE t == <<Quote>> \o rest
<1>0. Quote \in Pieces
  BY BracketSign
<1>1. Tail(t) = rest /\ Begins(t, Quote)
  BY <1>0, Heads, BeginsWith
<1> HIDE DEF t
<1>2. StringStep(chars, below, t) = Config(below, <<c_leaf(expr_string(chars))>>, Tail(t))
  BY <1>1, SMT DEF StringStep
<1> QED BY <1>1, <1>2, StringOf DEF t

\* What a text inside a string literal stands for.
Spells(text, chars) ==
  /\ text \in Text /\ chars \in Text
  /\ \A a \in Text, rest \in Text : \A below :
       Reaches(Config(InString(a, below), <<>>, text \o rest),
           Config(InString(a \o chars, below), <<>>, rest),
               Len(text))

\* The text without pieces.
LEMMA Nothing ==
  /\ <<>> \in Text /\ Len(<<>>) = 0
  /\ \A a \in Text : <<>> \o a = a /\ a \o <<>> = a
BY ConcatEmptySeq, EmptySeq DEF Text

\* It spells no character.
LEMMA SpellsNothing == Spells(<<>>, <<>>)
<1>1. ASSUME NEW a \in Text, NEW rest \in Text, NEW below
      PROVE  Reaches(Config(InString(a, below), <<>>, <<>> \o rest),
                     Config(InString(a \o <<>>, below), <<>>, rest), Len(<<>>))
  <2> DEFINE c == Config(InString(a, below), <<>>, rest)
  <2>1. Steps(c, 0) = c /\ 0 \in 0..0
    BY StepsAre
  <2>2. Reaches(c, c, 0)
    BY <2>1 DEF Reaches
  <2> HIDE DEF c
  <2>3. <<>> \o rest = rest /\ a \o <<>> = a /\ Len(<<>>) = 0
    BY Nothing
  <2>4. Config(InString(a, below), <<>>, <<>> \o rest) = c
          /\ Config(InString(a \o <<>>, below), <<>>, rest) = c
    BY <2>3 DEF c
  <2> QED BY <2>2, <2>3, <2>4
<1> QED BY <1>1, Nothing DEF Spells

\* What two texts spell, they spell one after the other.
LEMMA SpellsMore ==
  ASSUME NEW p, NEW x, Spells(p, x), NEW q, NEW y, Spells(q, y)
  PROVE  Spells(p \o q, x \o y)
<1>1. p \in Text /\ x \in Text /\ q \in Text /\ y \in Text
  BY DEF Spells
<1>2. /\ p \o q \in Text /\ x \o y \in Text /\ Len(p) + Len(q) = Len(p \o q)
      /\ Len(p) \in Nat /\ Len(q) \in Nat /\ Len(p \o q) \in Nat
  BY <1>1, Concat
<1>3. ASSUME NEW a \in Text, NEW rest \in Text, NEW below
      PROVE  Reaches(Config(InString(a, below), <<>>, (p \o q) \o rest),
                     Config(InString(a \o (x \o y), below), <<>>, rest), Len(p \o q))
  <2>1. q \o rest \in Text /\ a \o x \in Text /\ (p \o q) \o rest = p \o (q \o rest) /\ (a \o x) \o y
          = a \o (x \o y)
    <3>1. q \o rest \in Text /\ a \o x \in Text
      BY <1>1, Concat
    <3>2. (p \o q) \o rest = p \o (q \o rest)
      <4>1. p \in Text /\ q \in Text /\ rest \in Text
        BY <1>1
      <4> QED BY <4>1, Assoc, SMTT(60)
    <3>3. (a \o x) \o y = a \o (x \o y)
      BY <1>1, Assoc, ZenonT(60)
    <3> QED BY <3>1, <3>2, <3>3
  <2>2. Reaches(Config(InString(a, below), <<>>, p \o (q \o rest)),
                Config(InString(a \o x, below), <<>>, q \o rest), Len(p))
    BY <2>1 DEF Spells
  <2>3. Reaches(Config(InString(a \o x, below), <<>>, q \o rest),
                Config(InString((a \o x) \o y, below), <<>>, rest), Len(q))
    BY <2>1 DEF Spells
  <2>4. Len(p) + Len(q) <= Len(p \o q)
    BY <1>2
  <2>5. Reaches(Config(InString(a, below), <<>>, p \o (q \o rest)),
                Config(InString((a \o x) \o y, below), <<>>, rest), Len(p \o q))
    BY <1>2, <2>2, <2>3, <2>4, ThenReaches
  <2> QED BY <2>1, <2>5
<1> QED BY <1>2, <1>3 DEF Spells

\* To append a piece is to join it.
LEMMA AppendIs ==
  ASSUME NEW a \in Text, NEW c \in Pieces
  PROVE  Append(a, c) = a \o <<c>> /\ <<c>> \in Text
<1>1. Append(a, c) = a \o <<c>>
  BY AppendIsConcat, Zenon DEF Text
<1> QED BY <1>1, Heads, Nothing

\* A text that makes the machine take one character spells it.
LEMMA SpellsOne ==
  ASSUME NEW t \in Text, NEW c \in Pieces, Len(t) \in Nat \ {0},
         \A a \in Text, rest \in Text : \A below :
           Step(Config(InString(a, below), <<>>, t \o rest))
               = Config(InString(Append(a, c), below), <<>>, rest)
  PROVE  Spells(t, <<c>>)
<1>1. ASSUME NEW a \in Text, NEW rest \in Text, NEW below
      PROVE  Reaches(Config(InString(a, below), <<>>, t \o rest),
                     Config(InString(a \o <<c>>, below), <<>>, rest), Len(t))
  <2> DEFINE d == Config(InString(a, below), <<>>, t \o rest)
             e == Config(InString(a \o <<c>>, below), <<>>, rest)
  <2>1. Step(d) = e
    BY AppendIs, ZenonT(60)
  <2> HIDE DEF d, e
  <2>2. Reaches(d, e, 1)
    BY <2>1, OneStep
  <2>3. PICK k \in 0..1 : Steps(d, k) = e
    BY <2>2 DEF Reaches
  <2>4. k \in 0..Len(t)
    OBVIOUS
  <2> QED BY <2>3, <2>4 DEF Reaches, d, e
<1> QED BY <1>1, AppendIs, Nothing DEF Spells

\* The text of a character is read as the character.
LEMMA SpellsEscape ==
  ASSUME NEW c \in Pieces
  PROVE  Spells(escape(c), <<c>>)
<1>1. ASSUME NEW e \in {"n", "t", Quote, "\\"}, Unescaped(e) = c
      PROVE  Spells(<<"\\", e>>, <<c>>)
  <2>1. e \in Pieces /\ "\\" \in Pieces
    BY MarksArePieces, ExpressionsAssumption DEF Marks
  <2>2. <<"\\", e>> \in Text /\ Len(<<"\\", e>>) = 2 /\ \A rest \in Text : <<"\\", e>> \o rest
          = <<"\\">> \o (<<e>> \o rest)
    BY <2>1, TwoPieces, Nothing
  <2>3. ASSUME NEW a \in Text, NEW rest \in Text, NEW below
        PROVE  Step(Config(InString(a, below), <<>>, <<"\\", e>> \o rest))
                 = Config(InString(Append(a, c), below), <<>>, rest)
    <3>1. Step(Config(InString(a, below), <<>>, <<"\\">> \o (<<e>> \o rest)))
            = Config(InString(Append(a, Unescaped(e)), below), <<>>, rest)
      BY TakeEscape
    <3>2. <<"\\", e>> \o rest = <<"\\">> \o (<<e>> \o rest)
      BY <2>2
    <3> QED BY <1>1, <3>1, <3>2
  <2>4. Len(<<"\\", e>>) \in Nat \ {0}
    BY <2>2
  <2> QED BY <2>2, <2>3, <2>4, SpellsOne
<1>2. CASE c = "\n"
  <2>1. escape(c) = <<"\\", "n">> /\ Unescaped("n") = "\n"
    BY <1>2, PiecesDiffer DEF escape, Unescaped
  <2> QED BY <1>1, <1>2, <2>1
<1>3. CASE c = "\t"
  <2>1. escape(c) = <<"\\", "t">> /\ Unescaped("t") = "\t"
    BY <1>3, PiecesDiffer DEF escape, Unescaped
  <2> QED BY <1>1, <1>3, <2>1
<1>4. CASE c = Quote
  <2>1. escape(c) = <<"\\", Quote>> /\ Unescaped(Quote) = Quote
    BY <1>4, PiecesDiffer DEF escape, Unescaped
  <2> QED BY <1>1, <1>4, <2>1
<1>5. CASE c = "\\"
  <2>1. escape(c) = <<"\\", "\\">> /\ Unescaped("\\") = "\\"
    BY <1>5, PiecesDiffer DEF escape, Unescaped
  <2> QED BY <1>1, <1>5, <2>1
<1>6. CASE c # "\n" /\ c # "\t" /\ c # Quote /\ c # "\\"
  <2>1. escape(c) = <<c>>
    BY <1>6 DEF escape
  <2>2. <<c>> \in Text /\ Len(<<c>>) \in Nat \ {0}
    BY Heads, Nothing
  <2>3. ASSUME NEW a \in Text, NEW rest \in Text, NEW below
        PROVE  Step(Config(InString(a, below), <<>>, <<c>> \o rest))
                 = Config(InString(Append(a, c), below), <<>>, rest)
    BY <1>6, TakeChar
  <2> QED BY <2>1, <2>2, <2>3, SpellsOne
<1> QED BY <1>2, <1>3, <1>4, <1>5, <1>6

-----------------------------------------------------------------------------
(* What each text of emit_expr is read as                                  *)

\* What may stand behind an operand.
Ends(rest) == SignLevel(Sign(Skip(rest))) = 1
Weak(rest) == SignLevel(Sign(Skip(rest))) \in 1..8

\* The machine reads the text as one operand.
Reading(text, m, F, rest) ==
  Reaches(Config(F, <<>>, text \o rest), Config(F, <<m>>, rest), 2 * Len(text))

\* Wherever an operand is expected; behind which nothing binds as close as a
\* prefix; and where nothing is waiting but brackets and assignments.
Plain(text, m) == \A F : \A rest \in Text : Open(F) => Reading(text, m, F, rest)
Tight(text, m) == \A F : \A rest \in Text : Open(F) /\ Weak(rest) => Reading(text, m, F, rest)
Loose(text, m) ==
  \A F : \A rest \in Text : Open(F) /\ Level(F) \in 0..1 /\ Ends(rest) => Reading(text, m, F, rest)

Starts(text) == text \in Text /\ text # <<>> /\ ~Begins(text, Space) /\ ~Begins(text, "=")

\* What is read anywhere is read before a weak operator.
LEMMA PlainTight == ASSUME NEW text, NEW m, Plain(text, m) PROVE Tight(text, m)
BY DEF Plain, Tight

\* What is read there is read where only brackets and assignments wait.
LEMMA TightLoose == ASSUME NEW text, NEW m, Tight(text, m) PROVE Loose(text, m)
<1>1. \A rest : Ends(rest) => Weak(rest)
  BY DEF Ends, Weak
<1> QED BY <1>1 DEF Tight, Loose

\* A text begins as its first part does.
LEMMA BeginsConcat ==
  ASSUME NEW text \in Text, text # <<>>, NEW rest \in Text
  PROVE  /\ text \o rest # <<>> /\ (text \o rest)[1] = text[1]
         /\ \A p : Begins(text \o rest, p) <=> Begins(text, p)
<1> DEFINE t == text \o rest
<1>1. Len(text) \in Nat \ {0} /\ Len(rest) \in Nat
  BY EmptySeq, Nothing DEF Text
<1>2. Len(t) = Len(text) + Len(rest) /\ t[1] = text[1]
  <2>1. 1 \in 1..(Len(text) + Len(rest)) /\ 1 <= Len(text)
    BY <1>1
  <2> QED BY <2>1, ConcatProperties DEF Text
<1> HIDE DEF t
<1>3. t # <<>>
  BY <1>1, <1>2, Nothing
<1>4. \A p : Begins(t, p) <=> Begins(text, p)
  BY <1>2, <1>3 DEF Begins
<1> QED BY <1>2, <1>3, <1>4 DEF t

\* What may follow an operator still may with more behind it.
LEMMA StartsMore ==
  ASSUME NEW text, Starts(text), NEW rest \in Text
  PROVE  Starts(text \o rest)
BY BeginsConcat, Concat DEF Starts

\* A space before an operand.
LEMMA Spaced ==
  ASSUME NEW F, ~IsTop(F, "string"), NEW t, ~Begins(t, Space), t \in Text, NEW m, NEW rest,
           NEW n \in Nat,
         Reaches(Config(F, <<>>, t), Config(F, <<m>>, rest), n)
  PROVE  Reaches(Config(F, <<>>, <<Space>> \o t), Config(F, <<m>>, rest), n)
<1> DEFINE c == Config(F, <<>>, <<Space>> \o t)
           d == Config(F, <<>>, t)
           e == Config(F, <<m>>, rest)
<1>1. Step(c) = OperandStep(F, Skip(<<Space>> \o t)) /\ Step(d) = OperandStep(F, Skip(t))
  BY OperandOf
<1>2. Skip(<<Space>> \o t) = t /\ Skip(t) = t
  BY SkipIs
<1>3. d # e
  <2>1. d.value = <<>> /\ e.value = <<m>>
    BY DEF Config
  <2>2. <<m>> # <<>>
    OBVIOUS
  <2> QED BY <2>1, <2>2
<1> HIDE DEF c, d, e
<1>4. Step(c) = Step(d)
  BY <1>1, <1>2
<1>5. Reaches(d, e, n)
  BY DEF d, e
<1>6. Reaches(c, e, n)
  BY <1>3, <1>4, <1>5, SameStep
<1> QED BY <1>6 DEF c, e

\* A step, the way, and a step.
LEMMA Around ==
  ASSUME NEW a, NEW b, NEW c, NEW d, NEW n \in Nat, NEW k \in Nat, n + 2 <= k,
         Step(a) = b, Reaches(b, c, n), Step(c) = d
  PROVE  Reaches(a, d, k)
<1>1. Reaches(a, b, 1) /\ Reaches(c, d, 1)
  BY OneStep
<1>2. Reaches(b, d, n + 1)
  <2>1. n + 1 \in Nat /\ n + 1 <= n + 1 /\ 1 \in Nat
    OBVIOUS
  <2> QED BY <1>1, <2>1, ThenReaches
<1>3. 1 \in Nat /\ n + 1 \in Nat /\ 1 + (n + 1) <= k
  OBVIOUS
<1> QED BY <1>1, <1>2, <1>3, ThenReaches

\* Behind any frame but two an operand may follow.
LEMMA OpenUnless ==
  ASSUME NEW f, f.kind # "string", f.kind # ".", NEW below
  PROVE  Open(<<f, below>>) /\ ~IsTop(<<f, below>>, "string")
BY TopIs DEF Open

\* A prefix operator is read around its operand, where both signs stay
\* apart.
LEMMA PrefixReads ==
  ASSUME NEW op, op # "none", NEW s \in Text, Len(s) \in 1..2, PrefixOp(s) = op,
         NEW text, Starts(text), NEW m, Tight(text, m),
         \A rest \in Text :
           /\ Sign(s \o (text \o rest)) = s /\ Behind(s \o (text \o rest)) = text \o rest
           /\ ~Begins(s \o (text \o rest), Space)
  PROVE  Tight(s \o text, c_unary(op, m))
<1> SUFFICES ASSUME NEW F, NEW rest \in Text, Open(F), Weak(rest)
             PROVE  Reading(s \o text, c_unary(op, m), F, rest)
  BY DEF Tight
<1> DEFINE f == Frame("prefix", op, <<>>)
           G == <<f, F>>
           t == s \o (text \o rest)
           u == text \o rest
<1>0. text \in Text
  BY DEF Starts
<1>1. t = (s \o text) \o rest
  BY <1>0, Assoc, Zenon
<1>2. Len(s \o text) = Len(s) + Len(text) /\ Len(text) \in Nat /\ Len(s) \in 1..2
  BY <1>0, Concat
<1>3. f.kind = "prefix" /\ f.op = op
  BY FrameIs
<1>4. Sign(t) = s /\ Behind(t) = u /\ ~Begins(t, Space)
  OBVIOUS
<1> HIDE DEF f, t, u
<1>5. Step(Config(F, <<>>, t)) = Config(G, <<>>, u)
  BY <1>4, TakePrefix DEF f
<1>6. Reaches(Config(G, <<>>, u), Config(G, <<m>>, rest), 2 * Len(text))
  <2>1. Open(G)
    BY <1>3, OpenUnless
  <2> QED BY <2>1 DEF Tight, Reading, u
<1>7. Step(Config(G, <<m>>, rest)) = Config(F, <<c_unary(op, m)>>, rest)
  <2>1. FrameLevel(f) = 8
    BY <1>3 DEF FrameLevel
  <2>2. SignLevel(Sign(Skip(rest))) <= 8 /\ SignLevel(Sign(Skip(rest))) \in Nat
    BY DEF Weak
  <2>3. Step(Config(G, <<m>>, rest)) = Config(F, <<Applied(f, m)>>, rest)
    <3>1. SignLevel(Sign(Skip(rest))) <= FrameLevel(f) /\ FrameLevel(f) \in 0..8 /\ f.kind # "string"
      BY <1>3, <2>1, <2>2
    <3> QED BY <2>2, <3>1, AfterApplied
  <2>4. Applied(f, m) = c_unary(op, m)
    BY <1>3 DEF Applied
  <2> QED BY <2>3, <2>4
<1>8. 2 * Len(text) \in Nat /\ 2 * Len(s \o text) \in Nat /\ 2 * Len(text) + 2 <= 2 * Len(s \o text)
  <2> DEFINE x == Len(text)
             y == Len(s)
             z == Len(s \o text)
  <2>1. z = y + x /\ x \in Nat /\ y \in 1..2
    BY <1>2
  <2> HIDE DEF x, y, z
  <2>2. 2 * x \in Nat /\ 2 * z \in Nat /\ 2 * x + 2 <= 2 * z
    BY <2>1
  <2> QED BY <2>2 DEF x, z
<1> HIDE DEF G
<1>9. Reaches(Config(F, <<>>, t), Config(F, <<c_unary(op, m)>>, rest), 2 * Len(s \o text))
  BY <1>5, <1>6, <1>7, <1>8, Around
<1> QED BY <1>1, <1>9 DEF Reading

\* The spellings of the postfix operators.
LEMMA UnariesAre ==
  ASSUME NEW op \in PostfixOps
  PROVE  \E p \in {"+", "-"} : Unaries[op] = <<p, p>> /\ <<p, p>> \in Pairs /\ PostfixOp(<<p, p>>) = op
<1>1. PostfixOp(<<"+", "+">>) = "POST_INC" /\ PostfixOp(<<"-", "-">>) = "POST_DEC"
  BY DEF PostfixOp
<1>2. <<"+", "+">> \in Pairs /\ <<"-", "-">> \in Pairs
  BY DEF Pairs
<1> QED BY <1>1, <1>2 DEF Unaries, PostfixOps

\* A postfix operator is read around an operand that nothing weaker
\* surrounds.
LEMMA PostfixReads ==
  ASSUME NEW op \in PostfixOps, NEW text \in Text, NEW m, Plain(text, m)
  PROVE  /\ Plain(text \o Unaries[op], c_unary(op, m))
         /\ Unaries[op] \in Text
<1>1. PICK p \in {"+", "-"} : Unaries[op] = <<p, p>> /\ <<p, p>> \in Pairs /\ PostfixOp(<<p, p>>) = op
  BY UnariesAre
<1>2. op # "none" /\ p \in Pieces /\ p # Space
  BY MarksArePieces, PiecesDiffer DEF PostfixOps, Marks
<1> DEFINE s == <<p, p>>
<1>3. s \in Text /\ Len(s) = 2
  BY <1>2, TwoPieces, Nothing
<1>4. ASSUME NEW F, NEW rest \in Text, Open(F)
      PROVE  Reading(text \o s, c_unary(op, m), F, rest)
  <2> DEFINE u == s \o rest
  <2>1. u \in Text /\ Sign(u) = s /\ Behind(u) = rest /\ u # <<>> /\ u[1] = p
    BY <1>1, <1>2, SignPair
  <2>2. (text \o s) \o rest = text \o u
    BY <1>3, Assoc, Zenon
  <2>3. Len(text \o s) = Len(text) + 2 /\ Len(text) \in Nat
    BY <1>3, Concat
  <2> HIDE DEF u, s
  <2>4. Reaches(Config(F, <<>>, text \o u), Config(F, <<m>>, u), 2 * Len(text))
    BY <1>4, <2>1 DEF Plain, Reading
  <2>5. ~Begins(u, Space) /\ PostfixOp(Sign(u)) = op
    BY <1>1, <1>2, <2>1 DEF Begins, s
  <2>6. Step(Config(F, <<m>>, u)) = Config(F, <<c_unary(op, m)>>, rest)
    <3>1. ~IsTop(F, "string")
      BY <1>4 DEF Open
    <3> QED BY <1>2, <2>1, <2>5, <3>1, AfterPostfix
  <2>7. Reaches(Config(F, <<m>>, u), Config(F, <<c_unary(op, m)>>, rest), 1)
    BY <2>6, OneStep
  <2>8. 2 * Len(text) \in Nat /\ 1 \in Nat /\ 2 * Len(text \o s) \in Nat
          /\ 2 * Len(text) + 1 <= 2 * Len(text \o s)
    BY <2>3
  <2>9. Reaches(Config(F, <<>>, text \o u), Config(F, <<c_unary(op, m)>>, rest), 2 * Len(text \o s))
    BY <2>4, <2>7, <2>8, ThenReaches
  <2> QED BY <2>2, <2>9 DEF Reading
<1> QED BY <1>1, <1>3, <1>4 DEF Plain

\* So is a field: emit_member.
LEMMA MemberReads ==
  ASSUME NEW text \in Text, NEW m, Plain(text, m), NEW name \in Pieces, name \notin Marks
  PROVE  Plain(text \o <<".", name>>, c_member(m, name)) /\ <<".", name>> \in Text
<1> DEFINE s == <<".", name>>
<1>0. "." \in Pieces
  BY BracketSign
<1>1. s \in Text /\ Len(s) = 2
  BY <1>0, TwoPieces, Nothing
<1>2. ASSUME NEW F, NEW rest \in Text, Open(F)
      PROVE  Reading(text \o s, c_member(m, name), F, rest)
  <2> DEFINE u == <<name>> \o rest
             v == <<".">> \o u
             e == Config(F, <<c_member(m, name)>>, rest)
  <2>1. u \in Text /\ v \in Text /\ s \o rest = v
    <3>1. u \in Text
      BY Heads
    <3>2. v \in Text
      BY <1>0, <3>1, Heads
    <3> QED BY <1>0, <3>1, <3>2, TwoPieces
  <2>2. (text \o s) \o rest = text \o v
    <3>1. (text \o s) \o rest = text \o (s \o rest)
      BY <1>1, Assoc, Zenon
    <3> QED BY <2>1, <3>1
  <2>3. Len(text \o s) = Len(text) + 2 /\ Len(text) \in Nat
    BY <1>1, Concat
  <2> HIDE DEF s, u
  <2>4. Reaches(Config(F, <<>>, text \o v), Config(F, <<m>>, v), 2 * Len(text))
    BY <1>2, <2>1 DEF Plain, Reading
  <2>5. Step(Config(F, <<m>>, v)) = Config(<<Frame(".", "none", m), F>>, <<>>, u)
    BY <1>2, <2>1, AfterBracket DEF Open
  <2>6. Step(Config(<<Frame(".", "none", m), F>>, <<>>, u)) = e
    BY TakeMember DEF u
  <2> HIDE DEF v, e
  <2>7. Reaches(Config(F, <<m>>, v), e, 2)
    <3> DEFINE d == Config(<<Frame(".", "none", m), F>>, <<>>, u)
    <3>1. Reaches(d, e, 1)
      BY <2>6, OneStep
    <3>2. 1 \in Nat /\ 1 + 1 = 2
      OBVIOUS
    <3> HIDE DEF d
    <3>3. Reaches(Step(Config(F, <<m>>, v)), e, 1)
      BY <2>5, <3>1 DEF d
    <3>4. Reaches(Config(F, <<m>>, v), e, 1 + 1)
      BY <3>2, <3>3, StepReaches
    <3> QED BY <3>2, <3>4
  <2>8. 2 * Len(text) \in Nat /\ 2 \in Nat /\ 2 * Len(text \o s) \in Nat
          /\ 2 * Len(text) + 2 <= 2 * Len(text \o s)
    BY <2>3
  <2>9. Reaches(Config(F, <<>>, text \o v), e, 2 * Len(text \o s))
    BY <2>4, <2>7, <2>8, ThenReaches
  <2> QED BY <2>2, <2>9 DEF Reading, e
<1> QED BY <1>1, <1>2 DEF Plain

\* Joined texts are texts.
LEMMA CatIn == \A a, b \in Text : Cat(a, b) \in Text
BY Concat DEF Cat

\* Their lengths add up.
LEMMA CatLen ==
  ASSUME NEW a \in Text, NEW b \in Text
  PROVE  Len(Cat(a, b)) = Len(a) + Len(b) /\ Len(a) \in Nat /\ Len(b) \in Nat
BY Concat DEF Cat

\* Joining is associative.
LEMMA CatAssoc == \A a, b, c \in Text : Cat(Cat(a, b), c) = Cat(a, Cat(b, c))
<1>1. ASSUME NEW a \in Text, NEW b \in Text, NEW c \in Text
      PROVE  Cat(Cat(a, b), c) = Cat(a, Cat(b, c))
  BY Assoc, Zenon DEF Cat
<1> QED BY <1>1

\* Four texts one after the other.
LEMMA Cat4 ==
  ASSUME NEW a \in Text, NEW b \in Text, NEW c \in Text, NEW d \in Text
  PROVE  LET text == Cat(Cat(Cat(a, b), c), d)
         IN  /\ text \in Text
             /\ Len(text) = Len(a) + Len(b) + Len(c) + Len(d)
             /\ Len(a) \in Nat /\ Len(b) \in Nat /\ Len(c) \in Nat /\ Len(d) \in Nat
             /\ text = Cat(a, Cat(b, Cat(c, d)))
             /\ \A rest \in Text : Cat(text, rest) = Cat(a, Cat(b, Cat(c, Cat(d, rest))))
<1> DEFINE x == Cat(a, b)
           y == Cat(x, c)
           text == Cat(y, d)
<1>1. x \in Text /\ y \in Text /\ text \in Text
  BY CatIn
<1>2. text = Cat(a, Cat(b, Cat(c, d)))
  <2>1. Cat(c, d) \in Text
    BY CatIn
  <2> QED BY <1>1, <2>1, CatAssoc
<1>3. ASSUME NEW rest \in Text PROVE Cat(text, rest) = Cat(a, Cat(b, Cat(c, Cat(d, rest))))
  <2>1. Cat(d, rest) \in Text /\ Cat(c, Cat(d, rest)) \in Text
    BY CatIn
  <2> QED BY <1>1, <2>1, CatAssoc
<1>4. Len(x) = Len(a) + Len(b) /\ Len(a) \in Nat /\ Len(b) \in Nat
  BY CatLen
<1> HIDE DEF x
<1>5. Len(y) = Len(x) + Len(c) /\ Len(c) \in Nat
  BY <1>1, CatLen
<1> HIDE DEF y
<1>6. Len(text) = Len(y) + Len(d) /\ Len(d) \in Nat
  BY <1>1, CatLen
<1> HIDE DEF text
<1>7. Len(text) = Len(a) + Len(b) + Len(c) + Len(d)
  BY <1>4, <1>5, <1>6
<1> QED BY <1>1, <1>2, <1>3, <1>4, <1>5, <1>6, <1>7, Zenon DEF text, y, x

\* A closing bracket ends an operand whatever waits.
LEMMA ClosingEnds ==
  ASSUME NEW p \in {")", "]", Comma}, NEW rest \in Text
  PROVE  Ends(<<p>> \o rest) /\ Weak(<<p>> \o rest) /\ <<p>> \in Text /\ Len(<<p>>) = 1 /\ <<p>>
           \o rest \in Text
<1> DEFINE t == <<p>> \o rest
<1>1. t \in Text /\ Skip(t) = t /\ SignLevel(Sign(t)) = 1
  BY Closing
<1>2. p \in Pieces
  BY BracketSign
<1>3. <<p>> \in Text /\ Len(<<p>>) = 1
  BY <1>2, Heads, Nothing
<1> HIDE DEF t
<1>4. Ends(t) /\ Weak(t)
  BY <1>1 DEF Ends, Weak
<1> QED BY <1>1, <1>3, <1>4 DEF t

\* A binary operator as it is written binds no closer than a prefix.
LEMMA BinaryWeak ==
  ASSUME NEW op \in DOMAIN Binaries, NEW rest \in Text
  PROVE  LET t == <<Space>> \o (Binaries[op] \o (<<Space>> \o rest)) IN Weak(t) /\ t \in Text
<1> DEFINE u == Binaries[op] \o (<<Space>> \o rest)
           t == <<Space>> \o u
           s == Binaries[op]
<1>1. Sign(u) = s /\ Skip(t) = u /\ t \in Text
  BY SignOfBinary
<1>2. /\ BinaryOp(s) = op /\ op # "none" /\ s \notin {<<>>, <<")">>, <<"]">>, <<Comma>>}
      /\ Precedence(op) \in 2..7
  BY BinarySigns
<1> HIDE DEF u, t, s
<1>3. SignLevel(s) = Precedence(op)
  <2>1. s # <<"=">>
    BY <1>2, EqualSign
  <2> QED BY <1>2, <2>1 DEF SignLevel
<1>4. Weak(t)
  BY <1>1, <1>2, <1>3 DEF Weak
<1> QED BY <1>1, <1>4 DEF t, u, s

\* Nor does the sign of an assignment.
LEMMA EqualWeak ==
  ASSUME NEW rest \in Text
  PROVE  LET t == <<Space>> \o (<<"=">> \o (<<Space>> \o rest)) IN Weak(t) /\ t \in Text
<1> DEFINE u == <<"=">> \o (<<Space>> \o rest)
           t == <<Space>> \o u
<1>1. Sign(u) = <<"=">> /\ Skip(t) = u /\ t \in Text
  BY SpacedEqual
<1> HIDE DEF u, t
<1>2. Weak(t)
  BY <1>1, EqualSign DEF Weak
<1> QED BY <1>1, <1>2 DEF t, u

\* What emit_index writes is read as the index.
LEMMA IndexReads ==
  ASSUME NEW a \in Text, NEW x, Plain(a, x), NEW i, Starts(i), NEW y, Loose(i, y)
  PROVE  /\ Plain(emit_index(a, i), c_index(x, y))
         /\ emit_index(a, i) = a \o (<<"[">> \o (i \o <<"]">>))
         /\ <<"[">> \o (i \o <<"]">>) \in Text
<1> DEFINE o == <<"[">>
           q == <<"]">>
           text == ((a \o o) \o i) \o q
<1>0. o \in Text /\ q \in Text /\ Len(o) = 1 /\ Len(q) = 1 /\ i \in Text
  <2>1. "[" \in Pieces /\ "]" \in Pieces
    BY BracketSign
  <2> QED BY <2>1, Heads, Nothing DEF Starts
<1>1. ASSUME NEW F, NEW rest \in Text, Open(F)
      PROVE  Reading(text, c_index(x, y), F, rest)
  <2> DEFINE f == Frame("[", "none", x)
             G == <<f, F>>
             v == q \o rest
             u == i \o v
             t == o \o u
             e == Config(F, <<c_index(x, y)>>, rest)
  <2>1. v \in Text /\ Ends(v)
    BY ClosingEnds
  <2>2. u \in Text /\ t \in Text
    BY <1>0, <2>1, Concat
  <2>3. text \o rest = a \o t
    <3> HIDE DEF o, q
    <3>1. Cat(Cat(Cat(Cat(a, o), i), q), rest) = Cat(a, Cat(o, Cat(i, Cat(q, rest))))
      BY <1>0, Cat4, SMT
    <3> QED BY <3>1, Zenon DEF Cat
  <2>4. Len(text) = Len(a) + Len(i) + 2 /\ Len(a) \in Nat /\ Len(i) \in Nat
    <3> HIDE DEF o, q
    <3>0. o \in Text /\ q \in Text /\ i \in Text
      BY <1>0
    <3>1. /\ Len(Cat(Cat(Cat(a, o), i), q)) = Len(a) + Len(o) + Len(i) + Len(q)
          /\ Len(a) \in Nat /\ Len(i) \in Nat
      BY <3>0, Cat4, SMT
    <3>2. Len(text) = Len(Cat(Cat(Cat(a, o), i), q))
      BY Zenon DEF Cat
    <3> HIDE DEF text
    <3> QED BY <1>0, <3>1, <3>2
  <2>5. f.kind = "[" /\ f.left = x
    BY FrameIs
  <2>6. Open(G) /\ Level(G) \in 0..1
    <3>1. FrameLevel(f) = 0
      BY <2>5 DEF FrameLevel
    <3> HIDE DEF f
    <3> QED BY <2>5, <3>1, OpenUnless, TopIs
  <2>7. Reaches(Config(F, <<>>, a \o t), Config(F, <<x>>, t), 2 * Len(a))
    <3> HIDE DEF t
    <3> QED BY <1>1, <2>2 DEF Plain, Reading
  <2>8. Step(Config(F, <<x>>, t)) = Config(G, <<>>, u)
    BY <1>1, <2>2, AfterBracket DEF Open
  <2>9. Reaches(Config(G, <<>>, u), Config(G, <<y>>, v), 2 * Len(i))
    <3> HIDE DEF G, v
    <3> QED BY <2>1, <2>6 DEF Loose, Reading
  <2>10. Step(Config(G, <<y>>, v)) = e
    <3>1. Step(Config(G, <<y>>, v)) = Config(F, <<c_index(f.left, y)>>, rest)
      <4>1. f.kind = "["
        BY <2>5
      <4> HIDE DEF f
      <4>2. Step(Config(<<f, F>>, <<y>>, Cat(<<"]">>, rest))) = Config(F, <<c_index(f.left, y)>>, rest)
        BY <4>1, CloseIndex
      <4> QED BY <4>2, Zenon DEF Cat
    <3> HIDE DEF f
    <3> QED BY <2>5, <3>1
  <2> HIDE DEF f, G, v, u, t, e, text
  <2>11. 2 * Len(i) \in Nat /\ 2 * Len(i) + 2 \in Nat /\ 2 * Len(i) + 2 <= 2 * Len(i) + 2
    BY <2>4
  <2>12. Reaches(Config(F, <<x>>, t), e, 2 * Len(i) + 2)
    BY <2>8, <2>9, <2>10, <2>11, Around
  <2>13. /\ 2 * Len(a) \in Nat /\ 2 * Len(text) \in Nat
         /\ 2 * Len(a) + (2 * Len(i) + 2) <= 2 * Len(text)
    BY <2>4
  <2>14. Reaches(Config(F, <<>>, a \o t), e, 2 * Len(text))
    BY <2>7, <2>11, <2>12, <2>13, ThenReaches
  <2> QED BY <2>3, <2>14 DEF Reading, e
<1>2. emit_index(a, i) = text
  BY DEF emit_index
<1>3. text = a \o (o \o (i \o q)) /\ o \o (i \o q) \in Text
  <2>1. o \in Text /\ q \in Text /\ i \in Text
    BY <1>0
  <2> HIDE DEF o, q
  <2>2. Cat(Cat(Cat(a, o), i), q) = Cat(a, Cat(o, Cat(i, q)))
    BY <2>1, Cat4, SMT
  <2>3. Cat(o, Cat(i, q)) \in Text
    BY <2>1, CatIn
  <2> QED BY <2>2, <2>3, Zenon DEF Cat
<1> QED BY <1>1, <1>2, <1>3 DEF Plain

\* Two steps are two steps.
LEMMA TwoSteps ==
  ASSUME NEW a, NEW b, NEW c, Step(a) = b, Step(b) = c
  PROVE  Reaches(a, c, 2)
<1>1. Reaches(b, c, 1) /\ 1 \in Nat /\ 1 + 1 = 2
  BY OneStep
<1>2. Reaches(a, c, 1 + 1)
  BY <1>1, StepReaches
<1> QED BY <1>1, <1>2

\* Applying a binary operator or an assignment where the operand ends.
LEMMA ApplyAtEnd ==
  ASSUME NEW f, f.kind # "string", FrameLevel(f) \in 1..8, NEW below, NEW v, NEW t, Ends(t)
  PROVE  Step(Config(<<f, below>>, <<v>>, t)) = Config(below, <<Applied(f, v)>>, t)
<1>1. SignLevel(Sign(Skip(t))) <= FrameLevel(f) /\ FrameLevel(f) \in 0..8
        /\ SignLevel(Sign(Skip(t))) \in Nat
  BY DEF Ends
<1> QED BY <1>1, AfterApplied

\* What waits for the right operand of a binary expression.
LEMMA BinaryFrame ==
  ASSUME NEW op \in DOMAIN Binaries, NEW x, NEW y, NEW below
  PROVE  LET f == Frame("binary", op, x)
         IN  /\ f.kind # "string" /\ FrameLevel(f) \in 1..8 /\ Applied(f, y) = c_binary(op, x, y)
             /\ Open(<<f, below>>)
<1> DEFINE f == Frame("binary", op, x)
<1>1. f.kind = "binary" /\ f.op = op /\ f.left = x
  BY FrameIs
<1> HIDE DEF f
<1>2. Precedence(op) \in 2..7
  BY BinarySigns
<1>3. FrameLevel(f) = Precedence(op)
  BY <1>1 DEF FrameLevel
<1>4. Applied(f, y) = c_binary(op, x, y)
  BY <1>1 DEF Applied
<1>5. Open(<<f, below>>)
  BY <1>1, OpenUnless
<1>6. FrameLevel(f) \in 1..8 /\ f.kind # "string"
  BY <1>1, <1>2, <1>3
<1> QED BY <1>4, <1>5, <1>6 DEF f

\* What waits inside parentheses.
LEMMA ParenthesisFrame ==
  ASSUME NEW below
  PROVE  LET f == Frame("(", "none", <<>>)
         IN  f.kind = "(" /\ Open(<<f, below>>) /\ ~IsTop(<<f, below>>, "string")
               /\ Level(<<f, below>>) \in 0..1
<1> DEFINE f == Frame("(", "none", <<>>)
<1>1. f.kind = "("
  BY FrameIs
<1> HIDE DEF f
<1>2. FrameLevel(f) = 0
  BY <1>1 DEF FrameLevel
<1>3. Open(<<f, below>>) /\ ~IsTop(<<f, below>>, "string") /\ Level(<<f, below>>) \in 0..1
  BY <1>1, <1>2, OpenUnless, TopIs
<1> QED BY <1>1, <1>3 DEF f

\* The text of a binary expression, from its first piece to its last.
LEMMA BinaryText ==
  ASSUME NEW op \in DOMAIN Binaries, NEW l \in Text, NEW r \in Text
  PROVE  LET text == emit_binary(op, l, r)
             p == <<"(">>  q == <<")">>  s == <<Space>>  o == Binaries[op]
         IN  /\ text \in Text /\ Len(text) \in Nat /\ Len(l) \in Nat /\ Len(r) \in Nat
             /\ Len(l) + Len(r) + 4 <= Len(text)
             /\ \A rest \in Text :
                  text \o rest = p \o (l \o (s \o (o \o (s \o (r \o (q \o rest))))))
             /\ \E rest \in Text : text = p \o rest
<1> DEFINE p == <<"(">>
           q == <<")">>
           s == <<Space>>
           o == Binaries[op]
           x == Cat(Cat(Cat(p, l), s), o)
           y == Cat(Cat(Cat(x, s), r), q)
           text == emit_binary(op, l, r)
<1>1. p \in Text /\ q \in Text /\ s \in Text /\ Len(p) = 1 /\ Len(q) = 1 /\ Len(s) = 1
  <2>1. "(" \in Pieces /\ ")" \in Pieces /\ Space \in Pieces
    BY BracketSign, MarksArePieces DEF Marks
  <2> QED BY <2>1, Heads, Nothing
<1>2. o \in Text /\ Len(o) \in 1..2
  BY SignOfBinary, Nothing
<1>3. text = y
  BY Zenon DEF emit_binary, emit_binop, Cat
<1> HIDE DEF p, q, s, o, text
<1>4. /\ x \in Text /\ Len(x) = Len(p) + Len(l) + Len(s) + Len(o) /\ Len(l) \in Nat
      /\ x = Cat(p, Cat(l, Cat(s, o)))
      /\ \A rest \in Text : Cat(x, rest) = Cat(p, Cat(l, Cat(s, Cat(o, rest))))
  <2>0. p \in Text /\ s \in Text /\ o \in Text
    BY <1>1, <1>2
  <2>1. x \in Text
    BY <2>0, Cat4, SMT
  <2>2. Len(x) = Len(p) + Len(l) + Len(s) + Len(o)
    BY <2>0, Cat4, SMT
  <2>3. Len(l) \in Nat
    BY CatLen
  <2>4. x = Cat(p, Cat(l, Cat(s, o)))
    BY <2>0, Cat4, SMT
  <2>5. ASSUME NEW rest \in Text PROVE Cat(x, rest) = Cat(p, Cat(l, Cat(s, Cat(o, rest))))
    BY <2>0, Cat4, SMT
  <2> QED BY <2>1, <2>2, <2>3, <2>4, <2>5
<1> HIDE DEF x
<1>5. /\ y \in Text /\ Len(y) = Len(x) + Len(s) + Len(r) + Len(q) /\ Len(r) \in Nat
      /\ y = Cat(x, Cat(s, Cat(r, q)))
      /\ \A rest \in Text : Cat(y, rest) = Cat(x, Cat(s, Cat(r, Cat(q, rest))))
  <2>0. x \in Text /\ s \in Text /\ q \in Text
    BY <1>1, <1>4
  <2>1. y \in Text
    BY <2>0, Cat4, SMT
  <2>2. Len(y) = Len(x) + Len(s) + Len(r) + Len(q)
    BY <2>0, Cat4, SMT
  <2>3. Len(r) \in Nat
    BY CatLen
  <2>4. y = Cat(x, Cat(s, Cat(r, q)))
    BY <2>0, Cat4, SMT
  <2>5. ASSUME NEW rest \in Text PROVE Cat(y, rest) = Cat(x, Cat(s, Cat(r, Cat(q, rest))))
    BY <2>0, Cat4, SMT
  <2> QED BY <2>1, <2>2, <2>3, <2>4, <2>5
<1> HIDE DEF y
<1>6. ASSUME NEW rest \in Text
      PROVE  Cat(y, rest) = Cat(p, Cat(l, Cat(s, Cat(o, Cat(s, Cat(r, Cat(q, rest)))))))
  <2>1. Cat(q, rest) \in Text /\ Cat(r, Cat(q, rest)) \in Text /\ Cat(s, Cat(r, Cat(q, rest))) \in Text
    BY <1>1, CatIn
  <2> QED BY <1>4, <1>5, <2>1
<1>7. ASSUME NEW rest \in Text
      PROVE  text \o rest = p \o (l \o (s \o (o \o (s \o (r \o (q \o rest))))))
  BY <1>3, <1>6, Zenon DEF Cat
<1>8. \E rest \in Text : text = p \o rest
  <2> DEFINE z == Cat(l, Cat(s, Cat(o, Cat(s, Cat(r, q)))))
  <2>1. Cat(r, q) \in Text /\ Cat(s, Cat(r, q)) \in Text /\ Cat(o, Cat(s, Cat(r, q))) \in Text
        /\ Cat(s, Cat(o, Cat(s, Cat(r, q)))) \in Text /\ z \in Text
    BY <1>1, <1>2, CatIn
  <2>2. y = Cat(p, z)
    BY <1>4, <1>5, <2>1
  <2> HIDE DEF z
  <2> QED BY <1>3, <2>1, <2>2, Zenon DEF Cat
<1>9. Len(l) + Len(r) + 4 <= Len(y) /\ Len(y) \in Nat
  <2> DEFINE n == Len(l)
             m == Len(r)
             k == Len(o)
             z == Len(x)
  <2>1. n \in Nat /\ m \in Nat /\ k \in 1..2 /\ z = 1 + n + 1 + k /\ Len(y) = z + 1 + m + 1
    BY <1>1, <1>2, <1>4, <1>5
  <2> HIDE DEF n, m, k, z
  <2>2. n + m + 4 <= Len(y) /\ Len(y) \in Nat
    BY <2>1
  <2> QED BY <2>2 DEF n, m
<1>10. text \in Text /\ Len(text) \in Nat /\ Len(l) \in Nat /\ Len(r) \in Nat
         /\ Len(l) + Len(r) + 4 <= Len(text)
  BY <1>3, <1>4, <1>5, <1>9
<1> QED BY <1>7, <1>8, <1>10 DEF p, q, s, o, text

\* What emit_binary writes is read as the binary expression, and whole
\* wherever it stands: the parentheses.
LEMMA BinaryReads ==
  ASSUME NEW op \in DOMAIN Binaries, NEW l, Starts(l), NEW x, Tight(l, x), NEW r, Starts(r), NEW y,
           Tight(r, y)
  PROVE  Plain(emit_binary(op, l, r), c_binary(op, x, y))
<1> DEFINE text == emit_binary(op, l, r)
           m == c_binary(op, x, y)
<1>0. l \in Text /\ r \in Text
  BY DEF Starts
<1>1. ASSUME NEW F, NEW rest \in Text, Open(F)
      PROVE  Reading(text, m, F, rest)
  <2> DEFINE p == <<"(">>
             q == <<")">>
             s == <<Space>>
             f == Frame("(", "none", <<>>)
             G == <<f, F>>
             g == Frame("binary", op, x)
             H == <<g, G>>
             t3 == q \o rest
             t2 == r \o t3
             t1 == s \o (Binaries[op] \o (s \o t2))
             t0 == l \o t1
             e == Config(F, <<m>>, rest)
  <2>1. /\ text \o rest = p \o t0
        /\ Len(text) \in Nat /\ Len(l) \in Nat /\ Len(r) \in Nat /\ Len(l) + Len(r) + 4 <= Len(text)
    <3>1. /\ Len(text) \in Nat /\ Len(l) \in Nat /\ Len(r) \in Nat /\ Len(l) + Len(r) + 4 <= Len(text)
          /\ \A w \in Text :
               text \o w = <<"(">> \o (l \o (<<Space>>
                   \o (Binaries[op] \o (<<Space>> \o (r \o (<<")">> \o w))))))
      BY <1>0, BinaryText, ZenonT(60)
    <3>2. text \o rest = p \o t0
      BY <3>1, Zenon
    <3> QED BY <3>1, <3>2, Zenon
  <2>2. t3 \in Text /\ Ends(t3) /\ Weak(t3)
    BY ClosingEnds
  <2>3. t2 \in Text /\ ~Begins(t2, Space)
    <3> HIDE DEF t3
    <3> QED BY <1>0, <2>2, Concat, BeginsConcat DEF Starts
  <2>4. t1 \in Text /\ Weak(t1)
    <3> HIDE DEF t2
    <3> QED BY <2>3, BinaryWeak
  <2>5. t0 \in Text
    <3> HIDE DEF t1
    <3> QED BY <1>0, <2>4, Concat
  <2>6. f.kind = "(" /\ Open(G) /\ ~IsTop(G, "string") /\ Level(G) \in 0..1
    BY ParenthesisFrame
  <2>7. g.kind # "string" /\ FrameLevel(g) \in 1..8 /\ Applied(g, y) = m /\ Open(H)
          /\ ~IsTop(H, "string")
    <3>1. g.kind # "string" /\ FrameLevel(g) \in 1..8 /\ Applied(g, y) = m /\ Open(H)
      <4> HIDE DEF G
      <4> QED BY BinaryFrame
    <3> QED BY <3>1 DEF Open
  <2>8. Step(Config(F, <<>>, p \o t0)) = Config(G, <<>>, t0)
    <3> HIDE DEF t0
    <3> QED BY <1>1, <2>5, TakeParenthesis
  <2>9. Reaches(Config(G, <<>>, t0), Config(G, <<x>>, t1), 2 * Len(l))
    <3> HIDE DEF t1, G
    <3> QED BY <2>4, <2>6 DEF Tight, Reading
  <2>10. Step(Config(G, <<x>>, t1)) = Config(H, <<>>, s \o t2)
    <3> HIDE DEF t2, G
    <3> QED BY <2>3, <2>6, AfterBinary
  <2>11. Reaches(Config(H, <<>>, s \o t2), Config(H, <<y>>, t3), 2 * Len(r))
    <3>1. Reaches(Config(H, <<>>, t2), Config(H, <<y>>, t3), 2 * Len(r))
      <4> HIDE DEF t3, H
      <4> QED BY <2>2, <2>7 DEF Tight, Reading
    <3>2. 2 * Len(r) \in Nat
      BY <2>1
    <3> HIDE DEF t2, t3, H
    <3> QED BY <2>3, <2>7, <3>1, <3>2, Spaced
  <2>12. Step(Config(H, <<y>>, t3)) = Config(G, <<m>>, t3)
    <3> HIDE DEF t3, g, G, m
    <3> QED BY <2>2, <2>7, ApplyAtEnd
  <2>13. Step(Config(G, <<m>>, t3)) = e
    <3>1. Step(Config(G, <<m>>, Cat(q, rest))) = e
      <4> HIDE DEF f, m
      <4> QED BY <2>6, CloseParenthesis
    <3> QED BY <3>1, Zenon DEF Cat
  <2> HIDE DEF p, q, s, f, G, g, H, t3, t2, t1, t0, e, text, m
  <2> DEFINE n == Len(l)
             k == Len(r)
             h == Len(text)
  <2>14. /\ 2 * n \in Nat /\ 2 * k \in Nat /\ 2 \in Nat /\ 2 * n + 2 \in Nat /\ 2 * k + 2 \in Nat
              /\ 2 * h \in Nat
         /\ 2 * n + 2 <= 2 * n + 2 /\ 2 * k + 2 <= 2 * k + 2 /\ (2 * n + 2) + (2 * k + 2) <= 2 * h
    <3>1. n \in Nat /\ k \in Nat /\ h \in Nat /\ n + k + 4 <= h
      BY <2>1
    <3> HIDE DEF n, k, h
    <3> QED BY <3>1
  <2> HIDE DEF n, k, h
  <2>15. Reaches(Config(F, <<>>, p \o t0), Config(H, <<>>, s \o t2), 2 * n + 2)
    BY <2>8, <2>9, <2>10, <2>14, Around DEF n
  <2>16. Reaches(Config(H, <<>>, s \o t2), e, 2 * k + 2)
    <3>1. Reaches(Config(H, <<y>>, t3), e, 2)
      BY <2>12, <2>13, TwoSteps
    <3> QED BY <2>11, <2>14, <3>1, ThenReaches DEF k
  <2>17. Reaches(Config(F, <<>>, p \o t0), e, 2 * h)
    BY <2>14, <2>15, <2>16, ThenReaches
  <2> QED BY <2>1, <2>17 DEF Reading, e, h
<1> HIDE DEF text, m
<1>2. Plain(text, m)
  BY <1>1 DEF Plain
<1> QED BY <1>2 DEF text, m

\* The text of an assignment.
LEMMA AssignText ==
  ASSUME NEW l \in Text, NEW r \in Text
  PROVE  LET text == emit_assign(l, r)
             s == <<Space>>  o == <<"=">>
         IN  /\ text \in Text /\ Len(text) \in Nat /\ Len(l) \in Nat /\ Len(r) \in Nat
             /\ Len(l) + Len(r) + 3 <= Len(text)
             /\ \A rest \in Text : text \o rest = l \o (s \o (o \o (s \o (r \o rest))))
             /\ \E rest \in Text : text = l \o rest
<1> DEFINE s == <<Space>>
           o == <<"=">>
           z == Cat(s, Cat(o, s))
           y == Cat(Cat(l, z), r)
           text == emit_assign(l, r)
<1>1. s \in Text /\ o \in Text /\ Len(o) = 1 /\ Len(s) = 1 /\ <<Space, "=", Space>> = z /\ z \in Text
  <2>1. "=" \in Pieces /\ Space \in Pieces
    BY MarksArePieces DEF Marks
  <2>2. <<Space, "=", Space>> = <<Space>> \o (<<"=">> \o <<Space>>)
    <3>1. <<Space, "=", Space>> = <<Space>> \o <<"=", Space>>
      <4> DEFINE u == Space
                 w == "="
      <4> HIDE DEF u, w
      <4>1. <<u, w, u>> = <<u>> \o <<w, u>>
        OBVIOUS
      <4> QED BY <4>1 DEF u, w
    <3>2. <<"=", Space>> = <<"=">> \o <<Space>>
      BY <2>1, PairOf
    <3> QED BY <3>1, <3>2, Zenon
  <2>3. s \in Text /\ o \in Text /\ Len(o) = 1 /\ Len(s) = 1
    BY <2>1, Heads, Nothing
  <2>4. <<Space, "=", Space>> = z
    BY <2>2, Zenon DEF Cat
  <2> HIDE DEF s, o
  <2>5. z \in Text
    BY <2>3, CatIn
  <2> QED BY <2>3, <2>4, <2>5
<1> HIDE DEF s, o
<1>2. text = y
  BY <1>1, Zenon DEF emit_assign, Cat
<1> HIDE DEF text
<1>3. /\ Cat(l, z) \in Text /\ y \in Text /\ Cat(z, r) \in Text /\ y = Cat(l, Cat(z, r))
  BY <1>1, CatIn, CatAssoc
<1>4. ASSUME NEW rest \in Text
      PROVE  Cat(y, rest) = Cat(l, Cat(s, Cat(o, Cat(s, Cat(r, rest)))))
  <2>1. Cat(r, rest) \in Text /\ Cat(o, s) \in Text
    BY <1>1, CatIn
  <2>2. Cat(y, rest) = Cat(l, Cat(z, Cat(r, rest)))
    <3> HIDE DEF z
    <3> QED BY <1>1, <1>3, <2>1, CatAssoc
  <2>3. Cat(z, Cat(r, rest)) = Cat(s, Cat(o, Cat(s, Cat(r, rest))))
    BY <1>1, <2>1, CatAssoc
  <2> QED BY <2>2, <2>3
<1>5. ASSUME NEW rest \in Text
      PROVE  text \o rest = l \o (s \o (o \o (s \o (r \o rest))))
  BY <1>2, <1>4, Zenon DEF Cat
<1>6. \E rest \in Text : text = l \o rest
  BY <1>2, <1>3, Zenon DEF Cat
<1>7. Len(l) + Len(r) + 3 <= Len(y) /\ Len(y) \in Nat /\ Len(l) \in Nat /\ Len(r) \in Nat
  <2>1. Len(Cat(o, s)) = Len(o) + Len(s) /\ Cat(o, s) \in Text
    BY <1>1, CatLen, CatIn
  <2>2. Len(z) = Len(s) + Len(Cat(o, s))
    BY <1>1, <2>1, CatLen
  <2> HIDE DEF z
  <2>3. Len(Cat(l, z)) = Len(l) + Len(z) /\ Len(l) \in Nat
    BY <1>1, CatLen
  <2> DEFINE x == Cat(l, z)
  <2>4. x \in Text
    BY <1>3
  <2>5. Len(Cat(x, r)) = Len(x) + Len(r) /\ Len(r) \in Nat
    <3> HIDE DEF x
    <3> QED BY <2>4, CatLen
  <2>6. Len(y) = Len(Cat(x, r))
    OBVIOUS
  <2> HIDE DEF y
  <2> QED BY <1>1, <2>1, <2>2, <2>3, <2>5, <2>6
<1> QED BY <1>2, <1>3, <1>5, <1>6, <1>7 DEF s, o, text

\* What waits for the value of an assignment.
LEMMA AssignFrame ==
  ASSUME NEW x, NEW y, NEW below
  PROVE  LET f == Frame("assign", "none", x)
         IN  /\ f.kind # "string" /\ FrameLevel(f) \in 1..8 /\ Applied(f, y) = c_assign(x, y)
             /\ Open(<<f, below>>) /\ Level(<<f, below>>) \in 0..1
<1> DEFINE f == Frame("assign", "none", x)
<1>1. f.kind = "assign" /\ f.left = x
  BY FrameIs
<1> HIDE DEF f
<1>2. FrameLevel(f) = 1
  BY <1>1 DEF FrameLevel
<1>3. Applied(f, y) = c_assign(x, y)
  BY <1>1 DEF Applied
<1>4. Open(<<f, below>>) /\ Level(<<f, below>>) \in 0..1
  BY <1>1, <1>2, OpenUnless, TopIs
<1>5. FrameLevel(f) \in 1..8 /\ f.kind # "string"
  BY <1>1, <1>2
<1> QED BY <1>3, <1>4, <1>5 DEF f

\* What emit_assign writes is read as the assignment where nothing but
\* brackets and assignments waits.
LEMMA AssignReads ==
  ASSUME NEW l, Starts(l), NEW x, Tight(l, x), NEW r, Starts(r), NEW y, Loose(r, y)
  PROVE  Loose(emit_assign(l, r), c_assign(x, y))
<1> DEFINE text == emit_assign(l, r)
           m == c_assign(x, y)
<1>0. l \in Text /\ r \in Text
  BY DEF Starts
<1>1. ASSUME NEW F, NEW rest \in Text, Open(F), Level(F) \in 0..1, Ends(rest)
      PROVE  Reading(text, m, F, rest)
  <2> DEFINE s == <<Space>>
             g == Frame("assign", "none", x)
             H == <<g, F>>
             t2 == r \o rest
             t1 == s \o (<<"=">> \o (s \o t2))
             t0 == l \o t1
             e == Config(F, <<m>>, rest)
  <2>1. /\ text \o rest = t0
        /\ Len(text) \in Nat /\ Len(l) \in Nat /\ Len(r) \in Nat /\ Len(l) + Len(r) + 3 <= Len(text)
    <3>1. /\ Len(text) \in Nat /\ Len(l) \in Nat /\ Len(r) \in Nat /\ Len(l) + Len(r) + 3 <= Len(text)
          /\ \A w \in Text :
               text \o w = l \o (<<Space>> \o (<<"=">> \o (<<Space>> \o (r \o w))))
      BY <1>0, AssignText, Zenon
    <3>2. text \o rest = t0
      BY <3>1, Zenon
    <3> QED BY <3>1, <3>2, Zenon
  <2>3. t2 \in Text /\ ~Begins(t2, Space)
    BY <1>0, Concat, BeginsConcat DEF Starts
  <2>4. t1 \in Text /\ Weak(t1)
    <3> HIDE DEF t2
    <3> QED BY <2>3, EqualWeak
  <2>6. ~IsTop(F, "string")
    BY <1>1 DEF Open
  <2>7. g.kind # "string" /\ FrameLevel(g) \in 1..8 /\ Applied(g, y) = m /\ Open(H)
          /\ ~IsTop(H, "string")
        /\ Level(H) \in 0..1
    <3>1. g.kind # "string" /\ FrameLevel(g) \in 1..8 /\ Applied(g, y) = m /\ Open(H)
            /\ Level(H) \in 0..1
      BY AssignFrame
    <3> QED BY <3>1 DEF Open
  <2>9. Reaches(Config(F, <<>>, t0), Config(F, <<x>>, t1), 2 * Len(l))
    <3> HIDE DEF t1
    <3> QED BY <1>1, <2>4 DEF Tight, Reading
  <2>10. Step(Config(F, <<x>>, t1)) = Config(H, <<>>, s \o t2)
    <3> HIDE DEF t2
    <3> QED BY <1>1, <2>3, <2>6, AfterEqual
  <2>11. Reaches(Config(H, <<>>, s \o t2), Config(H, <<y>>, rest), 2 * Len(r))
    <3>1. Reaches(Config(H, <<>>, t2), Config(H, <<y>>, rest), 2 * Len(r))
      <4> HIDE DEF H
      <4> QED BY <1>1, <2>7 DEF Loose, Reading
    <3>2. 2 * Len(r) \in Nat
      BY <2>1
    <3> HIDE DEF t2, H
    <3> QED BY <2>3, <2>7, <3>1, <3>2, Spaced
  <2>12. Step(Config(H, <<y>>, rest)) = e
    <3> HIDE DEF g, m
    <3> QED BY <1>1, <2>7, ApplyAtEnd
  <2> HIDE DEF s, g, H, t2, t1, t0, e, text, m
  <2> DEFINE n == Len(l)
             k == Len(r)
             h == Len(text)
  <2>14. /\ 2 * n \in Nat /\ 2 * k \in Nat /\ 1 \in Nat /\ 2 * k + 2 \in Nat /\ 2 * h \in Nat
         /\ 2 * k + 2 <= 2 * k + 2 /\ 2 * n + (2 * k + 2) <= 2 * h
    <3>1. n \in Nat /\ k \in Nat /\ h \in Nat /\ n + k + 3 <= h
      BY <2>1
    <3> HIDE DEF n, k, h
    <3> QED BY <3>1
  <2> HIDE DEF n, k, h
  <2>15. Reaches(Config(F, <<x>>, t1), e, 2 * k + 2)
    BY <2>10, <2>11, <2>12, <2>14, Around DEF k
  <2>16. Reaches(Config(F, <<>>, t0), e, 2 * h)
    BY <2>9, <2>14, <2>15, ThenReaches DEF n
  <2> QED BY <2>1, <2>16 DEF Reading, e, h
<1> HIDE DEF text, m
<1>2. Loose(text, m)
  BY <1>1 DEF Loose
<1> QED BY <1>2 DEF text, m

\* A name or a number is read as that anywhere.
LEMMA WordReads ==
  ASSUME NEW p \in Pieces, p \notin Marks
  PROVE  Plain(<<p>>, c_leaf(Operand(p)))
<1> DEFINE t == <<p>>
           m == c_leaf(Operand(p))
<1>1. ASSUME NEW F, NEW rest \in Text, Open(F)
      PROVE  Reading(t, m, F, rest)
  <2>1. Step(Config(F, <<>>, t \o rest)) = Config(F, <<m>>, rest)
    BY <1>1, TakePiece
  <2>2. Len(t) = 1
    OBVIOUS
  <2> DEFINE c == Config(F, <<>>, t \o rest)
             d == Config(F, <<m>>, rest)
  <2> HIDE DEF c, d, t
  <2>3. Reaches(c, d, 1)
    BY <2>1, OneStep DEF c, d
  <2>4. PICK k \in 0..1 : Steps(c, k) = d
    BY <2>3 DEF Reaches
  <2>5. k \in 0..(2 * Len(t))
    BY <2>2
  <2> QED BY <2>4, <2>5 DEF Reaches, Reading, c, d
<1> HIDE DEF t, m
<1>2. Plain(t, m)
  BY <1>1 DEF Plain
<1> QED BY <1>2 DEF t, m

\* So is a character that needs no escape.
LEMMA CharacterReads ==
  ASSUME NEW p \in Pieces, p \notin {"'", "\\", "\n"}
  PROVE  Plain(<<"'", p, "'">>, c_leaf(expr_char(p))) /\ Starts(<<"'", p, "'">>)
<1> DEFINE q == "'"
           t == <<q, p, q>>
           m == c_leaf(expr_char(p))
<1>0. q \in Pieces /\ q # Space /\ q # "="
  BY BracketSign
<1> HIDE DEF q
<1>1. t \in Text /\ Len(t) = 3 /\ t # <<>> /\ t[1] = q
  <2>1. t \in Seq(Pieces) /\ Len(t) = 3 /\ t # <<>> /\ t[1] = q
    BY <1>0
  <2> QED BY <2>1 DEF Text
<1>2. ASSUME NEW rest \in Text PROVE t \o rest = <<q>> \o (<<p>> \o (<<q>> \o rest))
  <2>1. <<q, p>> \in Text /\ <<q>> \in Text /\ <<p>> \in Text
    BY <1>0, Heads, TwoPieces
  <2>2. t = Cat(<<q>>, Cat(<<p>>, <<q>>))
    BY DEF Cat
  <2>3. Cat(<<p>>, <<q>>) \in Text
    BY <2>1, CatIn
  <2> DEFINE a == <<q>>
             b == <<p>>
  <2>4. a \in Text /\ b \in Text /\ t = Cat(a, Cat(b, a)) /\ Cat(b, a) \in Text
    BY <2>1, <2>2, <2>3
  <2> HIDE DEF a, b, t
  <2>5. Cat(t, rest) = Cat(a, Cat(b, Cat(a, rest)))
    BY <2>4, CatAssoc
  <2> QED BY <2>5, Zenon DEF Cat, a, b
<1>3. ASSUME NEW F, NEW rest \in Text, Open(F)
      PROVE  Reading(t, m, F, rest)
  <2> DEFINE c == Config(F, <<>>, t \o rest)
             d == Config(F, <<m>>, rest)
  <2>1. Step(c) = d
    <3>1. Step(Config(F, <<>>, <<"'">> \o (<<p>> \o (<<"'">> \o rest)))) = d
      BY <1>3, TakeCharacter
    <3>2. t \o rest = <<q>> \o (<<p>> \o (<<q>> \o rest))
      BY <1>2
    <3> HIDE DEF t, d
    <3> QED BY <3>1, <3>2, Zenon DEF q
  <2> HIDE DEF c, d, t
  <2>3. Reaches(c, d, 1)
    BY <2>1, OneStep
  <2>4. PICK k \in 0..1 : Steps(c, k) = d
    BY <2>3 DEF Reaches
  <2>5. k \in 0..(2 * Len(t))
    BY <1>1
  <2> QED BY <2>4, <2>5 DEF Reaches, Reading, c, d
<1> HIDE DEF t, m
<1>4. Plain(t, m)
  BY <1>3 DEF Plain
<1>5. Starts(t)
  BY <1>0, <1>1 DEF Starts, Begins
<1> QED BY <1>4, <1>5 DEF t, m, q

\* A string literal.
Quoted(w) == (<<Quote>> \o w) \o <<Quote>>

\* So is a string literal, as the characters it spells.
LEMMA StringReads ==
  ASSUME NEW w, NEW chars, Spells(w, chars)
  PROVE  Plain(Quoted(w), c_leaf(expr_string(chars))) /\ Starts(Quoted(w))
<1> DEFINE q == <<Quote>>
           m == c_leaf(expr_string(chars))
           t == Quoted(w)
<1>0. w \in Text /\ chars \in Text
  BY DEF Spells
<1>1. q \in Text /\ Len(q) = 1 /\ Quote \in Pieces
  BY BracketSign, Heads, Nothing
<1>2. t \in Text /\ Len(t) = Len(w) + 2 /\ Len(w) \in Nat
  <2>1. q \o w \in Text /\ Len(q \o w) = 1 + Len(w) /\ Len(w) \in Nat
    BY <1>0, <1>1, Concat
  <2> DEFINE x == q \o w
  <2>2. x \in Text /\ Len(x) = 1 + Len(w)
    BY <2>1
  <2> HIDE DEF x
  <2>3. x \o q \in Text /\ Len(x \o q) = Len(x) + Len(q)
    BY <1>1, <2>2, Concat
  <2>4. Len(x \o q) = Len(w) + 2
    BY <1>1, <2>1, <2>2, <2>3
  <2> QED BY <2>1, <2>3, <2>4 DEF x, Quoted
<1>3. ASSUME NEW rest \in Text PROVE t \o rest = q \o (w \o (q \o rest)) /\ w \o (q \o rest) \in Text
               /\ q \o rest \in Text
  <2>1. Cat(q, rest) \in Text /\ Cat(q, w) \in Text /\ Cat(w, Cat(q, rest)) \in Text
    <3> HIDE DEF q
    <3> QED BY <1>0, <1>1, CatIn
  <2>2. Cat(Cat(Cat(q, w), q), rest) = Cat(q, Cat(w, Cat(q, rest)))
    <3> HIDE DEF q
    <3> QED BY <1>0, <1>1, <2>1, CatAssoc
  <2> QED BY <2>1, <2>2, Zenon DEF Cat, Quoted
<1>4. ASSUME NEW F, NEW rest \in Text, Open(F)
      PROVE  Reading(t, m, F, rest)
  <2> DEFINE v == q \o rest
             u == w \o v
             a == Config(F, <<>>, t \o rest)
             b == Config(InString(<<>>, F), <<>>, u)
             c == Config(InString(chars, F), <<>>, v)
             d == Config(F, <<m>>, rest)
  <2>1. t \o rest = q \o u /\ v \in Text /\ u \in Text
    BY <1>3
  <2>2. Step(a) = b
    <3> HIDE DEF u
    <3>1. Step(Config(F, <<>>, q \o u)) = b
      BY <1>4, <2>1, TakeQuote DEF InString
    <3> HIDE DEF t, q
    <3> QED BY <2>1, <3>1
  <2>3. Reaches(b, c, Len(w))
    <3> HIDE DEF v
    <3>1. Reaches(b, Config(InString(<<>> \o chars, F), <<>>, v), Len(w))
      BY <2>1, Nothing DEF Spells
    <3>2. <<>> \o chars = chars
      BY <1>0, Nothing
    <3> QED BY <3>1, <3>2
  <2>4. Step(c) = d
    BY TakeClosingQuote
  <2> HIDE DEF a, b, c, d, t
  <2> DEFINE n == Len(w)
             h == Len(t)
  <2>5. n \in Nat /\ h = n + 2
    BY <1>2
  <2> HIDE DEF n, h
  <2>6. n \in Nat /\ 2 * h \in Nat /\ n + 2 <= 2 * h
    BY <2>5
  <2>7. Reaches(a, d, 2 * h)
    BY <2>2, <2>3, <2>4, <2>6, Around DEF n
  <2> QED BY <2>7 DEF Reading, a, d, h
<1>5. Starts(t)
  <2>1. (<<Quote>> \o w) \o <<Quote>> = <<Quote>> \o (w \o <<Quote>>) /\ w \o <<Quote>> \in Text
    BY <1>0, <1>1, Concat, Assoc, ZenonT(60)
  <2> DEFINE u == w \o <<Quote>>
  <2>2. u \in Text /\ t = <<Quote>> \o u
    BY <2>1 DEF Quoted
  <2> HIDE DEF u, t
  <2>3. t # <<>> /\ t[1] = Quote
    BY <1>1, <2>2, Heads
  <2> QED BY <1>2, <2>3, PiecesDiffer DEF Starts, Begins
<1> HIDE DEF t, m
<1>6. Plain(t, m)
  BY <1>4 DEF Plain
<1> QED BY <1>5, <1>6 DEF t, m

\* FlattenSeq of texts is a text, joined from the left.
LEMMA FlattenTexts ==
  ASSUME NEW seqs \in Seq(Text)
  PROVE  \E w : /\ w \in [0..Len(seqs) -> Text] /\ w[0] = <<>> /\ FlattenSeq(seqs) = w[Len(seqs)]
               /\ \A k \in 1..Len(seqs) : w[k] = Cat(w[k - 1], seqs[k])
<1>1. seqs \in Seq(Seq(Pieces))
  BY DEF Text
<1>2. PICK w \in [0..Len(seqs) -> Seq(Pieces)] :
           /\ w[0] = <<>>
           /\ \A i \in 1..Len(seqs) : w[i] = w[i - 1] \o seqs[i]
           /\ FlattenSeq(seqs) = w[Len(seqs)]
  BY <1>1, FlattenIs
<1>3. \A k \in 1..Len(seqs) : w[k] = Cat(w[k - 1], seqs[k])
  BY <1>2, Zenon DEF Cat
<1>4. w \in [0..Len(seqs) -> Text]
  BY <1>2 DEF Text
<1> QED BY <1>2, <1>3, <1>4

\* The loop of EXPR_STRING writes what spells the characters.
LEMMA EscapesSpell ==
  ASSUME NEW chars \in Text
  PROVE  Spells(FlattenSeq([n \in DOMAIN chars |-> escape(chars[n])]), chars)
<1> DEFINE n == Len(chars)
           seqs == [k \in DOMAIN chars |-> escape(chars[k])]
           x(k) == SubSeq(chars, 1, k)
<1>1. n \in Nat /\ DOMAIN chars = 1..n /\ \A k \in 1..n : chars[k] \in Pieces
  BY DEF Text
<1>2. \A k \in 1..n : Spells(escape(chars[k]), <<chars[k]>>)
  <2> HIDE DEF n
  <2> QED BY <1>1, SpellsEscape
<1>3. seqs \in Seq(Text) /\ Len(seqs) = n /\ \A k \in 1..n : seqs[k] = escape(chars[k])
  <2>1. \A k \in 1..n : escape(chars[k]) \in Text
    <3> HIDE DEF n
    <3> QED BY <1>2 DEF Spells
  <2> HIDE DEF n
  <2>2. seqs \in [1..n -> Text] /\ \A k \in 1..n : seqs[k] = escape(chars[k])
    BY <1>1, <2>1
  <2> HIDE DEF seqs
  <2> QED BY <1>1, <2>2, FunctionSeq
<1>4. x(0) = <<>> /\ x(n) = chars /\ \A k \in 1..n : x(k) = x(k - 1) \o <<chars[k]>>
  <2>1. x(0) = <<>>
    BY SubSeqEmpty
  <2>2. x(n) = chars
    BY SubSeqFull DEF Text
  <2>3. ASSUME NEW k \in 1..n PROVE x(k) = x(k - 1) \o <<chars[k]>>
    <3>1. 1 \in 1..n /\ k \in 1..n
      BY <1>1
    <3>2. SubSeq(chars, 1, k) = SubSeq(chars, 1, k - 1) \o <<chars[k]>>
      BY <3>1, SubSeqRecursiveSecond DEF Text
    <3> QED BY <3>2
  <2> QED BY <2>1, <2>2, <2>3
<1> HIDE DEF n, seqs, x
<1>5. PICK w : /\ w \in [0..n -> Text] /\ w[0] = <<>> /\ FlattenSeq(seqs) = w[n]
               /\ \A k \in 1..n : w[k] = Cat(w[k - 1], seqs[k])
  BY <1>3, FlattenTexts
<1> DEFINE G == {k \in 0..n : Spells(w[k], x(k))}
<1>6. 0 \in G
  BY <1>1, <1>4, <1>5, SpellsNothing
<1>7. ASSUME NEW k \in 0..n, k < n, k \in G PROVE k + 1 \in G
  <2> DEFINE i == k + 1
  <2>1. i \in 1..n /\ i - 1 = k /\ i \in 0..n
    BY <1>1, <1>7
  <2>2. Spells(w[k], x(k))
    BY <1>7
  <2> HIDE DEF i
  <2>3. Spells(escape(chars[i]), <<chars[i]>>)
    BY <1>2, <2>1
  <2>4. w[i] = w[k] \o escape(chars[i]) /\ x(i) = x(k) \o <<chars[i]>>
    <3>1. w[i] = Cat(w[k], seqs[i]) /\ seqs[i] = escape(chars[i])
      BY <1>3, <1>5, <2>1
    <3>2. x(i) = x(k) \o <<chars[i]>>
      BY <1>4, <2>1
    <3> QED BY <3>1, <3>2, Zenon DEF Cat
  <2>5. Spells(w[k] \o escape(chars[i]), x(k) \o <<chars[i]>>)
    BY <2>2, <2>3, SpellsMore
  <2>6. Spells(w[i], x(i))
    BY <2>4, <2>5
  <2>7. i \in G
    BY <2>1, <2>6
  <2> QED BY <2>7 DEF i
<1>8. n \in G
  <2> HIDE DEF G
  <2>1. \A k \in 0..n : k \in G
    BY <1>1, <1>6, <1>7, UpTo
  <2> QED BY <1>1, <2>1
<1>9. Spells(FlattenSeq(seqs), chars)
  BY <1>4, <1>5, <1>8
<1> QED BY <1>9 DEF seqs

\* A string of the source is read as the same string.
LEMMA LiteralReads ==
  ASSUME NEW chars \in Text
  PROVE  Plain(emit_string(chars), c_leaf(expr_string(chars))) /\ Starts(emit_string(chars))
         /\ Begins(emit_string(chars), Quote)
<1> DEFINE w == FlattenSeq([n \in DOMAIN chars |-> escape(chars[n])])
<1>1. Spells(w, chars)
  BY EscapesSpell
<1>2. emit_string(chars) = Quoted(w)
  BY Zenon DEF emit_string, Quoted
<1> HIDE DEF w
<1>3. Begins(Quoted(w), Quote)
  <2> DEFINE q == <<Quote>>
             u == Cat(w, q)
  <2>1. Quote \in Pieces /\ q \in Text /\ w \in Text
    BY <1>1, BracketSign, Heads, Nothing DEF Spells
  <2>2. u \in Text /\ Cat(Cat(q, w), q) = Cat(q, u)
    <3> HIDE DEF q
    <3> QED BY <2>1, CatIn, CatAssoc
  <2> HIDE DEF u
  <2>3. Quoted(w) = q \o u
    BY <2>2, Zenon DEF Cat, Quoted
  <2> QED BY <2>1, <2>2, <2>3, BeginsWith
<1> QED BY <1>1, <1>2, <1>3, StringReads

\* What a prefix can stand before.
Signless(text) == \A p \in {"-", "&", "+"} : ~Begins(text, p)

\* A name or a number, as the text of an expression.
LEMMA OneWord ==
  ASSUME NEW p \in Pieces, p \notin Marks
  PROVE  Plain(<<p>>, c_leaf(Operand(p))) /\ Starts(<<p>>) /\ Signless(<<p>>)
<1>1. Plain(<<p>>, c_leaf(Operand(p)))
  BY WordReads
<1>2. <<p>> \in Text /\ <<p>> # <<>> /\ <<p>>[1] = p
  BY Heads, Nothing
<1>3. p # Space /\ p # "=" /\ p \notin {"-", "&", "+"}
  BY DEF Marks
<1> DEFINE t == <<p>>
<1> HIDE DEF t
<1>4. \A q : Begins(t, q) => q = p
  BY <1>2 DEF Begins, t
<1>5. Starts(t) /\ Signless(t)
  BY <1>2, <1>3, <1>4 DEF Starts, Signless, t
<1> QED BY <1>1, <1>5 DEF t

\* What emit_literal writes is read as it was meant, if the number prints
\* as it was spelled and the character needs no escape.
LEMMA LeafReads ==
  ASSUME NEW e, IsLeaf(e), e.kind = "float" => Floats[e.value[1]] = e.value[1],
         e.kind = "char" => e.value[1] \notin {"NUL", "\n", "'", "\\"}
  PROVE  /\ Plain(emit_literal(e), c_leaf(MeantLeaf(e)))
         /\ Starts(emit_literal(e)) /\ Signless(emit_literal(e))
<1>1. ASSUME NEW x \in Integers, e = expr_int(x) PROVE e.kind = "int" /\ emit_literal(e) = <<x>>
               /\ MeantLeaf(e) = e
  BY <1>1 DEF expr_int, emit_literal, MeantLeaf
<1>2. ASSUME NEW x \in Integers, e = expr_int(x)
      PROVE  Plain(emit_literal(e), c_leaf(MeantLeaf(e))) /\ Starts(emit_literal(e))
               /\ Signless(emit_literal(e))
  <2>1. x \in Pieces /\ x \notin Marks /\ Operand(x) = expr_int(x)
    BY ExpressionsAssumption DEF Operand
  <2> QED BY <1>1, <1>2, <2>1, OneWord
<1>3. ASSUME NEW x \in DOMAIN Floats, e = expr_float(x)
      PROVE  Plain(emit_literal(e), c_leaf(MeantLeaf(e))) /\ Starts(emit_literal(e))
               /\ Signless(emit_literal(e))
  <2>1. e.kind = "float" /\ e.value[1] = x
    BY <1>3 DEF expr_float
  <2>2. Floats[x] = x
    BY <2>1
  <2>3. emit_literal(e) = <<x>> /\ MeantLeaf(e) = e
    BY <2>1, <2>2 DEF emit_literal, MeantLeaf
  <2>4. x \in Range(Floats) /\ x \notin Integers
    BY <2>2, ExpressionsAssumption DEF Range
  <2>5. x \in Pieces /\ x \notin Marks /\ Operand(x) = expr_float(x)
    BY <2>4, ExpressionsAssumption DEF Operand
  <2> QED BY <1>3, <2>3, <2>5, OneWord
<1>4. ASSUME NEW x \in {"true", "false"}, e = expr_bool(x)
      PROVE  Plain(emit_literal(e), c_leaf(MeantLeaf(e))) /\ Starts(emit_literal(e))
               /\ Signless(emit_literal(e))
  <2>1. e.kind = "bool" /\ e.value[1] = x
    BY <1>4 DEF expr_bool
  <2> DEFINE y == IF x = "true" THEN "1" ELSE "0"
  <2>2. emit_literal(e) = <<y>> /\ MeantLeaf(e) = expr_int(y)
    BY <2>1 DEF emit_literal, MeantLeaf
  <2>3. y \in Integers
    BY ExpressionsAssumption
  <2> HIDE DEF y
  <2>4. y \in Pieces /\ y \notin Marks /\ Operand(y) = expr_int(y)
    BY <2>3, ExpressionsAssumption DEF Operand
  <2> QED BY <2>2, <2>4, OneWord
<1>5. ASSUME e = expr_string(e.value), e.value \in Seq(Pieces)
      PROVE  Plain(emit_literal(e), c_leaf(MeantLeaf(e))) /\ Starts(emit_literal(e))
               /\ Signless(emit_literal(e))
  <2>1. e.kind = "string"
    BY <1>5 DEF expr_string
  <2>2. emit_literal(e) = emit_string(e.value) /\ MeantLeaf(e) = e
    BY <2>1 DEF emit_literal, MeantLeaf
  <2>3. e.value \in Text
    BY <1>5 DEF Text
  <2> DEFINE t == emit_string(e.value)
  <2>4. Plain(t, c_leaf(expr_string(e.value))) /\ Starts(t) /\ Begins(t, Quote)
    BY <2>3, LiteralReads
  <2> HIDE DEF t
  <2>5. Signless(t)
    BY <2>4, PiecesDiffer DEF Begins, Signless
  <2> QED BY <1>5, <2>2, <2>4, <2>5 DEF t
<1>6. ASSUME e.kind = "char", e = expr_char(e.value[1]), e.value[1] \in Pieces
      PROVE  Plain(emit_literal(e), c_leaf(MeantLeaf(e))) /\ Starts(emit_literal(e))
               /\ Signless(emit_literal(e))
  <2> DEFINE c == e.value[1]
             t == <<"'", c, "'">>
  <2>1. c \in Pieces /\ c # "NUL" /\ c # "\n" /\ c # "'" /\ c # "\\"
    BY <1>6
  <2>2. emit_literal(e) = t /\ MeantLeaf(e) = e
    BY <1>6, <2>1 DEF emit_literal, MeantLeaf
  <2>3. e = expr_char(c)
    BY <1>6
  <2> HIDE DEF c
  <2>4. Plain(t, c_leaf(expr_char(c))) /\ Starts(t)
    BY <2>1, CharacterReads
  <2>5. Signless(t)
    BY DEF Signless, Begins
  <2> HIDE DEF t
  <2> QED BY <2>2, <2>3, <2>4, <2>5
<1>7. ASSUME e = expr_null
      PROVE  Plain(emit_literal(e), c_leaf(MeantLeaf(e))) /\ Starts(emit_literal(e))
               /\ Signless(emit_literal(e))
  <2>1. e.kind = "null"
    BY <1>7 DEF expr_null
  <2>2. emit_literal(e) = <<"NULL">> /\ MeantLeaf(e) = expr_ident("NULL")
    BY <2>1 DEF emit_literal, MeantLeaf
  <2>3. IsName("NULL")
    BY ExpressionsAssumption
  <2>4. "NULL" \in Pieces /\ "NULL" \notin Marks /\ Operand("NULL") = expr_ident("NULL")
    BY <2>3 DEF Operand, IsName
  <2> QED BY <2>2, <2>4, OneWord
<1>8. ASSUME e.kind = "ident", e = expr_ident(e.value[1]), IsName(e.value[1])
      PROVE  Plain(emit_literal(e), c_leaf(MeantLeaf(e))) /\ Starts(emit_literal(e))
               /\ Signless(emit_literal(e))
  <2> DEFINE x == e.value[1]
  <2>1. emit_literal(e) = e.value /\ MeantLeaf(e) = e
    BY <1>8 DEF emit_literal, MeantLeaf
  <2>2. e.value = <<x>>
    BY <1>8 DEF expr_ident
  <2>3. x \in Pieces /\ x \notin Marks /\ Operand(x) = expr_ident(x) /\ e = expr_ident(x)
    BY <1>8 DEF Operand, IsName
  <2> HIDE DEF x
  <2> QED BY <2>1, <2>2, <2>3, OneWord
<1> QED BY <1>2, <1>3, <1>4, <1>5, <1>6, <1>7, <1>8 DEF IsLeaf

-----------------------------------------------------------------------------
(* Calls                                                                   *)

\* The machine inside a call, where the arguments up to the k-th are read.
InCall(name, m, k, F, rest) == Config(<<Frame("call", name, SubSeq(m, 1, k - 1)), F>>, <<m[k]>>, rest)

\* What waits inside a call.
LEMMA CallFrame ==
  ASSUME NEW name, NEW left, NEW below
  PROVE  LET f == Frame("call", name, left)
         IN  /\ f.kind = "call" /\ f.op = name /\ f.left = left
             /\ Open(<<f, below>>) /\ ~IsTop(<<f, below>>, "string") /\ Level(<<f, below>>) \in 0..1
<1> DEFINE f == Frame("call", name, left)
<1>1. f.kind = "call" /\ f.op = name /\ f.left = left
  BY FrameIs
<1> HIDE DEF f
<1>2. FrameLevel(f) = 0
  BY <1>1 DEF FrameLevel
<1>3. Open(<<f, below>>) /\ ~IsTop(<<f, below>>, "string") /\ Level(<<f, below>>) \in 0..1
  BY <1>1, <1>2, OpenUnless, TopIs
<1> QED BY <1>1, <1>3 DEF f

\* A name is read as a name.
LEMMA NameIs ==
  ASSUME NEW name, IsName(name)
  PROVE  /\ name \in Pieces /\ name \notin Marks /\ Operand(name) = expr_ident(name)
         /\ c_leaf(Operand(name)).tree.kind = "ident" /\ c_leaf(Operand(name)).tree.value[1] = name
<1>1. name \in Pieces /\ name \notin Marks /\ Operand(name) = expr_ident(name)
  BY DEF IsName, Operand
<1>2. expr_ident(name).kind = "ident" /\ expr_ident(name).value[1] = name
  BY DEF expr_ident
<1> DEFINE e == expr_ident(name)
<1> HIDE DEF e
<1>3. c_leaf(e).tree = e
  BY DEF c_leaf
<1> QED BY <1>1, <1>2, <1>3 DEF e

\* The name of a function and its first argument are read.
LEMMA FirstArgument ==
  ASSUME NEW name, IsName(name), NEW t, Starts(t), NEW M, NEW m \in Seq(M), m # <<>>, Loose(t, m[1]),
         NEW F, Open(F), NEW rest \in Text, Ends(rest)
  PROVE  Reaches(Config(F, <<>>, Cat(<<name>>, Cat(<<"(">>, Cat(t, rest)))),
           InCall(name, m, 1, F, rest),
                 2 * Len(t) + 2)
<1> DEFINE x == c_leaf(Operand(name))
           f == Frame("call", name, <<>>)
           G == <<f, F>>
           u == Cat(t, rest)
           v == Cat(<<"(">>, u)
           a == Config(F, <<>>, Cat(<<name>>, v))
           b == Config(F, <<x>>, v)
           c == Config(G, <<>>, u)
           d == Config(G, <<m[1]>>, rest)
<1>0. t \in Text /\ Len(t) \in Nat
  BY Nothing DEF Starts, Text
<1>1. u \in Text /\ v \in Text
  <2>1. u \in Text
    BY <1>0, CatIn
  <2> HIDE DEF u
  <2>2. "(" \in Pieces
    BY BracketSign
  <2> QED BY <2>1, <2>2, Heads DEF Cat
<1>2. Step(a) = b
  <2> HIDE DEF v
  <2> QED BY <1>1, NameIs, TakePiece DEF Cat
<1>3. Step(b) = c
  <2>1. x.tree.kind = "ident" /\ x.tree.value[1] = name /\ ~IsTop(F, "string")
    BY NameIs DEF Open
  <2> HIDE DEF x, u
  <2>2. Step(Config(F, <<x>>, <<"(">> \o u)) = Config(<<Frame("call", x.tree.value[1], <<>>), F>>, <<>>,
          u)
    BY <1>1, <2>1, AfterBracket
  <2> QED BY <2>1, <2>2 DEF Cat
<1>4. Open(G) /\ Level(G) \in 0..1
  BY CallFrame
<1>5. Reaches(c, d, 2 * Len(t))
  <2>1. Reaches(Config(G, <<>>, t \o rest), Config(G, <<m[1]>>, rest), 2 * Len(t))
    <3> HIDE DEF G
    <3> QED BY <1>4 DEF Loose, Reading
  <2> QED BY <2>1, Zenon DEF Cat
<1>6. InCall(name, m, 1, F, rest) = d
  <2>1. SubSeq(m, 1, 1 - 1) = <<>>
    BY SubSeqEmpty
  <2> QED BY <2>1 DEF InCall
<1> HIDE DEF a, b, c, d
<1>7. Reaches(a, c, 2)
  BY <1>2, <1>3, TwoSteps
<1> DEFINE n == Len(t)
<1> HIDE DEF n
<1>8. n \in Nat /\ 2 * n \in Nat /\ 2 \in Nat /\ 2 * n + 2 \in Nat /\ 2 + 2 * n <= 2 * n + 2
  BY <1>0 DEF n
<1>9. Reaches(a, d, 2 * n + 2)
  BY <1>5, <1>7, <1>8, ThenReaches DEF n
<1> QED BY <1>6, <1>9 DEF a, n

\* So is each argument behind a separator.
LEMMA AnotherArgument ==
  ASSUME NEW name, NEW t, Starts(t), NEW M, NEW m \in Seq(M), NEW k \in Nat \ {0}, k + 1 <= Len(m),
         Loose(t, m[k + 1]), NEW F, NEW rest \in Text, Ends(rest)
  PROVE  /\ Reaches(InCall(name, m, k, F, Cat(Cat(Separator, t), rest)),
              InCall(name, m, k + 1, F, rest),
                    2 * Len(Cat(Separator, t)))
         /\ Ends(Cat(Cat(Separator, t), rest))
         /\ Cat(Separator, t) \in Text /\ Cat(Cat(Separator, t), rest) \in Text
<1> DEFINE s == <<Comma>>
           o == <<Space>>
           y == SubSeq(m, 1, k - 1)
           f == Frame("call", name, y)
           g == Frame("call", name, SubSeq(m, 1, k))
           G == <<g, F>>
           u == Cat(t, rest)
           v == o \o u
           a == Config(<<f, F>>, <<m[k]>>, Cat(s, v))
           b == Config(G, <<>>, v)
           d == Config(G, <<m[k + 1]>>, rest)
<1>0. t \in Text /\ Len(t) \in Nat
  BY Nothing DEF Starts, Text
<1>1. Comma \in Pieces /\ Space \in Pieces /\ s \in Text /\ o \in Text /\ Len(s) = 1 /\ Len(o) = 1
  BY BracketSign, MarksArePieces, Heads, Nothing DEF Marks
<1>2. Separator = Cat(s, o) /\ Separator \in Text /\ Len(Separator) = 2
  <2>1. Separator = s \o o /\ Separator \in Text /\ Len(Separator) = 2
    BY <1>1, PairOf DEF Separator, Text
  <2> QED BY <2>1, Zenon DEF Cat
<1>3. u \in Text /\ ~Begins(u, Space)
  BY <1>0, Concat, BeginsConcat DEF Starts, Cat
<1> HIDE DEF u
<1>4. v \in Text /\ v = Cat(o, u)
  BY <1>1, <1>3, Heads DEF Cat
<1>5. Cat(Cat(Separator, t), rest) = Cat(s, v) /\ Cat(Separator, t) \in Text
  <2> HIDE DEF s, o, v
  <2>1. Cat(o, t) \in Text /\ Cat(Separator, t) \in Text
    BY <1>0, <1>1, <1>2, CatIn
  <2>2. Cat(Separator, t) = Cat(s, Cat(o, t))
    BY <1>0, <1>1, <1>2, CatAssoc
  <2>3. Cat(Cat(s, Cat(o, t)), rest) = Cat(s, Cat(Cat(o, t), rest))
    BY <1>1, <2>1, CatAssoc
  <2>4. Cat(Cat(o, t), rest) = Cat(o, Cat(t, rest))
    BY <1>0, <1>1, CatAssoc
  <2> QED BY <1>4, <2>1, <2>2, <2>3, <2>4 DEF u
<1>6. Step(a) = b
  <2> HIDE DEF v
  <2>1. f.kind = "call" /\ f.op = name /\ f.left = SubSeq(m, 1, k - 1)
    <3> HIDE DEF y
    <3>1. f.kind = "call" /\ f.op = name /\ f.left = y
      BY FrameIs
    <3> QED BY <3>1 DEF y
  <2> HIDE DEF f, y
  <2>2. Step(a) = Config(<<Frame("call", f.op, Append(f.left, m[k])), F>>, <<>>, v)
    <3> DEFINE z == m[k]
    <3> HIDE DEF z
    <3>1. v \in Text /\ f.kind = "call"
      BY <1>4, <2>1
    <3>2. Step(Config(<<f, F>>, <<z>>, Cat(<<Comma>>, v)))
            = Config(<<Frame("call", f.op, Append(f.left, z)), F>>, <<>>, v)
      BY <3>1, NextArgument
    <3> QED BY <3>2 DEF z
  <2> USE DEF y
  <2>3. Append(SubSeq(m, 1, k - 1), m[k]) = SubSeq(m, 1, k)
    <3>1. 1 \in 1..Len(m) /\ k \in 1..Len(m) /\ k - 1 \in Int /\ \A i \in 1..(k - 1) : i \in 1..Len(m)
      OBVIOUS
    <3>2. SubSeq(m, 1, k) = SubSeq(m, 1, k - 1) \o <<m[k]>>
      BY <3>1, SubSeqRecursiveSecond
    <3>3. \A i \in 1..(k - 1) : m[i] \in M
      BY <3>1
    <3>4. SubSeq(m, 1, k - 1) \in Seq(M) /\ m[k] \in M
      BY <3>1, <3>3, SubSeqProperties
    <3> DEFINE z == m[k]
    <3>5. y \in Seq(M) /\ z \in M
      BY <3>4
    <3> HIDE DEF y, z
    <3>6. Append(y, z) = y \o <<z>>
      BY <3>5, AppendIsConcat, Zenon
    <3> QED BY <3>2, <3>6, Zenon DEF y, z
  <2> QED BY <2>1, <2>2, <2>3
<1>7. Reaches(b, d, 2 * Len(t))
  <2>1. Open(G) /\ Level(G) \in 0..1 /\ ~IsTop(G, "string")
    BY CallFrame
  <2> HIDE DEF G
  <2>2. Reaches(Config(G, <<>>, t \o rest), Config(G, <<m[k + 1]>>, rest), 2 * Len(t))
    BY <2>1 DEF Loose, Reading
  <2>3. Reaches(Config(G, <<>>, u), Config(G, <<m[k + 1]>>, rest), 2 * Len(t))
    BY <2>2, Zenon DEF Cat, u
  <2>4. 2 * Len(t) \in Nat
    BY <1>0
  <2> QED BY <1>3, <2>1, <2>3, <2>4, Spaced
<1>8. InCall(name, m, k, F, Cat(Cat(Separator, t), rest)) = a /\ InCall(name, m, k + 1, F, rest) = d
  <2>1. k + 1 - 1 = k
    OBVIOUS
  <2> QED BY <1>5, <2>1 DEF InCall
<1>9. Len(Cat(Separator, t)) = 2 + Len(t)
  BY <1>0, <1>2, CatLen
<1>10. Ends(Cat(s, v)) /\ Cat(s, v) \in Text
  <2> HIDE DEF v
  <2> QED BY <1>4, ClosingEnds DEF Cat
<1> HIDE DEF a, b, d
<1> DEFINE n == Len(t)
           h == Len(Cat(Separator, t))
<1>11. n \in Nat /\ h = 2 + n
  BY <1>0, <1>9
<1>12. Reaches(b, d, 2 * n)
  BY <1>7
<1> HIDE DEF n, h
<1>13. 2 * n \in Nat /\ 1 \in Nat /\ 2 * h \in Nat /\ 1 + 2 * n <= 2 * h
  BY <1>11
<1>14. Reaches(a, b, 1)
  BY <1>6, OneStep
<1>15. Reaches(a, d, 2 * h)
  BY <1>12, <1>13, <1>14, ThenReaches
<1> QED BY <1>5, <1>8, <1>10, <1>15 DEF h

\* The arguments behind the first, as emit_call separates them.
Separated(t, w, n) ==
  /\ w \in [0..n -> Text] /\ w[0] = <<>>
  /\ \A k \in 1..n : w[k] = Cat(w[k - 1], Cat(Separator, t[k + 1]))

\* So are all of them.
LEMMA ArgumentsRead ==
  ASSUME NEW name, IsName(name), NEW M, NEW m \in Seq(M), NEW n \in Nat, Len(m)
           = n + 1, NEW t, NEW w, Separated(t, w, n),
         \A k \in 1..(n + 1) : Starts(t[k]) /\ Loose(t[k], m[k]), NEW F, Open(F)
  PROVE  \A rest \in Text :
           Ends(rest) =>
             Reaches(Config(F, <<>>, Cat(<<name>>, Cat(<<"(">>, Cat(t[1], Cat(w[n], rest))))),
                     InCall(name, m, n + 1, F, rest), 2 * Len(t[1]) + 2 + 2 * Len(w[n]))
<1> DEFINE start(k, rest) == Config(F, <<>>, Cat(<<name>>, Cat(<<"(">>, Cat(t[1], Cat(w[k], rest)))))
           bound(k) == 2 * Len(t[1]) + 2 + 2 * Len(w[k])
           G == {k \in 0..n : \A rest \in Text :
                   Ends(rest) => Reaches(start(k, rest), InCall(name, m, k + 1, F, rest), bound(k))}
<1>1. /\ w \in [0..n -> Text] /\ w[0] = <<>>
      /\ \A k \in 1..n : w[k] = Cat(w[k - 1], Cat(Separator, t[k + 1]))
  BY DEF Separated
<1>2. 1 \in 1..(n + 1) /\ Starts(t[1]) /\ Loose(t[1], m[1]) /\ Len(t[1]) \in Nat /\ t[1] \in Text
  <2>1. 1 \in 1..(n + 1)
    OBVIOUS
  <2>2. Starts(t[1]) /\ Loose(t[1], m[1])
    BY <2>1
  <2> QED BY <2>1, <2>2, Nothing DEF Starts, Text
<1>3. 0 \in G
  <2>1. ASSUME NEW rest \in Text, Ends(rest)
        PROVE  Reaches(start(0, rest), InCall(name, m, 0 + 1, F, rest), bound(0))
    <3>1. m # <<>>
      OBVIOUS
    <3> DEFINE x == t[1]
    <3>2. Starts(x) /\ Loose(x, m[1])
      BY <1>2
    <3> HIDE DEF x
    <3>3. Reaches(Config(F, <<>>, Cat(<<name>>, Cat(<<"(">>, Cat(x, rest)))),
            InCall(name, m, 1, F, rest),
                  2 * Len(x) + 2)
      BY <2>1, <3>1, <3>2, FirstArgument
    <3>4. Cat(w[0], rest) = rest
      BY <1>1, Nothing DEF Cat
    <3>5. bound(0) = 2 * Len(x) + 2
      <4>1. Len(w[0]) = 0
        BY <1>1, Nothing
      <4>2. Len(x) \in Nat
        BY <1>2 DEF x
      <4> QED BY <4>1, <4>2 DEF x
    <3> HIDE DEF bound
    <3> QED BY <3>3, <3>4, <3>5 DEF x
  <2>2. 0 \in 0..n
    OBVIOUS
  <2> HIDE DEF start, bound
  <2> QED BY <2>1, <2>2
<1>4. ASSUME NEW k \in 0..n, k < n, k \in G PROVE k + 1 \in G
  <2> DEFINE i == k + 1
             x == t[i + 1]
             s == Cat(Separator, x)
  <2>1. i \in 1..n /\ i - 1 = k /\ i \in 0..n /\ i + 1 \in 1..(n + 1) /\ i \in Nat \ {0}
          /\ i + 1 <= Len(m)
    BY <1>4
  <2> HIDE DEF i
  <2>2. Starts(x) /\ Loose(x, m[i + 1])
    BY <2>1
  <2>3. w[i] = Cat(w[k], s) /\ w[k] \in Text /\ w[i] \in Text
    BY <1>1, <2>1
  <2> HIDE DEF x
  <2>4. ASSUME NEW rest \in Text, Ends(rest)
        PROVE  Reaches(start(i, rest), InCall(name, m, i + 1, F, rest), bound(i))
    <3>1. /\ Reaches(InCall(name, m, i, F, Cat(s, rest)), InCall(name, m, i + 1, F, rest), 2 * Len(s))
          /\ Ends(Cat(s, rest)) /\ s \in Text /\ Cat(s, rest) \in Text
      BY <2>1, <2>2, <2>4, AnotherArgument
    <3> HIDE DEF s
    <3>2. Reaches(start(k, Cat(s, rest)), InCall(name, m, i, F, Cat(s, rest)), bound(k))
      <4> HIDE DEF start, bound
      <4> QED BY <1>4, <3>1 DEF i
    <3>3. start(k, Cat(s, rest)) = start(i, rest)
      <4>1. Cat(w[k], Cat(s, rest)) = Cat(w[i], rest)
        BY <2>3, <3>1, CatAssoc
      <4> QED BY <4>1
    <3>4. bound(k) \in Nat /\ 2 * Len(s) \in Nat /\ bound(i) \in Nat
            /\ bound(k) + 2 * Len(s) <= bound(i)
      <4> DEFINE y == w[k]
      <4>1. y \in Text
        BY <2>3
      <4> HIDE DEF y
      <4>2. Len(Cat(y, s)) = Len(y) + Len(s) /\ Len(y) \in Nat /\ Len(s) \in Nat
        BY <3>1, <4>1, CatLen
      <4> DEFINE p == Len(y)
                 q == Len(s)
                 r == Len(t[1])
      <4>3. p \in Nat /\ q \in Nat /\ r \in Nat /\ Len(w[i]) = p + q /\ Len(w[k]) = p
        BY <1>2, <2>3, <4>2 DEF y
      <4>4. bound(k) = 2 * r + 2 + 2 * p /\ bound(i) = 2 * r + 2 + 2 * (p + q)
        BY <4>3
      <4> HIDE DEF p, q, r, bound
      <4>5. bound(k) \in Nat /\ 2 * q \in Nat /\ bound(i) \in Nat /\ bound(k) + 2 * q <= bound(i)
        BY <4>3, <4>4
      <4> QED BY <4>5 DEF q
    <3> HIDE DEF start, bound
    <3> QED BY <3>1, <3>2, <3>3, <3>4, ThenReaches
  <2> HIDE DEF start, bound
  <2>5. i \in G
    BY <2>1, <2>4
  <2> QED BY <2>5 DEF i
<1>5. n \in G
  <2> HIDE DEF G
  <2>1. \A k \in 0..n : k \in G
    BY <1>3, <1>4, UpTo
  <2> QED BY <2>1
<1> QED BY <1>5

\* A call is read as its name with the arguments in their order.
LEMMA CallReads ==
  ASSUME NEW name, IsName(name), NEW M, NEW m \in Seq(M), NEW n \in Nat, Len(m)
           = n + 1, NEW t, NEW w, Separated(t, w, n),
         \A k \in 1..(n + 1) : Starts(t[k]) /\ Loose(t[k], m[k])
  PROVE  LET text == Cat(Cat(Cat(<<name, "(">>, t[1]), w[n]), <<")">>)
         IN  Plain(text, c_call(name, m)) /\ Starts(text) /\ Signless(text)
<1> DEFINE h == <<name>>
           o == <<"(">>
           q == <<")">>
           x == t[1]
           y == w[n]
           p == <<name, "(">>
           text == Cat(Cat(Cat(p, x), y), q)
           v == c_call(name, m)
<1>1. name \in Pieces /\ name \notin Marks /\ "(" \in Pieces /\ ")" \in Pieces
  BY NameIs, BracketSign
<1>2. /\ h \in Text /\ o \in Text /\ q \in Text /\ p \in Text /\ p = Cat(h, o) /\ Len(p) = 2 /\ Len(q)
           = 1
  <2>1. h \in Text /\ o \in Text /\ q \in Text /\ Len(q) = 1
    BY <1>1, Heads, Nothing
  <2>2. p = h \o o /\ p \in Text /\ Len(p) = 2
    BY <1>1, PairOf DEF Text
  <2> QED BY <2>1, <2>2, Zenon DEF Cat
<1>3. x \in Text /\ y \in Text
  <2>1. 1 \in 1..(n + 1) /\ n \in 0..n
    OBVIOUS
  <2> QED BY <2>1 DEF Starts, Separated
<1>4. ASSUME NEW F, NEW rest \in Text, Open(F)
      PROVE  Reading(text, v, F, rest)
  <2> DEFINE z == Cat(q, rest)
             a == Config(F, <<>>, Cat(h, Cat(o, Cat(x, Cat(y, z)))))
             e == Config(F, <<v>>, rest)
             c == InCall(name, m, n + 1, F, z)
  <2>1. z \in Text /\ Ends(z)
    BY ClosingEnds DEF Cat
  <2>2. Reaches(a, c, 2 * Len(x) + 2 + 2 * Len(y))
    <3> HIDE DEF z
    <3> QED BY <1>4, <2>1, ArgumentsRead
  <2>3. Step(c) = e
    <3> DEFINE l == SubSeq(m, 1, n)
               f == Frame("call", name, l)
               u == m[n + 1]
    <3>1. n + 1 - 1 = n
      OBVIOUS
    <3>2. c = Config(<<f, F>>, <<u>>, z)
      BY <3>1 DEF InCall
    <3>3. Append(l, u) = m
      <4>1. n + 1 \in 1..(n + 1) /\ 1 \in 1..(n + 1) /\ \A i \in 1..n : i \in 1..(n + 1)
        OBVIOUS
      <4>2. SubSeq(m, 1, n + 1) = SubSeq(m, 1, n) \o <<m[n + 1]>>
        BY <3>1, <4>1, SubSeqRecursiveSecond
      <4>3. SubSeq(m, 1, n + 1) = m
        BY SubSeqFull
      <4>4. l \in Seq(M) /\ u \in M
        BY <4>1, SubSeqProperties
      <4> HIDE DEF l, u
      <4>5. Append(l, u) = l \o <<u>>
        BY <4>4, AppendIsConcat, Zenon
      <4> QED BY <4>2, <4>3, <4>5, Zenon DEF l, u
    <3> HIDE DEF l, u
    <3>4. f.kind = "call" /\ f.op = name /\ f.left = l
      BY FrameIs
    <3> HIDE DEF f
    <3>5. Step(Config(<<f, F>>, <<u>>, Cat(<<")">>, rest)))
            = Config(F, <<c_call(f.op, Append(f.left, u))>>, rest)
      BY <3>4, CloseCall
    <3> QED BY <3>2, <3>3, <3>4, <3>5
  <2>4. Cat(text, rest) = Cat(h, Cat(o, Cat(x, Cat(y, z))))
    <3> HIDE DEF h, o, p, q, x, y
    <3>0. p \in Text /\ q \in Text
      BY <1>2
    <3>1. Cat(text, rest) = Cat(p, Cat(x, Cat(y, Cat(q, rest))))
      BY <1>3, <3>0, Cat4, SMT
    <3>2. Cat(y, z) \in Text /\ Cat(x, Cat(y, z)) \in Text
      BY <1>3, <2>1, CatIn
    <3>3. Cat(p, Cat(x, Cat(y, z))) = Cat(h, Cat(o, Cat(x, Cat(y, z))))
      <4> HIDE DEF z
      <4> QED BY <1>2, <3>2, CatAssoc
    <3> QED BY <3>1, <3>3
  <2>5. Len(text) = 2 + Len(x) + Len(y) + 1 /\ Len(x) \in Nat /\ Len(y) \in Nat
    <3>0. p \in Text /\ q \in Text
      BY <1>2
    <3> HIDE DEF h, o, p, q, x, y
    <3>1. Len(text) = Len(p) + Len(x) + Len(y) + Len(q)
      BY <1>3, <3>0, Cat4, SMT
    <3>2. Len(x) \in Nat /\ Len(y) \in Nat
      BY <1>3, CatLen
    <3> HIDE DEF text
    <3> QED BY <1>2, <3>1, <3>2
  <2> HIDE DEF a, c, e, text
  <2> DEFINE i == Len(x)
             j == Len(y)
             k == Len(text)
  <2>6. i \in Nat /\ j \in Nat /\ k = 2 + i + j + 1
    BY <2>5
  <2>7. Reaches(a, c, 2 * i + 2 + 2 * j)
    BY <2>2
  <2> HIDE DEF i, j, k
  <2>8. 2 * i + 2 + 2 * j \in Nat /\ 1 \in Nat /\ 2 * k \in Nat /\ (2 * i + 2 + 2 * j) + 1 <= 2 * k
    BY <2>6
  <2>9. Reaches(c, e, 1)
    BY <2>3, OneStep
  <2>10. Reaches(a, e, 2 * k)
    BY <2>7, <2>8, <2>9, ThenReaches
  <2>11. a = Config(F, <<>>, text \o rest)
    BY <2>4, Zenon DEF a, Cat
  <2> QED BY <2>10, <2>11 DEF Reading, e, k
<1>5. Starts(text) /\ Signless(text)
  <2>0. name # Space /\ name # "=" /\ name \notin {"-", "&", "+"}
    BY <1>1 DEF Marks
  <2> DEFINE z == Cat(o, Cat(x, Cat(y, q)))
  <2>1. text \in Text /\ z \in Text /\ text = Cat(h, z)
    <3> HIDE DEF h, o, p, q, x, y
    <3>0. p \in Text /\ q \in Text
      BY <1>2
    <3>1. text \in Text /\ text = Cat(p, Cat(x, Cat(y, q)))
      <4>1. text \in Text
        BY <1>3, <3>0, Cat4, SMT
      <4>2. text = Cat(p, Cat(x, Cat(y, q)))
        BY <1>3, <3>0, Cat4, SMT
      <4> QED BY <4>1, <4>2
    <3>2. Cat(y, q) \in Text /\ Cat(x, Cat(y, q)) \in Text /\ z \in Text
      BY <1>2, <1>3, CatIn
    <3>3. Cat(p, Cat(x, Cat(y, q))) = Cat(h, z)
      BY <1>2, <3>2, CatAssoc
    <3> QED BY <3>1, <3>2, <3>3
  <2> HIDE DEF text, z
  <2>2. text # <<>> /\ text[1] = name
    BY <1>1, <2>1, Heads DEF Cat
  <2>3. \A r : Begins(text, r) => r = name
    BY <2>2 DEF Begins
  <2> QED BY <2>0, <2>1, <2>2, <2>3 DEF Starts, Signless
<1> HIDE DEF text, v
<1>6. Plain(text, v)
  BY <1>4 DEF Plain
<1> QED BY <1>5, <1>6 DEF text, v

\* After writes the separator before each argument.
LEMMA AfterIs ==
  ASSUME NEW sep \in Text, NEW args \in Seq(Text)
  PROVE  \E w : /\ w \in [0..Len(args) -> Text] /\ w[0] = <<>> /\ After(sep, args) = w[Len(args)]
                /\ \A k \in 1..Len(args) : w[k] = Cat(w[k - 1], Cat(sep, args[k]))
<1> DEFINE n == Len(args)
           seqs == [k \in DOMAIN args |-> sep \o args[k]]
<1>1. n \in Nat /\ DOMAIN args = 1..n /\ \A k \in 1..n : args[k] \in Text
  OBVIOUS
<1>2. \A k \in 1..n : seqs[k] = Cat(sep, args[k])
  BY <1>1, Zenon DEF Cat
<1>3. seqs = [k \in 1..n |-> Cat(sep, args[k])]
  BY <1>1, Zenon DEF Cat
<1> HIDE DEF n
<1>4. After(sep, args) = FlattenSeq(seqs)
  BY Zenon DEF After
<1> HIDE DEF seqs
<1>5. seqs \in Seq(Text) /\ Len(seqs) = n
  <2>1. \A k \in 1..n : Cat(sep, args[k]) \in Text
    BY <1>1, CatIn
  <2>2. seqs \in [1..n -> Text]
    BY <1>3, <2>1
  <2> QED BY <1>1, <2>2, FunctionSeq
<1>6. PICK w : /\ w \in [0..n -> Text] /\ w[0] = <<>> /\ FlattenSeq(seqs) = w[n]
               /\ \A k \in 1..n : w[k] = Cat(w[k - 1], seqs[k])
  BY <1>5, FlattenTexts
<1>7. \A k \in 1..n : w[k] = Cat(w[k - 1], Cat(sep, args[k]))
  BY <1>2, <1>6
<1> QED BY <1>4, <1>6, <1>7 DEF n

\* The first argument and the rest.
LEMMA FirstIs ==
  ASSUME NEW args \in Seq(Text), NEW n \in Nat, Len(args) = n + 1
  PROVE  /\ First(args) \in Seq(Text) /\ Len(First(args)) = 1 /\ First(args)[1] = args[1]
              /\ args[1] \in Text
         /\ Rest(args) \in Seq(Text) /\ Len(Rest(args)) = n /\ \A k \in 1..n : Rest(args)[k]
              = args[k + 1]
<1>1. /\ 1 \in Int /\ 2 \in Int /\ n + 1 \in Int /\ 1 <= 1
      /\ \A i \in 1..1 : i \in 1..Len(args)
      /\ \A i \in 2..(n + 1) : i \in 1..Len(args)
      /\ 1 \in 1..1 /\ 1 - 1 + 1 = 1 /\ 1 + 1 - 1 = 1
      /\ (IF 2 <= n + 1 THEN n + 1 - 2 + 1 ELSE 0) = n
      /\ \A k \in 1..n : k \in 1..(n + 1 - 2 + 1) /\ 2 + k - 1 = k + 1
  OBVIOUS
<1>2. \A i \in 1..Len(args) : args[i] \in Text
  OBVIOUS
<1>3. First(args) \in Seq(Text) /\ Len(First(args)) = 1 /\ First(args)[1] = args[1] /\ args[1] \in Text
  <2>1. \A i \in 1..1 : args[i] \in Text
    BY <1>1, <1>2
  <2>2. /\ SubSeq(args, 1, 1) \in Seq(Text)
        /\ Len(SubSeq(args, 1, 1)) = IF 1 <= 1 THEN 1 - 1 + 1 ELSE 0
        /\ \A i \in 1..(1 - 1 + 1) : SubSeq(args, 1, 1)[i] = args[1 + i - 1]
    BY <1>1, <2>1, SubSeqProperties
  <2> QED BY <1>1, <2>1, <2>2 DEF First
<1>4. Rest(args) \in Seq(Text) /\ Len(Rest(args)) = n /\ \A k \in 1..n : Rest(args)[k] = args[k + 1]
  <2>1. \A i \in 2..(n + 1) : args[i] \in Text
    BY <1>1, <1>2
  <2>2. /\ SubSeq(args, 2, n + 1) \in Seq(Text)
        /\ Len(SubSeq(args, 2, n + 1)) = IF 2 <= n + 1 THEN n + 1 - 2 + 1 ELSE 0
        /\ \A i \in 1..(n + 1 - 2 + 1) : SubSeq(args, 2, n + 1)[i] = args[2 + i - 1]
    BY <1>1, <2>1, SubSeqProperties
  <2>3. Rest(args) = SubSeq(args, 2, n + 1)
    BY DEF Rest
  <2> DEFINE r == SubSeq(args, 2, n + 1)
  <2>4. \A k \in 1..n : r[k] = args[2 + k - 1]
    BY <1>1, <2>2
  <2>5. \A k \in 1..n : r[k] = args[k + 1]
    BY <1>1, <2>4
  <2> QED BY <1>1, <2>2, <2>3, <2>5
<1> QED BY <1>3, <1>4

\* The separators are texts.
LEMMA SeparatorIs == Separator \in Text /\ <<Cast>> \in Text
<1>1. Comma \in Pieces /\ Space \in Pieces /\ Cast \in Pieces
  BY MarksArePieces DEF Marks
<1> QED BY <1>1, PairOf, Heads, Nothing DEF Separator, Text

\* The text of a call that is not of print or its like.
LEMMA CallText ==
  ASSUME NEW name, name \notin Printing, NEW args \in Seq(Text), NEW n \in Nat, Len(args) = n + 1
  PROVE  \E w : /\ Separated(args, w, n)
                /\ emit_call(name, args) = Cat(Cat(Cat(<<name, "(">>, args[1]), w[n]), <<")">>)
<1>1. FlattenSeq(First(args)) = args[1]
  <2> DEFINE f == First(args)
  <2>1. f \in Seq(Text) /\ Len(f) = 1 /\ f[1] = args[1] /\ args[1] \in Text
    BY FirstIs
  <2> HIDE DEF f
  <2>2. PICK w : /\ w \in [0..Len(f) -> Text] /\ w[0] = <<>> /\ FlattenSeq(f) = w[Len(f)]
                 /\ \A k \in 1..Len(f) : w[k] = Cat(w[k - 1], f[k])
    BY <2>1, FlattenTexts
  <2>3. 1 \in 1..Len(f) /\ 1 - 1 = 0
    BY <2>1
  <2>4. w[1] = Cat(<<>>, args[1])
    BY <2>1, <2>2, <2>3
  <2>5. Cat(<<>>, args[1]) = args[1]
    BY <2>1, Nothing DEF Cat
  <2> QED BY <2>1, <2>2, <2>4, <2>5 DEF f
<1>2. PICK w : /\ w \in [0..n -> Text] /\ w[0] = <<>> /\ After(Separator, Rest(args)) = w[n]
               /\ \A k \in 1..n : w[k] = Cat(w[k - 1], Cat(Separator, args[k + 1]))
  <2> DEFINE r == Rest(args)
  <2>1. r \in Seq(Text) /\ Len(r) = n /\ \A k \in 1..n : r[k] = args[k + 1]
    BY FirstIs
  <2> HIDE DEF r
  <2>0. Separator \in Text
    BY SeparatorIs
  <2>2. PICK w : /\ w \in [0..n -> Text] /\ w[0] = <<>> /\ After(Separator, r) = w[n]
                 /\ \A k \in 1..n : w[k] = Cat(w[k - 1], Cat(Separator, r[k]))
    <3>1. PICK w : /\ w \in [0..Len(r) -> Text] /\ w[0] = <<>> /\ After(Separator, r) = w[Len(r)]
                   /\ \A k \in 1..Len(r) : w[k] = Cat(w[k - 1], Cat(Separator, r[k]))
      BY <2>0, <2>1, AfterIs
    <3> QED BY <2>1, <3>1
  <2>3. \A k \in 1..n : w[k] = Cat(w[k - 1], Cat(Separator, args[k + 1]))
    BY <2>1, <2>2
  <2> QED BY <2>2, <2>3 DEF r
<1>3. name # "print" /\ name # "println" /\ name # "print_int" /\ name # "print_float"
  BY DEF Printing
<1>4. emit_call(name, args) = ((<<name, "(">> \o FlattenSeq(First(args)))
        \o After(Separator, Rest(args))) \o <<")">>
  BY <1>3, Zenon DEF emit_call
<1>5. emit_call(name, args) = Cat(Cat(Cat(<<name, "(">>, args[1]), w[n]), <<")">>)
  BY <1>1, <1>2, <1>4, Zenon DEF Cat
<1>6. Separated(args, w, n)
  BY <1>2 DEF Separated
<1> QED BY <1>5, <1>6

\* Two plain characters spell themselves.
LEMMA SpellsTwo ==
  ASSUME NEW p \in Pieces, NEW q \in Pieces, {p, q} \cap {"\n", "\t", Quote, "\\"} = {}
  PROVE  Spells(<<p, q>>, <<p, q>>)
<1>1. escape(p) = <<p>> /\ escape(q) = <<q>>
  BY DEF escape
<1>2. Spells(<<p>>, <<p>>) /\ Spells(<<q>>, <<q>>)
  BY <1>1, SpellsEscape
<1>3. Spells(<<p>> \o <<q>>, <<p>> \o <<q>>)
  BY <1>2, SpellsMore
<1>4. <<p, q>> = <<p>> \o <<q>>
  BY PairOf
<1> QED BY <1>3, <1>4, Zenon

\* A backslash and an n spell the end of a line.
LEMMA SpellsNewline == Spells(<<"\\", "n">>, <<"\n">>)
<1>1. "\n" \in Pieces
  BY MarksArePieces DEF Marks
<1>2. escape("\n") = <<"\\", "n">>
  BY PiecesDiffer DEF escape
<1> QED BY <1>1, <1>2, SpellsEscape

\* Short sequences taken apart.
LEMMA Joined ==
  ASSUME NEW a, NEW b, NEW c, NEW d
  PROVE  <<a, b, c, d>> = <<a, b>> \o <<c, d>> /\ <<a, b, c>> = <<a, b>> \o <<c>>
OBVIOUS

\* The formats of printf spell what they mean.
LEMMA FormatSpells ==
  ASSUME NEW name \in Printing
  PROVE  Spells(Formats[name], MeantFormat[name])
<1>1. {"%", "s", "l", "d", "g"} \subseteq Pieces
        /\ {"%", "s", "l", "d", "g"} \cap {"\n", "\t", Quote, "\\"} = {}
  BY PiecesDiffer, MarksArePieces, ExpressionsAssumption DEF Marks
<1>2. Spells(<<"%", "s">>, <<"%", "s">>) /\ Spells(<<"%", "g">>, <<"%", "g">>)
      /\ Spells(<<"%", "l">>, <<"%", "l">>) /\ Spells(<<"l", "d">>, <<"l", "d">>)
  <2>1. \A p, q \in {"%", "s", "l", "d", "g"} : Spells(<<p, q>>, <<p, q>>)
    BY <1>1, SpellsTwo
  <2> QED BY <2>1
<1>3. CASE name = "print"
  BY <1>2, <1>3 DEF Formats, MeantFormat
<1>4. CASE name = "println"
  <2>1. Spells(<<"%", "s">> \o <<"\\", "n">>, <<"%", "s">> \o <<"\n">>)
    BY <1>2, SpellsNewline, SpellsMore
  <2>2. Formats[name] = <<"%", "s", "\\", "n">> /\ MeantFormat[name] = <<"%", "s", "\n">>
    BY <1>4 DEF Formats, MeantFormat
  <2>3. <<"%", "s", "\\", "n">> = <<"%", "s">> \o <<"\\", "n">> /\ <<"%", "s", "\n">> = <<"%", "s">>
          \o <<"\n">>
    BY Joined, ZenonT(60)
  <2> QED BY <2>1, <2>2, <2>3, Zenon
<1>5. CASE name = "print_int"
  <2>1. Spells(<<"%", "l">> \o <<"l", "d">>, <<"%", "l">> \o <<"l", "d">>)
    BY <1>2, SpellsMore
  <2>2. Spells((<<"%", "l">> \o <<"l", "d">>) \o <<"\\", "n">>, (<<"%", "l">> \o <<"l", "d">>)
          \o <<"\n">>)
    BY <2>1, SpellsNewline, SpellsMore
  <2>3. Formats[name] = <<"%", "l", "l", "d", "\\", "n">> /\ MeantFormat[name]
          = <<"%", "l", "l", "d", "\n">>
    BY <1>5 DEF Formats, MeantFormat
  <2>4. /\ <<"%", "l", "l", "d", "\\", "n">> = (<<"%", "l">> \o <<"l", "d">>) \o <<"\\", "n">>
        /\ <<"%", "l", "l", "d", "\n">> = (<<"%", "l">> \o <<"l", "d">>) \o <<"\n">>
    <3> DEFINE a == "%"
               b == "l"
               c == "d"
               d == "\\"
               e == "n"
               f == "\n"
    <3> HIDE DEF a, b, c, d, e, f
    <3>1. <<a, b, b, c, d, e>> = (<<a, b>> \o <<b, c>>) \o <<d, e>>
      OBVIOUS
    <3>2. <<a, b, b, c, f>> = (<<a, b>> \o <<b, c>>) \o <<f>>
      OBVIOUS
    <3> QED BY <3>1, <3>2, Zenon DEF a, b, c, d, e, f
  <2> QED BY <2>2, <2>3, <2>4, Zenon
<1>6. CASE name = "print_float"
  <2>1. Spells(<<"%", "g">> \o <<"\\", "n">>, <<"%", "g">> \o <<"\n">>)
    BY <1>2, SpellsNewline, SpellsMore
  <2>2. Formats[name] = <<"%", "g", "\\", "n">> /\ MeantFormat[name] = <<"%", "g", "\n">>
    BY <1>6 DEF Formats, MeantFormat
  <2>3. <<"%", "g", "\\", "n">> = <<"%", "g">> \o <<"\\", "n">> /\ <<"%", "g", "\n">> = <<"%", "g">>
          \o <<"\n">>
    BY Joined, ZenonT(60)
  <2> QED BY <2>1, <2>2, <2>3, Zenon
<1> QED BY <1>3, <1>4, <1>5, <1>6 DEF Printing

\* The cast of print_int is read around an argument that is closed.
LEMMA CastReads ==
  ASSUME NEW text, Starts(text), NEW m, Tight(text, m)
  PROVE  Tight(Cat(<<Cast>>, text), c_unary("CAST", m)) /\ Starts(Cat(<<Cast>>, text))
<1> DEFINE s == <<Cast>>
<1>1. Cast \in Pieces /\ Cast # Space /\ Cast # "=" /\ Alone(Cast)
  BY MarksArePieces, PiecesDiffer, AloneAre DEF Marks
<1>2. PrefixOp(s) = "CAST"
  <2>1. \A p \in {"-", "!", "~", "&", "*"} : s # <<p>>
    BY PiecesDiffer
  <2>2. s # <<"+", "+">> /\ s # <<"-", "-">>
    OBVIOUS
  <2> QED BY <2>1, <2>2 DEF PrefixOp
<1>3. s \in Text /\ Len(s) \in 1..2 /\ text \in Text
  BY <1>1, Heads DEF Starts
<1>4. ASSUME NEW rest \in Text
      PROVE  /\ Sign(s \o (text \o rest)) = s /\ Behind(s \o (text \o rest)) = text \o rest
             /\ ~Begins(s \o (text \o rest), Space)
  <2> DEFINE u == text \o rest
  <2>1. u \in Text
    BY <1>3, Concat
  <2> HIDE DEF u
  <2>2. Sign(s \o u) = s /\ Behind(s \o u) = u
    BY <1>1, <2>1, SignAlone
  <2>3. ~Begins(s \o u, Space)
    BY <1>1, <2>1, BeginsWith
  <2> HIDE DEF s
  <2> QED BY <2>2, <2>3 DEF u
<1>5. Starts(s \o text)
  BY <1>1, <1>3, Heads, BeginsWith DEF Starts
<1> HIDE DEF s
<1>6. Tight(s \o text, c_unary("CAST", m))
  <2>1. "CAST" # "none"
    OBVIOUS
  <2> QED BY <1>2, <1>3, <1>4, <2>1, PrefixReads
<1> QED BY <1>5, <1>6 DEF s, Cat

\* One argument behind a separator.
LEMMA OneAfter ==
  ASSUME NEW sep \in Text, NEW x \in Text
  PROVE  After(sep, <<x>>) = Cat(sep, x) /\ First(<<x>>) = <<x>>
<1> DEFINE args == <<x>>
<1>1. args \in Seq(Text) /\ Len(args) = 1 /\ args[1] = x
  OBVIOUS
<1> HIDE DEF args
<1>2. PICK w : /\ w \in [0..Len(args) -> Text] /\ w[0] = <<>> /\ After(sep, args) = w[Len(args)]
               /\ \A k \in 1..Len(args) : w[k] = Cat(w[k - 1], Cat(sep, args[k]))
  BY <1>1, AfterIs
<1>3. w[1] = Cat(<<>>, Cat(sep, x))
  <2>1. 1 \in 1..Len(args) /\ 1 - 1 = 0
    BY <1>1
  <2> QED BY <1>1, <1>2, <2>1
<1>4. Cat(<<>>, Cat(sep, x)) = Cat(sep, x)
  <2>1. Cat(sep, x) \in Text
    BY CatIn
  <2> DEFINE y == Cat(sep, x)
  <2> HIDE DEF y
  <2>2. Cat(<<>>, y) = y
    BY <2>1, Nothing DEF Cat, y
  <2> QED BY <2>2 DEF y
<1>5. First(args) = args
  BY <1>1, SubSeqFull DEF First
<1> QED BY <1>1, <1>2, <1>3, <1>4, <1>5 DEF args

\* The text of a call of print, println, print_int or print_float with one
\* argument.
LEMMA PrintfText ==
  ASSUME NEW name \in Printing, NEW x \in Text
  PROVE  LET y == IF name = "print_int" THEN Cat(<<Cast>>, x) ELSE x
         IN  emit_call(name, <<x>>)
               = Cat(Cat(Cat(<<"printf", "(">>, Quoted(Formats[name])), Cat(Separator, y)), <<")">>)
<1> DEFINE y == IF name = "print_int" THEN Cat(<<Cast>>, x) ELSE x
           f == Formats[name]
           q == <<Quote>>
           p == <<"printf", "(">>
<1>1. Separator \in Text /\ <<Cast>> \in Text
  BY SeparatorIs
<1>2. f \in Text
  BY FormatSpells DEF Spells
<1>3. q \in Text /\ p \in Text /\ <<"printf", "(", Quote>> = Cat(p, q)
  <2>1. Quote \in Pieces /\ "(" \in Pieces /\ "printf" \in Pieces
    BY BracketSign, ExpressionsAssumption DEF IsName
  <2>2. q \in Text /\ p \in Text
    BY <2>1, Heads, PairOf, Nothing DEF Text
  <2>3. <<"printf", "(", Quote>> = p \o q
    BY Joined, Zenon
  <2> QED BY <2>2, <2>3, Zenon DEF Cat
<1>4. emit_call(name, <<x>>) = Cat(Cat(Printf(name), Cat(Separator, y)), <<")">>)
  <2>1. CASE name = "print_int"
    <3>1. emit_call(name, <<x>>) = (Printf(name) \o After(Separator \o <<Cast>>, First(<<x>>)))
            \o <<")">>
      <4>1. name \notin {"print", "println"} /\ name # "print" /\ name # "println"
              /\ name # "print_float"
        BY <2>1
      <4> DEFINE args == <<x>>
      <4> HIDE DEF args
      <4>2. emit_call(name, args) = (Printf(name) \o After(Separator \o <<Cast>>, First(args)))
              \o <<")">>
        BY <2>1, <4>1, Zenon DEF emit_call
      <4> QED BY <4>2 DEF args
    <3> DEFINE s == Cat(Separator, <<Cast>>)
    <3>2. s \in Text
      BY <1>1, CatIn
    <3>3. After(s, First(<<x>>)) = Cat(s, x)
      <4> HIDE DEF s
      <4> QED BY <3>2, OneAfter
    <3>4. Cat(s, x) = Cat(Separator, Cat(<<Cast>>, x))
      <4> DEFINE z == <<Cast>>
      <4>1. z \in Text
        BY <1>1
      <4> HIDE DEF z
      <4>2. Cat(Cat(Separator, z), x) = Cat(Separator, Cat(z, x))
        BY <1>1, <4>1, CatAssoc
      <4> QED BY <4>2 DEF z
    <3>5. y = Cat(<<Cast>>, x)
      BY <2>1
    <3>6. emit_call(name, <<x>>) = (Printf(name) \o After(s, First(<<x>>))) \o <<")">>
      BY <3>1, Zenon DEF Cat
    <3> HIDE DEF s, y
    <3>7. emit_call(name, <<x>>) = (Printf(name) \o Cat(Separator, y)) \o <<")">>
      BY <3>3, <3>4, <3>5, <3>6, Zenon
    <3> QED BY <3>7, Zenon DEF Cat
  <2>2. CASE name # "print_int"
    <3>1. emit_call(name, <<x>>) \in
            {(Printf(name) \o After(Separator, First(<<x>>)))
                \o <<")">>, (Printf(name) \o After(Separator, <<x>>)) \o <<")">>}
      <4> DEFINE args == <<x>>
      <4> HIDE DEF args
      <4>1. CASE name \in {"print", "println"}
        <5>1. emit_call(name, args) = (Printf(name) \o After(Separator, args)) \o <<")">>
          <6>1. name # "print_float"
            BY <4>1
          <6> QED BY <2>2, <4>1, <6>1, Zenon DEF emit_call
        <5> HIDE DEF args
        <5> QED BY <5>1, Zenon DEF args
      <4>2. CASE name = "print_float"
        <5>1. emit_call(name, args) = (Printf(name) \o After(Separator, First(args))) \o <<")">>
          <6>1. name # "print" /\ name # "println" /\ name \notin {"print", "println"}
            BY <4>2
          <6> QED BY <2>2, <4>2, <6>1, Zenon DEF emit_call
        <5> QED BY <5>1, Zenon DEF args
      <4>3. name \in {"print", "println"} \/ name = "print_float"
        BY <2>2 DEF Printing
      <4> QED BY <4>1, <4>2, <4>3
    <3>2. After(Separator, <<x>>) = Cat(Separator, x) /\ First(<<x>>) = <<x>>
      BY <1>1, OneAfter
    <3>3. y = x
      BY <2>2
    <3> HIDE DEF y
    <3>4. emit_call(name, <<x>>) = (Printf(name) \o Cat(Separator, y)) \o <<")">>
      BY <3>1, <3>2, <3>3, Zenon
    <3> QED BY <3>4, Zenon DEF Cat
  <2> QED BY <2>1, <2>2
<1>5. Printf(name) = Cat(p, Quoted(f))
  <2> HIDE DEF f, p, q
  <2>1. Cat(q, f) \in Text /\ Cat(Cat(q, f), q) \in Text
    BY <1>2, <1>3, CatIn
  <2>2. Cat(Cat(Cat(p, q), f), q) = Cat(p, Cat(Cat(q, f), q))
    <3>1. Cat(Cat(p, q), f) = Cat(p, Cat(q, f))
      BY <1>2, <1>3, CatAssoc
    <3>2. Cat(Cat(p, Cat(q, f)), q) = Cat(p, Cat(Cat(q, f), q))
      BY <1>2, <1>3, <2>1, CatAssoc
    <3> QED BY <3>1, <3>2
  <2>3. Printf(name) = (<<"printf", "(", Quote>> \o f) \o q
    BY Zenon DEF Printf, f, q
  <2>4. Quoted(f) = Cat(Cat(q, f), q)
    BY Zenon DEF Quoted, Cat, q
  <2>5. Printf(name) = Cat(Cat(Cat(p, q), f), q)
    BY <1>3, <2>3, Zenon DEF Cat
  <2> QED BY <2>2, <2>4, <2>5
<1> HIDE DEF p, f, y
<1>6. emit_call(name, <<x>>) = Cat(Cat(Cat(p, Quoted(f)), Cat(Separator, y)), <<")">>)
  BY <1>4, <1>5, Zenon
<1> QED BY <1>6 DEF p, f, y

\* One element and then another.
LEMMA OneThenOne == ASSUME NEW a, NEW b PROVE <<a>> \o <<b>> = <<a, b>>
<1> DEFINE S == {a, b}
<1>1. a \in S /\ b \in S
  OBVIOUS
<1> HIDE DEF S
<1> QED BY <1>1, PairOf

\* What such a call is meant to be.
LEMMA MeantPrint ==
  ASSUME NEW name \in Printing, NEW x
  PROVE  MeantCall(name, <<x>>)
           = c_call("printf", <<c_leaf(expr_string(MeantFormat[name])),
                                IF name = "print_int" THEN c_unary("CAST", x) ELSE x>>)
<1> DEFINE f == c_leaf(expr_string(MeantFormat[name]))
           args == <<x>>
           y == IF name = "print_int" THEN c_unary("CAST", x) ELSE x
           g == [n \in DOMAIN args |-> IF n = 1 /\ name
               = "print_int" THEN c_unary("CAST", args[n]) ELSE args[n]]
<1>1. g = <<y>>
  OBVIOUS
<1>2. MeantCall(name, args) = c_call("printf", <<f>> \o g)
  BY DEF MeantCall
<1> HIDE DEF f, y, g
<1>3. <<f>> \o <<y>> = <<f, y>>
  BY OneThenOne
<1> QED BY <1>1, <1>2, <1>3 DEF f, y

\* The calls of printf that print and the like become.
LEMMA PrintReads ==
  ASSUME NEW name \in Printing, NEW text, Starts(text), NEW x, Loose(text, x),
         name = "print_int" => Tight(text, x)
  PROVE  /\ Plain(emit_call(name, <<text>>), MeantCall(name, <<x>>))
         /\ Starts(emit_call(name, <<text>>)) /\ Signless(emit_call(name, <<text>>))
<1> DEFINE f == c_leaf(expr_string(MeantFormat[name]))
           h == Quoted(Formats[name])
           z == IF name = "print_int" THEN c_unary("CAST", x) ELSE x
           y == IF name = "print_int" THEN Cat(<<Cast>>, text) ELSE text
           t == <<h, y>>
           m == <<f, z>>
           s == Cat(Separator, y)
           w == [k \in 0..1 |-> IF k = 0 THEN <<>> ELSE Cat(<<>>, s)]
<1>1. Starts(h) /\ Loose(h, f)
  <2>1. Plain(h, f) /\ Starts(h)
    BY FormatSpells, StringReads
  <2> QED BY <2>1, PlainTight, TightLoose
<1>2. Starts(y) /\ Loose(y, z)
  <2>1. CASE name = "print_int"
    <3>1. Tight(Cat(<<Cast>>, text), c_unary("CAST", x)) /\ Starts(Cat(<<Cast>>, text))
      BY <2>1, CastReads
    <3> QED BY <2>1, <3>1, TightLoose
  <2>2. CASE name # "print_int"
    BY <2>2
  <2> QED BY <2>1, <2>2
<1>3. emit_call(name, <<text>>) = Cat(Cat(Cat(<<"printf", "(">>, h), s), <<")">>)
  <2>1. text \in Text
    BY DEF Starts
  <2> QED BY <2>1, PrintfText
<1>4. MeantCall(name, <<x>>) = c_call("printf", m)
  BY MeantPrint
<1>5. IsName("printf")
  BY ExpressionsAssumption
<1> HIDE DEF f, h, y, z
<1>6. s \in Text /\ Cat(<<>>, s) = s
  <2>1. y \in Text
    BY <1>2 DEF Starts
  <2>2. s \in Text
    BY <2>1, CatIn, SeparatorIs
  <2> HIDE DEF s
  <2>3. Cat(<<>>, s) = s
    BY <2>2, Nothing DEF Cat
  <2> QED BY <2>2, <2>3
<1>7. t[1] = h /\ t[2] = y
  OBVIOUS
<1>8. \A k \in 1..(1 + 1) : Starts(t[k]) /\ Loose(t[k], m[k])
  <2>1. m[1] = f /\ m[2] = z
    OBVIOUS
  <2>2. \A k \in 1..(1 + 1) : k = 1 \/ k = 2
    OBVIOUS
  <2> HIDE DEF t, m
  <2> QED BY <1>1, <1>2, <1>7, <2>1, <2>2
<1>9. Separated(t, w, 1)
  <2>1. w \in [0..1 -> Text] /\ w[0] = <<>> /\ w[1] = Cat(<<>>, s)
    <3> HIDE DEF s
    <3> QED BY <1>6, Nothing
  <2>2. w[1] = Cat(w[1 - 1], Cat(Separator, t[1 + 1]))
    <3>1. 1 - 1 = 0 /\ 1 + 1 = 2
      OBVIOUS
    <3> HIDE DEF w, t
    <3> QED BY <1>7, <2>1, <3>1
  <2>3. \A k \in 1..1 : k = 1
    OBVIOUS
  <2> HIDE DEF w, t
  <2> QED BY <2>1, <2>2, <2>3 DEF Separated
<1>10. w[1] = s
  BY <1>6
<1>11. m \in Seq({f, z}) /\ Len(m) = 1 + 1
  OBVIOUS
<1> HIDE DEF t, m, w, s
<1>12. LET text_ == Cat(Cat(Cat(<<"printf", "(">>, t[1]), w[1]), <<")">>)
       IN  Plain(text_, c_call("printf", m)) /\ Starts(text_) /\ Signless(text_)
  <2> DEFINE M == {f, z}
  <2>1. m \in Seq(M)
    BY <1>11
  <2> HIDE DEF M
  <2> QED BY <1>5, <1>8, <1>9, <1>11, <2>1, CallReads
<1> QED BY <1>3, <1>4, <1>7, <1>10, <1>12

\* No prefix makes a longer sign of the text behind it but a minus before a
\* minus and an ampersand before an ampersand.
LEMMA NoPair ==
  ASSUME NEW p \in {"-", "!", "~", "&", "*"}, NEW q, q # "=", p = "-" => q # "-", p = "&" => q # "&"
  PROVE  <<p, q>> \notin Pairs
BY DEF Pairs

\* How the prefix operators are spelled.
LEMMA PrefixSpelling ==
  ASSUME NEW op \in PrefixOps
  PROVE  \/ \E p \in {"-", "!", "~", "&", "*"} :
              /\ Unaries[op] = <<p>> /\ PrefixOp(<<p>>) = op
              /\ p = "-" => op = "NEG"
              /\ p = "&" => op = "ADDR"
         \/ \E p \in {"+", "-"} :
              /\ Unaries[op] = <<p, p>> /\ PrefixOp(<<p, p>>) = op
              /\ p = "-" => op = "PRE_DEC"
<1>1. CASE op = "NEG"
  <2>1. Unaries[op] = <<"-">>
    BY <1>1 DEF Unaries
  <2>2. <<"-">> # <<Cast>>
    BY PiecesDiffer
  <2>3. PrefixOp(<<"-">>) = "NEG"
    BY <2>2 DEF PrefixOp
  <2> QED BY <1>1, <2>1, <2>3
<1>2. CASE op = "NOT"
  <2>1. Unaries[op] = <<"!">>
    BY <1>2 DEF Unaries
  <2>2. <<"!">> # <<Cast>>
    BY PiecesDiffer
  <2>3. PrefixOp(<<"!">>) = "NOT"
    BY <2>2 DEF PrefixOp
  <2> QED BY <1>2, <2>1, <2>3
<1>3. CASE op = "BIT_NOT"
  <2>1. Unaries[op] = <<"~">>
    BY <1>3 DEF Unaries
  <2>2. <<"~">> # <<Cast>>
    BY PiecesDiffer
  <2>3. PrefixOp(<<"~">>) = "BIT_NOT"
    BY <2>2 DEF PrefixOp
  <2> QED BY <1>3, <2>1, <2>3
<1>4. CASE op = "ADDR"
  <2>1. Unaries[op] = <<"&">>
    BY <1>4 DEF Unaries
  <2>2. <<"&">> # <<Cast>>
    BY PiecesDiffer
  <2>3. PrefixOp(<<"&">>) = "ADDR"
    BY <2>2 DEF PrefixOp
  <2> QED BY <1>4, <2>1, <2>3
<1>5. CASE op = "DEREF"
  <2>1. Unaries[op] = <<"*">>
    BY <1>5 DEF Unaries
  <2>2. <<"*">> # <<Cast>>
    BY PiecesDiffer
  <2>3. PrefixOp(<<"*">>) = "DEREF"
    BY <2>2 DEF PrefixOp
  <2> QED BY <1>5, <2>1, <2>3
<1>6. CASE op = "PRE_INC"
  <2>1. Unaries[op] = <<"+", "+">>
    BY <1>6 DEF Unaries
  <2>2. <<"+", "+">> # <<Cast>>
    BY PiecesDiffer
  <2>3. PrefixOp(<<"+", "+">>) = "PRE_INC"
    BY <2>2 DEF PrefixOp
  <2> QED BY <1>6, <2>1, <2>3
<1>7. CASE op = "PRE_DEC"
  <2>1. Unaries[op] = <<"-", "-">>
    BY <1>7 DEF Unaries
  <2>2. <<"-", "-">> # <<Cast>>
    BY PiecesDiffer
  <2>3. PrefixOp(<<"-", "-">>) = "PRE_DEC"
    BY <2>2 DEF PrefixOp
  <2> QED BY <1>7, <2>1, <2>3
<1>8. op = "NEG" \/ op = "NOT" \/ op = "BIT_NOT" \/ op = "ADDR" \/ op = "DEREF" \/ op = "PRE_INC" \/ op
        = "PRE_DEC"
  BY DEF PrefixOps
<1> QED BY <1>1, <1>2, <1>3, <1>4, <1>5, <1>6, <1>7, <1>8

\* The signs of a prefix operator and its operand do not run together, but
\* for - - and & &.
LEMMA UnaryReads ==
  ASSUME NEW op \in PrefixOps, NEW text, Starts(text), NEW m, Tight(text, m),
         op = "NEG" => ~Begins(text, "-"), op = "ADDR" => ~Begins(text, "&")
  PROVE  /\ Tight(emit_unary(op, text), c_unary(op, m)) /\ Starts(emit_unary(op, text))
         /\ Begins(emit_unary(op, text), "-") => op \in {"NEG", "PRE_DEC"}
         /\ Begins(emit_unary(op, text), "&") => op = "ADDR"
<1> DEFINE s == Unaries[op]
           u == s \o text
<1>1. emit_unary(op, text) = u
  BY DEF emit_unary, PrefixOps, PostfixOps
<1>2. op # "none"
  BY DEF PrefixOps
<1>3. text \in Text /\ text # <<>> /\ ~Begins(text, "=") /\ text[1] \in Pieces
  <2>1. text \in Text /\ text # <<>> /\ ~Begins(text, "=")
    BY DEF Starts
  <2> QED BY <2>1, EmptySeq DEF Text
<1>4. ASSUME NEW p \in {"-", "!", "~", "&", "*"}, s = <<p>>, PrefixOp(<<p>>) = op,
             p = "-" => op = "NEG", p = "&" => op = "ADDR"
      PROVE  /\ Tight(u, c_unary(op, m)) /\ Starts(u)
             /\ Begins(u, "-") => op \in {"NEG", "PRE_DEC"}
             /\ Begins(u, "&") => op = "ADDR"
  <2>1. p \in Pieces /\ p # Space /\ p # "="
    BY MarksArePieces, PiecesDiffer DEF Marks
  <2>2. op = "NEG" => p = "-"
    BY <1>4 DEF PrefixOp
  <2>3. op = "ADDR" => p = "&"
    BY <1>4 DEF PrefixOp
  <2>4. <<p, text[1]>> \notin Pairs
    <3>1. text[1] # "=" /\ (p = "-" => text[1] # "-") /\ (p = "&" => text[1] # "&")
      BY <1>3, <1>4 DEF Begins
    <3> QED BY <3>1, NoPair
  <2>5. ASSUME NEW rest \in Text
        PROVE  /\ Sign(s \o (text \o rest)) = s /\ Behind(s \o (text \o rest)) = text \o rest
               /\ ~Begins(s \o (text \o rest), Space)
    <3> DEFINE t == text \o rest
    <3>1. t \in Text /\ t # <<>> /\ t[1] = text[1]
      BY <1>3, BeginsConcat, Concat
    <3> HIDE DEF t
    <3>2. Sign(<<p>> \o t) = <<p>> /\ Behind(<<p>> \o t) = t
      BY <2>1, <2>4, <3>1, SignIs
    <3>3. ~Begins(<<p>> \o t, Space)
      BY <2>1, <3>1, BeginsWith
    <3> QED BY <1>4, <3>2, <3>3 DEF t
  <2>6. s \in Text /\ Len(s) \in 1..2 /\ PrefixOp(s) = op
    BY <1>4, <2>1, Heads, Nothing
  <2>7. Tight(u, c_unary(op, m))
    BY <1>2, <2>5, <2>6, PrefixReads
  <2>8. u \in Text /\ u # <<>> /\ \A q : Begins(u, q) <=> p = q
    BY <1>3, <1>4, <2>1, Heads, BeginsWith
  <2>9. Starts(u)
    BY <2>1, <2>8 DEF Starts
  <2> HIDE DEF u, s
  <2> QED BY <1>4, <2>7, <2>8, <2>9
<1>5. ASSUME NEW p \in {"+", "-"}, s = <<p, p>>, PrefixOp(<<p, p>>) = op, p = "-" => op = "PRE_DEC"
      PROVE  /\ Tight(u, c_unary(op, m)) /\ Starts(u)
             /\ Begins(u, "-") => op \in {"NEG", "PRE_DEC"}
             /\ Begins(u, "&") => op = "ADDR"
  <2>1. p \in Pieces /\ p # Space /\ p # "=" /\ p # "&"
    BY MarksArePieces, PiecesDiffer DEF Marks
  <2>2. <<p, p>> \in Pairs
    BY DEF Pairs
  <2>3. ASSUME NEW t \in Text
        PROVE  /\ Sign(s \o t) = s /\ Behind(s \o t) = t /\ s \o t \in Text /\ s \o t # <<>>
               /\ \A q : Begins(s \o t, q) <=> p = q
    BY <1>5, <2>1, <2>2, SignPair DEF Begins
  <2>4. ASSUME NEW rest \in Text
        PROVE  /\ Sign(s \o (text \o rest)) = s /\ Behind(s \o (text \o rest)) = text \o rest
               /\ ~Begins(s \o (text \o rest), Space)
    <3> DEFINE t == text \o rest
    <3>1. t \in Text
      BY <1>3, Concat
    <3> HIDE DEF t, s
    <3>2. Sign(s \o t) = s /\ Behind(s \o t) = t /\ ~Begins(s \o t, Space)
      BY <2>1, <2>3, <3>1
    <3> QED BY <3>2 DEF t
  <2>5. s \in Text /\ Len(s) \in 1..2 /\ PrefixOp(s) = op
    <3>1. <<p, p>> \in Text /\ Len(<<p, p>>) = 2
      BY <2>1, PairOf DEF Text
    <3> QED BY <1>5, <3>1
  <2>6. Tight(u, c_unary(op, m))
    BY <1>2, <2>4, <2>5, PrefixReads
  <2>7. u \in Text /\ u # <<>> /\ \A q : Begins(u, q) <=> p = q
    BY <1>3, <2>3
  <2>8. Starts(u)
    BY <2>1, <2>7 DEF Starts
  <2> HIDE DEF u, s
  <2> QED BY <1>5, <2>1, <2>6, <2>7, <2>8
<1> HIDE DEF s, u
<1>6. \/ \E p \in {"-", "!", "~", "&", "*"} :
           /\ s = <<p>> /\ PrefixOp(<<p>>) = op
           /\ p = "-" => op = "NEG"
           /\ p = "&" => op = "ADDR"
      \/ \E p \in {"+", "-"} :
           /\ s = <<p, p>> /\ PrefixOp(<<p, p>>) = op
           /\ p = "-" => op = "PRE_DEC"
  BY PrefixSpelling DEF s
<1>7. /\ Tight(u, c_unary(op, m)) /\ Starts(u)
      /\ Begins(u, "-") => op \in {"NEG", "PRE_DEC"}
      /\ Begins(u, "&") => op = "ADDR"
  BY <1>4, <1>5, <1>6
<1> QED BY <1>1, <1>7

-----------------------------------------------------------------------------
(* Expressions that are read as they were meant                            *)

\* An expression that may be an operand anywhere.
Closed(x) == x.tree.kind # "assign" /\ ~Prefixed(x.tree)

\* What the machine makes of the text of an expression, by the outermost
\* operator.
Readable(x) ==
  /\ Starts(x.text)
  /\ x.tree.kind = "assign" => Loose(x.text, x.meant)
  /\ x.tree.kind # "assign" => Tight(x.text, x.meant)
  /\ Prefixed(x.tree) =>
       /\ Begins(x.text, "-") => x.tree.op \in {"NEG", "PRE_DEC"}
       /\ Begins(x.text, "&") => x.tree.op = "ADDR"
  /\ Closed(x) => Plain(x.text, x.meant) /\ ~Begins(x.text, "-") /\ ~Begins(x.text, "&")

\* A readable expression is read where nothing but brackets waits.
LEMMA ReadableLoose ==
  ASSUME NEW x, Readable(x)
  PROVE  Loose(x.text, x.meant)
BY TightLoose DEF Readable

\* A closed expression that is read anywhere is readable.
LEMMA ReadableClosed ==
  ASSUME NEW x, Closed(x), Starts(x.text), Plain(x.text, x.meant), ~Begins(x.text, "-"),
           ~Begins(x.text, "&")
  PROVE  Readable(x)
BY PlainTight DEF Readable, Closed

\* Literals and names are readable.
LEMMA LeafReadable ==
  ASSUME NEW e, IsLeaf(e), e.kind = "float" => Floats[e.value[1]] = e.value[1],
         e.kind = "char" => e.value[1] \notin {"NUL", "\n", "'", "\\"}
  PROVE  Readable(Leaf(e)) /\ Closed(Leaf(e))
<1> DEFINE x == Leaf(e)
<1>1. x.tree = e /\ x.text = emit_literal(e) /\ x.meant = c_leaf(MeantLeaf(e))
  BY DEF Leaf
<1>2. e.kind # "assign" /\ e.kind # "unary"
  BY DEF IsLeaf, expr_int, expr_float, expr_bool, expr_string, expr_char, expr_null, expr_ident
<1>3. Plain(emit_literal(e), c_leaf(MeantLeaf(e))) /\ Starts(emit_literal(e))
        /\ Signless(emit_literal(e))
  BY LeafReads
<1> HIDE DEF x
<1>4. Closed(x)
  BY <1>1, <1>2 DEF Closed, Prefixed
<1>5. ~Begins(x.text, "-") /\ ~Begins(x.text, "&") /\ Starts(x.text) /\ Plain(x.text, x.meant)
  BY <1>1, <1>3 DEF Signless
<1>6. Readable(x)
  BY <1>4, <1>5, ReadableClosed
<1> QED BY <1>4, <1>6 DEF x

\* A prefix before a readable operand is, but for the pairs of signs that
\* run together.
LEMMA PrefixReadable ==
  ASSUME NEW op \in PrefixOps, NEW x, Readable(x), x.tree.kind # "assign",
         ~(Prefixed(x.tree) /\ <<op, x.tree.op>> \in {<<"NEG", "NEG">>, <<"NEG", "PRE_DEC">>,
             <<"ADDR", "ADDR">>})
  PROVE  Readable(Unary(op, x))
<1> DEFINE y == Unary(op, x)
<1>1. y.tree = expr_unary(op, x.tree) /\ y.text = emit_unary(op, x.text) /\ y.meant
        = c_unary(op, x.meant)
  BY DEF Unary
<1>2. y.tree.kind = "unary" /\ y.tree.op = op
  BY <1>1 DEF expr_unary
<1>3. op = "NEG" => ~Begins(x.text, "-")
  BY DEF Readable, Closed
<1>4. op = "ADDR" => ~Begins(x.text, "&")
  BY DEF Readable, Closed
<1>5. Starts(x.text) /\ Tight(x.text, x.meant)
  BY DEF Readable
<1>6. /\ Tight(emit_unary(op, x.text), c_unary(op, x.meant)) /\ Starts(emit_unary(op, x.text))
      /\ Begins(emit_unary(op, x.text), "-") => op \in {"NEG", "PRE_DEC"}
      /\ Begins(emit_unary(op, x.text), "&") => op = "ADDR"
  BY <1>3, <1>4, <1>5, UnaryReads
<1>7. Prefixed(y.tree) /\ ~Closed(y)
  BY <1>2 DEF Prefixed, Closed
<1> HIDE DEF y
<1>8. Readable(y)
  BY <1>1, <1>2, <1>6, <1>7 DEF Readable
<1> QED BY <1>8 DEF y

\* A postfix behind a closed operand is.
LEMMA PostfixReadable ==
  ASSUME NEW op \in PostfixOps, NEW x, Readable(x), Closed(x)
  PROVE  Readable(Unary(op, x))
<1> DEFINE y == Unary(op, x)
<1>1. y.tree = expr_unary(op, x.tree) /\ y.text = x.text \o Unaries[op] /\ y.meant
        = c_unary(op, x.meant)
  BY DEF Unary, emit_unary
<1>2. y.tree.kind = "unary" /\ y.tree.op = op
  BY <1>1 DEF expr_unary
<1>3. Closed(y)
  BY <1>2 DEF Prefixed, Closed, PrefixOps, PostfixOps
<1>4. Starts(x.text) /\ Plain(x.text, x.meant) /\ ~Begins(x.text, "-") /\ ~Begins(x.text, "&")
  BY DEF Readable
<1>5. x.text \in Text /\ x.text # <<>>
  BY <1>4 DEF Starts
<1> HIDE DEF y
<1>6. Plain(y.text, y.meant) /\ Unaries[op] \in Text
  BY <1>1, <1>4, <1>5, PostfixReads
<1>7. Starts(y.text) /\ ~Begins(y.text, "-") /\ ~Begins(y.text, "&")
  BY <1>1, <1>4, <1>5, <1>6, StartsMore, BeginsConcat
<1>8. Readable(y)
  BY <1>3, <1>6, <1>7, ReadableClosed
<1> QED BY <1>8 DEF y

\* A field of a closed operand is.
LEMMA FieldReadable ==
  ASSUME NEW m, IsName(m), NEW x, Readable(x), Closed(x)
  PROVE  Readable(Field(x, m))
<1> DEFINE y == Field(x, m)
<1>1. y.tree = expr_member(x.tree, m) /\ y.text = x.text \o <<".", m>> /\ y.meant = c_member(x.meant, m)
  BY DEF Field, emit_member
<1>2. Closed(y)
  <2>1. y.tree.kind = "member"
    BY <1>1 DEF expr_member
  <2> QED BY <2>1 DEF Prefixed, Closed
<1>3. Starts(x.text) /\ Plain(x.text, x.meant) /\ ~Begins(x.text, "-") /\ ~Begins(x.text, "&")
  BY DEF Readable
<1>4. x.text \in Text /\ x.text # <<>>
  BY <1>3 DEF Starts
<1> HIDE DEF y
<1>5. m \in Pieces /\ m \notin Marks
  BY NameIs
<1>6. Plain(y.text, y.meant) /\ <<".", m>> \in Text
  BY <1>1, <1>3, <1>4, <1>5, MemberReads
<1>7. Starts(y.text) /\ ~Begins(y.text, "-") /\ ~Begins(y.text, "&")
  BY <1>1, <1>3, <1>4, <1>6, StartsMore, BeginsConcat
<1>8. Readable(y)
  BY <1>2, <1>6, <1>7, ReadableClosed
<1> QED BY <1>8 DEF y

\* An index into a closed operand is.
LEMMA IndexReadable ==
  ASSUME NEW x, Readable(x), Closed(x), NEW i, Readable(i)
  PROVE  Readable(Index(x, i))
<1> DEFINE y == Index(x, i)
           more == <<"[">> \o (i.text \o <<"]">>)
<1>1. y.tree = expr_index(x.tree, i.tree) /\ y.text = emit_index(x.text, i.text) /\ y.meant
        = c_index(x.meant, i.meant)
  BY DEF Index
<1>2. Closed(y)
  <2>1. y.tree.kind = "index"
    BY <1>1 DEF expr_index
  <2> QED BY <2>1 DEF Prefixed, Closed
<1>3. Starts(x.text) /\ Plain(x.text, x.meant) /\ ~Begins(x.text, "-") /\ ~Begins(x.text, "&")
  BY DEF Readable
<1>4. x.text \in Text /\ x.text # <<>>
  BY <1>3 DEF Starts
<1>5. Starts(i.text) /\ Loose(i.text, i.meant)
  BY ReadableLoose DEF Readable
<1> HIDE DEF y
<1>6. Plain(y.text, y.meant) /\ y.text = x.text \o more /\ more \in Text
  <2> DEFINE a == x.text
             j == i.text
             u == x.meant
             v == i.meant
  <2>1. a \in Text /\ Plain(a, u) /\ Starts(j) /\ Loose(j, v)
    BY <1>3, <1>4, <1>5
  <2> HIDE DEF a, j, u, v
  <2>2. /\ Plain(emit_index(a, j), c_index(u, v))
        /\ emit_index(a, j) = a \o (<<"[">> \o (j \o <<"]">>))
        /\ <<"[">> \o (j \o <<"]">>) \in Text
    BY <2>1, IndexReads
  <2> QED BY <1>1, <2>2 DEF a, j, u, v
<1> HIDE DEF more
<1>7. Starts(y.text) /\ ~Begins(y.text, "-") /\ ~Begins(y.text, "&")
  BY <1>3, <1>4, <1>6, StartsMore, BeginsConcat
<1>8. Readable(y)
  BY <1>2, <1>6, <1>7, ReadableClosed
<1> QED BY <1>8 DEF y

\* A binary expression of operands that are no assignments is.
LEMMA BinaryReadable ==
  ASSUME NEW op \in DOMAIN Binaries, NEW l, Readable(l), l.tree.kind # "assign",
         NEW r, Readable(r), r.tree.kind # "assign"
  PROVE  Readable(Binary(op, l, r)) /\ Closed(Binary(op, l, r))
<1> DEFINE y == Binary(op, l, r)
           a == l.text
           b == r.text
           u == l.meant
           v == r.meant
<1>1. y.tree = expr_binary(op, l.tree, r.tree) /\ y.text = emit_binary(op, a, b) /\ y.meant
        = c_binary(op, u, v)
  BY DEF Binary
<1>2. Closed(y)
  <2>1. y.tree.kind = "binary"
    BY <1>1 DEF expr_binary
  <2> QED BY <2>1 DEF Prefixed, Closed
<1>3. Starts(a) /\ Tight(a, u) /\ Starts(b) /\ Tight(b, v)
  BY DEF Readable
<1>4. a \in Text /\ b \in Text
  BY <1>3 DEF Starts
<1> HIDE DEF y, a, b, u, v
<1>5. Plain(y.text, y.meant)
  BY <1>1, <1>3, BinaryReads
<1>6. \E rest \in Text : emit_binary(op, a, b) = <<"(">> \o rest
  BY <1>4, BinaryText, ZenonT(60)
<1>7. Starts(y.text) /\ ~Begins(y.text, "-") /\ ~Begins(y.text, "&")
  <2>1. "(" \in Pieces /\ "(" # Space
    BY BracketSign
  <2>2. PICK rest \in Text : y.text = <<"(">> \o rest
    BY <1>1, <1>6
  <2>3. \A q : Begins(y.text, q) <=> "(" = q
    BY <2>1, <2>2, BeginsWith
  <2>4. y.text \in Text /\ y.text # <<>>
    BY <2>1, <2>2, Heads
  <2> QED BY <2>1, <2>3, <2>4 DEF Starts
<1>8. Readable(y)
  BY <1>2, <1>5, <1>7, ReadableClosed
<1> QED BY <1>2, <1>8 DEF y

\* An assignment to what is no assignment is.
LEMMA AssignReadable ==
  ASSUME NEW t, Readable(t), t.tree.kind # "assign", NEW e, Readable(e)
  PROVE  Readable(Assign(t, e))
<1> DEFINE y == Assign(t, e)
           a == t.text
           b == e.text
           u == t.meant
           v == e.meant
<1>1. y.tree = expr_assign(t.tree, e.tree) /\ y.text = emit_assign(a, b) /\ y.meant = c_assign(u, v)
  BY DEF Assign
<1>2. y.tree.kind = "assign" /\ ~Closed(y) /\ ~Prefixed(y.tree)
  <2>1. y.tree.kind = "assign"
    BY <1>1 DEF expr_assign
  <2> QED BY <2>1 DEF Prefixed, Closed
<1>3. Starts(a) /\ Tight(a, u) /\ Starts(b) /\ Loose(b, v)
  BY ReadableLoose DEF Readable
<1>4. a \in Text /\ b \in Text
  BY <1>3 DEF Starts
<1> HIDE DEF y, a, b, u, v
<1>5. Loose(y.text, y.meant)
  BY <1>1, <1>3, AssignReads
<1>6. \E rest \in Text : y.text = a \o rest
  <2>1. \E rest \in Text : emit_assign(a, b) = a \o rest
    BY <1>4, AssignText, Zenon
  <2> QED BY <1>1, <2>1
<1>7. Starts(y.text)
  BY <1>3, <1>6, StartsMore
<1> QED BY <1>2, <1>5, <1>7 DEF Readable, y

\* A call that is not one of print and its like.
LEMMA CallReadable ==
  ASSUME NEW name, IsName(name), name \notin Printing, NEW S, NEW args \in Seq(S), args # <<>>,
         \A n \in DOMAIN args : Readable(args[n])
  PROVE  Readable(Called(name, args)) /\ Closed(Called(name, args))
<1> DEFINE y == Called(name, args)
           t == [n \in DOMAIN args |-> args[n].text]
           m == [n \in DOMAIN args |-> args[n].meant]
           M == {args[n].meant : n \in DOMAIN args}
           k == Len(args) - 1
<1>1. y.tree.kind = "call" /\ y.text = emit_call(name, t) /\ y.meant = MeantCall(name, m)
  BY DEF Called, expr_call
<1>2. MeantCall(name, m) = c_call(name, m)
  BY DEF MeantCall
<1>3. k \in Nat /\ Len(args) = k + 1 /\ DOMAIN args = 1..(k + 1)
  BY EmptySeq
<1>4. \A n \in 1..(k + 1) : Starts(t[n]) /\ Loose(t[n], m[n]) /\ t[n] \in Text /\ m[n] \in M
  <2> SUFFICES ASSUME NEW n \in 1..(k + 1)
               PROVE  Starts(t[n]) /\ Loose(t[n], m[n]) /\ t[n] \in Text /\ m[n] \in M
    OBVIOUS
  <2> DEFINE x == args[n]
  <2>1. n \in DOMAIN args /\ Readable(x)
    BY <1>3
  <2>2. t[n] = x.text /\ m[n] = x.meant /\ m[n] \in M
    BY <2>1
  <2> HIDE DEF x, t, m, M
  <2>3. Starts(x.text) /\ Loose(x.text, x.meant)
    BY <2>1, ReadableLoose DEF Readable
  <2> QED BY <2>2, <2>3 DEF Starts
<1>5. t \in Seq(Text) /\ Len(t) = k + 1
  BY <1>3, <1>4, FunctionSeq
<1>6. m \in Seq(M) /\ Len(m) = k + 1
  BY <1>3, <1>4, FunctionSeq
<1> HIDE DEF y, t, m, M, k
<1>7. PICK w : /\ Separated(t, w, k)
               /\ emit_call(name, t) = Cat(Cat(Cat(<<name, "(">>, t[1]), w[k]), <<")">>)
  BY <1>3, <1>5, CallText
<1>8. LET text_ == Cat(Cat(Cat(<<name, "(">>, t[1]), w[k]), <<")">>)
      IN  Plain(text_, c_call(name, m)) /\ Starts(text_) /\ Signless(text_)
  BY <1>3, <1>4, <1>6, <1>7, CallReads
<1>9. Starts(y.text) /\ Plain(y.text, y.meant) /\ ~Begins(y.text, "-") /\ ~Begins(y.text, "&")
  BY <1>1, <1>2, <1>7, <1>8 DEF Signless
<1>10. Closed(y)
  BY <1>1 DEF Closed, Prefixed
<1>11. Readable(y)
  BY <1>9, <1>10, ReadableClosed
<1> QED BY <1>10, <1>11 DEF y

\* A call of print and its like with the one argument it takes is.
LEMMA PrintReadable ==
  ASSUME NEW name \in Printing, NEW x, Readable(x), name = "print_int" => x.tree.kind # "assign"
  PROVE  Readable(Called(name, <<x>>)) /\ Closed(Called(name, <<x>>))
<1> DEFINE args == <<x>>
           y == Called(name, args)
<1>1. /\ [n \in DOMAIN args |-> args[n].text] = <<x.text>>
      /\ [n \in DOMAIN args |-> args[n].meant] = <<x.meant>>
  OBVIOUS
<1>2. /\ y.tree.kind = "call"
      /\ y.text = emit_call(name, [n \in DOMAIN args |-> args[n].text])
      /\ y.meant = MeantCall(name, [n \in DOMAIN args |-> args[n].meant])
  BY DEF Called, expr_call
<1> HIDE DEF y
<1>3. y.text = emit_call(name, <<x.text>>) /\ y.meant = MeantCall(name, <<x.meant>>)
  BY <1>1, <1>2
<1>4. Starts(x.text) /\ Loose(x.text, x.meant) /\ (name = "print_int" => Tight(x.text, x.meant))
  BY ReadableLoose DEF Readable
<1>5. /\ Plain(emit_call(name, <<x.text>>), MeantCall(name, <<x.meant>>))
      /\ Starts(emit_call(name, <<x.text>>)) /\ Signless(emit_call(name, <<x.text>>))
  BY <1>4, PrintReads
<1>6. Starts(y.text) /\ Plain(y.text, y.meant) /\ ~Begins(y.text, "-") /\ ~Begins(y.text, "&")
  BY <1>3, <1>5 DEF Signless
<1>7. Closed(y)
  BY <1>2 DEF Closed, Prefixed
<1>8. Readable(y)
  BY <1>6, <1>7, ReadableClosed
<1> QED BY <1>7, <1>8 DEF y

\* The end of the text ends an operand.
LEMMA NothingEnds == PostfixOp(<<>>) = "none" /\ BinaryOp(<<>>) = "none" /\ SignLevel(<<>>) = 1
<1>1. PostfixOp(<<>>) = "none"
  BY DEF PostfixOp
<1>2. BinaryOp(<<>>) = "none"
  BY DEF BinaryOp
<1>3. <<>> \in {<<>>, <<")">>, <<"]">>, <<Comma>>} /\ <<>> # <<"=">>
  OBVIOUS
<1>4. SignLevel(<<>>) = 1
  BY <1>2, <1>3 DEF SignLevel
<1> QED BY <1>1, <1>2, <1>4

\* The end of the text, where the machine stops.
LEMMA StopsAtEnd ==
  ASSUME NEW m
  PROVE  Step(Config(<<>>, <<m>>, <<>>)) = Config(<<>>, <<m>>, <<>>)
<1>1. ~IsTop(<<>>, "string") /\ ~IsTop(<<>>, "(") /\ ~IsTop(<<>>, "[") /\ ~IsTop(<<>>, "call")
  BY DEF IsTop
<1>2. Step(Config(<<>>, <<m>>, <<>>)) = OperatorStep(<<>>, m, <<>>)
  BY <1>1, OperatorOf
<1>3. Skip(<<>>) = <<>> /\ Sign(<<>>) = <<>>
  BY DEF Skip, Begins, Sign
<1>4. PostfixOp(<<>>) = "none" /\ BinaryOp(<<>>) = "none" /\ SignLevel(<<>>) = 1 /\ Level(<<>>) = 0
  <2>1. Level(<<>>) = 0
    BY DEF Level
  <2> QED BY <2>1, NothingEnds
<1>5. <<>> # <<".">> /\ <<>> # <<"[">> /\ <<>> # <<"(">> /\ <<>> # <<"=">> /\ <<>> # <<")">>
        /\ <<>> # <<"]">>
      /\ <<>> # <<Comma>>
  OBVIOUS
<1>6. ~(1 <= 0)
  OBVIOUS
<1>7. OperatorStep(<<>>, m, <<>>) = Config(<<>>, <<m>>, <<>>)
  BY <1>1, <1>3, <1>4, <1>5, <1>6 DEF OperatorStep
<1> QED BY <1>2, <1>7

\* What was reached and is stayed at is there after any larger number of
\* steps.
LEMMA StaysThere ==
  ASSUME NEW c, NEW d, Step(d) = d, NEW n \in Nat, Reaches(c, d, n)
  PROVE  Steps(c, n) = d
<1>1. PICK k \in 0..n : Steps(c, k) = d
  BY DEF Reaches
<1> DEFINE j == n - k
           G == {i \in Nat : Steps(d, i) = d}
<1>2. 0 \in G
  BY StepsAre
<1>3. \A i \in Nat : i \in G => i + 1 \in G
  <2> SUFFICES ASSUME NEW i \in Nat, Steps(d, i) = d
               PROVE  i + 1 \in Nat /\ Steps(d, i + 1) = d
    OBVIOUS
  <2>1. Steps(d, i + 1) = Step(Steps(d, i))
    BY StepsAre
  <2> QED BY <2>1
<1> HIDE DEF G
<1>4. \A i \in Nat : i \in G
  BY <1>2, <1>3, Upwards
<1>5. j \in Nat /\ k \in Nat /\ k + j = n
  OBVIOUS
<1> HIDE DEF j
<1>6. Steps(d, j) = d
  BY <1>4, <1>5 DEF G
<1>7. Steps(c, k + j) = Steps(Steps(c, k), j)
  BY <1>5, StepsAdd
<1> QED BY <1>1, <1>5, <1>6, <1>7

\* What the machine reads, CRead returns.
LEMMA ReadsAsMeant ==
  ASSUME NEW x, Readable(x)
  PROVE  CRead(x.text) = x.meant
<1> DEFINE t == x.text
           m == x.meant
           c == Config(<<>>, <<>>, t)
           d == Config(<<>>, <<m>>, <<>>)
           n == 2 * Len(t)
<1>1. Loose(t, m) /\ t \in Text
  BY ReadableLoose DEF Readable, Starts
<1> HIDE DEF t, m
<1>2. n \in Nat /\ t \o <<>> = t /\ <<>> \in Text
  BY <1>1, Nothing, Concat
<1>3. Open(<<>>) /\ Level(<<>>) \in 0..1 /\ Ends(<<>>)
  <2>1. Open(<<>>)
    BY DEF Open, IsTop
  <2>2. Level(<<>>) = 0
    BY DEF Level
  <2>3. Skip(<<>>) = <<>> /\ Sign(<<>>) = <<>>
    BY DEF Skip, Begins, Sign
  <2>4. SignLevel(<<>>) = 1
    BY NothingEnds
  <2> QED BY <2>1, <2>2, <2>3, <2>4 DEF Ends
<1>4. Reading(t, m, <<>>, <<>>)
  BY <1>1, <1>2, <1>3 DEF Loose
<1>5. Reaches(c, d, n)
  BY <1>2, <1>4 DEF Reading
<1>6. Step(d) = d
  BY StopsAtEnd
<1>7. d.frames = <<>> /\ d.value = <<m>> /\ d.text = <<>> /\ d.value # <<>> /\ d.value[1] = m
  BY DEF Config
<1> HIDE DEF c, d, n
<1>8. Steps(c, n) = d
  BY <1>2, <1>5, <1>6, StaysThere
<1>9. CRead(t) = m
  BY <1>7, <1>8 DEF CRead, c, n
<1> QED BY <1>9 DEF t, m

\* The habits after which a text may not be read as the tree it was written
\* for.
Reshaping ==
  {"assignment_operand", "postfix_on_prefix", "doubled_prefix", "float_literal", "escaped_char",
   "argument_mismatch"}

\* The arguments around the expression are a sequence, and it is all of it
\* if there is one.
LEMMA ArgumentsAre ==
  ASSUME NEW x, NEW B, NEW before \in {<<>>} \cup {<<b>> : b \in B},
           NEW after \in {<<>>} \cup {<<b>> : b \in B}
  PROVE  LET args == before \o <<x>> \o after
         IN  /\ args \in Seq(B \cup {x}) /\ args # <<>>
             /\ Len(args) = 1 => args = <<x>>
<1> DEFINE S == B \cup {x}
           args == before \o <<x>> \o after
<1>1. before \in Seq(S) /\ after \in Seq(S) /\ <<x>> \in Seq(S) /\ Len(<<x>>) = 1
  <2>1. x \in S /\ \A b \in B : b \in S
    OBVIOUS
  <2> HIDE DEF S
  <2>2. \A b \in S : <<b>> \in Seq(S) /\ Len(<<b>>) = 1
    OBVIOUS
  <2>3. <<>> \in Seq(S)
    OBVIOUS
  <2> QED BY <2>1, <2>2, <2>3
<1> HIDE DEF S
<1>2. args \in Seq(S) /\ Len(args) = Len(before) + 1 + Len(after) /\ Len(before) \in Nat
        /\ Len(after) \in Nat
  <2>1. before \o <<x>> \in Seq(S) /\ Len(before \o <<x>>) = Len(before) + 1
    BY <1>1
  <2>2. Len(before) \in Nat /\ Len(after) \in Nat
    BY <1>1
  <2> DEFINE u == before \o <<x>>
  <2> HIDE DEF u
  <2>3. u \o after \in Seq(S) /\ Len(u \o after) = Len(u) + Len(after)
    BY <1>1, <2>1 DEF u
  <2> QED BY <2>1, <2>2, <2>3 DEF u
<1>3. args # <<>>
  <2>1. Len(args) # 0
    <3> HIDE DEF args
    <3> QED BY <1>2
  <2> HIDE DEF args
  <2> QED BY <2>1
<1>4. ASSUME Len(args) = 1
      PROVE  args = <<x>>
  <2>1. Len(before) = 0 /\ Len(after) = 0
    <3> HIDE DEF args
    <3> QED BY <1>2, <1>4
  <2>2. before = <<>> /\ after = <<>>
    BY <1>1, <2>1, EmptySeq
  <2>3. <<>> \o <<x>> \o <<>> = <<x>>
    OBVIOUS
  <2> QED BY <2>2, <2>3
<1> QED BY <1>2, <1>3, <1>4 DEF S

\* What is read in an expression built of readable ones.
ReadInv == Readable(expr) /\ read = Written(expr)

\* What sources without those habits begin with is readable.
LEMMA UsedReadable ==
  ASSUME Habits \cap Reshaping = {}, NEW e \in Used(Leaves)
  PROVE  Readable(Leaf(e)) /\ Closed(Leaf(e))
<1>1. e \in Leaves /\ IsLeaf(e)
  BY ExpressionsAssumption DEF Used
<1>2. e.kind = "float" => Floats[e.value[1]] = e.value[1]
  BY DEF Used, Uses, Reshaping
<1>3. e.kind = "char" => e.value[1] \notin {"NUL", "\n", "'", "\\"}
  BY DEF Used, Uses, Reshaping
<1> QED BY <1>1, <1>2, <1>3, LeafReadable

\* The other operands are leaves too.
LEMMA SiblingsUsed == Used(Siblings) \subseteq Used(Leaves)
BY ExpressionsAssumption DEF Used

\* A source begins with what is readable.
LEMMA ReadInit ==
  ASSUME Habits \cap Reshaping = {}, Init
  PROVE  ReadInv
BY UsedReadable DEF Init, ReadInv

\* So it stays, if what it grows to is.
LEMMA GrownReadable ==
  ASSUME NEW e, NEW own, Readable(e), Grow(e, own)
  PROVE  ReadInv'
<1>1. expr' = e /\ read' = Written(e)
  BY DEF Grow
<1>2. Written(e) = Written(expr')
  BY <1>1
<1> QED BY <1>1, <1>2 DEF ReadInv, Readable, Closed, Written

\* Every operator of the parser makes something readable of what is.
LEMMA ReadNext ==
  ASSUME Habits \cap Reshaping = {}, ReadInv, Next
  PROVE  ReadInv'
<1>1. ~IsAssign => Tight(expr.text, expr.meant)
  BY DEF ReadInv, Readable, IsAssign
<1>2. Readable(expr) /\ (~IsAssign /\ ~Prefixed(expr.tree) => Closed(expr))
  BY DEF ReadInv, Closed, IsAssign
<1>3. \A s \in Used(Siblings) : Readable(Leaf(s)) /\ Closed(Leaf(s)) /\ Leaf(s).tree.kind # "assign"
  BY UsedReadable, SiblingsUsed DEF Closed
<1>4. ASSUME NEW op \in PrefixOps, Prefix(op)
      PROVE  ReadInv'
  <2>1. ~IsAssign
    BY <1>4 DEF Prefix, Uses, Reshaping
  <2>2. ~(Prefixed(expr.tree) /\ <<op, expr.tree.op>> \in
            {<<"NEG", "NEG">>, <<"NEG", "PRE_DEC">>, <<"ADDR", "ADDR">>})
    BY <1>4 DEF Prefix, Uses, Reshaping
  <2>3. Readable(Unary(op, expr))
    BY <1>2, <2>1, <2>2, PrefixReadable DEF IsAssign
  <2>4. Grow(Unary(op, expr), IF op \in Increments THEN 1 ELSE 0)
    BY <1>4 DEF Prefix
  <2> QED BY <2>3, <2>4, GrownReadable
<1>5. ASSUME NEW e, NEW own, Grown(e, own), Closed(expr) => Readable(e)
      PROVE  ReadInv'
  <2>1. ~IsAssign /\ ~Prefixed(expr.tree)
    BY <1>5 DEF Grown, Uses, Reshaping
  <2>2. Grow(e, own)
    BY <1>5 DEF Grown
  <2> QED BY <1>2, <1>5, <2>1, <2>2, GrownReadable
<1>6. ASSUME NEW op \in PostfixOps, Postfix(op)
      PROVE  ReadInv'
  BY <1>2, <1>5, <1>6, PostfixReadable DEF Postfix
<1>7. ASSUME NEW m \in Members, Member(m)
      PROVE  ReadInv'
  <2>1. Grown(Field(expr, m), 0)
    BY <1>7 DEF Member, Reshaping
  <2>2. IsName(m)
    BY ExpressionsAssumption
  <2> QED BY <1>2, <1>5, <2>1, <2>2, FieldReadable
<1>8. ASSUME NEW s \in Used(Siblings)
      PROVE  /\ IndexOf(s) => ReadInv'
             /\ IndexBy(s) => ReadInv'
             /\ AssignTo(s) => ReadInv'
             /\ AssignFrom(s) => ReadInv'
             /\ \A op \in Operators : BinaryWith(op, s) => ReadInv'
             /\ \A op \in Operators : CompoundAssign(op, s) => ReadInv'
  <2> DEFINE l == Leaf(s)
  <2>1. Readable(l) /\ Closed(l) /\ l.tree.kind # "assign"
    BY <1>3
  <2>2. IndexOf(s) => Grown(Index(expr, l), 0)
    BY DEF IndexOf
  <2>3. IndexBy(s) => Grow(Index(l, expr), 0)
    BY DEF IndexBy
  <2>4. AssignTo(s) => Grow(Assign(l, expr), 1)
    BY DEF AssignTo
  <2>5. AssignFrom(s) => ~IsAssign /\ Grow(Assign(expr, l), 1)
    BY DEF AssignFrom, Uses, Reshaping
  <2>6. \A op \in Operators : BinaryWith(op, s) =>
          ~IsAssign /\ (Grow(Binary(op, expr, l), 0) \/ Grow(Binary(op, l, expr), 0))
    BY DEF BinaryWith, Combines, Uses, Reshaping
  <2>7. \A op \in Operators : CompoundAssign(op, s) =>
          ~IsAssign /\ Grow(Assign(expr, Binary(op, expr, l)), 1)
    BY DEF CompoundAssign, Combines, Compound, Uses, Reshaping
  <2> HIDE DEF l
  <2>8. IndexOf(s) => ReadInv'
    BY <1>2, <1>5, <2>1, <2>2, IndexReadable
  <2>9. IndexBy(s) => ReadInv'
    BY <1>2, <2>1, <2>3, IndexReadable, GrownReadable
  <2>10. AssignTo(s) => ReadInv'
    BY <1>2, <2>1, <2>4, AssignReadable, GrownReadable
  <2>11. AssignFrom(s) => ReadInv'
    BY <1>2, <2>1, <2>5, AssignReadable, GrownReadable DEF IsAssign
  <2>12. ASSUME NEW op \in Operators, ~IsAssign
         PROVE  /\ Readable(Binary(op, expr, l)) /\ Readable(Binary(op, l, expr))
                /\ Readable(Assign(expr, Binary(op, expr, l)))
    <3>1. op \in DOMAIN Binaries /\ expr.tree.kind # "assign"
      BY <2>12, ExpressionsAssumption DEF IsAssign
    <3>2. Readable(Binary(op, expr, l)) /\ Readable(Binary(op, l, expr))
      BY <1>2, <2>1, <3>1, BinaryReadable
    <3> QED BY <1>2, <3>1, <3>2, AssignReadable
  <2>13. \A op \in Operators : BinaryWith(op, s) => ReadInv'
    BY <2>6, <2>12, GrownReadable
  <2>14. \A op \in Operators : CompoundAssign(op, s) => ReadInv'
    BY <2>7, <2>12, GrownReadable
  <2> QED BY <2>8, <2>9, <2>10, <2>11, <2>13, <2>14
<1>9. ASSUME NEW name \in DOMAIN Params, NEW before \in Arguments, NEW after \in Arguments,
             Call(name, before, after)
      PROVE  ReadInv'
  <2> DEFINE args == before \o <<expr>> \o after
             B == {Leaf(s) : s \in Used(Siblings)}
             S == B \cup {expr}
  <2>1. before \in {<<>>} \cup {<<b>> : b \in B} /\ after \in {<<>>} \cup {<<b>> : b \in B}
    BY DEF Arguments
  <2>2. \A x \in S : Readable(x)
    BY <1>2, <1>3
  <2>3. /\ Params[name] = [n \in DOMAIN args |-> args[n].checked.type]
        /\ name = "print_int" => ~IsAssign
        /\ Grow(Called(name, args), 1)
    BY <1>9 DEF Call, Uses, Reshaping
  <2> HIDE DEF B
  <2>4. args \in Seq(S) /\ args # <<>> /\ (Len(args) = 1 => args = <<expr>>)
    BY <2>1, ArgumentsAre, ZenonT(60)
  <2>5. IsName(name)
    BY ExpressionsAssumption
  <2> HIDE DEF args, S
  <2>6. CASE name \in Printing
    <3>1. Params[name] = <<Printable[name]>>
      BY <2>6, ExpressionsAssumption
    <3>2. DOMAIN args = 1..1
      BY <2>3, <3>1
    <3>3. Len(args) = 1
      BY <2>4, <3>2
    <3>4. Readable(Called(name, <<expr>>))
      BY <1>2, <2>3, <2>6, PrintReadable DEF IsAssign
    <3> QED BY <2>3, <2>4, <3>3, <3>4, GrownReadable
  <2>7. CASE name \notin Printing
    <3>1. \A n \in DOMAIN args : Readable(args[n])
      BY <2>2, <2>4
    <3>2. Readable(Called(name, args))
      BY <2>4, <2>5, <2>7, <3>1, CallReadable
    <3> QED BY <2>3, <3>2, GrownReadable
  <2> QED BY <2>6, <2>7
<1> QED BY <1>4, <1>6, <1>7, <1>8, <1>9 DEF Next

\* emit_expr writes no parentheses but around binary expressions, and signs
\* next to each other.  In sources that keep off the constructs of
\* Reshaping the C compiler still reads every accepted expression as the
\* tree check_expr accepted, down to the characters of its strings.
THEOREM TextReadsAsTree ==
  ASSUME Habits \cap Reshaping = {}
  PROVE  Spec => []SameTree
<1>1. Init => ReadInv
  BY ReadInit
<1>2. ReadInv /\ [Next]_vars => ReadInv'
  <2>1. ReadInv /\ Next => ReadInv'
    BY ReadNext
  <2>2. ReadInv /\ UNCHANGED vars => ReadInv'
    BY DEF ReadInv, Readable, Closed, Written, vars
  <2> QED BY <2>1, <2>2
<1>3. ReadInv => SameTree
  BY ReadsAsMeant DEF ReadInv, SameTree, Accepted, Written
<1> QED BY <1>1, <1>2, <1>3, PTL DEF Spec

-----------------------------------------------------------------------------
(* Side effects                                                            *)

\* The total is that of all operands and what the node adds.
Total(total, own, operands) ==
  \E w \in [0..Len(operands) -> Nat] :
    /\ w[0] = 0
    /\ \A i \in 1..Len(operands) : w[i] = w[i - 1] + operands[i].effects
    /\ total = own + w[Len(operands)]

\* The side effects of a node are its own and those of its operands.
LEMMA NodeEffects ==
  ASSUME NEW tree, NEW type, NEW own, NEW S, NEW operands \in Seq(S),
         \A i \in 1..Len(operands) : operands[i].effects \in Nat
  PROVE  Total(Node(tree, type, own, operands).effects, own, operands)
<1> DEFINE n == Len(operands)
           step == [i \in 1..n |-> [x \in Nat |-> x + operands[i].effects]]
           Below(f) == f = [i \in 0..n |-> IF i = 0 THEN 0 ELSE f[i - 1] + operands[i].effects]
           g == CHOOSE f : Below(f)
<1>1. n \in Nat
  OBVIOUS
<1>2. step \in StepsIn(n, Nat)
  <2>1. \A i \in 1..n : [x \in Nat |-> x + operands[i].effects] \in [Nat -> Nat]
    OBVIOUS
  <2> QED BY <2>1 DEF StepsIn
<1>3. PICK w \in [0..n -> Nat] : w[0] = 0 /\ \A i \in 1..n : w[i] = step[i][w[i - 1]]
  <2> HIDE DEF step, n
  <2>1. \E w : Goes(w, n, Nat, 0, step)
    BY <1>1, <1>2, Recursion
  <2> QED BY <2>1 DEF Goes
<1>4. ASSUME NEW i \in 1..n PROVE w[i - 1] \in Nat /\ w[i] = w[i - 1] + operands[i].effects
  <2>1. i - 1 \in 0..n
    BY <1>1
  <2>2. w[i - 1] \in Nat
    BY <2>1
  <2>3. step[i] = [x \in Nat |-> x + operands[i].effects]
    OBVIOUS
  <2>4. w[i] = step[i][w[i - 1]]
    BY <1>3
  <2> HIDE DEF step
  <2> QED BY <2>2, <2>3, <2>4
<1>5. Node(tree, type, own, operands).effects = own + g[n]
  BY DEF Node
<1> HIDE DEF step
<1>6. Below(w)
  <2>1. ASSUME NEW i \in 0..n PROVE w[i] = IF i = 0 THEN 0 ELSE w[i - 1] + operands[i].effects
    <3>1. CASE i = 0
      BY <1>3, <3>1
    <3>2. CASE i # 0
      <4>1. i \in 1..n
        BY <3>2
      <4> QED BY <1>4, <3>2, <4>1
    <3> QED BY <3>1, <3>2
  <2> QED BY <2>1
<1>7. Below(g)
  <2> HIDE DEF Below
  <2> QED BY <1>6
<1>8. \A i \in 0..n : g[i] = IF i = 0 THEN 0 ELSE g[i - 1] + operands[i].effects
  <2> HIDE DEF g
  <2> QED BY <1>7
<1> HIDE DEF g
<1> DEFINE G == {k \in 0..n : g[k] = w[k]}
<1>9. 0 \in G
  BY <1>1, <1>3, <1>8
<1>10. ASSUME NEW k \in 0..n, k < n, k \in G PROVE k + 1 \in G
  <2> DEFINE i == k + 1
  <2>1. i \in 1..n /\ i \in 0..n /\ i - 1 = k /\ i # 0
    BY <1>1, <1>10
  <2>2. g[k] = w[k]
    BY <1>10
  <2> HIDE DEF i
  <2>3. g[i] = w[i]
    BY <1>4, <1>8, <2>1, <2>2
  <2> QED BY <2>1, <2>3 DEF i
<1> HIDE DEF G
<1>11. \A k \in 0..n : k \in G
  BY <1>1, <1>9, <1>10, UpTo
<1>12. g[n] = w[n]
  BY <1>1, <1>11 DEF G
<1> QED BY <1>3, <1>4, <1>5, <1>12 DEF Total

\* Those of a node with one operand.
LEMMA OneOperand ==
  ASSUME NEW tree, NEW type, NEW own \in Nat, NEW x, x.effects \in Nat
  PROVE  Node(tree, type, own, <<x>>).effects = own + x.effects
<1> DEFINE s == <<x>>
           S == {x}
<1>1. s \in Seq(S) /\ Len(s) = 1 /\ s[1] = x
  OBVIOUS
<1> HIDE DEF s, S
<1>2. \A i \in 1..Len(s) : s[i].effects \in Nat
  BY <1>1
<1>3. PICK w \in [0..Len(s) -> Nat] :
        /\ w[0] = 0
        /\ \A i \in 1..Len(s) : w[i] = w[i - 1] + s[i].effects
        /\ Node(tree, type, own, s).effects = own + w[Len(s)]
  <2>1. Total(Node(tree, type, own, s).effects, own, s)
    BY <1>1, <1>2, NodeEffects
  <2> QED BY <2>1 DEF Total
<1>4. w[1] = w[1 - 1] + s[1].effects
  BY <1>1, <1>3
<1>5. w[1] = x.effects
  <2>1. 1 - 1 = 0
    OBVIOUS
  <2> QED BY <1>1, <1>3, <1>4, <2>1
<1> QED BY <1>1, <1>3, <1>5 DEF s

\* Those of a node with two.
LEMMA TwoOperands ==
  ASSUME NEW tree, NEW type, NEW own \in Nat, NEW x, x.effects \in Nat, NEW y, y.effects \in Nat
  PROVE  Node(tree, type, own, <<x, y>>).effects = own + x.effects + y.effects
<1> DEFINE s == <<x, y>>
           S == {x, y}
<1>1. s \in Seq(S) /\ Len(s) = 2 /\ s[1] = x /\ s[2] = y
  OBVIOUS
<1> HIDE DEF s, S
<1>2. \A i \in 1..Len(s) : s[i].effects \in Nat
  <2>1. \A i \in 1..2 : i = 1 \/ i = 2
    OBVIOUS
  <2> QED BY <1>1, <2>1
<1>3. PICK w \in [0..Len(s) -> Nat] :
        /\ w[0] = 0
        /\ \A i \in 1..Len(s) : w[i] = w[i - 1] + s[i].effects
        /\ Node(tree, type, own, s).effects = own + w[Len(s)]
  <2>1. Total(Node(tree, type, own, s).effects, own, s)
    BY <1>1, <1>2, NodeEffects
  <2> QED BY <2>1 DEF Total
<1>4. w[1] = w[0] + s[1].effects /\ w[2] = w[1] + s[2].effects
  <2>1. 1 - 1 = 0 /\ 2 - 1 = 1 /\ 1 \in 1..Len(s) /\ 2 \in 1..Len(s)
    BY <1>1
  <2> QED BY <1>3, <2>1
<1>5. w[2] = x.effects + y.effects
  BY <1>1, <1>3, <1>4
<1> QED BY <1>1, <1>3, <1>5 DEF s

\* No operand but the j-th has side effects.
OnlyAt(j, operands) ==
  /\ j \in 1..Len(operands) /\ operands[j].effects \in Nat
  /\ \A i \in 1..Len(operands) : i # j => operands[i].effects = 0

OneTotal(total, own, j, operands) == total = own + operands[j].effects

\* Those of a node with only one operand that has any.
LEMMA OneEffective ==
  ASSUME NEW tree, NEW type, NEW own \in Nat, NEW S, NEW operands \in Seq(S), NEW j, OnlyAt(j, operands)
  PROVE  OneTotal(Node(tree, type, own, operands).effects, own, j, operands)
<1> DEFINE n == Len(operands)
<1>1. n \in Nat /\ j \in 1..n
  BY DEF OnlyAt
<1>2. \A i \in 1..n : operands[i].effects \in Nat
  BY DEF OnlyAt
<1> HIDE DEF n
<1>3. PICK w \in [0..n -> Nat] :
        /\ w[0] = 0
        /\ \A i \in 1..n : w[i] = w[i - 1] + operands[i].effects
        /\ Node(tree, type, own, operands).effects = own + w[n]
  <2>1. Total(Node(tree, type, own, operands).effects, own, operands)
    BY <1>2, NodeEffects DEF n
  <2> QED BY <2>1 DEF Total, n
<1> DEFINE e == operands[j].effects
           G == {k \in 0..n : w[k] = IF k < j THEN 0 ELSE e}
<1>4. e \in Nat /\ \A i \in 1..n : operands[i].effects = IF i = j THEN e ELSE 0
  BY DEF n, OnlyAt
<1> HIDE DEF e
<1>5. 0 \in G
  BY <1>1, <1>3
<1>6. ASSUME NEW k \in 0..n, k < n, k \in G PROVE k + 1 \in G
  <2> DEFINE i == k + 1
             d == operands[i].effects
  <2>1. i \in 1..n /\ i \in 0..n /\ i - 1 = k
    BY <1>1, <1>6
  <2>2. w[k] = IF k < j THEN 0 ELSE e
    BY <1>6
  <2>3. w[i] = w[k] + d
    BY <1>3, <2>1
  <2>4. d = IF i = j THEN e ELSE 0
    BY <1>4, <2>1
  <2> HIDE DEF d
  <2>5. w[i] = IF i < j THEN 0 ELSE e
    BY <1>1, <1>4, <2>2, <2>3, <2>4
  <2> QED BY <2>1, <2>5
<1> HIDE DEF G
<1>7. \A k \in 0..n : k \in G
  BY <1>1, <1>5, <1>6, UpTo
<1>8. w[n] = e
  BY <1>1, <1>7 DEF G
<1> QED BY <1>3, <1>8 DEF e, OneTotal

\* Literals and names have none.
LEMMA LeafEffects == \A e : Leaf(e).meant.effects = 0
BY DEF Leaf, c_leaf

\* An increment has one, any other operator none of its own.
LEMMA UnaryEffects ==
  ASSUME NEW op, NEW x, x.meant.effects \in Nat
  PROVE  Unary(op, x).meant.effects = (IF op \in Increments THEN 1 ELSE 0) + x.meant.effects
<1> DEFINE u == x.meant
           own == IF op \in Increments THEN 1 ELSE 0
<1>1. Unary(op, x).meant = Node(expr_unary(op, u.tree), UnaryType(op, u.tree, u.type), own, <<u>>)
  BY DEF Unary, c_unary
<1>2. own \in Nat /\ u.effects \in Nat
  OBVIOUS
<1> HIDE DEF u, own
<1>3. Unary(op, x).meant.effects = own + u.effects
  BY <1>1, <1>2, OneOperand
<1> QED BY <1>3 DEF u, own

\* A binary expression has those of both operands.
LEMMA BinaryEffects ==
  ASSUME NEW op, NEW l, l.meant.effects \in Nat, NEW r, r.meant.effects \in Nat
  PROVE  Binary(op, l, r).meant.effects = l.meant.effects + r.meant.effects
<1> DEFINE u == l.meant
           v == r.meant
<1>1. Binary(op, l, r).meant = Node(expr_binary(op, u.tree, v.tree), BinaryType(op, u.type, v.type), 0,
        <<u, v>>)
  BY DEF Binary, c_binary
<1>2. u.effects \in Nat /\ v.effects \in Nat
  OBVIOUS
<1> HIDE DEF u, v
<1>3. Binary(op, l, r).meant.effects = 0 + u.effects + v.effects
  BY <1>1, <1>2, TwoOperands
<1> QED BY <1>2, <1>3 DEF u, v

\* An assignment has one of its own.
LEMMA AssignEffects ==
  ASSUME NEW l, l.meant.effects \in Nat, NEW r, r.meant.effects \in Nat
  PROVE  Assign(l, r).meant.effects = 1 + l.meant.effects + r.meant.effects
<1> DEFINE u == l.meant
           v == r.meant
           type == When(Lvalue(u.tree) /\ Convertible(v.type, u.type), u.type)
<1>1. Assign(l, r).meant = Node(expr_assign(u.tree, v.tree), type, 1, <<u, v>>)
  BY DEF Assign, c_assign
<1>2. u.effects \in Nat /\ v.effects \in Nat
  OBVIOUS
<1> HIDE DEF u, v, type
<1>3. Assign(l, r).meant.effects = 1 + u.effects + v.effects
  BY <1>1, <1>2, TwoOperands
<1> QED BY <1>2, <1>3 DEF u, v

\* A field has those of its struct.
LEMMA FieldEffects ==
  ASSUME NEW x, x.meant.effects \in Nat, NEW m
  PROVE  Field(x, m).meant.effects = x.meant.effects
<1> DEFINE u == x.meant
           type == LET field == struct_field_type(u.type, m) IN When(field.reports
               = {}, emit_type(field.type))
<1>1. Field(x, m).meant = Node(expr_member(u.tree, m), type, 0, <<u>>)
  BY DEF Field, c_member
<1>2. u.effects \in Nat
  OBVIOUS
<1> HIDE DEF u, type
<1>3. Field(x, m).meant.effects = 0 + u.effects
  BY <1>1, <1>2, OneOperand
<1> QED BY <1>2, <1>3 DEF u

\* An index has those of the array and of the index.
LEMMA IndexEffects ==
  ASSUME NEW l, l.meant.effects \in Nat, NEW r, r.meant.effects \in Nat
  PROVE  Index(l, r).meant.effects = l.meant.effects + r.meant.effects
<1> DEFINE u == l.meant
           v == r.meant
           type == When(IsPtr(u.type) /\ Category(v.type) = "integer", Base(u.type))
<1>1. Index(l, r).meant = Node(expr_index(u.tree, v.tree), type, 0, <<u, v>>)
  BY DEF Index, c_index
<1>2. u.effects \in Nat /\ v.effects \in Nat
  OBVIOUS
<1> HIDE DEF u, v, type
<1>3. Index(l, r).meant.effects = 0 + u.effects + v.effects
  BY <1>1, <1>2, TwoOperands
<1> QED BY <1>2, <1>3 DEF u, v

\* A call has one of its own, and those of the argument that has any.
LEMMA CallEffects ==
  ASSUME NEW name, name \notin Printing, NEW S, NEW args \in Seq(S), NEW j \in DOMAIN args,
         args[j].meant.effects \in Nat,
         \A i \in DOMAIN args : i # j => args[i].meant.effects = 0
  PROVE  Called(name, args).meant.effects = 1 + args[j].meant.effects
<1> DEFINE m == [n \in DOMAIN args |-> args[n].meant]
           M == {args[n].meant : n \in DOMAIN args}
           k == Len(args)
<1>1. Called(name, args).meant = c_call(name, m)
  BY DEF Called, MeantCall
<1>2. k \in Nat /\ DOMAIN args = 1..k /\ m \in [1..k -> M]
  OBVIOUS
<1>3. \A i \in 1..k : m[i].effects = args[i].meant.effects
  OBVIOUS
<1> HIDE DEF m, M, k
<1>4. m \in Seq(M) /\ Len(m) = k
  BY <1>2, FunctionSeq
<1> DEFINE tree == expr_call(name, [n \in DOMAIN m |-> m[n].tree])
           type == CallType(name, m)
<1>5. c_call(name, m) = Node(tree, type, 1, m)
  BY DEF c_call
<1> HIDE DEF tree, type
<1>6. j \in 1..Len(m) /\ m[j].effects = args[j].meant.effects /\ m[j].effects \in Nat
      /\ \A i \in 1..Len(m) : i # j => m[i].effects = 0
  BY <1>2, <1>3, <1>4
<1>7. Node(tree, type, 1, m).effects = 1 + m[j].effects
  <2>1. OnlyAt(j, m)
    BY <1>6 DEF OnlyAt
  <2>2. OneTotal(Node(tree, type, 1, m).effects, 1, j, m)
    BY <1>4, <2>1, OneEffective
  <2> QED BY <2>2 DEF OneTotal
<1> QED BY <1>1, <1>5, <1>6, <1>7

\* So has a call of print and its like.
LEMMA PrintEffects ==
  ASSUME NEW name \in Printing, NEW x, x.meant.effects \in Nat
  PROVE  Called(name, <<x>>).meant.effects = 1 + x.meant.effects
<1> DEFINE args == <<x>>
           u == x.meant
           f == c_leaf(expr_string(MeantFormat[name]))
           z == IF name = "print_int" THEN c_unary("CAST", u) ELSE u
           m == <<f, z>>
           tree == expr_call("printf", [n \in DOMAIN m |-> m[n].tree])
           type == CallType("printf", m)
<1>1. Called(name, args).meant = MeantCall(name, [n \in DOMAIN args |-> args[n].meant])
  BY DEF Called
<1>2. [n \in DOMAIN args |-> args[n].meant] = <<u>>
  OBVIOUS
<1>3. MeantCall(name, <<u>>) = c_call("printf", m)
  BY MeantPrint
<1>4. c_call("printf", m) = Node(tree, type, 1, m)
  BY DEF c_call
<1>5. f.effects = 0
  BY DEF c_leaf
<1>6. u.effects \in Nat
  OBVIOUS
<1> HIDE DEF f, u, tree, type
<1>7. c_unary("CAST", u).effects = u.effects
  <2> DEFINE t == expr_unary("CAST", u.tree)
             y == UnaryType("CAST", u.tree, u.type)
  <2>1. c_unary("CAST", u) = Node(t, y, 0, <<u>>)
    BY DEF c_unary, Increments, PostfixOps
  <2> HIDE DEF t, y
  <2>2. Node(t, y, 0, <<u>>).effects = 0 + u.effects
    BY <1>6, OneOperand
  <2> QED BY <1>6, <2>1, <2>2
<1>8. z.effects = u.effects
  BY <1>7
<1> HIDE DEF z
<1>9. Node(tree, type, 1, <<f, z>>).effects = 1 + 0 + u.effects
  BY <1>5, <1>6, <1>8, TwoOperands
<1> HIDE DEF m, args
<1>10. Called(name, args).meant.effects = 1 + u.effects
  BY <1>1, <1>2, <1>3, <1>4, <1>6, <1>9 DEF m
<1> QED BY <1>10 DEF u, args

\* Where the expression is among the arguments of a call.
LEMMA OneOfThem ==
  ASSUME NEW x, NEW B, NEW before \in {<<>>} \cup {<<b>> : b \in B},
           NEW after \in {<<>>} \cup {<<b>> : b \in B}
  PROVE  LET args == before \o <<x>> \o after
         IN  \E j \in DOMAIN args : args[j] = x /\ \A i \in DOMAIN args : i # j => args[i] \in B
<1>1. CASE before = <<>> /\ after = <<>>
  <2>1. <<>> \o <<x>> \o <<>> = <<x>>
    OBVIOUS
  <2> QED BY <1>1, <2>1
<1>2. ASSUME NEW a \in B, before = <<>>, after = <<a>>
      PROVE  before \o <<x>> \o after = <<x, a>>
  <2>1. <<>> \o <<x>> = <<x>>
    OBVIOUS
  <2> QED BY <1>2, <2>1, OneThenOne
<1>3. ASSUME NEW b \in B, before = <<b>>, after = <<>>
      PROVE  before \o <<x>> \o after = <<b, x>>
  <2>1. <<b, x>> \o <<>> = <<b, x>>
    OBVIOUS
  <2> QED BY <1>3, <2>1, OneThenOne
<1>4. ASSUME NEW b \in B, before = <<b>>, NEW a \in B, after = <<a>>
      PROVE  before \o <<x>> \o after = <<b, x, a>>
  <2>1. <<b>> \o <<x>> = <<b, x>>
    BY OneThenOne
  <2>2. <<b, x>> \o <<a>> = <<b, x, a>>
    BY Joined, ZenonT(60)
  <2> QED BY <1>4, <2>1, <2>2, Zenon
<1>5. ASSUME NEW a \in B, before \o <<x>> \o after = <<x, a>>
      PROVE  LET args == before \o <<x>> \o after
             IN  \E j \in DOMAIN args : args[j] = x /\ \A i \in DOMAIN args : i # j => args[i] \in B
  <2> DEFINE s == <<x, a>>
  <2>1. 1 \in DOMAIN s /\ s[1] = x /\ \A i \in DOMAIN s : i # 1 => s[i] \in B
    OBVIOUS
  <2> HIDE DEF s
  <2> QED BY <1>5, <2>1 DEF s
<1>6. ASSUME NEW b \in B, before \o <<x>> \o after = <<b, x>>
      PROVE  LET args == before \o <<x>> \o after
             IN  \E j \in DOMAIN args : args[j] = x /\ \A i \in DOMAIN args : i # j => args[i] \in B
  <2> DEFINE s == <<b, x>>
  <2>1. 2 \in DOMAIN s /\ s[2] = x /\ \A i \in DOMAIN s : i # 2 => s[i] \in B
    OBVIOUS
  <2> HIDE DEF s
  <2> QED BY <1>6, <2>1 DEF s
<1>7. ASSUME NEW b \in B, NEW a \in B, before \o <<x>> \o after = <<b, x, a>>
      PROVE  LET args == before \o <<x>> \o after
             IN  \E j \in DOMAIN args : args[j] = x /\ \A i \in DOMAIN args : i # j => args[i] \in B
  <2> DEFINE s == <<b, x, a>>
  <2>1. 2 \in DOMAIN s /\ s[2] = x /\ \A i \in DOMAIN s : i # 2 => s[i] \in B
    OBVIOUS
  <2> HIDE DEF s
  <2> QED BY <1>7, <2>1 DEF s
<1>8. /\ before = <<>> \/ \E b \in B : before = <<b>>
      /\ after = <<>> \/ \E a \in B : after = <<a>>
  OBVIOUS
<1>9. CASE before = <<>> /\ \E a \in B : after = <<a>>
  BY <1>2, <1>5, <1>9
<1>10. CASE after = <<>> /\ \E b \in B : before = <<b>>
  BY <1>3, <1>6, <1>10
<1>11. CASE (\E a \in B : after = <<a>>) /\ \E b \in B : before = <<b>>
  BY <1>4, <1>7, <1>11
<1> QED BY <1>1, <1>8, <1>9, <1>10, <1>11

\* The C code has the side effects the source spells out.
EffectsInv == effects \in Nat /\ expr.meant.effects = effects

\* A source begins with no side effects.
LEMMA EffectsInit ==
  ASSUME Init
  PROVE  EffectsInv
BY LeafEffects DEF Init, EffectsInv

\* What is spelled out is counted where the effects of the tree grow as
\* much.
LEMMA GrownEffects ==
  ASSUME NEW e, NEW own \in Nat, e.meant.effects = own + effects, effects \in Nat, Grow(e, own)
  PROVE  EffectsInv'
<1>1. expr' = e /\ effects' = effects + own
  BY DEF Grow
<1>2. effects' \in Nat /\ effects' = own + effects
  BY <1>1
<1> QED BY <1>1, <1>2 DEF EffectsInv

\* They do with every operator but a compound assignment to what has
\* effects of its own.
LEMMA EffectsNext ==
  ASSUME Habits \cap (Reshaping \cup {"compound_effect"}) = {}, EffectsInv, Next
  PROVE  EffectsInv'
<1>1. effects \in Nat /\ expr.meant.effects = effects /\ expr.meant.effects \in Nat
  BY DEF EffectsInv
<1>2. \A s : Leaf(s).meant.effects = 0 /\ Leaf(s).meant.effects \in Nat
  BY LeafEffects
<1>3. 0 \in Nat /\ 1 \in Nat
  OBVIOUS
<1>4. ASSUME NEW op, Grow(Unary(op, expr), IF op \in Increments THEN 1 ELSE 0)
      PROVE  EffectsInv'
  <2> DEFINE own == IF op \in Increments THEN 1 ELSE 0
  <2>1. own \in Nat /\ Grow(Unary(op, expr), own)
    BY <1>4
  <2>2. Unary(op, expr).meant.effects = own + effects
    BY <1>1, UnaryEffects
  <2> HIDE DEF own
  <2> QED BY <1>1, <2>1, <2>2, GrownEffects
<1>5. ASSUME NEW op \in PrefixOps, Prefix(op)
      PROVE  EffectsInv'
  BY <1>4, <1>5 DEF Prefix
<1>6. ASSUME NEW op \in PostfixOps, Postfix(op)
      PROVE  EffectsInv'
  <2>1. op \in Increments
    BY DEF Increments
  <2> QED BY <1>4, <1>6, <2>1 DEF Postfix, Grown
<1>7. ASSUME NEW m \in Members, Member(m)
      PROVE  EffectsInv'
  <2>1. Grow(Field(expr, m), 0)
    BY <1>7 DEF Member, Grown, Reshaping
  <2>2. Field(expr, m).meant.effects = 0 + effects
    BY <1>1, FieldEffects
  <2> QED BY <1>1, <1>3, <2>1, <2>2, GrownEffects
<1>8. ASSUME NEW s \in Used(Siblings)
      PROVE  /\ IndexOf(s) => EffectsInv'
             /\ IndexBy(s) => EffectsInv'
             /\ AssignTo(s) => EffectsInv'
             /\ AssignFrom(s) => EffectsInv'
             /\ \A op \in Operators : BinaryWith(op, s) => EffectsInv'
             /\ \A op \in Operators : CompoundAssign(op, s) => EffectsInv'
  <2> DEFINE l == Leaf(s)
  <2>1. l.meant.effects = 0 /\ l.meant.effects \in Nat
    BY <1>2
  <2>2. IndexOf(s) => Grow(Index(expr, l), 0)
    BY DEF IndexOf, Grown
  <2>3. IndexBy(s) => Grow(Index(l, expr), 0)
    BY DEF IndexBy
  <2>4. AssignTo(s) => Grow(Assign(l, expr), 1)
    BY DEF AssignTo
  <2>5. AssignFrom(s) => Grow(Assign(expr, l), 1)
    BY DEF AssignFrom
  <2>6. \A op \in Operators : BinaryWith(op, s) =>
          Grow(Binary(op, expr, l), 0) \/ Grow(Binary(op, l, expr), 0)
    BY DEF BinaryWith
  <2>7. \A op \in Operators : CompoundAssign(op, s) =>
          ~(effects > 0) /\ Grow(Assign(expr, Binary(op, expr, l)), 1)
    BY DEF CompoundAssign, Compound, Uses
  <2> HIDE DEF l
  <2>8. /\ Index(expr, l).meant.effects = 0 + effects
        /\ Index(l, expr).meant.effects = 0 + effects
        /\ Assign(l, expr).meant.effects = 1 + effects
        /\ Assign(expr, l).meant.effects = 1 + effects
    <3>1. /\ Index(expr, l).meant.effects = expr.meant.effects + l.meant.effects
          /\ Index(l, expr).meant.effects = l.meant.effects + expr.meant.effects
      BY <1>1, <2>1, IndexEffects
    <3>2. /\ Assign(l, expr).meant.effects = 1 + l.meant.effects + expr.meant.effects
          /\ Assign(expr, l).meant.effects = 1 + expr.meant.effects + l.meant.effects
      BY <1>1, <2>1, AssignEffects
    <3> QED BY <1>1, <2>1, <3>1, <3>2
  <2>9. ASSUME NEW op
        PROVE  /\ Binary(op, expr, l).meant.effects = 0 + effects
               /\ Binary(op, l, expr).meant.effects = 0 + effects
               /\ ~(effects > 0) => Assign(expr, Binary(op, expr, l)).meant.effects = 1 + effects
    <3>1. Binary(op, expr, l).meant.effects = effects /\ Binary(op, l, expr).meant.effects = effects
      BY <1>1, <2>1, BinaryEffects
    <3>2. Assign(expr, Binary(op, expr, l)).meant.effects = 1 + effects + effects
      BY <1>1, <3>1, AssignEffects
    <3>3. 1 + effects + effects = 1 + effects <=> ~(effects > 0)
      BY <1>1
    <3> QED BY <1>1, <3>1, <3>2, <3>3
  <2>10. (IndexOf(s) => EffectsInv') /\ (IndexBy(s) => EffectsInv')
    BY <1>1, <1>3, <2>2, <2>3, <2>8, GrownEffects
  <2>11. (AssignTo(s) => EffectsInv') /\ (AssignFrom(s) => EffectsInv')
    BY <1>1, <1>3, <2>4, <2>5, <2>8, GrownEffects
  <2>12. \A op \in Operators : BinaryWith(op, s) => EffectsInv'
    BY <1>1, <1>3, <2>6, <2>9, GrownEffects
  <2>13. \A op \in Operators : CompoundAssign(op, s) => EffectsInv'
    BY <1>1, <1>3, <2>7, <2>9, GrownEffects
  <2> QED BY <2>10, <2>11, <2>12, <2>13
<1>9. ASSUME NEW name \in DOMAIN Params, NEW before \in Arguments, NEW after \in Arguments,
             Call(name, before, after)
      PROVE  EffectsInv'
  <2> DEFINE args == before \o <<expr>> \o after
             B == {Leaf(s) : s \in Used(Siblings)}
             S == B \cup {expr}
  <2>1. before \in {<<>>} \cup {<<b>> : b \in B} /\ after \in {<<>>} \cup {<<b>> : b \in B}
    BY DEF Arguments
  <2>2. \A x \in B : x.meant.effects = 0
    BY <1>2
  <2>3. /\ Params[name] = [n \in DOMAIN args |-> args[n].checked.type]
        /\ Grow(Called(name, args), 1)
    BY <1>9 DEF Call, Uses, Reshaping
  <2> HIDE DEF B
  <2>4. args \in Seq(S) /\ args # <<>> /\ (Len(args) = 1 => args = <<expr>>)
    BY <2>1, ArgumentsAre, ZenonT(60)
  <2>5. PICK j \in DOMAIN args : args[j] = expr /\ \A i \in DOMAIN args : i # j => args[i] \in B
    BY <2>1, OneOfThem
  <2> HIDE DEF args, S
  <2>6. CASE name \in Printing
    <3>1. Params[name] = <<Printable[name]>>
      BY <2>6, ExpressionsAssumption
    <3>2. DOMAIN args = 1..1
      BY <2>3, <3>1
    <3>3. Len(args) = 1
      BY <2>4, <3>2
    <3>4. Called(name, <<expr>>).meant.effects = 1 + effects
      BY <1>1, <2>6, PrintEffects
    <3> QED BY <1>1, <1>3, <2>3, <2>4, <3>3, <3>4, GrownEffects
  <2>7. CASE name \notin Printing
    <3>1. args[j].meant.effects = effects /\ args[j].meant.effects \in Nat
      BY <1>1, <2>5
    <3>2. \A i \in DOMAIN args : i # j => args[i].meant.effects = 0
      BY <2>2, <2>5
    <3>3. Called(name, args).meant.effects = 1 + effects
      BY <2>4, <2>7, <3>1, <3>2, CallEffects
    <3> QED BY <1>1, <1>3, <2>3, <3>3, GrownEffects
  <2> QED BY <2>6, <2>7
<1> QED BY <1>5, <1>6, <1>7, <1>8, <1>9 DEF Next

\* Every assignment, increment and call such a source spells out is in the
\* C code once, if no compound assignment has a target with side effects of
\* its own: parse_assign puts the target into the tree twice.
THEOREM EffectsAreKept ==
  ASSUME Habits \cap (Reshaping \cup {"compound_effect"}) = {}
  PROVE  Spec => []EffectsKept
<1>1. Init => EffectsInv
  BY EffectsInit
<1>2. EffectsInv /\ [Next]_vars => EffectsInv'
  <2>1. EffectsInv /\ Next => EffectsInv'
    BY EffectsNext
  <2>2. EffectsInv /\ UNCHANGED vars => EffectsInv'
    BY DEF EffectsInv, vars
  <2> QED BY <2>1, <2>2
<1>3. Spec => []SameTree
  BY TextReadsAsTree
<1>4. EffectsInv /\ SameTree => EffectsKept
  BY DEF EffectsInv, SameTree, EffectsKept
<1> QED BY <1>1, <1>2, <1>3, <1>4, PTL DEF Spec

-----------------------------------------------------------------------------
(* What check_expr returns                                                 *)

Codes ==
  {"GHL102", "GHL201", "GHL202", "GHL203", "GHL205", "GHL206", "GHL210", "GHL211", "GHL212", "GHL213"}

\* What check_expr may return.
Checked(r) ==
  /\ IsType(r.type) \/ (r.reports # {} /\ r.type = Error)
  /\ r.reports \subseteq Codes

\* The types the checker makes of types are types.
LEMMA TypesAre ==
  /\ \A kind \in Kinds : IsType(type_new(kind))
  /\ \A type : IsType(type) => IsType(type_ptr(type))
  /\ \A type : IsType(type) /\ IsPtr(type) => IsType(Base(type))
<1>1. \A kind \in Kinds : IsType(type_new(kind))
  BY DEF IsType, type_new, Type
<1>2. ASSUME NEW type, IsType(type) PROVE IsType(type_ptr(type))
  BY <1>2 DEF IsType, type_ptr, Type
<1>3. ASSUME NEW type, IsType(type), IsPtr(type) PROVE IsType(Base(type))
  <2>1. type.stars \in Nat /\ type.stars > 0
    BY <1>3 DEF IsType, IsPtr
  <2>2. type.stars - 1 \in Nat
    BY <2>1
  <2> QED BY <1>3, <2>2 DEF IsType, Base, Type
<1> QED BY <1>1, <1>2, <1>3

\* What is reported is none.
LEMMA ErrorIs == Error = type_new("error") /\ ~IsPtr(Error) /\ ~IsType(Error)
BY DEF Error, IsPtr, IsType, type_new, Type, Kinds

\* A type without a report is a result.
LEMMA CleanChecked ==
  ASSUME NEW type, IsType(type)
  PROVE  Checked(Clean(type))
BY DEF Checked, Clean

\* So is a report without a type.
LEMMA ReportChecked ==
  ASSUME NEW code \in Codes
  PROVE  Checked(Report(code))
BY DEF Checked, Report

\* check_expr returns a type, or something was reported.
LEMMA ExprChecked ==
  ASSUME NEW own, own.reports \subseteq Codes, NEW operands,
         \A n \in DOMAIN operands : operands[n].reports \subseteq Codes,
         Checked(own) \/ (own.type = Error /\ \E n \in DOMAIN operands : operands[n].reports # {})
  PROVE  Checked(check_expr(own, operands))
<1> DEFINE r == check_expr(own, operands)
           all == UNION {operands[n].reports : n \in DOMAIN operands}
<1>1. r.type = own.type /\ r.reports = own.reports \cup all
  BY DEF check_expr
<1>2. all \subseteq Codes /\ \A n \in DOMAIN operands : operands[n].reports \subseteq all
  OBVIOUS
<1> HIDE DEF r, all
<1>3. r.reports \subseteq Codes
  BY <1>1, <1>2
<1>4. IsType(r.type) \/ (r.reports # {} /\ r.type = Error)
  <2>1. CASE Checked(own)
    BY <1>1, <2>1 DEF Checked
  <2>2. CASE own.type = Error /\ \E n \in DOMAIN operands : operands[n].reports # {}
    <3>1. all # {}
      BY <1>2, <2>2
    <3> QED BY <1>1, <2>2, <3>1
  <2> QED BY <2>1, <2>2
<1> QED BY <1>3, <1>4 DEF Checked, r

\* So does it for literals and names.
LEMMA LeafChecked ==
  ASSUME NEW e, IsLeaf(e)
  PROVE  Checked(check_leaf(e))
<1>1. CASE e.kind = "null"
  <2>1. check_leaf(e) = Clean(type_ptr(type_new("void")))
    BY <1>1 DEF check_leaf
  <2>2. "void" \in Kinds
    BY DEF Kinds
  <2> QED BY <2>1, <2>2, TypesAre, CleanChecked
<1>2. CASE e.kind = "ident"
  <2>1. CASE e.value[1] \in DOMAIN Types
    <3>1. check_leaf(e) = Clean(Types[e.value[1]])
      BY <1>2, <2>1 DEF check_leaf
    <3> QED BY <2>1, <3>1, ExpressionsAssumption, CleanChecked
  <2>2. CASE e.value[1] \notin DOMAIN Types
    <3>1. check_leaf(e) = Report("GHL102") /\ "GHL102" \in Codes
      BY <1>2, <2>2 DEF check_leaf, Codes
    <3> QED BY <3>1, ReportChecked
  <2> QED BY <2>1, <2>2
<1>3. CASE e.kind # "null" /\ e.kind # "ident"
  <2>1. check_leaf(e) = Clean(type_new(e.kind))
    BY <1>3 DEF check_leaf
  <2>2. e.kind \in Kinds
    BY <1>3 DEF IsLeaf, Kinds, expr_int, expr_float, expr_bool, expr_string, expr_char, expr_null,
         expr_ident
  <2> QED BY <2>1, <2>2, TypesAre, CleanChecked
<1> QED BY <1>1, <1>2, <1>3

\* So does it for a prefix or a postfix operator.
LEMMA UnaryChecked ==
  ASSUME NEW op, NEW type, IsType(type)
  PROVE  Checked(check_unary(op, type))
<1>1. CASE op = "NOT"
  <2>1. check_unary(op, type) = Clean(type_new("bool")) /\ "bool" \in Kinds
    BY <1>1 DEF check_unary, Kinds
  <2> QED BY <2>1, TypesAre, CleanChecked
<1>2. CASE op = "ADDR"
  <2>1. check_unary(op, type) = Clean(type_ptr(type))
    BY <1>2 DEF check_unary
  <2> QED BY <2>1, TypesAre, CleanChecked
<1>3. CASE op = "DEREF"
  <2>1. check_unary(op, type) = IF IsPtr(type) THEN Clean(Base(type)) ELSE Report("GHL203")
    BY <1>3 DEF check_unary
  <2>2. "GHL203" \in Codes
    BY DEF Codes
  <2>3. CASE IsPtr(type)
    BY <2>1, <2>3, TypesAre, CleanChecked
  <2>4. CASE ~IsPtr(type)
    BY <2>1, <2>2, <2>4, ReportChecked
  <2> QED BY <2>3, <2>4
<1>4. CASE op \notin {"NOT", "ADDR", "DEREF"}
  <2>1. check_unary(op, type) = Clean(type)
    BY <1>4 DEF check_unary
  <2> QED BY <2>1, CleanChecked
<1> QED BY <1>1, <1>2, <1>3, <1>4

\* So does it for a binary operator, whatever the types of the operands.
LEMMA BinaryChecked ==
  ASSUME NEW op, NEW lt, NEW rt
  PROVE  Checked(check_binary(op, lt, rt))
<1>1. /\ "bool" \in Kinds /\ "int" \in Kinds /\ "float" \in Kinds /\ "GHL202" \in Codes
      /\ Arithmetic \cap (Comparisons \cup Logical) = {}
      /\ type_new("int") # type_new("float")
  BY DEF Kinds, Codes, Arithmetic, Comparisons, Logical, type_new, Type
<1> DEFINE int == type_new("int")
           float == type_new("float")
<1> HIDE DEF int, float
<1>2. CASE op \in Comparisons \cup Logical
  <2>1. check_binary(op, lt, rt) = Clean(type_new("bool"))
    BY <1>1, <1>2 DEF check_binary
  <2> QED BY <1>1, <2>1, TypesAre, CleanChecked
<1>3. CASE op \in Arithmetic /\ {lt, rt} = {type_new("int")}
  <2>1. op \notin Comparisons \cup Logical /\ type_new("float") \notin {lt, rt}
    BY <1>1, <1>3
  <2>2. check_binary(op, lt, rt) = Clean(type_new("int"))
    BY <1>3, <2>1 DEF check_binary
  <2> QED BY <1>1, <2>2, TypesAre, CleanChecked
<1>4. CASE op \in Arithmetic /\ type_new("float") \in {lt, rt}
  <2>1. op \notin Comparisons \cup Logical /\ {lt, rt} # {type_new("int")}
    BY <1>1, <1>4
  <2>2. check_binary(op, lt, rt) = Clean(type_new("float"))
    BY <1>4, <2>1 DEF check_binary
  <2> QED BY <1>1, <2>2, TypesAre, CleanChecked
<1>5. CASE /\ op \notin Comparisons \cup Logical
           /\ ~(op \in Arithmetic /\ {lt, rt} = {type_new("int")})
           /\ ~(op \in Arithmetic /\ type_new("float") \in {lt, rt})
  <2>1. check_binary(op, lt, rt) = Report("GHL202")
    BY <1>5 DEF check_binary
  <2> QED BY <1>1, <2>1, ReportChecked
<1> QED BY <1>2, <1>3, <1>4, <1>5

\* So does it for a field.
LEMMA FieldChecked ==
  ASSUME NEW ot, NEW m
  PROVE  Checked(struct_field_type(ot, m))
<1>1. {"GHL210", "GHL211", "GHL212"} \subseteq Codes
  BY DEF Codes
<1>2. CASE ot.kind # "struct" \/ IsPtr(ot)
  <2>1. struct_field_type(ot, m) = Report("GHL210")
    BY <1>2 DEF struct_field_type
  <2> QED BY <1>1, <2>1, ReportChecked
<1>3. CASE ~(ot.kind # "struct" \/ IsPtr(ot)) /\ ot.name \notin DOMAIN Fields
  <2>1. struct_field_type(ot, m) = Report("GHL211")
    BY <1>3 DEF struct_field_type
  <2> QED BY <1>1, <2>1, ReportChecked
<1>4. CASE ~(ot.kind # "struct" \/ IsPtr(ot)) /\ ot.name \in DOMAIN Fields
        /\ m \notin DOMAIN Fields[ot.name]
  <2>1. struct_field_type(ot, m) = Report("GHL212")
    BY <1>4 DEF struct_field_type
  <2> QED BY <1>1, <2>1, ReportChecked
<1>5. CASE ~(ot.kind # "struct" \/ IsPtr(ot)) /\ ot.name \in DOMAIN Fields
        /\ m \in DOMAIN Fields[ot.name]
  <2>1. struct_field_type(ot, m) = Clean(Fields[ot.name][m])
    BY <1>5 DEF struct_field_type
  <2> QED BY <1>5, <2>1, ExpressionsAssumption, CleanChecked
<1> QED BY <1>2, <1>3, <1>4, <1>5

\* So does it for an index.
LEMMA IndexChecked ==
  ASSUME NEW at, IsType(at) \/ at = Error
  PROVE  Checked(check_index(at))
<1>1. CASE IsPtr(at)
  <2>1. IsType(at)
    BY <1>1, ErrorIs
  <2>3. at # type_new("string")
    BY <1>1 DEF IsPtr, type_new, Type
  <2>2. check_index(at) = Clean(Base(at))
    BY <1>1, <2>3 DEF check_index
  <2> QED BY <1>1, <2>1, <2>2, TypesAre, CleanChecked
<1>2. CASE ~IsPtr(at) /\ at = type_new("string")
  <2>1. check_index(at) = Clean(type_new("char")) /\ "char" \in Kinds
    BY <1>2 DEF check_index, Kinds
  <2> QED BY <2>1, TypesAre, CleanChecked
<1>3. CASE ~IsPtr(at) /\ at # type_new("string")
  <2>1. check_index(at) = Report("GHL213") /\ "GHL213" \in Codes
    BY <1>3 DEF check_index, Codes
  <2> QED BY <2>1, ReportChecked
<1> QED BY <1>1, <1>2, <1>3

\* So does it for a call.
LEMMA CallChecked ==
  ASSUME NEW name
  PROVE  Checked(check_call(name))
<1>1. CASE name \in DOMAIN Builtins
  <2>1. check_call(name) = Clean(Builtins[name])
    BY <1>1 DEF check_call
  <2>2. Builtins[name] \in {type_new("float"), type_new("void"), type_new("int")}
    BY <1>1 DEF Builtins
  <2>3. {"float", "void", "int"} \subseteq Kinds
    BY DEF Kinds
  <2> QED BY <2>1, <2>2, <2>3, TypesAre, CleanChecked
<1>2. CASE name \notin DOMAIN Builtins /\ name \in DOMAIN Types
  <2>1. check_call(name) = Clean(Types[name])
    BY <1>2 DEF check_call
  <2> QED BY <1>2, <2>1, ExpressionsAssumption, CleanChecked
<1>3. CASE name \notin DOMAIN Builtins /\ name \notin DOMAIN Types
  <2>1. check_call(name) = Report("GHL205") /\ "GHL205" \in Codes
    BY <1>3 DEF check_call, Codes
  <2> QED BY <2>1, ReportChecked
<1> QED BY <1>1, <1>2, <1>3

\* The types and reports of what is built of checked expressions.
LEMMA OneChecked ==
  ASSUME NEW own, Checked(own), NEW x, Checked(x)
  PROVE  Checked(check_expr(own, <<x>>))
<1> DEFINE s == <<x>>
<1>1. \A n \in DOMAIN s : s[n] = x
  OBVIOUS
<1> HIDE DEF s
<1>2. Checked(check_expr(own, s))
  BY <1>1, ExprChecked DEF Checked
<1> QED BY <1>2 DEF s

\* So does it for a node with two.
LEMMA TwoChecked ==
  ASSUME NEW own, own.reports \subseteq Codes, NEW x, Checked(x), NEW y, Checked(y),
         Checked(own) \/ (own.type = Error /\ x.reports # {})
  PROVE  Checked(check_expr(own, <<x, y>>))
<1> DEFINE s == <<x, y>>
<1>1. (\A n \in DOMAIN s : s[n] = x \/ s[n] = y) /\ 1 \in DOMAIN s /\ s[1] = x
  OBVIOUS
<1> HIDE DEF s
<1>2. \A n \in DOMAIN s : s[n].reports \subseteq Codes
  BY <1>1 DEF Checked
<1>3. Checked(own) \/ (own.type = Error /\ \E n \in DOMAIN s : s[n].reports # {})
  BY <1>1
<1>4. Checked(check_expr(own, s))
  BY <1>2, <1>3, ExprChecked
<1> QED BY <1>4 DEF s

\* A unary expression is checked if its operand is.
LEMMA UnaryIsChecked ==
  ASSUME NEW op, NEW x, Checked(x.checked), IsType(x.checked.type)
  PROVE  Checked(Unary(op, x).checked)
<1> DEFINE c == x.checked
<1>1. Unary(op, x).checked = check_expr(check_unary(op, c.type), <<c>>)
  BY DEF Unary
<1> HIDE DEF c
<1>2. Checked(check_unary(op, c.type))
  BY UnaryChecked DEF c
<1>3. Checked(c)
  BY DEF c
<1> QED BY <1>1, <1>2, <1>3, OneChecked

\* A field is if the struct is.
LEMMA FieldIsChecked ==
  ASSUME NEW x, Checked(x.checked), NEW m
  PROVE  Checked(Field(x, m).checked)
<1> DEFINE c == x.checked
<1>1. Field(x, m).checked = check_expr(struct_field_type(c.type, m), <<c>>)
  BY DEF Field
<1> HIDE DEF c
<1>2. Checked(struct_field_type(c.type, m)) /\ Checked(c)
  BY FieldChecked DEF c
<1> QED BY <1>1, <1>2, OneChecked

\* A binary expression is if both operands are.
LEMMA BinaryIsChecked ==
  ASSUME NEW op, NEW l, Checked(l.checked), NEW r, Checked(r.checked)
  PROVE  Checked(Binary(op, l, r).checked)
<1> DEFINE a == l.checked
           b == r.checked
           own == check_binary(op, a.type, b.type)
<1>1. Binary(op, l, r).checked = check_expr(own, <<a, b>>)
  BY DEF Binary
<1>2. Checked(own) /\ Checked(a) /\ Checked(b)
  BY BinaryChecked
<1> HIDE DEF a, b, own
<1>3. own.reports \subseteq Codes
  BY <1>2 DEF Checked
<1> QED BY <1>1, <1>2, <1>3, TwoChecked

\* An index is if both operands are.
LEMMA IndexIsChecked ==
  ASSUME NEW l, Checked(l.checked), NEW r, Checked(r.checked)
  PROVE  Checked(Index(l, r).checked)
<1> DEFINE a == l.checked
           b == r.checked
           own == check_index(a.type)
<1>1. Index(l, r).checked = check_expr(own, <<a, b>>)
  BY DEF Index
<1>2. Checked(a) /\ Checked(b)
  OBVIOUS
<1> HIDE DEF a, b
<1>3. Checked(own)
  BY <1>2, IndexChecked DEF Checked
<1> HIDE DEF own
<1>4. own.reports \subseteq Codes
  BY <1>3 DEF Checked
<1> QED BY <1>1, <1>2, <1>3, <1>4, TwoChecked

\* An assignment is if both operands are.
LEMMA AssignIsChecked ==
  ASSUME NEW l, Checked(l.checked), NEW r, Checked(r.checked)
  PROVE  Checked(Assign(l, r).checked)
<1> DEFINE a == l.checked
           b == r.checked
           own == check_assign(l.tree, a.type, b.type)
<1>1. Assign(l, r).checked = check_expr(own, <<a, b>>)
  BY DEF Assign
<1>2. own.type = a.type /\ own.reports \subseteq Codes
  BY DEF check_assign, Codes
<1>3. Checked(a) /\ Checked(b)
  OBVIOUS
<1> HIDE DEF a, b, own
<1>4. Checked(own) \/ (own.type = Error /\ a.reports # {})
  BY <1>2, <1>3 DEF Checked
<1> QED BY <1>1, <1>2, <1>3, <1>4, TwoChecked

\* A call is if the arguments are.
LEMMA CallIsChecked ==
  ASSUME NEW name, NEW args, \A n \in DOMAIN args : Checked(args[n].checked)
  PROVE  Checked(Called(name, args).checked)
<1> DEFINE s == [n \in DOMAIN args |-> args[n].checked]
           own == check_call(name)
<1>1. Called(name, args).checked = check_expr(own, s)
  BY DEF Called
<1>2. \A n \in DOMAIN s : s[n].reports \subseteq Codes
  BY DEF Checked
<1>3. Checked(own)
  BY CallChecked
<1> HIDE DEF s, own
<1>4. own.reports \subseteq Codes
  BY <1>3 DEF Checked
<1> QED BY <1>1, <1>2, <1>3, <1>4, ExprChecked

\* The types and counters of an expression that grows.
TypeInv == Checked(expr.checked) /\ height \in 0..MaxHeight /\ effects \in 0..height

\* What a source begins with is checked.
LEMMA UsedChecked ==
  ASSUME NEW e \in Used(Leaves)
  PROVE  Checked(Leaf(e).checked)
<1>1. IsLeaf(e)
  BY ExpressionsAssumption DEF Used
<1>2. Leaf(e).checked = check_leaf(e)
  BY DEF Leaf
<1> QED BY <1>1, <1>2, LeafChecked

\* So the types and counters begin.
LEMMA TypeInit ==
  ASSUME Init
  PROVE  TypeInv
<1>1. Checked(expr.checked)
  BY UsedChecked DEF Init
<1>2. height \in 0..MaxHeight /\ effects \in 0..height
  BY ExpressionsAssumption DEF Init
<1> QED BY <1>1, <1>2 DEF TypeInv

\* So they stay, if what the expression grows to is checked.
LEMMA GrownChecked ==
  ASSUME NEW e, Checked(e.checked), NEW own \in 0..1, TypeInv, height < MaxHeight, Grow(e, own)
  PROVE  TypeInv'
<1>1. expr' = e /\ height' = height + 1 /\ effects' = effects + own
  BY DEF Grow
<1>2. height' \in 0..MaxHeight /\ effects' \in 0..height'
  BY <1>1, ExpressionsAssumption DEF TypeInv
<1>3. Checked(expr'.checked)
  BY <1>1
<1> QED BY <1>2, <1>3 DEF TypeInv, Checked

\* Every operator of the parser leaves the expression checked.
LEMMA TypeNext ==
  ASSUME TypeInv, Next
  PROVE  TypeInv'
<1>1. Checked(expr.checked) /\ IsType(expr.checked.type) /\ height < MaxHeight
  BY DEF TypeInv, Next, Accepted, Checked
<1>2. \A s \in Used(Siblings) : Checked(Leaf(s).checked)
  BY UsedChecked, SiblingsUsed
<1>3. 0 \in 0..1 /\ 1 \in 0..1
  OBVIOUS
<1>4. ASSUME NEW op, NEW own \in 0..1, Grow(Unary(op, expr), own)
      PROVE  TypeInv'
  BY <1>1, <1>4, UnaryIsChecked, GrownChecked
<1>5. ASSUME NEW op \in PrefixOps, Prefix(op)
      PROVE  TypeInv'
  <2> DEFINE own == IF op \in Increments THEN 1 ELSE 0
  <2>1. own \in 0..1 /\ Grow(Unary(op, expr), own)
    BY <1>5 DEF Prefix
  <2> HIDE DEF own
  <2> QED BY <1>4, <2>1
<1>6. ASSUME NEW op \in PostfixOps, Postfix(op)
      PROVE  TypeInv'
  <2>1. Grow(Unary(op, expr), 1)
    BY <1>6 DEF Postfix, Grown
  <2> QED BY <1>3, <1>4, <2>1
<1>7. ASSUME NEW m \in Members, Member(m)
      PROVE  TypeInv'
  <2>1. Grow(Field(expr, m), 0) \/ Grow(Field(Unary("DEREF", expr), m), 0)
    BY <1>7 DEF Member, Grown, Arrow
  <2>2. Checked(Field(expr, m).checked)
    BY <1>1, FieldIsChecked
  <2>3. Checked(Unary("DEREF", expr).checked)
    BY <1>1, UnaryIsChecked
  <2> DEFINE y == Unary("DEREF", expr)
  <2> HIDE DEF y
  <2>4. Checked(Field(y, m).checked)
    BY <2>3, FieldIsChecked DEF y
  <2> QED BY <1>1, <1>3, <2>1, <2>2, <2>4, GrownChecked DEF y
<1>8. ASSUME NEW s \in Used(Siblings)
      PROVE  /\ IndexOf(s) => TypeInv'
             /\ IndexBy(s) => TypeInv'
             /\ AssignTo(s) => TypeInv'
             /\ AssignFrom(s) => TypeInv'
             /\ \A op \in Operators : BinaryWith(op, s) => TypeInv'
             /\ \A op \in Operators : CompoundAssign(op, s) => TypeInv'
  <2> DEFINE l == Leaf(s)
  <2>1. Checked(l.checked)
    BY <1>2
  <2>2. IndexOf(s) => Grow(Index(expr, l), 0)
    BY DEF IndexOf, Grown
  <2>3. IndexBy(s) => Grow(Index(l, expr), 0)
    BY DEF IndexBy
  <2>4. AssignTo(s) => Grow(Assign(l, expr), 1)
    BY DEF AssignTo
  <2>5. AssignFrom(s) => Grow(Assign(expr, l), 1)
    BY DEF AssignFrom
  <2>6. \A op \in Operators : BinaryWith(op, s) =>
          Grow(Binary(op, expr, l), 0) \/ Grow(Binary(op, l, expr), 0)
    BY DEF BinaryWith
  <2>7. \A op \in Operators : CompoundAssign(op, s) => Grow(Assign(expr, Binary(op, expr, l)), 1)
    BY DEF CompoundAssign, Compound
  <2> HIDE DEF l
  <2>8. Checked(Index(expr, l).checked) /\ Checked(Index(l, expr).checked)
    BY <1>1, <2>1, IndexIsChecked
  <2>9. Checked(Assign(l, expr).checked) /\ Checked(Assign(expr, l).checked)
    BY <1>1, <2>1, AssignIsChecked
  <2>10. ASSUME NEW op
         PROVE  /\ Checked(Binary(op, expr, l).checked) /\ Checked(Binary(op, l, expr).checked)
                /\ Checked(Assign(expr, Binary(op, expr, l)).checked)
    <3>1. Checked(Binary(op, expr, l).checked) /\ Checked(Binary(op, l, expr).checked)
      BY <1>1, <2>1, BinaryIsChecked
    <3> QED BY <1>1, <3>1, AssignIsChecked
  <2>11. (IndexOf(s) => TypeInv') /\ (IndexBy(s) => TypeInv')
    BY <1>1, <1>3, <2>2, <2>3, <2>8, GrownChecked
  <2>12. (AssignTo(s) => TypeInv') /\ (AssignFrom(s) => TypeInv')
    BY <1>1, <1>3, <2>4, <2>5, <2>9, GrownChecked
  <2>13. \A op \in Operators : BinaryWith(op, s) => TypeInv'
    BY <1>1, <1>3, <2>6, <2>10, GrownChecked
  <2>14. \A op \in Operators : CompoundAssign(op, s) => TypeInv'
    BY <1>1, <1>3, <2>7, <2>10, GrownChecked
  <2> QED BY <2>11, <2>12, <2>13, <2>14
<1>9. ASSUME NEW name \in DOMAIN Params, NEW before \in Arguments, NEW after \in Arguments,
             Call(name, before, after)
      PROVE  TypeInv'
  <2> DEFINE args == before \o <<expr>> \o after
             B == {Leaf(s) : s \in Used(Siblings)}
             S == B \cup {expr}
  <2>1. before \in {<<>>} \cup {<<b>> : b \in B} /\ after \in {<<>>} \cup {<<b>> : b \in B}
    BY DEF Arguments
  <2>2. \A x \in S : Checked(x.checked)
    BY <1>1, <1>2
  <2>3. Grow(Called(name, args), 1)
    BY <1>9 DEF Call
  <2> HIDE DEF B
  <2>4. args \in Seq(S)
    BY <2>1, ArgumentsAre
  <2> HIDE DEF args, S
  <2>5. \A n \in DOMAIN args : Checked(args[n].checked)
    BY <2>2, <2>4
  <2>6. Checked(Called(name, args).checked)
    BY <2>5, CallIsChecked
  <2> QED BY <1>1, <1>3, <2>3, <2>6, GrownChecked
<1> QED BY <1>5, <1>6, <1>7, <1>8, <1>9 DEF Next

\* Every expression the parser can build gets a type a source could spell
\* from check_expr, or a report with one of its codes.
THEOREM ExpressionTypes == Spec => []TypeOK
<1>1. Init => TypeInv
  BY TypeInit
<1>2. TypeInv /\ [Next]_vars => TypeInv'
  <2>1. TypeInv /\ Next => TypeInv'
    BY TypeNext
  <2>2. TypeInv /\ UNCHANGED vars => TypeInv'
    BY DEF TypeInv, Checked, vars
  <2> QED BY <2>1, <2>2
<1>3. TypeInv => TypeOK
  <2>1. TypeInv => height \in 0..MaxHeight /\ effects \in 0..MaxHeight
    BY ExpressionsAssumption DEF TypeInv
  <2>2. TypeInv => IsType(expr.checked.type) \/ (~Accepted /\ expr.checked.type = Error)
    BY DEF TypeInv, Checked, Accepted
  <2> QED BY <2>1, <2>2 DEF TypeInv, Checked, Codes, TypeOK
<1> QED BY <1>1, <1>2, <1>3, PTL DEF Spec

-----------------------------------------------------------------------------
(* The types of C                                                          *)

Void == type_new("void")
Char == type_new("char")
NumberTypes == {Double, Float, SizeT, LongLong, CInt, Char}

\* A type is its three parts.
LEMMA TypeIs ==
  ASSUME NEW stars, NEW kind, NEW name
  PROVE  /\ Type(stars, kind, name).stars = stars /\ Type(stars, kind, name).kind = kind
         /\ Type(stars, kind, name).name = name
         /\ \A stars_, kind_, name_ :
              Type(stars, kind, name) = Type(stars_, kind_, name_)
                <=> stars = stars_ /\ kind = kind_ /\ name = name_
BY DEF Type

\* The types C knows by name.
LEMMA CTypesAre ==
  /\ Rejected = Type(0, "rejected", NoName) /\ Undefined = Type(0, "undefined", NoName)
  /\ Double = Type(0, "double", NoName) /\ CInt = Type(0, "int", NoName)
  /\ LongLong = Type(0, "longlong", NoName) /\ CharPointer = Type(1, "char", NoName)
  /\ Void = Type(0, "void", NoName) /\ Float = Type(0, "float", NoName)
  /\ SizeT = Type(0, "size_t", NoName) /\ Char = Type(0, "char", NoName)
  /\ \A kind : type_new(kind) = Type(0, kind, NoName)
BY DEF Rejected, Undefined, Double, Float, CInt, LongLong, SizeT, CharPointer, Void, Char, type_new

\* What C makes of a type by its parts.
LEMMA CategoryIs ==
  ASSUME NEW stars \in Nat, NEW kind, NEW name
  PROVE  LET c == Category(Type(stars, kind, name))
         IN  /\ stars > 0 => c = "ptr"
             /\ stars = 0 /\ kind \in {"longlong", "size_t", "int", "char"} => c = "integer"
             /\ stars = 0 /\ kind \in {"float", "double"} => c = "floating"
             /\ stars = 0 /\ kind \notin {"longlong", "size_t", "int", "char", "float", "double"} => c = kind
             /\ IsPtr(Type(stars, kind, name)) <=> stars > 0
<1> DEFINE t == Type(stars, kind, name)
<1>1. t.stars = stars /\ t.kind = kind
  BY TypeIs
<1> HIDE DEF t
<1>2. IsPtr(t) <=> stars > 0
  BY <1>1 DEF IsPtr
<1>3. stars > 0 \/ stars = 0
  OBVIOUS
<1>4. stars > 0 => Category(t) = "ptr"
  BY <1>2 DEF Category
<1>5. stars = 0 /\ kind \in {"longlong", "size_t", "int", "char"} => Category(t) = "integer"
  BY <1>1, <1>2 DEF Category
<1>6. stars = 0 /\ kind \in {"float", "double"} => Category(t) = "floating"
  BY <1>1, <1>2 DEF Category
<1>7. stars = 0 /\ kind \notin {"longlong", "size_t", "int", "char", "float", "double"} => Category(t) = kind
  BY <1>1, <1>2 DEF Category
<1> QED BY <1>2, <1>4, <1>5, <1>6, <1>7 DEF t

\* What C makes of the types it knows by name.
LEMMA CategoriesAre ==
  /\ Category(Rejected) = "rejected" /\ Category(Undefined) = "undefined" /\ Category(Void) = "void"
  /\ Category(Double) = "floating" /\ Category(CInt) = "integer" /\ Category(LongLong) = "integer"
  /\ Category(CharPointer) = "ptr"
  /\ Category(Float) = "floating" /\ Category(SizeT) = "integer" /\ Category(Char) = "integer"
  /\ ~IsPtr(Rejected) /\ ~IsPtr(Void) /\ ~IsPtr(CInt)
<1>1. 0 \in Nat /\ 1 \in Nat /\ ~(0 > 0) /\ 1 > 0
  OBVIOUS
<1>2. Category(Rejected) = "rejected" /\ ~IsPtr(Rejected)
  BY <1>1, CTypesAre, CategoryIs
<1>3. Category(Undefined) = "undefined"
  BY <1>1, CTypesAre, CategoryIs
<1>4. Category(Void) = "void" /\ ~IsPtr(Void)
  BY <1>1, CTypesAre, CategoryIs
<1>5. Category(Double) = "floating"
  BY <1>1, CTypesAre, CategoryIs
<1>6. Category(CInt) = "integer" /\ ~IsPtr(CInt)
  BY <1>1, CTypesAre, CategoryIs
<1>7. Category(LongLong) = "integer"
  BY <1>1, CTypesAre, CategoryIs
<1>8. Category(CharPointer) = "ptr"
  BY <1>1, CTypesAre, CategoryIs
<1>9. Category(Float) = "floating"
  BY <1>1, CTypesAre, CategoryIs
<1>10. Category(SizeT) = "integer"
  BY <1>1, CTypesAre, CategoryIs
<1>11. Category(Char) = "integer"
  BY <1>1, CTypesAre, CategoryIs
<1> QED BY <1>2, <1>3, <1>4, <1>5, <1>6, <1>7, <1>8, <1>9, <1>10, <1>11

\* The types of numbers are told apart.
LEMMA NumbersDiffer ==
  /\ Double # Float /\ Double # SizeT /\ Double # LongLong /\ Double # CInt /\ Double # Char
  /\ Float # SizeT /\ Float # LongLong /\ Float # CInt /\ Float # Char
  /\ SizeT # LongLong /\ SizeT # CInt /\ SizeT # Char
  /\ LongLong # CInt /\ LongLong # Char /\ CInt # Char
<1>1. \A k, l : type_new(k) = type_new(l) => k = l
  BY CTypesAre, TypeIs
<1> QED BY <1>1 DEF Double, Float, SizeT, LongLong, CInt, Char

\* What two numbers make together: 64 bits only if one of them has them.
LEMMA CommonIs ==
  ASSUME NEW l \in NumberTypes, NEW r \in NumberTypes
  PROVE  LET c == Common(l, r)
         IN  /\ c \in NumberTypes \ {Char}
             /\ Category(c) = IF "floating" \in {Category(l), Category(r)} THEN "floating"
                              ELSE "integer"
             /\ c \in {LongLong, SizeT} => c \in {l, r}
             /\ {l, r} \subseteq {LongLong, CInt} => c = IF LongLong \in {l, r} THEN LongLong ELSE CInt
<1> DEFINE c == Common(l, r)
           both == {l, r}
<1>1. c = IF Double \in both THEN Double
          ELSE IF Float \in both THEN Float
          ELSE IF SizeT \in both THEN SizeT
          ELSE IF LongLong \in both THEN LongLong ELSE CInt
  BY DEF Common
<1>2. both = {l, r} /\ both \subseteq NumberTypes
  OBVIOUS
<1> HIDE DEF c, both
<1>3. c \in NumberTypes \ {Char} /\ (c \in both \/ c = CInt)
  BY <1>1, NumbersDiffer DEF NumberTypes
<1>4. \A t \in NumberTypes : Category(t) = IF t \in {Double, Float} THEN "floating" ELSE "integer"
  BY NumbersDiffer, CategoriesAre DEF NumberTypes
<1>5. c \in {Double, Float} <=> Double \in both \/ Float \in both
  BY <1>1, NumbersDiffer
<1>6. "floating" \in {Category(l), Category(r)} <=> Double \in both \/ Float \in both
  <2>1. Category(l) = (IF l \in {Double, Float} THEN "floating" ELSE "integer")
        /\ Category(r) = (IF r \in {Double, Float} THEN "floating" ELSE "integer")
    BY <1>4
  <2> QED BY <1>2, <2>1
<1>7. Category(c) = IF "floating" \in {Category(l), Category(r)} THEN "floating" ELSE "integer"
  BY <1>3, <1>4, <1>5, <1>6
<1>8. c \in {LongLong, SizeT} => c \in {l, r}
  BY <1>2, <1>3, NumbersDiffer
<1>9. both \subseteq {LongLong, CInt} => c = IF LongLong \in both THEN LongLong ELSE CInt
  BY <1>1, NumbersDiffer
<1> QED BY <1>2, <1>3, <1>7, <1>8, <1>9 DEF c

\* A type of a source taken apart.
LEMMA TypeParts ==
  ASSUME NEW type, IsType(type)
  PROVE  \E stars \in Nat : \E kind, name :
           /\ type = Type(stars, kind, name)
           /\ kind = "struct" \/ (kind \in Kinds /\ name = NoName)
BY DEF IsType

\* The C type emit_type writes, by the parts of the type.
LEMMA EmitIs ==
  ASSUME NEW stars \in Nat, NEW kind, NEW name
  PROVE  LET c == emit_type(Type(stars, kind, name))
         IN  /\ kind = "int" => c = Type(stars, "longlong", NoName)
             /\ kind = "bool" => c = Type(stars, "int", NoName)
             /\ kind = "string" => c = Type(stars + 1, "char", NoName)
             /\ kind \notin {"int", "bool", "string"} => c = Type(stars, kind, name)
<1> DEFINE t == Type(stars, kind, name)
<1>1. t.stars = stars /\ t.kind = kind
  BY TypeIs
<1>2. kind \notin {"int", "bool", "string"} => emit_type(t) = t
  <2> HIDE DEF t
  <2> QED BY <1>1 DEF emit_type
<1> HIDE DEF t
<1>3. kind = "int" => emit_type(t) = Type(stars, "longlong", NoName)
  BY <1>1 DEF emit_type
<1>4. kind = "bool" => emit_type(t) = Type(stars, "int", NoName)
  BY <1>1 DEF emit_type
<1>5. kind = "string" => emit_type(t) = Type(stars + 1, "char", NoName)
  BY <1>1 DEF emit_type
<1> QED BY <1>2, <1>3, <1>4, <1>5 DEF t

\* The C type of a type: a pointer to it, and what it points to.
LEMMA EmitPointer ==
  ASSUME NEW type, IsType(type)
  PROVE  emit_type(type_ptr(type)) = type_ptr(emit_type(type))
<1>0. PICK stars \in Nat : \E kind, name :
        /\ type = Type(stars, kind, name)
        /\ kind = "struct" \/ (kind \in Kinds /\ name = NoName)
  BY TypeParts
<1>1. PICK kind, name :
        /\ type = Type(stars, kind, name)
        /\ kind = "struct" \/ (kind \in Kinds /\ name = NoName)
  BY <1>0
<1>2. \A s, k, n : type_ptr(Type(s, k, n)) = Type(s + 1, k, n)
  BY TypeIs DEF type_ptr
<1>3. stars + 1 \in Nat
  OBVIOUS
<1>4. CASE kind = "int"
  BY <1>1, <1>2, <1>3, <1>4, EmitIs
<1>5. CASE kind = "bool"
  BY <1>1, <1>2, <1>3, <1>5, EmitIs
<1>6. CASE kind = "string"
  BY <1>1, <1>2, <1>3, <1>6, EmitIs
<1>7. CASE kind \notin {"int", "bool", "string"}
  BY <1>1, <1>2, <1>3, <1>7, EmitIs
<1> QED BY <1>4, <1>5, <1>6, <1>7

\* What a pointer points to has the C type that its C type points to.
LEMMA EmitBase ==
  ASSUME NEW type, IsType(type), IsPtr(type)
  PROVE  emit_type(Base(type)) = Base(emit_type(type))
<1>0. PICK stars \in Nat : \E kind, name :
        /\ type = Type(stars, kind, name)
        /\ kind = "struct" \/ (kind \in Kinds /\ name = NoName)
  BY TypeParts
<1>1. PICK kind, name :
        /\ type = Type(stars, kind, name)
        /\ kind = "struct" \/ (kind \in Kinds /\ name = NoName)
  BY <1>0
<1>2. \A s, k, n : Base(Type(s, k, n)) = Type(s - 1, k, n)
  BY TypeIs DEF Base
<1>3. stars - 1 \in Nat /\ stars > 0
  <2>1. stars > 0
    BY <1>1, CategoryIs
  <2> QED BY <2>1
<1>4. CASE kind = "int"
  BY <1>1, <1>2, <1>3, <1>4, EmitIs
<1>5. CASE kind = "bool"
  BY <1>1, <1>2, <1>3, <1>5, EmitIs
<1>6. CASE kind = "string"
  <2>1. (stars - 1) + 1 = (stars + 1) - 1
    BY <1>3
  <2> QED BY <1>1, <1>2, <1>3, <1>6, <2>1, EmitIs
<1>7. CASE kind \notin {"int", "bool", "string"}
  BY <1>1, <1>2, <1>3, <1>7, EmitIs
<1> QED BY <1>4, <1>5, <1>6, <1>7

\* The C type of a type a source can spell is one that C has, and tells
\* pointers, structs and void from the others.
LEMMA EmitCategory ==
  ASSUME NEW type, IsType(type)
  PROVE  /\ Category(emit_type(type)) \in {"ptr", "integer", "floating", "struct", "void"}
         /\ emit_type(type) # Rejected /\ emit_type(type) # Undefined
         /\ IsPtr(type) => Category(emit_type(type)) = "ptr"
         /\ type.kind = "struct" /\ ~IsPtr(type) => Category(emit_type(type)) = "struct"
              /\ emit_type(type) = type
         /\ Category(emit_type(type)) = "void" => type = Void
         /\ Category(emit_type(type)) = "struct" => type.kind = "struct" /\ ~IsPtr(type)
<1> DEFINE c == emit_type(type)
<1>0. PICK stars \in Nat : \E kind, name :
        /\ type = Type(stars, kind, name)
        /\ kind = "struct" \/ (kind \in Kinds /\ name = NoName)
  BY TypeParts
<1>1. PICK kind, name :
        /\ type = Type(stars, kind, name)
        /\ kind = "struct" \/ (kind \in Kinds /\ name = NoName)
  BY <1>0
<1>2. type.kind = kind /\ (IsPtr(type) <=> stars > 0)
  BY <1>1, TypeIs, CategoryIs
<1>3. /\ Category(c) \in {"ptr", "integer", "floating", "struct", "void"}
      /\ stars > 0 => Category(c) = "ptr"
      /\ kind = "struct" /\ ~(stars > 0) => Category(c) = "struct" /\ c = type
      /\ Category(c) = "void" => type = Void
      /\ Category(c) = "struct" => kind = "struct" /\ ~(stars > 0)
  <2>1. CASE kind = "int"
    <3>1. c = Type(stars, "longlong", NoName)
      BY <1>1, <2>1, EmitIs
    <3> HIDE DEF c
    <3>2. Category(c) = IF stars > 0 THEN "ptr" ELSE "integer"
      BY <3>1, CategoryIs
    <3> QED BY <2>1, <3>2
  <2>2. CASE kind = "bool"
    <3>1. c = Type(stars, "int", NoName)
      BY <1>1, <2>2, EmitIs
    <3> HIDE DEF c
    <3>2. Category(c) = IF stars > 0 THEN "ptr" ELSE "integer"
      BY <3>1, CategoryIs
    <3> QED BY <2>2, <3>2
  <2>3. CASE kind = "string"
    <3>1. c = Type(stars + 1, "char", NoName)
      BY <1>1, <2>3, EmitIs
    <3> HIDE DEF c
    <3>2. stars + 1 \in Nat /\ stars + 1 > 0
      OBVIOUS
    <3>3. Category(c) = "ptr"
      BY <3>1, <3>2, CategoryIs
    <3> QED BY <2>3, <3>3
  <2>4. CASE kind = "float"
    <3>1. c = Type(stars, "float", name)
      BY <1>1, <2>4, EmitIs
    <3> HIDE DEF c
    <3>2. Category(c) = IF stars > 0 THEN "ptr" ELSE "floating"
      BY <3>1, CategoryIs
    <3> QED BY <2>4, <3>2
  <2>5. CASE kind = "char"
    <3>1. c = Type(stars, "char", name)
      BY <1>1, <2>5, EmitIs
    <3> HIDE DEF c
    <3>2. Category(c) = IF stars > 0 THEN "ptr" ELSE "integer"
      BY <3>1, CategoryIs
    <3> QED BY <2>5, <3>2
  <2>6. CASE kind = "void"
    <3>1. c = Type(stars, "void", name) /\ name = NoName
      BY <1>1, <2>6, EmitIs
    <3> HIDE DEF c
    <3>2. Category(c) = IF stars > 0 THEN "ptr" ELSE "void"
      BY <3>1, CategoryIs
    <3>3. stars = 0 => type = Void
      BY <1>1, <2>6, <3>1, CTypesAre
    <3> QED BY <2>6, <3>2, <3>3
  <2>7. CASE kind = "struct"
    <3>1. c = type /\ c = Type(stars, "struct", name)
      BY <1>1, <2>7, EmitIs
    <3> HIDE DEF c
    <3>2. Category(c) = IF stars > 0 THEN "ptr" ELSE "struct"
      BY <3>1, CategoryIs
    <3> QED BY <2>7, <3>1, <3>2
  <2>8. kind \in {"int", "float", "bool", "string", "char", "void", "struct"}
    BY <1>1 DEF Kinds
  <2> QED BY <2>1, <2>2, <2>3, <2>4, <2>5, <2>6, <2>7, <2>8
<1> HIDE DEF c
<1>4. c # Rejected /\ c # Undefined
  BY <1>3, CategoriesAre
<1> QED BY <1>2, <1>3, <1>4 DEF c

\* What emit_type writes for a number, and that int alone has 64 bits.
LEMMA EmitNumber ==
  ASSUME NEW type, IsType(type)
  PROVE  /\ Number(emit_type(type)) => emit_type(type) \in {Float, LongLong, CInt, Char}
         /\ emit_type(type) = LongLong => type = type_new("int")
         /\ emit_type(type_new("int")) = LongLong
<1> DEFINE c == emit_type(type)
<1>0. PICK stars \in Nat : \E kind, name :
        /\ type = Type(stars, kind, name)
        /\ kind = "struct" \/ (kind \in Kinds /\ name = NoName)
  BY TypeParts
<1>1. PICK kind, name :
        /\ type = Type(stars, kind, name)
        /\ kind = "struct" \/ (kind \in Kinds /\ name = NoName)
  BY <1>0
<1>2. emit_type(type_new("int")) = LongLong
  <2>1. 0 \in Nat
    OBVIOUS
  <2> QED BY <2>1, CTypesAre, EmitIs
<1>3. Number(c) <=> Category(c) \in {"integer", "floating"}
  BY DEF Number
<1>4. CASE kind = "int"
  <2>1. c = Type(stars, "longlong", NoName)
    BY <1>1, <1>4, EmitIs
  <2> HIDE DEF c
  <2>2. stars > 0 => Category(c) = "ptr"
    BY <2>1, CategoryIs
  <2>3. stars = 0 => c = LongLong /\ type = type_new("int")
    BY <1>1, <1>4, <2>1, CTypesAre
  <2>4. stars > 0 => c # LongLong
    BY <2>2, CategoriesAre
  <2>5. stars > 0 \/ stars = 0
    OBVIOUS
  <2> QED BY <1>2, <1>3, <2>2, <2>3, <2>4, <2>5 DEF c
<1>5. CASE kind # "int"
  <2>1. \/ kind = "bool" /\ c = Type(stars, "int", NoName)
        \/ kind = "string" /\ c = Type(stars + 1, "char", NoName)
        \/ kind \in {"float", "char", "void", "struct"} /\ c = Type(stars, kind, name)
             /\ (kind = "struct" \/ name = NoName)
    BY <1>1, <1>5, EmitIs DEF Kinds
  <2> HIDE DEF c
  <2>2. c # LongLong
    BY <2>1, CTypesAre, TypeIs
  <2>3. CASE kind = "bool" /\ c = Type(stars, "int", NoName)
    <3>1. stars = 0 => c = CInt
      BY <2>3, CTypesAre
    <3>2. stars > 0 => Category(c) = "ptr"
      BY <2>3, CategoryIs
    <3> QED BY <1>2, <1>3, <2>2, <3>1, <3>2 DEF c
  <2>4. CASE kind = "string" /\ c = Type(stars + 1, "char", NoName)
    <3>1. stars + 1 \in Nat /\ stars + 1 > 0
      OBVIOUS
    <3>2. Category(c) = "ptr"
      BY <2>4, <3>1, CategoryIs
    <3> QED BY <1>2, <1>3, <2>2, <3>2 DEF c
  <2>5. CASE kind \in {"float", "char", "void", "struct"} /\ c = Type(stars, kind, name)
               /\ (kind = "struct" \/ name = NoName)
    <3>1. stars > 0 => Category(c) = "ptr"
      BY <2>5, CategoryIs
    <3>2. stars = 0 /\ kind \in {"void", "struct"} => Category(c) = kind
      BY <2>5, CategoryIs
    <3>3. stars = 0 /\ kind = "float" => c = Float
      BY <2>5, CTypesAre
    <3>4. stars = 0 /\ kind = "char" => c = Char
      BY <2>5, CTypesAre
    <3> QED BY <1>2, <1>3, <2>2, <2>5, <3>1, <3>2, <3>3, <3>4 DEF c
  <2> QED BY <2>1, <2>3, <2>4, <2>5
<1> QED BY <1>4, <1>5

\* The C type is what the checker's type stands for; int alone has 64 bits.
Agrees(T, C) ==
  /\ C # Undefined
  /\ C # Rejected /\ T = Void => C \in {CInt, Void}
  /\ C # Rejected /\ T # Void =>
       /\ Category(C) = Category(emit_type(T))
       /\ Category(C) \in {"ptr", "struct"} => C = emit_type(T)
       /\ Number(C) => \/ C \in {Double, Float, CInt, Char}
                       \/ C \in {LongLong, SizeT} /\ T = type_new("int")

\* An accepted expression has a type in C that agrees with the checker's; a
\* place that can be assigned to has the very type that was declared.
Typed(x) ==
  x.checked.reports = {} =>
    /\ IsType(x.checked.type)
    /\ Agrees(x.checked.type, x.meant.type)
    /\ x.meant.type # Rejected /\ Lvalue(x.meant.tree) => x.meant.type = emit_type(x.checked.type)

\* An int has 64 bits in C, but for literals, their signs, and strlen.
Fits(x) ==
  x.checked.reports = {} /\ x.checked.type = type_new("int") =>
    \/ x.meant.type \in {Rejected, LongLong}
    \/ x.meant.type = CInt /\ IsLiteral(x.tree)
    \/ x.meant.type = SizeT /\ IsLength(x.tree)

\* The C type written for a type agrees with it.
LEMMA AgreesEmitted ==
  ASSUME NEW T, IsType(T)
  PROVE  Agrees(T, emit_type(T))
<1>1. emit_type(T) # Undefined
  BY EmitCategory
<1>2. T = Void => emit_type(T) = Void
  <2>1. T = Void => T = Type(0, "void", NoName)
    BY CTypesAre
  <2> QED BY <2>1, EmitIs
<1>3. Number(emit_type(T)) => \/ emit_type(T) \in {Double, Float, CInt, Char}
                              \/ emit_type(T) \in {LongLong, SizeT} /\ T = type_new("int")
  BY EmitNumber
<1> QED BY <1>1, <1>2, <1>3 DEF Agrees

\* So does what C rejects.
LEMMA AgreesRejected == \A T : Agrees(T, Rejected)
BY CategoriesAre DEF Agrees

\* So do the whole numbers of C with int, bool and char, and the others with
\* float.
LEMMA AgreesNumber ==
  /\ \A C \in {CInt, LongLong, SizeT} : Agrees(type_new("int"), C)
  /\ Agrees(type_new("bool"), CInt)
  /\ \A C \in {CInt, Char} : Agrees(type_new("char"), C)
  /\ \A C \in {Float, Double} : Agrees(type_new("float"), C)
<1>1. /\ type_new("int") = Type(0, "int", NoName) /\ type_new("bool") = Type(0, "bool", NoName)
      /\ type_new("char") = Type(0, "char", NoName) /\ type_new("float") = Type(0, "float", NoName)
  BY CTypesAre
<1>2. 0 \in Nat /\ ~(0 > 0)
  OBVIOUS
<1>3. Category(emit_type(type_new("int"))) = "integer"
  <2>1. emit_type(type_new("int")) = Type(0, "longlong", NoName)
    BY <1>1, <1>2, EmitIs
  <2> QED BY <1>2, <2>1, CategoryIs
<1>4. Category(emit_type(type_new("bool"))) = "integer"
  <2>1. emit_type(type_new("bool")) = Type(0, "int", NoName)
    BY <1>1, <1>2, EmitIs
  <2> QED BY <1>2, <2>1, CategoryIs
<1>5. Category(emit_type(type_new("char"))) = "integer"
  <2>1. emit_type(type_new("char")) = Type(0, "char", NoName)
    BY <1>1, <1>2, EmitIs
  <2> QED BY <1>2, <2>1, CategoryIs
<1>6. Category(emit_type(type_new("float"))) = "floating"
  <2>1. emit_type(type_new("float")) = Type(0, "float", NoName)
    BY <1>1, <1>2, EmitIs
  <2> QED BY <1>2, <2>1, CategoryIs
<1>7. \A kind \in {"int", "bool", "char", "float"} : type_new(kind) # Void
  BY CTypesAre, TypeIs
<1>8. ASSUME NEW kind \in {"int", "bool", "char"}, NEW C,
             C \in {CInt, Char} \/ (C \in {LongLong, SizeT} /\ kind = "int")
      PROVE  Agrees(type_new(kind), C)
  <2>1. Category(emit_type(type_new(kind))) = "integer" /\ type_new(kind) # Void
    BY <1>3, <1>4, <1>5, <1>7
  <2>2. Category(C) = "integer" /\ C # Undefined
    BY <1>8, CategoriesAre
  <2> QED BY <1>8, <2>1, <2>2 DEF Agrees
<1>9. ASSUME NEW C \in {Float, Double}
      PROVE  Agrees(type_new("float"), C)
  <2>1. Category(C) = "floating" /\ C # Undefined
    BY <1>9, CategoriesAre
  <2> QED BY <1>6, <1>7, <1>9, <2>1 DEF Agrees
<1> QED BY <1>8, <1>9

\* A number that agrees is one of C's.
LEMMA AgreesIn ==
  ASSUME NEW T, NEW C, Agrees(T, C), C # Rejected, Number(C)
  PROVE  /\ C \in NumberTypes
         /\ C \in {LongLong, SizeT} => T = type_new("int")
<1>1. CASE T = Void
  <2>1. C = CInt
    BY <1>1, CategoriesAre DEF Agrees, Number
  <2> QED BY <2>1, NumbersDiffer DEF NumberTypes
<1>2. CASE T # Void
  BY <1>2, NumbersDiffer DEF Agrees, NumberTypes
<1> QED BY <1>1, <1>2

\* It still agrees when it is promoted.
LEMMA AgreesPromoted ==
  ASSUME NEW T, NEW C, Agrees(T, C), C # Rejected, Number(C)
  PROVE  Agrees(T, Promoted(C))
<1> DEFINE P == Promoted(C)
<1>1. C \in NumberTypes /\ (C \in {LongLong, SizeT} => T = type_new("int"))
  BY AgreesIn
<1>2. P = Common(C, C)
  BY DEF Promoted
<1>3. /\ P \in NumberTypes \ {Char} /\ (P \in {LongLong, SizeT} => P = C)
      /\ Category(P) = IF Category(C) = "floating" THEN "floating" ELSE "integer"
      /\ C = CInt => P = CInt
  BY <1>1, <1>2, CommonIs
<1> HIDE DEF P
<1>4. Category(P) = Category(C) /\ P # Undefined
  BY <1>3, CategoriesAre DEF Number
<1>5. CASE T = Void
  <2>1. C = CInt
    BY <1>5, CategoriesAre DEF Agrees, Number
  <2> QED BY <1>3, <1>4, <1>5, <2>1 DEF Agrees, P
<1>6. CASE T # Void
  <2>1. Category(P) = Category(emit_type(T)) /\ Category(P) \notin {"ptr", "struct"}
    BY <1>4, <1>6 DEF Agrees, Number
  <2>2. P \in {Double, Float, CInt, Char} \/ (P \in {LongLong, SizeT} /\ T = type_new("int"))
    BY <1>1, <1>3 DEF NumberTypes
  <2> QED BY <1>4, <1>6, <2>1, <2>2 DEF Agrees, P
<1> QED BY <1>5, <1>6

\* The type of a node whose operands are not undefined behaviour.
LEMMA NodeType ==
  ASSUME NEW tree, NEW type, NEW own, NEW operands,
         \A n \in DOMAIN operands : operands[n].type # Undefined
  PROVE  LET x == Node(tree, type, own, operands)
         IN  /\ x.tree = tree
             /\ x.type = Rejected \/ x.type = type
             /\ x.type # Rejected => \A n \in DOMAIN operands : operands[n].type # Rejected
             /\ (\A n \in DOMAIN operands : operands[n].type # Rejected) => x.type = type
<1> DEFINE types == {operands[n].type : n \in DOMAIN operands}
           x == Node(tree, type, own, operands)
<1>1. /\ x.tree = tree
      /\ x.type = IF Undefined \in types THEN Undefined ELSE IF Rejected \in types THEN Rejected ELSE type
  BY DEF Node
<1>2. Undefined \notin types
  OBVIOUS
<1>3. Rejected \in types <=> \E n \in DOMAIN operands : operands[n].type = Rejected
  OBVIOUS
<1> HIDE DEF x, types
<1> QED BY <1>1, <1>2, <1>3 DEF x

\* The same with one operand.
LEMMA OneOperandType ==
  ASSUME NEW tree, NEW type, NEW own, NEW a, a.type # Undefined
  PROVE  LET x == Node(tree, type, own, <<a>>)
         IN  /\ x.tree = tree
             /\ x.type = Rejected \/ (x.type = type /\ a.type # Rejected)
             /\ a.type # Rejected => x.type = type
<1> DEFINE s == <<a>>
           x == Node(tree, type, own, s)
<1>1. (\A n \in DOMAIN s : s[n] = a) /\ 1 \in DOMAIN s /\ s[1] = a
  OBVIOUS
<1> HIDE DEF s, x
<1>2. \A n \in DOMAIN s : s[n].type # Undefined
  BY <1>1
<1>3. /\ x.tree = tree
      /\ x.type = Rejected \/ x.type = type
      /\ x.type # Rejected => \A n \in DOMAIN s : s[n].type # Rejected
      /\ (\A n \in DOMAIN s : s[n].type # Rejected) => x.type = type
  BY <1>2, NodeType DEF x
<1> QED BY <1>1, <1>3 DEF x, s

\* The same with two.
LEMMA TwoOperandTypes ==
  ASSUME NEW tree, NEW type, NEW own, NEW a, a.type # Undefined, NEW b, b.type # Undefined
  PROVE  LET x == Node(tree, type, own, <<a, b>>)
         IN  /\ x.tree = tree
             /\ x.type = Rejected \/ (x.type = type /\ a.type # Rejected /\ b.type # Rejected)
<1> DEFINE s == <<a, b>>
           x == Node(tree, type, own, s)
<1>1. (\A n \in DOMAIN s : s[n] = a \/ s[n] = b) /\ 1 \in DOMAIN s /\ s[1] = a /\ 2 \in DOMAIN s
        /\ s[2] = b
  OBVIOUS
<1> HIDE DEF s, x
<1>2. \A n \in DOMAIN s : s[n].type # Undefined
  BY <1>1
<1>3. /\ x.tree = tree
      /\ x.type = Rejected \/ x.type = type
      /\ x.type # Rejected => \A n \in DOMAIN s : s[n].type # Rejected
  BY <1>2, NodeType DEF x
<1> QED BY <1>1, <1>3 DEF x, s

\* Checked expressions: what was reported of the operands is reported.
LEMMA ExprReports ==
  ASSUME NEW own, NEW operands, check_expr(own, operands).reports = {}
  PROVE  /\ check_expr(own, operands).type = own.type
         /\ own.reports = {}
         /\ \A n \in DOMAIN operands : operands[n].reports = {}
<1> DEFINE all == UNION {operands[n].reports : n \in DOMAIN operands}
<1>1. check_expr(own, operands).type = own.type /\ check_expr(own, operands).reports
        = own.reports \cup all
  BY DEF check_expr
<1>2. \A n \in DOMAIN operands : operands[n].reports \subseteq all
  OBVIOUS
<1> HIDE DEF all
<1> QED BY <1>1, <1>2

\* The same with one operand.
LEMMA OneReport ==
  ASSUME NEW own, NEW x, check_expr(own, <<x>>).reports = {}
  PROVE  check_expr(own, <<x>>).type = own.type /\ own.reports = {} /\ x.reports = {}
<1> DEFINE s == <<x>>
<1>1. 1 \in DOMAIN s /\ s[1] = x
  OBVIOUS
<1> HIDE DEF s
<1>2. check_expr(own, s).reports = {}
  BY DEF s
<1>3. /\ check_expr(own, s).type = own.type
      /\ own.reports = {}
      /\ \A n \in DOMAIN s : s[n].reports = {}
  BY <1>2, ExprReports
<1> QED BY <1>1, <1>3 DEF s

\* The same with two.
LEMMA TwoReports ==
  ASSUME NEW own, NEW x, NEW y, check_expr(own, <<x, y>>).reports = {}
  PROVE  check_expr(own, <<x, y>>).type = own.type /\ own.reports = {} /\ x.reports = {} /\ y.reports
           = {}
<1> DEFINE s == <<x, y>>
<1>1. 1 \in DOMAIN s /\ s[1] = x /\ 2 \in DOMAIN s /\ s[2] = y
  OBVIOUS
<1> HIDE DEF s
<1>2. check_expr(own, s).reports = {}
  BY DEF s
<1>3. /\ check_expr(own, s).type = own.type
      /\ own.reports = {}
      /\ \A n \in DOMAIN s : s[n].reports = {}
  BY <1>2, ExprReports
<1> QED BY <1>1, <1>3 DEF s

\* Only names, fields, elements and what a pointer points to can be
\* assigned to.
LEMMA LvalueIs ==
  /\ \A op, e : Lvalue(expr_unary(op, e)) <=> op = "DEREF"
  /\ \A op, l, r : ~Lvalue(expr_binary(op, l, r))
  /\ \A l, r : ~Lvalue(expr_assign(l, r))
  /\ \A name, args : ~Lvalue(expr_call(name, args))
BY DEF Lvalue, expr_unary, expr_binary, expr_assign, expr_call

\* A node is typed if, where C takes it, its type agrees.
LEMMA TypedBy ==
  ASSUME NEW x,
         x.checked.reports = {} => IsType(x.checked.type),
         x.checked.reports = {} /\ x.meant.type # Rejected =>
           /\ Agrees(x.checked.type, x.meant.type)
           /\ Lvalue(x.meant.tree) => x.meant.type = emit_type(x.checked.type)
  PROVE  Typed(x)
<1>1. CASE x.meant.type = Rejected
  BY <1>1, AgreesRejected DEF Typed
<1>2. CASE x.meant.type # Rejected
  BY <1>2 DEF Typed
<1> QED BY <1>1, <1>2

\* Literals and names have a C type that agrees, but for the names of
\* functions.
LEMMA LeafTyped ==
  ASSUME NEW e, IsLeaf(e), e.kind = "ident" => e.value[1] \notin DOMAIN Params
  PROVE  Typed(Leaf(e))
<1> DEFINE x == Leaf(e)
           T == x.checked.type
           C == x.meant.type
<1>1. x.checked = check_leaf(e) /\ x.meant = c_leaf(MeantLeaf(e))
  BY DEF Leaf
<1>2. C = LeafType(MeantLeaf(e)) /\ x.meant.tree = MeantLeaf(e)
  BY <1>1 DEF c_leaf
<1>3. Checked(check_leaf(e))
  BY LeafChecked
<1>4. \A kind : Clean(type_new(kind)).type = type_new(kind)
  BY DEF Clean
<1> HIDE DEF x
<1>5. ASSUME e.kind \in {"int", "float", "bool", "string", "char"}
      PROVE  T = type_new(e.kind) /\ x.checked.reports = {}
  BY <1>1, <1>5 DEF check_leaf, Clean
<1>6. \A d : d.kind \notin {"ident", "member", "index", "unary"} => ~Lvalue(d)
  BY DEF Lvalue
<1>7. IsType(T) \/ x.checked.reports # {}
  BY <1>1, <1>3 DEF Checked
<1>8. CASE e.kind = "int" \/ e.kind = "bool"
  <2>1. /\ MeantLeaf(e).kind = "int"
        /\ e.kind = "bool" => MeantLeaf(e).value[1] \notin Wide
    BY <1>8, ExpressionsAssumption DEF MeantLeaf, expr_int
  <2> DEFINE d == MeantLeaf(e)
  <2> HIDE DEF d
  <2>2. C \in {LongLong, CInt} /\ (e.kind = "bool" => C = CInt) /\ ~Lvalue(x.meant.tree)
    BY <1>2, <1>6, <2>1 DEF LeafType, d
  <2>3. Agrees(T, C)
    BY <1>5, <1>8, <2>2, AgreesNumber
  <2> QED BY <1>7, <2>2, <2>3, TypedBy DEF x
<1>9. CASE e.kind = "float"
  <2>1. MeantLeaf(e) = e
    BY <1>9 DEF MeantLeaf
  <2>2. C = Double /\ ~Lvalue(x.meant.tree)
    BY <1>2, <1>6, <1>9, <2>1 DEF LeafType
  <2>3. Agrees(T, C)
    BY <1>5, <1>9, <2>2, CategoriesAre, AgreesNumber
  <2> QED BY <1>7, <2>2, <2>3, TypedBy DEF x
<1>10. CASE e.kind = "char"
  <2>1. MeantLeaf(e) = e
    BY <1>10 DEF MeantLeaf
  <2>2. C = CInt /\ ~Lvalue(x.meant.tree)
    BY <1>2, <1>6, <1>10, <2>1 DEF LeafType
  <2>3. Agrees(T, C)
    BY <1>5, <1>10, <2>2, CategoriesAre, AgreesNumber
  <2> QED BY <1>7, <2>2, <2>3, TypedBy DEF x
<1>11. CASE e.kind = "string"
  <2>1. MeantLeaf(e) = e
    BY <1>11 DEF MeantLeaf
  <2>2. C = CharPointer /\ ~Lvalue(x.meant.tree)
    BY <1>2, <1>6, <1>11, <2>1 DEF LeafType
  <2>3. T = Type(0, "string", NoName)
    BY <1>5, <1>11, CTypesAre
  <2>4. emit_type(T) = CharPointer
    <3>1. 0 \in Nat /\ 0 + 1 = 1
      OBVIOUS
    <3> QED BY <2>3, <3>1, EmitIs, CTypesAre
  <2>5. Agrees(T, C)
    BY <1>5, <1>7, <1>11, <2>2, <2>4, AgreesEmitted
  <2> QED BY <1>7, <2>2, <2>5, TypedBy DEF x
<1>12. CASE e.kind = "null"
  <2>1. MeantLeaf(e) = expr_ident("NULL")
    BY <1>12 DEF MeantLeaf
  <2>2. expr_ident("NULL").kind = "ident" /\ expr_ident("NULL").value[1] = "NULL"
    BY DEF expr_ident
  <2>3. C = Type(1, "void", NoName)
    BY <1>2, <2>1, <2>2 DEF LeafType
  <2>4. T = type_ptr(type_new("void"))
    BY <1>1, <1>12 DEF check_leaf, Clean
  <2>5. T = Type(1, "void", NoName)
    <3>1. type_new("void") = Type(0, "void", NoName) /\ 0 + 1 = 1
      BY CTypesAre
    <3> QED BY <2>4, <3>1, TypeIs DEF type_ptr
  <2>6. emit_type(T) = C
    <3>1. 1 \in Nat
      OBVIOUS
    <3> QED BY <2>3, <2>5, <3>1, EmitIs
  <2>7. x.checked.reports = {}
    BY <1>1, <1>12 DEF check_leaf, Clean
  <2>8. Agrees(T, C)
    BY <1>7, <2>6, <2>7, AgreesEmitted
  <2> QED BY <1>7, <2>6, <2>8, TypedBy DEF x
<1>13. CASE e.kind = "ident"
  <2>1. MeantLeaf(e) = e
    BY <1>13 DEF MeantLeaf
  <2>2. CASE e.value[1] \in DOMAIN Types
    <3>1. T = Types[e.value[1]] /\ x.checked.reports = {}
      BY <1>1, <1>13, <2>2 DEF check_leaf, Clean
    <3>2. e.value[1] # "NULL"
      BY <2>2, ExpressionsAssumption
    <3>3. C = emit_type(T)
      BY <1>2, <1>13, <2>1, <2>2, <3>1, <3>2 DEF LeafType
    <3>4. Agrees(T, C)
      BY <1>7, <3>1, <3>3, AgreesEmitted
    <3> QED BY <1>7, <3>3, <3>4, TypedBy DEF x
  <2>3. CASE e.value[1] \notin DOMAIN Types
    <3>1. x.checked.reports # {}
      BY <1>1, <1>13, <2>3 DEF check_leaf, Report
    <3> QED BY <3>1 DEF Typed, x
  <2> QED BY <2>2, <2>3
<1>14. e.kind \in {"int", "float", "bool", "string", "char", "null", "ident"}
  BY DEF IsLeaf, expr_int, expr_float, expr_bool, expr_string, expr_char, expr_null, expr_ident
<1> QED BY <1>8, <1>9, <1>10, <1>11, <1>12, <1>13, <1>14 DEF x

\* A type under a condition.
LEMMA WhenIs == \A condition, type : When(condition, type) # Rejected => condition
        /\ When(condition, type) = type
BY DEF When

\* What a unary expression is made of, if nothing was reported of it.
LEMMA UnaryIs ==
  ASSUME NEW op, NEW x, Typed(x), Unary(op, x).checked.reports = {}
  PROVE  LET y == Unary(op, x)
             own == check_unary(op, x.checked.type)
         IN  /\ y.tree = expr_unary(op, x.tree) /\ y.meant.tree = expr_unary(op, x.meant.tree)
             /\ y.checked.type = own.type /\ own.reports = {} /\ x.checked.reports = {}
             /\ \/ y.meant.type = Rejected
                \/ /\ y.meant.type = UnaryType(op, x.meant.tree, x.meant.type)
                   /\ x.meant.type # Rejected
<1> DEFINE y == Unary(op, x)
           T == x.checked.type
           C == x.meant.type
           e == x.meant.tree
           own == check_unary(op, T)
           type == UnaryType(op, e, C)
<1>1. /\ y.checked = check_expr(own, <<x.checked>>) /\ y.meant = c_unary(op, x.meant)
      /\ y.tree = expr_unary(op, x.tree)
  BY DEF Unary
<1> HIDE DEF y
<1>2. y.checked.type = own.type /\ own.reports = {} /\ x.checked.reports = {}
  <2> DEFINE c == x.checked
  <2>1. y.checked = check_expr(own, <<c>>) /\ check_expr(own, <<c>>).reports = {}
    BY <1>1 DEF y
  <2> HIDE DEF c, own
  <2> QED BY <2>1, OneReport DEF c
<1>3. C # Undefined
  BY <1>2 DEF Typed, Agrees
<1>4. y.meant.tree = expr_unary(op, e) /\ (y.meant.type
        = Rejected \/ (y.meant.type = type /\ C # Rejected))
  <2> DEFINE u == x.meant
             tree == expr_unary(op, u.tree)
             more == IF op \in Increments THEN 1 ELSE 0
  <2>1. y.meant = Node(tree, UnaryType(op, u.tree, u.type), more, <<u>>)
    BY <1>1 DEF c_unary
  <2>2. u.type # Undefined
    BY <1>3
  <2> HIDE DEF u, tree, more, type
  <2>3. y.meant.tree = tree /\ (y.meant.type = Rejected \/ (y.meant.type
          = UnaryType(op, u.tree, u.type) /\ u.type # Rejected))
    BY <2>1, <2>2, OneOperandType
  <2> QED BY <2>3 DEF u, tree, type
<1> QED BY <1>1, <1>2, <1>4 DEF y

\* The sign of a number is of its promoted type.
LEMMA SignTyped ==
  ASSUME NEW op \in {"NEG", "BIT_NOT"}, NEW e, NEW C, UnaryType(op, e, C) # Rejected
  PROVE  UnaryType(op, e, C) = Promoted(C) /\ Number(C)
<1> DEFINE P == Promoted(C)
           k == Category(C)
<1>1. op = "NEG" => UnaryType(op, e, C) = When(k \in {"integer", "floating"}, P)
  BY DEF UnaryType, Number
<1>2. op = "BIT_NOT" => UnaryType(op, e, C) = When(k = "integer", P)
  BY DEF UnaryType
<1>3. Number(C) <=> k \in {"integer", "floating"}
  BY DEF Number
<1> DEFINE type == UnaryType(op, e, C)
<1> HIDE DEF P, k, type
<1>4. type # Rejected
  BY DEF type
<1>5. CASE op = "NEG"
  <2>1. type = IF k \in {"integer", "floating"} THEN P ELSE Rejected
    BY <1>1, <1>5 DEF When, type
  <2> QED BY <1>3, <1>4, <2>1 DEF P, type
<1>6. CASE op = "BIT_NOT"
  <2>1. type = IF k = "integer" THEN P ELSE Rejected
    BY <1>2, <1>6 DEF When, type
  <2> QED BY <1>3, <1>4, <2>1 DEF P, type
<1> QED BY <1>5, <1>6

\* A unary expression has a type that agrees if the operand has: a pointer
\* to it, what it points to, or its own.
LEMMA UnaryTyped ==
  ASSUME NEW op \in PrefixOps \cup PostfixOps, NEW x, Typed(x)
  PROVE  Typed(Unary(op, x))
<1> DEFINE y == Unary(op, x)
           T == x.checked.type
           C == x.meant.type
           e == x.meant.tree
           own == check_unary(op, T)
           type == UnaryType(op, e, C)
<1> SUFFICES ASSUME y.checked.reports = {}
             PROVE  Typed(y)
  BY DEF Typed
<1>4. /\ y.meant.tree = expr_unary(op, e)
      /\ y.meant.type = Rejected \/ (y.meant.type = type /\ C # Rejected)
  BY UnaryIs
<1>2. y.checked.type = own.type /\ own.reports = {} /\ x.checked.reports = {}
  BY UnaryIs
<1> HIDE DEF y
<1>3. IsType(T) /\ Agrees(T, C) /\ (C # Rejected /\ Lvalue(e) => C = emit_type(T)) /\ C # Undefined
  BY <1>2 DEF Typed, Agrees
<1>5. IsType(y.checked.type)
  BY <1>2, <1>3, UnaryChecked DEF Checked
<1> SUFFICES ASSUME y.meant.type # Rejected
             PROVE  /\ Agrees(y.checked.type, y.meant.type)
                    /\ Lvalue(y.meant.tree) => y.meant.type = emit_type(y.checked.type)
  BY <1>5, TypedBy
<1>6. y.meant.type = type /\ type # Rejected /\ C # Rejected
  BY <1>4
<1>7. Lvalue(y.meant.tree) <=> op = "DEREF"
  BY <1>4, LvalueIs
<1> HIDE DEF e, T, C
<1>8. CASE op = "NOT"
  <2>1. type = CInt
    <3>1. type = When(Scalar(C), CInt)
      BY <1>8 DEF UnaryType
    <3> QED BY <1>6, <3>1, WhenIs
  <2>2. own.type = type_new("bool")
    BY <1>8 DEF check_unary, Clean
  <2> QED BY <1>2, <1>6, <1>7, <1>8, <2>1, <2>2, CategoriesAre, AgreesNumber
<1>9. CASE op = "ADDR"
  <2>1. type = type_ptr(C) /\ Lvalue(e)
    <3>1. type = When(Lvalue(e), type_ptr(C))
      BY <1>9 DEF UnaryType
    <3> QED BY <1>6, <3>1, WhenIs
  <2>2. own.type = type_ptr(T)
    BY <1>9 DEF check_unary, Clean
  <2>3. type = emit_type(type_ptr(T))
    BY <1>3, <1>6, <2>1, EmitPointer
  <2> QED BY <1>2, <1>5, <1>6, <1>7, <1>9, <2>2, <2>3, AgreesEmitted
<1>10. CASE op = "DEREF"
  <2>1. type = Base(C) /\ IsPtr(C)
    <3>1. type = When(IsPtr(C), Base(C))
      BY <1>10 DEF UnaryType
    <3> QED BY <1>6, <3>1, WhenIs
  <2>2. IsPtr(T) /\ own.type = Base(T)
    BY <1>2, <1>10 DEF check_unary, Clean, Report
  <2>3. Category(C) = "ptr" /\ T # Void
    BY <2>1, <2>2, CategoriesAre DEF Category
  <2>4. C = emit_type(T)
    BY <1>3, <1>6, <2>3 DEF Agrees
  <2>5. type = emit_type(Base(T))
    BY <1>3, <2>1, <2>2, <2>4, EmitBase
  <2> QED BY <1>2, <1>5, <1>6, <2>2, <2>5, AgreesEmitted
<1>11. CASE op \in {"NEG", "BIT_NOT"}
  <2>1. type = Promoted(C) /\ Number(C)
    BY <1>6, <1>11, SignTyped
  <2>2. own.type = T
    BY <1>11 DEF check_unary, Clean
  <2>3. Agrees(T, type)
    BY <1>3, <1>6, <2>1, AgreesPromoted
  <2> QED BY <1>2, <1>6, <1>7, <1>11, <2>2, <2>3
<1>12. CASE op \notin {"NOT", "ADDR", "DEREF", "NEG", "BIT_NOT"}
  <2>1. type = C
    <3>1. op # "CAST"
      BY DEF PrefixOps, PostfixOps
    <3>2. type = When(Lvalue(e) /\ Scalar(C), C)
      BY <1>12, <3>1 DEF UnaryType
    <3> QED BY <1>6, <3>2, WhenIs
  <2>2. own.type = T
    BY <1>12 DEF check_unary, Clean
  <2> QED BY <1>2, <1>3, <1>6, <1>7, <1>12, <2>1, <2>2
<1> QED BY <1>8, <1>9, <1>10, <1>11, <1>12

\* What is known of an accepted operand.
LEMMA OperandTyped ==
  ASSUME NEW x, Typed(x), x.checked.reports = {}
  PROVE  /\ IsType(x.checked.type) /\ Agrees(x.checked.type, x.meant.type) /\ x.meant.type # Undefined
         /\ x.meant.type # Rejected /\ Lvalue(x.meant.tree) => x.meant.type = emit_type(x.checked.type)
BY DEF Typed, Agrees

\* Numbers are no pointers.
LEMMA CategoriesExclude ==
  ASSUME NEW C
  PROVE  /\ Number(C) <=> Category(C) \in {"integer", "floating"}
         /\ IsPtr(C) <=> Category(C) = "ptr" /\ IsPtr(C)
         /\ Number(C) => ~IsPtr(C)
BY DEF Number, Category

\* The C type of an operand by the kind the checker gave it.
LEMMA AgreesKind ==
  ASSUME NEW C, C # Rejected
  PROVE  /\ Agrees(type_new("int"), C) => Category(C) = "integer"
         /\ Agrees(type_new("float"), C) => Category(C) = "floating"
         /\ Agrees(type_new("string"), C) => C = CharPointer
<1>1. /\ type_new("int") = Type(0, "int", NoName) /\ type_new("float") = Type(0, "float", NoName)
      /\ type_new("string") = Type(0, "string", NoName)
  BY CTypesAre
<1>2. 0 \in Nat /\ ~(0 > 0) /\ 0 + 1 = 1
  OBVIOUS
<1>3. Category(emit_type(type_new("int"))) = "integer" /\ type_new("int") # Void
  <2>1. emit_type(type_new("int")) = Type(0, "longlong", NoName)
    BY <1>1, <1>2, EmitIs
  <2>2. type_new("int") # Void
    BY <1>1, CTypesAre, TypeIs
  <2> QED BY <1>2, <2>1, <2>2, CategoryIs
<1>4. Category(emit_type(type_new("float"))) = "floating" /\ type_new("float") # Void
  <2>1. emit_type(type_new("float")) = Type(0, "float", NoName)
    BY <1>1, <1>2, EmitIs
  <2>2. type_new("float") # Void
    BY <1>1, CTypesAre, TypeIs
  <2> QED BY <1>2, <2>1, <2>2, CategoryIs
<1>5. emit_type(type_new("string")) = CharPointer /\ type_new("string") # Void
  <2>1. emit_type(type_new("string")) = Type(1, "char", NoName)
    BY <1>1, <1>2, EmitIs
  <2>2. type_new("string") # Void
    BY <1>1, CTypesAre, TypeIs
  <2> QED BY <2>1, <2>2, CTypesAre
<1>6. Agrees(type_new("string"), C) => C = CharPointer
  BY <1>5, CategoriesAre DEF Agrees
<1> QED BY <1>3, <1>4, <1>6 DEF Agrees

\* What a binary expression is made of, if nothing was reported of it.
BinaryMade(op, l, r) ==
  LET y == Binary(op, l, r)
      own == check_binary(op, l.checked.type, r.checked.type)
  IN  /\ y.meant.tree = expr_binary(op, l.meant.tree, r.meant.tree)
      /\ y.checked.type = own.type /\ own.reports = {}
      /\ l.checked.reports = {} /\ r.checked.reports = {}
      /\ \/ y.meant.type = Rejected
         \/ /\ y.meant.type = BinaryType(op, l.meant.type, r.meant.type)
            /\ l.meant.type # Rejected /\ r.meant.type # Rejected

\* Whatever check_binary says, an accepted binary expression is made of it.
LEMMA BinaryIs ==
  ASSUME NEW op, NEW l, Typed(l), NEW r, Typed(r), Binary(op, l, r).checked.reports = {}
  PROVE  BinaryMade(op, l, r)
<1> DEFINE y == Binary(op, l, r)
           a == l.checked
           b == r.checked
           u == l.meant
           v == r.meant
           own == check_binary(op, a.type, b.type)
           type == BinaryType(op, u.type, v.type)
           tree == expr_binary(op, u.tree, v.tree)
<1>1. y.checked = check_expr(own, <<a, b>>) /\ y.meant = Node(tree, type, 0, <<u, v>>)
  BY DEF Binary, c_binary
<1> HIDE DEF y
<1>2. y.checked.type = own.type /\ own.reports = {} /\ a.reports = {} /\ b.reports = {}
  <2> HIDE DEF a, b, own
  <2>1. check_expr(own, <<a, b>>).reports = {}
    BY <1>1 DEF y
  <2> QED BY <1>1, <2>1, TwoReports
<1>3. u.type # Undefined /\ v.type # Undefined
  BY <1>2, OperandTyped
<1> HIDE DEF a, b, u, v, type, tree
<1>5. y.meant.tree = tree /\ (y.meant.type = Rejected \/ (y.meant.type = type /\ u.type # Rejected
        /\ v.type # Rejected))
  BY <1>1, <1>3, TwoOperandTypes
<1> QED BY <1>2, <1>5 DEF BinaryMade, y, a, b, u, v, type, tree

\* A binary expression has a C type that agrees: what check_binary says of
\* int and float is what C computes.
LEMMA BinaryTyped ==
  ASSUME NEW op \in DOMAIN Binaries, NEW l, Typed(l), NEW r, Typed(r)
  PROVE  Typed(Binary(op, l, r))
<1> DEFINE y == Binary(op, l, r)
           a == l.checked
           b == r.checked
           u == l.meant
           v == r.meant
           own == check_binary(op, a.type, b.type)
           type == BinaryType(op, u.type, v.type)
           tree == expr_binary(op, u.tree, v.tree)
<1> SUFFICES ASSUME y.checked.reports = {}
             PROVE  Typed(y)
  BY DEF Typed
<1>1. BinaryMade(op, l, r)
  BY BinaryIs
<1>2. y.checked.type = own.type /\ own.reports = {} /\ a.reports = {} /\ b.reports = {}
  BY <1>1 DEF BinaryMade
<1>5. y.meant.tree = tree /\ (y.meant.type = Rejected \/ (y.meant.type = type /\ u.type # Rejected
        /\ v.type # Rejected))
  BY <1>1 DEF BinaryMade
<1> HIDE DEF y
<1>3. Agrees(a.type, u.type) /\ Agrees(b.type, v.type)
  BY <1>2, OperandTyped
<1>4. Checked(own)
  BY BinaryChecked
<1> HIDE DEF a, b, u, v, type, tree
<1>6. IsType(y.checked.type)
  <2> HIDE DEF own
  <2> QED BY <1>2, <1>4 DEF Checked
<1>7. ~Lvalue(y.meant.tree)
  BY <1>5, LvalueIs DEF tree
<1> SUFFICES ASSUME y.meant.type # Rejected
             PROVE  Agrees(y.checked.type, y.meant.type)
  BY <1>6, <1>7, TypedBy
<1>8. y.meant.type = type /\ type # Rejected /\ u.type # Rejected /\ v.type # Rejected
  BY <1>5
<1> DEFINE L == u.type
           R == v.type
           S == a.type
           T == b.type
<1> HIDE DEF L, R, S, T
<1>9. /\ own = check_binary(op, S, T) /\ type = BinaryType(op, L, R)
      /\ Agrees(S, L) /\ Agrees(T, R) /\ L # Rejected /\ R # Rejected
  BY <1>3, <1>8 DEF L, R, S, T, type
<1> HIDE DEF own
<1>10. /\ Arithmetic \cap (Comparisons \cup Logical) = {}
       /\ op \in Arithmetic \cup Comparisons \cup Logical
  BY DEF Arithmetic, Comparisons, Logical, Binaries
<1>11. (Number(L) => ~IsPtr(L)) /\ (Number(R) => ~IsPtr(R))
  BY CategoriesExclude
<1>12. CASE op \in Comparisons \cup Logical
  <2>1. own.type = type_new("bool")
    <3>1. own = Clean(type_new("bool"))
      BY <1>9, <1>10, <1>12 DEF check_binary
    <3> QED BY <3>1 DEF Clean
  <2>2. type = When(Scalar(L) /\ Scalar(R), CInt)
    <3>1. op \in Logical \cup Comparisons /\ op \notin Arithmetic /\ op # "ADD" /\ op # "SUB"
      BY <1>10, <1>12 DEF Arithmetic
    <3> QED BY <1>9, <3>1 DEF BinaryType
  <2>3. type = CInt
    BY <1>8, <2>2, WhenIs
  <2> QED BY <1>2, <1>8, <2>1, <2>3, CategoriesAre, AgreesNumber
<1>13. CASE op \in Arithmetic /\ {S, T} = {type_new("int")}
  <2>1. op \notin Comparisons \cup Logical /\ type_new("int") # type_new("float")
    BY <1>10, <1>13, CTypesAre, TypeIs
  <2>2. own.type = type_new("int")
    <3> DEFINE float == type_new("float")
               int == type_new("int")
    <3> HIDE DEF float, int
    <3>1. float \notin {S, T} /\ {S, T} = {int}
      BY <1>13, <2>1 DEF float, int
    <3>2. own = Clean(int)
      BY <1>9, <1>13, <2>1, <3>1 DEF check_binary, float, int
    <3> QED BY <3>2 DEF Clean, int
  <2>3. Category(L) = "integer" /\ Category(R) = "integer"
    <3>1. S = type_new("int") /\ T = type_new("int")
      BY <1>13
    <3> QED BY <1>9, <3>1, AgreesKind
  <2>4. Number(L) /\ Number(R)
    BY <2>3, CategoriesExclude
  <2>5. type = Common(L, R)
    <3>1. type = When(op = "MOD" => Category(L) = "integer" /\ Category(R) = "integer", Common(L, R))
      BY <1>9, <1>11, <1>13, <2>1, <2>4 DEF BinaryType
    <3> QED BY <1>8, <3>1, WhenIs
  <2>6. type \in {SizeT, LongLong, CInt}
    <3>1. L \in NumberTypes /\ R \in NumberTypes
      BY <1>9, <2>4, AgreesIn
    <3>2. type \in NumberTypes \ {Char} /\ Category(type) = "integer"
      BY <2>3, <2>5, <3>1, CommonIs
    <3> QED BY <3>2, CategoriesAre DEF NumberTypes
  <2> QED BY <1>2, <1>8, <2>2, <2>6, AgreesNumber
<1>14. CASE op \in Arithmetic /\ type_new("float") \in {S, T}
  <2>1. op \notin Comparisons \cup Logical /\ type_new("int") # type_new("float")
    BY <1>10, <1>14, CTypesAre, TypeIs
  <2>2. own.type = type_new("float")
    <3> DEFINE float == type_new("float")
               int == type_new("int")
    <3> HIDE DEF float, int
    <3>1. float \in {S, T} /\ {S, T} # {int}
      BY <1>14, <2>1 DEF float, int
    <3>2. own = Clean(float)
      BY <1>9, <1>14, <2>1, <3>1 DEF check_binary, float, int
    <3> QED BY <3>2 DEF Clean, float
  <2>3. Category(L) = "floating" \/ Category(R) = "floating"
    <3>1. S = type_new("float") \/ T = type_new("float")
      BY <1>14
    <3> QED BY <1>9, <3>1, AgreesKind
  <2>4. CASE Number(L) /\ Number(R)
    <3>1. type = When(op = "MOD" => Category(L) = "integer" /\ Category(R) = "integer", Common(L, R))
      BY <1>9, <1>11, <1>14, <2>1, <2>4 DEF BinaryType
    <3>2. type = Common(L, R)
      BY <1>8, <3>1, WhenIs
    <3>3. L \in NumberTypes /\ R \in NumberTypes
      BY <1>9, <2>4, AgreesIn
    <3>4. type \in NumberTypes \ {Char} /\ Category(type) = "floating"
      BY <2>3, <3>2, <3>3, CommonIs
    <3>5. type \in {Double, Float}
      BY <3>4, CategoriesAre DEF NumberTypes
    <3> QED BY <1>2, <1>8, <2>2, <3>5, AgreesNumber
  <2>5. CASE ~(Number(L) /\ Number(R))
    <3>1. CASE op \in {"ADD", "SUB"} /\ IsPtr(L)
      <4>1. Category(L) = "ptr"
        BY <3>1 DEF Category
      <4>2. Category(R) # "integer"
        BY <2>3, <4>1
      <4>3. type = When(Category(R) = "integer", L)
        BY <1>9, <2>1, <2>5, <3>1 DEF BinaryType
      <4> QED BY <1>8, <4>2, <4>3, WhenIs
    <3>2. CASE op = "ADD" /\ IsPtr(R) /\ ~IsPtr(L)
      <4>1. Category(R) = "ptr"
        BY <3>2 DEF Category
      <4>2. Category(L) # "integer"
        BY <2>3, <4>1
      <4>3. type = When(Category(L) = "integer", R)
        BY <1>9, <2>1, <2>5, <3>2 DEF BinaryType
      <4> QED BY <1>8, <4>2, <4>3, WhenIs
    <3>3. CASE ~(op \in {"ADD", "SUB"} /\ IsPtr(L)) /\ ~(op = "ADD" /\ IsPtr(R) /\ ~IsPtr(L))
      <4>1. type = Rejected
        BY <1>9, <2>1, <2>5, <3>3 DEF BinaryType
      <4> QED BY <1>8, <4>1
    <3> QED BY <3>1, <3>2, <3>3
  <2> QED BY <2>4, <2>5
<1>15. CASE op \in Arithmetic /\ {S, T} # {type_new("int")} /\ type_new("float") \notin {S, T}
  <2>1. own = Report("GHL202")
    BY <1>9, <1>10, <1>15 DEF check_binary
  <2> QED BY <1>2, <2>1 DEF Report
<1> QED BY <1>10, <1>12, <1>13, <1>14, <1>15

\* What an assignment is made of, if nothing was reported of it.
LEMMA AssignIs ==
  ASSUME NEW l, Typed(l), NEW r, Typed(r), Assign(l, r).checked.reports = {}
  PROVE  LET y == Assign(l, r)
         IN  /\ y.meant.tree = expr_assign(l.meant.tree, r.meant.tree)
             /\ y.checked.type = l.checked.type /\ l.checked.reports = {}
             /\ \/ y.meant.type = Rejected
                \/ /\ y.meant.type = l.meant.type /\ l.meant.type # Rejected
                   /\ Lvalue(l.meant.tree)
<1> DEFINE y == Assign(l, r)
           a == l.checked
           b == r.checked
           u == l.meant
           v == r.meant
           own == check_assign(l.tree, a.type, b.type)
           type == When(Lvalue(u.tree) /\ Convertible(v.type, u.type), u.type)
           tree == expr_assign(u.tree, v.tree)
<1>1. y.checked = check_expr(own, <<a, b>>) /\ y.meant = Node(tree, type, 1, <<u, v>>)
  BY DEF Assign, c_assign
<1>2. own.type = a.type
  BY DEF check_assign
<1> HIDE DEF y, own
<1>3. y.checked.type = own.type /\ a.reports = {} /\ b.reports = {}
  <2> HIDE DEF a, b
  <2>1. check_expr(own, <<a, b>>).reports = {}
    BY <1>1 DEF y
  <2> QED BY <1>1, <2>1, TwoReports
<1>4. u.type # Undefined /\ v.type # Undefined
  BY <1>3, OperandTyped
<1>5. type # Rejected => type = u.type /\ Lvalue(u.tree)
  BY WhenIs
<1> HIDE DEF a, b, u, v, type, tree
<1>6. y.meant.tree = tree /\ (y.meant.type = Rejected \/ (y.meant.type = type /\ u.type # Rejected
        /\ v.type # Rejected))
  BY <1>1, <1>4, TwoOperandTypes
<1>7. y.meant.type # Rejected => y.meant.type = u.type /\ u.type # Rejected /\ Lvalue(u.tree)
  BY <1>5, <1>6
<1> QED BY <1>2, <1>3, <1>6, <1>7 DEF y, a, u, v, tree

\* An assignment has one.
LEMMA AssignTyped ==
  ASSUME NEW l, Typed(l), NEW r, Typed(r)
  PROVE  Typed(Assign(l, r))
<1> DEFINE y == Assign(l, r)
           T == l.checked.type
           C == l.meant.type
<1> SUFFICES ASSUME y.checked.reports = {}
             PROVE  Typed(y)
  BY DEF Typed
<1>1. y.checked.type = T /\ l.checked.reports = {}
  BY AssignIs
<1>2. y.meant.type = Rejected \/ y.meant.type = C
  BY AssignIs
<1>3. ~Lvalue(y.meant.tree)
  BY AssignIs, LvalueIs
<1> HIDE DEF y
<1>4. IsType(T) /\ Agrees(T, C)
  BY <1>1, OperandTyped
<1> HIDE DEF T, C
<1> QED BY <1>1, <1>2, <1>3, <1>4, TypedBy

\* A field has.
LEMMA FieldTyped ==
  ASSUME NEW m, NEW x, Typed(x)
  PROVE  Typed(Field(x, m))
<1> DEFINE y == Field(x, m)
           a == x.checked
           u == x.meant
           T == a.type
           C == u.type
           own == struct_field_type(T, m)
           there == struct_field_type(C, m)
           type == When(there.reports = {}, emit_type(there.type))
           tree == expr_member(u.tree, m)
<1>1. y.checked = check_expr(own, <<a>>) /\ y.meant = Node(tree, type, 0, <<u>>)
  BY DEF Field, c_member
<1>2. Checked(own)
  BY FieldChecked
<1> HIDE DEF y
<1> SUFFICES ASSUME y.checked.reports = {}
             PROVE  Typed(y)
  BY DEF Typed, y
<1>3. y.checked.type = own.type /\ own.reports = {} /\ a.reports = {}
  <2> HIDE DEF a, own
  <2>1. check_expr(own, <<a>>).reports = {}
    BY <1>1
  <2> QED BY <1>1, <2>1, OneReport
<1>4. IsType(T) /\ Agrees(T, C) /\ C # Undefined
  BY <1>3, OperandTyped
<1>5. IsType(own.type)
  <2> HIDE DEF own
  <2> QED BY <1>2, <1>3 DEF Checked
<1>6. type # Rejected => type = emit_type(there.type)
  BY WhenIs
<1> HIDE DEF a, u, type, tree, own
<1>7. y.meant.tree = tree /\ (y.meant.type = Rejected \/ (y.meant.type = type /\ u.type # Rejected))
  BY <1>1, <1>4, OneOperandType DEF C
<1>8. C # Rejected => there = own
  <2>1. T.kind = "struct" /\ ~IsPtr(T)
    BY <1>3 DEF own, struct_field_type, Report
  <2>2. Category(emit_type(T)) = "struct" /\ emit_type(T) = T
    BY <1>4, <2>1, EmitCategory
  <2>3. T # Void
    BY <2>2, CategoriesAre
  <2>4. C # Rejected => C = T
    BY <1>4, <2>2, <2>3 DEF Agrees
  <2> HIDE DEF C, T
  <2> QED BY <2>4 DEF own
<1> SUFFICES ASSUME y.meant.type # Rejected
             PROVE  y.meant.type = emit_type(y.checked.type)
  BY <1>3, <1>5, TypedBy, AgreesEmitted
<1> HIDE DEF there
<1> QED BY <1>3, <1>6, <1>7, <1>8 DEF C

\* An index has: string elements are char.
LEMMA IndexTyped ==
  ASSUME NEW l, Typed(l), NEW r, Typed(r)
  PROVE  Typed(Index(l, r))
<1> DEFINE y == Index(l, r)
           a == l.checked
           b == r.checked
           u == l.meant
           v == r.meant
           T == a.type
           C == u.type
           own == check_index(T)
           type == When(IsPtr(C) /\ Category(v.type) = "integer", Base(C))
           tree == expr_index(u.tree, v.tree)
<1>1. y.checked = check_expr(own, <<a, b>>) /\ y.meant = Node(tree, type, 0, <<u, v>>)
  BY DEF Index, c_index
<1> HIDE DEF y
<1> SUFFICES ASSUME y.checked.reports = {}
             PROVE  Typed(y)
  BY DEF Typed, y
<1>2. y.checked.type = own.type /\ own.reports = {} /\ a.reports = {} /\ b.reports = {}
  <2> HIDE DEF a, b, own
  <2>1. check_expr(own, <<a, b>>).reports = {}
    BY <1>1
  <2> QED BY <1>1, <2>1, TwoReports
<1>3. IsType(T) /\ Agrees(T, C) /\ C # Undefined /\ v.type # Undefined
  BY <1>2, OperandTyped
<1>4. Checked(own)
  BY <1>3, IndexChecked
<1>5. IsType(own.type)
  <2> HIDE DEF own
  <2> QED BY <1>2, <1>4 DEF Checked
<1>6. type # Rejected => IsPtr(C) /\ type = Base(C)
  BY WhenIs
<1> HIDE DEF a, b, u, v, type, tree, own
<1>7. y.meant.tree = tree /\ (y.meant.type = Rejected \/ (y.meant.type = type /\ u.type # Rejected))
  BY <1>1, <1>3, TwoOperandTypes DEF C
<1> SUFFICES ASSUME y.meant.type # Rejected
             PROVE  y.meant.type = emit_type(y.checked.type)
  BY <1>2, <1>5, TypedBy, AgreesEmitted
<1>8. y.meant.type = Base(C) /\ IsPtr(C) /\ C # Rejected
  BY <1>6, <1>7 DEF C
<1> HIDE DEF T, C
<1>9. Category(C) = "ptr"
  BY <1>8 DEF Category
<1>10. CASE IsPtr(T)
  <2>1. own.type = Base(T)
    <3>1. T # type_new("string")
      BY <1>10, CTypesAre, TypeIs DEF IsPtr
    <3> QED BY <1>10, <3>1 DEF own, check_index, Clean
  <2>2. T # Void
    BY <1>10, CategoriesAre
  <2>3. C = emit_type(T)
    BY <1>3, <1>8, <1>9, <2>2 DEF Agrees
  <2> QED BY <1>2, <1>3, <1>8, <1>10, <2>1, <2>3, EmitBase
<1>11. CASE ~IsPtr(T)
  <2>1. T = type_new("string")
    BY <1>2, <1>11 DEF own, check_index, Report
  <2>2. own.type = type_new("char")
    BY <1>11, <2>1 DEF own, check_index, Clean
  <2>3. C = CharPointer
    BY <1>3, <1>8, <2>1, AgreesKind
  <2>4. Base(C) = Type(0, "char", NoName)
    <3>1. 1 - 1 = 0
      OBVIOUS
    <3> QED BY <2>3, <3>1, CTypesAre, TypeIs DEF Base
  <2>5. emit_type(type_new("char")) = Type(0, "char", NoName)
    <3>1. 0 \in Nat
      OBVIOUS
    <3> QED BY <3>1, CTypesAre, EmitIs
  <2> QED BY <1>2, <1>8, <2>2, <2>4, <2>5
<1> QED BY <1>10, <1>11

\* What a function returns in C agrees with what check_call says.
LEMMA ResultAgrees ==
  ASSUME NEW name, IsType(check_call(name).type)
  PROVE  /\ Agrees(check_call(name).type, ResultType(name))
         /\ ResultType(name) = SizeT \/ name \in Maths
              \/ ResultType(name) = emit_type(check_call(name).type)
         /\ name \in Maths => check_call(name).type = type_new("float")
         /\ ResultType(name) = SizeT => name = "strlen" \/ name \in Maths
<1> DEFINE T == check_call(name).type
<1>1. /\ name \in DOMAIN Builtins => T = Builtins[name]
      /\ DOMAIN Builtins = Maths \cup Printing \cup {"strlen"}
  BY DEF check_call, Clean, Builtins
<1>2. "strlen" \notin Maths \cup Printing
  BY DEF Maths, Printing
<1>3. name \in Maths => Builtins[name] = type_new("float")
  BY DEF Builtins
<1>4. name = "strlen" => Builtins[name] = type_new("int")
  BY <1>2 DEF Builtins
<1> HIDE DEF T
<1>5. CASE name \in Maths
  <2>1. ResultType(name) = Double /\ T = type_new("float")
    BY <1>1, <1>2, <1>3, <1>5 DEF ResultType
  <2> QED BY <1>5, <2>1, AgreesNumber DEF T
<1>6. CASE name = "strlen"
  <2>1. ResultType(name) = SizeT /\ T = type_new("int")
    BY <1>1, <1>2, <1>4, <1>6 DEF ResultType
  <2> QED BY <1>2, <1>6, <2>1, AgreesNumber DEF T
<1>7. CASE name \notin Maths /\ name # "strlen"
  <2>1. ResultType(name) = emit_type(T)
    BY <1>7 DEF ResultType, T
  <2>2. IsType(T)
    BY DEF T
  <2>3. emit_type(T) # SizeT
    <3>1. Number(SizeT)
      BY CategoriesAre DEF Number
    <3> QED BY <2>2, <3>1, EmitNumber, NumbersDiffer
  <2> QED BY <1>7, <2>1, <2>2, <2>3, AgreesEmitted DEF T
<1> QED BY <1>5, <1>6, <1>7

\* What a call of a function of the program is made of, if nothing was
\* reported of it.
LEMMA CallIs ==
  ASSUME NEW name, name \notin Printing, name # "printf", NEW args,
           \A n \in DOMAIN args : Typed(args[n]),
         Called(name, args).checked.reports = {}
  PROVE  LET y == Called(name, args)
             own == check_call(name)
         IN  /\ y.tree.kind = "call" /\ y.tree.op = name /\ ~Lvalue(y.meant.tree)
             /\ y.checked.type = own.type /\ IsType(own.type)
             /\ y.meant.type = Rejected \/ y.meant.type = ResultType(name)
<1> DEFINE y == Called(name, args)
           s == [n \in DOMAIN args |-> args[n].checked]
           m == [n \in DOMAIN args |-> args[n].meant]
           own == check_call(name)
           type == CallType(name, m)
           tree == expr_call(name, [n \in DOMAIN m |-> m[n].tree])
<1>1. /\ y.checked = check_expr(own, s) /\ y.meant = MeantCall(name, m)
      /\ y.tree = expr_call(name, [n \in DOMAIN args |-> args[n].tree])
  BY DEF Called
<1>2. MeantCall(name, m) = Node(tree, type, 1, m)
  BY DEF MeantCall, c_call
<1> HIDE DEF y
<1>3. y.checked.type = own.type /\ own.reports = {} /\ \A n \in DOMAIN s : s[n].reports = {}
  <2>1. check_expr(own, s).reports = {}
    BY <1>1 DEF y
  <2> HIDE DEF s, own
  <2> QED BY <1>1, <2>1, ExprReports
<1>4. \A n \in DOMAIN m : m[n].type # Undefined
  <2> SUFFICES ASSUME NEW n \in DOMAIN args
               PROVE  args[n].meant.type # Undefined
    OBVIOUS
  <2> DEFINE x == args[n]
  <2>1. Typed(x) /\ x.checked.reports = {}
    BY <1>3
  <2> HIDE DEF x
  <2>2. x.meant.type # Undefined
    BY <2>1, OperandTyped
  <2> QED BY <2>2 DEF x
<1>5. Checked(own)
  BY CallChecked
<1>6. type = Rejected \/ type = ResultType(name)
  <2> DEFINE fits == /\ Len(m) = Len(Params[name])
                     /\ \A n \in DOMAIN m : Convertible(m[n].type, emit_type(Params[name][n]))
  <2>1. type = When(fits, ResultType(name))
    <3> HIDE DEF m
    <3> QED BY DEF CallType
  <2> HIDE DEF fits, type, own
  <2> QED BY <2>1 DEF When
<1>7. y.tree.kind = "call" /\ y.tree.op = name
  BY <1>1 DEF expr_call
<1> HIDE DEF type, tree, m, own, s
<1>8. IsType(own.type)
  BY <1>3, <1>5 DEF Checked
<1>9. y.meant.tree = tree /\ (y.meant.type = Rejected \/ y.meant.type = type)
  BY <1>1, <1>2, <1>4, NodeType
<1>10. ~Lvalue(y.meant.tree)
  BY <1>9, LvalueIs DEF tree
<1> QED BY <1>3, <1>6, <1>7, <1>8, <1>9, <1>10 DEF y, own

\* A call of a function of the program has one.
LEMMA CallTyped ==
  ASSUME NEW name, name \notin Printing, name # "printf", NEW args,
           \A n \in DOMAIN args : Typed(args[n])
  PROVE  Typed(Called(name, args))
<1> DEFINE y == Called(name, args)
           own == check_call(name)
<1> SUFFICES ASSUME y.checked.reports = {}
             PROVE  Typed(y)
  BY DEF Typed
<1>1. /\ ~Lvalue(y.meant.tree) /\ y.checked.type = own.type /\ IsType(own.type)
      /\ y.meant.type = Rejected \/ y.meant.type = ResultType(name)
  BY CallIs
<1>2. Agrees(own.type, ResultType(name))
  BY <1>1, ResultAgrees
<1> HIDE DEF y, own
<1> QED BY <1>1, <1>2, TypedBy

\* What printf is given is what its format takes.
LEMMA PrintfTaken ==
  ASSUME NEW name \in Printing, NEW T, T = Printable[name], NEW C, C # Rejected, Agrees(T, C), NEW z,
         name = "print_int" => z.type = LongLong,
         name # "print_int" => z.type = C,
         NEW f, f.tree.value = MeantFormat[name]
  PROVE  CallType("printf", <<f, z>>) = CInt
<1> DEFINE m == <<f, z>>
           format == MeantFormat[name]
<1>1. Len(m) > 1 /\ m[1] = f /\ m[2] = z
  OBVIOUS
<1>2. CallType("printf", m) = PrintfType(m[1].tree.value, m)
  BY DEF CallType
<1> HIDE DEF m
<1>3. CallType("printf", m) = PrintfType(format, m)
  BY <1>1, <1>2
<1>4. CASE name \in {"print", "println"}
  <2>1. format[2] = "s"
    BY <1>4 DEF MeantFormat
  <2>2. T = type_new("string")
    BY <1>4 DEF Printable
  <2>3. z.type = CharPointer
    BY <1>4, <2>2, AgreesKind
  <2> HIDE DEF format
  <2> QED BY <1>1, <1>3, <2>1, <2>3 DEF PrintfType, m
<1>5. CASE name = "print_int"
  <2>1. format[2] = "l"
    BY <1>5 DEF MeantFormat
  <2> HIDE DEF format
  <2> QED BY <1>1, <1>3, <1>5, <2>1 DEF PrintfType, m
<1>6. CASE name = "print_float"
  <2>1. format[2] = "g"
    BY <1>6 DEF MeantFormat
  <2>2. T = type_new("float")
    BY <1>6 DEF Printable
  <2>3. Category(z.type) = "floating"
    BY <1>6, <2>2, AgreesKind
  <2> HIDE DEF format
  <2> QED BY <1>1, <1>3, <2>1, <2>3 DEF PrintfType, m
<1> QED BY <1>4, <1>5, <1>6 DEF Printing

\* So the calls written for print and its like are no undefined behaviour.
LEMMA PrintTyped ==
  ASSUME NEW name \in Printing, NEW x, Typed(x), x.checked.type = Printable[name]
  PROVE  Typed(Called(name, <<x>>))
<1> DEFINE args == <<x>>
           y == Called(name, args)
           c == x.checked
           u == x.meant
           f == c_leaf(expr_string(MeantFormat[name]))
           z == IF name = "print_int" THEN c_unary("CAST", u) ELSE u
           m == <<f, z>>
           own == check_call(name)
           type == CallType("printf", m)
           tree == expr_call("printf", [n \in DOMAIN m |-> m[n].tree])
<1>1. /\ y.checked = check_expr(own, [n \in DOMAIN args |-> args[n].checked])
      /\ y.meant = MeantCall(name, [n \in DOMAIN args |-> args[n].meant])
  BY DEF Called
<1>2. [n \in DOMAIN args |-> args[n].checked] = <<c>> /\ [n \in DOMAIN args |-> args[n].meant] = <<u>>
  OBVIOUS
<1>3. MeantCall(name, <<u>>) = c_call("printf", m)
  BY MeantPrint
<1>4. c_call("printf", m) = Node(tree, type, 1, m)
  BY DEF c_call
<1>5. f.type = CharPointer /\ f.tree.value = MeantFormat[name]
  BY DEF c_leaf, LeafType, expr_string
<1>6. own = Clean(type_new("void"))
  <2>1. name \in DOMAIN Builtins /\ name \notin Maths
    BY DEF Builtins, Printing, Maths
  <2>2. Builtins[name] = type_new("void")
    BY <2>1 DEF Builtins
  <2> QED BY <2>1, <2>2 DEF check_call
<1> HIDE DEF y
<1> SUFFICES ASSUME y.checked.reports = {}
             PROVE  Typed(y)
  BY DEF Typed, y
<1>7. y.checked.type = Void /\ c.reports = {}
  <2> HIDE DEF args, c, own
  <2>1. check_expr(own, <<c>>).reports = {}
    BY <1>1, <1>2
  <2>2. check_expr(own, <<c>>).type = own.type /\ c.reports = {}
    BY <2>1, OneReport
  <2>3. own.type = Void
    BY <1>6 DEF Clean, Void
  <2> QED BY <1>1, <1>2, <2>2, <2>3
<1>8. Agrees(c.type, u.type) /\ u.type # Undefined /\ c.type = Printable[name]
  BY <1>7, OperandTyped
<1> HIDE DEF u, c, f, args, tree
<1>9. /\ z.type # Undefined
      /\ z.type # Rejected => u.type # Rejected /\ (name = "print_int" => z.type = LongLong)
                              /\ (name # "print_int" => z.type = u.type)
  <2>1. CASE name = "print_int"
    <3> DEFINE t == expr_unary("CAST", u.tree)
               k == UnaryType("CAST", u.tree, u.type)
               more == IF "CAST" \in Increments THEN 1 ELSE 0
    <3>1. z = Node(t, k, more, <<u>>)
      BY <2>1 DEF c_unary
    <3>2. k = When(Scalar(u.type), LongLong)
      BY DEF UnaryType
    <3> HIDE DEF t, k, more, z
    <3>3. z.type = Rejected \/ (z.type = k /\ u.type # Rejected)
      BY <1>8, <3>1, OneOperandType
    <3>4. k # Rejected => k = LongLong
      BY <3>2, WhenIs
    <3>5. Rejected # Undefined /\ LongLong # Undefined
      BY CategoriesAre
    <3> QED BY <2>1, <3>3, <3>4, <3>5
  <2>2. CASE name # "print_int"
    BY <1>8, <2>2
  <2> QED BY <2>1, <2>2
<1> HIDE DEF z, type, m
<1>10. y.meant.tree = tree /\ (y.meant.type = Rejected \/ (y.meant.type = type /\ z.type # Rejected))
  <2>1. f.type # Undefined
    BY <1>5, CategoriesAre
  <2>2. Node(tree, type, 1, <<f, z>>).tree = tree
        /\ (Node(tree, type, 1, <<f, z>>).type = Rejected
            \/ (Node(tree, type, 1, <<f, z>>).type = type /\ f.type # Rejected /\ z.type # Rejected))
    BY <1>9, <2>1, TwoOperandTypes
  <2> QED BY <1>1, <1>2, <1>3, <1>4, <2>2 DEF m
<1>11. z.type # Rejected => type = CInt
  <2> SUFFICES ASSUME z.type # Rejected PROVE type = CInt
    OBVIOUS
  <2> DEFINE T == c.type
             C == u.type
  <2>1. T = Printable[name] /\ Agrees(T, C) /\ C # Rejected
        /\ (name = "print_int" => z.type = LongLong) /\ (name # "print_int" => z.type = C)
    BY <1>8, <1>9
  <2> HIDE DEF T, C
  <2>2. CallType("printf", <<f, z>>) = CInt
    BY <1>5, <2>1, PrintfTaken
  <2> QED BY <2>2 DEF type, m
<1>12. IsType(Void)
  <2>1. "void" \in Kinds
    BY DEF Kinds
  <2> QED BY <2>1, TypesAre DEF Void
<1>13. ~Lvalue(y.meant.tree)
  BY <1>10, LvalueIs DEF tree
<1>14. y.meant.type # Rejected => Agrees(Void, CInt)
  BY CategoriesAre DEF Agrees
<1> QED BY <1>7, <1>10, <1>11, <1>12, <1>13, <1>14, TypedBy

\* A place that can be assigned to is as wide as it was declared.
LEMMA LvalueFits ==
  ASSUME NEW x, Typed(x), Lvalue(x.meant.tree)
  PROVE  Fits(x)
<1> SUFFICES ASSUME x.checked.reports = {}, x.checked.type = type_new("int"),
                    x.meant.type # Rejected
             PROVE  x.meant.type = LongLong
  BY DEF Fits
<1>1. x.meant.type = emit_type(type_new("int")) /\ IsType(type_new("int"))
  BY DEF Typed
<1> QED BY <1>1, EmitNumber

\* Fields and elements are such places.
LEMMA PlacesFit ==
  /\ \A x, m : Typed(Field(x, m)) => Fits(Field(x, m))
  /\ \A l, r : Typed(Index(l, r)) => Fits(Index(l, r))
<1>1. ASSUME NEW x, NEW m, Typed(Field(x, m))
      PROVE  Fits(Field(x, m))
  <2>1. Field(x, m).meant.tree = expr_member(x.meant.tree, m)
    BY DEF Field, c_member, Node
  <2>2. Lvalue(expr_member(x.meant.tree, m))
    BY DEF Lvalue, expr_member
  <2> QED BY <1>1, <2>1, <2>2, LvalueFits
<1>2. ASSUME NEW l, NEW r, Typed(Index(l, r))
      PROVE  Fits(Index(l, r))
  <2>1. Index(l, r).meant.tree = expr_index(l.meant.tree, r.meant.tree)
    BY DEF Index, c_index, Node
  <2>2. Lvalue(expr_index(l.meant.tree, r.meant.tree))
    BY DEF Lvalue, expr_index
  <2> QED BY <1>2, <2>1, <2>2, LvalueFits
<1> QED BY <1>1, <1>2

\* A literal is one, and an int by its name has 64 bits.
LEMMA LeafFits ==
  ASSUME NEW e, IsLeaf(e), e.kind = "ident" => e.value[1] \notin DOMAIN Params
  PROVE  /\ Fits(Leaf(e))
         /\ Leaf(e).tree = e /\ e.kind \notin {"unary", "call"}
<1> DEFINE x == Leaf(e)
           T == x.checked.type
           C == x.meant.type
<1>1. x.checked = check_leaf(e) /\ x.meant = c_leaf(MeantLeaf(e)) /\ x.tree = e
  BY DEF Leaf
<1>2. C = LeafType(MeantLeaf(e)) /\ x.meant.tree = MeantLeaf(e)
  BY <1>1 DEF c_leaf
<1>3. e.kind \in {"int", "float", "bool", "string", "char", "null", "ident"}
  BY DEF IsLeaf, expr_int, expr_float, expr_bool, expr_string, expr_char, expr_null, expr_ident
<1>4. Typed(x)
  BY LeafTyped
<1> HIDE DEF x
<1> SUFFICES Fits(x)
  BY <1>1, <1>3 DEF x
<1>5. CASE e.kind = "int"
  <2>1. MeantLeaf(e) = e
    BY <1>5 DEF MeantLeaf
  <2>2. C \in {LongLong, CInt}
    BY <1>2, <1>5, <2>1 DEF LeafType
  <2>3. IsLiteral(x.tree)
    BY <1>1, <1>5 DEF IsLiteral
  <2> QED BY <2>2, <2>3 DEF Fits
<1>6. CASE e.kind \in {"float", "bool", "string", "char"}
  <2>1. T = type_new(e.kind)
    BY <1>1, <1>6 DEF check_leaf, Clean
  <2>2. type_new(e.kind) # type_new("int")
    BY <1>6, CTypesAre, TypeIs
  <2> QED BY <2>1, <2>2 DEF Fits
<1>7. CASE e.kind = "null"
  <2>1. T = type_ptr(type_new("void"))
    BY <1>1, <1>7 DEF check_leaf, Clean
  <2>2. T.kind = "void"
    BY <2>1, CTypesAre, TypeIs DEF type_ptr
  <2>3. T # type_new("int")
    BY <2>2, CTypesAre, TypeIs
  <2> QED BY <2>3 DEF Fits
<1>8. CASE e.kind = "ident"
  <2>1. MeantLeaf(e) = e
    BY <1>8 DEF MeantLeaf
  <2>2. CASE e.value[1] = "NULL"
    <3>1. "NULL" \notin DOMAIN Types
      BY ExpressionsAssumption
    <3>2. x.checked.reports # {}
      BY <1>1, <1>8, <2>2, <3>1 DEF check_leaf, Report
    <3> QED BY <3>2 DEF Fits
  <2>3. CASE e.value[1] # "NULL"
    <3>1. Lvalue(x.meant.tree)
      BY <1>2, <1>8, <2>1, <2>3 DEF Lvalue
    <3> QED BY <1>4, <3>1, LvalueFits
  <2> QED BY <2>2, <2>3
<1> QED BY <1>3, <1>5, <1>6, <1>7, <1>8

\* The sign of an int is as wide as the int, but for literals that have one
\* already, and strlen.
LEMMA UnaryFits ==
  ASSUME NEW op \in PrefixOps \cup PostfixOps, NEW x, Typed(x), Fits(x),
         op \in {"NEG", "BIT_NOT"} =>
           ~(IsLiteral(x.tree) /\ Prefixed(x.tree)) /\ ~IsLength(x.tree)
  PROVE  Fits(Unary(op, x))
<1> DEFINE y == Unary(op, x)
           C == x.meant.type
           own == check_unary(op, x.checked.type)
           type == UnaryType(op, x.meant.tree, C)
<1> SUFFICES ASSUME y.checked.reports = {}, y.checked.type = type_new("int"),
                    y.meant.type # Rejected
             PROVE  \/ y.meant.type = LongLong
                    \/ y.meant.type = CInt /\ IsLiteral(y.tree)
  BY DEF Fits
<1>1. /\ y.tree = expr_unary(op, x.tree) /\ y.meant.tree = expr_unary(op, x.meant.tree)
      /\ own.type = type_new("int") /\ own.reports = {} /\ x.checked.reports = {}
      /\ y.meant.type = type /\ C # Rejected
  BY UnaryIs
<1>2. Typed(y)
  BY UnaryTyped
<1> HIDE DEF y
<1>3. CASE op = "NOT"
  <2>1. own.type = type_new("bool")
    BY <1>3 DEF check_unary, Clean
  <2>2. type_new("bool") # type_new("int")
    BY CTypesAre, TypeIs
  <2> QED BY <1>1, <2>1, <2>2
<1>4. CASE op = "ADDR"
  <2>1. own.type = type_ptr(x.checked.type) /\ IsType(x.checked.type)
    BY <1>1, <1>4 DEF check_unary, Clean, Typed
  <2>2. own.type.stars = x.checked.type.stars + 1 /\ x.checked.type.stars \in Nat
    BY <2>1, TypeIs DEF type_ptr, IsType
  <2>3. type_new("int").stars = 0
    BY CTypesAre, TypeIs
  <2>4. own.type.stars # 0
    <3> HIDE DEF own
    <3> QED BY <2>2
  <2> QED BY <1>1, <2>3, <2>4
<1>5. CASE op = "DEREF"
  <2>1. Lvalue(y.meant.tree)
    BY <1>1, <1>5, LvalueIs
  <2>2. Fits(y)
    BY <1>2, <2>1, LvalueFits
  <2>3. ~IsLength(y.tree)
    BY <1>1 DEF IsLength, expr_unary
  <2> QED BY <2>2, <2>3 DEF Fits, y
<1>6. CASE op \in {"NEG", "BIT_NOT"}
  <2>1. type = Promoted(C)
    <3>1. type # Rejected
      BY <1>1
    <3> QED BY <1>6, <3>1, SignTyped
  <2>2. x.checked.type = type_new("int")
    BY <1>1, <1>6 DEF check_unary, Clean
  <2>3. C = LongLong \/ (C = CInt /\ IsLiteral(x.tree))
    BY <1>1, <1>6, <2>2 DEF Fits
  <2>4. Common(C, C) = C
    <3>1. C \in NumberTypes /\ {C, C} \subseteq {LongLong, CInt}
      BY <2>3 DEF NumberTypes
    <3> HIDE DEF C
    <3> QED BY <2>3, <3>1, CommonIs, NumbersDiffer
  <2>5. y.meant.type = C
    BY <1>1, <2>1, <2>4 DEF Promoted
  <2>6. C = CInt => IsLiteral(y.tree)
    <3>1. C = CInt => IsLiteral(x.tree)
      BY <2>3, NumbersDiffer
    <3>2. IsLiteral(x.tree) => x.tree.kind = "int"
      <4>1. "NEG" \in PrefixOps /\ "BIT_NOT" \in PrefixOps
        BY DEF PrefixOps
      <4> QED BY <1>6, <4>1 DEF IsLiteral, Prefixed
    <3>3. x.tree.kind = "int" => IsLiteral(y.tree)
      BY <1>1, <1>6 DEF IsLiteral, expr_unary
    <3> QED BY <3>1, <3>2, <3>3
  <2> HIDE DEF C
  <2> QED BY <2>3, <2>5, <2>6
<1>7. CASE op \notin {"NOT", "ADDR", "DEREF", "NEG", "BIT_NOT"}
  <2>1. type = C /\ Lvalue(x.meant.tree)
    <3>1. op # "CAST"
      BY DEF PrefixOps, PostfixOps
    <3>2. type = When(Lvalue(x.meant.tree) /\ Scalar(C), C)
      BY <1>7, <3>1 DEF UnaryType
    <3> QED BY <1>1, <3>2, WhenIs
  <2>2. x.checked.type = type_new("int")
    BY <1>1, <1>7 DEF check_unary, Clean
  <2>3. C = emit_type(type_new("int")) /\ IsType(type_new("int"))
    BY <1>1, <2>1, <2>2 DEF Typed
  <2>4. C = LongLong
    BY <2>3, EmitNumber
  <2> QED BY <1>1, <2>1, <2>4
<1> QED BY <1>3, <1>4, <1>5, <1>6, <1>7

\* So is what is computed of two ints, unless both are literals.
LEMMA BinaryFits ==
  ASSUME NEW op \in DOMAIN Binaries, NEW l, Typed(l), Fits(l), NEW r, Typed(r), Fits(r),
         op \in Arithmetic => ~(IsLiteral(l.tree) /\ IsLiteral(r.tree)),
         ~IsLength(l.tree), ~IsLength(r.tree)
  PROVE  Fits(Binary(op, l, r))
<1> DEFINE y == Binary(op, l, r)
           S == l.checked.type
           T == r.checked.type
           L == l.meant.type
           R == r.meant.type
           own == check_binary(op, S, T)
<1> SUFFICES ASSUME y.checked.reports = {}, y.checked.type = type_new("int"),
                    y.meant.type # Rejected
             PROVE  y.meant.type = LongLong
  BY DEF Fits
<1>1. /\ own.type = type_new("int") /\ own.reports = {}
      /\ l.checked.reports = {} /\ r.checked.reports = {}
      /\ y.meant.type = BinaryType(op, L, R) /\ L # Rejected /\ R # Rejected
  <2>1. BinaryMade(op, l, r)
    BY BinaryIs
  <2> QED BY <2>1 DEF BinaryMade
<1> HIDE DEF y
<1>2. type_new("bool") # type_new("int") /\ type_new("float") # type_new("int")
  BY CTypesAre, TypeIs
<1>3. op \in Arithmetic /\ op \notin Comparisons \cup Logical /\ {S, T} = {type_new("int")}
  <2> DEFINE int == type_new("int")
             float == type_new("float")
             bool == type_new("bool")
  <2>1. Clean(bool).type = bool /\ Clean(float).type = float /\ Report("GHL202").reports # {}
    BY DEF Clean, Report
  <2>4. Arithmetic \cap (Comparisons \cup Logical) = {}
    BY DEF Arithmetic, Comparisons, Logical
  <2> HIDE DEF S, T
  <2>2. CASE op \in Comparisons \cup Logical
    <3>1. own = Clean(bool)
      BY <2>2, <2>4 DEF check_binary
    <3> QED BY <1>1, <1>2, <2>1, <3>1
  <2>3. CASE op \notin Comparisons \cup Logical
    <3>1. op \in Arithmetic
      BY <2>3 DEF Arithmetic, Comparisons, Logical, Binaries
    <3>2. CASE {S, T} # {int} /\ float \in {S, T}
      <4>1. own = Clean(float)
        BY <2>3, <3>1, <3>2 DEF check_binary
      <4> QED BY <1>1, <1>2, <2>1, <4>1
    <3>3. CASE {S, T} # {int} /\ float \notin {S, T}
      <4>1. own = Report("GHL202")
        BY <2>3, <3>1, <3>3 DEF check_binary
      <4> QED BY <1>1, <2>1, <4>1
    <3> QED BY <2>3, <3>1, <3>2, <3>3
  <2> QED BY <2>2, <2>3
<1>4. S = type_new("int") /\ T = type_new("int")
  BY <1>3
<1>5. /\ L = LongLong \/ (L = CInt /\ IsLiteral(l.tree))
      /\ R = LongLong \/ (R = CInt /\ IsLiteral(r.tree))
  BY <1>1, <1>4 DEF Fits
<1>6. L \in {LongLong, CInt} /\ R \in {LongLong, CInt} /\ LongLong \in {L, R}
  BY <1>3, <1>5
<1> HIDE DEF S, T, L, R
<1>7. L \in NumberTypes /\ R \in NumberTypes
  BY <1>6 DEF NumberTypes
<1>8. Common(L, R) = LongLong
  BY <1>6, <1>7, CommonIs
<1>9. Number(L) /\ Number(R) /\ ~IsPtr(L) /\ ~IsPtr(R)
  <2>1. Number(L) /\ Number(R)
    BY <1>6, CategoriesAre DEF Number
  <2> QED BY <2>1, CategoriesExclude
<1>10. BinaryType(op, L, R)
         = When(op = "MOD" => Category(L) = "integer" /\ Category(R) = "integer", Common(L, R))
  BY <1>3, <1>9 DEF BinaryType
<1> QED BY <1>1, <1>8, <1>10, WhenIs

\* An assignment is as wide as its target.
LEMMA AssignFits ==
  ASSUME NEW l, Typed(l), NEW r, Typed(r)
  PROVE  Fits(Assign(l, r))
<1> DEFINE y == Assign(l, r)
<1> SUFFICES ASSUME y.checked.reports = {}, y.checked.type = type_new("int"),
                    y.meant.type # Rejected
             PROVE  y.meant.type = LongLong
  BY DEF Fits
<1>1. /\ l.checked.type = type_new("int") /\ l.checked.reports = {}
      /\ y.meant.type = l.meant.type /\ l.meant.type # Rejected /\ Lvalue(l.meant.tree)
  BY AssignIs
<1>2. l.meant.type = emit_type(type_new("int")) /\ IsType(type_new("int"))
  BY <1>1 DEF Typed
<1> HIDE DEF y
<1> QED BY <1>1, <1>2, EmitNumber

\* A call has 64 bits, but for strlen.
LEMMA CallFits ==
  ASSUME NEW name, name # "printf", NEW args, \A n \in DOMAIN args : Typed(args[n])
  PROVE  Fits(Called(name, args))
<1> DEFINE y == Called(name, args)
           own == check_call(name)
<1> SUFFICES ASSUME y.checked.reports = {}, y.checked.type = type_new("int"),
                    y.meant.type # Rejected
             PROVE  \/ y.meant.type = LongLong
                    \/ y.meant.type = SizeT /\ IsLength(y.tree)
  BY DEF Fits
<1>1. type_new("void") # type_new("int") /\ type_new("float") # type_new("int")
  BY CTypesAre, TypeIs
<1>2. CASE name \in Printing
  <2>1. y.checked.type = own.type
    BY DEF Called, check_expr
  <2>2. own.type = type_new("void")
    <3>1. name \in DOMAIN Builtins /\ name \notin Maths
      BY <1>2 DEF Builtins, Printing, Maths
    <3>2. Builtins[name] = type_new("void")
      BY <1>2, <3>1 DEF Builtins
    <3> QED BY <3>1, <3>2 DEF check_call, Clean
  <2> HIDE DEF y, own
  <2> QED BY <1>1, <2>1, <2>2
<1>3. CASE name \notin Printing
  <2>1. /\ y.tree.kind = "call" /\ y.tree.op = name
        /\ own.type = type_new("int") /\ IsType(own.type)
        /\ y.meant.type = ResultType(name)
    BY <1>3, CallIs
  <2>2. /\ ResultType(name) = SizeT \/ name \in Maths \/ ResultType(name) = emit_type(own.type)
        /\ name \in Maths => own.type = type_new("float")
        /\ ResultType(name) = SizeT => name = "strlen" \/ name \in Maths
    BY <2>1, ResultAgrees
  <2> HIDE DEF y, own
  <2>3. name \notin Maths
    BY <1>1, <2>1, <2>2
  <2>4. CASE ResultType(name) = SizeT
    BY <2>1, <2>2, <2>3, <2>4 DEF IsLength
  <2>5. CASE ResultType(name) = emit_type(own.type)
    BY <2>1, <2>5, EmitNumber
  <2> QED BY <2>2, <2>3, <2>4, <2>5
<1> QED BY <1>2, <1>3

TypedInv == Typed(expr) /\ Fits(expr)
Cutting == {"function_as_value", "literal_arithmetic", "strlen_operand"}

\* What a source begins with has a C type that agrees.
LEMMA UsedTyped ==
  ASSUME "function_as_value" \notin Habits, NEW e \in Used(Leaves)
  PROVE  /\ Typed(Leaf(e)) /\ Fits(Leaf(e))
         /\ Leaf(e).tree = e /\ e.kind \notin {"unary", "call"}
<1>1. IsLeaf(e)
  BY ExpressionsAssumption DEF Used
<1>2. e.kind = "ident" => e.value[1] \notin DOMAIN Params
  BY DEF Used, Uses
<1> QED BY <1>1, <1>2, LeafTyped, LeafFits

\* So the expression begins.
LEMMA TypedInit ==
  ASSUME "function_as_value" \notin Habits, Init
  PROVE  TypedInv
BY UsedTyped DEF Init, TypedInv

\* So it stays, if what it grows to has.
LEMMA GrownTyped ==
  ASSUME NEW e, Typed(e), Fits(e), NEW own, Grow(e, own)
  PROVE  TypedInv'
<1>1. expr' = e
  BY DEF Grow
<1>2. Typed(expr') /\ Fits(expr')
  BY <1>1
<1> QED BY <1>2 DEF TypedInv, Typed, Agrees, Fits

\* Every operator of the parser leaves a C type that agrees.
LEMMA TypedNext ==
  ASSUME Habits \cap (Reshaping \cup Cutting) = {}, TypedInv, Next
  PROVE  TypedInv'
<1>0. "function_as_value" \notin Habits /\ "literal_arithmetic" \notin Habits
        /\ "strlen_operand" \notin Habits
  BY DEF Cutting
<1>1. Typed(expr) /\ Fits(expr)
  BY DEF TypedInv
<1>2. \A s \in Used(Siblings) : /\ Typed(Leaf(s)) /\ Fits(Leaf(s))
                               /\ Leaf(s).tree = s /\ s.kind \notin {"unary", "call"}
  BY <1>0, UsedTyped, SiblingsUsed
<1>3. Operators \subseteq DOMAIN Binaries
  BY ExpressionsAssumption
<1>4. ASSUME NEW op \in PrefixOps \cup PostfixOps, NEW own, Grow(Unary(op, expr), own),
             op \in {"NEG", "BIT_NOT"} =>
               ~(IsLiteral(expr.tree) /\ Prefixed(expr.tree)) /\ ~IsLength(expr.tree)
      PROVE  TypedInv'
  <2>1. Typed(Unary(op, expr)) /\ Fits(Unary(op, expr))
    BY <1>1, <1>4, UnaryTyped, UnaryFits
  <2> QED BY <1>4, <2>1, GrownTyped
<1>5. ASSUME NEW op \in PrefixOps, Prefix(op)
      PROVE  TypedInv'
  <2> DEFINE own == IF op \in Increments THEN 1 ELSE 0
  <2>1. Grow(Unary(op, expr), own)
    BY <1>5 DEF Prefix
  <2>2. op \in {"NEG", "BIT_NOT"} =>
          ~(IsLiteral(expr.tree) /\ Prefixed(expr.tree)) /\ ~IsLength(expr.tree)
    BY <1>0, <1>5 DEF Prefix, Uses
  <2> HIDE DEF own
  <2> QED BY <1>4, <2>1, <2>2
<1>6. ASSUME NEW op \in PostfixOps, Postfix(op)
      PROVE  TypedInv'
  <2>1. Grow(Unary(op, expr), 1)
    BY <1>6 DEF Postfix, Grown
  <2>2. op \notin {"NEG", "BIT_NOT"}
    BY DEF PostfixOps
  <2> QED BY <1>4, <2>1, <2>2
<1>7. ASSUME NEW m \in Members, Member(m)
      PROVE  TypedInv'
  <2>1. Grow(Field(expr, m), 0)
    BY <1>7 DEF Member, Grown, Reshaping
  <2>2. Typed(Field(expr, m)) /\ Fits(Field(expr, m))
    BY <1>1, FieldTyped, PlacesFit
  <2> QED BY <2>1, <2>2, GrownTyped
<1>8. ASSUME NEW s \in Used(Siblings)
      PROVE  /\ IndexOf(s) => TypedInv'
             /\ IndexBy(s) => TypedInv'
             /\ AssignTo(s) => TypedInv'
             /\ AssignFrom(s) => TypedInv'
             /\ \A op \in Operators : BinaryWith(op, s) => TypedInv'
             /\ \A op \in Operators : CompoundAssign(op, s) => TypedInv'
  <2> DEFINE l == Leaf(s)
  <2>1. Typed(l) /\ Fits(l) /\ l.tree = s /\ s.kind \notin {"unary", "call"}
    BY <1>2
  <2>2. IndexOf(s) => Grow(Index(expr, l), 0)
    BY DEF IndexOf, Grown
  <2>3. IndexBy(s) => Grow(Index(l, expr), 0)
    BY DEF IndexBy
  <2>4. AssignTo(s) => Grow(Assign(l, expr), 1)
    BY DEF AssignTo
  <2>5. AssignFrom(s) => Grow(Assign(expr, l), 1)
    BY DEF AssignFrom
  <2>6. \A op \in Operators : BinaryWith(op, s) =>
          /\ Combines(op, s)
          /\ Grow(Binary(op, expr, l), 0) \/ Grow(Binary(op, l, expr), 0)
    BY DEF BinaryWith
  <2>7. \A op \in Operators : CompoundAssign(op, s) => Grow(Assign(expr, Binary(op, expr, l)), 1)
    BY DEF CompoundAssign, Compound
  <2> HIDE DEF l
  <2>8. Typed(Index(expr, l)) /\ Typed(Index(l, expr))
    BY <1>1, <2>1, IndexTyped
  <2>15. Fits(Index(expr, l)) /\ Fits(Index(l, expr))
    BY <2>8, PlacesFit
  <2>9. /\ Typed(Assign(l, expr)) /\ Typed(Assign(expr, l))
        /\ Fits(Assign(l, expr)) /\ Fits(Assign(expr, l))
    BY <1>1, <2>1, AssignTyped, AssignFits
  <2>10. ASSUME NEW op \in Operators
         PROVE  /\ Typed(Binary(op, expr, l)) /\ Typed(Binary(op, l, expr))
                /\ Combines(op, s) => Fits(Binary(op, expr, l)) /\ Fits(Binary(op, l, expr))
                /\ Typed(Assign(expr, Binary(op, expr, l)))
                /\ Fits(Assign(expr, Binary(op, expr, l)))
    <3>1. Typed(Binary(op, expr, l)) /\ Typed(Binary(op, l, expr))
      BY <1>1, <1>3, <2>1, BinaryTyped
    <3>2. ASSUME Combines(op, s)
          PROVE  Fits(Binary(op, expr, l)) /\ Fits(Binary(op, l, expr))
      <4>1. op \in Arithmetic => ~(IsLiteral(expr.tree) /\ IsLiteral(l.tree))
        <5>1. IsLiteral(l.tree) => s.kind = "int"
          BY <2>1 DEF IsLiteral
        <5> QED BY <1>0, <3>2, <5>1 DEF Combines, Uses
      <4>2. ~IsLength(expr.tree) /\ ~IsLength(l.tree)
        <5>1. ~IsLength(l.tree)
          BY <2>1 DEF IsLength
        <5> QED BY <1>0, <3>2, <5>1 DEF Combines, Uses
      <4> QED BY <1>1, <1>3, <2>1, <4>1, <4>2, BinaryFits
    <3> QED BY <1>1, <3>1, <3>2, AssignTyped, AssignFits
  <2>11. (IndexOf(s) => TypedInv') /\ (IndexBy(s) => TypedInv')
    BY <2>2, <2>3, <2>8, <2>15, GrownTyped
  <2>12. (AssignTo(s) => TypedInv') /\ (AssignFrom(s) => TypedInv')
    BY <2>4, <2>5, <2>9, GrownTyped
  <2>13. \A op \in Operators : BinaryWith(op, s) => TypedInv'
    BY <2>6, <2>10, GrownTyped
  <2>14. \A op \in Operators : CompoundAssign(op, s) => TypedInv'
    BY <2>7, <2>10, GrownTyped
  <2> QED BY <2>11, <2>12, <2>13, <2>14
<1>9. ASSUME NEW name \in DOMAIN Params, NEW before \in Arguments, NEW after \in Arguments,
             Call(name, before, after)
      PROVE  TypedInv'
  <2> DEFINE args == before \o <<expr>> \o after
             B == {Leaf(s) : s \in Used(Siblings)}
             S == B \cup {expr}
  <2>1. before \in {<<>>} \cup {<<b>> : b \in B} /\ after \in {<<>>} \cup {<<b>> : b \in B}
    BY DEF Arguments
  <2>2. \A x \in S : Typed(x)
    BY <1>1, <1>2
  <2>3. /\ Params[name] = [n \in DOMAIN args |-> args[n].checked.type]
        /\ Grow(Called(name, args), 1)
    BY <1>9 DEF Call, Uses, Reshaping
  <2> HIDE DEF B
  <2>4. args \in Seq(S) /\ args # <<>> /\ (Len(args) = 1 => args = <<expr>>)
    BY <2>1, ArgumentsAre, ZenonT(60)
  <2>5. args[1] = expr \/ Len(args) # 1
    BY <2>4
  <2> HIDE DEF args, S
  <2>6. \A n \in DOMAIN args : Typed(args[n])
    BY <2>2, <2>4
  <2>9. name # "printf"
    BY ExpressionsAssumption
  <2>10. Fits(Called(name, args))
    BY <2>6, <2>9, CallFits
  <2>7. CASE name \in Printing
    <3>1. Params[name] = <<Printable[name]>>
      BY <2>7, ExpressionsAssumption
    <3>2. DOMAIN args = 1..1 /\ args[1].checked.type = Printable[name]
      BY <2>3, <3>1
    <3>3. Len(args) = 1
      BY <2>4, <3>2
    <3>4. args = <<expr>> /\ expr.checked.type = Printable[name]
      BY <2>4, <2>5, <3>2, <3>3
    <3>5. Typed(Called(name, <<expr>>))
      BY <1>1, <2>7, <3>4, PrintTyped
    <3> QED BY <2>3, <2>10, <3>4, <3>5, GrownTyped
  <2>8. CASE name \notin Printing
    <3>1. Typed(Called(name, args))
      BY <2>6, <2>8, <2>9, CallTyped
    <3> QED BY <2>3, <2>10, <3>1, GrownTyped
  <2> QED BY <2>7, <2>8
<1> QED BY <1>5, <1>6, <1>7, <1>8, <1>9 DEF Next

\* What type_eq takes for equal is equal, but for the names of structs.
LEMMA SameTypeParts ==
  ASSUME NEW T, IsType(T), NEW D, IsType(D), type_eq(D, T), IsPtr(D) => D.name = T.name
  PROVE  /\ D = T \/ (D.kind = "struct" /\ ~IsPtr(D))
         /\ D.kind = T.kind /\ (IsPtr(D) <=> IsPtr(T))
<1>1. T.kind # "error" /\ D.kind # "error"
  BY DEF IsType, Kinds
<1>2. D.kind = T.kind /\ D.stars = T.stars
  BY <1>1 DEF type_eq
<1>3. D = Type(D.stars, D.kind, D.name) /\ T = Type(T.stars, T.kind, T.name)
  BY DEF IsType
<1>4. D.kind # "struct" => D.name = T.name
  BY <1>2 DEF IsType
<1>5. D.name = T.name => D = T
  BY <1>2, <1>3
<1> QED BY <1>2, <1>4, <1>5 DEF IsPtr

\* What the checker lets a declaration take keeps its sort in the C type.
LEMMA Stored ==
  ASSUME NEW T, IsType(T), NEW C, Agrees(T, C), NEW D, IsType(D), type_eq(D, T),
         IsPtr(D) => D.name = T.name, Convertible(C, emit_type(D))
  PROVE  SameSort(C, emit_type(D))
<1> DEFINE E == emit_type(D)
<1>1. /\ D = T \/ (D.kind = "struct" /\ ~IsPtr(D))
      /\ D.kind = T.kind /\ (IsPtr(D) <=> IsPtr(T))
  BY SameTypeParts
<1>2. /\ Category(E) \in {"ptr", "integer", "floating", "struct", "void"} /\ E # Rejected
      /\ D.kind = "struct" /\ ~IsPtr(D) => Category(E) = "struct"
  BY EmitCategory
<1>3. C = E \/ (Number(C) /\ Number(E)) \/ (IsPtr(C) /\ IsPtr(E))
  BY DEF Convertible
<1>4. /\ Number(C) <=> Category(C) \in {"integer", "floating"}
      /\ Number(E) <=> Category(E) \in {"integer", "floating"}
      /\ IsPtr(C) => Category(C) = "ptr"
  BY DEF Number, Category
<1>5. C # Rejected
  BY <1>2, <1>3, <1>4, CategoriesAre
<1>6. CASE T = Void
  <2>1. C = CInt \/ C = Void
    BY <1>5, <1>6 DEF Agrees
  <2>2. Void.kind = "void"
    BY CTypesAre, TypeIs
  <2>3. D = T
    BY <1>1, <1>6, <2>2
  <2>4. E = Void
    <3>1. T = Type(0, "void", NoName) /\ 0 \in Nat
      BY <1>6, CTypesAre
    <3> QED BY <1>6, <2>3, <3>1, EmitIs
  <2> HIDE DEF E
  <2>5. C = Void
    BY <1>3, <2>1, <2>4, <1>4, CategoriesAre
  <2>6. Void \notin {LongLong, SizeT}
    BY CategoriesAre
  <2> QED BY <2>4, <2>5, <2>6, CategoriesAre DEF SameSort, E
<1>7. CASE T # Void
  <2>1. /\ Category(C) = Category(emit_type(T))
        /\ Category(C) \in {"ptr", "struct"} => C = emit_type(T)
    BY <1>5, <1>7 DEF Agrees
  <2>2. CASE D = T
    <3>1. Category(C) = Category(E) /\ (IsPtr(C) => C = E)
      BY <1>4, <2>1, <2>2
    <3>2. C \in {LongLong, SizeT} => E = LongLong
      <4>1. C \in {LongLong, SizeT} => Number(C)
        BY CategoriesAre DEF Number
      <4>2. C \in {LongLong, SizeT} => T = type_new("int")
        BY <1>5, <4>1, AgreesIn
      <4> QED BY <2>2, <4>2, EmitNumber
    <3> HIDE DEF E
    <3> QED BY <3>1, <3>2 DEF SameSort, E
  <2>3. CASE D.kind = "struct" /\ ~IsPtr(D)
    <3>1. Category(emit_type(T)) = "struct"
      BY <1>1, <2>3, EmitCategory
    <3>2. Category(C) = Category(E) /\ ~IsPtr(C) /\ Category(C) = "struct"
      BY <1>2, <1>4, <2>1, <2>3, <3>1
    <3>3. C \notin {LongLong, SizeT}
      BY <3>2, CategoriesAre
    <3> HIDE DEF E
    <3> QED BY <3>2, <3>3 DEF SameSort, E
  <2> QED BY <1>1, <2>2, <2>3
<1> QED BY <1>6, <1>7

\* An expression that is read as it was meant has the type it was meant to
\* have.
LEMMA TypedSame ==
  ASSUME "other_struct" \notin Habits, TypedInv, SameTree
  PROVE  SameType
<1> SUFFICES ASSUME Accepted
             PROVE  SameType
  BY DEF SameType
<1> DEFINE T == expr.checked.type
           C == read.type
<1>1. C = expr.meant.type
  BY DEF SameTree
<1>2. IsType(T) /\ Agrees(T, C)
  BY <1>1 DEF TypedInv, Typed, Accepted
<1>3. C # Undefined
  BY <1>2 DEF Agrees
<1>6. T = type_new("int") =>
        \/ C \in {Rejected, LongLong}
        \/ C = CInt /\ IsLiteral(expr.tree)
        \/ C = SizeT /\ IsLength(expr.tree)
  BY <1>1 DEF TypedInv, Fits, Accepted
<1>4. C # Rejected /\ T # type_new("void") => Category(C) = Category(emit_type(T))
  BY <1>2 DEF Agrees, Void
<1>5. ASSUME NEW declared \in Declared,
             Uses("other_struct", IsPtr(declared) /\ declared.name # T.name),
             {} \in {check_var_decl(declared, expr.checked), check_return(declared, expr.checked)},
             Convertible(C, emit_type(declared))
      PROVE  SameSort(C, emit_type(declared))
  <2>1. IsType(declared)
    BY ExpressionsAssumption
  <2>2. IsPtr(declared) => declared.name = T.name
    BY <1>5 DEF Uses
  <2>3. type_eq(declared, T)
    BY <1>5 DEF check_var_decl, check_return
  <2> HIDE DEF T, C
  <2> QED BY <1>2, <1>5, <2>1, <2>2, <2>3, Stored
<1> QED BY <1>3, <1>4, <1>5, <1>6 DEF SameType

\* In such a source that also uses no function for a value and no pointer to
\* one struct for another, computes nothing of literals alone, and takes the
\* length of a string by itself, every accepted expression is computed in C,
\* unless C rejects it, as what check_expr took it for: integers as integers,
\* floats as float or double, an int in 64 bits, but for a literal, its sign
\* and strlen.  None is undefined behaviour by its types, and what
\* check_var_decl or check_return takes keeps its sort.
THEOREM TypesCarryOver ==
  ASSUME Habits \cap (Reshaping \cup Cutting \cup {"other_struct"}) = {}
  PROVE  Spec => []SameType
<1>1. Init => TypedInv
  BY TypedInit DEF Cutting
<1>2. TypedInv /\ [Next]_vars => TypedInv'
  <2>1. TypedInv /\ Next => TypedInv'
    BY TypedNext
  <2>2. TypedInv /\ UNCHANGED vars => TypedInv'
    BY DEF TypedInv, Typed, Agrees, Fits, vars
  <2> QED BY <2>1, <2>2
<1>3. Spec => []SameTree
  BY TextReadsAsTree
<1>4. TypedInv /\ SameTree => SameType
  BY TypedSame
<1> QED BY <1>1, <1>2, <1>3, <1>4, PTL DEF Spec
=============================================================================
