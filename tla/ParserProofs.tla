---------------------------- MODULE ParserProofs ----------------------------
(***************************************************************************)
(* Proofs about Parser, for files and call stacks of every length: its     *)
(* types, that brackets close in the order they were opened, and that an   *)
(* accepted file keeps every declaration.                                  *)
(***************************************************************************)
EXTENDS Parser, SequenceTheorems, FiniteSetTheorems, FunctionTheorems, TLAPS

-----------------------------------------------------------------------------
(* The call stack when its first element is replaced.                        *)

\* What a step leaves to do: its own steps, then what was left before.
LEMMA SplicedIs ==
  ASSUME NEW S, NEW td \in Seq(S), td # <<>>, NEW steps \in Seq(S)
  PROVE  /\ steps \o Tail(td) \in Seq(S)
         /\ Len(steps \o Tail(td)) = Len(steps) + Len(td) - 1
         /\ \A i \in 1..Len(steps) : (steps \o Tail(td))[i] = steps[i]
         /\ \A i \in 2..Len(td) : (steps \o Tail(td))[Len(steps) + i - 1] = td[i]
         /\ \A i \in (Len(steps) + 1)..(Len(steps) + Len(td) - 1) :
              /\ i - Len(steps) + 1 \in 2..Len(td)
              /\ (steps \o Tail(td))[i] = td[i - Len(steps) + 1]
<1> DEFINE rest == Tail(td)
           new == steps \o rest
           m == Len(steps)
           l == Len(td)
<1>1. rest \in Seq(S) /\ Len(rest) = l - 1 /\ \A i \in 1..(l - 1) : rest[i] = td[i + 1]
  BY HeadTailProperties
<1>2. m \in Nat /\ l \in Nat \ {0}
  OBVIOUS
<1>3. new \in Seq(S) /\ Len(new) = m + Len(rest)
      /\ \A i \in 1..(m + Len(rest)) : new[i] = IF i <= m THEN steps[i] ELSE rest[i - m]
  <2> HIDE DEF rest
  <2> QED BY <1>1, ConcatProperties
<1>4. Len(new) = m + l - 1
  BY <1>1, <1>2, <1>3
<1>5. \A i \in 1..m : new[i] = steps[i]
  <2> HIDE DEF new, rest, m, l
  <2> QED BY <1>1, <1>2, <1>3
<1>6. ASSUME NEW i \in (m + 1)..(m + l - 1)
      PROVE  i - m + 1 \in 2..l /\ new[i] = td[i - m + 1]
  <2> HIDE DEF new, rest, m, l
  <2>1. new[i] = rest[i - m]
    BY <1>1, <1>2, <1>3
  <2>2. i - m \in 1..(l - 1)
    BY <1>2
  <2> QED BY <1>1, <1>2, <2>1, <2>2
<1>7. ASSUME NEW i \in 2..l PROVE new[m + i - 1] = td[i]
  <2> HIDE DEF new, rest, m, l
  <2>1. m + i - 1 \in (m + 1)..(m + l - 1)
    BY <1>2
  <2>2. (m + i - 1) - m + 1 = i
    BY <1>2
  <2> QED BY <1>6, <2>1, <2>2
<1> QED BY <1>3, <1>4, <1>5, <1>6, <1>7

-----------------------------------------------------------------------------
(* Brackets that are open and the closing brackets that are awaited.         *)

Brackets == Openers \cup Closers

\* The closing brackets in td are those of the brackets in vo, in order.
Awaits(vo, td) ==
  \E f \in [1..Len(vo) -> 1..Len(td)] :
    /\ \A j, k \in 1..Len(vo) : j < k => f[j] < f[k]
    /\ \A k \in 1..Len(vo) : Matches(vo[k], td[f[k]])
    /\ \A i \in 1..Len(td) : td[i] \in Closers => \E k \in 1..Len(vo) : f[k] = i

\* What matches is an opening bracket and a closing one.
LEMMA MatchesIs ==
  ASSUME NEW o, NEW c, Matches(o, c)
  PROVE  o \in Openers /\ c \in Closers /\ c \notin Openers
  BY DEF Matches, Openers, Closers

\* Steps without a closing bracket await nothing more.
LEMMA AwaitsSame ==
  ASSUME NEW S, NEW td \in Seq(S), td # <<>>, td[1] \notin Closers,
         NEW steps \in Seq(S), \A i \in 1..Len(steps) : steps[i] \notin Closers,
         NEW vo, Len(vo) \in Nat, Awaits(vo, td)
  PROVE  Awaits(vo, steps \o Tail(td))
<1> DEFINE m == Len(steps)
           l == Len(td)
           v == Len(vo)
           new == steps \o Tail(td)
<1>1. m \in Nat /\ l \in Nat \ {0} /\ v \in Nat
  OBVIOUS
<1>2. /\ Len(new) = m + l - 1
      /\ \A i \in 1..m : new[i] = steps[i]
      /\ \A i \in 2..l : new[m + i - 1] = td[i]
      /\ \A i \in (m + 1)..(m + l - 1) : i - m + 1 \in 2..l /\ new[i] = td[i - m + 1]
  BY SplicedIs
<1>3. PICK f \in [1..v -> 1..l] :
        /\ \A j, k \in 1..v : j < k => f[j] < f[k]
        /\ \A k \in 1..v : Matches(vo[k], td[f[k]])
        /\ \A i \in 1..l : td[i] \in Closers => \E k \in 1..v : f[k] = i
  BY DEF Awaits
<1>4. \A k \in 1..v : f[k] \in 2..l
  BY <1>1, <1>3, MatchesIs
<1> DEFINE g == [k \in 1..v |-> m + f[k] - 1]
<1> HIDE DEF m, l, v, new
<1>5. g \in [1..v -> 1..(m + l - 1)]
  BY <1>1, <1>4
<1>6. \A j, k \in 1..v : j < k => g[j] < g[k]
  BY <1>1, <1>3, <1>4, SMTT(30)
<1>7. \A k \in 1..v : Matches(vo[k], new[g[k]])
  BY <1>2, <1>3, <1>4
<1>8. ASSUME NEW i \in 1..(m + l - 1), new[i] \in Closers PROVE \E k \in 1..v : g[k] = i
  <2>1. i \notin 1..m
    BY <1>2, <1>8 DEF m
  <2>2. i \in (m + 1)..(m + l - 1)
    BY <1>1, <2>1
  <2>3. td[i - m + 1] \in Closers /\ i - m + 1 \in 1..l
    BY <1>1, <1>2, <1>8, <2>2, SMTT(30)
  <2>4. PICK k \in 1..v : f[k] = i - m + 1
    BY <1>3, <2>3
  <2>5. g[k] = i
    BY <1>1, <2>4
  <2> QED BY <2>5
<1>9. Awaits(vo, new)
  <2>1. v = Len(vo) /\ m + l - 1 = Len(new)
    BY <1>2 DEF v
  <2> HIDE DEF g
  <2>2. g \in [1..Len(vo) -> 1..Len(new)]
    BY <1>5, <2>1
  <2>3. \A j, k \in 1..Len(vo) : j < k => g[j] < g[k]
    BY <1>6, <2>1
  <2>4. \A k \in 1..Len(vo) : Matches(vo[k], new[g[k]])
    BY <1>7, <2>1
  <2>5. \A i \in 1..Len(new) : new[i] \in Closers => \E k \in 1..Len(vo) : g[k] = i
    BY <1>8, <2>1
  <2> QED BY <2>2, <2>3, <2>4, <2>5 DEF Awaits
<1> QED BY <1>9 DEF new

\* Steps with one closing bracket await that of one more bracket.
LEMMA AwaitsMore ==
  ASSUME NEW S, NEW td \in Seq(S), td # <<>>, td[1] \notin Closers,
         NEW steps \in Seq(S), NEW q \in 1..Len(steps),
         \A i \in 1..Len(steps) : steps[i] \in Closers => i = q,
         NEW B, NEW vo \in Seq(B), Awaits(vo, td),
         NEW o, Matches(o, steps[q])
  PROVE  Awaits(<<o>> \o vo, steps \o Tail(td))
<1> DEFINE m == Len(steps)
           l == Len(td)
           v == Len(vo)
           new == steps \o Tail(td)
           more == <<o>> \o vo
<1>1. m \in Nat \ {0} /\ l \in Nat \ {0} /\ v \in Nat /\ q \in 1..m
  OBVIOUS
<1>2. /\ Len(new) = m + l - 1
      /\ \A i \in 1..m : new[i] = steps[i]
      /\ \A i \in 2..l : new[m + i - 1] = td[i]
      /\ \A i \in (m + 1)..(m + l - 1) : i - m + 1 \in 2..l /\ new[i] = td[i - m + 1]
  BY SplicedIs
<1>3. PICK f \in [1..v -> 1..l] :
        /\ \A j, k \in 1..v : j < k => f[j] < f[k]
        /\ \A k \in 1..v : Matches(vo[k], td[f[k]])
        /\ \A i \in 1..l : td[i] \in Closers => \E k \in 1..v : f[k] = i
  BY DEF Awaits
<1>4. \A k \in 1..v : f[k] \in 2..l
  BY <1>1, <1>3, MatchesIs
<1>5. Len(more) = v + 1 /\ more[1] = o /\ \A k \in 2..(v + 1) : more[k] = vo[k - 1]
  <2>1. vo \in Seq(B \cup {o}) /\ <<o>> \in Seq(B \cup {o}) /\ Len(<<o>>) = 1
    BY SeqMonotonic
  <2>2. Len(more) = 1 + v
        /\ \A k \in 1..(1 + v) : more[k] = IF k <= 1 THEN <<o>>[k] ELSE vo[k - 1]
    BY <2>1, ConcatProperties
  <2>3. <<o>>[1] = o
    OBVIOUS
  <2> HIDE DEF more, v
  <2>4. 1 \in 1..(1 + v) /\ \A k \in 2..(v + 1) : k \in 1..(1 + v) /\ ~(k <= 1)
    BY <1>1
  <2>5. Len(more) = v + 1
    BY <1>1, <2>2
  <2> QED BY <2>2, <2>3, <2>4, <2>5
<1> DEFINE g == [k \in 1..(v + 1) |-> IF k = 1 THEN q ELSE m + f[k - 1] - 1]
<1> HIDE DEF m, l, v, new, more
<1>6. \A k \in 2..(v + 1) : k - 1 \in 1..v /\ f[k - 1] \in 2..l
  BY <1>1, <1>4
<1>7. g \in [1..(v + 1) -> 1..(m + l - 1)]
  <2> SUFFICES ASSUME NEW k \in 1..(v + 1)
               PROVE  (IF k = 1 THEN q ELSE m + f[k - 1] - 1) \in 1..(m + l - 1)
    OBVIOUS
  <2>1. CASE k = 1
    BY <1>1, <2>1
  <2>2. CASE k # 1
    <3>1. k \in 2..(v + 1)
      BY <1>1, <2>2
    <3>2. f[k - 1] \in 2..l
      BY <1>6, <3>1
    <3> QED BY <1>1, <2>2, <3>2, SMTT(30)
  <2> QED BY <2>1, <2>2
<1>8. g[1] = q /\ \A k \in 2..(v + 1) : g[k] = m + f[k - 1] - 1
  BY <1>1
<1> HIDE DEF g
<1>9. ASSUME NEW j \in 1..(v + 1), NEW k \in 1..(v + 1), j < k PROVE g[j] < g[k]
  <2>1. k \in 2..(v + 1)
    BY <1>1, <1>9
  <2>2. f[k - 1] \in 2..l /\ g[k] = m + f[k - 1] - 1
    BY <1>6, <1>8, <2>1
  <2>3. CASE j = 1
    BY <1>1, <1>8, <2>2, <2>3, SMTT(30)
  <2>4. CASE j # 1
    <3>1. j \in 2..(v + 1)
      BY <1>1, <2>4
    <3>2. f[j - 1] \in 2..l /\ g[j] = m + f[j - 1] - 1 /\ j - 1 \in 1..v /\ k - 1 \in 1..v
      BY <1>6, <1>8, <2>1, <3>1
    <3>3. j - 1 < k - 1
      BY <1>9, <3>1, <2>1
    <3>4. f[j - 1] < f[k - 1]
      BY <1>3, <3>2, <3>3
    <3> QED BY <1>1, <2>2, <3>2, <3>4
  <2> QED BY <2>3, <2>4
<1>10. ASSUME NEW k \in 1..(v + 1) PROVE Matches(more[k], new[g[k]])
  <2>1. CASE k = 1
    BY <1>1, <1>2, <1>5, <1>8, <2>1
  <2>2. CASE k # 1
    <3>1. k \in 2..(v + 1)
      BY <1>1, <2>2
    <3>2. k - 1 \in 1..v /\ f[k - 1] \in 2..l /\ g[k] = m + f[k - 1] - 1 /\ more[k] = vo[k - 1]
      BY <1>5, <1>6, <1>8, <3>1
    <3>3. new[g[k]] = td[f[k - 1]]
      BY <1>2, <3>2
    <3> QED BY <1>3, <3>2, <3>3
  <2> QED BY <2>1, <2>2
<1>11. ASSUME NEW i \in 1..(m + l - 1), new[i] \in Closers PROVE \E k \in 1..(v + 1) : g[k] = i
  <2>1. CASE i \in 1..m
    <3>1. i = q
      BY <1>2, <1>11, <2>1 DEF m
    <3>2. 1 \in 1..(v + 1)
      BY <1>1
    <3> QED BY <1>8, <3>1, <3>2
  <2>2. CASE i \notin 1..m
    <3>1. i \in (m + 1)..(m + l - 1)
      BY <1>1, <2>2
    <3>2. td[i - m + 1] \in Closers /\ i - m + 1 \in 1..l
      BY <1>1, <1>2, <1>11, <3>1
    <3>3. PICK k \in 1..v : f[k] = i - m + 1
      BY <1>3, <3>2
    <3>4. k + 1 \in 2..(v + 1) /\ (k + 1) - 1 = k /\ k + 1 \in 1..(v + 1)
      BY <1>1
    <3>5. g[k + 1] = m + f[k] - 1
      BY <1>8, <3>4
    <3>6. g[k + 1] = i
      BY <1>1, <3>3, <3>5
    <3> QED BY <3>4, <3>6
  <2> QED BY <2>1, <2>2
<1>12. Awaits(more, new)
  <2>1. v + 1 = Len(more) /\ m + l - 1 = Len(new)
    BY <1>2, <1>5
  <2>2. g \in [1..Len(more) -> 1..Len(new)]
    BY <1>7, <2>1
  <2>3. \A j, k \in 1..Len(more) : j < k => g[j] < g[k]
    BY <1>9, <2>1
  <2>4. \A k \in 1..Len(more) : Matches(more[k], new[g[k]])
    BY <1>10, <2>1
  <2>5. \A i \in 1..Len(new) : new[i] \in Closers => \E k \in 1..Len(more) : g[k] = i
    BY <1>11, <2>1
  <2> QED BY <2>2, <2>3, <2>4, <2>5 DEF Awaits
<1> QED BY <1>12 DEF new, more

\* The first closing bracket awaited is that of the innermost bracket.
LEMMA AwaitsLess ==
  ASSUME NEW S, NEW td \in Seq(S), td # <<>>, td[1] \in Closers,
         NEW B, NEW vo \in Seq(B), Awaits(vo, td)
  PROVE  vo # <<>> /\ Matches(vo[1], td[1]) /\ Awaits(Tail(vo), Tail(td))
<1> DEFINE l == Len(td)
           v == Len(vo)
<1>1. l \in Nat \ {0} /\ v \in Nat /\ 1 \in 1..l
  OBVIOUS
<1>2. PICK f \in [1..v -> 1..l] :
        /\ \A j, k \in 1..v : j < k => f[j] < f[k]
        /\ \A k \in 1..v : Matches(vo[k], td[f[k]])
        /\ \A i \in 1..l : td[i] \in Closers => \E k \in 1..v : f[k] = i
  BY DEF Awaits
<1>3. PICK k1 \in 1..v : f[k1] = 1
  BY <1>1, <1>2
<1>4. k1 = 1 /\ v # 0 /\ 1 \in 1..v
  <2>1. 1 < k1 => f[1] < f[k1] /\ f[1] \in 1..l
    BY <1>1, <1>2, SMTT(30)
  <2> HIDE DEF l, v
  <2> QED BY <1>1, <1>3, <2>1
<1>5. vo # <<>> /\ Matches(vo[1], td[1])
  BY <1>2, <1>3, <1>4
<1>6. Tail(vo) \in Seq(B) /\ Len(Tail(vo)) = v - 1 /\ \A i \in 1..(v - 1) : Tail(vo)[i] = vo[i + 1]
  BY <1>5, HeadTailProperties
<1>7. Tail(td) \in Seq(S) /\ Len(Tail(td)) = l - 1 /\ \A i \in 1..(l - 1) : Tail(td)[i] = td[i + 1]
  BY HeadTailProperties
<1> DEFINE g == [k \in 1..(v - 1) |-> f[k + 1] - 1]
           tv == Tail(vo)
           tt == Tail(td)
<1> HIDE DEF l, v, tv, tt
<1>8. \A k \in 1..(v - 1) : k + 1 \in 1..v /\ f[k + 1] \in 2..l
  <2> SUFFICES ASSUME NEW k \in 1..(v - 1) PROVE k + 1 \in 1..v /\ f[k + 1] \in 2..l
    OBVIOUS
  <2>1. k + 1 \in 1..v /\ 1 < k + 1
    BY <1>1
  <2>2. f[1] < f[k + 1] /\ f[1] = 1 /\ f[k + 1] \in 1..l
    BY <1>2, <1>3, <1>4, <2>1
  <2> QED BY <1>1, <2>1, <2>2
<1>9. g \in [1..(v - 1) -> 1..(l - 1)] /\ \A k \in 1..(v - 1) : g[k] = f[k + 1] - 1
  BY <1>1, <1>8
<1> HIDE DEF g
<1>10. ASSUME NEW j \in 1..(v - 1), NEW k \in 1..(v - 1), j < k PROVE g[j] < g[k]
  <2>1. j + 1 < k + 1
    BY <1>10
  <2>2. f[j + 1] < f[k + 1]
    BY <1>2, <1>8, <2>1
  <2> QED BY <1>1, <1>8, <1>9, <2>2, SMTT(30)
<1>11. ASSUME NEW k \in 1..(v - 1) PROVE Matches(tv[k], tt[g[k]])
  <2>1. tv[k] = vo[k + 1]
    BY <1>6 DEF tv
  <2>2. g[k] \in 1..(l - 1) /\ g[k] + 1 = f[k + 1]
    <3>1. f[k + 1] \in 2..l /\ g[k] = f[k + 1] - 1
      BY <1>8, <1>9
    <3>2. \A x \in 2..l : x - 1 \in 1..(l - 1) /\ (x - 1) + 1 = x
      BY <1>1
    <3> QED BY <3>1, <3>2
  <2>3. tt[g[k]] = td[f[k + 1]]
    BY <1>7, <2>2 DEF tt
  <2> QED BY <1>2, <1>8, <2>1, <2>3
<1>12. ASSUME NEW i \in 1..(l - 1), tt[i] \in Closers PROVE \E k \in 1..(v - 1) : g[k] = i
  <2>1. td[i + 1] \in Closers /\ i + 1 \in 1..l
    BY <1>1, <1>7, <1>12 DEF tt
  <2>2. PICK k \in 1..v : f[k] = i + 1
    BY <1>2, <2>1
  <2>3. k # 1
    BY <1>3, <1>4, <2>2
  <2>4. k - 1 \in 1..(v - 1) /\ (k - 1) + 1 = k
    BY <1>1, <2>3
  <2>5. g[k - 1] = i
    BY <1>9, <2>2, <2>4
  <2> QED BY <2>4, <2>5
<1>13. Awaits(tv, tt)
  <2>1. v - 1 = Len(tv) /\ l - 1 = Len(tt)
    BY <1>6, <1>7 DEF tv, tt
  <2>2. g \in [1..Len(tv) -> 1..Len(tt)]
    BY <1>9, <2>1
  <2>3. \A j, k \in 1..Len(tv) : j < k => g[j] < g[k]
    BY <1>10, <2>1
  <2>4. \A k \in 1..Len(tv) : Matches(tv[k], tt[g[k]])
    BY <1>11, <2>1
  <2>5. \A i \in 1..Len(tt) : tt[i] \in Closers => \E k \in 1..Len(tv) : g[k] = i
    BY <1>12, <2>1
  <2> QED BY <2>2, <2>3, <2>4, <2>5 DEF Awaits
<1> QED BY <1>5, <1>13 DEF tv, tt

-----------------------------------------------------------------------------
(* The inductive invariant.                                                  *)

Steps == Calls \cup Kinds

Keywords == {"fn", "struct", "import"}

\* What stands for a declaration that parse_program has entered and whose
\* keyword is not consumed yet.
Pending == Keywords \cup {"parse_function", "parse_struct", "parse_import"}

\* What the parser expects before the first bracket of a construct.
Leading == {"fn", "struct", "ident"}

Typed ==
  /\ todo \in Seq(Steps)
  /\ current \in Kinds
  /\ peeked \in Kinds \cup {None}
  /\ left \in 0..MaxTokens
  /\ had_error \in BOOLEAN
  /\ owed \in Int
  /\ open \in Seq(Brackets)

\* parse_program is left last, and only at the end of the file.
Bottom == IF todo = <<>> THEN current = "eof" ELSE todo[Len(todo)] = "parse_program"

\* A declaration is owed only from parse_program to its own keyword.
Owing ==
  /\ \A i \in 2..Len(todo) : todo[i] \notin Pending
  /\ owed = IF Top \in Pending THEN -1 ELSE 0

\* An opening bracket that is expected is expected at once.
OpensFirst ==
  \A i, j \in 1..Len(todo) : todo[i] \in Openers /\ j < i => todo[j] \in Leading

\* The closing brackets awaited are those of the brackets consumed, and of
\* the one that is about to be.
Closed ==
  /\ (\A i \in 1..Len(todo) : todo[i] \notin Openers) => Awaits(open, todo)
  /\ \A i \in 1..Len(todo) : todo[i] \in Openers => Awaits(<<todo[i]>> \o open, todo)

Clean ==
  /\ \A i \in 1..Len(todo) : todo[i] # "synchronize"
  /\ Owing
  /\ OpensFirst
  /\ Closed

Inv == Typed /\ Bottom /\ (~had_error => Clean)

\* Brackets, keywords and kinds of tokens, told apart.
LEMMA KindsAre ==
  /\ "eof" \in Kinds /\ Brackets \subseteq Kinds /\ None \notin Steps
  /\ Keywords \subseteq Kinds /\ Leading \subseteq Kinds /\ Kinds \subseteq Steps
  /\ Leading \cap Brackets = {} /\ Pending \cap Brackets = {} /\ Openers \cap Closers = {}
<1>1. "eof" \in Kinds /\ Brackets \subseteq Kinds /\ Keywords \subseteq Kinds /\ Leading \subseteq Kinds
  BY DEF Kinds, Types, Brackets, Keywords, Leading
<1>2. None \notin Steps
  BY DEF Kinds, Types, Literals, Prefixes, Binaries, Assignments, Openers, Closers, None,
         Steps, Calls
<1>3. Leading \cap Brackets = {} /\ Pending \cap Brackets = {} /\ Openers \cap Closers = {}
  BY DEF Openers, Closers, Brackets, Keywords, Leading, Pending
<1> QED BY <1>1, <1>2, <1>3 DEF Steps

\* No call is a token kind.
LEMMA CallsAre == Calls \cap Kinds = {}
  BY DEF Kinds, Types, Literals, Prefixes, Binaries, Assignments, Openers, Closers, Calls

\* The top of a call stack that is not empty.
LEMMA TopIs ==
  ASSUME Typed, Top # None
  PROVE  todo # <<>> /\ todo[1] = Top /\ 1 \in 1..Len(todo) /\ Len(todo) \in Nat \ {0}
<1>1. todo # <<>> /\ todo \in Seq(Steps)
  BY DEF Top, Typed
<1> QED BY <1>1 DEF Top

\* Consuming a token hands out a token.
LEMMA AdvanceType ==
  ASSUME Typed, advance
  PROVE  current' \in Kinds /\ peeked' \in Kinds \cup {None} /\ left' \in 0..MaxTokens
<1>1. CASE peeked # None /\ current' = peeked /\ UNCHANGED left
  BY <1>1 DEF Typed, advance
<1>2. CASE peeked = None /\ NextToken(current', left')
  <2>1. \/ current' = "eof" /\ left' = 0
        \/ left > 0 /\ current' \in Source /\ left' = left - 1
    BY <1>2 DEF NextToken
  <2> QED BY <2>1, KindsAre, ParserAssumption DEF Typed, advance
<1> QED BY <1>1, <1>2 DEF advance

\* What advance makes of the open brackets, case by case.
LEMMA ConsumedIs ==
  ASSUME Typed
  PROVE  /\ Consumed \in Seq(Brackets)
         /\ current \notin Brackets => Consumed = open
         /\ current \in Openers => Consumed = <<current>> \o open
         /\ current \in Closers /\ open # <<>> /\ Matches(open[1], current) => Consumed = Tail(open)
<1>1. open \in Seq(Brackets)
  BY DEF Typed
<1>2. open # <<>> => Tail(open) \in Seq(Brackets)
  BY <1>1
<1>3. current \in Brackets => <<current>> \o open \in Seq(Brackets)
  BY <1>1
<1> QED BY <1>1, <1>2, <1>3, KindsAre DEF Consumed, Brackets

\* Steps that are strings leave a call stack, and parse_program at its end.
LEMMA SplicedType ==
  ASSUME Typed, Bottom, todo # <<>>, NEW steps \in Seq(Steps),
         Top # "parse_program" \/ (steps # <<>> /\ steps[Len(steps)] = "parse_program")
  PROVE  /\ steps \o Tail(todo) \in Seq(Steps)
         /\ steps \o Tail(todo) # <<>>
         /\ (steps \o Tail(todo))[Len(steps \o Tail(todo))] = "parse_program"
<1> DEFINE m == Len(steps)
           l == Len(todo)
           new == steps \o Tail(todo)
<1>1. todo \in Seq(Steps) /\ m \in Nat /\ l \in Nat \ {0} /\ todo[1] = Top
  BY DEF Typed, Top
<1>2. /\ new \in Seq(Steps) /\ Len(new) = m + l - 1
      /\ \A i \in 1..m : new[i] = steps[i]
      /\ \A i \in 2..l : new[m + i - 1] = todo[i]
  BY <1>1, SplicedIs
<1>3. todo[l] = "parse_program"
  BY DEF Bottom
<1>4. CASE l = 1
  <2>1. steps # <<>> /\ steps[m] = "parse_program"
    BY <1>1, <1>3, <1>4
  <2>2. m # 0
    BY <2>1
  <2> HIDE DEF m, l, new
  <2>3. m \in 1..m /\ Len(new) = m
    BY <1>1, <1>2, <1>4, <2>2
  <2>4. new[Len(new)] = "parse_program"
    BY <1>2, <2>1, <2>3
  <2>5. Len(new) # 0
    BY <1>1, <2>2, <2>3
  <2>6. new # <<>>
    BY <2>5
  <2> QED BY <1>2, <2>4, <2>6 DEF new
<1>5. CASE l # 1
  <2> HIDE DEF m, l, new
  <2>1. l \in 2..l /\ Len(new) \in Nat \ {0}
    BY <1>1, <1>2, <1>5
  <2>2. new[Len(new)] = "parse_program"
    BY <1>2, <1>3, <2>1
  <2>3. new # <<>>
    BY <2>1
  <2> QED BY <1>2, <2>2, <2>3 DEF new
<1> QED BY <1>4, <1>5

-----------------------------------------------------------------------------
(* What a step does to each part, as long as nothing is reported.            *)

NoSync == \A i \in 1..Len(todo) : todo[i] # "synchronize"

\* The first of the steps stands for a declaration if what it replaces did.
Heir(steps) ==
  IF steps = <<>> THEN Top \notin Pending ELSE steps[1] \in Pending <=> Top \in Pending

\* A keyword that is owed passes from a function to the first thing it calls.
LEMMA OwingKept ==
  ASSUME Typed, Owing, todo # <<>>, NEW steps \in Seq(Steps),
         \A i \in 2..Len(steps) : steps[i] \notin Pending, Heir(steps),
         todo' = steps \o Tail(todo), owed' = owed
  PROVE  Owing'
<1> DEFINE m == Len(steps)
           l == Len(todo)
           new == steps \o Tail(todo)
<1>1. todo \in Seq(Steps) /\ m \in Nat /\ l \in Nat \ {0} /\ todo[1] = Top
  BY DEF Typed, Top, Steps
<1>2. /\ new \in Seq(Steps) /\ Len(new) = m + l - 1
      /\ \A i \in 1..m : new[i] = steps[i]
      /\ \A i \in (m + 1)..(m + l - 1) : i - m + 1 \in 2..l /\ new[i] = todo[i - m + 1]
  BY <1>1, SplicedIs
<1>3. Top' = IF new = <<>> THEN None ELSE new[1]
  BY DEF Top
<1>4. None \notin Pending
  BY DEF None, Pending, Keywords
<1> HIDE DEF m, l, new
<1>5. ASSUME NEW i \in 2..Len(new) PROVE new[i] \notin Pending
  <2>1. CASE i <= m
    <3>1. i \in 2..m /\ i \in 1..m
      BY <1>1, <2>1
    <3> QED BY <1>2, <3>1 DEF m
  <2>2. CASE ~(i <= m)
    <3>1. i \in (m + 1)..(m + l - 1)
      BY <1>1, <1>2, <2>2
    <3> QED BY <1>2, <3>1 DEF Owing, l
  <2> QED BY <2>1, <2>2
<1>6. Top' \in Pending <=> Top \in Pending
  <2>1. CASE steps = <<>>
    <3>1. Top \notin Pending /\ m = 0
      BY <2>1 DEF Heir, m
    <3>2. new # <<>> => new[1] \notin Pending
      <4> SUFFICES ASSUME new # <<>> PROVE new[1] \notin Pending
        OBVIOUS
      <4>1. Len(new) \in Nat \ {0}
        BY <1>2
      <4>2. 1 \in (m + 1)..(m + l - 1)
        BY <1>1, <1>2, <3>1, <4>1
      <4>3. new[1] = todo[1 - m + 1] /\ 1 - m + 1 \in 2..l
        BY <1>2, <4>2
      <4> QED BY <4>3 DEF Owing, l
    <3> QED BY <1>3, <1>4, <3>1, <3>2
  <2>2. CASE steps # <<>>
    <3>1. 1 \in 1..m
      BY <1>1, <2>2 DEF m
    <3>2. new[1] = steps[1]
      BY <1>2, <3>1
    <3>3. Len(new) # 0
      BY <1>1, <1>2, <3>1
    <3>4. new # <<>>
      BY <3>3
    <3> QED BY <1>3, <2>2, <3>2, <3>4 DEF Heir
  <2> QED BY <2>1, <2>2
<1>7. \A i \in 2..Len(todo') : todo'[i] \notin Pending
  BY <1>5 DEF new
<1>8. owed' = IF Top' \in Pending THEN -1 ELSE 0
  BY <1>6 DEF Owing
<1> QED BY <1>7, <1>8 DEF Owing

\* Before a call nothing is expected that opens.
LEMMA NothingOpens ==
  ASSUME Typed, Clean, todo # <<>>, Top \notin Leading \cup Openers
  PROVE  /\ \A i \in 1..Len(todo) : todo[i] \notin Openers
         /\ Awaits(open, todo)
<1>1. 1 \in 1..Len(todo) /\ todo[1] = Top /\ Len(todo) \in Nat
  BY DEF Typed, Top
<1>2. ASSUME NEW i \in 1..Len(todo), todo[i] \in Openers PROVE FALSE
  <2>1. i = 1 \/ 1 < i
    BY <1>1
  <2> QED BY <1>1, <1>2, <2>1 DEF Clean, OpensFirst
<1> QED BY <1>2 DEF Clean, Closed

\* Steps without brackets.
LEMMA QuietKept ==
  ASSUME Typed, Clean, todo # <<>>, Top \notin Kinds, NEW steps \in Seq(Steps),
         \A i \in 1..Len(steps) : steps[i] \notin Brackets \cup {"synchronize"},
         todo' = steps \o Tail(todo), open' = open
  PROVE  NoSync' /\ OpensFirst' /\ Closed'
<1> DEFINE m == Len(steps)
           l == Len(todo)
           new == steps \o Tail(todo)
<1>1. todo \in Seq(Steps) /\ m \in Nat /\ l \in Nat \ {0} /\ todo[1] = Top
  BY DEF Typed, Top, Steps
<1>2. /\ new \in Seq(Steps) /\ Len(new) = m + l - 1
      /\ \A i \in 1..m : new[i] = steps[i]
      /\ \A i \in (m + 1)..(m + l - 1) : i - m + 1 \in 2..l /\ new[i] = todo[i - m + 1]
  BY <1>1, SplicedIs
<1>3. (\A i \in 1..l : todo[i] \notin Openers) /\ Awaits(open, todo)
  BY KindsAre, NothingOpens DEF Brackets
<1>4. Awaits(open, new)
  <2>1. todo[1] \notin Closers /\ \A i \in 1..m : steps[i] \notin Closers
    BY <1>1, KindsAre DEF Brackets
  <2>2. Len(open) \in Nat
    BY DEF Typed
  <2> QED BY <1>1, <1>3, <2>1, <2>2, AwaitsSame
<1> HIDE DEF m, l, new
<1>5. ASSUME NEW i \in 1..Len(new) PROVE new[i] # "synchronize" /\ new[i] \notin Openers
  <2>1. CASE i <= m
    <3>1. i \in 1..m
      BY <1>1, <2>1
    <3> QED BY <1>2, <3>1 DEF m, Brackets
  <2>2. CASE ~(i <= m)
    <3>1. i \in (m + 1)..(m + l - 1)
      BY <1>1, <1>2, <2>2
    <3>2. i - m + 1 \in 1..l /\ new[i] = todo[i - m + 1]
      BY <1>1, <1>2, <3>1
    <3> QED BY <1>3, <3>2 DEF Clean, l
  <2> QED BY <2>1, <2>2
<1>6. todo' = new
  BY DEF new
<1> QED BY <1>4, <1>5, <1>6 DEF NoSync, OpensFirst, Closed

\* Steps that close the bracket just consumed.
LEMMA TakenKept ==
  ASSUME Typed, Clean, todo # <<>>, Top \notin Kinds, NEW steps \in Seq(Steps),
         NEW o, NEW q \in 1..Len(steps), Matches(o, steps[q]),
         \A i \in 1..Len(steps) : steps[i] # "synchronize" /\ (i # q => steps[i] \notin Brackets),
         todo' = steps \o Tail(todo), open' = <<o>> \o open
  PROVE  NoSync' /\ OpensFirst' /\ Closed'
<1> DEFINE m == Len(steps)
           l == Len(todo)
           new == steps \o Tail(todo)
<1>1. todo \in Seq(Steps) /\ m \in Nat /\ l \in Nat \ {0} /\ todo[1] = Top
  BY DEF Typed, Top, Steps
<1>2. /\ new \in Seq(Steps) /\ Len(new) = m + l - 1
      /\ \A i \in 1..m : new[i] = steps[i]
      /\ \A i \in (m + 1)..(m + l - 1) : i - m + 1 \in 2..l /\ new[i] = todo[i - m + 1]
  BY <1>1, SplicedIs
<1>3. (\A i \in 1..l : todo[i] \notin Openers) /\ Awaits(open, todo)
  BY KindsAre, NothingOpens DEF Brackets
<1>4. Awaits(<<o>> \o open, new)
  <2>1. todo[1] \notin Closers /\ \A i \in 1..m : steps[i] \in Closers => i = q
    BY <1>1, KindsAre DEF Brackets
  <2>2. open \in Seq(Brackets)
    BY DEF Typed
  <2> QED BY <1>1, <1>3, <2>1, <2>2, AwaitsMore
<1> HIDE DEF m, l, new
<1>5. ASSUME NEW i \in 1..Len(new) PROVE new[i] # "synchronize" /\ new[i] \notin Openers
  <2>1. CASE i <= m
    <3>1. i \in 1..m
      BY <1>1, <2>1
    <3> QED BY <1>2, <3>1, MatchesIs DEF m, Brackets
  <2>2. CASE ~(i <= m)
    <3>1. i \in (m + 1)..(m + l - 1)
      BY <1>1, <1>2, <2>2
    <3>2. i - m + 1 \in 1..l /\ new[i] = todo[i - m + 1]
      BY <1>1, <1>2, <3>1
    <3> QED BY <1>3, <3>2 DEF Clean, l
  <2> QED BY <2>1, <2>2
<1>6. todo' = new
  BY DEF new
<1> QED BY <1>4, <1>5, <1>6 DEF NoSync, OpensFirst, Closed

\* Steps that expect a bracket and what closes it.
LEMMA OpeningKept ==
  ASSUME Typed, Clean, todo # <<>>, Top \notin Kinds, NEW steps \in Seq(Steps),
         NEW o \in 1..Len(steps), NEW q \in 1..Len(steps), Matches(steps[o], steps[q]),
         \A i \in 1..Len(steps) : /\ steps[i] # "synchronize"
                                  /\ i \notin {o, q} => steps[i] \notin Brackets
                                  /\ i < o => steps[i] \in Leading,
         todo' = steps \o Tail(todo), open' = open
  PROVE  NoSync' /\ OpensFirst' /\ Closed'
<1> DEFINE m == Len(steps)
           l == Len(todo)
           new == steps \o Tail(todo)
<1>1. todo \in Seq(Steps) /\ m \in Nat /\ l \in Nat \ {0} /\ todo[1] = Top
  BY DEF Typed, Top, Steps
<1>2. /\ new \in Seq(Steps) /\ Len(new) = m + l - 1
      /\ \A i \in 1..m : new[i] = steps[i]
      /\ \A i \in (m + 1)..(m + l - 1) : i - m + 1 \in 2..l /\ new[i] = todo[i - m + 1]
  BY <1>1, SplicedIs, SMTT(30)
<1>3. (\A i \in 1..l : todo[i] \notin Openers) /\ Awaits(open, todo)
  BY KindsAre, NothingOpens DEF Brackets
<1>4. steps[o] \in Openers /\ steps[q] \in Closers /\ steps[q] \notin Openers /\ steps[o] \notin Closers
  BY MatchesIs, KindsAre
<1>5. Awaits(<<steps[o]>> \o open, new)
  <2>1. todo[1] \notin Closers /\ \A i \in 1..m : steps[i] \in Closers => i = q
    BY <1>1, <1>4, KindsAre DEF Brackets
  <2>2. open \in Seq(Brackets)
    BY DEF Typed
  <2> QED BY <1>1, <1>3, <2>1, <2>2, AwaitsMore
<1> HIDE DEF m, l, new
<1>6. ASSUME NEW i \in 1..Len(new)
      PROVE  new[i] # "synchronize" /\ (new[i] \in Openers => i = o)
  <2>1. CASE i <= m
    <3>1. i \in 1..m
      BY <1>1, <2>1
    <3> QED BY <1>2, <1>4, <3>1 DEF m, Brackets
  <2>2. CASE ~(i <= m)
    <3>1. i \in (m + 1)..(m + l - 1)
      BY <1>1, <1>2, <2>2
    <3>2. i - m + 1 \in 1..l /\ new[i] = todo[i - m + 1]
      BY <1>1, <1>2, <3>1
    <3> QED BY <1>3, <3>2 DEF Clean, l
  <2> QED BY <2>1, <2>2
<1>7. todo' = new /\ o \in 1..m /\ o \in 1..Len(new) /\ new[o] = steps[o]
  <2>1. o \in 1..m
    BY DEF m
  <2>2. o \in 1..Len(new)
    BY <1>1, <1>2, <2>1
  <2> QED BY <1>2, <2>1, <2>2 DEF new
<1>8. ASSUME NEW i \in 1..Len(new), NEW j \in 1..Len(new), new[i] \in Openers, j < i
      PROVE  new[j] \in Leading
  <2>1. i = o
    BY <1>6, <1>8
  <2>2. j \in 1..m /\ j < o
    BY <1>1, <1>7, <1>8, <2>1
  <2> QED BY <1>2, <2>2 DEF m
<1>9. NoSync'
  BY <1>6, <1>7 DEF NoSync
<1>10. OpensFirst'
  BY <1>7, <1>8 DEF OpensFirst
<1>11. Closed'
  BY <1>4, <1>5, <1>6, <1>7 DEF Closed
<1> QED BY <1>9, <1>10, <1>11

-----------------------------------------------------------------------------
(* The three things a parse function does, and expect.                       *)

\* Where parse_program stays at the end of the call stack.
Grounded(steps) ==
  Top # "parse_program" \/ (steps # <<>> /\ steps[Len(steps)] = "parse_program")

\* What the three kinds of step do to the call stack.
LEMMA Stepped ==
  ASSUME Typed, Bottom, todo # <<>>, NEW steps \in Seq(Steps), Grounded(steps),
         Go(steps) \/ Take(steps) \/ Report(steps)
  PROVE  Typed' /\ Bottom'
<1>1. todo' = steps \o Tail(todo)
  BY DEF Go, Take, Report
<1>2. todo' \in Seq(Steps) /\ Bottom'
  BY <1>1, SplicedType DEF Grounded, Bottom
<1>3. CASE Go(steps)
  BY <1>2, <1>3 DEF Go, Typed
<1>4. CASE Take(steps)
  <2>1. current' \in Kinds /\ peeked' \in Kinds \cup {None} /\ left' \in 0..MaxTokens
    BY <1>4, AdvanceType DEF Take
  <2>2. open' \in Seq(Brackets) /\ owed' \in Int /\ had_error' \in BOOLEAN
    BY <1>4, ConsumedIs DEF Take, Typed
  <2> QED BY <1>2, <2>1, <2>2 DEF Typed
<1>5. CASE Report(steps)
  BY <1>2, <1>5 DEF Report, Typed
<1> QED BY <1>2, <1>3, <1>4, <1>5

\* Clean, by its four parts.
LEMMA CleanIs == Clean <=> NoSync /\ Owing /\ OpensFirst /\ Closed
  BY DEF Clean, NoSync

\* A token that is neither a bracket nor a keyword leaves the histories.
LEMMA TakePlain ==
  ASSUME Typed, NEW steps, Take(steps), current \notin Brackets \cup Keywords
  PROVE  todo' = steps \o Tail(todo) /\ open' = open /\ owed' = owed /\ had_error' = had_error
  BY ConsumedIs DEF Take, Keyword, Keywords

Plainly(steps) == Go(steps) \/ (Take(steps) /\ current \notin Brackets \cup Keywords)

\* A step that touches neither brackets nor keywords.
LEMMA PlainlyIs ==
  ASSUME Typed, NEW steps, Plainly(steps)
  PROVE  /\ Go(steps) \/ Take(steps) \/ Report(steps)
         /\ todo' = steps \o Tail(todo) /\ open' = open /\ owed' = owed
         /\ had_error' = had_error
<1>1. CASE Go(steps)
  BY <1>1 DEF Go
<1>2. CASE Take(steps) /\ current \notin Brackets \cup Keywords
  BY <1>2, TakePlain
<1> QED BY <1>1, <1>2 DEF Plainly

\* A call that goes on without brackets.
LEMMA Quietly ==
  ASSUME Inv, Top \in Calls \ {"parse_program"}, NEW steps \in Seq(Steps),
         \A i \in 1..Len(steps) : steps[i] \notin Brackets \cup {"synchronize"},
         \A i \in 2..Len(steps) : steps[i] \notin Pending, Heir(steps),
         Plainly(steps)
  PROVE  Inv'
<1>1. todo # <<>> /\ Top \notin Kinds /\ Grounded(steps)
  BY CallsAre, KindsAre DEF Top, Grounded, Steps
<1>2. todo' = steps \o Tail(todo) /\ open' = open /\ owed' = owed /\ had_error' = had_error
      /\ (Go(steps) \/ Take(steps) \/ Report(steps))
  BY PlainlyIs DEF Inv
<1>3. Typed' /\ Bottom'
  BY <1>1, <1>2, Stepped DEF Inv
<1>4. ASSUME ~had_error' PROVE Clean'
  <2>1. Clean /\ Owing
    BY <1>2, <1>4 DEF Inv, Clean
  <2>2. NoSync' /\ OpensFirst' /\ Closed'
    BY <1>1, <1>2, <2>1, QuietKept DEF Inv
  <2>3. Owing'
    BY <1>1, <1>2, <2>1, OwingKept DEF Inv
  <2> QED BY <2>2, <2>3 DEF Clean, NoSync
<1> QED BY <1>3, <1>4 DEF Inv

\* A call that consumes an opening bracket and awaits the closing one.
LEMMA Taking ==
  ASSUME Inv, Top \in Calls \ (Pending \cup {"parse_program"}), current \in Openers,
         NEW steps \in Seq(Steps), NEW q \in 1..Len(steps), Matches(current, steps[q]),
         \A i \in 1..Len(steps) : /\ steps[i] \notin Pending \cup {"synchronize"}
                                  /\ i # q => steps[i] \notin Brackets,
         Take(steps)
  PROVE  Inv'
<1>1. todo # <<>> /\ Top \notin Kinds /\ Grounded(steps)
  BY CallsAre, KindsAre DEF Top, Grounded, Steps
<1>2. current \notin Keywords
  BY KindsAre DEF Pending, Brackets
<1>3. todo' = steps \o Tail(todo) /\ owed' = owed /\ had_error' = had_error
      /\ (~had_error => open' = <<current>> \o open)
  BY <1>2, ConsumedIs DEF Take, Keyword, Keywords, Inv
<1>4. Typed' /\ Bottom'
  BY <1>1, Stepped DEF Inv
<1>5. ASSUME ~had_error' PROVE Clean'
  <2>1. Clean /\ Owing
    BY <1>3, <1>5 DEF Inv, Clean
  <2>2. NoSync' /\ OpensFirst' /\ Closed'
    BY <1>1, <1>3, <1>5, <2>1, TakenKept DEF Inv
  <2>3. Heir(steps)
    <3>1. steps # <<>> => 1 \in 1..Len(steps)
      OBVIOUS
    <3> QED BY <3>1 DEF Heir
  <2>4. \A i \in 2..Len(steps) : steps[i] \notin Pending
    OBVIOUS
  <2>5. Owing'
    BY <1>1, <1>3, <2>1, <2>3, <2>4, OwingKept DEF Inv
  <2> QED BY <2>2, <2>5 DEF Clean, NoSync
<1> QED BY <1>4, <1>5 DEF Inv

\* A call that will expect a bracket and then what closes it.
LEMMA Opening ==
  ASSUME Inv, Top \in Calls \ {"parse_program"}, NEW steps \in Seq(Steps),
         NEW o \in 1..Len(steps), NEW q \in 1..Len(steps), Matches(steps[o], steps[q]),
         \A i \in 1..Len(steps) : /\ steps[i] # "synchronize"
                                  /\ i \notin {o, q} => steps[i] \notin Brackets
                                  /\ i < o => steps[i] \in Leading,
         \A i \in 2..Len(steps) : steps[i] \notin Pending, Heir(steps),
         Plainly(steps)
  PROVE  Inv'
<1>1. todo # <<>> /\ Top \notin Kinds /\ Grounded(steps)
  BY CallsAre, KindsAre DEF Top, Grounded, Steps
<1>2. todo' = steps \o Tail(todo) /\ open' = open /\ owed' = owed /\ had_error' = had_error
      /\ (Go(steps) \/ Take(steps) \/ Report(steps))
  BY PlainlyIs DEF Inv
<1>3. Typed' /\ Bottom'
  BY <1>1, <1>2, Stepped DEF Inv
<1>4. ASSUME ~had_error' PROVE Clean'
  <2>1. Clean /\ Owing
    BY <1>2, <1>4 DEF Inv, Clean
  <2>2. NoSync' /\ OpensFirst' /\ Closed'
    BY <1>1, <1>2, <2>1, OpeningKept DEF Inv
  <2>3. Owing'
    BY <1>1, <1>2, <2>1, OwingKept DEF Inv
  <2> QED BY <2>2, <2>3 DEF Clean, NoSync
<1> QED BY <1>3, <1>4 DEF Inv

\* After a report only the types and the end of the call stack matter.
LEMMA Reporting ==
  ASSUME Inv, todo # <<>>, NEW steps \in Seq(Steps), Grounded(steps), Report(steps)
  PROVE  Inv'
<1>1. Typed' /\ Bottom'
  BY Stepped DEF Inv
<1>2. had_error'
  BY DEF Report
<1> QED BY <1>1, <1>2 DEF Inv

\* expect consumes what was expected.
LEMMA Expecting ==
  ASSUME Inv, Top \in Kinds, current = Top, Take(<<>>)
  PROVE  Inv'
<1> DEFINE l == Len(todo)
           rest == Tail(todo)
<1>1. todo # <<>> /\ Grounded(<<>>) /\ todo \in Seq(Steps) /\ l \in Nat \ {0} /\ todo[1] = Top
      /\ 1 \in 1..l
  <2>1. todo # <<>> /\ todo \in Seq(Steps)
    BY KindsAre DEF Top, Inv, Typed, Steps
  <2>2. "parse_program" \notin Kinds
    BY CallsAre DEF Calls
  <2> QED BY <2>1, <2>2 DEF Top, Grounded
<1>2. Typed' /\ Bottom' /\ todo' = rest /\ had_error' = had_error
  <2>1. <<>> \in Seq(Steps) /\ <<>> \o rest = rest
    BY <1>1
  <2> QED BY <1>1, <2>1, Stepped DEF Inv, Take
<1>3. rest \in Seq(Steps) /\ Len(rest) = l - 1
      /\ \A i \in 1..(l - 1) : i + 1 \in 2..l /\ rest[i] = todo[i + 1]
  BY <1>1, HeadTailProperties
<1> SUFFICES ASSUME ~had_error, Clean PROVE Clean'
  BY <1>2 DEF Inv
<1>4. open' = Consumed /\ owed' = IF Top \in Keywords THEN owed + 1 ELSE owed
  BY DEF Take, Keyword, Keywords
<1> HIDE DEF l, rest
<1>5. NoSync'
  <2>1. \A i \in 1..Len(rest) : rest[i] # "synchronize"
    BY <1>1, <1>3 DEF Clean, l
  <2> QED BY <1>2, <2>1 DEF NoSync
<1>6. Owing'
  <2>1. \A i \in 1..Len(rest) : rest[i] \notin Pending
    BY <1>1, <1>3 DEF Clean, Owing, l
  <2>2. Top' \notin Pending
    <3>1. rest # <<>> => 1 \in 1..Len(rest)
      BY <1>3
    <3>2. Top' = IF rest = <<>> THEN None ELSE rest[1]
      BY <1>2 DEF Top
    <3>3. None \notin Pending
      BY DEF None, Pending, Keywords
    <3> QED BY <2>1, <3>1, <3>2, <3>3
  <2>3. Top \in Pending <=> Top \in Keywords
    BY CallsAre DEF Pending, Calls
  <2>4. owed' = 0
    BY <1>4, <2>3 DEF Clean, Owing
  <2>5. \A i \in 2..Len(todo') : todo'[i] \notin Pending
    BY <1>2, <2>1
  <2> QED BY <2>2, <2>4, <2>5 DEF Owing
<1>7. OpensFirst'
  <2>1. ASSUME NEW i \in 1..Len(rest), NEW j \in 1..Len(rest), rest[i] \in Openers, j < i
        PROVE  rest[j] \in Leading
    <3>1. i + 1 \in 1..l /\ j + 1 \in 1..l /\ j + 1 < i + 1
      BY <1>1, <1>3, <2>1
    <3>2. rest[i] = todo[i + 1] /\ rest[j] = todo[j + 1]
      BY <1>3
    <3> QED BY <2>1, <3>1, <3>2 DEF Clean, OpensFirst, l
  <2> QED BY <1>2, <2>1 DEF OpensFirst
<1>8. <<>> \in Seq(Steps) /\ (\A i \in 1..Len(<<>>) : <<>>[i] \notin Closers)
      /\ <<>> \o Tail(todo) = rest
  BY <1>1, <1>3 DEF rest
<1>9. open \in Seq(Brackets) /\ Len(open) \in Nat
  BY DEF Inv, Typed
<1>10. Top \in Brackets => \A i \in 2..l : todo[i] \notin Openers
  <2> SUFFICES ASSUME Top \in Brackets, NEW i \in 2..l, todo[i] \in Openers PROVE FALSE
    OBVIOUS
  <2>1. i \in 1..l /\ 1 < i
    BY <1>1
  <2>2. Top \in Leading
    BY <1>1, <2>1 DEF Clean, OpensFirst, l
  <2> QED BY <2>2, KindsAre
<1>11. Closed'
  <2>1. CASE Top \in Openers
    <3>1. open' = <<Top>> \o open
      BY <1>4, <2>1, ConsumedIs DEF Inv
    <3>2. Awaits(<<Top>> \o open, todo)
      BY <1>1, <2>1 DEF Clean, Closed, l
    <3>3. todo[1] \notin Closers
      BY <1>1, <2>1, KindsAre
    <3>4. Len(<<Top>> \o open) \in Nat
      BY <1>9
    <3>5. Awaits(<<Top>> \o open, rest)
      BY <1>1, <1>8, <3>2, <3>3, <3>4, AwaitsSame
    <3>6. \A i \in 1..Len(rest) : rest[i] \notin Openers
      BY <1>1, <1>3, <1>10, <2>1 DEF Brackets
    <3> QED BY <1>2, <3>1, <3>5, <3>6 DEF Closed
  <2>2. CASE Top \in Closers
    <3>1. \A i \in 1..l : todo[i] \notin Openers
      <4>1. \A i \in 1..l : i = 1 \/ i \in 2..l
        BY <1>1
      <4> QED BY <1>1, <1>10, <2>2, <4>1, KindsAre DEF Brackets
    <3>2. Awaits(open, todo)
      BY <3>1 DEF Clean, Closed, l
    <3>3. open # <<>> /\ Matches(open[1], Top) /\ Awaits(Tail(open), rest)
      BY <1>1, <1>9, <2>2, <3>2, AwaitsLess DEF rest
    <3>4. open' = Tail(open)
      BY <1>4, <2>2, <3>3, ConsumedIs DEF Inv
    <3>5. \A i \in 1..Len(rest) : rest[i] \notin Openers
      BY <1>1, <1>3, <1>10, <2>2 DEF Brackets
    <3> QED BY <1>2, <3>3, <3>4, <3>5 DEF Closed
  <2>3. CASE Top \notin Brackets
    <3>1. open' = open /\ todo[1] \notin Closers /\ todo[1] \notin Openers
      BY <1>1, <1>4, <2>3, ConsumedIs DEF Inv, Brackets
    <3>2. ASSUME \A i \in 1..Len(rest) : rest[i] \notin Openers PROVE Awaits(open, rest)
      <4>1. ASSUME NEW i \in 1..l PROVE todo[i] \notin Openers
        <5>1. CASE i = 1
          BY <3>1, <5>1
        <5>2. CASE i # 1
          <6>1. i - 1 \in 1..(l - 1) /\ (i - 1) + 1 = i
            BY <1>1, <5>2
          <6> QED BY <1>3, <3>2, <6>1
        <5> QED BY <5>1, <5>2
      <4>2. Awaits(open, todo)
        BY <4>1 DEF Clean, Closed, l
      <4> QED BY <1>1, <1>8, <1>9, <3>1, <4>2, AwaitsSame
    <3>3. ASSUME NEW i \in 1..Len(rest), rest[i] \in Openers
          PROVE  Awaits(<<rest[i]>> \o open, rest)
      <4>1. i + 1 \in 1..l /\ rest[i] = todo[i + 1]
        BY <1>1, <1>3
      <4>2. Awaits(<<rest[i]>> \o open, todo)
        BY <3>3, <4>1 DEF Clean, Closed, l
      <4>3. Len(<<rest[i]>> \o open) \in Nat
        BY <1>9
      <4> QED BY <1>1, <1>8, <3>1, <4>2, <4>3, AwaitsSame
    <3> QED BY <1>2, <3>1, <3>2, <3>3 DEF Closed
  <2> QED BY <2>1, <2>2, <2>3 DEF Brackets
<1> QED BY <1>5, <1>6, <1>7, <1>11 DEF Clean, NoSync

-----------------------------------------------------------------------------
(* The parse functions, one by one.                                          *)

QuietSteps == Steps \ (Brackets \cup Pending \cup {"synchronize"})
QuietCalls == Calls \ (Pending \cup {"parse_program", "synchronize"})

\* The tokens that no bracket and no declaration begins or ends with.
PlainKinds ==
  Types \cup Literals \cup Prefixes \cup Binaries \cup Assignments
  \cup {"if", "else", "while", "for", "return", "break", "const", ";", ",", ".", "->"}

\* Plain kinds are neither brackets nor keywords.
LEMMA PlainAre == PlainKinds \cap (Brackets \cup Keywords) = {}
  BY DEF PlainKinds, Types, Literals, Prefixes, Binaries, Assignments, Brackets, Openers,
         Closers, Keywords

\* Quiet calls are steps that await no closing bracket.
LEMMA QuietAre ==
  /\ QuietCalls \subseteq QuietSteps
  /\ {"ident", ";", "->", "import"} \subseteq Steps
  /\ {"ident", ";", "->"} \subseteq QuietSteps
<1>1. Calls \cap Brackets = {}
  BY CallsAre, KindsAre
<1>2. {"ident", ";", "->", "import"} \subseteq Kinds
  BY DEF Kinds, Types
<1>3. {"ident", ";", "->"} \cap (Brackets \cup Pending \cup {"synchronize"}) = {}
  BY DEF Brackets, Openers, Closers, Pending, Keywords
<1> QED BY <1>1, <1>2, <1>3 DEF QuietSteps, QuietCalls, Steps

\* The parse functions that are quiet calls,
LEMMA QuietOnes ==
  /\ "parameters" \in QuietCalls /\ "more_parameters" \in QuietCalls /\ "fields" \in QuietCalls
  /\ "import_path" \in QuietCalls /\ "parse_block" \in QuietCalls /\ "statements" \in QuietCalls
  /\ "parse_stmt" \in QuietCalls /\ "else_part" \in QuietCalls /\ "return_value" \in QuietCalls
  /\ "parse_for" \in QuietCalls /\ "for_init" \in QuietCalls /\ "for_cond" \in QuietCalls
  /\ "for_step" \in QuietCalls /\ "parse_var_decl" \in QuietCalls /\ "initializer" \in QuietCalls
  /\ "parse_type" \in QuietCalls /\ "stars" \in QuietCalls /\ "parse_expr" \in QuietCalls
  /\ "assignment" \in QuietCalls /\ "parse_or" \in QuietCalls /\ "operators" \in QuietCalls
  /\ "parse_unary" \in QuietCalls /\ "parse_postfix" \in QuietCalls /\ "suffixes" \in QuietCalls
  /\ "arguments" \in QuietCalls /\ "more_arguments" \in QuietCalls /\ "parse_primary" \in QuietCalls
  BY DEF QuietCalls, Calls, Pending, Keywords

\* and the same as steps.
LEMMA QuietStepsAre ==
  /\ "parameters" \in QuietSteps /\ "more_parameters" \in QuietSteps /\ "fields" \in QuietSteps
  /\ "import_path" \in QuietSteps /\ "parse_block" \in QuietSteps /\ "statements" \in QuietSteps
  /\ "parse_stmt" \in QuietSteps /\ "else_part" \in QuietSteps /\ "return_value" \in QuietSteps
  /\ "parse_for" \in QuietSteps /\ "for_init" \in QuietSteps /\ "for_cond" \in QuietSteps
  /\ "for_step" \in QuietSteps /\ "parse_var_decl" \in QuietSteps /\ "initializer" \in QuietSteps
  /\ "parse_type" \in QuietSteps /\ "stars" \in QuietSteps /\ "parse_expr" \in QuietSteps
  /\ "assignment" \in QuietSteps /\ "parse_or" \in QuietSteps /\ "operators" \in QuietSteps
  /\ "parse_unary" \in QuietSteps /\ "parse_postfix" \in QuietSteps /\ "suffixes" \in QuietSteps
  /\ "arguments" \in QuietSteps /\ "more_arguments" \in QuietSteps /\ "parse_primary" \in QuietSteps
  /\ "ident" \in QuietSteps /\ ";" \in QuietSteps /\ "->" \in QuietSteps
<1>1. \A c \in QuietCalls : c \in QuietSteps
  BY QuietAre
<1>2. "ident" \in QuietSteps /\ ";" \in QuietSteps /\ "->" \in QuietSteps
  BY QuietAre
<1> QED BY <1>1, <1>2, QuietOnes

\* Short sequences.
LEMMA Tuples ==
  ASSUME NEW S
  PROVE  /\ <<>> \in Seq(S)
         /\ \A a \in S : <<a>> \in Seq(S)
         /\ \A a, b \in S : <<a, b>> \in Seq(S)
         /\ \A a, b, c \in S : <<a, b, c>> \in Seq(S)
         /\ \A a, b, c, d \in S : <<a, b, c, d>> \in Seq(S)
  OBVIOUS

\* Longer ones, as calls that expect brackets go on with.
LEMMA LongTuples ==
  ASSUME NEW S
  PROVE  /\ \A a, b, c, d, e \in S : <<a, b, c, d, e>> \in Seq(S)
         /\ \A a, b, c, d, e, f \in S : <<a, b, c, d, e, f>> \in Seq(S)
         /\ \A a, b, c, d, e, f, g \in S : <<a, b, c, d, e, f, g>> \in Seq(S)
         /\ \A a, b, c, d, e, f, g, h \in S : <<a, b, c, d, e, f, g, h>> \in Seq(S)
  OBVIOUS

\* The steps of such a call.
LEMMA StepsAre ==
  /\ "(" \in Steps /\ ")" \in Steps /\ "{" \in Steps /\ "}" \in Steps
  /\ "fn" \in Steps /\ "struct" \in Steps /\ "import" \in Steps
  /\ \A a \in QuietSteps : a \in Steps
<1>1. "(" \in Steps /\ ")" \in Steps /\ "{" \in Steps /\ "}" \in Steps
  BY DEF Steps, Kinds, Openers, Closers
<1>2. "fn" \in Steps /\ "struct" \in Steps /\ "import" \in Steps
  BY DEF Steps, Kinds
<1> QED BY <1>1, <1>2 DEF QuietSteps

\* Most of what the parse functions do: no step is a bracket or stands for a
\* declaration, and neither does the token.
LEMMA Calmly ==
  ASSUME Inv, Top \in QuietCalls, NEW steps \in Seq(QuietSteps),
         Go(steps) \/ (Take(steps) /\ current \in PlainKinds)
  PROVE  Inv'
<1>1. Top \in Calls \ {"parse_program"} /\ Top \notin Pending
  BY DEF QuietCalls
<1>2. QuietSteps \subseteq Steps
  BY DEF QuietSteps
<1>3. steps \in Seq(Steps)
  BY <1>2, SeqMonotonic
<1>4. \A i \in 1..Len(steps) : steps[i] \in QuietSteps
  OBVIOUS
<1>5. \A i \in 1..Len(steps) : steps[i] \notin Brackets \cup {"synchronize"}
  BY <1>4 DEF QuietSteps
<1>6. \A i \in 1..Len(steps) : steps[i] \notin Pending
  BY <1>4 DEF QuietSteps
<1>7. Heir(steps)
  <2>1. steps # <<>> => 1 \in 1..Len(steps)
    OBVIOUS
  <2> QED BY <1>1, <1>6, <2>1 DEF Heir
<1>8. \A i \in 2..Len(steps) : steps[i] \notin Pending
  BY <1>6
<1>9. Plainly(steps)
  BY PlainAre DEF Plainly
<1> QED BY <1>1, <1>3, <1>5, <1>7, <1>8, <1>9, Quietly

\* What Reporting needs of a call that is not parse_program.
LEMMA Complaining ==
  ASSUME Inv, Top \in Steps \ {"parse_program"}, Report(<<>>)
  PROVE  Inv'
<1>1. todo # <<>>
  BY KindsAre DEF Top
<1>2. Grounded(<<>>) /\ <<>> \in Seq(Steps)
  BY Tuples DEF Grounded
<1> QED BY <1>1, <1>2, Reporting

\* A call that consumes an opening bracket: what follows it, the closing
\* bracket, and what may follow that.
LEMMA TakingPair ==
  ASSUME Inv, Top \in QuietCalls, NEW a \in QuietSteps, NEW b, Matches(current, b),
         Take(<<a, b>>)
  PROVE  Inv'
<1> DEFINE steps == <<a, b>>
<1>1. b \in Closers /\ b \in Brackets /\ current \in Openers
  BY MatchesIs DEF Brackets
<1>2. a \in Steps /\ b \in Steps /\ b \notin Pending /\ b # "synchronize"
  <2>1. "synchronize" \notin Kinds
    BY CallsAre DEF Calls
  <2> QED BY <1>1, <2>1, KindsAre DEF QuietSteps
<1>3. steps \in Seq(Steps) /\ Len(steps) = 2 /\ steps[1] = a /\ steps[2] = b
  BY <1>2
<1>4. Top \in Calls \ (Pending \cup {"parse_program"}) /\ 2 \in 1..Len(steps)
  BY <1>3 DEF QuietCalls
<1>5. \A i \in 1..Len(steps) : /\ steps[i] \notin Pending \cup {"synchronize"}
                               /\ i # 2 => steps[i] \notin Brackets
  <2> HIDE DEF steps
  <2>1. \A i \in 1..2 : i = 1 \/ i = 2
    OBVIOUS
  <2> QED BY <1>2, <1>3, <2>1 DEF QuietSteps
<1> HIDE DEF steps
<1> QED BY <1>1, <1>3, <1>4, <1>5, Taking DEF steps

\* An opening bracket, what is inside, its closing one, and what follows.
LEMMA TakingTriple ==
  ASSUME Inv, Top \in QuietCalls, NEW a \in QuietSteps, NEW b, Matches(current, b),
         NEW c \in QuietSteps, Take(<<a, b, c>>)
  PROVE  Inv'
<1> DEFINE steps == <<a, b, c>>
<1>1. b \in Closers /\ b \in Brackets /\ current \in Openers
  BY MatchesIs DEF Brackets
<1>2. a \in Steps /\ b \in Steps /\ c \in Steps /\ b \notin Pending /\ b # "synchronize"
  <2>1. "synchronize" \notin Kinds
    BY CallsAre DEF Calls
  <2> QED BY <1>1, <2>1, KindsAre DEF QuietSteps
<1>3. steps \in Seq(Steps) /\ Len(steps) = 3 /\ steps[1] = a /\ steps[2] = b /\ steps[3] = c
  BY <1>2
<1>4. Top \in Calls \ (Pending \cup {"parse_program"}) /\ 2 \in 1..Len(steps)
  BY <1>3 DEF QuietCalls
<1>5. \A i \in 1..Len(steps) : /\ steps[i] \notin Pending \cup {"synchronize"}
                               /\ i # 2 => steps[i] \notin Brackets
  <2> HIDE DEF steps
  <2>1. \A i \in 1..3 : i = 1 \/ i = 2 \/ i = 3
    OBVIOUS
  <2> QED BY <1>2, <1>3, <2>1 DEF QuietSteps
<1> HIDE DEF steps
<1> QED BY <1>1, <1>3, <1>4, <1>5, Taking DEF steps

\* expect keeps the invariant: a token is taken or an error reported.
LEMMA ExpectKept ==
  ASSUME Inv, expect
  PROVE  Inv'
<1>1. CASE current = Top /\ Take(<<>>)
  BY <1>1, Expecting DEF expect
<1>2. CASE current # Top /\ Report(<<>>)
  <2>1. Top \in Steps \ {"parse_program"}
    BY CallsAre DEF expect, Steps, Calls
  <2> QED BY <1>2, <2>1, Complaining
<1> QED BY <1>1, <1>2 DEF expect

\* parse_type keeps it, stars included.
LEMMA TypeKept ==
  ASSUME Inv, parse_type
  PROVE  Inv'
<1>1. <<"stars">> \in Seq(QuietSteps) /\ <<>> \in Seq(QuietSteps)
  BY QuietStepsAre, Tuples
<1>2. Top \in QuietCalls /\ Top \in Steps \ {"parse_program"}
  BY QuietOnes DEF parse_type, QuietCalls, Steps
<1>3. Types \subseteq PlainKinds /\ "*" \in PlainKinds
  BY DEF PlainKinds, Prefixes
<1> QED BY <1>1, <1>2, <1>3, Calmly, Complaining DEF parse_type

\* An error in parse_primary consumes the token.
LEMMA PrimaryKept ==
  ASSUME Inv, parse_primary
  PROVE  Inv'
<1>1. Top \in QuietCalls /\ Top # "parse_program"
  BY QuietOnes DEF parse_primary
<1>2. CASE current \in Literals \cup {"ident"} /\ Take(<<>>)
  BY <1>1, <1>2, Calmly, Tuples DEF PlainKinds, Types
<1>3. CASE current = "(" /\ Take(<<"parse_expr", ")">>)
  <2>1. Matches(current, ")")
    BY <1>3 DEF Matches
  <2> QED BY <1>1, <1>3, <2>1, TakingPair, QuietStepsAre
<1>4. CASE todo' = Tail(todo) /\ advance /\ had_error' = TRUE /\ owed' = 0 /\ open' = <<>>
  <2>1. todo # <<>> /\ <<>> \in Seq(Steps) /\ todo \in Seq(Steps)
    BY Tuples DEF parse_primary, Top, None, Inv, Typed, Steps
  <2>2. <<>> \o Tail(todo) = Tail(todo)
    BY <2>1
  <2>3. todo' \in Seq(Steps) /\ Bottom'
    BY <1>1, <1>4, <2>1, <2>2, SplicedType DEF Inv, Bottom
  <2>4. current' \in Kinds /\ peeked' \in Kinds \cup {None} /\ left' \in 0..MaxTokens
    BY <1>4, AdvanceType DEF Inv
  <2>5. Typed'
    BY <1>4, <2>3, <2>4, Tuples DEF Typed
  <2> QED BY <1>4, <2>3, <2>5 DEF Inv
<1> QED BY <1>2, <1>3, <1>4 DEF parse_primary

\* parse_postfix: calls and subscripts await their closing brackets.
LEMMA PostfixKept ==
  ASSUME Inv, parse_postfix
  PROVE  Inv'
<1>1. Top \in QuietCalls
  BY QuietOnes DEF parse_postfix
<1>2. CASE current = "(" /\ Take(<<"arguments", ")", "suffixes">>)
  <2>1. Matches(current, ")")
    BY <1>2 DEF Matches
  <2> QED BY <1>1, <1>2, <2>1, TakingTriple, QuietStepsAre
<1>3. CASE current = "[" /\ Take(<<"parse_expr", "]", "suffixes">>)
  <2>1. Matches(current, "]")
    BY <1>3 DEF Matches
  <2> QED BY <1>1, <1>3, <2>1, TakingTriple, QuietStepsAre
<1>4. /\ <<"parse_primary", "suffixes">> \in Seq(QuietSteps)
      /\ <<"ident", "suffixes">> \in Seq(QuietSteps)
      /\ <<"suffixes">> \in Seq(QuietSteps) /\ <<>> \in Seq(QuietSteps)
      /\ <<"parse_expr", "more_arguments">> \in Seq(QuietSteps)
  BY QuietStepsAre, Tuples
<1>5. {".", "->", "++", ","} \subseteq PlainKinds
  BY DEF PlainKinds, Prefixes
<1> QED BY <1>1, <1>2, <1>3, <1>4, <1>5, Calmly DEF parse_postfix

\* parse_unary: prefixes, and whatever else begins an operand.
LEMMA UnaryKept ==
  ASSUME Inv, parse_unary
  PROVE  Inv'
<1>1. Top \in QuietCalls
  BY QuietOnes DEF parse_unary
<1>2. <<"parse_unary">> \in Seq(QuietSteps) /\ <<"parse_postfix">> \in Seq(QuietSteps)
  BY QuietStepsAre, Tuples
<1>3. Prefixes \subseteq PlainKinds
  BY DEF PlainKinds
<1> QED BY <1>1, <1>2, <1>3, Calmly DEF parse_unary

\* parse_or, the chain of binary operators.
LEMMA OrKept ==
  ASSUME Inv, parse_or
  PROVE  Inv'
<1>1. Top \in QuietCalls
  BY QuietOnes DEF parse_or
<1>2. <<"parse_unary", "operators">> \in Seq(QuietSteps) /\ <<>> \in Seq(QuietSteps)
  BY QuietStepsAre, Tuples
<1>3. Binaries \subseteq PlainKinds
  BY DEF PlainKinds
<1> QED BY <1>1, <1>2, <1>3, Calmly DEF parse_or

\* parse_expr, the assignments.
LEMMA ExprKept ==
  ASSUME Inv, parse_expr
  PROVE  Inv'
<1>1. Top \in QuietCalls
  BY QuietOnes DEF parse_expr
<1>2. <<"parse_or", "assignment">> \in Seq(QuietSteps)
      /\ <<"parse_expr">> \in Seq(QuietSteps) /\ <<>> \in Seq(QuietSteps)
  BY QuietStepsAre, Tuples
<1>3. Assignments \subseteq PlainKinds
  BY DEF PlainKinds
<1> QED BY <1>1, <1>2, <1>3, Calmly DEF parse_expr

\* parse_var_decl.
LEMMA VarDeclKept ==
  ASSUME Inv, parse_var_decl
  PROVE  Inv'
<1>1. Top \in QuietCalls
  BY QuietOnes DEF parse_var_decl
<1>2. <<"parse_type", "ident", "initializer", ";">> \in Seq(QuietSteps)
      /\ <<"parse_expr">> \in Seq(QuietSteps) /\ <<>> \in Seq(QuietSteps)
  BY QuietStepsAre, Tuples
<1>3. "=" \in PlainKinds
  BY DEF PlainKinds, Assignments
<1> QED BY <1>1, <1>2, <1>3, Calmly DEF parse_var_decl

\* A call that will expect a bracket first, then q steps on what closes it.
LEMMA OpeningNow ==
  ASSUME Inv, Top \in QuietCalls, NEW steps \in Seq(Steps), NEW q \in 2..Len(steps),
         Matches(steps[1], steps[q]),
         \A i \in 2..Len(steps) : i # q => steps[i] \in QuietSteps,
         Plainly(steps)
  PROVE  Inv'
<1>1. 1 \in 1..Len(steps) /\ q \in 1..Len(steps) /\ steps # <<>>
  <2>1. Len(steps) \in Nat /\ q <= Len(steps) /\ q >= 2
    OBVIOUS
  <2>2. Len(steps) # 0
    BY <2>1
  <2> QED BY <2>1, <2>2
<1>2. steps[1] \in Brackets /\ steps[q] \in Brackets
  BY MatchesIs DEF Brackets
<1>3. \A b \in Brackets : b \notin Pending /\ b # "synchronize"
  BY KindsAre, CallsAre DEF Calls
<1>4. \A i \in 1..Len(steps) : i = 1 \/ i = q \/ (i \in 2..Len(steps) /\ i # q)
  OBVIOUS
<1>5. \A i \in 1..Len(steps) : /\ steps[i] # "synchronize"
                               /\ i \notin {1, q} => steps[i] \notin Brackets
                               /\ i < 1 => steps[i] \in Leading
  BY <1>2, <1>3, <1>4 DEF QuietSteps
<1>6. \A i \in 2..Len(steps) : steps[i] \notin Pending
  BY <1>2, <1>3 DEF QuietSteps
<1>7. Heir(steps)
  BY <1>1, <1>2, <1>3 DEF Heir, QuietCalls
<1>8. Top \in Calls \ {"parse_program"}
  BY DEF QuietCalls
<1> QED BY <1>1, <1>5, <1>6, <1>7, <1>8, Opening

\* The same behind a keyword and a name.
LEMMA OpeningThird ==
  ASSUME Inv, Top \in Calls \ {"parse_program"}, Top \in Pending,
         NEW steps \in Seq(Steps), NEW q \in 4..Len(steps),
         steps[1] \in {"fn", "struct"}, steps[2] = "ident", Matches(steps[3], steps[q]),
         \A i \in 4..Len(steps) : i # q => steps[i] \in QuietSteps,
         Go(steps)
  PROVE  Inv'
<1>1. 3 \in 1..Len(steps) /\ q \in 1..Len(steps) /\ steps # <<>>
  <2>1. Len(steps) \in Nat /\ q <= Len(steps) /\ q >= 4
    OBVIOUS
  <2>2. Len(steps) # 0
    BY <2>1
  <2> QED BY <2>1, <2>2
<1>2. steps[3] \in Brackets /\ steps[q] \in Brackets
  BY MatchesIs DEF Brackets
<1>3. \A b \in Brackets : b \notin Pending /\ b # "synchronize"
  BY KindsAre, CallsAre DEF Calls
<1>4. \A i \in 1..Len(steps) : i = 1 \/ i = 2 \/ i = 3 \/ i = q \/ (i \in 4..Len(steps) /\ i # q)
  OBVIOUS
<1>5. steps[1] \in Leading /\ steps[2] \in Leading /\ steps[1] \in Pending /\ steps[2] \notin Pending
      /\ steps[1] # "synchronize" /\ steps[2] # "synchronize"
  BY DEF Leading, Pending, Keywords
<1>6. \A i \in 1..Len(steps) : /\ steps[i] # "synchronize"
                               /\ i \notin {3, q} => steps[i] \notin Brackets
                               /\ i < 3 => steps[i] \in Leading
  <2> TAKE i \in 1..Len(steps)
  <2>1. CASE i = 1 \/ i = 2
    BY <1>5, <2>1, KindsAre
  <2>2. CASE i = 3 \/ i = q \/ (i \in 4..Len(steps) /\ i # q)
    <3>1. ~(i < 3)
      BY <2>2
    <3> QED BY <1>2, <1>3, <2>2, <3>1 DEF QuietSteps
  <2> QED BY <1>4, <2>1, <2>2
<1>7. \A i \in 2..Len(steps) : steps[i] \notin Pending
  <2> TAKE i \in 2..Len(steps)
  <2>1. i = 2 \/ i = 3 \/ i = q \/ (i \in 4..Len(steps) /\ i # q)
    OBVIOUS
  <2> QED BY <1>2, <1>3, <1>5, <2>1 DEF QuietSteps
<1>8. Heir(steps)
  BY <1>1, <1>5 DEF Heir
<1>9. Plainly(steps)
  BY DEF Plainly
<1> QED BY <1>1, <1>6, <1>7, <1>8, <1>9, Opening

\* parse_for: its three parts are in parentheses.
LEMMA ForKept ==
  ASSUME Inv, parse_for
  PROVE  Inv'
<1>1. Top \in QuietCalls
  BY QuietOnes DEF parse_for
<1>2. CASE Go(<<"(", "for_init", "for_cond", ";", "for_step", ")", "parse_stmt">>)
  <2> DEFINE steps == <<"(", "for_init", "for_cond", ";", "for_step", ")", "parse_stmt">>
  <2>1. /\ "(" \in Steps /\ "for_init" \in Steps /\ "for_cond" \in Steps /\ ";" \in Steps
        /\ "for_step" \in Steps /\ ")" \in Steps /\ "parse_stmt" \in Steps
    BY StepsAre, QuietStepsAre
  <2>2. steps \in Seq(Steps)
    BY <2>1, LongTuples
  <2>3. /\ steps[1] = "(" /\ steps[2] = "for_init" /\ steps[3] = "for_cond" /\ steps[4] = ";"
        /\ steps[5] = "for_step" /\ steps[6] = ")" /\ steps[7] = "parse_stmt"
    OBVIOUS
  <2>4. Len(steps) = 7
    OBVIOUS
  <2>5. Plainly(steps)
    BY <1>2 DEF Plainly
  <2> HIDE DEF steps
  <2>6. \A i \in 2..7 : i = 2 \/ i = 3 \/ i = 4 \/ i = 5 \/ i = 6 \/ i = 7
    OBVIOUS
  <2>7. \A i \in 2..7 : i # 6 => steps[i] \in QuietSteps
    BY <2>3, <2>6, QuietStepsAre
  <2>8. Matches(steps[1], steps[6])
    BY <2>3 DEF Matches
  <2>9. 6 \in 2..Len(steps)
    BY <2>4
  <2>10. \A i \in 2..Len(steps) : i # 6 => steps[i] \in QuietSteps
    BY <2>4, <2>7
  <2> QED BY <1>1, <2>2, <2>5, <2>8, <2>9, <2>10, OpeningNow
<1>3. /\ <<";">> \in Seq(QuietSteps) /\ <<"parse_var_decl">> \in Seq(QuietSteps)
      /\ <<"parse_expr", ";">> \in Seq(QuietSteps)
      /\ <<"parse_expr">> \in Seq(QuietSteps) /\ <<>> \in Seq(QuietSteps)
  BY QuietStepsAre, Tuples
<1> QED BY <1>1, <1>2, <1>3, Calmly DEF parse_for

\* parse_block: statements up to the closing brace.
LEMMA BlockKept ==
  ASSUME Inv, parse_block
  PROVE  Inv'
<1>1. Top \in QuietCalls
  BY QuietOnes DEF parse_block
<1>2. CASE Go(<<"{", "statements", "}">>)
  <2> DEFINE steps == <<"{", "statements", "}">>
  <2>1. "{" \in Steps /\ "}" \in Steps /\ "statements" \in Steps
    BY StepsAre, QuietStepsAre
  <2>2. steps \in Seq(Steps)
    BY <2>1, Tuples
  <2>3. steps[1] = "{" /\ steps[2] = "statements" /\ steps[3] = "}"
    OBVIOUS
  <2>4. Len(steps) = 3
    OBVIOUS
  <2>5. Plainly(steps)
    BY <1>2 DEF Plainly
  <2> HIDE DEF steps
  <2>6. \A i \in 2..3 : i = 2 \/ i = 3
    OBVIOUS
  <2>7. \A i \in 2..3 : i # 3 => steps[i] \in QuietSteps
    BY <2>3, <2>6, QuietStepsAre
  <2>8. Matches(steps[1], steps[3])
    BY <2>3 DEF Matches
  <2>9. 3 \in 2..Len(steps)
    BY <2>4
  <2>10. \A i \in 2..Len(steps) : i # 3 => steps[i] \in QuietSteps
    BY <2>4, <2>7
  <2> QED BY <1>1, <2>2, <2>5, <2>8, <2>9, <2>10, OpeningNow
<1>3. <<"parse_stmt", "statements">> \in Seq(QuietSteps) /\ <<>> \in Seq(QuietSteps)
  BY QuietStepsAre, Tuples
<1> QED BY <1>1, <1>2, <1>3, Calmly DEF parse_block

\* Looking at the next token changes nothing else.
LEMMA PeekKept ==
  ASSUME Inv, lexer_peek
  PROVE  Inv'
<1>1. peeked' \in Kinds /\ left' \in 0..MaxTokens
  <2>1. \/ peeked' = "eof" /\ left' = 0
        \/ left > 0 /\ peeked' \in Source /\ left' = left - 1
    BY DEF lexer_peek, NextToken
  <2> QED BY <2>1, KindsAre, ParserAssumption DEF Inv, Typed
<1>2. Typed' /\ Bottom'
  BY <1>1 DEF lexer_peek, Inv, Typed, Bottom
<1>3. Clean => Clean'
  BY DEF lexer_peek, Clean, Owing, OpensFirst, Closed, Top
<1> QED BY <1>2, <1>3 DEF lexer_peek, Inv

\* parse_stmt: its keyword, or one of the other functions.
LEMMA StmtKept ==
  ASSUME Inv, parse_stmt
  PROVE  Inv'
<1>1. Top \in QuietCalls
  BY QuietOnes DEF parse_stmt
<1>2. CASE current = "if" /\ Take(<<"(", "parse_expr", ")", "parse_stmt", "else_part">>)
  <2> DEFINE steps == <<"(", "parse_expr", ")", "parse_stmt", "else_part">>
  <2>1. /\ "(" \in Steps /\ "parse_expr" \in Steps /\ ")" \in Steps
        /\ "parse_stmt" \in Steps /\ "else_part" \in Steps
    BY StepsAre, QuietStepsAre
  <2>2. steps \in Seq(Steps)
    BY <2>1, LongTuples
  <2>3. /\ steps[1] = "(" /\ steps[2] = "parse_expr" /\ steps[3] = ")"
        /\ steps[4] = "parse_stmt" /\ steps[5] = "else_part"
    OBVIOUS
  <2>4. Len(steps) = 5
    OBVIOUS
  <2>5. Plainly(steps)
    BY <1>2 DEF Plainly, Brackets, Openers, Closers, Keywords
  <2> HIDE DEF steps
  <2>6. \A i \in 2..5 : i = 2 \/ i = 3 \/ i = 4 \/ i = 5
    OBVIOUS
  <2>7. \A i \in 2..5 : i # 3 => steps[i] \in QuietSteps
    BY <2>3, <2>6, QuietStepsAre
  <2>8. Matches(steps[1], steps[3])
    BY <2>3 DEF Matches
  <2>9. 3 \in 2..Len(steps)
    BY <2>4
  <2>10. \A i \in 2..Len(steps) : i # 3 => steps[i] \in QuietSteps
    BY <2>4, <2>7
  <2> QED BY <1>1, <2>2, <2>5, <2>8, <2>9, <2>10, OpeningNow
<1>3. CASE current = "while" /\ Take(<<"(", "parse_expr", ")", "parse_stmt">>)
  <2> DEFINE steps == <<"(", "parse_expr", ")", "parse_stmt">>
  <2>1. "(" \in Steps /\ "parse_expr" \in Steps /\ ")" \in Steps /\ "parse_stmt" \in Steps
    BY StepsAre, QuietStepsAre
  <2>2. steps \in Seq(Steps)
    BY <2>1, Tuples
  <2>3. steps[1] = "(" /\ steps[2] = "parse_expr" /\ steps[3] = ")" /\ steps[4] = "parse_stmt"
    OBVIOUS
  <2>4. Len(steps) = 4
    OBVIOUS
  <2>5. Plainly(steps)
    BY <1>3 DEF Plainly, Brackets, Openers, Closers, Keywords
  <2> HIDE DEF steps
  <2>6. \A i \in 2..4 : i = 2 \/ i = 3 \/ i = 4
    OBVIOUS
  <2>7. \A i \in 2..4 : i # 3 => steps[i] \in QuietSteps
    BY <2>3, <2>6, QuietStepsAre
  <2>8. Matches(steps[1], steps[3])
    BY <2>3 DEF Matches
  <2>9. 3 \in 2..Len(steps)
    BY <2>4
  <2>10. \A i \in 2..Len(steps) : i # 3 => steps[i] \in QuietSteps
    BY <2>4, <2>7
  <2> QED BY <1>1, <2>2, <2>5, <2>8, <2>9, <2>10, OpeningNow
<1>4. /\ <<"parse_block">> \in Seq(QuietSteps) /\ <<"parse_for">> \in Seq(QuietSteps)
      /\ <<"return_value", ";">> \in Seq(QuietSteps) /\ <<";">> \in Seq(QuietSteps)
      /\ <<"parse_var_decl">> \in Seq(QuietSteps) /\ <<"parse_expr", ";">> \in Seq(QuietSteps)
      /\ <<"parse_stmt">> \in Seq(QuietSteps) /\ <<"parse_expr">> \in Seq(QuietSteps)
      /\ <<>> \in Seq(QuietSteps)
  BY QuietStepsAre, Tuples
<1>5. /\ "for" \in PlainKinds /\ "return" \in PlainKinds /\ "break" \in PlainKinds
      /\ "const" \in PlainKinds /\ "else" \in PlainKinds
  BY DEF PlainKinds
<1> QED BY <1>1, <1>2, <1>3, <1>4, <1>5, Calmly DEF parse_stmt

\* A declaration: the keyword it is owed for comes first.
LEMMA FunctionKept ==
  ASSUME Inv, parse_function
  PROVE  Inv'
<1>1. CASE Top = "parse_function"
  <2> DEFINE steps == <<"fn", "ident", "(", "parameters", ")", "->", "parse_type", "parse_block">>
  <2>1. /\ "fn" \in Steps /\ "ident" \in Steps /\ "(" \in Steps /\ "parameters" \in Steps
        /\ ")" \in Steps /\ "->" \in Steps /\ "parse_type" \in Steps /\ "parse_block" \in Steps
    BY StepsAre, QuietStepsAre
  <2>2. steps \in Seq(Steps)
    BY <2>1, LongTuples
  <2>3. /\ steps[1] = "fn" /\ steps[2] = "ident" /\ steps[3] = "(" /\ steps[4] = "parameters"
        /\ steps[5] = ")" /\ steps[6] = "->" /\ steps[7] = "parse_type" /\ steps[8] = "parse_block"
    OBVIOUS
  <2>4. Len(steps) = 8
    OBVIOUS
  <2>5. Go(steps)
    BY <1>1 DEF parse_function
  <2> HIDE DEF steps
  <2>6. \A i \in 4..8 : i = 4 \/ i = 5 \/ i = 6 \/ i = 7 \/ i = 8
    OBVIOUS
  <2>7. \A i \in 4..8 : i # 5 => steps[i] \in QuietSteps
    BY <2>3, <2>6, QuietStepsAre
  <2>8. Matches(steps[3], steps[5])
    BY <2>3 DEF Matches
  <2>9. 5 \in 4..Len(steps)
    BY <2>4
  <2>10. \A i \in 4..Len(steps) : i # 5 => steps[i] \in QuietSteps
    BY <2>4, <2>7
  <2>11. Top \in Calls \ {"parse_program"} /\ Top \in Pending
    BY <1>1 DEF Calls, Pending
  <2>12. steps[1] \in {"fn", "struct"} /\ steps[2] = "ident"
    BY <2>3
  <2> QED BY <2>2, <2>5, <2>8, <2>9, <2>10, <2>11, <2>12, OpeningThird
<1>2. CASE Top \in {"parameters", "more_parameters"}
  <2>1. Top \in QuietCalls
    BY <1>2, QuietOnes
  <2>2. <<"parse_type", "ident", "more_parameters">> \in Seq(QuietSteps) /\ <<>> \in Seq(QuietSteps)
    BY QuietStepsAre, Tuples
  <2>3. "," \in PlainKinds
    BY DEF PlainKinds
  <2>4. \/ Go(<<>>) \/ Go(<<"parse_type", "ident", "more_parameters">>)
        \/ current = "," /\ Take(<<"parse_type", "ident", "more_parameters">>)
    BY <1>2 DEF parse_function
  <2> QED BY <2>1, <2>2, <2>3, <2>4, Calmly
<1> QED BY <1>1, <1>2 DEF parse_function

\* parse_struct: the keyword that is owed, the fields in braces.
LEMMA StructKept ==
  ASSUME Inv, parse_struct
  PROVE  Inv'
<1>1. CASE Top = "parse_struct"
  <2> DEFINE steps == <<"struct", "ident", "{", "fields", "}", ";">>
  <2>1. /\ "struct" \in Steps /\ "ident" \in Steps /\ "{" \in Steps /\ "fields" \in Steps
        /\ "}" \in Steps /\ ";" \in Steps
    BY StepsAre, QuietStepsAre
  <2>2. steps \in Seq(Steps)
    BY <2>1, LongTuples
  <2>3. /\ steps[1] = "struct" /\ steps[2] = "ident" /\ steps[3] = "{" /\ steps[4] = "fields"
        /\ steps[5] = "}" /\ steps[6] = ";"
    OBVIOUS
  <2>4. Len(steps) = 6
    OBVIOUS
  <2>5. Go(steps)
    BY <1>1 DEF parse_struct
  <2> HIDE DEF steps
  <2>6. \A i \in 4..6 : i = 4 \/ i = 5 \/ i = 6
    OBVIOUS
  <2>7. \A i \in 4..6 : i # 5 => steps[i] \in QuietSteps
    BY <2>3, <2>6, QuietStepsAre
  <2>8. Matches(steps[3], steps[5])
    BY <2>3 DEF Matches
  <2>9. 5 \in 4..Len(steps)
    BY <2>4
  <2>10. \A i \in 4..Len(steps) : i # 5 => steps[i] \in QuietSteps
    BY <2>4, <2>7
  <2>11. Top \in Calls \ {"parse_program"} /\ Top \in Pending
    BY <1>1 DEF Calls, Pending
  <2>12. steps[1] \in {"fn", "struct"} /\ steps[2] = "ident"
    BY <2>3
  <2> QED BY <2>2, <2>5, <2>8, <2>9, <2>10, <2>11, <2>12, OpeningThird
<1>2. CASE Top = "fields"
  <2>1. Top \in QuietCalls
    BY <1>2, QuietOnes
  <2>2. <<"parse_type", "ident", ";", "fields">> \in Seq(QuietSteps) /\ <<>> \in Seq(QuietSteps)
    BY QuietStepsAre, Tuples
  <2>3. Go(<<>>) \/ Go(<<"parse_type", "ident", ";", "fields">>)
    BY <1>2 DEF parse_struct
  <2> QED BY <2>1, <2>2, <2>3, Calmly
<1> QED BY <1>1, <1>2 DEF parse_struct

\* parse_import: the keyword that is owed, a path.
LEMMA ImportKept ==
  ASSUME Inv, parse_import
  PROVE  Inv'
<1>1. CASE Top = "parse_import"
  <2> DEFINE steps == <<"import", "import_path", ";">>
  <2>1. "import" \in Steps /\ "import_path" \in Steps /\ ";" \in Steps
    BY StepsAre, QuietStepsAre
  <2>2. steps \in Seq(Steps)
    BY <2>1, Tuples
  <2>3. steps[1] = "import" /\ steps[2] = "import_path" /\ steps[3] = ";"
    OBVIOUS
  <2>4. Len(steps) = 3 /\ steps # <<>>
    OBVIOUS
  <2>5. Plainly(steps)
    BY <1>1 DEF parse_import, Plainly
  <2> HIDE DEF steps
  <2>6. \A i \in 1..3 : i = 1 \/ i = 2 \/ i = 3
    OBVIOUS
  <2>7. "import" \notin Brackets /\ "import" # "synchronize"
    BY DEF Brackets, Openers, Closers
  <2>8. \A i \in 1..3 : steps[i] \notin Brackets \cup {"synchronize"}
    BY <2>3, <2>6, <2>7, QuietStepsAre DEF QuietSteps
  <2>9. \A i \in 2..3 : i = 2 \/ i = 3
    OBVIOUS
  <2>10. \A i \in 2..3 : steps[i] \notin Pending
    BY <2>3, <2>9, QuietStepsAre DEF QuietSteps
  <2>11. Heir(steps)
    BY <1>1, <2>3, <2>4 DEF Heir, Pending, Keywords
  <2>12. Top \in Calls \ {"parse_program"}
    BY <1>1 DEF Calls
  <2>13. /\ \A i \in 1..Len(steps) : steps[i] \notin Brackets \cup {"synchronize"}
         /\ \A i \in 2..Len(steps) : steps[i] \notin Pending
    BY <2>4, <2>8, <2>10
  <2> QED BY <2>2, <2>5, <2>11, <2>12, <2>13, Quietly
<1>2. CASE Top = "import_path"
  <2>1. Top \in QuietCalls /\ Top \in Steps \ {"parse_program"}
    BY <1>2, QuietOnes DEF QuietCalls, Steps
  <2>2. "string" \in PlainKinds /\ "ident" \in PlainKinds
    BY DEF PlainKinds, Literals, Types
  <2>3. <<>> \in Seq(QuietSteps)
    BY Tuples
  <2>4. (current \in {"string", "ident"} /\ Take(<<>>)) \/ Report(<<>>)
    BY <1>2 DEF parse_import
  <2> QED BY <2>1, <2>2, <2>3, <2>4, Calmly, Complaining
<1> QED BY <1>1, <1>2 DEF parse_import

\* synchronize runs after a report only.
LEMMA SynchronizeKept ==
  ASSUME Inv, synchronize
  PROVE  Inv'
<1>1. todo # <<>> /\ todo[1] = "synchronize" /\ 1 \in 1..Len(todo)
  BY TopIs DEF synchronize, Inv, None
<1>2. had_error
  BY <1>1 DEF Inv, Clean
<1>3. <<>> \in Seq(Steps) /\ <<"synchronize">> \in Seq(Steps)
  <2>1. "synchronize" \in Steps
    BY DEF Steps, Calls
  <2> QED BY <2>1, Tuples
<1>4. Grounded(<<>>) /\ Grounded(<<"synchronize">>)
  BY DEF Grounded, synchronize
<1>5. Go(<<>>) \/ Take(<<>>) \/ Take(<<"synchronize">>)
  BY DEF synchronize
<1>6. Typed' /\ Bottom'
  BY <1>1, <1>3, <1>4, <1>5, Stepped DEF Inv
<1>7. had_error' = had_error
  BY <1>5 DEF Go, Take
<1> QED BY <1>2, <1>6, <1>7 DEF Inv

\* A declaration is entered and owed until its keyword is consumed.
LEMMA DeclareKept ==
  ASSUME Inv, Top = "parse_program",
         NEW f \in {"parse_function", "parse_struct", "parse_import"}, Declare(f)
  PROVE  Inv'
<1> DEFINE steps == <<f, "parse_program">>
           new == steps \o Tail(todo)
           l == Len(todo)
<1>1. todo # <<>> /\ todo \in Seq(Steps) /\ todo[1] = "parse_program" /\ l \in Nat \ {0}
  BY DEF Inv, Typed, Top, None
<1>2. f \in Steps /\ "parse_program" \in Steps /\ f \in Pending /\ "parse_program" \notin Pending
      /\ f \notin Brackets /\ "parse_program" \notin Brackets /\ Top \notin Kinds
      /\ f # "synchronize"
  <2>1. f \in Calls /\ "parse_program" \in Calls
    BY DEF Calls
  <2>2. f \in Pending /\ "parse_program" \notin Pending /\ f # "synchronize"
    BY DEF Pending, Keywords
  <2> QED BY <2>1, <2>2, CallsAre, KindsAre DEF Steps
<1>3. steps \in Seq(Steps)
  BY <1>2, Tuples
<1>4. steps[1] = f /\ steps[2] = "parse_program" /\ Len(steps) = 2 /\ steps # <<>>
  OBVIOUS
<1>5. todo' = new
  <2>1. todo = <<"parse_program">> \o Tail(todo)
    BY <1>1
  <2>2. Tail(todo) \in Seq(Steps)
    BY <1>1
  <2>3. <<f, "parse_program">> = <<f>> \o <<"parse_program">>
    OBVIOUS
  <2>4. <<f>> \in Seq(Steps) /\ <<"parse_program">> \in Seq(Steps)
    BY <1>2, Tuples
  <2>5. <<f>> \o (<<"parse_program">> \o Tail(todo)) = (<<f>> \o <<"parse_program">>) \o Tail(todo)
    BY <2>2, <2>4, ConcatAssociative
  <2>6. todo' = <<f>> \o todo
    BY DEF Declare
  <2> QED BY <2>1, <2>3, <2>5, <2>6
<1> HIDE DEF steps
<1>6. new \in Seq(Steps) /\ new # <<>> /\ new[Len(new)] = "parse_program"
  BY <1>1, <1>3, <1>4, SplicedType DEF Inv
<1>7. /\ Len(new) = 2 + l - 1 /\ \A i \in 1..2 : new[i] = steps[i]
      /\ \A i \in 3..(2 + l - 1) : i - 1 \in 2..l /\ new[i] = todo[i - 1]
  <2>1. /\ Len(new) = Len(steps) + l - 1
        /\ \A i \in 1..Len(steps) : new[i] = steps[i]
        /\ \A i \in (Len(steps) + 1)..(Len(steps) + l - 1) :
             i - Len(steps) + 1 \in 2..l /\ new[i] = todo[i - Len(steps) + 1]
    BY <1>1, <1>3, SplicedIs
  <2> HIDE DEF new, l
  <2>2. /\ Len(new) = 2 + l - 1
        /\ \A i \in 1..2 : new[i] = steps[i]
        /\ \A i \in (2 + 1)..(2 + l - 1) : i - 2 + 1 \in 2..l /\ new[i] = todo[i - 2 + 1]
    BY <1>4, <2>1
  <2>3. \A i \in 3..(2 + l - 1) : i - 2 + 1 = i - 1
    BY <1>1
  <2> QED BY <2>2, <2>3
<1>8. Typed' /\ Bottom'
  BY <1>5, <1>6 DEF Declare, Inv, Typed, Bottom
<1>9. ASSUME ~had_error PROVE Clean'
  <2>1. Clean /\ Typed
    BY <1>9 DEF Inv
  <2>2. \A i \in 1..Len(steps) : steps[i] \notin Brackets \cup {"synchronize"}
    <3>1. \A i \in 1..2 : i = 1 \/ i = 2
      OBVIOUS
    <3>2. \A i \in 1..2 : steps[i] \notin Brackets \cup {"synchronize"}
      BY <1>2, <1>4, <3>1
    <3> QED BY <1>4, <3>2
  <2>3. NoSync' /\ OpensFirst' /\ Closed'
    BY <1>1, <1>2, <1>3, <1>5, <2>1, <2>2, QuietKept DEF Declare
  <2>4. owed' = -1
    <3>1. owed = 0
      BY <1>2, <2>1 DEF Clean, Owing
    <3> QED BY <1>9, <3>1 DEF Declare
  <2>5. Top' = f
    BY <1>4, <1>5, <1>6, <1>7 DEF Top
  <2>6. ASSUME NEW i \in 2..Len(new) PROVE new[i] \notin Pending
    <3>1. CASE i = 2
      BY <1>2, <1>4, <1>7, <3>1
    <3>2. CASE i # 2
      <4> HIDE DEF new, l
      <4>1. i \in 3..(2 + l - 1)
        BY <1>1, <1>7, <3>2
      <4>2. i - 1 \in 2..l /\ new[i] = todo[i - 1]
        BY <1>7, <4>1
      <4> QED BY <2>1, <4>2 DEF Clean, Owing, l
    <3> QED BY <3>1, <3>2
  <2>7. Owing'
    BY <1>2, <1>5, <2>4, <2>5, <2>6 DEF Owing
  <2> QED BY <2>3, <2>7 DEF Clean, NoSync
<1> QED BY <1>8, <1>9 DEF Declare, Inv

\* parse_program returns at the end of the file only.
LEMMA ProgramKept ==
  ASSUME Inv, parse_program
  PROVE  Inv'
<1>1. Top = "parse_program" /\ todo # <<>> /\ todo \in Seq(Steps) /\ todo[1] = "parse_program"
  BY DEF parse_program, Inv, Typed, Top, None
<1>2. CASE current = "eof" /\ Go(<<>>)
  <2> DEFINE l == Len(todo)
  <2>1. l \in Nat \ {0} /\ Tail(todo) \in Seq(Steps) /\ Len(Tail(todo)) = l - 1
        /\ \A i \in 1..(l - 1) : Tail(todo)[i] = todo[i + 1]
    BY <1>1, HeadTailProperties
  <2>2. <<>> \o Tail(todo) = Tail(todo)
    BY <2>1
  <2>3. todo' = Tail(todo) /\ open' = open /\ owed' = owed /\ had_error' = had_error
        /\ current' = current
    BY <1>2, <2>2 DEF Go
  <2>4. Typed'
    BY <1>2, <2>1, <2>3 DEF Go, Inv, Typed
  <2>5. Bottom'
    <3>1. CASE Tail(todo) = <<>>
      BY <1>2, <2>3, <3>1 DEF Bottom
    <3>2. CASE Tail(todo) # <<>>
      <4>1. Len(Tail(todo)) # 0
        BY <2>1, <3>2, EmptySeq
      <4> DEFINE tt == Tail(todo)
      <4>2. todo[l] = "parse_program"
        BY <1>1 DEF Inv, Bottom
      <4> HIDE DEF l
      <4>3. l - 1 \in 1..(l - 1) /\ (l - 1) + 1 = l
        BY <2>1, <4>1
      <4>4. tt[Len(tt)] = "parse_program"
        BY <2>1, <4>2, <4>3
      <4> QED BY <2>3, <3>2, <4>4 DEF Bottom
    <3> QED BY <3>1, <3>2
  <2>6. ASSUME ~had_error PROVE Clean'
    <3>1. Clean /\ Typed
      BY <2>6 DEF Inv
    <3>2. <<>> \in Seq(Steps) /\ \A i \in 1..Len(<<>>) : <<>>[i] \notin Brackets \cup {"synchronize"}
      BY Tuples
    <3>3. Top \notin Kinds /\ Top \notin Pending
      <4>1. "parse_program" \in Calls /\ "parse_program" \notin Pending
        BY DEF Calls, Pending, Keywords
      <4> QED BY <1>1, <4>1, CallsAre
    <3>4. todo' = <<>> \o Tail(todo)
      BY <2>2, <2>3
    <3>5. NoSync' /\ OpensFirst' /\ Closed'
      BY <1>1, <2>3, <3>1, <3>2, <3>3, <3>4, QuietKept
    <3>6. Heir(<<>>) /\ \A i \in 2..Len(<<>>) : <<>>[i] \notin Pending
      BY <3>3 DEF Heir
    <3>7. Owing
      BY <3>1 DEF Clean
    <3>8. Owing'
      BY <1>1, <2>3, <3>1, <3>2, <3>4, <3>6, <3>7, OwingKept
    <3> QED BY <3>5, <3>8 DEF Clean, NoSync
  <2> QED BY <2>3, <2>4, <2>5, <2>6 DEF Inv
<1>3. CASE Declare("parse_function") \/ Declare("parse_struct") \/ Declare("parse_import")
  BY <1>1, <1>3, DeclareKept
<1>4. CASE Report(<<"synchronize", "parse_program">>)
  <2> DEFINE steps == <<"synchronize", "parse_program">>
  <2>1. steps \in Seq(Steps)
    <3>1. "synchronize" \in Steps /\ "parse_program" \in Steps
      BY DEF Steps, Calls
    <3> QED BY <3>1, Tuples
  <2>2. steps # <<>> /\ steps[Len(steps)] = "parse_program"
    OBVIOUS
  <2> HIDE DEF steps
  <2>3. Grounded(steps)
    BY <2>2 DEF Grounded
  <2> QED BY <1>1, <1>4, <2>1, <2>3, Reporting DEF steps
<1> QED BY <1>2, <1>3, <1>4 DEF parse_program

-----------------------------------------------------------------------------
(* The theorems.                                                             *)

LEMMA ParserInit == Init => Inv
<1> SUFFICES ASSUME Init PROVE Inv
  OBVIOUS
<1> DEFINE td == <<"parse_program">>
<1>1. td \in Seq(Steps) /\ Len(td) = 1 /\ td[1] = "parse_program" /\ td # <<>>
  <2>1. "parse_program" \in Steps
    BY DEF Steps, Calls
  <2> QED BY <2>1, Tuples
<1>2. todo = td
  BY DEF Init
<1>3. Typed
  <2>1. current \in Kinds /\ left \in 0..MaxTokens
    BY ParserAssumption, KindsAre DEF Init
  <2>2. open = <<>> /\ <<>> \in Seq(Brackets)
    BY Tuples DEF Init
  <2>3. todo \in Seq(Steps)
    BY <1>1, <1>2
  <2>4. peeked \in Kinds \cup {None}
    BY DEF Init
  <2>5. owed \in Int
    BY DEF Init
  <2>6. had_error \in BOOLEAN
    BY DEF Init
  <2> QED BY <2>1, <2>2, <2>3, <2>4, <2>5, <2>6 DEF Typed
<1> HIDE DEF td
<1>4. Bottom
  BY <1>1, <1>2 DEF Bottom
<1>5. "parse_program" \notin Pending /\ "parse_program" \notin Openers
      /\ "parse_program" \notin Closers
  <2>1. "parse_program" \notin Pending
    BY DEF Pending, Keywords
  <2>2. "parse_program" \notin Openers /\ "parse_program" \notin Closers
    BY DEF Openers, Closers
  <2> QED BY <2>1, <2>2
<1>6. \A i \in 1..Len(todo) : todo[i] = "parse_program"
  <2>1. \A i \in 1..1 : i = 1
    OBVIOUS
  <2> QED BY <1>1, <1>2, <2>1
<1>7. Owing
  BY <1>1, <1>2, <1>5, <1>6 DEF Owing, Top, Init
<1>8. OpensFirst
  BY <1>5, <1>6 DEF OpensFirst
<1>9. Awaits(<<>>, todo)
  <2> DEFINE f == [k \in 1..Len(<<>>) |-> 1]
  <2>1. 1..Len(<<>>) = {}
    OBVIOUS
  <2>2. f \in [1..Len(<<>>) -> 1..Len(todo)]
    BY <2>1
  <2> HIDE DEF f
  <2> QED BY <1>5, <1>6, <2>1, <2>2 DEF Awaits
<1>10. Closed
  BY <1>5, <1>6, <1>9 DEF Closed, Init
<1> QED BY <1>3, <1>4, <1>6, <1>7, <1>8, <1>10 DEF Inv, Clean

\* Every step of the parser keeps the invariant.
LEMMA ParserNext == Inv /\ [Next]_vars => Inv'
<1> SUFFICES ASSUME Inv, [Next]_vars PROVE Inv'
  OBVIOUS
<1>1. CASE expect
  BY <1>1, ExpectKept
<1>2. CASE parse_type
  BY <1>2, TypeKept
<1>3. CASE parse_primary
  BY <1>3, PrimaryKept
<1>4. CASE parse_postfix
  BY <1>4, PostfixKept
<1>5. CASE parse_unary
  BY <1>5, UnaryKept
<1>6. CASE parse_or
  BY <1>6, OrKept
<1>7. CASE parse_expr
  BY <1>7, ExprKept
<1>8. CASE parse_var_decl
  BY <1>8, VarDeclKept
<1>9. CASE parse_for
  BY <1>9, ForKept
<1>10. CASE parse_block
  BY <1>10, BlockKept
<1>11. CASE lexer_peek
  BY <1>11, PeekKept
<1>12. CASE parse_stmt
  BY <1>12, StmtKept
<1>13. CASE parse_function
  BY <1>13, FunctionKept
<1>14. CASE parse_struct
  BY <1>14, StructKept
<1>15. CASE parse_import
  BY <1>15, ImportKept
<1>16. CASE synchronize
  BY <1>16, SynchronizeKept
<1>17. CASE parse_program
  BY <1>17, ProgramKept
<1>18. CASE UNCHANGED vars
  BY <1>18 DEF vars, Inv, Typed, Bottom, Clean, Owing, OpensFirst, Closed, Top
<1> QED BY <1>1, <1>2, <1>3, <1>4, <1>5, <1>6, <1>7, <1>8, <1>9, <1>10, <1>11, <1>12, <1>13,
           <1>14, <1>15, <1>16, <1>17, <1>18 DEF Next

\* The invariant of the parser.
LEMMA ParserInvariant == Spec => []Inv
  BY ParserInit, ParserNext, PTL DEF Spec

\* The types of the parser's state, the call stack included.
THEOREM ParserTypes == Spec => []TypeOK
<1>1. Inv => TypeOK
  BY DEF Inv, Typed, TypeOK, Steps, Brackets
<1> QED BY <1>1, ParserInvariant, PTL

\* An accepted file is read to its end, and for every fn, struct and import
\* keyword consumed there is a declaration in the Program: parse_program
\* enters one before it calls the function that consumes the keyword, and no
\* other function consumes one without a report.
THEOREM ParserKeepsDeclarations == Spec => []NothingSwallowed
<1>1. ASSUME Inv PROVE NothingSwallowed
  <2> SUFFICES ASSUME todo = <<>>, ~had_error PROVE owed = 0 /\ current = "eof"
    BY DEF NothingSwallowed, Accepted, Done
  <2>1. current = "eof" /\ Owing
    BY <1>1 DEF Inv, Bottom, Clean
  <2>2. Top \notin Pending
    BY DEF Top, None, Pending, Keywords
  <2> QED BY <2>1, <2>2 DEF Owing
<1> QED BY <1>1, ParserInvariant, PTL

\* How far into a call stack the k-th of its awaited brackets is known.
LEMMA AwaitsRank ==
  ASSUME NEW S, NEW td \in Seq(S), NEW B, NEW vo \in Seq(B), Awaits(vo, td)
  PROVE  LET W == {i \in 1..Len(td) : td[i] \in Closers}
         IN  /\ Cardinality(W) = Len(vo)
             /\ \A i \in W : Matches(vo[Cardinality({j \in W : j <= i})], td[i])
<1> DEFINE l == Len(td)
           v == Len(vo)
           W == {i \in 1..l : td[i] \in Closers}
<1>1. v \in Nat /\ l \in Nat
  OBVIOUS
<1>2. PICK f \in [1..v -> 1..l] :
        /\ \A j, k \in 1..v : j < k => f[j] < f[k]
        /\ \A k \in 1..v : Matches(vo[k], td[f[k]])
        /\ \A i \in 1..l : td[i] \in Closers => \E k \in 1..v : f[k] = i
  BY DEF Awaits
<1> HIDE DEF l, v
<1>3. \A k \in 1..v : f[k] \in W
  BY <1>2, MatchesIs
<1>4. \A j, k \in 1..v : f[j] = f[k] => j = k
  BY <1>1, <1>2
<1>5. ASSUME NEW n \in 0..v
      PROVE  LET P == {f[k] : k \in 1..n} IN IsFiniteSet(P) /\ Cardinality(P) = n
  <2> DEFINE P == {f[k] : k \in 1..n}
             g == [k \in 1..n |-> f[k]]
  <2>1. \A k \in 1..n : k \in 1..v
    BY <1>1
  <2>2. g \in Bijection(1..n, P)
    <3>1. g \in [1..n -> P] /\ \A k \in 1..n : g[k] = f[k]
      OBVIOUS
    <3>2. \A j, k \in 1..n : g[j] = g[k] => j = k
      BY <1>4, <2>1, <3>1
    <3>3. \A p \in P : \E k \in 1..n : g[k] = p
      BY <3>1
    <3> HIDE DEF g, P
    <3> QED BY <3>1, <3>2, <3>3 DEF Bijection, Injection, Surjection, IsInjective
  <2>3. IsFiniteSet(1..n) /\ Cardinality(1..n) = n
    <3>1. 1 \in Int /\ n \in Int /\ n >= 0
      BY <1>1
    <3>2. IsFiniteSet(1..n) /\ Cardinality(1..n) = IF 1 > n THEN 0 ELSE n - 1 + 1
      BY <3>1, FS_Interval
    <3> QED BY <3>1, <3>2
  <2> HIDE DEF P, g
  <2>4. ExistsBijection(1..n, P)
    BY <2>2 DEF ExistsBijection
  <2>5. IsFiniteSet(P) /\ Cardinality(P) = n
    BY <2>3, <2>4, FS_Bijection
  <2> QED BY <2>5 DEF P
<1>6. W = {f[k] : k \in 1..v}
  BY <1>2, <1>3
<1>7. v \in 0..v
  BY <1>1
<1>8. Cardinality(W) = v
  BY <1>5, <1>6, <1>7
<1>9. ASSUME NEW i \in W PROVE Matches(vo[Cardinality({j \in W : j <= i})], td[i])
  <2>1. PICK k \in 1..v : f[k] = i
    BY <1>2
  <2>2. \A j \in 1..v : f[j] <= i <=> j <= k
    <3> SUFFICES ASSUME NEW j \in 1..v PROVE f[j] <= f[k] <=> j <= k
      BY <2>1
    <3>1. f[j] \in 1..l /\ f[k] \in 1..l
      OBVIOUS
    <3>2. (j < k => f[j] < f[k]) /\ (k < j => f[k] < f[j])
      BY <1>2
    <3>3. j = k => f[j] = f[k]
      OBVIOUS
    <3>4. j < k \/ j = k \/ k < j
      BY <1>1
    <3> QED BY <1>1, <3>1, <3>2, <3>3, <3>4
  <2> DEFINE U == {j \in W : j <= i}
             P == {f[j] : j \in 1..k}
  <2>3. \A x \in U : x \in P
    <3> SUFFICES ASSUME NEW x \in W, x <= i PROVE \E j \in 1..k : x = f[j]
      OBVIOUS
    <3>1. PICK j \in 1..v : f[j] = x
      BY <1>2
    <3>2. j <= k
      BY <2>2, <3>1
    <3>3. j \in 1..k
      BY <1>1, <3>2
    <3> QED BY <3>1, <3>3
  <2>4. \A x \in P : x \in U
    <3> SUFFICES ASSUME NEW j \in 1..k PROVE f[j] \in W /\ f[j] <= i
      OBVIOUS
    <3>1. j \in 1..v /\ j <= k
      BY <1>1
    <3> QED BY <1>3, <2>2, <3>1
  <2>5. U = P
    <3> HIDE DEF U, P
    <3>1. \A x : x \in U <=> x \in P
      BY <2>3, <2>4
    <3> QED BY <3>1
  <2>6. k \in 0..v
    BY <1>1
  <2>7. Cardinality(U) = k
    BY <1>5, <2>5, <2>6
  <2>8. Matches(vo[k], td[f[k]])
    BY <1>2
  <2> HIDE DEF U
  <2>9. Matches(vo[Cardinality(U)], td[i])
    BY <2>1, <2>7, <2>8
  <2> QED BY <2>9 DEF U
<1> QED BY <1>8, <1>9 DEF l, v

\* As long as nothing is reported, what is open is what will be closed, in
\* that order, for every text: brackets neither cross nor stay open.
THEOREM BracketsBalance == Spec => []Balanced
<1>1. ASSUME Inv PROVE Balanced
  <2> SUFFICES ASSUME ~had_error, \A i \in DOMAIN todo : todo[i] \notin Openers
               PROVE  /\ Cardinality(Awaited) = Len(open)
                      /\ \A i \in Awaited :
                           Matches(open[Cardinality({j \in Awaited : j <= i})], todo[i])
    BY DEF Balanced
  <2>1. todo \in Seq(Steps) /\ open \in Seq(Brackets)
    BY <1>1 DEF Inv, Typed
  <2>2. DOMAIN todo = 1..Len(todo)
    BY <2>1
  <2>3. Awaits(open, todo)
    BY <1>1, <2>2 DEF Inv, Clean, Closed
  <2>4. Awaited = {i \in 1..Len(todo) : todo[i] \in Closers}
    BY <2>2 DEF Awaited
  <2> HIDE DEF Awaited
  <2> QED BY <2>1, <2>3, <2>4, AwaitsRank
<1> QED BY <1>1, ParserInvariant, PTL
=============================================================================
