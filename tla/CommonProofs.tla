---------------------------- MODULE CommonProofs ----------------------------
(***************************************************************************)
(* Proofs about the two data structures of common.c and the text written   *)
(* with one of them.                                                       *)
(*                                                                         *)
(* The arena, for every initial size and every set of request sizes: the   *)
(* blocks are disjoint, aligned and inside the buffer, and the buffer is   *)
(* never twice as large as was needed.                                     *)
(*                                                                         *)
(* The string builder, for any caller of it, and then the C text of an     *)
(* accepted program: it is what codegen_to_c wrote, has every function     *)
(* once and is accepted by gcc, for every set of files, of names and of    *)
(* pieces, and every failure of malloc and realloc.                        *)
(***************************************************************************)
EXTENDS Arena, CText, SequenceTheorems, FiniteSetTheorems, WellFoundedInduction, TLAPS

(* The strengthening.  Disjoint and InBuffer carry each other.  What is    *)
(* added is that the next block, too, starts on a multiple of 8, and what  *)
(* the loop of arena_alloc keeps: a request that does not fit, and a       *)
(* new_size that is less than twice what is needed.                        *)
Growing ==
  pc = "grow" =>
    /\ request % 8 = 0
    /\ used + request > size
    /\ new_size < 2 * (used + request)
    /\ new_size # 0

ArenaInv ==
  /\ ArenaTypeOK
  /\ Disjoint
  /\ InBuffer
  /\ Aligned
  /\ used % 8 = 0
  /\ used <= peak
  /\ NoWaste
  /\ Growing

-----------------------------------------------------------------------------
\* Rounding a request up gives a multiple of 8 that is large enough.
LEMMA AlignFacts ==
  ASSUME NEW n \in Nat
  PROVE  /\ Align(n) \in Nat /\ Align(n) % 8 = 0
         /\ n <= Align(n) /\ Align(n) <= n + 7
  BY SMTT(30) DEF Align

\* A multiple of 8 behind a multiple of 8.
LEMMA AlignedSum ==
  ASSUME NEW m \in Nat, NEW n \in Nat, m % 8 = 0, n % 8 = 0
  PROVE  (m + n) % 8 = 0
  BY SMTT(30)

\* Doubling is monotone.
LEMMA TwiceMonotone ==
  ASSUME NEW k \in Nat, NEW m \in Nat, NEW n \in Nat, k < 2 * m, m <= n
  PROVE  k < 2 * n
  BY SMTT(30)

\* Handing out n bytes behind the used ones keeps the blocks apart, aligned
\* and inside a buffer that holds used + n bytes.
LEMMA HandOutKeeps ==
  ASSUME ArenaInv, NEW b \in Nat, NEW n \in Nat, n % 8 = 0, HandOut(b, n)
  PROVE  /\ blocks' \subseteq Block
         /\ Disjoint'
         /\ used' = used + n
         /\ \A c \in blocks' : End(c) <= used'
         /\ Aligned'
         /\ used' % 8 = 0
         /\ peak' \in Nat /\ used + n <= peak' /\ peak <= peak'
<1> DEFINE new == [buf |-> b, off |-> used, len |-> n]
<1>1. /\ used \in Nat /\ peak \in Nat /\ blocks \subseteq Block
      /\ \A c \in blocks : End(c) <= used
      /\ used % 8 = 0
  BY DEF ArenaInv, ArenaTypeOK, InBuffer
<1>2. blocks' = blocks \cup {new} /\ used' = used + n
  BY DEF HandOut
<1>3. new \in Block /\ new.off = used /\ End(new) = used + n
  BY <1>1 DEF Block, End
<1>4. blocks' \subseteq Block
  BY <1>1, <1>2, <1>3
<1>5. \A c \in blocks' : End(c) <= used'
  <2> SUFFICES ASSUME NEW c \in blocks' PROVE End(c) <= used'
    OBVIOUS
  <2>1. CASE c = new
    BY <2>1, <1>2, <1>3
  <2>2. CASE c \in blocks
    <3>1. End(c) <= used /\ End(c) \in Nat
      BY <2>2, <1>1 DEF Block, End
    <3> QED BY <3>1, <1>1, <1>2
  <2> QED BY <2>1, <2>2, <1>2
<1>6. Disjoint'
  <2> SUFFICES ASSUME NEW c \in blocks', NEW d \in blocks', c # d
               PROVE  End(c) <= d.off \/ End(d) <= c.off
    BY DEF Disjoint, End
  <2>1. CASE c \in blocks /\ d \in blocks
    BY <2>1 DEF ArenaInv, Disjoint
  <2>2. CASE c = new /\ d \in blocks
    BY <2>2, <1>1, <1>3
  <2>3. CASE d = new /\ c \in blocks
    BY <2>3, <1>1, <1>3
  <2> QED BY <2>1, <2>2, <2>3, <1>2
<1>7. Aligned'
  BY <1>1, <1>2, <1>3 DEF ArenaInv, Aligned
<1>8. used' % 8 = 0
  BY <1>1, <1>2, AlignedSum
<1>9. peak' \in Nat /\ used + n <= peak' /\ peak <= peak'
  BY <1>1 DEF HandOut, Atleast
<1> QED BY <1>2, <1>4, <1>5, <1>6, <1>7, <1>8, <1>9

-----------------------------------------------------------------------------
\* arena_create establishes the invariant.
LEMMA ArenaInitHolds == ArenaInit => ArenaInv
  BY ArenaAssumption
  DEF ArenaInit, ArenaInv, ArenaTypeOK, Disjoint, InBuffer, Aligned, NoWaste, Growing

\* Every step of every operation keeps it.
LEMMA ArenaStepKeeps == ArenaInv /\ [ArenaNext]_arena => ArenaInv'
<1> SUFFICES ASSUME ArenaInv, [ArenaNext]_arena PROVE ArenaInv'
  OBVIOUS
<1> USE DEF ArenaInv
<1>1. ASSUME NEW n \in Requests, arena_alloc_fits(n) PROVE ArenaInv'
  <2>1. Align(n) \in Nat /\ Align(n) % 8 = 0
    BY ArenaAssumption, AlignFacts
  <2>2. HandOut(buf, Align(n)) /\ used + Align(n) <= size
        /\ UNCHANGED <<pc, buf, size, request, new_size>>
    BY <1>1 DEF arena_alloc_fits
  <2>3. buf \in Nat /\ pc = "idle"
    BY <1>1 DEF arena_alloc_fits, ArenaTypeOK
  <2>4. /\ blocks' \subseteq Block
        /\ Disjoint'
        /\ used' = used + Align(n)
        /\ \A c \in blocks' : End(c) <= used'
        /\ Aligned'
        /\ used' % 8 = 0
        /\ peak' \in Nat /\ used + Align(n) <= peak' /\ peak <= peak'
    BY <2>1, <2>2, <2>3, HandOutKeeps
  <2>5. ArenaTypeOK' /\ used' <= peak'
    BY <2>1, <2>2, <2>4 DEF ArenaTypeOK
  <2>6. InBuffer'
    BY <2>2, <2>4 DEF InBuffer, End
  <2>7. NoWaste'
    <3>1. size \in Nat /\ peak \in Nat /\ peak' \in Nat /\ peak <= peak'
      BY <2>4 DEF ArenaTypeOK
    <3>2. CASE size = InitSize
      BY <3>2, <2>2 DEF NoWaste
    <3>3. CASE size < 2 * peak
      BY <3>1, <3>3, <2>2, TwiceMonotone DEF NoWaste
    <3> QED BY <3>2, <3>3 DEF NoWaste
  <2>8. Growing'
    BY <2>2, <2>3 DEF Growing
  <2> QED BY <2>4, <2>5, <2>6, <2>7, <2>8
<1>2. ASSUME NEW n \in Requests, arena_alloc_grow(n) PROVE ArenaInv'
  <2>1. Align(n) \in Nat /\ Align(n) % 8 = 0
    BY ArenaAssumption, AlignFacts
  <2>2. ArenaTypeOK' /\ Growing'
    BY <1>2, <2>1 DEF arena_alloc_grow, ArenaTypeOK, Growing
  <2> QED BY <1>2, <2>2
          DEF arena_alloc_grow, Disjoint, InBuffer, Aligned, NoWaste, End
<1>3. ASSUME double PROVE ArenaInv'
  <2>1. ArenaTypeOK' /\ Growing'
    BY <1>3 DEF double, ArenaTypeOK, Growing
  <2> QED BY <1>3, <2>1
          DEF double, Disjoint, InBuffer, Aligned, NoWaste, End
<1>4. ASSUME realloc_ok PROVE ArenaInv'
  <2>1. /\ request \in Nat /\ request % 8 = 0
        /\ buf' \in Nat
        /\ HandOut(buf', request)
        /\ size' = new_size /\ pc' = "idle" /\ request' = 0 /\ new_size' = 0
        /\ used + request <= new_size /\ new_size < 2 * (used + request)
        /\ used \in Nat /\ new_size \in Nat /\ new_size # 0
    BY <1>4 DEF realloc_ok, ArenaTypeOK, Growing
  <2>2. /\ blocks' \subseteq Block
        /\ Disjoint'
        /\ used' = used + request
        /\ \A c \in blocks' : End(c) <= used'
        /\ Aligned'
        /\ used' % 8 = 0
        /\ peak' \in Nat /\ used + request <= peak' /\ peak <= peak'
    BY <2>1, HandOutKeeps
  <2>3. ArenaTypeOK' /\ used' <= peak'
    BY <2>1, <2>2 DEF ArenaTypeOK
  <2>4. InBuffer'
    BY <2>1, <2>2 DEF InBuffer, End
  <2>6. NoWaste'
    <3>1. /\ size' \in Nat /\ used + request \in Nat /\ peak' \in Nat
          /\ size' < 2 * (used + request) /\ used + request <= peak'
      BY <2>1, <2>2
    <3> QED BY <3>1, TwiceMonotone DEF NoWaste
  <2>5. Growing'
    BY <2>1 DEF Growing
  <2> QED BY <2>2, <2>3, <2>4, <2>5, <2>6
<1>5. ASSUME realloc_fails PROVE ArenaInv'
  BY <1>5 DEF realloc_fails, ArenaTypeOK, Disjoint, InBuffer, Aligned, NoWaste,
              Growing, End
<1>6. ASSUME arena_reset PROVE ArenaInv'
  BY <1>6 DEF arena_reset, ArenaTypeOK, Disjoint, InBuffer, Aligned, NoWaste,
              Growing
<1>7. ASSUME arena_destroy PROVE ArenaInv'
  BY <1>7 DEF arena_destroy, ArenaTypeOK, Disjoint, InBuffer, Aligned, NoWaste,
              Growing
<1>8. ASSUME UNCHANGED arena PROVE ArenaInv'
  BY <1>8 DEF arena, ArenaTypeOK, Disjoint, InBuffer, Aligned, NoWaste, Growing, End
<1> QED BY <1>1, <1>2, <1>3, <1>4, <1>5, <1>6, <1>7, <1>8 DEF ArenaNext

\* The strengthened invariant holds in every state of every arena.
THEOREM ArenaIInv == ArenaSpec => []ArenaInv
  BY ArenaInitHolds, ArenaStepKeeps, PTL DEF ArenaSpec

\* The variables keep their types, for every size and set of requests.
THEOREM ArenaTypes == ArenaSpec => []ArenaTypeOK
<1>1. ArenaInv => ArenaTypeOK
  BY DEF ArenaInv
<1> QED BY <1>1, ArenaIInv, PTL

\* No byte of the arena is handed out twice between two resets, no block ends
\* behind the buffer, and every block is aligned, however the buffer grows and
\* whatever realloc answers.
THEOREM ArenaBlocksSound == ArenaSpec => []BlocksSound
<1>1. ArenaInv => BlocksSound
  BY DEF ArenaInv, BlocksSound
<1> QED BY <1>1, ArenaIInv, PTL

\* Doubling never overshoots to twice what is needed.
THEOREM ArenaNoWaste == ArenaSpec => []NoWaste
<1>1. ArenaInv => NoWaste
  BY DEF ArenaInv
<1> QED BY <1>1, ArenaIInv, PTL
-----------------------------------------------------------------------------
(* Pointers.  Inside the loop of arena_alloc more is needed than the buffer *)
(* holds, so a growth that succeeds lifts peak above the initial size.      *)
NeverGrown ==
  peak <= InitSize => size = InitSize /\ \A b \in blocks : b.buf = buf

\* A growth that succeeds leaves more than InitSize needed.
LEMMA StepNeverGrown == ArenaInv /\ NeverGrown /\ [ArenaNext]_arena => NeverGrown'
<1> SUFFICES ASSUME ArenaInv, NeverGrown, [ArenaNext]_arena, peak' <= InitSize
             PROVE  size' = InitSize /\ \A b \in blocks' : b.buf = buf'
  BY DEF NeverGrown
<1>1. peak \in Nat /\ used \in Nat /\ request \in Nat /\ size \in Nat
      /\ InitSize \in Nat
  BY ArenaAssumption DEF ArenaInv, ArenaTypeOK
<1>2. ASSUME NEW n \in Nat, NEW b, HandOut(b, n)
      PROVE  peak <= peak' /\ used + n <= peak'
  BY <1>1, <1>2 DEF HandOut, Atleast
<1>3. ASSUME NEW n \in Requests, arena_alloc_fits(n)
      PROVE  size' = InitSize /\ \A b \in blocks' : b.buf = buf'
  <2>1. Align(n) \in Nat /\ HandOut(buf, Align(n)) /\ UNCHANGED <<buf, size>>
    BY <1>3, ArenaAssumption, AlignFacts DEF arena_alloc_fits
  <2>2. size = InitSize /\ \A b \in blocks : b.buf = buf
    BY <1>1, <1>2, <2>1 DEF NeverGrown, HandOut, Atleast
  <2> QED BY <2>1, <2>2 DEF HandOut
<1>4. ASSUME realloc_ok PROVE FALSE
  <2>1. HandOut(buf', request) /\ used + request > size
    BY <1>4 DEF realloc_ok, ArenaInv, Growing
  <2>2. peak <= peak' /\ used + request <= peak'
    BY <1>1, <1>2, <2>1
  <2>3. peak' \in Nat
    BY <1>1, <2>1 DEF HandOut, Atleast
  <2>4. size = InitSize
    BY <1>1, <2>2, <2>3 DEF NeverGrown
  <2> QED BY <1>1, <2>1, <2>2, <2>3, <2>4
<1>5. CASE \/ \E n \in Requests : arena_alloc_grow(n)
           \/ double \/ realloc_fails \/ UNCHANGED arena
  BY <1>5 DEF NeverGrown, arena_alloc_grow, double, realloc_fails, arena
<1>6. CASE arena_reset \/ arena_destroy
  BY <1>6 DEF NeverGrown, arena_reset, arena_destroy
<1> QED BY <1>3, <1>4, <1>5, <1>6 DEF ArenaNext

\* A compilation that fits the megabyte main.c creates the arena with has no
\* dangling pointer into it; the run arena_moves shows that a larger one can.
THEOREM ArenaGoodWhileSmall == ArenaSpec => []GoodWhileSmall
<1>1. ArenaInit => NeverGrown
  BY DEF ArenaInit, NeverGrown
<1>2. NeverGrown => GoodWhileSmall
  BY DEF NeverGrown, GoodWhileSmall
<1> QED BY <1>1, <1>2, StepNeverGrown, ArenaIInv, PTL DEF ArenaSpec
-----------------------------------------------------------------------------
\* The three together are inductive: Bounded is what keeps Write from cutting
\* off the text that WholeUnlessLost is about.
BuilderInv == BuilderTypeOK /\ Bounded /\ WholeUnlessLost

\* Before the first piece.
LEMMA EmptyText == <<>> \in Seq(Chars) /\ Len(<<>>) = 0
  OBVIOUS

\* The text up to its own length is the text.
LEMMA SelfPrefix ==
  ASSUME NEW s \in Seq(Chars)
  PROVE  SubSeq(s, 1, Len(s)) = s
  OBVIOUS

\* sb_appendf cuts nothing off a number.
LEMMA FormattedWhole ==
  ASSUME NEW s \in Numbers
  PROVE  s \in Seq(Chars) /\ Formatted(s) = s
  BY StringBuilderAssumption DEF Formatted

\* What Write does to a builder that is in order.
LEMMA Written ==
  ASSUME BuilderInv, use = "live", NEW s \in Seq(Chars), Write(s)
  PROVE  data' = data \o s /\ data' \in Seq(Chars) /\ len' = Len(data') /\ len' = len + Len(s)
<1>1. data \in Seq(Chars) /\ len = Len(data)
  BY DEF BuilderInv, BuilderTypeOK, Bounded
<1>2. data' = data \o s
  BY <1>1, SelfPrefix DEF Write
<1>3. len' = len + Len(s)
  BY DEF Write
<1> QED
  BY <1>1, <1>2, <1>3

\* Appending a piece keeps the invariant, whether it fits, grows the buffer,
\* is dropped or is written through NULL.
LEMMA AppendStep ==
  ASSUME BuilderInv, NEW s \in Seq(Chars), Append_piece(s), asked' = asked \o s
  PROVE  BuilderInv'
<1> USE DEF BuilderInv
<1>1. use = "live" /\ asked' \in Seq(Chars) /\ Len(s) \in Nat /\ Capacities \subseteq Nat
  BY StringBuilderAssumption DEF Append_piece, BuilderTypeOK
<1>2. CASE append_there(s)
  <2>1. data' = data \o s /\ data' \in Seq(Chars) /\ len' = Len(data') /\ len' = len + Len(s)
    BY <1>1, <1>2, Written DEF append_there
  <2>2. BuilderTypeOK'
    BY <1>1, <1>2, <2>1 DEF append_there, BuilderTypeOK, Write
  <2>3. Bounded'
    BY <1>1, <1>2, <2>1 DEF append_there, BuilderTypeOK, Bounded, Fits
  <2>4. WholeUnlessLost'
    BY <1>1, <1>2, <2>1 DEF append_there, WholeUnlessLost
  <2> QED
    BY <2>2, <2>3, <2>4
<1>3. CASE append_grown(s)
  <2>1. data' = data \o s /\ data' \in Seq(Chars) /\ len' = Len(data') /\ len' = len + Len(s)
    BY <1>1, <1>3, Written DEF append_grown
  <2>2. cap' \in Capacities /\ len + Len(s) + 1 <= cap'
    BY <1>3 DEF append_grown, Doubled, Enough
  <2>3. cap' # 0
    BY <2>2, StringBuilderAssumption
  <2>4. BuilderTypeOK'
    BY <1>1, <1>3, <2>1, <2>2, <2>3 DEF append_grown, BuilderTypeOK, Write
  <2>5. Bounded'
    BY <1>1, <2>1, <2>2 DEF BuilderTypeOK, Bounded
  <2>6. WholeUnlessLost'
    BY <1>1, <1>3, <2>1 DEF append_grown, WholeUnlessLost
  <2> QED
    BY <2>4, <2>5, <2>6
<1>4. CASE append_dropped(s)
  BY <1>1, <1>4 DEF append_dropped, BuilderTypeOK, Bounded, WholeUnlessLost
<1>5. CASE append_null(s)
  BY <1>1, <1>5 DEF append_null, BuilderTypeOK, Bounded, WholeUnlessLost
<1> QED
  BY <1>2, <1>3, <1>4, <1>5 DEF Append_piece

\* Handing over and freeing keep it.
LEMMA ResetStep ==
  ASSUME BuilderInv, sb_to_string \/ sb_free
  PROVE  BuilderInv'
<1>1. data' \in Seq(Chars)
  <2>1. CASE sb_to_string
    BY <2>1 DEF BuilderInv, BuilderTypeOK, sb_to_string
  <2>2. CASE sb_free
    BY <2>2, EmptyText DEF sb_free
  <2> QED
    BY <2>1, <2>2
<1>2. use' \in {"handed", "freed"} /\ held' = FALSE /\ asked' = asked /\ lost' = lost
      /\ len' = 0 /\ cap' = 0
  BY DEF sb_to_string, sb_free, Reset
<1>3. BuilderTypeOK'
  BY <1>1, <1>2 DEF BuilderInv, BuilderTypeOK
<1>4. Bounded' /\ WholeUnlessLost'
  BY DEF BuilderInv, Bounded, WholeUnlessLost, sb_to_string, sb_free, Reset
<1> QED
  BY <1>3, <1>4 DEF BuilderInv

\* sb_init establishes it.
LEMMA InitStep ==
  ASSUME BuilderInv, sb_init
  PROVE  BuilderInv'
<1>1. Cap0 \in Capacities /\ Cap0 \in Nat /\ 0 + 1 <= Cap0 /\ Cap0 # 0
  BY StringBuilderAssumption
<1>2. held' \in BOOLEAN
  BY DEF sb_init
<1>3. data' = <<>> /\ asked' = <<>> /\ len' = 0 /\ cap' = Cap0 /\ use' = "live" /\ lost' = FALSE
  BY DEF sb_init
<1>4. BuilderTypeOK'
  BY <1>1, <1>2, <1>3, EmptyText DEF BuilderTypeOK
<1>5. Bounded'
  BY <1>1, <1>3, EmptyText DEF Bounded
<1>6. WholeUnlessLost'
  BY <1>3 DEF WholeUnlessLost
<1> QED
  BY <1>4, <1>5, <1>6 DEF BuilderInv

\* The invariant of the builder under any caller.
LEMMA BuilderInvHolds == BuilderSpec => []BuilderInv
<1>1. BuilderInit => BuilderInv
  <2> SUFFICES ASSUME BuilderInit PROVE BuilderInv
    OBVIOUS
  <2>1. BuilderTypeOK
    BY EmptyText DEF BuilderInit, BuilderTypeOK
  <2> QED
    BY <2>1 DEF BuilderInit, BuilderInv, Bounded, WholeUnlessLost
<1>2. BuilderInv /\ [BuilderNext]_builder => BuilderInv'
  <2> SUFFICES ASSUME BuilderInv, [BuilderNext]_builder
               PROVE  BuilderInv'
    OBVIOUS
  <2>1. CASE sb_init
    BY <2>1, InitStep
  <2>2. CASE sb_to_string \/ sb_free
    BY <2>2, ResetStep
  <2>3. CASE \E s \in Pieces : sb_append(s)
    BY <2>3, AppendStep, StringBuilderAssumption DEF sb_append
  <2>4. CASE \E s \in Numbers : sb_appendf(s)
    BY <2>4, AppendStep, FormattedWhole DEF sb_appendf
  <2>5. CASE UNCHANGED builder
    BY <2>5 DEF builder, BuilderInv, BuilderTypeOK, Bounded, WholeUnlessLost
  <2> QED
    BY <2>1, <2>2, <2>3, <2>4, <2>5 DEF BuilderNext
<1> QED
  BY <1>1, <1>2, PTL DEF BuilderSpec

\* Every append leaves the length and the terminator inside the buffer, and
\* the length is that of the text.
THEOREM BuilderBounded == BuilderSpec => []Bounded
<1>1. BuilderInv => Bounded
  BY DEF BuilderInv
<1> QED
  BY <1>1, BuilderInvHolds, PTL

\* The text handed over is the concatenation of what was appended, unless a
\* realloc failed: neither growing nor printing numbers loses anything.
THEOREM BuilderKeepsText == BuilderSpec => []WholeUnlessLost
<1>1. BuilderInv => WholeUnlessLost
  BY DEF BuilderInv
<1> QED
  BY <1>1, BuilderInvHolds, PTL
-----------------------------------------------------------------------------
(* Recursion over the positions of a sequence.                               *)

\* Every set of numbers that is not empty has a least one.
LEMMA Least ==
  ASSUME NEW S \in SUBSET Nat, S # {}
  PROVE  \E x \in S : \A y \in S : x <= y
<1> DEFINE T == {0..x : x \in S}
<1>1. T \subseteq FiniteSubsetsOf(Nat) /\ T # {}
  <2>1. \A x \in S : IsFiniteSet(0..x)
    BY FS_Interval
  <2>2. \A x \in S : 0..x \in FiniteSubsetsOf(Nat)
    <3> TAKE x \in S
    <3>1. 0..x \in SUBSET Nat
      OBVIOUS
    <3> QED BY <2>1, <3>1 DEF FiniteSubsetsOf
  <2> QED BY <2>2
<1>2. IsWellFoundedOn(StrictSubsetOrdering(Nat), FiniteSubsetsOf(Nat))
  BY FS_StrictSubsetOrderingWellFounded
<1>3. \E t \in T : \A u \in T : ~(<<u, t>> \in StrictSubsetOrdering(Nat))
  <2> HIDE DEF T
  <2> QED BY <1>1, <1>2, WFMin
<1>4. PICK x \in S : \A u \in T : ~(<<u, 0..x>> \in StrictSubsetOrdering(Nat))
  BY <1>3
<1>5. \A y \in S : x <= y
  <2> SUFFICES ASSUME NEW y \in S, y < x PROVE FALSE
    OBVIOUS
  <2>1. 0..y \in T
    OBVIOUS
  <2>2. 0..y \subseteq 0..x /\ 0..y # 0..x
    <3>1. x \in 0..x /\ x \notin 0..y
      OBVIOUS
    <3> QED BY <3>1
  <2>3. 0..y \in SUBSET Nat /\ 0..x \in SUBSET Nat
    OBVIOUS
  <2>4. <<0..y, 0..x>> \in StrictSubsetOrdering(Nat)
    BY <2>2, <2>3 DEF StrictSubsetOrdering
  <2> QED BY <1>4, <2>1, <2>4
<1> QED BY <1>5

\* Induction up to n.
LEMMA Upwards ==
  ASSUME NEW n \in Nat, NEW G, 0 \in G, \A k \in 0..n : k < n /\ k \in G => k + 1 \in G
  PROVE  \A k \in 0..n : k \in G
<1> SUFFICES ASSUME NEW j \in 0..n, j \notin G PROVE FALSE
  OBVIOUS
<1> DEFINE B == {k \in 0..n : k \notin G}
<1>1. B \in SUBSET Nat /\ B # {}
  OBVIOUS
<1>2. PICK k \in B : \A y \in B : k <= y
  <2> HIDE DEF B
  <2> QED BY <1>1, Least
<1>3. k - 1 \in 0..n /\ k - 1 < n /\ k - 1 + 1 = k /\ k \notin G
  BY <1>2
<1>4. k - 1 \in G
  BY <1>2, <1>3
<1> QED BY <1>3, <1>4

\* A function on 1..n is a sequence of length n.
LEMMA FunctionSeq ==
  ASSUME NEW S, NEW n \in Nat, NEW g \in [1..n -> S]
  PROVE  g \in Seq(S) /\ Len(g) = n
OBVIOUS

\* What leads from one value in X to the next, n times.
StepsIn(n, X) == [1..n -> [X -> X]]

\* A function on 0..n that goes by such steps.
Goes(w, n, X, base, step) ==
  w \in [0..n -> X] /\ w[0] = base /\ \A i \in 1..n : w[i] = step[i][w[i - 1]]

\* Steps from every value to the next define a function on 0..n.
LEMMA Recursion ==
  ASSUME NEW n \in Nat, NEW X, NEW base \in X, NEW step \in StepsIn(n, X)
  PROVE  \E w : Goes(w, n, X, base, step)
<1> DEFINE Follows(w, k) == w[0] = base /\ \A i \in 1..k : w[i] = step[i][w[i - 1]]
           G == {k \in 0..n : \E w \in [0..k -> X] : Follows(w, k)}
<1>1. 0 \in G
  <2> DEFINE w == [i \in 0..0 |-> base]
  <2>1. w \in [0..0 -> X] /\ Follows(w, 0)
    OBVIOUS
  <2>2. 0 \in 0..n
    OBVIOUS
  <2> HIDE DEF w, Follows
  <2> QED BY <2>1, <2>2
<1>2. ASSUME NEW k \in 0..n, k < n, k \in G PROVE k + 1 \in G
  <2>1. PICK v \in [0..k -> X] : Follows(v, k)
    BY <1>2
  <2>2. k + 1 \in 1..n /\ k \in 0..k /\ k + 1 \in 0..n
    BY <1>2
  <2>3. step[k + 1] \in [X -> X] /\ v[k] \in X
    BY <2>2 DEF StepsIn
  <2>4. step[k + 1][v[k]] \in X
    BY <2>3
  <2> DEFINE x == step[k + 1][v[k]]
             w == [i \in 0..(k + 1) |-> IF i = k + 1 THEN x ELSE v[i]]
  <2> HIDE DEF x
  <2>5. w \in [0..(k + 1) -> X]
    BY <2>4 DEF x
  <2>6. w[0] = base /\ \A i \in 0..k : w[i] = v[i]
    BY <2>1
  <2>7. w[k + 1] = step[k + 1][w[k]]
    <3>1. w[k + 1] = x /\ w[k] = v[k]
      BY <2>2
    <3> QED BY <3>1 DEF x
  <2>8. ASSUME NEW i \in 1..(k + 1) PROVE w[i] = step[i][w[i - 1]]
    <3>1. CASE i = k + 1
      <4>1. i - 1 = k
        BY <3>1
      <4> QED BY <2>7, <3>1, <4>1
    <3>2. CASE i \in 1..k
      <4>1. i \in 0..k /\ i - 1 \in 0..k
        BY <3>2
      <4>2. v[i] = step[i][v[i - 1]]
        BY <2>1, <3>2
      <4> HIDE DEF w
      <4> QED BY <2>6, <4>1, <4>2
    <3> QED BY <3>1, <3>2
  <2> QED BY <2>2, <2>5, <2>6, <2>8
<1>3. n \in G
  <2> HIDE DEF G
  <2>1. \A k \in 0..n : k \in G
    BY <1>1, <1>2, Upwards
  <2> QED BY <2>1
<1> QED BY <1>3 DEF Goes

\* FlattenSeq appends one sequence after the other.
LEMMA FlattenIs ==
  ASSUME NEW T, NEW seqs \in Seq(Seq(T))
  PROVE  \E w \in [0..Len(seqs) -> Seq(T)] :
           /\ w[0] = <<>>
           /\ \A i \in 1..Len(seqs) : w[i] = w[i - 1] \o seqs[i]
           /\ FlattenSeq(seqs) = w[Len(seqs)]
<1> DEFINE n == Len(seqs)
           X == Seq(T)
           step == [i \in 1..n |-> [x \in X |-> x \o seqs[i]]]
           Flat(f) == f = [i \in 1..n |-> IF i = 1 THEN seqs[i] ELSE f[i - 1] \o seqs[i]]
<1>1. n \in Nat /\ <<>> \in X /\ \A i \in 1..n : seqs[i] \in X
  OBVIOUS
<1>2. \A x, y \in X : x \o y \in X
  OBVIOUS
<1>3. \A x \in X : <<>> \o x = x
  OBVIOUS
<1> HIDE DEF X, n
<1>4. step \in StepsIn(n, X)
  BY <1>1, <1>2 DEF StepsIn
<1>5. PICK w \in [0..n -> X] : w[0] = <<>> /\ \A i \in 1..n : w[i] = step[i][w[i - 1]]
  <2> HIDE DEF step
  <2>1. \E w : Goes(w, n, X, <<>>, step)
    BY <1>1, <1>4, Recursion
  <2> QED BY <2>1 DEF Goes
<1>6. ASSUME NEW i \in 1..n PROVE w[i - 1] \in X /\ w[i] = w[i - 1] \o seqs[i]
  <2>1. i - 1 \in 0..n
    BY <1>1
  <2>2. w[i - 1] \in X
    BY <2>1
  <2>3. step[i] = [x \in X |-> x \o seqs[i]]
    OBVIOUS
  <2>4. w[i] = step[i][w[i - 1]]
    BY <1>5
  <2> HIDE DEF step
  <2> QED BY <2>2, <2>3, <2>4
<1>7. CASE n = 0
  <2>1. FlattenSeq(seqs) = <<>>
    BY <1>7 DEF FlattenSeq, n
  <2> QED BY <1>5, <1>6, <1>7, <2>1 DEF n, X
<1>8. CASE n # 0
  <2> DEFINE f == [i \in 1..n |-> w[i]]
             g == CHOOSE h : Flat(h)
  <2>1. Flat(f)
    <3>1. ASSUME NEW i \in 1..n
          PROVE  f[i] = IF i = 1 THEN seqs[i] ELSE f[i - 1] \o seqs[i]
      <4>1. CASE i = 1
        <5>1. i - 1 = 0
          BY <4>1
        <5>2. w[i] = <<>> \o seqs[i]
          BY <1>5, <1>6, <5>1
        <5> QED BY <1>1, <1>3, <4>1, <5>2
      <4>2. CASE i # 1
        <5>1. i - 1 \in 1..n
          BY <1>1, <4>2
        <5> QED BY <1>6, <4>2, <5>1
      <4> QED BY <4>1, <4>2
    <3> QED BY <3>1
  <2>2. \A i \in 1..n : g[i] = IF i = 1 THEN seqs[i] ELSE g[i - 1] \o seqs[i]
    <3>1. Flat(g)
      <4> HIDE DEF f, Flat
      <4> QED BY <2>1
    <3> HIDE DEF g
    <3> QED BY <3>1
  <2>3. FlattenSeq(seqs) = g[n]
    BY <1>8 DEF FlattenSeq, n
  <2> HIDE DEF f, g, step
  <2>4. ASSUME NEW i \in 1..n, i = 1 \/ g[i - 1] = w[i - 1]
        PROVE  g[i] = w[i]
    <3>1. w[i] = w[i - 1] \o seqs[i]
      BY <1>6
    <3>2. CASE i = 1
      <4>1. i - 1 = 0 /\ g[i] = seqs[i] /\ seqs[i] \in X
        BY <1>1, <2>2, <3>2
      <4> QED BY <1>3, <1>5, <3>1, <4>1
    <3>3. CASE i # 1
      BY <2>2, <2>4, <3>1, <3>3
    <3> QED BY <3>2, <3>3
  <2> DEFINE G == {k \in 0..n : k = 0 \/ g[k] = w[k]}
  <2>7. ASSUME NEW k \in 0..n, k < n, k \in G PROVE k + 1 \in G
    <3> DEFINE i == k + 1
    <3>1. i \in 1..n /\ i - 1 = k /\ i \in 0..n /\ (k = 0 => i = 1)
      BY <1>1, <2>7
    <3>2. k = 0 \/ g[k] = w[k]
      BY <2>7
    <3> HIDE DEF i
    <3>3. g[i] = w[i]
      BY <2>4, <3>1, <3>2
    <3>4. i \in G
      BY <3>1, <3>3
    <3> QED BY <3>4 DEF i
  <2>5. n \in G
    <3>1. 0 \in G
      BY <1>1
    <3> HIDE DEF G
    <3>2. \A k \in 0..n : k \in G
      BY <1>1, <2>7, <3>1, Upwards
    <3> QED BY <1>1, <3>2
  <2>6. g[n] = w[n]
    BY <1>8, <2>5
  <2> QED BY <1>5, <1>6, <2>3, <2>6 DEF n, X
<1> QED BY <1>7, <1>8

-----------------------------------------------------------------------------
(* What a list of pieces says, and whether gcc would take it.                *)

\* The tokens of the first k pieces, and of all.
Up(list, k) == UNION {Range(list[m]) : m \in 1..k}
Said(list) == Up(list, Len(list))

\* What holds of a token and the set of tokens above it: no function is there
\* twice and, where the sources use no habit, gcc finds what it asks for.
Fits_gcc(above, t) ==
  /\ t.kind = "type" => Token("end_struct", t.name) \in above
  /\ t.kind = "call" => Token("prototype", t.name) \in above
  /\ t.kind \in {"struct", "prototype", "function"} => Token("struct", t.name) \notin above

Suits(above, t) ==
  /\ t.kind = "function" => Token("function", t.name) \notin above
  /\ Habits = {} => Fits_gcc(above, t)

\* Every token of the list suits what is above it, below the set given.
Sound(above, list) ==
  \A i \in 1..Len(list) : \A t \in Range(list[i]) : Suits(above \cup Up(list, i - 1), t)

\* One list after the other.
LEMMA ConcatUp ==
  ASSUME NEW S, NEW s \in Seq(S), NEW t \in Seq(S)
  PROVE  /\ \A k \in 0..Len(s) : Up(s \o t, k) = Up(s, k)
         /\ \A k \in 0..Len(t) : Up(s \o t, Len(s) + k) = Said(s) \cup Up(t, k)
         /\ Said(s \o t) = Said(s) \cup Said(t)
<1> DEFINE u == s \o t
           l == Len(s)
           n == Len(t)
<1>1. l \in Nat /\ n \in Nat /\ Len(u) = l + n
  OBVIOUS
<1>2. \A i \in 1..l : u[i] = s[i]
  OBVIOUS
<1>3. \A i \in 1..n : u[l + i] = t[i]
  OBVIOUS
<1> HIDE DEF u, l, n
<1>4. ASSUME NEW k \in 0..l PROVE Up(u, k) = Up(s, k)
  <2>1. \A m \in 1..k : u[m] = s[m]
    BY <1>1, <1>2
  <2> QED BY <2>1 DEF Up
<1>5. ASSUME NEW k \in 0..n PROVE Up(u, l + k) = Up(s, l) \cup Up(t, k)
  <2>1. ASSUME NEW m \in 1..(l + k)
        PROVE  \/ m \in 1..l /\ u[m] = s[m]
               \/ m - l \in 1..k /\ u[m] = t[m - l]
    <3>1. CASE m <= l
      BY <1>1, <1>2, <3>1
    <3>2. CASE m > l
      <4> DEFINE i == m - l
      <4>1. i \in 1..k /\ i \in 1..n /\ l + i = m
        BY <1>1, <3>2
      <4> HIDE DEF i
      <4>2. u[l + i] = t[i]
        BY <1>3, <4>1
      <4>3. u[m] = t[i]
        BY <4>1, <4>2
      <4> QED BY <4>1, <4>3 DEF i
    <3> QED BY <1>1, <3>1, <3>2
  <2>2. \A m \in 1..l : m \in 1..(l + k) /\ u[m] = s[m]
    BY <1>1, <1>2
  <2>3. \A i \in 1..k : l + i \in 1..(l + k) /\ u[l + i] = t[i]
    BY <1>1, <1>3
  <2>4. Up(u, l + k) \subseteq Up(s, l) \cup Up(t, k)
    BY <2>1 DEF Up
  <2>5. Up(s, l) \subseteq Up(u, l + k)
    BY <2>2 DEF Up
  <2>6. Up(t, k) \subseteq Up(u, l + k)
    BY <2>3 DEF Up
  <2> QED BY <2>4, <2>5, <2>6
<1>6. Up(u, Len(u)) = Up(s, l) \cup Up(t, n)
  BY <1>1, <1>5
<1> QED BY <1>4, <1>5, <1>6 DEF Said, u, l, n

\* A list below another, both sound where they stand, makes a sound list.
LEMMA ConcatSound ==
  ASSUME NEW S, NEW s \in Seq(S), NEW t \in Seq(S), NEW above,
         Sound(above, s), Sound(above \cup Said(s), t)
  PROVE  Sound(above, s \o t)
<1> DEFINE u == s \o t
           l == Len(s)
           n == Len(t)
<1>1. l \in Nat /\ n \in Nat /\ Len(u) = l + n
  OBVIOUS
<1>2. \A i \in 1..l : u[i] = s[i]
  OBVIOUS
<1>3. \A i \in 1..n : u[l + i] = t[i]
  OBVIOUS
<1>4. /\ \A k \in 0..l : Up(u, k) = Up(s, k)
      /\ \A k \in 0..n : Up(u, l + k) = Said(s) \cup Up(t, k)
  BY ConcatUp
<1>5. /\ \A i \in 1..l : \A x \in Range(s[i]) : Suits(above \cup Up(s, i - 1), x)
      /\ \A i \in 1..n : \A x \in Range(t[i]) : Suits((above \cup Said(s)) \cup Up(t, i - 1), x)
  BY DEF Sound
<1> HIDE DEF u, l, n
<1>6. SUFFICES ASSUME NEW m \in 1..(l + n), NEW x \in Range(u[m])
               PROVE  Suits(above \cup Up(u, m - 1), x)
  BY <1>1 DEF Sound, u
<1>7. CASE m <= l
  <2>1. m \in 1..l /\ m - 1 \in 0..l
    BY <1>1, <1>7
  <2>2. Up(u, m - 1) = Up(s, m - 1) /\ u[m] = s[m]
    BY <1>2, <1>4, <2>1
  <2> QED BY <1>5, <2>1, <2>2
<1>8. CASE m > l
  <2> DEFINE i == m - l
  <2>1. i \in 1..n /\ i - 1 \in 0..n /\ l + i = m /\ l + (i - 1) = m - 1
    BY <1>1, <1>8
  <2> HIDE DEF i
  <2>2. Up(u, m - 1) = Said(s) \cup Up(t, i - 1)
    BY <1>4, <2>1
  <2>3. u[m] = t[i]
    BY <1>3, <2>1
  <2>4. above \cup Up(u, m - 1) = (above \cup Said(s)) \cup Up(t, i - 1)
    BY <2>2
  <2> QED BY <1>5, <2>1, <2>3, <2>4
<1> QED BY <1>1, <1>7, <1>8

\* The tokens of the first k of several lists.
Through(lists, k) == UNION {Said(lists[m]) : m \in 1..k}

\* So do any number of lists, each sound below those before it.
LEMMA FlattenSound ==
  ASSUME NEW S, NEW lists \in Seq(Seq(S)), NEW above,
         \A i \in 1..Len(lists) : Sound(above \cup Through(lists, i - 1), lists[i])
  PROVE  /\ FlattenSeq(lists) \in Seq(S)
         /\ Sound(above, FlattenSeq(lists))
         /\ Said(FlattenSeq(lists)) = Through(lists, Len(lists))
<1> DEFINE n == Len(lists)
           X == Seq(S)
<1>1. n \in Nat /\ \A i \in 1..n : lists[i] \in X
  OBVIOUS
<1>2. PICK w \in [0..n -> X] :
           /\ w[0] = <<>>
           /\ \A i \in 1..n : w[i] = w[i - 1] \o lists[i]
           /\ FlattenSeq(lists) = w[n]
  BY FlattenIs
<1>3. \A i \in 1..n : Sound(above \cup Through(lists, i - 1), lists[i])
  OBVIOUS
<1> HIDE DEF n
<1> DEFINE Holds(k) == Sound(above, w[k]) /\ Said(w[k]) = Through(lists, k)
<1>4. Holds(0)
  <2>1. Len(w[0]) = 0 /\ 1..0 = {}
    BY <1>2
  <2> QED BY <2>1 DEF Sound, Said, Up, Through
<1>5. ASSUME NEW i \in 1..n, Holds(i - 1) PROVE Holds(i)
  <2> DEFINE j == i - 1
  <2>1. j \in 0..n /\ i \in Nat \ {0} /\ 1..i = (1..j) \cup {i}
    BY <1>1
  <2>2. w[i] = w[j] \o lists[i] /\ w[j] \in X /\ lists[i] \in X
    BY <1>1, <1>2, <2>1
  <2>3. Sound(above, w[j]) /\ Said(w[j]) = Through(lists, j)
    BY <1>5
  <2>4. Sound(above \cup Through(lists, j), lists[i])
    BY <1>3
  <2> HIDE DEF j
  <2>5. Sound(above, w[i])
    BY <2>2, <2>3, <2>4, ConcatSound
  <2>6. Said(w[i]) = Said(w[j]) \cup Said(lists[i])
    BY <2>2, ConcatUp
  <2>7. Through(lists, i) = Through(lists, j) \cup Said(lists[i])
    BY <2>1 DEF Through
  <2> QED BY <2>3, <2>5, <2>6, <2>7
<1> DEFINE G == {k \in 0..n : Holds(k)}
<1>6. \A k \in 0..n : k \in G
  <2>1. 0 \in G
    BY <1>1, <1>4
  <2>2. ASSUME NEW k \in 0..n, k < n, k \in G PROVE k + 1 \in G
    <3> DEFINE i == k + 1
    <3>1. i \in 1..n /\ i \in 0..n /\ i - 1 = k
      BY <1>1, <2>2
    <3>2. Holds(k)
      BY <2>2
    <3> HIDE DEF i, Holds
    <3>3. Holds(i)
      BY <1>5, <3>1, <3>2
    <3>4. i \in G
      BY <3>1, <3>3
    <3> QED BY <3>4 DEF i
  <2> HIDE DEF G
  <2> QED BY <1>1, <2>1, <2>2, Upwards
<1>7. Holds(n)
  BY <1>1, <1>6
<1>8. w[n] \in X
  BY <1>1
<1> QED BY <1>2, <1>7, <1>8 DEF n

-----------------------------------------------------------------------------
(* What codegen_to_c writes.                                                 *)

\* The pieces it appends.
Out == {<<Token(k, n)>> : k \in Kinds, n \in Names} \cup {Literal}

\* The fields of a token.
LEMMA TokenIs ==
  ASSUME NEW k, NEW n
  PROVE  Token(k, n).kind = k /\ Token(k, n).name = n
  BY DEF Token

\* A piece of one token.
LEMMA PieceSound ==
  ASSUME NEW k \in Kinds, NEW n \in Names, NEW above
  PROVE  /\ Piece(k, n) \in Seq(Out)
         /\ Said(Piece(k, n)) = {Token(k, n)}
         /\ Suits(above, Token(k, n)) => Sound(above, Piece(k, n))
<1> DEFINE t == Token(k, n)
           piece == <<t>>
           list == <<piece>>
<1>1. piece \in Out
  BY DEF Out
<1>2. Range(piece) = {t}
  <2>1. DOMAIN piece = {1} /\ piece[1] = t
    OBVIOUS
  <2> HIDE DEF piece
  <2> QED BY <2>1 DEF Range
<1> HIDE DEF piece, t
<1>3. Len(list) = 1 /\ list[1] = piece /\ list \in Seq(Out)
  BY <1>1
<1> HIDE DEF list
<1>4. 1..1 = {1} /\ 1..(1 - 1) = {}
  OBVIOUS
<1>5. Up(list, 1) = {t} /\ Up(list, 1 - 1) = {}
  BY <1>2, <1>3, <1>4 DEF Up
<1>6. Said(list) = {t}
  BY <1>3, <1>5 DEF Said
<1>7. ASSUME Suits(above, t) PROVE Sound(above, list)
  <2> SUFFICES ASSUME NEW i \in 1..1, NEW x \in Range(list[i])
               PROVE  Suits(above \cup Up(list, i - 1), x)
    BY <1>3 DEF Sound
  <2>1. i = 1 /\ x = t
    BY <1>2, <1>3, <1>4
  <2>2. above \cup Up(list, i - 1) = above
    BY <1>5, <2>1
  <2> QED BY <1>7, <2>1, <2>2
<1> QED BY <1>3, <1>6, <1>7 DEF Piece, list, piece, t

\* A list of names, each a piece, that suit whatever comes between them.
LEMMA NamesSound ==
  ASSUME NEW names \in Seq(Names), NEW k \in Kinds, NEW above, NEW lists,
         lists = [n \in DOMAIN names |-> Piece(k, names[n])],
         \A x \in Range(names) : \A more : Suits(above \cup more, Token(k, x))
  PROVE  /\ FlattenSeq(lists) \in Seq(Out)
         /\ Sound(above, FlattenSeq(lists))
         /\ Said(FlattenSeq(lists)) = {Token(k, x) : x \in Range(names)}
<1>1. DOMAIN names = 1..Len(names) /\ Len(names) \in Nat /\ \A i \in 1..Len(names) : names[i] \in Names
  OBVIOUS
<1>2. \A i \in 1..Len(names) : lists[i] = Piece(k, names[i]) /\ lists[i] \in Seq(Out)
                               /\ Said(lists[i]) = {Token(k, names[i])}
  BY <1>1, PieceSound
<1>3. lists \in Seq(Seq(Out)) /\ Len(lists) = Len(names)
  BY <1>1, <1>2
<1>4. ASSUME NEW i \in 1..Len(lists)
      PROVE  Sound(above \cup Through(lists, i - 1), lists[i])
  <2>1. i \in 1..Len(names) /\ names[i] \in Range(names) /\ names[i] \in Names
    BY <1>1, <1>3 DEF Range
  <2>2. Suits(above \cup Through(lists, i - 1), Token(k, names[i]))
    BY <2>1
  <2> QED BY <1>2, <2>1, <2>2, PieceSound
<1>5. Through(lists, Len(lists)) = {Token(k, x) : x \in Range(names)}
  <2>1. Range(names) = {names[i] : i \in 1..Len(names)}
    BY <1>1 DEF Range
  <2>2. ASSUME NEW t \in Through(lists, Len(names)) PROVE t \in {Token(k, x) : x \in Range(names)}
    <3>1. PICK i \in 1..Len(names) : t \in Said(lists[i])
      BY DEF Through
    <3>2. t = Token(k, names[i])
      BY <1>2, <3>1
    <3> QED BY <2>1, <3>2
  <2>3. ASSUME NEW x \in Range(names) PROVE Token(k, x) \in Through(lists, Len(names))
    <3>1. PICK i \in 1..Len(names) : x = names[i]
      BY <2>1
    <3>2. Token(k, x) \in Said(lists[i])
      BY <1>2, <3>1
    <3> QED BY <3>2 DEF Through
  <2> QED BY <1>3, <2>2, <2>3
<1> QED BY <1>3, <1>4, <1>5, FlattenSound

\* The types a struct or a signature names suit as long as their structs are above.
LEMMA TypesSound ==
  ASSUME NEW types \in Seq(Names), NEW above,
         Habits = {} => \A x \in Range(types) : Token("end_struct", x) \in above
  PROVE  /\ Each(types, emit_type) \in Seq(Out)
         /\ Sound(above, Each(types, emit_type))
         /\ Said(Each(types, emit_type)) = {Token("type", x) : x \in Range(types)}
<1>1. ASSUME NEW x \in Range(types), NEW more PROVE Suits(above \cup more, Token("type", x))
  BY TokenIs DEF Suits, Fits_gcc
<1> DEFINE lists == [n \in DOMAIN types |-> Piece("type", types[n])]
           each == FlattenSeq(lists)
<1>2. Each(types, emit_type) = each
  BY DEF Each, emit_type
<1>3. "type" \in Kinds
  BY DEF Kinds
<1>4. lists = [n \in DOMAIN types |-> Piece("type", types[n])]
  OBVIOUS
<1> HIDE DEF lists
<1>5. /\ each \in Seq(Out) /\ Sound(above, each)
      /\ Said(each) = {Token("type", x) : x \in Range(types)}
  BY <1>1, <1>3, <1>4, NamesSound
<1> HIDE DEF each
<1> QED BY <1>2, <1>5

\* The functions a body calls suit as long as their prototypes are above.
LEMMA CallsSound ==
  ASSUME NEW calls \in Seq(Names), NEW above,
         Habits = {} => \A x \in Range(calls) : Token("prototype", x) \in above
  PROVE  /\ Each(calls, emit_call) \in Seq(Out)
         /\ Sound(above, Each(calls, emit_call))
         /\ Said(Each(calls, emit_call)) = {Token("call", x) : x \in Range(calls)}
<1>1. ASSUME NEW x \in Range(calls), NEW more PROVE Suits(above \cup more, Token("call", x))
  BY TokenIs DEF Suits, Fits_gcc
<1> DEFINE lists == [n \in DOMAIN calls |-> Piece("call", calls[n])]
           each == FlattenSeq(lists)
<1>2. Each(calls, emit_call) = each
  BY DEF Each, emit_call
<1>3. "call" \in Kinds
  BY DEF Kinds
<1>4. lists = [n \in DOMAIN calls |-> Piece("call", calls[n])]
  OBVIOUS
<1> HIDE DEF lists
<1>5. /\ each \in Seq(Out) /\ Sound(above, each)
      /\ Said(each) = {Token("call", x) : x \in Range(calls)}
  BY <1>1, <1>3, <1>4, NamesSound
<1> HIDE DEF each
<1> QED BY <1>2, <1>5

\* The types some names are written as.
Typed_names(names) == {Token("type", x) : x \in Range(names)}

\* A struct suits below the structs of its fields and no other of its name.
LEMMA StructSound ==
  ASSUME NEW sd \in Struct, NEW above,
         Habits = {} => /\ Token("struct", sd.name) \notin above
                        /\ \A x \in Range(sd.types) : Token("end_struct", x) \in above
  PROVE  /\ emit_struct(sd) \in Seq(Out)
         /\ Sound(above, emit_struct(sd))
         /\ Said(emit_struct(sd)) =
              {Token("struct", sd.name), Token("end_struct", sd.name)} \cup Typed_names(sd.types)
<1>1. sd.name \in Names /\ sd.types \in Seq(Names) /\ {"struct", "end_struct"} \subseteq Kinds
  BY DEF Struct, Kinds
<1> DEFINE a == Piece("struct", sd.name)
           b == Each(sd.types, emit_type)
           c == Piece("end_struct", sd.name)
           A == above \cup {Token("struct", sd.name)}
<1>2. a \in Seq(Out) /\ c \in Seq(Out) /\ Said(a) = {Token("struct", sd.name)}
      /\ Said(c) = {Token("end_struct", sd.name)}
  BY <1>1, PieceSound
<1>3. Sound(above, a)
  <2>1. Suits(above, Token("struct", sd.name))
    BY TokenIs DEF Suits, Fits_gcc
  <2> QED BY <1>1, <2>1, PieceSound
<1>4. b \in Seq(Out) /\ Sound(A, b) /\ Said(b) = Typed_names(sd.types)
  BY <1>1, TypesSound DEF Typed_names
<1>5. Sound(above \cup Said(a \o b), c)
  <2>1. Suits(above \cup Said(a \o b), Token("end_struct", sd.name))
    BY TokenIs DEF Suits, Fits_gcc
  <2> QED BY <1>1, <2>1, PieceSound
<1> HIDE DEF a, b, c
<1>6. a \o b \in Seq(Out) /\ (a \o b) \o c \in Seq(Out)
  BY <1>2, <1>4
<1>7. Sound(above, a \o b) /\ Said(a \o b) = Said(a) \cup Said(b)
  <2>1. a \in Seq(Out) /\ b \in Seq(Out) /\ Sound(above, a) /\ Sound(above \cup Said(a), b)
    BY <1>2, <1>3, <1>4
  <2>2. Sound(above, a \o b)
    BY <2>1, ConcatSound
  <2> QED BY <2>1, <2>2, ConcatUp
<1>8. Sound(above, (a \o b) \o c) /\ Said((a \o b) \o c) = Said(a \o b) \cup Said(c)
  <2> DEFINE ab == a \o b
  <2>1. ab \in Seq(Out) /\ Sound(above, ab) /\ Sound(above \cup Said(ab), c)
    BY <1>5, <1>6, <1>7
  <2> HIDE DEF ab
  <2>2. Sound(above, ab \o c) /\ Said(ab \o c) = Said(ab) \cup Said(c)
    BY <1>2, <2>1, ConcatSound, ConcatUp
  <2> QED BY <2>2 DEF ab
<1>9. emit_struct(sd) = (a \o b) \o c
  BY DEF emit_struct, a, b, c
<1>10. Said((a \o b) \o c) = {Token("struct", sd.name), Token("end_struct", sd.name)}
                               \cup Typed_names(sd.types)
  BY <1>2, <1>4, <1>7, <1>8
<1> QED BY <1>6, <1>8, <1>9, <1>10

\* A prototype suits below the structs of its types and none of its name.
LEMMA PrototypeSound ==
  ASSUME NEW f \in Func, NEW above,
         Habits = {} => /\ Token("struct", f.name) \notin above
                        /\ \A x \in Range(f.types) : Token("end_struct", x) \in above
  PROVE  /\ prototype(f) \in Seq(Out)
         /\ Sound(above, prototype(f))
         /\ Said(prototype(f)) = {Token("prototype", f.name)} \cup Typed_names(f.types)
<1>1. f.name \in Names /\ f.types \in Seq(Names) /\ "prototype" \in Kinds
  BY DEF Func, Kinds
<1> DEFINE a == Piece("prototype", f.name)
           b == Each(f.types, emit_type)
           A == above \cup {Token("prototype", f.name)}
<1>2. a \in Seq(Out) /\ Said(a) = {Token("prototype", f.name)}
  BY <1>1, PieceSound
<1>3. Sound(above, a)
  <2>1. Suits(above, Token("prototype", f.name))
    BY TokenIs DEF Suits, Fits_gcc
  <2> QED BY <1>1, <2>1, PieceSound
<1>4. b \in Seq(Out) /\ Sound(A, b) /\ Said(b) = Typed_names(f.types)
  BY <1>1, TypesSound DEF Typed_names
<1> HIDE DEF a, b
<1>5. a \o b \in Seq(Out)
  BY <1>2, <1>4
<1>6. Sound(above, a \o b) /\ Said(a \o b) = Said(a) \cup Said(b)
  BY <1>2, <1>3, <1>4, ConcatSound, ConcatUp
<1>7. prototype(f) = a \o b
  BY DEF prototype, a, b
<1> QED BY <1>2, <1>4, <1>5, <1>6, <1>7

\* A literal suits everywhere.
LEMMA LiteralSound ==
  ASSUME NEW above
  PROVE  /\ <<Literal>> \in Seq(Out)
         /\ Sound(above, <<Literal>>)
         /\ Said(<<Literal>>) = {Token("digit", "")}
<1> DEFINE list == <<Literal>>
<1>1. Range(Literal) = {Token("digit", "")}
  <2>1. DOMAIN Literal = {1, 2} /\ Literal[1] = Token("digit", "") /\ Literal[2] = Token("digit", "")
    BY DEF Literal
  <2> QED BY <2>1 DEF Range
<1>2. Literal \in Out
  BY DEF Out
<1>3. Len(list) = 1 /\ list[1] = Literal /\ list \in Seq(Out)
  BY <1>2
<1> HIDE DEF list
<1>4. 1..1 = {1}
  OBVIOUS
<1>5. Said(list) = {Token("digit", "")}
  BY <1>1, <1>3, <1>4 DEF Said, Up
<1>6. ASSUME NEW A PROVE Suits(A, Token("digit", ""))
  <2>1. Token("digit", "").kind = "digit"
    BY TokenIs
  <2> DEFINE t == Token("digit", "")
  <2> HIDE DEF t
  <2>2. t.kind = "digit"
    BY <2>1 DEF t
  <2>3. Suits(A, t)
    BY <2>2 DEF Suits, Fits_gcc
  <2> QED BY <2>3 DEF t
<1>7. Sound(above, list)
  BY <1>1, <1>3, <1>4, <1>6 DEF Sound
<1> QED BY <1>3, <1>5, <1>7 DEF list

\* A function suits below the prototypes it calls and no function of its name.
LEMMA FunctionSound ==
  ASSUME NEW f \in Func, NEW above,
         Token("function", f.name) \notin above,
         Habits = {} => /\ Token("struct", f.name) \notin above
                        /\ \A x \in Range(f.types) : Token("end_struct", x) \in above
                        /\ \A x \in Range(f.calls) : Token("prototype", x) \in above
  PROVE  /\ emit_function(f) \in Seq(Out)
         /\ Sound(above, emit_function(f))
         /\ Said(emit_function(f)) =
              {Token("function", f.name), Token("digit", ""), Token("end_function", f.name)}
              \cup Typed_names(f.types) \cup {Token("call", x) : x \in Range(f.calls)}
<1>1. /\ f.name \in Names /\ f.types \in Seq(Names) /\ f.calls \in Seq(Names)
      /\ {"function", "end_function"} \subseteq Kinds
  BY DEF Func, Kinds
<1> DEFINE a == Piece("function", f.name)
           b == Each(f.types, emit_type)
           c == Each(f.calls, emit_call)
           d == <<Literal>>
           e == Piece("end_function", f.name)
           A == above \cup {Token("function", f.name)}
<1>2. a \in Seq(Out) /\ e \in Seq(Out) /\ Said(a) = {Token("function", f.name)}
      /\ Said(e) = {Token("end_function", f.name)}
  BY <1>1, PieceSound
<1>3. Sound(above, a)
  <2>1. Suits(above, Token("function", f.name))
    BY TokenIs DEF Suits, Fits_gcc
  <2> QED BY <1>1, <2>1, PieceSound
<1>4. b \in Seq(Out) /\ Sound(above \cup Said(a), b) /\ Said(b) = Typed_names(f.types)
  <2>1. Habits = {} => \A x \in Range(f.types) : Token("end_struct", x) \in above \cup Said(a)
    OBVIOUS
  <2> QED BY <1>1, <2>1, TypesSound DEF Typed_names
<1>5. c \in Seq(Out) /\ Sound(above \cup Said(a \o b), c)
      /\ Said(c) = {Token("call", x) : x \in Range(f.calls)}
  <2>1. Habits = {} => \A x \in Range(f.calls) : Token("prototype", x) \in above \cup Said(a \o b)
    OBVIOUS
  <2> QED BY <1>1, <2>1, CallsSound
<1>6. d \in Seq(Out) /\ Sound(above \cup Said((a \o b) \o c), d) /\ Said(d) = {Token("digit", "")}
  BY LiteralSound
<1>7. Sound(above \cup Said(((a \o b) \o c) \o d), e)
  <2>1. Suits(above \cup Said(((a \o b) \o c) \o d), Token("end_function", f.name))
    BY TokenIs DEF Suits, Fits_gcc
  <2> QED BY <1>1, <2>1, PieceSound
<1> HIDE DEF a, b, c, d, e
<1> DEFINE ab == a \o b
           abc == ab \o c
           abcd == abc \o d
           abcde == abcd \o e
<1>8. ab \in Seq(Out) /\ Sound(above, ab) /\ Said(ab) = Said(a) \cup Said(b)
  BY <1>2, <1>3, <1>4, ConcatSound, ConcatUp
<1> HIDE DEF ab
<1>9. abc \in Seq(Out) /\ Sound(above, abc) /\ Said(abc) = Said(ab) \cup Said(c)
  <2>1. Sound(above \cup Said(ab), c)
    BY <1>5 DEF ab
  <2> QED BY <1>5, <1>8, <2>1, ConcatSound, ConcatUp
<1> HIDE DEF abc
<1>10. abcd \in Seq(Out) /\ Sound(above, abcd) /\ Said(abcd) = Said(abc) \cup Said(d)
  <2>1. Sound(above \cup Said(abc), d)
    BY <1>6 DEF ab, abc
  <2>2. d \in Seq(Out) /\ abc \in Seq(Out) /\ Sound(above, abc)
    BY <1>6, <1>9
  <2> QED BY <2>1, <2>2, ConcatSound, ConcatUp
<1> HIDE DEF abcd
<1>11. abcde \in Seq(Out) /\ Sound(above, abcde) /\ Said(abcde) = Said(abcd) \cup Said(e)
  <2>1. Sound(above \cup Said(abcd), e)
    BY <1>7 DEF ab, abc, abcd
  <2> QED BY <1>2, <1>10, <2>1, ConcatSound, ConcatUp
<1>12. emit_function(f) = abcde
  BY DEF emit_function, a, b, c, d, e, ab, abc, abcd
<1>13. Said(abcde) = {Token("function", f.name), Token("digit", ""), Token("end_function", f.name)}
                     \cup Typed_names(f.types) \cup {Token("call", x) : x \in Range(f.calls)}
  <2>1. Said(abcde) = (((Said(a) \cup Said(b)) \cup Said(c)) \cup Said(d)) \cup Said(e)
    BY <1>8, <1>9, <1>10, <1>11
  <2>2. /\ Said(a) = {Token("function", f.name)} /\ Said(b) = Typed_names(f.types)
        /\ Said(c) = {Token("call", x) : x \in Range(f.calls)}
        /\ Said(d) = {Token("digit", "")} /\ Said(e) = {Token("end_function", f.name)}
    BY <1>2, <1>4, <1>5, <1>6
  <2> QED BY <2>1, <2>2, Zenon
<1> HIDE DEF abcde
<1> QED BY <1>11, <1>12, <1>13

\* Tokens are told apart by kind and name.
LEMMA TokensDiffer ==
  ASSUME NEW k, NEW n, NEW l, NEW m, Token(k, n) = Token(l, m)
  PROVE  k = l /\ n = m
  BY TokenIs

\* What a struct, a prototype and a function say, wherever they stand.
LEMMA SaidIs ==
  /\ \A sd \in Struct :
       /\ emit_struct(sd) \in Seq(Out)
       /\ Said(emit_struct(sd)) =
            {Token("struct", sd.name), Token("end_struct", sd.name)} \cup Typed_names(sd.types)
  /\ \A f \in Func :
       /\ prototype(f) \in Seq(Out) /\ emit_function(f) \in Seq(Out)
       /\ Said(prototype(f)) = {Token("prototype", f.name)} \cup Typed_names(f.types)
       /\ Said(emit_function(f)) =
            {Token("function", f.name), Token("digit", ""), Token("end_function", f.name)}
            \cup Typed_names(f.types) \cup {Token("call", x) : x \in Range(f.calls)}
<1> DEFINE all == {Token(k, n) : k \in {"end_struct", "prototype"}, n \in Names}
<1>1. \A n \in Names : Token("end_struct", n) \in all /\ Token("prototype", n) \in all
  OBVIOUS
<1>2. \A n : Token("struct", n) \notin all /\ Token("function", n) \notin all
  <2> SUFFICES ASSUME NEW t \in all PROVE t.kind \notin {"struct", "function"}
    BY TokenIs
  <2>1. PICK k \in {"end_struct", "prototype"}, n \in Names : t = Token(k, n)
    OBVIOUS
  <2> QED BY <2>1, TokenIs
<1>3. \A names \in Seq(Names) : Range(names) \subseteq Names
  BY DEF Range
<1> HIDE DEF all
<1>4. ASSUME NEW sd \in Struct
      PROVE  /\ emit_struct(sd) \in Seq(Out)
             /\ Said(emit_struct(sd)) =
                  {Token("struct", sd.name), Token("end_struct", sd.name)} \cup Typed_names(sd.types)
  <2>1. Range(sd.types) \subseteq Names
    BY <1>3 DEF Struct
  <2>2. /\ Token("struct", sd.name) \notin all
        /\ \A x \in Range(sd.types) : Token("end_struct", x) \in all
    BY <1>1, <1>2, <2>1
  <2> QED BY <2>2, StructSound
<1>5. ASSUME NEW f \in Func
      PROVE  /\ prototype(f) \in Seq(Out) /\ emit_function(f) \in Seq(Out)
             /\ Said(prototype(f)) = {Token("prototype", f.name)} \cup Typed_names(f.types)
             /\ Said(emit_function(f)) =
                  {Token("function", f.name), Token("digit", ""), Token("end_function", f.name)}
                  \cup Typed_names(f.types) \cup {Token("call", x) : x \in Range(f.calls)}
  <2>1. Range(f.types) \subseteq Names /\ Range(f.calls) \subseteq Names
    BY <1>3 DEF Func
  <2>2. /\ Token("struct", f.name) \notin all
        /\ Token("function", f.name) \notin all
        /\ \A x \in Range(f.types) : Token("end_struct", x) \in all
        /\ \A x \in Range(f.calls) : Token("prototype", x) \in all
    BY <1>1, <1>2, <2>1
  <2> QED BY <2>2, PrototypeSound, FunctionSound
<1> QED BY <1>4, <1>5

\* The names of some definitions.
LEMMA NamesAre ==
  ASSUME NEW defs
  PROVE  /\ Range(NamesOf(defs)) = {defs[n].name : n \in DOMAIN defs}
         /\ Distinct(NamesOf(defs)) =>
              \A m, n \in DOMAIN defs : defs[m].name = defs[n].name => m = n
<1> DEFINE names == [n \in DOMAIN defs |-> defs[n].name]
<1>1. DOMAIN names = DOMAIN defs /\ \A n \in DOMAIN defs : names[n] = defs[n].name
  OBVIOUS
<1>2. NamesOf(defs) = names
  BY DEF NamesOf
<1> HIDE DEF names
<1>3. Range(names) = {defs[n].name : n \in DOMAIN defs}
  BY <1>1 DEF Range
<1>4. Distinct(names) => \A m, n \in DOMAIN defs : defs[m].name = defs[n].name => m = n
  BY <1>1 DEF Distinct
<1> QED BY <1>2, <1>3, <1>4

\* What the headers declare.
Given == Declared(Range(Headers))

\* A Program the checker accepts, made of sources that use no habit if there
\* is none to use.
Ready(p) ==
  /\ p \in File
  /\ Distinct(NamesOf(p.funcs))
  /\ \A f \in Range(p.funcs) : Range(f.calls) \subseteq Range(NamesOf(p.funcs))
  /\ Habits = {} => /\ Orderly(p)
                    /\ Distinct(NamesOf(p.structs))
                    /\ Range(NamesOf(p.structs)) \cap Range(NamesOf(p.funcs)) = {}
                    /\ (Range(NamesOf(p.structs)) \cup Range(NamesOf(p.funcs))) \cap Given = {}

\* The parts of a Program.
LEMMA ReadyIs ==
  ASSUME NEW p, Ready(p)
  PROVE  /\ p.structs \in Seq(Struct) /\ p.funcs \in Seq(Func)
         /\ Range(NamesOf(p.structs)) = {p.structs[n].name : n \in 1..Len(p.structs)}
         /\ Range(NamesOf(p.funcs)) = {p.funcs[n].name : n \in 1..Len(p.funcs)}
         /\ \A m, n \in 1..Len(p.funcs) : p.funcs[m].name = p.funcs[n].name => m = n
         /\ \A n \in 1..Len(p.funcs) : \A x \in Range(p.funcs[n].calls) :
              x \in {p.funcs[m].name : m \in 1..Len(p.funcs)}
<1>1. p.structs \in Seq(Struct) /\ p.funcs \in Seq(Func)
  BY DEF Ready, File
<1>2. DOMAIN p.structs = 1..Len(p.structs) /\ DOMAIN p.funcs = 1..Len(p.funcs)
  BY <1>1
<1>3. Range(NamesOf(p.funcs)) = {p.funcs[n].name : n \in 1..Len(p.funcs)}
  BY <1>2, NamesAre
<1>4. \A n \in 1..Len(p.funcs) : p.funcs[n] \in Range(p.funcs)
  BY <1>2 DEF Range
<1>5. \A n \in 1..Len(p.funcs) : Range(p.funcs[n].calls) \subseteq Range(NamesOf(p.funcs))
  BY <1>4 DEF Ready
<1> QED BY <1>1, <1>2, <1>3, <1>5, NamesAre DEF Ready

\* And of one whose sources use no habit.
LEMMA OrderlyIs ==
  ASSUME NEW p, Ready(p), Habits = {}
  PROVE  /\ \A m, n \in 1..Len(p.structs) : p.structs[m].name = p.structs[n].name => m = n
         /\ \A m \in 1..Len(p.structs), n \in 1..Len(p.funcs) : p.structs[m].name # p.funcs[n].name
         /\ \A n \in 1..Len(p.structs) : \A x \in Range(p.structs[n].types) :
              \E m \in 1..(n - 1) : x = p.structs[m].name
         /\ \A n \in 1..Len(p.funcs) : \A x \in Range(p.funcs[n].types) :
              \E m \in 1..Len(p.structs) : x = p.structs[m].name
         /\ \A n \in 1..Len(p.structs) : p.structs[n].name \notin Given
         /\ \A n \in 1..Len(p.funcs) : p.funcs[n].name \notin Given
<1>1. p.structs \in Seq(Struct) /\ p.funcs \in Seq(Func)
  BY DEF Ready, File
<1>2. DOMAIN p.structs = 1..Len(p.structs) /\ DOMAIN p.funcs = 1..Len(p.funcs)
  BY <1>1
<1>3. \A m, n \in 1..Len(p.structs) : p.structs[m].name = p.structs[n].name => m = n
  BY <1>2, NamesAre DEF Ready
<1>4. \A m \in 1..Len(p.structs), n \in 1..Len(p.funcs) : p.structs[m].name # p.funcs[n].name
  <2> SUFFICES ASSUME NEW m \in 1..Len(p.structs), NEW n \in 1..Len(p.funcs),
                      p.structs[m].name = p.funcs[n].name
               PROVE  FALSE
    OBVIOUS
  <2>1. p.structs[m].name \in Range(NamesOf(p.structs))
    BY <1>2, NamesAre
  <2>2. p.funcs[n].name \in Range(NamesOf(p.funcs))
    BY <1>2, NamesAre
  <2> QED BY <2>1, <2>2 DEF Ready
<1>5. Orderly(p)
  BY DEF Ready
<1>6. \A n \in 1..Len(p.structs) : \A x \in Range(p.structs[n].types) :
        \E m \in 1..(n - 1) : x = p.structs[m].name
  <2> SUFFICES ASSUME NEW n \in 1..Len(p.structs), NEW x \in Range(p.structs[n].types)
               PROVE  \E m \in 1..(n - 1) : x = p.structs[m].name
    OBVIOUS
  <2>1. Range(p.structs[n].types) \subseteq Known(p.structs, n - 1)
    BY <1>2, <1>5 DEF Orderly
  <2>2. x \in Known(p.structs, n - 1)
    BY <2>1
  <2> QED BY <2>2 DEF Known
<1>7. \A n \in 1..Len(p.funcs) : \A x \in Range(p.funcs[n].types) :
        \E m \in 1..Len(p.structs) : x = p.structs[m].name
  <2>1. \A n \in 1..Len(p.funcs) : p.funcs[n] \in Range(p.funcs)
    BY <1>2 DEF Range
  <2>2. \A f \in Range(p.funcs) : Range(f.types) \subseteq Known(p.structs, Len(p.structs))
    BY <1>5 DEF Orderly
  <2> QED BY <2>1, <2>2 DEF Known
<1>8. \A n \in 1..Len(p.structs) : p.structs[n].name \notin Given
  <2>1. \A n \in 1..Len(p.structs) : p.structs[n].name \in Range(NamesOf(p.structs))
    BY <1>2, NamesAre
  <2> QED BY <2>1 DEF Ready
<1>9. \A n \in 1..Len(p.funcs) : p.funcs[n].name \notin Given
  <2>1. \A n \in 1..Len(p.funcs) : p.funcs[n].name \in Range(NamesOf(p.funcs))
    BY <1>2, NamesAre
  <2> QED BY <2>1 DEF Ready
<1> QED BY <1>3, <1>4, <1>6, <1>7, <1>8, <1>9

\* The headers suit everywhere.
LEMMA HeadersSound ==
  LET part == Each(Headers, include)
  IN  /\ part \in Seq(Out) /\ Sound({}, part)
      /\ Said(part) = {Token("include", x) : x \in Range(Headers)}
<1>1. Headers \in Seq(Names)
  <2>1. Headers \in Seq(Range(Headers))
    BY DEF Headers, Range
  <2> QED BY <2>1, CTextAssumption
<1>2. ASSUME NEW x \in Range(Headers), NEW more PROVE Suits({} \cup more, Token("include", x))
  <2> DEFINE t == Token("include", x)
  <2>1. t.kind = "include"
    BY TokenIs
  <2> HIDE DEF t
  <2>2. Suits({} \cup more, t)
    BY <2>1 DEF Suits, Fits_gcc
  <2> QED BY <2>2 DEF t
<1> DEFINE lists == [n \in DOMAIN Headers |-> Piece("include", Headers[n])]
           each == FlattenSeq(lists)
<1>3. Each(Headers, include) = each
  BY DEF Each, include
<1>4. "include" \in Kinds
  BY DEF Kinds
<1>5. lists = [n \in DOMAIN Headers |-> Piece("include", Headers[n])]
  OBVIOUS
<1> HIDE DEF lists
<1>6. /\ each \in Seq(Out) /\ Sound({}, each)
      /\ Said(each) = {Token("include", x) : x \in Range(Headers)}
  BY <1>1, <1>2, <1>4, <1>5, NamesSound
<1> HIDE DEF each
<1> QED BY <1>3, <1>6

\* The structs: each below those it needs, and once.
LEMMA StructsSound ==
  ASSUME NEW p, Ready(p), NEW above, \A t \in above : t.kind = "include"
  PROVE  LET part == Each(p.structs, emit_struct)
         IN  /\ part \in Seq(Out) /\ Sound(above, part)
             /\ \A m \in 1..Len(p.structs) : Token("end_struct", p.structs[m].name) \in Said(part)
             /\ \A t \in Said(part) :
                  /\ t.kind \in {"struct", "end_struct", "type"}
                  /\ t.kind = "struct" => \E m \in 1..Len(p.structs) : t.name = p.structs[m].name
<1> DEFINE ss == p.structs
           lists == [n \in DOMAIN p.structs |-> emit_struct(p.structs[n])]
           part == FlattenSeq(lists)
<1>1. ss \in Seq(Struct) /\ Len(ss) \in Nat /\ DOMAIN ss = 1..Len(ss)
      /\ \A n \in 1..Len(ss) : ss[n] \in Struct
  BY ReadyIs
<1>2. \A n \in 1..Len(ss) : lists[n] = emit_struct(ss[n])
  BY <1>1
<1>3. ASSUME NEW n \in 1..Len(ss)
      PROVE  /\ lists[n] \in Seq(Out)
             /\ Said(lists[n]) =
                  {Token("struct", ss[n].name), Token("end_struct", ss[n].name)} \cup Typed_names(ss[n].types)
  BY <1>1, <1>2, SaidIs
<1>4. lists \in Seq(Seq(Out)) /\ Len(lists) = Len(ss)
  <2>1. DOMAIN lists = 1..Len(ss) /\ lists = [n \in DOMAIN lists |-> lists[n]]
    BY <1>1
  <2> HIDE DEF lists, ss
  <2>2. lists \in [1..Len(ss) -> Seq(Out)]
    BY <1>3, <2>1
  <2> QED BY <1>1, <2>2, FunctionSeq
<1>5. Each(p.structs, emit_struct) = part
  BY DEF Each
<1> HIDE DEF ss, lists
<1>6. ASSUME NEW n \in 1..Len(ss), NEW t \in Said(lists[n])
      PROVE  /\ t.kind \in {"struct", "end_struct", "type"}
             /\ t.kind = "struct" => t.name = ss[n].name
  <2>1. CASE t \in Typed_names(ss[n].types)
    BY <2>1, TokenIs DEF Typed_names
  <2>2. CASE t = Token("struct", ss[n].name)
    BY <2>2, TokenIs
  <2>3. CASE t = Token("end_struct", ss[n].name)
    BY <2>3, TokenIs
  <2> QED BY <1>3, <2>1, <2>2, <2>3
<1>7. ASSUME NEW i \in 1..Len(lists)
      PROVE  Sound(above \cup Through(lists, i - 1), lists[i])
  <2> DEFINE here == above \cup Through(lists, i - 1)
  <2>1. i \in 1..Len(ss) /\ ss[i] \in Struct /\ i \in Nat
    BY <1>1, <1>4
  <2>2. ASSUME Habits = {}, Token("struct", ss[i].name) \in here PROVE FALSE
    <3>0. Token("struct", ss[i].name) \notin above
      BY TokenIs
    <3>1. PICK m \in 1..(i - 1) : Token("struct", ss[i].name) \in Said(lists[m])
      BY <2>2, <3>0 DEF Through
    <3>2. m \in 1..Len(ss) /\ m # i
      BY <1>1, <2>1
    <3>3. ss[i].name = ss[m].name
      BY <1>6, <3>1, <3>2, TokenIs
    <3> QED BY <2>1, <2>2, <3>2, <3>3, OrderlyIs DEF ss
  <2>3. ASSUME Habits = {}, NEW x \in Range(ss[i].types) PROVE Token("end_struct", x) \in here
    <3>1. PICK m \in 1..(i - 1) : x = ss[m].name
      <4>1. \A n \in 1..Len(ss) : \A y \in Range(ss[n].types) : \E m \in 1..(n - 1) : y = ss[m].name
        BY <2>3, OrderlyIs DEF ss
      <4> QED BY <2>1, <2>3, <4>1
    <3>2. m \in 1..Len(ss)
      BY <1>1, <2>1
    <3>3. Token("end_struct", x) \in Said(lists[m])
      BY <1>3, <3>1, <3>2
    <3> QED BY <3>3 DEF Through
  <2>4. Sound(here, emit_struct(ss[i]))
    <3> HIDE DEF here
    <3> QED BY <2>1, <2>2, <2>3, StructSound
  <2> QED BY <1>2, <2>1, <2>4 DEF lists, ss
<1>8. part \in Seq(Out) /\ Sound(above, part) /\ Said(part) = Through(lists, Len(ss))
  BY <1>4, <1>7, FlattenSound
<1> HIDE DEF part
<1>9. \A m \in 1..Len(ss) : Token("end_struct", ss[m].name) \in Said(part)
  BY <1>3, <1>8 DEF Through
<1>10. ASSUME NEW t \in Said(part)
       PROVE  /\ t.kind \in {"struct", "end_struct", "type"}
              /\ t.kind = "struct" => \E m \in 1..Len(ss) : t.name = ss[m].name
  <2>1. PICK m \in 1..Len(ss) : t \in Said(lists[m])
    BY <1>8 DEF Through
  <2> QED BY <1>6, <2>1
<1> QED BY <1>5, <1>8, <1>9, <1>10 DEF ss

\* The prototypes: below the structs they need, and each with its own name.
LEMMA PrototypesSound ==
  ASSUME NEW p, Ready(p), NEW above,
         \A m \in 1..Len(p.structs) : Token("end_struct", p.structs[m].name) \in above,
         \A t \in above : /\ t.kind \in {"include", "struct", "end_struct", "type"}
                          /\ t.kind = "struct" => \E m \in 1..Len(p.structs) : t.name = p.structs[m].name
  PROVE  LET part == Each(p.funcs, prototype)
         IN  /\ part \in Seq(Out) /\ Sound(above, part)
             /\ \A m \in 1..Len(p.funcs) : Token("prototype", p.funcs[m].name) \in Said(part)
             /\ \A t \in Said(part) :
                  /\ t.kind \in {"prototype", "type"}
                  /\ t.kind = "prototype" => \E m \in 1..Len(p.funcs) : t.name = p.funcs[m].name
<1> DEFINE fs == p.funcs
           lists == [n \in DOMAIN p.funcs |-> prototype(p.funcs[n])]
           part == FlattenSeq(lists)
<1>1. fs \in Seq(Func) /\ Len(fs) \in Nat /\ DOMAIN fs = 1..Len(fs)
      /\ \A n \in 1..Len(fs) : fs[n] \in Func
  BY ReadyIs
<1>2. \A n \in 1..Len(fs) : lists[n] = prototype(fs[n])
  BY <1>1
<1>3. ASSUME NEW n \in 1..Len(fs)
      PROVE  /\ lists[n] \in Seq(Out)
             /\ Said(lists[n]) = {Token("prototype", fs[n].name)} \cup Typed_names(fs[n].types)
  BY <1>1, <1>2, SaidIs
<1>4. lists \in Seq(Seq(Out)) /\ Len(lists) = Len(fs)
  <2>1. DOMAIN lists = 1..Len(fs) /\ lists = [n \in DOMAIN lists |-> lists[n]]
    BY <1>1
  <2> HIDE DEF lists, fs
  <2>2. lists \in [1..Len(fs) -> Seq(Out)]
    BY <1>3, <2>1
  <2> QED BY <1>1, <2>2, FunctionSeq
<1>5. Each(p.funcs, prototype) = part
  BY DEF Each
<1> HIDE DEF fs, lists
<1>6. ASSUME NEW n \in 1..Len(fs), NEW t \in Said(lists[n])
      PROVE  /\ t.kind \in {"prototype", "type"}
             /\ t.kind = "prototype" => t.name = fs[n].name
  <2>1. CASE t \in Typed_names(fs[n].types)
    BY <2>1, TokenIs DEF Typed_names
  <2>2. CASE t = Token("prototype", fs[n].name)
    BY <2>2, TokenIs
  <2> QED BY <1>3, <2>1, <2>2
<1>7. ASSUME NEW i \in 1..Len(lists)
      PROVE  Sound(above \cup Through(lists, i - 1), lists[i])
  <2> DEFINE here == above \cup Through(lists, i - 1)
  <2>1. i \in 1..Len(fs) /\ fs[i] \in Func /\ i \in Nat
    BY <1>1, <1>4
  <2>2. ASSUME Habits = {}, Token("struct", fs[i].name) \in here PROVE FALSE
    <3>1. CASE Token("struct", fs[i].name) \in above
      <4>1. PICK m \in 1..Len(p.structs) : fs[i].name = p.structs[m].name
        BY <3>1, TokenIs
      <4> QED BY <2>1, <2>2, <4>1, OrderlyIs DEF fs
    <3>2. CASE Token("struct", fs[i].name) \in Through(lists, i - 1)
      <4>1. PICK m \in 1..(i - 1) : Token("struct", fs[i].name) \in Said(lists[m])
        BY <3>2 DEF Through
      <4>2. m \in 1..Len(fs)
        BY <1>1, <2>1
      <4> QED BY <1>6, <4>1, <4>2, TokenIs
    <3> QED BY <2>2, <3>1, <3>2
  <2>3. ASSUME Habits = {}, NEW x \in Range(fs[i].types) PROVE Token("end_struct", x) \in here
    <3>0. \A n \in 1..Len(p.funcs) : \A y \in Range(p.funcs[n].types) :
            \E m \in 1..Len(p.structs) : y = p.structs[m].name
      BY <2>3, OrderlyIs
    <3>1. PICK m \in 1..Len(p.structs) : x = p.structs[m].name
      BY <2>1, <3>0 DEF fs
    <3> QED BY <3>1
  <2>4. Sound(here, prototype(fs[i]))
    <3> HIDE DEF here
    <3> QED BY <2>1, <2>2, <2>3, PrototypeSound
  <2> QED BY <1>2, <2>1, <2>4 DEF lists, fs
<1>8. part \in Seq(Out) /\ Sound(above, part) /\ Said(part) = Through(lists, Len(fs))
  BY <1>4, <1>7, FlattenSound
<1> HIDE DEF part
<1>9. \A m \in 1..Len(fs) : Token("prototype", fs[m].name) \in Said(part)
  <2>1. \A m \in 1..Len(fs) : Token("prototype", fs[m].name) \in Said(lists[m])
    BY <1>3
  <2> QED BY <1>8, <2>1 DEF Through
<1>10. ASSUME NEW t \in Said(part)
       PROVE  /\ t.kind \in {"prototype", "type"}
              /\ t.kind = "prototype" => \E m \in 1..Len(fs) : t.name = fs[m].name
  <2>1. PICK m \in 1..Len(fs) : t \in Said(lists[m])
    BY <1>8 DEF Through
  <2> QED BY <1>6, <2>1
<1> QED BY <1>5, <1>8, <1>9, <1>10 DEF fs

\* The functions: below all structs and prototypes, and each with its own name.
LEMMA FunctionsSound ==
  ASSUME NEW p, Ready(p), NEW above,
         \A m \in 1..Len(p.structs) : Token("end_struct", p.structs[m].name) \in above,
         \A m \in 1..Len(p.funcs) : Token("prototype", p.funcs[m].name) \in above,
         \A t \in above : /\ t.kind \in {"include", "struct", "end_struct", "type", "prototype"}
                          /\ t.kind = "struct" => \E m \in 1..Len(p.structs) : t.name = p.structs[m].name
  PROVE  LET part == Each(p.funcs, emit_function)
         IN  /\ part \in Seq(Out) /\ Sound(above, part)
             /\ \A m \in 1..Len(p.funcs) : Token("function", p.funcs[m].name) \in Said(part)
             /\ \A t \in Said(part) :
                  /\ t.kind \notin {"include", "struct", "prototype"}
                  /\ t.kind = "function" => \E m \in 1..Len(p.funcs) : t.name = p.funcs[m].name
<1> DEFINE fs == p.funcs
           lists == [n \in DOMAIN p.funcs |-> emit_function(p.funcs[n])]
           part == FlattenSeq(lists)
<1>1. fs \in Seq(Func) /\ Len(fs) \in Nat /\ DOMAIN fs = 1..Len(fs)
      /\ \A n \in 1..Len(fs) : fs[n] \in Func
  BY ReadyIs
<1>2. \A n \in 1..Len(fs) : lists[n] = emit_function(fs[n])
  BY <1>1
<1>3. ASSUME NEW n \in 1..Len(fs)
      PROVE  /\ lists[n] \in Seq(Out)
             /\ Said(lists[n]) =
                  {Token("function", fs[n].name), Token("digit", ""), Token("end_function", fs[n].name)}
                  \cup Typed_names(fs[n].types) \cup {Token("call", x) : x \in Range(fs[n].calls)}
  BY <1>1, <1>2, SaidIs
<1>4. lists \in Seq(Seq(Out)) /\ Len(lists) = Len(fs)
  <2>1. DOMAIN lists = 1..Len(fs) /\ lists = [n \in DOMAIN lists |-> lists[n]]
    BY <1>1
  <2> HIDE DEF lists, fs
  <2>2. lists \in [1..Len(fs) -> Seq(Out)]
    BY <1>3, <2>1
  <2> QED BY <1>1, <2>2, FunctionSeq
<1>5. Each(p.funcs, emit_function) = part
  BY DEF Each
<1> HIDE DEF fs, lists
<1>6. ASSUME NEW n \in 1..Len(fs), NEW t \in Said(lists[n])
      PROVE  /\ t.kind \notin {"include", "struct", "prototype"}
             /\ t.kind = "function" => t.name = fs[n].name
  <2>1. CASE t \in Typed_names(fs[n].types)
    BY <2>1, TokenIs DEF Typed_names
  <2>2. CASE t \in {Token("call", x) : x \in Range(fs[n].calls)}
    BY <2>2, TokenIs
  <2>3. CASE t = Token("function", fs[n].name)
    BY <2>3, TokenIs
  <2>4. CASE t = Token("digit", "")
    <3>1. t.kind = "digit"
      BY <2>4, TokenIs
    <3> QED BY <3>1
  <2>5. CASE t = Token("end_function", fs[n].name)
    <3>1. t.kind = "end_function"
      BY <2>5, TokenIs
    <3> QED BY <3>1
  <2>6. \/ t = Token("function", fs[n].name) \/ t = Token("digit", "")
        \/ t = Token("end_function", fs[n].name)
        \/ t \in Typed_names(fs[n].types)
        \/ t \in {Token("call", x) : x \in Range(fs[n].calls)}
    BY <1>3
  <2> QED BY <2>1, <2>2, <2>3, <2>4, <2>5, <2>6
<1>7. ASSUME NEW i \in 1..Len(lists)
      PROVE  Sound(above \cup Through(lists, i - 1), lists[i])
  <2> DEFINE here == above \cup Through(lists, i - 1)
  <2>1. i \in 1..Len(fs) /\ fs[i] \in Func /\ i \in Nat
    BY <1>1, <1>4
  <2>2. ASSUME Habits = {}, Token("struct", fs[i].name) \in here PROVE FALSE
    <3>1. CASE Token("struct", fs[i].name) \in above
      <4>1. PICK m \in 1..Len(p.structs) : fs[i].name = p.structs[m].name
        BY <3>1, TokenIs
      <4> QED BY <2>1, <2>2, <4>1, OrderlyIs DEF fs
    <3>2. CASE Token("struct", fs[i].name) \in Through(lists, i - 1)
      <4>1. PICK m \in 1..(i - 1) : Token("struct", fs[i].name) \in Said(lists[m])
        BY <3>2 DEF Through
      <4>2. m \in 1..Len(fs)
        BY <1>1, <2>1
      <4> QED BY <1>6, <4>1, <4>2, TokenIs
    <3> QED BY <2>2, <3>1, <3>2
  <2>3. ASSUME Habits = {}, NEW x \in Range(fs[i].types) PROVE Token("end_struct", x) \in here
    <3>0. \A n \in 1..Len(p.funcs) : \A y \in Range(p.funcs[n].types) :
            \E m \in 1..Len(p.structs) : y = p.structs[m].name
      BY <2>3, OrderlyIs
    <3>1. PICK m \in 1..Len(p.structs) : x = p.structs[m].name
      BY <2>1, <3>0 DEF fs
    <3> QED BY <3>1
  <2>4. ASSUME NEW x \in Range(fs[i].calls) PROVE Token("prototype", x) \in here
    <3>0. \A n \in 1..Len(p.funcs) : \A y \in Range(p.funcs[n].calls) :
            y \in {p.funcs[m].name : m \in 1..Len(p.funcs)}
      BY ReadyIs
    <3>1. PICK m \in 1..Len(fs) : x = fs[m].name
      BY <2>1, <3>0 DEF fs
    <3> QED BY <3>1 DEF fs
  <2>5. ASSUME Token("function", fs[i].name) \in here PROVE FALSE
    <3>1. Token("function", fs[i].name) \notin above
      BY TokenIs
    <3>2. PICK m \in 1..(i - 1) : Token("function", fs[i].name) \in Said(lists[m])
      BY <2>5, <3>1 DEF Through
    <3>3. m \in 1..Len(fs) /\ m # i
      BY <1>1, <2>1
    <3>4. fs[i].name = fs[m].name
      BY <1>6, <3>2, <3>3, TokenIs
    <3> QED BY <2>1, <3>3, <3>4, ReadyIs DEF fs
  <2>6. Sound(here, emit_function(fs[i]))
    <3> HIDE DEF here
    <3> QED BY <2>1, <2>2, <2>3, <2>4, <2>5, FunctionSound
  <2> QED BY <1>2, <2>1, <2>6 DEF lists, fs
<1>8. part \in Seq(Out) /\ Sound(above, part) /\ Said(part) = Through(lists, Len(fs))
  BY <1>4, <1>7, FlattenSound
<1> HIDE DEF part
<1>9. \A m \in 1..Len(fs) : Token("function", fs[m].name) \in Said(part)
  <2>1. \A m \in 1..Len(fs) : Token("function", fs[m].name) \in Said(lists[m])
    BY <1>3
  <2> QED BY <1>8, <2>1 DEF Through
<1>10. ASSUME NEW t \in Said(part)
       PROVE  /\ t.kind \notin {"include", "struct", "prototype"}
              /\ t.kind = "function" => \E m \in 1..Len(fs) : t.name = fs[m].name
  <2>1. PICK m \in 1..Len(fs) : t \in Said(lists[m])
    BY <1>8 DEF Through
  <2> QED BY <1>6, <2>1
<1> QED BY <1>5, <1>8, <1>9, <1>10 DEF fs

\* The layout of a Program that is ready is sound from its first piece on; the
\* headers are those of the list, and no name is one of theirs.
LEMMA LayoutSound ==
  ASSUME NEW p, Ready(p)
  PROVE  /\ Layout(p) \in Seq(Out) /\ Sound({}, Layout(p))
         /\ \A m \in 1..Len(p.funcs) : Token("function", p.funcs[m].name) \in Said(Layout(p))
         /\ \A t \in Said(Layout(p)) :
              /\ t.kind = "include" => t.name \in Range(Headers)
              /\ Habits = {} /\ t.kind \in {"struct", "prototype", "function"} => t.name \notin Given
<1> DEFINE h == Each(Headers, include)
           a == Each(p.structs, emit_struct)
           b == Each(p.funcs, prototype)
           c == Each(p.funcs, emit_function)
<1>1. /\ h \in Seq(Out) /\ Sound({}, h)
      /\ \A t \in Said(h) : t.kind = "include" /\ t.name \in Range(Headers)
  <2> HIDE DEF h
  <2>1. h \in Seq(Out) /\ Sound({}, h) /\ Said(h) = {Token("include", x) : x \in Range(Headers)}
    BY HeadersSound DEF h
  <2> QED BY <2>1, TokenIs
<1> HIDE DEF h
<1>2. /\ a \in Seq(Out) /\ Sound(Said(h), a)
      /\ \A m \in 1..Len(p.structs) : Token("end_struct", p.structs[m].name) \in Said(a)
      /\ \A t \in Said(a) :
           /\ t.kind \in {"struct", "end_struct", "type"}
           /\ t.kind = "struct" => \E m \in 1..Len(p.structs) : t.name = p.structs[m].name
  <2> DEFINE above == Said(h)
  <2>1. \A t \in above : t.kind = "include"
    BY <1>1
  <2> HIDE DEF above
  <2>2. /\ a \in Seq(Out) /\ Sound(above, a)
        /\ \A m \in 1..Len(p.structs) : Token("end_struct", p.structs[m].name) \in Said(a)
        /\ \A t \in Said(a) :
             /\ t.kind \in {"struct", "end_struct", "type"}
             /\ t.kind = "struct" => \E m \in 1..Len(p.structs) : t.name = p.structs[m].name
    BY <2>1, StructsSound
  <2> QED BY <2>2 DEF above
<1> HIDE DEF a
<1>3. /\ b \in Seq(Out) /\ Sound(Said(h) \cup Said(a), b)
      /\ \A m \in 1..Len(p.funcs) : Token("prototype", p.funcs[m].name) \in Said(b)
      /\ \A t \in Said(b) :
           /\ t.kind \in {"prototype", "type"}
           /\ t.kind = "prototype" => \E m \in 1..Len(p.funcs) : t.name = p.funcs[m].name
  <2> DEFINE above == Said(h) \cup Said(a)
  <2>1. /\ \A m \in 1..Len(p.structs) : Token("end_struct", p.structs[m].name) \in above
        /\ \A t \in above :
             /\ t.kind \in {"include", "struct", "end_struct", "type"}
             /\ t.kind = "struct" => \E m \in 1..Len(p.structs) : t.name = p.structs[m].name
    BY <1>1, <1>2
  <2> HIDE DEF above
  <2>2. /\ b \in Seq(Out) /\ Sound(above, b)
        /\ \A m \in 1..Len(p.funcs) : Token("prototype", p.funcs[m].name) \in Said(b)
        /\ \A t \in Said(b) :
             /\ t.kind \in {"prototype", "type"}
             /\ t.kind = "prototype" => \E m \in 1..Len(p.funcs) : t.name = p.funcs[m].name
    BY <2>1, PrototypesSound
  <2> QED BY <2>2 DEF above
<1> HIDE DEF b
<1>4. /\ c \in Seq(Out) /\ Sound((Said(h) \cup Said(a)) \cup Said(b), c)
      /\ \A m \in 1..Len(p.funcs) : Token("function", p.funcs[m].name) \in Said(c)
      /\ \A t \in Said(c) :
           /\ t.kind \notin {"include", "struct", "prototype"}
           /\ t.kind = "function" => \E m \in 1..Len(p.funcs) : t.name = p.funcs[m].name
  <2> DEFINE above == (Said(h) \cup Said(a)) \cup Said(b)
  <2>1. /\ \A m \in 1..Len(p.structs) : Token("end_struct", p.structs[m].name) \in above
        /\ \A m \in 1..Len(p.funcs) : Token("prototype", p.funcs[m].name) \in above
        /\ \A t \in above :
             /\ t.kind \in {"include", "struct", "end_struct", "type", "prototype"}
             /\ t.kind = "struct" => \E m \in 1..Len(p.structs) : t.name = p.structs[m].name
    BY <1>1, <1>2, <1>3
  <2> HIDE DEF above
  <2>2. /\ c \in Seq(Out) /\ Sound(above, c)
        /\ \A m \in 1..Len(p.funcs) : Token("function", p.funcs[m].name) \in Said(c)
        /\ \A t \in Said(c) :
             /\ t.kind \notin {"include", "struct", "prototype"}
             /\ t.kind = "function" => \E m \in 1..Len(p.funcs) : t.name = p.funcs[m].name
    BY <2>1, FunctionsSound
  <2> QED BY <2>2 DEF above
<1>5. Layout(p) = ((h \o a) \o b) \o c
  BY DEF Layout, h, a, b
<1> HIDE DEF c
<1> DEFINE ha == h \o a
           hab == ha \o b
           habc == hab \o c
<1>6. ha \in Seq(Out) /\ Sound({}, ha) /\ Said(ha) = Said(h) \cup Said(a)
  <2>1. {} \cup Said(h) = Said(h)
    OBVIOUS
  <2> QED BY <1>1, <1>2, <2>1, ConcatSound, ConcatUp
<1> HIDE DEF ha
<1>7. hab \in Seq(Out) /\ Sound({}, hab) /\ Said(hab) = Said(ha) \cup Said(b)
  <2>1. {} \cup Said(ha) = Said(h) \cup Said(a)
    BY <1>6
  <2>2. Sound({} \cup Said(ha), b)
    BY <1>3, <2>1
  <2> QED BY <1>3, <1>6, <2>2, ConcatSound, ConcatUp
<1> HIDE DEF hab
<1>8. habc \in Seq(Out) /\ Sound({}, habc) /\ Said(habc) = Said(hab) \cup Said(c)
  <2>1. {} \cup Said(hab) = (Said(h) \cup Said(a)) \cup Said(b)
    BY <1>6, <1>7
  <2>2. Sound({} \cup Said(hab), c)
    BY <1>4, <2>1
  <2> QED BY <1>4, <1>7, <2>2, ConcatSound, ConcatUp
<1> HIDE DEF habc
<1>9. Layout(p) = habc
  BY <1>5 DEF ha, hab, habc
<1>10. Said(habc) = ((Said(h) \cup Said(a)) \cup Said(b)) \cup Said(c)
  BY <1>6, <1>7, <1>8
<1>11. ASSUME NEW t \in Said(habc)
       PROVE  /\ t.kind = "include" => t.name \in Range(Headers)
              /\ t.kind = "struct" => \E m \in 1..Len(p.structs) : t.name = p.structs[m].name
              /\ t.kind \in {"prototype", "function"} =>
                   \E m \in 1..Len(p.funcs) : t.name = p.funcs[m].name
  <2>1. t \in Said(h) \/ t \in Said(a) \/ t \in Said(b) \/ t \in Said(c)
    BY <1>10
  <2>2. CASE t \in Said(h)
    BY <1>1, <2>2
  <2>3. CASE t \in Said(a)
    BY <1>2, <2>3
  <2>4. CASE t \in Said(b)
    BY <1>3, <2>4
  <2>5. CASE t \in Said(c)
    BY <1>4, <2>5
  <2> QED BY <2>1, <2>2, <2>3, <2>4, <2>5
<1>12. ASSUME NEW t \in Said(habc), Habits = {}, t.kind \in {"struct", "prototype", "function"}
       PROVE  t.name \notin Given
  <2>1. CASE t.kind = "struct"
    BY <1>11, <1>12, <2>1, OrderlyIs
  <2>2. CASE t.kind \in {"prototype", "function"}
    BY <1>11, <1>12, <2>2, OrderlyIs
  <2> QED BY <1>12, <2>1, <2>2
<1>13. \A m \in 1..Len(p.funcs) : Token("function", p.funcs[m].name) \in Said(habc)
  BY <1>4, <1>10
<1> QED BY <1>8, <1>9, <1>11, <1>12, <1>13

-----------------------------------------------------------------------------
(* The text, token by token.                                                 *)

\* The tokens before the n-th.
Before(text, n) == {text[m] : m \in 1..(n - 1)}

\* A text whose every token suits what is above it.
Telling(text) ==
  \A n \in 1..Len(text) : /\ Suits(Before(text, n), text[n])
                          /\ text[n] = Token(text[n].kind, text[n].name)

\* The pieces are tokens of the text, and a digit suits everywhere.
LEMMA OutIs ==
  /\ Out \subseteq Pieces \cup Numbers
  /\ Out \subseteq Seq(Chars)
  /\ \A s \in Out : \A t \in Range(s) : t = Token(t.kind, t.name)
  /\ \A s \in Out : s = Literal \/ \E t : s = <<t>>
  /\ \A s \in Out : s # Literal => s \in Pieces
<1>1. Out \subseteq Pieces \cup Numbers /\ \A s \in Out : s # Literal => s \in Pieces
  BY CTextAssumption DEF Out
<1>2. Pieces \cup Numbers \subseteq Seq(Chars)
  BY StringBuilderAssumption
<1>3. ASSUME NEW s \in Out, NEW t \in Range(s) PROVE t = Token(t.kind, t.name)
  <2>1. CASE s = Literal
    <3>1. t = Token("digit", "")
      <4>1. DOMAIN Literal = {1, 2} /\ Literal[1] = Token("digit", "") /\ Literal[2] = Token("digit", "")
        BY DEF Literal
      <4> QED BY <2>1, <4>1 DEF Range
    <3> QED BY <3>1, TokenIs
  <2>2. CASE s # Literal
    <3>1. PICK k \in Kinds, n \in Names : s = <<Token(k, n)>>
      BY <2>2 DEF Out
    <3> DEFINE x == Token(k, n)
    <3>2. t = x
      <4>1. x = Token(k, n)
        OBVIOUS
      <4> HIDE DEF x
      <4>2. s = <<x>>
        BY <3>1, <4>1
      <4>3. DOMAIN s = {1} /\ s[1] = x
        BY <4>2
      <4> QED BY <4>3 DEF Range
    <3> QED BY <3>2, TokenIs
  <2> QED BY <2>1, <2>2
<1>4. \A s \in Out : s = Literal \/ \E t : s = <<t>>
  BY DEF Out
<1> QED BY <1>1, <1>2, <1>3, <1>4

\* One token more.
LEMMA TellOne ==
  ASSUME NEW S, NEW text \in Seq(S), Telling(text), NEW t \in S,
         Suits(Range(text), t), t = Token(t.kind, t.name)
  PROVE  /\ text \o <<t>> \in Seq(S)
         /\ Telling(text \o <<t>>)
         /\ Range(text \o <<t>>) = Range(text) \cup {t}
<1> DEFINE u == text \o <<t>>
           l == Len(text)
<1>1. l \in Nat /\ Len(u) = l + 1 /\ u \in Seq(S) /\ DOMAIN text = 1..l /\ DOMAIN u = 1..(l + 1)
  OBVIOUS
<1>2. u[l + 1] = t /\ \A i \in 1..l : u[i] = text[i]
  OBVIOUS
<1> HIDE DEF u, l
<1>3. 1..(l + 1) = (1..l) \cup {l + 1}
  BY <1>1
<1>4. Range(u) = Range(text) \cup {t}
  BY <1>1, <1>2, <1>3 DEF Range
<1>5. ASSUME NEW n \in 1..l PROVE Before(u, n) = Before(text, n)
  <2>1. \A m \in 1..(n - 1) : u[m] = text[m]
    BY <1>1, <1>2
  <2> QED BY <2>1 DEF Before
<1>6. Before(u, l + 1) = Range(text)
  <2>1. l + 1 - 1 = l
    BY <1>1
  <2> QED BY <1>1, <1>2, <2>1 DEF Before, Range
<1>7. ASSUME NEW n \in 1..(l + 1)
      PROVE  Suits(Before(u, n), u[n]) /\ u[n] = Token(u[n].kind, u[n].name)
  <2>1. CASE n \in 1..l
    <3>1. Suits(Before(text, n), text[n]) /\ text[n] = Token(text[n].kind, text[n].name)
      BY <2>1 DEF Telling, l
    <3> QED BY <1>2, <1>5, <2>1, <3>1
  <2>2. CASE n = l + 1
    BY <1>2, <1>6, <2>2
  <2> QED BY <1>3, <2>1, <2>2
<1> QED BY <1>1, <1>4, <1>7 DEF Telling, u

\* One piece more.
LEMMA TellPiece ==
  ASSUME NEW text \in Seq(Chars), Telling(text), NEW s \in Out,
         \A t \in Range(s) : Suits(Range(text), t)
  PROVE  /\ Telling(text \o s)
         /\ Range(text \o s) = Range(text) \cup Range(s)
<1>1. s \in Seq(Chars) /\ (\A t \in Range(s) : t = Token(t.kind, t.name))
      /\ (s = Literal \/ \E t : s = <<t>>)
  BY OutIs
<1>2. CASE \E t : s = <<t>>
  <2>1. PICK t : s = <<t>>
    BY <1>2
  <2>2. DOMAIN s = {1} /\ s[1] = t
    BY <2>1
  <2>3. Range(s) = {t}
    BY <2>2 DEF Range
  <2>4. t \in Chars
    BY <1>1, <2>1
  <2>5. Suits(Range(text), t) /\ t = Token(t.kind, t.name)
    BY <1>1, <2>3
  <2> QED BY <2>1, <2>3, <2>4, <2>5, TellOne
<1>3. CASE s = Literal
  <2> DEFINE d == Token("digit", "")
  <2>1. d.kind = "digit" /\ d = Token(d.kind, d.name)
    BY TokenIs
  <2>2. s = <<d, d>>
    BY <1>3 DEF Literal
  <2> HIDE DEF d
  <2>3. DOMAIN s = {1, 2} /\ s[1] = d /\ s[2] = d
    BY <2>2
  <2>4. Range(s) = {d} /\ d \in Chars
    <3>1. Range(s) = {d}
      BY <2>3 DEF Range
    <3> QED BY <1>1, <2>2, <3>1
  <2>5. \A A : Suits(A, d)
    BY <2>1 DEF Suits, Fits_gcc
  <2> DEFINE one == text \o <<d>>
  <2>6. one \in Seq(Chars) /\ Telling(one) /\ Range(one) = Range(text) \cup {d}
    BY <2>1, <2>4, <2>5, TellOne
  <2>7. text \o s = one \o <<d>>
    <3>1. <<d>> \in Seq(Chars) /\ s = <<d>> \o <<d>>
      BY <2>2, <2>4
    <3> QED BY <3>1, ConcatAssociative
  <2> HIDE DEF one
  <2>8. Telling(one \o <<d>>) /\ Range(one \o <<d>>) = Range(one) \cup {d}
    BY <2>1, <2>4, <2>5, <2>6, TellOne
  <2> QED BY <2>4, <2>6, <2>7, <2>8
<1> QED BY <1>1, <1>2, <1>3

\* No function is twice in a telling text.
LEMMA TellsOnce ==
  ASSUME NEW S, NEW text \in Seq(S), Telling(text), NEW name,
         Token("function", name) \in Range(text)
  PROVE  Cardinality({n \in DOMAIN text : text[n] = Token("function", name)}) = 1
<1> DEFINE t == Token("function", name)
<1>1. t.kind = "function" /\ t.name = name /\ t = Token("function", name)
  BY TokenIs
<1> HIDE DEF t
<1>2. DOMAIN text = 1..Len(text) /\ Len(text) \in Nat
  OBVIOUS
<1>3. PICK n \in 1..Len(text) : text[n] = t
  BY <1>1, <1>2 DEF Range
<1>4. ASSUME NEW i \in 1..Len(text), NEW j \in 1..Len(text), text[i] = t, text[j] = t, i < j
      PROVE  FALSE
  <2>1. i \in 1..(j - 1)
    BY <1>2, <1>4
  <2>2. t \in Before(text, j)
    BY <1>4, <2>1 DEF Before
  <2>3. Suits(Before(text, j), t)
    BY <1>4 DEF Telling
  <2> QED BY <1>1, <2>2, <2>3 DEF Suits
<1>5. \A i \in 1..Len(text) : text[i] = t => i = n
  <2> SUFFICES ASSUME NEW i \in 1..Len(text), text[i] = t, i # n PROVE FALSE
    OBVIOUS
  <2>1. i < n \/ n < i
    BY <1>2
  <2> QED BY <1>3, <1>4, <2>1
<1>6. {i \in DOMAIN text : text[i] = t} = {n}
  BY <1>2, <1>3, <1>5
<1>7. Cardinality({n}) = 1
  BY FS_Singleton
<1>8. {i \in DOMAIN text : text[i] = Token("function", name)} = {n}
  BY <1>1, <1>6
<1> QED BY <1>7, <1>8

\* gcc finds everything in a telling text where the sources use no habit.
LEMMA TellsGcc ==
  ASSUME NEW S, NEW text \in Seq(S), Telling(text), Habits = {}, NEW n \in DOMAIN text,
         \A t \in Range(text) :
           /\ t.kind = "include" => t.name \in Range(Headers)
           /\ t.kind \in {"struct", "prototype", "function"} => t.name \notin Given
  PROVE  Declares(text, n)
<1>1. DOMAIN text = 1..Len(text) /\ Len(text) \in Nat /\ n \in 1..Len(text) /\ n \in Nat
  OBVIOUS
<1> DEFINE x == text[n]
           A == Before(text, n)
<1>2. Suits(A, x)
  BY <1>1 DEF Telling
<1>3. ASSUME NEW k, NEW name
      PROVE  Token(k, name) \in A <=> name \in Above(text, n, k)
  <2>1. ASSUME Token(k, name) \in A PROVE name \in Above(text, n, k)
    <3>1. PICK m \in 1..(n - 1) : text[m] = Token(k, name)
      BY <2>1 DEF Before
    <3>2. text[m].kind = k /\ text[m].name = name
      BY <3>1, TokenIs
    <3> QED BY <3>2 DEF Above
  <2>2. ASSUME name \in Above(text, n, k) PROVE Token(k, name) \in A
    <3>1. PICK m \in 1..(n - 1) : text[m].kind = k /\ text[m].name = name
      BY <2>2 DEF Above
    <3>2. m \in 1..Len(text)
      BY <1>1
    <3>3. text[m] = Token(k, name)
      BY <3>1, <3>2 DEF Telling
    <3> QED BY <3>3 DEF Before
  <2> QED BY <2>1, <2>2
<1> DEFINE above(kind) == Above(text, n, kind)
           given == Declared(above("include"))
           name == x.name
           kind == x.kind
<1>4. /\ kind = "type" => name \in above("end_struct")
      /\ kind = "call" => name \in above("prototype")
      /\ kind \in {"struct", "prototype", "function"} => name \notin above("struct")
      /\ kind = "function" => name \notin above("function")
      /\ kind \in {"struct", "prototype", "function"} => name \notin given
  <2>1. above("include") \subseteq Range(Headers)
    <3> SUFFICES ASSUME NEW h \in above("include") PROVE h \in Range(Headers)
      OBVIOUS
    <3>1. PICK m \in 1..(n - 1) : text[m].kind = "include" /\ text[m].name = h
      BY DEF Above
    <3>2. text[m] \in Range(text)
      BY <1>1 DEF Range
    <3> QED BY <3>1, <3>2
  <2>2. given \subseteq Given
    BY <2>1 DEF Declared, Given
  <2>3. x \in Range(text)
    BY <1>1 DEF Range
  <2>4. kind \in {"struct", "prototype", "function"} => name \notin given
    BY <2>2, <2>3
  <2> HIDE DEF given
  <2> QED BY <1>2, <1>3, <2>4 DEF Suits, Fits_gcc
<1>5. Declares(text, n) =
        CASE kind = "type"      -> name \in above("end_struct")
          [] kind = "call"      -> name \in above("prototype") \cup above("function")
          [] kind = "struct"    -> name \notin above("struct") \cup given
          [] kind = "prototype" -> name \notin above("struct") \cup given
          [] kind = "function"  ->
               name \notin above("function") \cup above("struct") \cup given
          [] OTHER              -> TRUE
  BY DEF Declares
<1> HIDE DEF x, A, above, given, name, kind
<1>6. CASE kind = "type"
  BY <1>4, <1>5, <1>6, Zenon
<1>7. CASE kind = "call"
  BY <1>4, <1>5, <1>7, Zenon
<1>8. CASE kind = "struct"
  BY <1>4, <1>5, <1>8, Zenon
<1>9. CASE kind = "prototype"
  BY <1>4, <1>5, <1>9, Zenon
<1>10. CASE kind = "function"
  BY <1>4, <1>5, <1>10, Zenon
<1>11. CASE kind \notin {"type", "call", "struct", "prototype", "function"}
  BY <1>5, <1>11, Zenon
<1> QED BY <1>6, <1>7, <1>8, <1>9, <1>10, <1>11

-----------------------------------------------------------------------------
(* The compilation.                                                          *)

\* Merging adds one file after the other to that of the main file.
LEMMA MergingIs ==
  ASSUME NEW f \in [{Main} \cup Modules -> Files], NEW names \in Seq(Modules)
  PROVE  LET all == Merging(f, names)
         IN  /\ all[0] = f[Main]
             /\ \A n \in 1..Len(names) : all[n] = merge_program(all[n - 1], f[names[n]])
             /\ \A n \in 0..Len(names) : all[n] \in File
<1> DEFINE l == Len(names)
           step == [n \in 1..l |-> [x \in File |-> merge_program(x, f[names[n]])]]
           base == f[Main]
           Follows(h) == h = [n \in 0..l |-> IF n = 0 THEN f[Main]
                                             ELSE merge_program(h[n - 1], f[names[n]])]
           all == CHOOSE h : Follows(h)
<1>1. l \in Nat /\ base \in File /\ \A n \in 1..l : f[names[n]] \in File
  BY CTextAssumption
<1>2. \A x, y \in File : merge_program(x, y) \in File
  BY DEF merge_program, File
<1>3. step \in StepsIn(l, File)
  <2> HIDE DEF l
  <2> QED BY <1>1, <1>2 DEF StepsIn
<1>4. PICK w \in [0..l -> File] : w[0] = base /\ \A n \in 1..l : w[n] = step[n][w[n - 1]]
  <2> HIDE DEF step, base, l
  <2>1. \E w : Goes(w, l, File, base, step)
    BY <1>1, <1>3, Recursion
  <2> QED BY <2>1 DEF Goes
<1> HIDE DEF l
<1>5. ASSUME NEW n \in 1..l PROVE w[n] = merge_program(w[n - 1], f[names[n]])
  <2>1. w[n - 1] \in File
    BY <1>1
  <2>2. step[n] = [x \in File |-> merge_program(x, f[names[n]])] /\ w[n] = step[n][w[n - 1]]
    BY <1>4
  <2> HIDE DEF step
  <2> QED BY <2>1, <2>2
<1>6. Follows(w)
  <2>1. \A n \in 0..l : w[n] = IF n = 0 THEN f[Main] ELSE merge_program(w[n - 1], f[names[n]])
    BY <1>1, <1>4, <1>5
  <2> QED BY <2>1
<1>7. \A n \in 0..l : all[n] = IF n = 0 THEN f[Main] ELSE merge_program(all[n - 1], f[names[n]])
  <2>1. Follows(all)
    <3> HIDE DEF Follows
    <3> QED BY <1>6
  <2> HIDE DEF all
  <2> QED BY <2>1
<1>8. Merging(f, names) = all
  BY DEF Merging, l
<1> HIDE DEF all, Follows, step
<1>9. all[0] = f[Main] /\ \A n \in 1..l : all[n] = merge_program(all[n - 1], f[names[n]])
  <2>1. 0 \in 0..l /\ \A n \in 1..l : n \in 0..l /\ n # 0
    BY <1>1
  <2> QED BY <1>7, <2>1
<1> DEFINE G == {n \in 0..l : all[n] \in File}
<1>10. \A n \in 0..l : n \in G
  <2>1. 0 \in G
    BY <1>1, <1>9
  <2>2. ASSUME NEW n \in 0..l, n < l, n \in G PROVE n + 1 \in G
    <3> DEFINE m == n + 1
    <3>1. m \in 1..l /\ m \in 0..l /\ m - 1 = n /\ all[n] \in File
      BY <1>1, <2>2
    <3> HIDE DEF m
    <3>2. all[m] \in File
      BY <1>1, <1>2, <1>9, <3>1
    <3>3. m \in G
      BY <3>1, <3>2
    <3> QED BY <3>3 DEF m
  <2> HIDE DEF G
  <2> QED BY <1>1, <2>1, <2>2, Upwards
<1> QED BY <1>8, <1>9, <1>10 DEF l

\* What was merged so far has every function of the files it came from.
Collected ==
  /\ Range(files[Main].funcs) \subseteq Range(prog.funcs)
  /\ \A n \in 1..merged : Range(files[imports[n]].funcs) \subseteq Range(prog.funcs)

Sources ==
  /\ files \in [{Main} \cup Modules -> Files]
  /\ imports \in Seq(Modules)
  /\ Habitual(Whole(files, imports))
  /\ merged \in 0..Len(imports)
  /\ prog = Merging(files, imports)[merged]
  /\ Collected

Stages == {"import", "check", "emit", "compile", "done"}

\* Behind the checker everything is merged, and the Program is ready.
Checked ==
  /\ stage \in Stages /\ reported \in BOOLEAN /\ c_error \in BOOLEAN
  /\ reported => stage = "done" /\ use = "none"
  /\ c_error => stage = "done"
  /\ stage \in {"import", "check"} => use = "none"
  /\ stage # "import" => merged = Len(imports)
  /\ stage # "import" /\ ~reported => Ready(prog)

\* The text so far is telling, and what is left to append is the rest of the layout.
Emitted ==
  LET all == Layout(prog)
      left == Len(todo)
  IN  /\ use = "live" /\ left <= Len(all)
      /\ \A i \in 1..left : todo[i] = all[Len(all) - left + i]
      /\ Telling(asked)
      /\ Range(asked) = Up(all, Len(all) - left)

\* All of it was appended.
Told == Telling(asked) /\ Range(asked) = Said(Layout(prog))

Inv ==
  /\ BuilderInv /\ Sources /\ Checked
  /\ todo \in Seq(Out)
  /\ stage = "emit" => Emitted
  /\ stage = "compile" => use = "handed" /\ Told
  /\ Compiled => Told
  /\ Habits = {} /\ c_error => lost

\* Before anything is merged.
LEMMA CTextInit == Init => Inv
<1> SUFFICES ASSUME Init PROVE Inv
  OBVIOUS
<1>1. BuilderInv
  <2>1. BuilderTypeOK
    BY EmptyText DEF Init, BuilderInit, BuilderTypeOK
  <2> QED BY <2>1 DEF Init, BuilderInit, BuilderInv, Bounded, WholeUnlessLost
<1>2. imports \in Seq(Modules)
  <2>1. PICK n \in 0..MaxImports : imports \in [1..n -> Modules]
    BY DEF Init
  <2>2. n \in Nat
    BY CTextAssumption
  <2> QED BY <2>1, <2>2, FunctionSeq
<1>3. files \in [{Main} \cup Modules -> Files] /\ merged = 0 /\ prog = files[Main]
      /\ Habitual(Whole(files, imports))
  BY DEF Init
<1>4. prog = Merging(files, imports)[merged]
  BY <1>2, <1>3, MergingIs
<1>5. Collected
  <2>1. 1..0 = {}
    OBVIOUS
  <2> QED BY <1>3, <2>1 DEF Collected
<1>6. merged \in 0..Len(imports)
  BY <1>2, <1>3
<1>7. stage = "import" /\ reported = FALSE /\ todo = <<>> /\ c_error = FALSE /\ use = "none"
  BY DEF Init, BuilderInit
<1>8. todo \in Seq(Out)
  BY <1>7
<1>9. Sources
  BY <1>2, <1>3, <1>4, <1>5, <1>6 DEF Sources
<1>10. Checked
  BY <1>7 DEF Checked, Stages
<1> QED BY <1>1, <1>7, <1>8, <1>9, <1>10 DEF Inv, Compiled

\* The builder's invariant is about the builder's variables only.
LEMMA BuilderFrame ==
  ASSUME BuilderInv, builder' = builder
  PROVE  BuilderInv'
  BY DEF builder, BuilderInv, BuilderTypeOK, Bounded, WholeUnlessLost

\* One import more.
LEMMA ImportKeeps ==
  ASSUME Inv, Import
  PROVE  Inv'
<1>1. /\ files \in [{Main} \cup Modules -> Files] /\ imports \in Seq(Modules)
      /\ merged \in 0..Len(imports) /\ prog = Merging(files, imports)[merged]
      /\ Habitual(Whole(files, imports)) /\ Collected
  BY DEF Inv, Sources
<1>2. /\ stage = "import" /\ merged < Len(imports) /\ merged' = merged + 1
      /\ prog' = merge_program(prog, files[imports[merged']])
      /\ files' = files /\ imports' = imports /\ stage' = stage /\ reported' = reported
      /\ todo' = todo /\ c_error' = c_error /\ builder' = builder
  BY DEF Import
<1> DEFINE m == merged + 1
           src == files[imports[m]]
<1>3. m \in 1..Len(imports) /\ m - 1 = merged /\ m \in 0..Len(imports) /\ 1..m = (1..merged) \cup {m}
  BY <1>1, <1>2
<1>4. prog \in File /\ src \in File
  <2>1. imports[m] \in Modules
    BY <1>1, <1>3
  <2>2. prog \in File
    BY <1>1, MergingIs
  <2> QED BY <1>1, <2>1, <2>2, CTextAssumption
<1>5. merged' = m /\ prog' = merge_program(prog, src)
  BY <1>2
<1> HIDE DEF m
<1>6. prog' = Merging(files, imports)[m]
  BY <1>1, <1>3, <1>5, MergingIs
<1>7. Range(prog.funcs) \subseteq Range(prog'.funcs) /\ Range(src.funcs) \subseteq Range(prog'.funcs)
  <2>1. prog'.funcs = prog.funcs \o src.funcs
    BY <1>5 DEF merge_program
  <2>2. prog.funcs \in Seq(Func) /\ src.funcs \in Seq(Func)
    BY <1>4 DEF File
  <2> DEFINE s == prog.funcs
             t == src.funcs
             u == prog'.funcs
  <2>3. u = s \o t /\ s \in Seq(Func) /\ t \in Seq(Func)
    BY <2>1, <2>2
  <2> HIDE DEF s, t, u
  <2>4. \A i \in DOMAIN s : i \in DOMAIN u /\ u[i] = s[i]
    BY <2>3
  <2>5. \A i \in DOMAIN t : Len(s) + i \in DOMAIN u /\ u[Len(s) + i] = t[i]
    BY <2>3
  <2>6. Range(s) \subseteq Range(u) /\ Range(t) \subseteq Range(u)
    BY <2>4, <2>5 DEF Range
  <2> QED BY <2>6 DEF s, t, u
<1>8. Collected'
  <2>1. Range(files[Main].funcs) \subseteq Range(prog'.funcs)
    BY <1>1, <1>7 DEF Collected
  <2>2. \A n \in 1..m : Range(files[imports[n]].funcs) \subseteq Range(prog'.funcs)
    BY <1>1, <1>3, <1>7 DEF Collected
  <2> QED BY <1>2, <1>5, <2>1, <2>2 DEF Collected
<1>9. Sources'
  BY <1>1, <1>2, <1>3, <1>5, <1>6, <1>8 DEF Sources
<1>10. BuilderInv'
  BY <1>2, BuilderFrame DEF Inv
<1>11. use' = use /\ lost' = lost /\ use = "none"
  BY <1>2 DEF builder, Inv, Checked
<1>12. Checked'
  BY <1>2, <1>11 DEF Inv, Checked
<1>13. todo' \in Seq(Out) /\ (Habits = {} /\ c_error' => lost')
  BY <1>2, <1>11 DEF Inv
<1> QED BY <1>2, <1>9, <1>10, <1>12, <1>13 DEF Inv, Compiled

\* A Program the checker lets pass is ready.
LEMMA CheckKeeps ==
  ASSUME Inv, typecheck_program
  PROVE  Inv'
<1>1. /\ files \in [{Main} \cup Modules -> Files] /\ imports \in Seq(Modules)
      /\ merged \in 0..Len(imports) /\ prog = Merging(files, imports)[merged]
      /\ Habitual(Whole(files, imports)) /\ stage = "import" /\ merged = Len(imports)
  BY DEF Inv, Sources, typecheck_program
<1>2. /\ reported' = (\/ Redefined(prog.funcs)
                      \/ \E f \in Range(prog.funcs) :
                           ~(Range(f.calls) \subseteq Range(NamesOf(prog.funcs))))
      /\ stage' = IF reported' THEN "done" ELSE "check"
      /\ files' = files /\ imports' = imports /\ merged' = merged /\ prog' = prog
      /\ todo' = todo /\ c_error' = c_error /\ builder' = builder
  BY DEF typecheck_program, source
<1>3. prog \in File
  BY <1>1, MergingIs
<1>4. prog = Whole(files, imports) /\ Habitual(prog)
  BY <1>1 DEF Whole
<1>5. ASSUME ~reported' PROVE Ready(prog)
  <2>1. Distinct(NamesOf(prog.funcs))
        /\ \A f \in Range(prog.funcs) : Range(f.calls) \subseteq Range(NamesOf(prog.funcs))
    BY <1>2, <1>5 DEF Redefined
  <2>2. Habits = {} => /\ Orderly(prog)
                       /\ Distinct(NamesOf(prog.structs))
                       /\ Range(NamesOf(prog.structs)) \cap Range(NamesOf(prog.funcs)) = {}
                       /\ (Range(NamesOf(prog.structs)) \cup Range(NamesOf(prog.funcs)))
                            \cap Given = {}
    BY <1>4 DEF Habitual, Uses, Given
  <2> QED BY <1>3, <2>1, <2>2 DEF Ready
<1>6. reported' \in BOOLEAN /\ stage' \in Stages /\ stage' # "import"
  BY <1>2 DEF Stages
<1>7. Sources'
  BY <1>2 DEF Inv, Sources, Collected
<1>8. BuilderInv'
  BY <1>2, BuilderFrame DEF Inv
<1>9. use' = use /\ lost' = lost /\ use = "none"
  BY <1>1, <1>2 DEF builder, Inv, Checked
<1>10. Checked'
  <2>1. ~reported' => Ready(prog')
    BY <1>2, <1>5
  <2>2. c_error' \in BOOLEAN /\ ~c_error'
    BY <1>1, <1>2 DEF Inv, Checked
  <2>3. reported' => stage' = "done"
    BY <1>2
  <2> QED BY <1>1, <1>2, <1>6, <1>9, <2>1, <2>2, <2>3 DEF Checked
<1>11. todo' \in Seq(Out) /\ (Habits = {} /\ c_error' => lost')
  BY <1>2, <1>9 DEF Inv
<1>12. stage' # "emit" /\ stage' # "compile" /\ ~Compiled'
  BY <1>2, <1>9 DEF Compiled
<1> QED BY <1>7, <1>8, <1>10, <1>11, <1>12 DEF Inv

\* codegen_to_c starts with an empty text and the whole layout.
LEMMA CodegenKeeps ==
  ASSUME Inv, codegen_to_c
  PROVE  Inv'
<1>1. /\ stage = "check" /\ sb_init /\ todo' = Layout(prog) /\ stage' = "emit"
      /\ files' = files /\ imports' = imports /\ merged' = merged /\ prog' = prog
      /\ reported' = reported /\ c_error' = c_error
  BY DEF codegen_to_c, source
<1>2. /\ ~reported /\ ~c_error /\ reported \in BOOLEAN /\ c_error \in BOOLEAN
      /\ merged = Len(imports) /\ Ready(prog)
  BY <1>1 DEF Inv, Checked
<1>3. BuilderInv'
  BY <1>1, InitStep DEF Inv
<1>4. use' = "live" /\ asked' = <<>> /\ lost' = FALSE
  BY <1>1 DEF sb_init
<1>5. Sources'
  BY <1>1 DEF Inv, Sources, Collected
<1>6. Checked'
  <2>1. stage' \in Stages /\ stage' # "import" /\ stage' # "check" /\ ~reported' /\ ~c_error'
        /\ reported' \in BOOLEAN /\ c_error' \in BOOLEAN
    BY <1>1, <1>2 DEF Stages
  <2>2. merged' = Len(imports') /\ Ready(prog')
    BY <1>1, <1>2
  <2> QED BY <2>1, <2>2 DEF Checked
<1>7. todo' \in Seq(Out)
  BY <1>1, <1>2, LayoutSound
<1>8. Emitted'
  <2> DEFINE all == Layout(prog)
  <2>1. all \in Seq(Out) /\ todo' = all /\ Layout(prog') = all
    BY <1>1, <1>2, LayoutSound
  <2> HIDE DEF all
  <2>2. Len(all) \in Nat /\ Len(all) - Len(all) = 0 /\ 1..0 = {}
    BY <2>1
  <2>3. \A i \in 1..Len(all) : all[i] = all[0 + i]
    BY <2>2
  <2>4. Telling(asked') /\ Range(asked') = {}
    <3>1. Len(<<>>) = 0 /\ DOMAIN <<>> = {}
      OBVIOUS
    <3> QED BY <1>4, <2>2, <3>1 DEF Telling, Range
  <2>5. Up(all, 0) = {}
    BY <2>2 DEF Up
  <2> DEFINE left == Len(todo')
  <2>6. left = Len(all) /\ left <= Len(all) /\ Len(all) - left = 0
        /\ \A i \in 1..left : todo'[i] = all[Len(all) - left + i]
    BY <2>1, <2>2, <2>3
  <2>7. Range(asked') = Up(all, Len(all) - left)
    BY <2>4, <2>5, <2>6
  <2> HIDE DEF left
  <2> QED BY <1>4, <2>1, <2>4, <2>6, <2>7 DEF Emitted, left
<1>9. ~c_error' /\ stage' # "compile" /\ ~Compiled'
  BY <1>1, <1>2 DEF Compiled
<1> QED BY <1>3, <1>5, <1>6, <1>7, <1>8, <1>9 DEF Inv


\* Emit appends the next piece of the layout, which suits the text so far.
LEMMA EmitKeeps ==
  ASSUME Inv, Emit
  PROVE  Inv'
<1> DEFINE all == Layout(prog)
           s == Head(todo)
           left == Len(todo)
           k == Len(all) - left
<1>1. /\ stage = "emit" /\ todo # <<>> /\ append(s) /\ todo' = Tail(todo)
      /\ stage' = IF use' = "crashed" THEN "done" ELSE "emit"
      /\ files' = files /\ imports' = imports /\ merged' = merged /\ prog' = prog
      /\ reported' = reported /\ c_error' = c_error
  BY DEF Emit, source
<1>2. /\ BuilderInv /\ Sources /\ Checked /\ todo \in Seq(Out) /\ Emitted
      /\ ~reported /\ ~c_error /\ reported \in BOOLEAN /\ c_error \in BOOLEAN
      /\ merged = Len(imports) /\ Ready(prog)
  BY <1>1 DEF Inv, Checked
<1>3. all \in Seq(Out) /\ Sound({}, all)
  BY <1>2, LayoutSound
<1>4. /\ use = "live" /\ left <= Len(all) /\ Telling(asked) /\ Range(asked) = Up(all, k)
      /\ \A i \in 1..left : todo[i] = all[k + i]
  BY <1>2 DEF Emitted
<1>5. /\ s \in Out /\ s = todo[1] /\ left \in Nat /\ left >= 1
      /\ Tail(todo) \in Seq(Out) /\ Len(Tail(todo)) = left - 1
      /\ \A i \in 1..(left - 1) : Tail(todo)[i] = todo[i + 1]
  BY <1>1, <1>2
<1>6. s \in Seq(Chars)
  BY <1>5, OutIs
<1>7. Append_piece(s) /\ asked' = asked \o s
  <2>1. CASE s = Literal
    <3>1. sb_appendf(s)
      BY <1>1, <2>1 DEF append
    <3>2. s \in Numbers
      BY <2>1, CTextAssumption
    <3>3. Formatted(s) = s
      BY <3>2, FormattedWhole
    <3> QED BY <3>1, <3>3 DEF sb_appendf
  <2>2. CASE s # Literal
    BY <1>1, <2>2 DEF append, sb_append
  <2> QED BY <2>1, <2>2
<1>8. BuilderInv'
  BY <1>2, <1>6, <1>7, AppendStep
<1>9. use' \in {"live", "crashed"}
  BY <1>4, <1>7 DEF Append_piece, append_there, append_grown, append_dropped, append_null
<1> DEFINE i == k + 1
<1> HIDE DEF all, s
<1>10. /\ Len(all) \in Nat /\ i \in 1..Len(all) /\ i - 1 = k /\ 1..i = (1..k) \cup {i} /\ s = all[i]
       /\ Len(all) - (left - 1) = i
  <2>1. 1 \in 1..left /\ Len(all) \in Nat
    BY <1>3, <1>5
  <2>2. s = all[k + 1]
    BY <1>4, <1>5, <2>1
  <2> QED BY <1>4, <1>5, <2>1, <2>2
<1>11. \A j \in 1..(left - 1) : Tail(todo)[j] = all[i + j]
  <2> SUFFICES ASSUME NEW j \in 1..(left - 1) PROVE Tail(todo)[j] = all[i + j]
    OBVIOUS
  <2>1. j + 1 \in 1..left /\ k + (j + 1) = i + j
    BY <1>3, <1>5
  <2>2. todo[j + 1] = all[k + (j + 1)]
    BY <1>4, <2>1
  <2> HIDE DEF i, k, left
  <2> QED BY <1>5, <2>1, <2>2
<1> HIDE DEF i, k, left
<1>12. \A t \in Range(s) : Suits(Range(asked), t)
  <2>1. \A t \in Range(all[i]) : Suits({} \cup Up(all, i - 1), t)
    BY <1>3, <1>10 DEF Sound
  <2>2. {} \cup Up(all, i - 1) = Range(asked)
    BY <1>4, <1>10
  <2> QED BY <1>10, <2>1, <2>2
<1>13. Telling(asked') /\ Range(asked') = Range(asked) \cup Range(s)
  <2>1. asked \in Seq(Chars)
    BY <1>2 DEF BuilderInv, BuilderTypeOK
  <2> QED BY <1>4, <1>5, <1>7, <1>12, <2>1, TellPiece
<1>14. Range(asked') = Up(all, i)
  <2>1. Up(all, i) = Up(all, k) \cup Range(all[i])
    BY <1>10 DEF Up
  <2> QED BY <1>4, <1>10, <1>13, <2>1
<1>15. Sources'
  BY <1>1, <1>2 DEF Sources, Collected
<1>16. Checked'
  <2>1. stage' \in Stages /\ stage' # "import" /\ stage' # "check" /\ ~reported' /\ ~c_error'
        /\ reported' \in BOOLEAN /\ c_error' \in BOOLEAN
    BY <1>1, <1>2 DEF Stages
  <2>2. merged' = Len(imports') /\ Ready(prog')
    BY <1>1, <1>2
  <2> QED BY <2>1, <2>2 DEF Checked
<1>17. ASSUME stage' = "emit" PROVE Emitted'
  <2> DEFINE rest == Len(todo')
  <2>1. use' = "live"
    BY <1>1, <1>9, <1>17
  <2>2. rest = left - 1 /\ Layout(prog') = all
    BY <1>1, <1>5 DEF all
  <2>3. rest <= Len(all) /\ Len(all) - rest = i
    BY <1>4, <1>5, <1>10, <2>2
  <2>4. \A j \in 1..rest : todo'[j] = all[i + j]
    BY <1>1, <1>11, <2>2
  <2> HIDE DEF rest
  <2>5. \A j \in 1..rest : todo'[j] = all[Len(all) - rest + j]
    BY <2>3, <2>4
  <2>6. Range(asked') = Up(all, Len(all) - rest)
    BY <1>14, <2>3
  <2> QED BY <1>13, <2>1, <2>2, <2>3, <2>5, <2>6 DEF Emitted, rest
<1>18. ~c_error' /\ stage' # "compile" /\ ~Compiled' /\ todo' \in Seq(Out)
  BY <1>1, <1>2, <1>5, <1>9 DEF Compiled
<1> QED BY <1>8, <1>15, <1>16, <1>17, <1>18 DEF Inv

\* With nothing left to append the text is the layout, and gcc gets it.
LEMMA HandOverKeeps ==
  ASSUME Inv, HandOver
  PROVE  Inv'
<1> DEFINE all == Layout(prog)
<1>1. /\ stage = "emit" /\ todo = <<>> /\ sb_to_string
      /\ stage' = IF held THEN "compile" ELSE "done"
      /\ files' = files /\ imports' = imports /\ merged' = merged /\ prog' = prog
      /\ reported' = reported /\ c_error' = c_error /\ todo' = todo
  BY DEF HandOver, source
<1>2. /\ BuilderInv /\ Sources /\ Checked /\ todo \in Seq(Out) /\ Emitted
      /\ ~reported /\ ~c_error /\ reported \in BOOLEAN /\ c_error \in BOOLEAN
      /\ merged = Len(imports) /\ Ready(prog)
  BY <1>1 DEF Inv, Checked
<1>3. use' = "handed" /\ asked' = asked
  BY <1>1 DEF sb_to_string, Reset
<1>4. Telling(asked) /\ Range(asked) = Up(all, Len(all) - Len(todo))
  BY <1>2 DEF Emitted
<1>5. all \in Seq(Out)
  BY <1>2, LayoutSound
<1> HIDE DEF all
<1>6. Len(all) - Len(todo) = Len(all)
  BY <1>1, <1>5
<1>7. Range(asked) = Said(all)
  BY <1>4, <1>6 DEF Said
<1>8. Told'
  BY <1>1, <1>3, <1>4, <1>7 DEF Told, all
<1>9. BuilderInv'
  BY <1>1, <1>2, ResetStep
<1>10. Sources'
  BY <1>1, <1>2 DEF Sources, Collected
<1>11. Checked'
  <2>1. stage' \in Stages /\ stage' # "import" /\ stage' # "check" /\ ~reported' /\ ~c_error'
        /\ reported' \in BOOLEAN /\ c_error' \in BOOLEAN
    BY <1>1, <1>2 DEF Stages
  <2>2. merged' = Len(imports') /\ Ready(prog')
    BY <1>1, <1>2
  <2> QED BY <2>1, <2>2 DEF Checked
<1>12. ~c_error' /\ stage' # "emit" /\ todo' \in Seq(Out)
  BY <1>1, <1>2
<1> QED BY <1>3, <1>8, <1>9, <1>10, <1>11, <1>12 DEF Inv

\* gcc rejects a whole text only where the sources use a habit.
LEMMA GccKeeps ==
  ASSUME Inv, gcc
  PROVE  Inv'
<1>1. /\ stage = "compile" /\ stage' = "done"
      /\ c_error' = ~\A n \in DOMAIN data : Declares(data, n)
      /\ files' = files /\ imports' = imports /\ merged' = merged /\ prog' = prog
      /\ reported' = reported /\ todo' = todo /\ builder' = builder
  BY DEF gcc, source
<1>2. /\ BuilderInv /\ Sources /\ Checked /\ todo \in Seq(Out) /\ use = "handed" /\ Told
      /\ ~reported /\ reported \in BOOLEAN /\ merged = Len(imports) /\ Ready(prog)
  BY <1>1 DEF Inv, Checked
<1>3. use' = use /\ lost' = lost /\ asked' = asked /\ data' = data
  BY <1>1 DEF builder
<1>4. ASSUME Habits = {}, ~lost PROVE ~c_error'
  <2>1. data = asked /\ asked \in Seq(Chars)
    BY <1>2, <1>4 DEF BuilderInv, BuilderTypeOK, WholeUnlessLost
  <2>2. \A n \in DOMAIN data : Declares(data, n)
    <3>1. \A t \in Said(Layout(prog)) :
            /\ t.kind = "include" => t.name \in Range(Headers)
            /\ t.kind \in {"struct", "prototype", "function"} => t.name \notin Given
      BY <1>2, <1>4, LayoutSound
    <3>2. Range(data) = Said(Layout(prog)) /\ Telling(data)
      BY <1>2, <2>1 DEF Told
    <3> QED BY <1>4, <2>1, <3>1, <3>2, TellsGcc
  <2> QED BY <1>1, <2>2
<1>5. BuilderInv'
  BY <1>1, <1>2, BuilderFrame
<1>6. Sources'
  BY <1>1, <1>2 DEF Sources, Collected
<1>7. Checked'
  <2>1. stage' \in Stages /\ stage' = "done" /\ ~reported'
        /\ reported' \in BOOLEAN /\ c_error' \in BOOLEAN
    BY <1>1, <1>2 DEF Stages
  <2>2. merged' = Len(imports') /\ Ready(prog')
    BY <1>1, <1>2
  <2> QED BY <2>1, <2>2 DEF Checked
<1>8. Told'
  BY <1>1, <1>2, <1>3 DEF Told
<1>9. stage' # "emit" /\ stage' # "compile" /\ todo' \in Seq(Out)
      /\ (Habits = {} /\ c_error' => lost')
  BY <1>1, <1>2, <1>3, <1>4
<1> QED BY <1>5, <1>6, <1>7, <1>8, <1>9 DEF Inv

\* Every step keeps the invariant.
LEMMA CTextNext ==
  ASSUME Inv, [Next]_vars
  PROVE  Inv'
<1>1. CASE UNCHANGED vars
  <2>1. /\ files' = files /\ imports' = imports /\ merged' = merged /\ prog' = prog
        /\ stage' = stage /\ reported' = reported /\ todo' = todo /\ c_error' = c_error
        /\ builder' = builder
    BY <1>1 DEF vars, source
  <2>2. use' = use /\ lost' = lost /\ asked' = asked
    BY <2>1 DEF builder
  <2>3. BuilderInv' /\ Sources' /\ Checked'
    BY <2>1, <2>2, BuilderFrame DEF Inv, Sources, Collected, Checked
  <2>4. stage' = "emit" => Emitted'
    BY <2>1, <2>2 DEF Inv, Emitted
  <2>5. Told' <=> Told
    BY <2>1, <2>2 DEF Told
  <2>6. Compiled' <=> Compiled
    BY <2>1, <2>2 DEF Compiled
  <2> QED BY <2>1, <2>2, <2>3, <2>4, <2>5, <2>6 DEF Inv
<1> QED BY <1>1, ImportKeeps, CheckKeeps, CodegenKeeps, EmitKeeps, HandOverKeeps, GccKeeps DEF Next

\* The invariant of the compilation, from the first import to gcc's verdict.
LEMMA CTextInvariant == Spec => []Inv
<1>1. Inv /\ [Next]_vars => Inv'
  BY CTextNext
<1> QED BY <1>1, CTextInit, PTL DEF Spec
-----------------------------------------------------------------------------
\* Every variable of the compilation keeps its type: the builder's, the stage,
\* the number of merged imports, and what is left to append.
THEOREM CTextTypes == Spec => []TypeOK
<1>1. Inv => TypeOK
  <2> SUFFICES ASSUME Inv PROVE TypeOK
    OBVIOUS
  <2>1. BuilderTypeOK /\ merged \in 0..Len(imports) /\ stage \in Stages
        /\ reported \in BOOLEAN /\ c_error \in BOOLEAN /\ todo \in Seq(Out)
    BY DEF Inv, BuilderInv, Sources, Checked
  <2>2. Range(todo) \subseteq Pieces \cup Numbers
    BY <2>1, OutIs DEF Range
  <2> QED BY <2>1, <2>2 DEF TypeOK, Stages
<1> QED BY <1>1, CTextInvariant, PTL

\* No piece of the C text is written outside the buffer codegen_to_c has.
THEOREM CTextBounded == Spec => []Bounded
<1>1. Inv => Bounded
  BY DEF Inv, BuilderInv
<1> QED BY <1>1, CTextInvariant, PTL

\* Unless a realloc failed the C text is everything codegen_to_c appended.
THEOREM CTextKeepsText == Spec => []WholeUnlessLost
<1>1. Inv => WholeUnlessLost
  BY DEF Inv, BuilderInv
<1> QED BY <1>1, CTextInvariant, PTL

\* The C text of a Program the checker lets pass defines every function of the
\* main file and of every imported module exactly once, whatever the files
\* are and in whichever order they are imported.
THEOREM FunctionsOnce == Spec => []EveryFunctionOnce
<1>1. Inv => EveryFunctionOnce
  <2> SUFFICES ASSUME Inv, Compiled, ~lost, NEW m \in {Main} \cup Range(imports),
                      NEW f \in Range(files[m].funcs)
               PROVE  Cardinality({n \in DOMAIN data : data[n] = Token("function", f.name)}) = 1
    BY DEF EveryFunctionOnce
  <2>1. stage = "done" /\ use = "handed" /\ Told /\ BuilderInv /\ Sources /\ Checked
    BY DEF Inv, Compiled
  <2>2. merged = Len(imports) /\ Ready(prog)
    BY <2>1 DEF Checked
  <2>3. f \in Range(prog.funcs)
    <3>1. CASE m = Main
      BY <2>1, <3>1 DEF Sources, Collected
    <3>2. CASE m \in Range(imports)
      <4>1. PICK n \in DOMAIN imports : m = imports[n]
        BY <3>2 DEF Range
      <4>2. imports \in Seq(Modules)
        BY <2>1 DEF Sources
      <4>3. n \in 1..merged
        BY <2>2, <4>1, <4>2
      <4> QED BY <2>1, <4>1, <4>3 DEF Sources, Collected
    <3> QED BY <3>1, <3>2
  <2>4. PICK n \in 1..Len(prog.funcs) : f = prog.funcs[n]
    <3>1. prog.funcs \in Seq(Func)
      BY <2>2, ReadyIs
    <3> QED BY <2>3, <3>1 DEF Range
  <2>5. Token("function", f.name) \in Said(Layout(prog))
    BY <2>2, <2>4, LayoutSound
  <2>6. data = asked /\ asked \in Seq(Chars)
    BY <2>1 DEF BuilderInv, BuilderTypeOK, WholeUnlessLost
  <2>7. Token("function", f.name) \in Range(data) /\ Telling(data)
    BY <2>1, <2>5, <2>6 DEF Told
  <2> QED BY <2>6, <2>7, TellsOnce
<1> QED BY <1>1, CTextInvariant, PTL

\* gcc accepts the C text of every Program the checker lets pass whose sources
\* declare each struct once, above its uses, and give it no function's name,
\* and give neither a struct nor a function a name of the library.
THEOREM TextIsAccepted ==
  ASSUME Habits = {}
  PROVE  Spec => []AcceptedByC
<1>1. Inv => AcceptedByC
  BY DEF Inv, AcceptedByC
<1> QED BY <1>1, CTextInvariant, PTL
=============================================================================
