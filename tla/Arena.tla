------------------------------- MODULE Arena -------------------------------
(***************************************************************************)
(* The bump allocator of compiler/src/common.c that holds the AST, the     *)
(* types, the symbols and the lexemes of one compilation.                  *)
(*                                                                         *)
(* An address is a buffer and an offset in it; realloc either extends the  *)
(* buffer in place or moves it, which frees the old one.  The loop that    *)
(* finds the new size is taken step by step.  The contents of the memory   *)
(* are left out.  Sizes stay far below SIZE_MAX: a request is a few times  *)
(* the source text at most, so size_t does not wrap.                       *)
(***************************************************************************)
EXTENDS Naturals

CONSTANTS
  InitSize,   (* the size given to arena_create                             *)
  Requests,   (* the sizes asked of arena_alloc                             *)
  MaxUsed     (* bound on the bytes handed out by one arena                 *)

ASSUME ArenaAssumption ==
  /\ InitSize \in Nat \ {0}
  /\ Requests \subseteq Nat \ {0}
  /\ MaxUsed \in Nat

VARIABLES
  pc,         (* "idle", "grow" inside the loop of arena_alloc, "dead"      *)
  buf,        (* Arena.buf: how often the buffer has moved                  *)
  size, used, (* Arena.size and Arena.used                                  *)
  request,    (* the aligned size of the arena_alloc in progress            *)
  new_size,   (* the local variable of that name                            *)
  blocks,     (* history: the blocks handed out since the last reset        *)
  peak        (* history: the most bytes that were needed at once           *)

arena == <<pc, buf, size, used, request, new_size, blocks, peak>>

\* (size + 7) & ~7
Align(n) == ((n + 7) \div 8) * 8

ArenaInit ==
  /\ pc = "idle"
  /\ buf = 0
  /\ size = InitSize
  /\ used = 0
  /\ request = 0
  /\ new_size = 0
  /\ blocks = {}
  /\ peak = 0

Atleast(n) == IF n > peak THEN n ELSE peak

\* Slip: used is advanced by less than was handed out.
HandOut_short(b, n) ==
  /\ blocks' = blocks \cup {[buf |-> b, off |-> used, len |-> n]}
  /\ used' = used + n - 4
  /\ peak' = Atleast(used + n)

\* The tail of arena_alloc: a block of n bytes behind the used ones, in the
\* buffer b.
HandOut(b, n) ==
  /\ blocks' = blocks \cup {[buf |-> b, off |-> used, len |-> n]}
  /\ used' = used + n
  /\ peak' = Atleast(used + n)

\* arena_alloc when the block fits; arena_strdup is a call of it with the
\* length of the string and its terminator.
arena_alloc_fits(n) ==
  /\ pc = "idle"
  /\ used + n <= MaxUsed
  /\ used + Align(n) <= size
  /\ HandOut(buf, Align(n))
  /\ UNCHANGED <<pc, buf, size, request, new_size>>

\* Slip: room for the padding is asked for twice.
arena_alloc_grow_early(n) ==
  /\ pc = "idle"
  /\ used + n <= MaxUsed
  /\ used + Align(n) + 7 > size
  /\ pc' = "grow"
  /\ request' = Align(n)
  /\ new_size' = size * 2
  /\ UNCHANGED <<buf, size, used, blocks, peak>>

\* arena_alloc when it does not: the loop starts with twice the size.
arena_alloc_grow(n) ==
  /\ pc = "idle"
  /\ used + n <= MaxUsed
  /\ used + Align(n) > size
  /\ pc' = "grow"
  /\ request' = Align(n)
  /\ new_size' = size * 2
  /\ UNCHANGED <<buf, size, used, blocks, peak>>

\* Slip: the loop computes the size from the size it started with.
double_from_size ==
  /\ pc = "grow"
  /\ used + request > new_size
  /\ new_size' = size * 2
  /\ UNCHANGED <<pc, buf, size, used, request, blocks, peak>>

\* One round of the loop.
double ==
  /\ pc = "grow"
  /\ used + request > new_size
  /\ new_size' = new_size * 2
  /\ UNCHANGED <<pc, buf, size, used, request, blocks, peak>>

\* realloc delivers new_size bytes, in place or elsewhere.
realloc_ok ==
  /\ pc = "grow"
  /\ used + request <= new_size
  /\ buf' \in {buf, buf + 1}
  /\ size' = new_size
  /\ HandOut(buf', request)
  /\ pc' = "idle" /\ request' = 0 /\ new_size' = 0

\* Slip: the size is lost when realloc fails.
realloc_fails_empty ==
  /\ pc = "grow"
  /\ used + request <= new_size
  /\ pc' = "idle" /\ request' = 0 /\ new_size' = 0
  /\ size' = 0
  /\ UNCHANGED <<buf, used, blocks, peak>>

\* realloc returns NULL, and so does arena_alloc: nothing changed.
realloc_fails ==
  /\ pc = "grow"
  /\ used + request <= new_size
  /\ pc' = "idle" /\ request' = 0 /\ new_size' = 0
  /\ UNCHANGED <<buf, size, used, blocks, peak>>

\* Every block is given up at once.
arena_reset ==
  /\ pc = "idle"
  /\ used' = 0
  /\ blocks' = {}
  /\ UNCHANGED <<pc, buf, size, request, new_size, peak>>

\* The buffer is freed; the arena is not used again.
arena_destroy ==
  /\ pc = "idle"
  /\ pc' = "dead"
  /\ blocks' = {}
  /\ UNCHANGED <<buf, size, used, request, new_size, peak>>

ArenaNext ==
  \/ \E n \in Requests : arena_alloc_fits(n) \/ arena_alloc_grow(n)
  \/ double
  \/ realloc_ok
  \/ realloc_fails
  \/ arena_reset
  \/ arena_destroy

ArenaSpec == ArenaInit /\ [][ArenaNext]_arena

\* A call of arena_alloc that was begun goes on: there is one thread.
ArenaFairSpec == ArenaSpec /\ WF_arena(double \/ realloc_ok \/ realloc_fails)
-----------------------------------------------------------------------------

Block == [buf : Nat, off : Nat, len : Nat]

ArenaTypeOK ==
  /\ pc \in {"idle", "grow", "dead"}
  /\ buf \in Nat
  /\ size \in Nat \ {0}
  /\ used \in Nat
  /\ request \in Nat
  /\ new_size \in Nat
  /\ blocks \subseteq Block
  /\ peak \in Nat

End(b) == b.off + b.len

\* No byte belongs to two blocks.
Disjoint ==
  \A b, c \in blocks : b # c => End(b) <= c.off \/ End(c) <= b.off

\* Every block lies in the part of the buffer that is in use, whose end lies
\* in the buffer.
InBuffer ==
  /\ used <= size
  /\ \A b \in blocks : End(b) <= used

\* Every block starts on a multiple of 8.
Aligned == \A b \in blocks : b.off % 8 = 0

\* Writing one node of the AST never changes another nor anything outside of
\* the arena, and every node is aligned for its pointers and doubles, over any
\* sequence of requests, growths, failures and resets.
BlocksSound == Disjoint /\ InBuffer /\ Aligned

\* The buffer never grows to twice what was needed at once: the loop that
\* doubles new_size stops at the first size that is enough.
NoWaste == size = InitSize \/ size < 2 * peak

\* A call of arena_alloc returns: the loop that doubles new_size ends.
GrowReturns == (pc = "grow") ~> (pc = "idle")

\* As long as what was needed at once fits the first buffer, no pointer that
\* arena_alloc returned dangles: failed requests, resets and requests that
\* fit to the last byte leave the buffer where it is.
GoodWhileSmall == peak <= InitSize => \A b \in blocks : b.buf = buf

\* What main.c says of the lexemes ("arena lifetime ends at end of compile"):
\* a pointer arena_alloc returned stays good until the arena goes.
PointersStayGood == \A b \in blocks : b.buf = buf
=============================================================================
