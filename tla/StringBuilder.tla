--------------------------- MODULE StringBuilder ----------------------------
(***************************************************************************)
(* The StringBuilder of compiler/src/common.c: a buffer that doubles until *)
(* the next piece fits, and that drops the piece when realloc fails.  The  *)
(* callers are void functions that are never told.  A piece is a sequence  *)
(* of characters, whatever these are.                                      *)
(***************************************************************************)
EXTENDS Naturals, Sequences

CONSTANTS
  Cap0,         (* the 64 of sb_init                                        *)
  Capacities,   (* Cap0 doubled again and again, up to a bound              *)
  Buf,          (* the 1024 of sb_appendf                                   *)
  Chars,        (* the characters                                           *)
  Pieces,       (* what the callers append                                  *)
  Numbers,      (* what they have printed: shorter than Buf, all of them    *)
  Faults        (* whether malloc and realloc may fail                      *)

ASSUME StringBuilderAssumption ==
  /\ Cap0 \in Capacities
  /\ Capacities \subseteq Nat \ {0}
  /\ Buf \in Nat \ {0}
  /\ Pieces \subseteq Seq(Chars)
  /\ Numbers \subseteq {s \in Seq(Chars) : Len(s) < Buf}
  /\ Faults \in BOOLEAN

VARIABLES
  held,         (* data is not NULL                                         *)
  data,         (* the characters before the terminator                     *)
  len,          (* sb->len                                                  *)
  cap,          (* sb->cap                                                  *)
  use,          (* "none", "live", "handed" once the caller has data,       *)
                (* "freed", or "crashed": written to through NULL           *)
  asked,        (* history: everything the callers appended                 *)
  lost          (* history: realloc failed and the piece was dropped        *)

builder == <<held, data, len, cap, use, asked, lost>>

BuilderInit ==
  /\ held = FALSE /\ data = <<>> /\ len = 0 /\ cap = 0
  /\ use = "none" /\ asked = <<>> /\ lost = FALSE

\* Slip: the capacity is left to the first append.
sb_init_lazy ==
  /\ use \in {"none", "handed", "freed"}
  /\ held' = FALSE /\ data' = <<>> /\ len' = 0 /\ cap' = 0
  /\ use' = "live" /\ asked' = <<>> /\ lost' = FALSE

\* malloc's result is used only to write the terminator.
sb_init ==
  /\ use \in {"none", "handed", "freed"}
  /\ held' \in IF Faults THEN BOOLEAN ELSE {TRUE}
  /\ data' = <<>>
  /\ len' = 0
  /\ cap' = Cap0
  /\ use' = "live"
  /\ asked' = <<>>
  /\ lost' = FALSE

\* Slip: the length is left as it was.
Write_in_place(s) ==
  /\ held' = TRUE
  /\ data' = SubSeq(data, 1, len) \o s
  /\ len' = len

\* memcpy behind what is there, the new length and the terminator.
Write(s) ==
  /\ held' = TRUE
  /\ data' = SubSeq(data, 1, len) \o s
  /\ len' = len + Len(s)

\* nc: doubled until the piece fits.
Enough(n, c) == c > cap /\ len + n + 1 <= c
Doubled(n) ==
  {c \in Capacities : Enough(n, c) /\ \A d \in Capacities : Enough(n, d) => c <= d}

\* Slip: a piece that fills the buffer is taken to fit without the terminator.
Fits_exactly(n) == len + n <= cap

Fits(n) == len + n + 1 <= cap

append_there(s) ==
  /\ Fits(Len(s)) /\ held
  /\ Write(s)
  /\ UNCHANGED <<cap, use, lost>>

append_grown(s) ==
  /\ ~Fits(Len(s))
  /\ cap' \in Doubled(Len(s))
  /\ Write(s)
  /\ UNCHANGED <<use, lost>>

\* realloc failed.
append_dropped(s) ==
  /\ ~Fits(Len(s)) /\ Faults
  /\ lost' = TRUE
  /\ UNCHANGED <<held, data, len, cap, use>>

\* malloc had failed, and nothing asked for more since.
append_null(s) ==
  /\ Fits(Len(s)) /\ ~held
  /\ use' = "crashed"
  /\ UNCHANGED <<held, data, len, cap, lost>>

Append_piece(s) ==
  /\ use = "live"
  /\ append_there(s) \/ append_grown(s) \/ append_dropped(s) \/ append_null(s)

sb_append(s) == Append_piece(s) /\ asked' = asked \o s

\* Slip: vsnprintf is given a byte of the buffer less.
Formatted_short(s) == IF Len(s) < Buf - 1 THEN s ELSE SubSeq(s, 1, Buf - 2)

\* vsnprintf keeps what fits before the terminator of the caller's buffer.
Formatted(s) == IF Len(s) < Buf THEN s ELSE SubSeq(s, 1, Buf - 1)
sb_appendf(s) == Append_piece(Formatted(s)) /\ asked' = asked \o s

Reset(next) ==
  /\ use = "live"
  /\ use' = next
  /\ held' = FALSE
  /\ len' = 0
  /\ cap' = 0
  /\ UNCHANGED <<asked, lost>>

\* The caller has data from here on.
sb_to_string == Reset("handed") /\ UNCHANGED data

sb_free == Reset("freed") /\ data' = <<>>

BuilderNext ==
  \/ sb_init \/ sb_to_string \/ sb_free
  \/ \E s \in Pieces : sb_append(s)
  \/ \E s \in Numbers : sb_appendf(s)

BuilderSpec == BuilderInit /\ [][BuilderNext]_builder
-----------------------------------------------------------------------------
BuilderTypeOK ==
  /\ held \in BOOLEAN
  /\ data \in Seq(Chars)
  /\ len \in Nat
  /\ cap \in Capacities \cup {0}
  /\ use \in {"none", "live", "handed", "freed", "crashed"}
  /\ use = "live" => cap # 0
  /\ asked \in Seq(Chars)
  /\ lost \in BOOLEAN

\* Nothing is written outside the buffer, terminator included, whatever was
\* appended and however often growing failed; and the length is that of the
\* text, so no later piece overwrites an earlier one.
Bounded ==
  use = "live" => len = Len(data) /\ len + 1 <= cap

\* What the builder holds, or handed over, is everything that was appended
\* or printed into it, in order, unless realloc failed.
WholeUnlessLost == use \in {"live", "handed"} /\ ~lost => data = asked
=============================================================================
