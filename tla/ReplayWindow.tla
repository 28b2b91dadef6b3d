---------------------------- MODULE ReplayWindow ----------------------------
(***************************************************************************)
(* The sliding replay window of lumen-proto (replay.rs): a bitmap of which *)
(* sequence numbers have been seen, relative to the highest one so far.    *)
(* This module is the data structure: a window is a value, and check() is  *)
(* the pair of its verdict and the window it leaves.  ReplayFilter runs    *)
(* one window against a stream; SecureLink holds one per sender and boot.  *)
(***************************************************************************)
EXTENDS Integers

CONSTANTS
  WindowBits,   \* how many sequence numbers the bitmap remembers (64 in the code)
  MaxSequence   \* largest sequence number (u32::MAX in the code)

ASSUME WindowBitsAssumption  == WindowBits \in Nat \ {0}
ASSUME MaxSequenceAssumption == MaxSequence \in Nat

Sequence == 0..MaxSequence

\* Bit i of the bitmap stands for the sequence number highest - i.
Bits == 0..(WindowBits - 1)

Verdict == {"Fresh", "Duplicate", "TooOld"}

Window == [highest : Sequence, seen : SUBSET Bits, started : BOOLEAN]

New == [highest |-> 0, seen |-> {}, started |-> FALSE]

\* u64 << n keeps the bits that stay below WindowBits.
ShiftLeft(bits, n) == {i \in Bits : i - n \in bits}

\* The two branches of check() that move the window forward.
Advances(w, s) == ~w.started \/ s > w.highest

\* Mistake: one short, as if bit 0 were highest - 1.
BehindOffByOne(w, s) == w.highest - s - 1

\* The number of the bit that stands for s.
Behind(w, s) == w.highest - s

\* Mistake: no test for a long jump.  u64 << takes its count modulo 64 when
\* overflow checks are off, so old bits come back for other numbers.
CarriedMasked(w, s) ==
  IF w.started THEN ShiftLeft(w.seen, (s - w.highest) % WindowBits) ELSE {}

\* Mistake: every advance clears the bitmap.
CarriedNothing(w, s) == {}

\* The bitmap the old highest leaves behind when s becomes the highest: the
\* first check() starts from nothing, and a jump of WindowBits or more clears it.
Carried(w, s) ==
  IF w.started /\ s - w.highest < WindowBits
    THEN ShiftLeft(w.seen, s - w.highest)
    ELSE {}

\* Mistake: no horizon; the bit tested is the one 1u64 << behind wraps to.
VerdictNoHorizon(w, s) ==
  IF ~Advances(w, s) /\ Behind(w, s) % WindowBits \in w.seen
    THEN "Duplicate" ELSE "Fresh"

\* The verdict of check(sequence).
VerdictOf(w, s) ==
  CASE Advances(w, s)                               -> "Fresh"
    [] ~Advances(w, s) /\ Behind(w, s) >= WindowBits -> "TooOld"
    [] ~Advances(w, s) /\ Behind(w, s) \in w.seen    -> "Duplicate"
    [] OTHER                                        -> "Fresh"

\* The window after check(sequence): it changes exactly when the verdict is Fresh.
After(w, s) ==
  CASE Advances(w, s) ->
         [highest |-> s, seen |-> Carried(w, s) \cup {0}, started |-> TRUE]
    [] ~Advances(w, s) /\ VerdictOf(w, s) = "Fresh" ->
         [w EXCEPT !.seen = @ \cup {Behind(w, s)}]
    [] OTHER -> w
=============================================================================
