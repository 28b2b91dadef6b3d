----------------------------- MODULE Reassembly -----------------------------
(***************************************************************************)
(* Splitting a message across datagrams and putting it back together, as   *)
(* in lumen-proto's reassembly.rs: the Fragments iterator of a sender and  *)
(* the Reassembler a receiver holds for it.  Both are values here, and     *)
(* next() and accept() are operators on them; FragmentedStream and         *)
(* SecureLink run them against a network.                                  *)
(*                                                                         *)
(* A payload is a sequence of tokens standing for its bytes.               *)
(***************************************************************************)
EXTENDS Integers, Sequences

CONSTANTS
  Capacity,          \* N, the largest message the receiver holds
  SequenceModulus    \* sequence numbers wrap at this value (2^32 in the code)

ASSUME CapacityAssumption == Capacity \in Nat
ASSUME SequenceModulusAssumption == SequenceModulus \in Nat \ {0}

SequenceNumber == 0..(SequenceModulus - 1)

\* u32::wrapping_add(1)
WrappingNext(sequence) == (sequence + 1) % SequenceModulus

\* The three header flags that concern fragments.
Flags == [fragment : BOOLEAN, first : BOOLEAN, last : BOOLEAN]
Unfragmented == [fragment |-> FALSE, first |-> FALSE, last |-> FALSE]

Lesser(a, b) == IF a < b THEN a ELSE b
Greater(a, b) == IF a < b THEN b ELSE a

-----------------------------------------------------------------------------
(* The sender's iterator.                                                   *)

\* fragment(payload, sequence, chunk): a chunk of 0 is raised to 1.
Fragments(payload, sequence, chunk) ==
  [payload |-> payload, chunk |-> Greater(chunk, 1), offset |-> 0,
   sequence |-> sequence, done |-> FALSE]

\* Where the chunk next() yields ends in the payload.
ChunkEnd(it) == Lesser(it.offset + it.chunk, Len(it.payload))

\* Mistake: the last fragment is not marked when it fills its datagram.
FlagsNotLastWhenFull(it) ==
  IF Len(it.payload) <= it.chunk
    THEN Unfragmented
    ELSE [fragment |-> TRUE,
          first    |-> it.offset = 0,
          last     |-> it.offset + it.chunk > Len(it.payload)]

\* The flags of the fragment next() yields: none at all if the message fits.
FragmentFlags(it) ==
  IF Len(it.payload) <= it.chunk
    THEN Unfragmented
    ELSE [fragment |-> TRUE,
          first    |-> it.offset = 0,
          last     |-> ChunkEnd(it) = Len(it.payload)]

\* The fragment next() yields while the iterator is not done.
Yielded(it) == [sequence |-> it.sequence,
                flags    |-> FragmentFlags(it),
                payload  |-> SubSeq(it.payload, it.offset + 1, ChunkEnd(it))]

\* The iterator after next().
Advanced(it) == [it EXCEPT !.sequence = WrappingNext(it.sequence),
                           !.offset = ChunkEnd(it),
                           !.done = ChunkEnd(it) = Len(it.payload)]

-----------------------------------------------------------------------------
(* The receiver's reassembler.                                              *)

AcceptVerdict == {"Whole", "Held", "Complete", "Gap", "TooLarge"}

\* held is buf[..len].
NewReassembler == [held |-> <<>>, nextSequence |-> 0, inProgress |-> FALSE]

\* Mistake: reset() clears the flag and leaves len alone.
\* reset()
Reset(r) == [r EXCEPT !.inProgress = FALSE, !.held = <<>>]

\* What accept() appends to: a first fragment replaces whatever was held.
Base(r, flags) == IF flags.first THEN Reset(r).held ELSE r.held

\* Mistake: only the sequence number is looked at, never in_progress, so what
\* follows a message that was abandoned or finished can be taken to continue it.
ContinuesByNumberOnly(r, sequence, flags) ==
  flags.first \/ sequence = r.nextSequence

\* Mistake: only in_progress is looked at.
ContinuesInProgress(r, sequence, flags) == flags.first \/ r.inProgress

\* A fragment is taken only if it starts a message or continues the held one.
Continues(r, sequence, flags) ==
  flags.first \/ (r.inProgress /\ sequence = r.nextSequence)

\* Mistake: the bound is on the fragment and not on the message.
FitsFragmentOnly(r, d) == Len(d.payload) <= Capacity

Fits(r, d) == Len(Base(r, d.flags)) + Len(d.payload) <= Capacity

\* The verdict of accept(sequence, flags, payload) on datagram d.
AcceptVerdictOf(r, d) ==
  CASE ~d.flags.fragment                   -> "Whole"
    [] d.flags.fragment /\ ~Continues(r, d.sequence, d.flags) -> "Gap"
    [] /\ d.flags.fragment /\ Continues(r, d.sequence, d.flags)
       /\ ~Fits(r, d)                      -> "TooLarge"
    [] OTHER -> IF d.flags.last THEN "Complete" ELSE "Held"

\* The reassembler after accept(): reset by anything it does not take.
AfterAccept(r, d) ==
  IF AcceptVerdictOf(r, d) \in {"Whole", "Gap", "TooLarge"}
    THEN Reset(r)
    ELSE [held         |-> Base(r, d.flags) \o d.payload,
          nextSequence |-> WrappingNext(d.sequence),
          inProgress   |-> ~d.flags.last]

-----------------------------------------------------------------------------
(* The types of the three, given the tokens payloads are made of.           *)

IteratorOver(Tokens) ==
  [payload : Seq(Tokens), chunk : Nat \ {0}, offset : Nat,
   sequence : SequenceNumber, done : BOOLEAN]

FragmentOver(Tokens) ==
  [sequence : SequenceNumber, flags : Flags, payload : Seq(Tokens)]

ReassemblerOver(Tokens) ==
  [held : Seq(Tokens), nextSequence : SequenceNumber, inProgress : BOOLEAN]
=============================================================================
