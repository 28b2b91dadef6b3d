-------------------------- MODULE ReassemblyLemmas --------------------------
(***************************************************************************)
(* What the proofs about streams and links need of the operators of        *)
(* Reassembly: sequence numbers that wrap and never come round, slices of  *)
(* a message, and the types of what next() and accept() return.            *)
(***************************************************************************)
EXTENDS Reassembly, SequenceTheorems, TLAPS

-----------------------------------------------------------------------------
(* Sequence numbers.                                                        *)

\* How many numbers come before q when counting starts at `first`.
StepsFrom(first, q) == IF q >= first THEN q - first ELSE q - first + SequenceModulus

\* wrapping_add(1) counts up to the largest number and then starts from zero.
LEMMA WrappingNextValue ==
  ASSUME NEW q \in SequenceNumber
  PROVE  /\ WrappingNext(q) \in SequenceNumber
         /\ WrappingNext(q) = IF q + 1 = SequenceModulus THEN 0 ELSE q + 1
<1> DEFINE M == SequenceModulus
<1>1. M \in Nat \ {0} /\ q \in 0..(M - 1)
  BY SequenceModulusAssumption DEF SequenceNumber
<1>2. WrappingNext(q) = (q + 1) % M
  BY DEF WrappingNext
<1> HIDE DEF M
<1>3. (q + 1) % M = IF q + 1 = M THEN 0 ELSE q + 1
  BY <1>1
<1> QED
  BY <1>1, <1>2, <1>3 DEF SequenceNumber, M

\* Two numbers equally many steps after the first are the same number, and until
\* the numbers run out the next one is one step further.
LEMMA StepsCount ==
  ASSUME NEW first \in SequenceNumber, NEW q \in SequenceNumber, NEW r \in SequenceNumber
  PROVE  /\ StepsFrom(first, q) \in 0..(SequenceModulus - 1)
         /\ StepsFrom(first, q) \in Nat /\ StepsFrom(first, first) = 0
         /\ StepsFrom(first, q) = StepsFrom(first, r) => q = r
         /\ StepsFrom(first, q) + 1 < SequenceModulus
              => StepsFrom(first, WrappingNext(q)) = StepsFrom(first, q) + 1
         /\ WrappingNext(q) = WrappingNext(r) => q = r
<1> USE WrappingNextValue, SequenceModulusAssumption DEF StepsFrom, SequenceNumber
<1>1. WrappingNext(r) = IF r + 1 = SequenceModulus THEN 0 ELSE r + 1
  OBVIOUS
<1>2. WrappingNext(q) = IF q + 1 = SequenceModulus THEN 0 ELSE q + 1
  OBVIOUS
<1>3. WrappingNext(q) \in SequenceNumber
  OBVIOUS
<1> HIDE WrappingNextValue
<1> QED
  BY <1>1, <1>2, <1>3

-----------------------------------------------------------------------------
(* Slices.                                                                  *)

\* The tokens of p after the a-th, up to the b-th.
Slice(p, a, b) == SubSeq(p, a + 1, b)

\* The first a tokens of p, and behind them those up to the b-th.
Continued(p, a, b) == Slice(p, 0, a) \o Slice(p, a, b)

\* A slice has as many tokens as lie between its ends, the first of them after
\* the start; slices that meet make one slice, and the whole is one.
LEMMA Slices ==
  ASSUME NEW Tokens, NEW p \in Seq(Tokens), NEW a \in Nat, NEW b \in Nat,
         a <= b, b <= Len(p)
  PROVE  /\ Slice(p, a, b) \in Seq(Tokens) /\ Len(Slice(p, a, b)) = b - a
         /\ a < b => Slice(p, a, b)[1] = p[a + 1]
         /\ Continued(p, a, b) = Slice(p, 0, b)
         /\ Slice(p, 0, Len(p)) = p
<1>1. \A x, y \in Nat : x <= y /\ y <= Len(p) =>
        /\ Slice(p, x, y) \in Seq(Tokens) /\ Len(Slice(p, x, y)) = y - x
        /\ \A i \in 1..(y - x) : Slice(p, x, y)[i] = p[x + i]
  BY DEF Slice
<1>2. Len(p) \in Nat
  OBVIOUS
<1> DEFINE l == Slice(p, 0, a)
           r == Slice(p, a, b)
<1>3. /\ l \in Seq(Tokens) /\ Len(l) = a /\ r \in Seq(Tokens) /\ Len(r) = b - a
      /\ \A i \in 1..a : l[i] = p[i]
      /\ \A i \in 1..(b - a) : r[i] = p[a + i]
  <2>1. 0 \in Nat /\ 0 <= a /\ a <= Len(p) /\ a - 0 = a
    BY <1>2
  <2>2. /\ l \in Seq(Tokens) /\ Len(l) = a - 0
        /\ \A i \in 1..(a - 0) : l[i] = p[0 + i]
    BY <1>1, <2>1
  <2>3. \A i \in 1..a : l[i] = p[i]
    BY <2>1, <2>2
  <2>4. /\ r \in Seq(Tokens) /\ Len(r) = b - a
        /\ \A i \in 1..(b - a) : r[i] = p[a + i]
    BY <1>1
  <2> QED
    BY <2>1, <2>2, <2>3, <2>4
<1>4. /\ Slice(p, 0, b) \in Seq(Tokens) /\ Len(Slice(p, 0, b)) = b
      /\ \A i \in 1..b : Slice(p, 0, b)[i] = p[i]
  <2>1. 0 \in Nat /\ 0 <= b /\ b - 0 = b
    OBVIOUS
  <2>2. /\ Slice(p, 0, b) \in Seq(Tokens) /\ Len(Slice(p, 0, b)) = b - 0
        /\ \A i \in 1..(b - 0) : Slice(p, 0, b)[i] = p[0 + i]
    BY <1>1, <2>1
  <2> QED
    BY <2>1, <2>2
<1> HIDE DEF l, r
<1>5. /\ l \o r \in Seq(Tokens) /\ Len(l \o r) = b
      /\ \A i \in 1..b : (l \o r)[i] = IF i <= a THEN l[i] ELSE r[i - a]
  <2>1. l \in Seq(Tokens) /\ r \in Seq(Tokens) /\ Len(l) + Len(r) = b /\ Len(l) = a
    BY <1>3
  <2>2. /\ l \o r \in Seq(Tokens) /\ Len(l \o r) = Len(l) + Len(r)
        /\ \A i \in 1..(Len(l) + Len(r)) :
             (l \o r)[i] = IF i <= Len(l) THEN l[i] ELSE r[i - Len(l)]
    BY <2>1, ConcatProperties
  <2> QED
    BY <2>1, <2>2
<1>6. \A i \in 1..b : (l \o r)[i] = p[i]
  BY <1>3, <1>5
<1>7. l \o r = Slice(p, 0, b)
  BY <1>4, <1>5, <1>6, SeqEqual
<1>8. a < b => r[1] = p[a + 1]
  BY <1>3
<1>9. Slice(p, 0, Len(p)) = p
  BY DEF Slice
<1> QED
  BY <1>3, <1>7, <1>8, <1>9 DEF l, r, Continued

-----------------------------------------------------------------------------
(* The sender's iterator.                                                   *)

\* fragment() on a payload gives an iterator, done or not.
LEMMA FragmentsType ==
  ASSUME NEW Tokens, NEW p \in Seq(Tokens), NEW q \in SequenceNumber, NEW chunk \in Nat
  PROVE  /\ Fragments(p, q, chunk) \in IteratorOver(Tokens)
         /\ [Fragments(p, q, chunk) EXCEPT !.done = TRUE] \in IteratorOver(Tokens)
<1>1. Fragments(p, q, chunk) \in IteratorOver(Tokens)
  BY DEF Fragments, Greater, IteratorOver
<1> QED
  BY <1>1 DEF IteratorOver

\* The slice next() yields is inside the message, and the iterator moves on.
LEMMA NextFragment ==
  ASSUME NEW Tokens, NEW it \in IteratorOver(Tokens)
  PROVE  /\ Yielded(it) \in FragmentOver(Tokens)
         /\ Advanced(it) \in IteratorOver(Tokens)
<1>2. ChunkEnd(it) \in Nat /\ ChunkEnd(it) <= Len(it.payload)
  BY DEF ChunkEnd, Lesser, IteratorOver
<1>3. SubSeq(it.payload, it.offset + 1, ChunkEnd(it)) \in Seq(Tokens)
  BY <1>2, SubSeqProperties DEF IteratorOver
<1>4. FragmentFlags(it) \in Flags
  BY DEF FragmentFlags, Flags, Unfragmented
<1>5. WrappingNext(it.sequence) \in SequenceNumber
  BY WrappingNextValue DEF IteratorOver
<1>6. Yielded(it) \in FragmentOver(Tokens)
  BY <1>3, <1>4 DEF Yielded, IteratorOver, FragmentOver
<1>7. Advanced(it) \in IteratorOver(Tokens)
  BY <1>2, <1>5 DEF Advanced, IteratorOver
<1> QED
  BY <1>6, <1>7

\* Where the next fragment ends: after at least one more token, unless there are
\* none, and before the end of the message only if the message is longer than a
\* datagram.
LEMMA ChunkEnds ==
  ASSUME NEW Tokens, NEW it \in IteratorOver(Tokens),
         it.offset < Len(it.payload) \/ (Len(it.payload) = 0 /\ it.offset = 0)
  PROVE  /\ ChunkEnd(it) \in Nat /\ ChunkEnd(it) <= Len(it.payload)
         /\ it.offset <= ChunkEnd(it)
         /\ it.offset < Len(it.payload) => it.offset < ChunkEnd(it)
         /\ ChunkEnd(it) < Len(it.payload) => it.chunk < Len(it.payload)
         /\ Len(it.payload) <= it.chunk => ChunkEnd(it) = Len(it.payload)
<1>1. /\ it.chunk \in Nat \ {0} /\ it.offset \in Nat /\ Len(it.payload) \in Nat
  BY DEF IteratorOver
<1>2. ChunkEnd(it) = IF it.offset + it.chunk < Len(it.payload)
                       THEN it.offset + it.chunk ELSE Len(it.payload)
  BY DEF ChunkEnd, Lesser
<1> QED
  BY <1>1, <1>2

\* What the iterator holds after next().
LEMMA AdvancedParts ==
  ASSUME NEW Tokens, NEW it \in IteratorOver(Tokens)
  PROVE  /\ Advanced(it).payload = it.payload /\ Advanced(it).chunk = it.chunk
         /\ Advanced(it).offset = ChunkEnd(it)
         /\ Advanced(it).sequence = WrappingNext(it.sequence)
         /\ Advanced(it).done <=> ChunkEnd(it) = Len(it.payload)
  BY DEF Advanced, IteratorOver

-----------------------------------------------------------------------------
(* The receiver's reassembler.                                              *)

\* reset() empties the buffer and holds nothing.
LEMMA ResetParts ==
  ASSUME NEW Tokens, NEW r \in ReassemblerOver(Tokens)
  PROVE  /\ Reset(r) \in ReassemblerOver(Tokens)
         /\ Reset(r).held = <<>> /\ ~Reset(r).inProgress
<1>1. <<>> \in Seq(Tokens)
  OBVIOUS
<1> QED
  BY <1>1 DEF Reset, ReassemblerOver

\* The bytes held once accept() has taken a fragment.
Lengthened(r, d) == Base(r, d.flags) \o d.payload

\* The fields accept() leaves behind when it takes a fragment.
LEMMA Taken ==
  ASSUME NEW r, NEW d, AcceptVerdictOf(r, d) \in {"Held", "Complete"}
  PROVE  /\ AfterAccept(r, d).held = Lengthened(r, d)
         /\ AfterAccept(r, d).nextSequence = WrappingNext(d.sequence)
         /\ AfterAccept(r, d).inProgress <=> ~d.flags.last
<1> DEFINE h == Base(r, d.flags) \o d.payload
           q == WrappingNext(d.sequence)
           more == ~d.flags.last
<1>1. AfterAccept(r, d) = [held |-> h, nextSequence |-> q, inProgress |-> more]
  BY DEF AfterAccept
<1> HIDE DEF h, q, more
<1>2. /\ AfterAccept(r, d).held = h /\ AfterAccept(r, d).nextSequence = q
      /\ AfterAccept(r, d).inProgress = more
  BY <1>1
<1> QED
  BY <1>2 DEF h, q, more, Lengthened

\* accept() keeps to the buffer, whatever it is offered.
LEMMA AcceptType ==
  ASSUME NEW Tokens, NEW r \in ReassemblerOver(Tokens), Len(r.held) <= Capacity,
         NEW d \in FragmentOver(Tokens)
  PROVE  /\ AfterAccept(r, d) \in ReassemblerOver(Tokens)
         /\ Len(AfterAccept(r, d).held) <= Capacity
         /\ AcceptVerdictOf(r, d) \in AcceptVerdict
<1>1. /\ Reset(r) \in ReassemblerOver(Tokens) /\ Reset(r).held = <<>>
      /\ Len(Reset(r).held) <= Capacity
  BY ResetParts, CapacityAssumption
<1>2. Base(r, d.flags) \in Seq(Tokens)
  BY <1>1 DEF Base, ReassemblerOver
<1>3. AcceptVerdictOf(r, d) \in {"Held", "Complete"} => Fits(r, d)
  BY DEF AcceptVerdictOf
<1>4. /\ Base(r, d.flags) \o d.payload \in Seq(Tokens)
      /\ Len(Base(r, d.flags) \o d.payload) = Len(Base(r, d.flags)) + Len(d.payload)
  BY <1>2, ConcatProperties DEF FragmentOver
<1>5. WrappingNext(d.sequence) \in SequenceNumber
  BY WrappingNextValue DEF FragmentOver
<1>6. AcceptVerdictOf(r, d) \in AcceptVerdict
  BY DEF AcceptVerdictOf, AcceptVerdict
<1>7. CASE AcceptVerdictOf(r, d) \in {"Whole", "Gap", "TooLarge"}
  BY <1>1, <1>6, <1>7 DEF AfterAccept
<1>8. CASE AcceptVerdictOf(r, d) \in {"Held", "Complete"}
  <2>1. AfterAccept(r, d) = [held         |-> Base(r, d.flags) \o d.payload,
                             nextSequence |-> WrappingNext(d.sequence),
                             inProgress   |-> ~d.flags.last]
    BY <1>8 DEF AfterAccept
  <2>2. (~d.flags.last) \in BOOLEAN
    <3>1. d.flags.last \in BOOLEAN
      BY DEF Flags, FragmentOver
    <3> QED
      BY <3>1
  <2>3. Len(Base(r, d.flags) \o d.payload) <= Capacity
    BY <1>3, <1>4, <1>8 DEF Fits
  <2> DEFINE h == Base(r, d.flags) \o d.payload
             q == WrappingNext(d.sequence)
             more == ~d.flags.last
  <2>4. h \in Seq(Tokens) /\ q \in SequenceNumber /\ more \in BOOLEAN /\ Len(h) <= Capacity
    BY <1>4, <1>5, <2>2, <2>3
  <2>5. AfterAccept(r, d) = [held |-> h, nextSequence |-> q, inProgress |-> more]
    BY <2>1
  <2> HIDE DEF h, q, more
  <2> QED
    BY <1>6, <2>4, <2>5 DEF ReassemblerOver
<1> QED
  BY <1>6, <1>7, <1>8 DEF AcceptVerdict
=============================================================================
