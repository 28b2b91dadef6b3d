------------------------------- MODULE MeshMac -------------------------------
(***************************************************************************)
(* The tag of a datagram that is authenticated and not encrypted           *)
(* (lumen-crypto, mesh.rs): header and payload, fed to Poly1305 as whole   *)
(* blocks though the seam between them is not on a block boundary.         *)
(*                                                                         *)
(* Poly1305 itself is outside: what it is given stands for the tag, so two *)
(* datagrams have the same tag when they give it the same blocks.          *)
(***************************************************************************)
EXTENDS Integers, Sequences, FiniteSets

CONSTANTS
  Block,       \* bytes in a block, 16
  HeaderLen,   \* bytes of associated data, always the 24 of a header
  Bytes,
  PayloadMax,
  MaxSealed

ASSUME BlockAssumption == Block \in Nat \ {0} /\ 0 \in Bytes
ASSUME SizesAssumption == HeaderLen \in Nat /\ PayloadMax \in Nat /\ MaxSealed \in Nat

VARIABLES
  todo,     \* the slices still to be fed
  length,   \* bytes in the slices of this datagram
  feeder,   \* [partial, used]
  mac,      \* the blocks Poly1305 has been given
  whole,    \* header \o payload of this datagram
  sealed    \* [message, tag] of those finished

vars == <<todo, length, feeder, mac, whole, sealed>>

Headers == [1..HeaderLen -> Bytes]
Payloads == UNION {[1..n -> Bytes] : n \in 0..PayloadMax}

NewFeeder == [partial |-> [k \in 1..Block |-> 0], used |-> 0]

\* partial with data copied in at offset, the rest as it was.
CopiedAt(partial, offset, data) ==
  [k \in 1..Block |-> IF k - offset \in DOMAIN data THEN data[k - offset] ELSE partial[k]]

WholeBlocks(data) ==
  [b \in 1..(Len(data) \div Block) |-> SubSeq(data, ((b - 1) * Block) + 1, b * Block)]

Remainder(data) == SubSeq(data, ((Len(data) \div Block) * Block) + 1, Len(data))

\* Fed block by block from a block boundary.
FromBoundary(s, data) ==
  [mac |-> s.mac \o WholeBlocks(data),
   feeder |-> [partial |-> CopiedAt(s.feeder.partial, 0, Remainder(data)),
               used |-> Len(Remainder(data))]]

\* Mistake: an empty slice falls through to the remainder, and drops the carry.
AfterFeedFallsThrough(s, data) ==
  LET take == IF Block - s.feeder.used < Len(data) THEN Block - s.feeder.used ELSE Len(data)
      filled == CopiedAt(s.feeder.partial, s.feeder.used, SubSeq(data, 1, take))
      rest == SubSeq(data, take + 1, Len(data))
  IN  IF s.feeder.used = 0 \/ data = <<>> THEN FromBoundary(s, data)
      ELSE IF s.feeder.used + take < Block
      THEN [mac |-> s.mac, feeder |-> [partial |-> filled, used |-> s.feeder.used + take]]
      ELSE FromBoundary([mac |-> Append(s.mac, filled),
                         feeder |-> [partial |-> filled, used |-> 0]], rest)

\* BlockFeeder::feed on [mac, feeder].
AfterFeed(s, data) ==
  LET take == IF Block - s.feeder.used < Len(data) THEN Block - s.feeder.used ELSE Len(data)
      filled == CopiedAt(s.feeder.partial, s.feeder.used, SubSeq(data, 1, take))
      rest == SubSeq(data, take + 1, Len(data))
  IN  IF data = <<>> THEN s
      ELSE IF s.feeder.used = 0 THEN FromBoundary(s, data)
      ELSE IF s.feeder.used + take < Block
      THEN [mac |-> s.mac, feeder |-> [partial |-> filled, used |-> s.feeder.used + take]]
      ELSE FromBoundary([mac |-> Append(s.mac, filled),
                         feeder |-> [partial |-> filled, used |-> 0]], rest)

\* BlockFeeder::pad: the last block, filled up with zeros.
Padded(s) ==
  IF s.feeder.used = 0 THEN s.mac
  ELSE Append(s.mac, [k \in 1..Block |-> IF k > s.feeder.used THEN 0 ELSE s.feeder.partial[k]])

\* Mistake: the lengths are left out.
LengthsNone(n) == <<>>

\* The lengths: associated data, and a ciphertext of none.
LengthBlock(n) == <<n, 0>>

\* Poly1305's input: the padded blocks and the block of lengths.
TagOf(s, n) == [blocks |-> Padded(s), lengths |-> LengthBlock(n)]

Init ==
  /\ todo = <<>> /\ length = 0 /\ feeder = NewFeeder /\ mac = <<>> /\ whole = <<>>
  /\ sealed = {}

\* seal without encryption: a new feeder, and the two slices to feed it.
Begin(header, payload) ==
  /\ todo = <<>> /\ whole = <<>>
  /\ Cardinality(sealed) < MaxSealed
  /\ todo' = <<header, payload>>
  /\ length' = Len(header) + Len(payload)
  /\ whole' = header \o payload
  /\ feeder' = NewFeeder
  /\ mac' = <<>>
  /\ UNCHANGED sealed

FeedSlice ==
  /\ todo # <<>>
  /\ LET s == AfterFeed([mac |-> mac, feeder |-> feeder], Head(todo))
     IN  feeder' = s.feeder /\ mac' = s.mac
  /\ todo' = Tail(todo)
  /\ UNCHANGED <<length, whole, sealed>>

Finish ==
  /\ todo = <<>> /\ whole # <<>>
  /\ sealed' = sealed \cup
       {[message |-> whole, tag |-> TagOf([mac |-> mac, feeder |-> feeder], length)]}
  /\ whole' = <<>> /\ length' = 0 /\ feeder' = NewFeeder /\ mac' = <<>>
  /\ UNCHANGED todo

Next ==
  \/ \E header \in Headers, payload \in Payloads : Begin(header, payload)
  \/ FeedSlice
  \/ Finish

Spec == Init /\ [][Next]_vars

-----------------------------------------------------------------------------

TypeOK ==
  /\ feeder.partial \in [1..Block -> Bytes] /\ feeder.used \in 0..(Block - 1)
  /\ mac \in Seq([1..Block -> Bytes])
  /\ todo \in Seq(Seq(Bytes)) /\ Len(todo) <= 2
  /\ whole \in Seq(Bytes) /\ length \in Nat
  /\ IsFiniteSet(sealed) /\ Cardinality(sealed) <= MaxSealed

\* A message padded once at its end to whole blocks, as RFC 8439 lays it out.
ZeroPadded(message) ==
  LET blocks == (Len(message) + Block - 1) \div Block
  IN  message \o [k \in 1..((blocks * Block) - Len(message)) |-> 0]

\* Blocks end to end.
EndToEnd(blocks) ==
  [i \in 1..(Len(blocks) * Block) |-> blocks[((i - 1) \div Block) + 1][((i - 1) % Block) + 1]]

\* The slices still to be fed, end to end.
ToFeed ==
  IF todo = <<>> THEN <<>> ELSE IF Len(todo) = 1 THEN todo[1] ELSE todo[1] \o todo[2]

\* Poly1305 never sees the seam between header and payload: blocks given and
\* carry are always the slices fed so far, end to end, and a finished tag is over
\* the whole message with nothing but zeros after it.
SeamNeverShows ==
  /\ (EndToEnd(mac) \o SubSeq(feeder.partial, 1, feeder.used)) \o ToFeed = whole
  /\ \A d \in sealed : EndToEnd(d.tag.blocks) = ZeroPadded(d.message)

\* Datagrams that differ anywhere, in a header, in a payload or in its length,
\* differ in what is authenticated.
TagsTellDatagramsApart ==
  \A d, e \in sealed : d.tag = e.tag => d.message = e.message
=============================================================================
