-------------------------- MODULE SecureLinkProofs --------------------------
(***************************************************************************)
(* What the receive path of lumen-proto guarantees, for any number of      *)
(* senders, messages, reboots and damaged datagrams, any chunk and window  *)
(* size: nonces are unique, and what a receiver passes on is one whole     *)
(* message of a sender, passed on once, and never one of an earlier boot.  *)
(*                                                                         *)
(* The argument is about the tags on the wire.  Damage copies a tag and    *)
(* never makes one, so every tag was sealed by a sender and says which     *)
(* piece of which message it is a tag of; a datagram that opens is the one *)
(* its tag was sealed with.                                                *)
(***************************************************************************)
EXTENDS SecureLink, ReassemblyLemmas, FiniteSetTheorems, FunctionTheorems

-----------------------------------------------------------------------------
(* Sequence numbers.                                                        *)

\* How many numbers a boot has used before it comes to this one.
Dist(q) == StepsFrom(FirstSequence, q)

\* Two numbers used equally many steps after the first are the same number, and
\* until the boot runs out of numbers the next one is one step further.
LEMMA Distances ==
  ASSUME NEW q \in SequenceNumber, NEW r \in SequenceNumber
  PROVE  /\ Dist(q) \in 0..(SequenceModulus - 1)
         /\ Dist(q) = Dist(r) => q = r
         /\ Dist(q) + 1 < SequenceModulus => Dist(WrappingNext(q)) = Dist(q) + 1
         /\ WrappingNext(q) = WrappingNext(r) => q = r
  BY StepsCount, LinkBoundsAssumption DEF Dist

-----------------------------------------------------------------------------
(* The bounds on messages and reboots are bounds on each sender.            *)

\* The entries of a table whose column for s has h[s] of at most N entries.
Table(N, h) == {x \in Senders \X (1..N) : x[2] <= h[x[1]]}

\* A table with a column per sender has at least as many entries as a column.
LEMMA Column ==
  ASSUME NEW N \in Nat, NEW h \in [Senders -> Int], NEW s \in Senders,
         h[s] \in 0..N
  PROVE  /\ Cardinality(Table(N, h)) \in Nat
         /\ h[s] <= Cardinality(Table(N, h))
<1> DEFINE OwnColumn == {x \in Table(N, h) : x[1] = s}
           f == [i \in 1..h[s] |-> <<s, i>>]
<1>1. IsFiniteSet(Table(N, h))
  <2>1. IsFiniteSet(1..N)
    BY FS_Interval
  <2>2. IsFiniteSet(Senders \X (1..N))
    <3> DEFINE I == 1..N
    <3>1. IsFiniteSet(Senders) /\ IsFiniteSet(I)
      BY <2>1, LinkBoundsAssumption
    <3> HIDE DEF I
    <3>2. IsFiniteSet(Senders \X I)
      BY <3>1, FS_Product
    <3> QED
      BY <3>2 DEF I
  <2>3. Table(N, h) \subseteq Senders \X (1..N)
    BY DEF Table
  <2> QED
    BY <2>2, <2>3, FS_Subset
<1>2. IsFiniteSet(OwnColumn) /\ Cardinality(OwnColumn) <= Cardinality(Table(N, h))
  <2>1. OwnColumn \subseteq Table(N, h)
    OBVIOUS
  <2> HIDE DEF OwnColumn
  <2> QED
    BY <1>1, <2>1, FS_Subset
<1>3. f \in Bijection(1..h[s], OwnColumn)
  <2>1. f \in [1..h[s] -> OwnColumn]
    BY DEF Table
  <2>2. \A x \in OwnColumn : \E i \in 1..h[s] : f[i] = x
    <3> TAKE x \in OwnColumn
    <3>1. x[2] \in 1..h[s] /\ x = <<s, x[2]>>
      BY DEF Table
    <3> QED
      BY <3>1
  <2>3. \A i, j \in 1..h[s] : f[i] = f[j] => i = j
    OBVIOUS
  <2> HIDE DEF f, OwnColumn
  <2> QED
    BY <2>1, <2>2, <2>3, Fun_IsBij
<1>4. Cardinality(OwnColumn) = h[s]
  <2>1. IsFiniteSet(1..h[s]) /\ Cardinality(1..h[s]) = h[s]
    BY FS_Interval
  <2> HIDE DEF f, OwnColumn
  <2> QED
    BY <1>3, <2>1, FS_Bijection DEF ExistsBijection
<1>5. Cardinality(Table(N, h)) \in Nat
  BY <1>1, FS_CardinalityType
<1> QED
  BY <1>2, <1>4, <1>5

-----------------------------------------------------------------------------
(* Pieces of messages.                                                      *)

\* Bytes a+1 to b of message m of sender s.
Piece(s, m, a, b) == [i \in 1..(b - a) |-> <<s, m, a + i>>]

\* A piece is a sequence of bytes, and its first byte says where it belongs.
LEMMA PieceType ==
  ASSUME NEW s \in Senders, NEW m \in Nat, NEW a \in Nat, NEW b \in Nat, a <= b
  PROVE  /\ Piece(s, m, a, b) \in Seq(Byte) /\ Len(Piece(s, m, a, b)) = b - a
         /\ a < b => Piece(s, m, a, b)[1] = <<s, m, a + 1>>
<1>1. \A i \in 1..(b - a) : <<s, m, a + i>> \in Byte
  BY DEF Byte
<1>2. Piece(s, m, a, b) \in Seq(Byte) /\ Len(Piece(s, m, a, b)) = b - a
  BY <1>1 DEF Piece
<1>3. a < b => Piece(s, m, a, b)[1] = <<s, m, a + 1>>
  BY DEF Piece
<1> QED
  BY <1>2, <1>3

\* A message as the caller hands it over is a sequence of bytes.
LEMMA PayloadType ==
  ASSUME NEW s \in Senders, NEW m \in Nat, NEW n \in Nat
  PROVE  Payload(s, m, n) \in Seq(Byte) /\ Len(Payload(s, m, n)) = n
<1>1. \A i \in 1..n : <<s, m, i>> \in Byte
  BY DEF Byte
<1> QED
  BY <1>1 DEF Payload

\* A slice of a message is the piece of it between the same ends.
LEMMA SliceIsPiece ==
  ASSUME NEW s \in Senders, NEW m \in Nat, NEW a \in Nat, NEW b \in Nat, a <= b,
         NEW n \in Nat, b <= n
  PROVE  Slice(Payload(s, m, n), a, b) = Piece(s, m, a, b)
<1>1. Payload(s, m, n) \in Seq(Byte) /\ Len(Payload(s, m, n)) = n
  BY PayloadType
<1>2. SubSeq(Payload(s, m, n), a + 1, b) = [i \in 1..(b - a) |-> Payload(s, m, n)[a + i]]
  BY <1>1
<1>3. \A i \in 1..(b - a) : Payload(s, m, n)[a + i] = <<s, m, a + i>>
  BY DEF Payload
<1> QED
  BY <1>2, <1>3 DEF Piece, Slice

\* The beginning of a message and the piece that follows it make a longer
\* beginning, and a beginning is the piece that starts at the first byte.
LEMMA PiecesJoin ==
  ASSUME NEW s \in Senders, NEW m \in Nat, NEW a \in Nat, NEW b \in Nat, a <= b
  PROVE  /\ Payload(s, m, a) \o Piece(s, m, a, b) = Payload(s, m, b)
         /\ Payload(s, m, b) = Piece(s, m, 0, b)
<1> DEFINE P == Piece(s, m, a, b)
<1>1. P \in Seq(Byte) /\ Len(P) = b - a
  BY PieceType
<1>2. /\ Payload(s, m, a) \in Seq(Byte) /\ Len(Payload(s, m, a)) = a
      /\ Payload(s, m, b) \in Seq(Byte) /\ Len(Payload(s, m, b)) = b
  BY PayloadType
<1>3. /\ Payload(s, m, a) \o P \in Seq(Byte) /\ Len(Payload(s, m, a) \o P) = b
      /\ \A i \in 1..b : (Payload(s, m, a) \o P)[i]
           = IF i <= a THEN Payload(s, m, a)[i] ELSE P[i - a]
  BY <1>1, <1>2, ConcatProperties
<1>4. \A i \in 1..b : (Payload(s, m, a) \o P)[i] = Payload(s, m, b)[i]
  BY <1>3 DEF Payload, Piece
<1>5. Payload(s, m, a) \o P = Payload(s, m, b)
  BY <1>2, <1>3, <1>4, SeqEqual
<1>6. Payload(s, m, b) = Piece(s, m, 0, b)
  BY DEF Payload, Piece
<1> QED
  BY <1>5, <1>6

\* Two messages of a sender with the same bytes are the same message.
LEMMA PayloadNamesMessage ==
  ASSUME NEW s, NEW m, NEW n, NEW k \in Nat \ {0}, NEW l \in Nat \ {0},
         Payload(s, m, k) = Payload(s, n, l)
  PROVE  m = n
<1>1. Payload(s, m, k)[1] = <<s, m, 1>> /\ Payload(s, n, l)[1] = <<s, n, 1>>
  BY DEF Payload
<1> QED
  BY <1>1

-----------------------------------------------------------------------------
(* The replay window.                                                       *)

Refused(w, q) == Replay!VerdictOf(w, q) # "Fresh"

\* A number the window has let through is refused from then on, and whatever
\* else the window is asked about, a number once refused stays refused.
LEMMA RefusedForGood ==
  ASSUME NEW w \in Replay!Window, NEW q \in SequenceNumber, NEW r \in SequenceNumber
  PROVE  /\ Replay!After(w, q) \in Replay!Window
         /\ Refused(Replay!After(w, q), q)
         /\ Refused(w, r) => Refused(Replay!After(w, q), r)
<1> USE SequenceModulusAssumption, LinkBoundsAssumption
    DEF SequenceNumber, Replay!Window, Replay!Sequence, Replay!Bits
<1> DEFINE v == Replay!After(w, q)
<1>1. \A x \in Replay!Window, y \in SequenceNumber :
        Refused(x, y) <=> /\ x.started /\ y <= x.highest
                          /\ \/ x.highest - y >= WindowBits
                             \/ x.highest - y \in x.seen
  BY DEF Refused, Replay!VerdictOf, Replay!Advances, Replay!Behind
<1>2. CASE Replay!Advances(w, q)
  <2>1. v = [highest |-> q, seen |-> Replay!Carried(w, q) \cup {0}, started |-> TRUE]
    BY <1>2 DEF Replay!After
  <2>2. Replay!Carried(w, q) \in SUBSET Replay!Bits
    BY DEF Replay!Carried, Replay!ShiftLeft
  <2>3. v \in Replay!Window
    BY <2>1, <2>2
  <2> DEFINE seen == Replay!Carried(w, q) \cup {0}
  <2>6. v.highest = q /\ v.seen = seen /\ v.started
    BY <2>1
  <2>7. q - q = 0 /\ 0 \in seen
    OBVIOUS
  <2> HIDE DEF v, seen
  <2>4. Refused(v, q)
    BY <1>1, <2>3, <2>6, <2>7
  <2>5. ASSUME Refused(w, r)
        PROVE  Refused(v, r)
    <3>1. /\ w.started /\ r <= w.highest /\ w.highest < q
          /\ w.highest - r >= WindowBits \/ w.highest - r \in w.seen
      BY <1>1, <1>2, <2>5 DEF Replay!Advances
    <3>2. \/ q - r >= WindowBits
          \/ q - r \in seen
      BY <3>1 DEF Replay!Carried, Replay!ShiftLeft, seen
    <3> QED
      BY <1>1, <2>3, <2>6, <3>1, <3>2
  <2> QED
    BY <2>3, <2>4, <2>5 DEF v
<1>3. CASE ~Replay!Advances(w, q) /\ Replay!VerdictOf(w, q) = "Fresh"
  <2>1. v = [w EXCEPT !.seen = @ \cup {Replay!Behind(w, q)}]
    BY <1>3 DEF Replay!After
  <2>2. Replay!Behind(w, q) \in Replay!Bits /\ w.started /\ q <= w.highest
    BY <1>3 DEF Replay!VerdictOf, Replay!Advances, Replay!Behind
  <2>3. v \in Replay!Window
    BY <2>1, <2>2
  <2> QED
    BY <1>1, <2>1, <2>2, <2>3 DEF Replay!Behind
<1>4. CASE ~Replay!Advances(w, q) /\ Replay!VerdictOf(w, q) # "Fresh"
  BY <1>4 DEF Replay!After, Refused
<1> QED
  BY <1>2, <1>3, <1>4

-----------------------------------------------------------------------------
(* The inductive invariant.                                                 *)

\* Every tag there is.  Damage leaves this set alone.
Tags == {wire[i].tag : i \in DOMAIN wire}

\* What a tag says: who sealed it, under which number and boot, and which bytes
\* of which message it authenticates.
SenderOf(t) == t.associated.sender
NumberOf(t) == t.associated.sequence
BootOf(t) == t.nonce[3]
MessageOf(t) == t.payload[1][2]
StartOf(t) == t.payload[1][3] - 1
EndOf(t) == StartOf(t) + Len(t.payload)

LengthOf(t) == sent[SenderOf(t)][MessageOf(t)].length
Completes(t) == EndOf(t) = LengthOf(t)

\* A sender at work is sending its last message, and has numbers left for it.
AtWork(s) ==
  LET it == fragments[s]
      n  == Len(sent[s])
  IN  /\ it.done => Dist(it.sequence) <= MaxLength * n
      /\ ~it.done =>
           /\ n >= 1 /\ sent[s][n].boot = boot[s]
           /\ it.payload = SentPayload(s, n) /\ it.offset < sent[s][n].length
           /\ it.offset > 0 => it.chunk < sent[s][n].length
           /\ Dist(it.sequence) + sent[s][n].length - it.offset <= MaxLength * n

\* A tag was sealed by its sender, with the flags of that piece of the message.
Genuine(t) ==
  /\ MessageOf(t) \in 1..Len(sent[SenderOf(t)])
  /\ BootOf(t) = sent[SenderOf(t)][MessageOf(t)].boot
  /\ t.nonce = <<SenderOf(t), NumberOf(t), BootOf(t)>>
  /\ StartOf(t) \in Nat /\ StartOf(t) < EndOf(t) /\ EndOf(t) <= LengthOf(t)
  /\ t.payload = Piece(SenderOf(t), MessageOf(t), StartOf(t), EndOf(t))
  /\ IF t.associated.flags.fragment
       THEN /\ t.associated.flags.first <=> StartOf(t) = 0
            /\ t.associated.flags.last <=> Completes(t)
       ELSE StartOf(t) = 0 /\ Completes(t)

\* It was sealed before what its sender seals next.
SealedBefore(t) ==
  LET s == SenderOf(t)
  IN  /\ BootOf(t) <= boot[s]
      /\ BootOf(t) = boot[s] => Dist(NumberOf(t)) < Dist(fragments[s].sequence)
      /\ (~fragments[s].done /\ MessageOf(t) = Len(sent[s]))
           => EndOf(t) <= fragments[s].offset

\* Under number q of boot b of sender s, only the piece of message m that starts
\* after byte e continues a message.
OnlyContinuation(s, b, q, m, e) ==
  /\ \A t \in Tags :
       (/\ SenderOf(t) = s /\ BootOf(t) = b /\ NumberOf(t) = q
        /\ StartOf(t) > 0) => (MessageOf(t) = m /\ StartOf(t) = e)
  /\ b <= boot[s]
  /\ b = boot[s] =>
       /\ Dist(q) <= Dist(fragments[s].sequence)
       /\ (/\ q = fragments[s].sequence
           /\ ~fragments[s].done /\ fragments[s].offset > 0)
           => (m = Len(sent[s]) /\ e = fragments[s].offset)

\* The sealing side: tags are genuine, one tag completes a message, and the
\* number after a piece is the number of the piece after it.
SealingInv ==
  /\ \A s \in Senders : AtWork(s)
  /\ \A s \in Senders : \A m \in 1..Len(sent[s]) : sent[s][m].boot <= boot[s]
  /\ \A t \in Tags : Genuine(t) /\ SealedBefore(t)
  /\ \A t, u \in Tags :
       (/\ SenderOf(t) = SenderOf(u) /\ MessageOf(t) = MessageOf(u)
        /\ Completes(t) /\ Completes(u)) => t = u
  /\ \A t \in Tags : ~Completes(t) =>
       OnlyContinuation(SenderOf(t), BootOf(t), WrappingNext(NumberOf(t)),
                        MessageOf(t), EndOf(t))
  /\ NoncesUnique

\* What is held is the beginning of a message, and only its next piece fits on.
HoldsBeginning(s) ==
  reassembler[s].inProgress =>
    \E m \in 1..Len(sent[s]) : \E e \in 1..(sent[s][m].length - 1) :
      /\ reassembler[s].held = Payload(s, m, e)
      /\ OnlyContinuation(s, known[s], reassembler[s].nextSequence, m, e)

\* What was passed on was completed by a tag that will not pass again.
PassedOnByRefusedTag(s, p) ==
  \E t \in Tags :
    /\ SenderOf(t) = s /\ Completes(t) /\ p = SentPayload(s, MessageOf(t))
    /\ BootOf(t) <= known[s]
    /\ BootOf(t) = known[s] => Refused(window[s], NumberOf(t))

ReceivingInv ==
  \A s \in Senders :
    /\ known[s] <= boot[s]
    /\ HoldsBeginning(s)
    /\ \A p \in DOMAIN handedUp[s] : handedUp[s][p] = 1 /\ PassedOnByRefusedTag(s, p)

LinkInv == TypeOK /\ SealingInv /\ ReceivingInv

-----------------------------------------------------------------------------
(* Types.                                                                   *)

\* The next message and the next reboot stay within the bounds.
LEMMA RoomLeft ==
  ASSUME TypeOK, NEW s \in Senders
  PROVE  /\ Messages < MaxMessages => Len(sent[s]) < MaxMessages
         /\ Reboots < MaxReboots => boot[s] + 1 \in Boot
<1>0. \A r \in Senders : /\ Len(sent[r]) \in 0..MaxMessages
                         /\ boot[r] \in 1..(MaxReboots + 1)
  BY LinkBoundsAssumption DEF TypeOK, Boot
<1>1. Len(sent[s]) <= Messages /\ Messages \in Nat
  <2> DEFINE h == [r \in Senders |-> Len(sent[r])]
  <2>1. h \in [Senders -> Int] /\ h[s] = Len(sent[s])
    BY <1>0
  <2>2. \A x \in Senders \X (1..MaxMessages) : x[2] <= Len(sent[x[1]]) <=> x[2] <= h[x[1]]
    OBVIOUS
  <2>3. Messages = Cardinality(Table(MaxMessages, h))
    BY <2>2 DEF Messages, Table
  <2>4. h[s] \in 0..MaxMessages /\ MaxMessages \in Nat
    BY <1>0, LinkBoundsAssumption
  <2> HIDE DEF h
  <2>5. Cardinality(Table(MaxMessages, h)) \in Nat /\ h[s] <= Cardinality(Table(MaxMessages, h))
    BY <2>1, <2>4, Column
  <2> QED
    BY <2>1, <2>3, <2>5
<1>2. boot[s] - 1 <= Reboots /\ Reboots \in Nat
  <2> DEFINE h == [r \in Senders |-> boot[r] - 1]
  <2>1. h \in [Senders -> Int] /\ h[s] = boot[s] - 1
    BY <1>0
  <2>2. \A x \in Senders \X (1..MaxReboots) : x[2] < boot[x[1]] <=> x[2] <= h[x[1]]
    BY <1>0
  <2>3. Reboots = Cardinality(Table(MaxReboots, h))
    BY <2>2 DEF Reboots, Table
  <2>4. h[s] \in 0..MaxReboots /\ MaxReboots \in Nat
    BY <1>0, LinkBoundsAssumption
  <2> HIDE DEF h
  <2>5. Cardinality(Table(MaxReboots, h)) \in Nat /\ h[s] <= Cardinality(Table(MaxReboots, h))
    BY <2>1, <2>4, Column
  <2> QED
    BY <2>1, <2>3, <2>5
<1>3. MaxMessages \in Nat /\ MaxReboots \in Nat
  BY LinkBoundsAssumption
<1>4. Messages < MaxMessages => Len(sent[s]) < MaxMessages
  BY <1>0, <1>1, <1>3
<1>5. Reboots < MaxReboots => boot[s] + 1 \in Boot
  BY <1>0, <1>2, <1>3 DEF Boot
<1> QED
  BY <1>4, <1>5

\* The slice next() yields is inside the message, and the iterator moves on.
LEMMA SenderYields ==
  ASSUME TypeOK, NEW s \in Senders
  PROVE  /\ Yielded(fragments[s]).payload \in Seq(Byte)
         /\ Yielded(fragments[s]).flags \in Flags
         /\ Yielded(fragments[s]).sequence \in SequenceNumber
         /\ Advanced(fragments[s]) \in IteratorOver(Byte)
<1>1. fragments[s] \in IteratorOver(Byte)
  BY DEF TypeOK
<1>2. /\ Yielded(fragments[s]) \in FragmentOver(Byte)
      /\ Advanced(fragments[s]) \in IteratorOver(Byte)
  BY <1>1, NextFragment
<1> QED
  BY <1>2 DEF FragmentOver

\* One reading of a datagram keeps the types of what the receiver keeps.
LEMMA ReceiveType ==
  ASSUME TypeOK, NEW i \in DOMAIN wire, Receive(i)
  PROVE  TypeOK'
<1> DEFINE d == wire[i]
           s == d.header.sender
           fragment == [sequence |-> d.header.sequence, flags |-> d.header.flags,
                        payload |-> d.payload]
           verdict == AcceptVerdictOf(reassembler[s], fragment)
<1>1. i \in 1..Len(wire) /\ d \in Datagram /\ arrived' \in 0..Len(wire)
  BY DEF TypeOK, Receive, Greater
<1>2. /\ s \in Senders /\ d.header.sequence \in SequenceNumber
      /\ fragment \in FragmentOver(Byte)
  BY <1>1 DEF Datagram, Header, FragmentOver
<1>3. UNCHANGED <<ordered, boot, sent, fragments, wire, known>>
  BY DEF Receive, senderVars
<1>4. CASE UNCHANGED <<window, reassembler, handedUp>>
  BY <1>1, <1>3, <1>4 DEF TypeOK
<1>5. CASE /\ window' = [window EXCEPT ![s] = Replay!After(@, d.header.sequence)]
           /\ reassembler' = [reassembler EXCEPT ![s] = AfterAccept(@, fragment)]
           /\ handedUp' = [handedUp EXCEPT ![s] =
                CASE verdict = "Whole"    -> HandUp(@, d.payload)
                  [] verdict = "Complete" -> HandUp(@, reassembler'[s].held)
                  [] OTHER                -> @]
  <2> HIDE DEF fragment, d, s
  <2>1. window' \in [Senders -> Replay!Window]
    BY <1>2, <1>5, RefusedForGood DEF TypeOK
  <2>2. /\ reassembler' \in [Senders -> ReassemblerOver(Byte)]
        /\ \A r \in Senders : Len(reassembler'[r].held) <= Capacity
    <3>1. /\ reassembler[s] \in ReassemblerOver(Byte)
          /\ Len(reassembler[s].held) <= Capacity
      BY <1>2 DEF TypeOK
    <3>2. /\ AfterAccept(reassembler[s], fragment) \in
               ReassemblerOver(Byte)
          /\ Len(AfterAccept(reassembler[s], fragment).held) <= Capacity
      BY <1>2, <3>1, AcceptType
    <3> QED
      BY <1>2, <1>5, <3>2 DEF TypeOK
  <2>3. /\ DOMAIN handedUp' = Senders
        /\ \A r \in Senders : handedUp'[r] \in [DOMAIN handedUp'[r] -> Nat]
    <3>1. \A p : HandUp(handedUp[s], p) \in [DOMAIN HandUp(handedUp[s], p) -> Nat]
      BY <1>2 DEF TypeOK, HandUp
    <3>2. handedUp'[s] \in [DOMAIN handedUp'[s] -> Nat]
      BY <1>2, <1>5, <3>1 DEF TypeOK
    <3> QED
      BY <1>5, <3>2 DEF TypeOK
  <2> QED
    BY <1>1, <1>3, <2>1, <2>2, <2>3 DEF TypeOK
<1> QED
  BY <1>4, <1>5 DEF Receive

\* The iterator of a message, and of a sender that has just started.
LEMMA SenderIterators ==
  /\ \A p \in Seq(Byte), q \in SequenceNumber :
       Fragments(p, q, Chunk) \in IteratorOver(Byte)
  /\ [Fragments(<<>>, FirstSequence, Chunk) EXCEPT !.done = TRUE] \in IteratorOver(Byte)
<1>1. <<>> \in Seq(Byte) /\ Chunk \in Nat /\ FirstSequence \in SequenceNumber
  BY LinkBoundsAssumption
<1> QED
  BY <1>1, FragmentsType

\* A sender's step keeps the types: what it submits, seals and starts again from.
LEMMA SenderType ==
  ASSUME TypeOK, NEW s \in Senders, SenderStep(s) \/ Reboot(s)
  PROVE  TypeOK'
<1>2. ASSUME NEW length \in 1..MaxLength, Submit(s, length)
      PROVE  TypeOK'
  <2> DEFINE Message == [length : 1..MaxLength, boot : Boot]
             new == Append(sent[s], [length |-> length, boot |-> boot[s]])
  <2>0. sent[s] \in Seq(Message) /\ Len(sent[s]) + 1 \in Nat /\ length \in Nat
    <3>1. sent[s] \in Seq(Message)
      BY DEF TypeOK
    <3>2. Len(sent[s]) + 1 \in Nat
      <4> HIDE DEF Message
      <4> QED
        BY <3>1
    <3>3. length \in Nat
      BY LinkBoundsAssumption
    <3> QED
      BY <3>1, <3>2, <3>3
  <2>1. Payload(s, Len(sent[s]) + 1, length) \in Seq(Byte)
    BY <2>0, PayloadType
  <2>2. Fragments(Payload(s, Len(sent[s]) + 1, length), fragments[s].sequence, Chunk)
          \in IteratorOver(Byte)
    <3>1. fragments[s].sequence \in SequenceNumber
      BY DEF TypeOK, IteratorOver
    <3> QED
      BY <2>1, <3>1, SenderIterators
  <2>3. fragments' \in [Senders -> IteratorOver(Byte)]
    BY <1>2, <2>2 DEF Submit, TypeOK
  <2>4. /\ sent' \in [Senders -> Seq([length : 1..MaxLength, boot : Boot])]
        /\ \A r \in Senders : Len(sent'[r]) <= MaxMessages
    <3>1. [length |-> length, boot |-> boot[s]] \in Message
      BY DEF TypeOK
    <3>2. Len(sent[s]) < MaxMessages
      BY <1>2, RoomLeft DEF Submit
    <3>3. new \in Seq(Message) /\ Len(new) = Len(sent[s]) + 1
      <4> HIDE DEF Message
      <4> QED
        BY <2>0, <3>1, AppendProperties
    <3>4. sent' = [sent EXCEPT ![s] = new]
      BY <1>2 DEF Submit
    <3>5. Len(new) <= MaxMessages
      BY <2>0, <3>2, <3>3, LinkBoundsAssumption
    <3>6. /\ sent \in [Senders -> Seq(Message)]
          /\ \A r \in Senders : Len(sent[r]) <= MaxMessages
      BY DEF TypeOK
    <3> HIDE DEF new, Message
    <3>7. /\ sent' \in [Senders -> Seq(Message)]
          /\ \A r \in Senders : Len(sent'[r]) <= MaxMessages
      BY <3>3, <3>4, <3>5, <3>6
    <3> QED
      BY <3>7 DEF Message
  <2> QED
    BY <1>2, <2>3, <2>4 DEF Submit, TypeOK, receiverVars
<1>3. ASSUME SendFragment(s)
      PROVE  TypeOK'
  <2> DEFINE y == Yielded(fragments[s])
             d == Sealed(s, y, boot[s])
  <2>1. y.payload \in Seq(Byte) /\ y.flags \in Flags /\ y.sequence \in SequenceNumber
    BY SenderYields
  <2>2. boot[s] \in Boot
    BY DEF TypeOK
  <2> HIDE DEF y
  <2>3. d \in Datagram
    BY <2>1, <2>2 DEF Sealed, Tag, Nonce, AssociatedData, Datagram, Header
  <2>4. fragments' \in [Senders -> IteratorOver(Byte)]
    BY <1>3, SenderYields DEF SendFragment, TypeOK
  <2>5. wire' = Append(wire, d)
    BY <1>3 DEF SendFragment, y
  <2> HIDE DEF d
  <2>6. wire' \in Seq(Datagram) /\ Len(wire') = Len(wire) + 1
    BY <2>3, <2>5 DEF TypeOK
  <2>7. arrived' \in 0..Len(wire')
    BY <1>3, <2>6 DEF SendFragment, TypeOK
  <2> QED
    BY <1>3, <2>4, <2>6, <2>7 DEF SendFragment, TypeOK, receiverVars
<1>4. ASSUME Reboot(s)
      PROVE  TypeOK'
  <2>1. boot' \in [Senders -> Boot]
    BY <1>4, RoomLeft DEF Reboot, TypeOK
  <2>2. [Fragments(<<>>, FirstSequence, Chunk) EXCEPT !.done = TRUE] \in IteratorOver(Byte)
    BY SenderIterators
  <2>3. fragments' \in [Senders -> IteratorOver(Byte)]
    BY <1>4, <2>2 DEF Reboot, TypeOK
  <2> QED
    BY <1>4, <2>1, <2>3 DEF Reboot, TypeOK, receiverVars
<1> QED
  BY <1>2, <1>3, <1>4 DEF SenderStep

\* A damaged copy is still a datagram, and its tag is the one it was sealed with.
LEMMA DamageKeepsTag ==
  ASSUME NEW x \in Datagram, NEW d \in Damaged(x)
  PROVE  d \in Datagram /\ d.tag = x.tag /\ d.damaged
<1> DEFINE h == x.header
<1>1. /\ x.header.flags \in Flags /\ x.header.sequence \in SequenceNumber
      /\ WrappingNext(x.header.sequence) \in SequenceNumber
  BY WrappingNextValue DEF Datagram, Header
<1>2. CASE d = [x EXCEPT !.header.flags.first = ~@, !.damaged = TRUE]
  <2>1. (~x.header.flags.first) \in BOOLEAN
    BY <1>1 DEF Flags
  <2> QED
    BY <1>1, <1>2, <2>1 DEF Datagram, Header, Flags
<1>3. CASE d = [x EXCEPT !.header.flags.last = ~@, !.damaged = TRUE]
  <2>1. (~x.header.flags.last) \in BOOLEAN
    BY <1>1 DEF Flags
  <2> QED
    BY <1>1, <1>3, <2>1 DEF Datagram, Header, Flags
<1>4. CASE d = [x EXCEPT !.header.sequence = WrappingNext(@), !.damaged = TRUE]
  BY <1>1, <1>4 DEF Datagram, Header
<1>5. CASE d = [x EXCEPT !.payload = <<>>, !.damaged = TRUE]
  <2>1. <<>> \in Seq(Byte)
    OBVIOUS
  <2> HIDE DEF h
  <2> QED
    BY <1>1, <1>5, <2>1 DEF Datagram
<1> QED
  BY <1>2, <1>3, <1>4, <1>5 DEF Damaged

\* Init gives every variable a value of its type.
LEMMA InitType ==
  ASSUME Init
  PROVE  TypeOK
<1>1. 1 \in Boot /\ <<>> \in Seq(Byte) /\ <<>> \in Seq(Datagram) /\ Len(<<>>) = 0
      /\ <<>> \in Seq([length : 1..MaxLength, boot : Boot])
  BY LinkBoundsAssumption DEF Boot
<1>2. Replay!New \in Replay!Window
  BY SequenceModulusAssumption
     DEF Replay!New, Replay!Window, Replay!Sequence, Replay!Bits
<1>3. /\ NewReassembler \in ReassemblerOver(Byte)
      /\ NewReassembler.held = <<>>
  BY <1>1, SequenceModulusAssumption DEF NewReassembler, SequenceNumber, ReassemblerOver
<1>4. [Fragments(<<>>, FirstSequence, Chunk) EXCEPT !.done = TRUE] \in IteratorOver(Byte)
  BY SenderIterators
<1>5. [p \in {} |-> 0] \in [DOMAIN [p \in {} |-> 0] -> Nat]
  OBVIOUS
<1>6. \A r \in Senders : /\ Len(sent[r]) <= MaxMessages
                         /\ Len(reassembler[r].held) <= Capacity
                         /\ handedUp[r] \in [DOMAIN handedUp[r] -> Nat]
  BY <1>1, <1>3, <1>5, CapacityAssumption, LinkBoundsAssumption DEF Init
<1>7. /\ boot \in [Senders -> Boot] /\ known \in [Senders -> Boot]
      /\ sent \in [Senders -> Seq([length : 1..MaxLength, boot : Boot])]
      /\ wire \in Seq(Datagram) /\ arrived \in 0..Len(wire)
      /\ DOMAIN handedUp = Senders /\ ordered \in BOOLEAN
  BY <1>1 DEF Init
<1>8. /\ window \in [Senders -> Replay!Window]
      /\ reassembler \in [Senders -> ReassemblerOver(Byte)]
  BY <1>2, <1>3 DEF Init
<1>9. fragments \in [Senders -> IteratorOver(Byte)]
  BY <1>4 DEF Init
<1> QED
  BY <1>6, <1>7, <1>8, <1>9 DEF TypeOK

\* Every step keeps the types.
LEMMA StepType ==
  ASSUME TypeOK, [Next]_vars
  PROVE  TypeOK'
<1>1. ASSUME NEW s \in Senders, LearnBoot(s)
      PROVE  TypeOK'
  <2>1. /\ window' \in [Senders -> Replay!Window] /\ known' \in [Senders -> Boot]
    BY <1>1, SequenceModulusAssumption
       DEF LearnBoot, TypeOK, Replay!New, Replay!Window, Replay!Sequence, Replay!Bits
  <2>2. <<>> \in Seq(Byte) /\ Len(<<>>) = 0
    OBVIOUS
  <2>3. /\ Reset(reassembler[s]).held = <<>>
        /\ Reset(reassembler[s]) \in ReassemblerOver(Byte)
    BY <2>2 DEF Reset, TypeOK, ReassemblerOver
  <2>4. /\ reassembler' \in [Senders -> ReassemblerOver(Byte)]
        /\ \A r \in Senders : Len(reassembler'[r].held) <= Capacity
    BY <1>1, <2>2, <2>3, CapacityAssumption DEF LearnBoot, TypeOK
  <2> QED
    BY <1>1, <2>1, <2>4 DEF LearnBoot, TypeOK, senderVars
<1>2. ASSUME ReceiverRestart
      PROVE  TypeOK'
  <2>1. window' \in [Senders -> Replay!Window]
    BY <1>2, SequenceModulusAssumption
       DEF ReceiverRestart, Replay!New, Replay!Window, Replay!Sequence, Replay!Bits
  <2>2. <<>> \in Seq(Byte) /\ Len(<<>>) = 0
    OBVIOUS
  <2>3. /\ NewReassembler.held = <<>>
        /\ NewReassembler \in ReassemblerOver(Byte)
    BY <2>2, SequenceModulusAssumption DEF NewReassembler, SequenceNumber, ReassemblerOver
  <2>4. /\ reassembler' \in [Senders -> ReassemblerOver(Byte)]
        /\ \A r \in Senders : Len(reassembler'[r].held) <= Capacity
    BY <1>2, <2>2, <2>3, CapacityAssumption DEF ReceiverRestart
  <2>5. /\ DOMAIN handedUp' = Senders
        /\ \A r \in Senders : handedUp'[r] \in [DOMAIN handedUp'[r] -> Nat]
    BY <1>2 DEF ReceiverRestart
  <2> QED
    BY <1>2, <2>1, <2>4, <2>5 DEF ReceiverRestart, TypeOK, senderVars
<1>3. ASSUME Damage
      PROVE  TypeOK'
  <2>1. PICK i \in DOMAIN wire : \E d \in Damaged(wire[i]) : wire' = Append(wire, d)
    BY <1>3 DEF Damage
  <2>2. PICK d \in Damaged(wire[i]) : wire' = Append(wire, d)
    BY <2>1
  <2>3. d \in Datagram
    BY DamageKeepsTag DEF TypeOK
  <2>4. wire' \in Seq(Datagram) /\ Len(wire') = Len(wire) + 1
    <3>1. wire \in Seq(Datagram)
      BY DEF TypeOK
    <3> QED
      BY <2>2, <2>3, <3>1, AppendProperties
  <2>5. arrived' \in 0..Len(wire')
    BY <1>3, <2>4 DEF Damage, TypeOK
  <2> QED
    BY <1>3, <2>4, <2>5 DEF Damage, TypeOK, senderVars, receiverVars
<1>4. CASE ReceiveNext \/ ReceiveAny
  <2>1. PICK i \in DOMAIN wire : Receive(i)
    BY <1>4 DEF ReceiveNext, ReceiveAny, TypeOK
  <2> QED
    BY <2>1, ReceiveType
<1>5. CASE UNCHANGED vars
  BY <1>5 DEF vars, TypeOK
<1> QED
  BY <1>1, <1>2, <1>3, <1>4, <1>5, SenderType DEF Next

\* Every variable keeps the type the code gives it.
THEOREM TypeCorrect == Spec => []TypeOK
<1>1. Init => TypeOK
  BY InitType
<1>2. TypeOK /\ [Next]_vars => TypeOK'
  BY StepType
<1> QED
  BY <1>1, <1>2, PTL DEF Spec

-----------------------------------------------------------------------------
(* The sealing side.                                                        *)

\* What is recorded stays recorded: tags, messages and boots only grow.
Grows ==
  /\ Tags \subseteq Tags'
  /\ \A s \in Senders :
       /\ boot[s] <= boot'[s] /\ Len(sent[s]) <= Len(sent'[s])
       /\ \A m \in 1..Len(sent[s]) : sent'[s][m] = sent[s][m]

ContinuationsStay ==
  \A s \in Senders, b \in Boot, q \in SequenceNumber, m \in Nat, e \in Nat :
    (m \in 1..Len(sent[s]) /\ OnlyContinuation(s, b, q, m, e))
      => OnlyContinuation(s, b, q, m, e)'

\* The components of a tag have the types their fields have.
LEMMA TagParts ==
  ASSUME TypeOK, NEW t \in Tags
  PROVE  /\ SenderOf(t) \in Senders /\ NumberOf(t) \in SequenceNumber
         /\ BootOf(t) \in Boot /\ t.payload \in Seq(Byte)
<1>1. PICK i \in DOMAIN wire : t = wire[i].tag
  BY DEF Tags
<1>2. wire[i] \in Datagram
  BY DEF TypeOK
<1>3. /\ t.nonce \in Senders \X SequenceNumber \X Boot
      /\ t.associated \in Header /\ t.payload \in Seq(Byte)
  BY <1>1, <1>2 DEF Datagram
<1> QED
  BY <1>3 DEF Header, SenderOf, NumberOf, BootOf

\* A message recorded as sent has a length and a boot.
LEMMA MessageType ==
  ASSUME TypeOK, NEW s \in Senders, NEW m \in 1..Len(sent[s])
  PROVE  /\ sent[s][m].length \in 1..MaxLength /\ sent[s][m].length \in Nat \ {0}
         /\ sent[s][m].boot \in Boot /\ m \in Nat /\ Len(sent[s]) \in Nat
<1> DEFINE Message == [length : 1..MaxLength, boot : Boot]
<1>1. sent[s] \in Seq(Message)
  BY DEF TypeOK
<1>2. sent[s][m] \in Message /\ m \in Nat /\ Len(sent[s]) \in Nat
  <2> HIDE DEF Message
  <2> QED
    BY <1>1
<1> QED
  BY <1>2, LinkBoundsAssumption

\* The parts of a genuine tag, as numbers.
LEMMA GenuineParts ==
  ASSUME TypeOK, NEW t \in Tags, Genuine(t)
  PROVE  /\ MessageOf(t) \in Nat /\ StartOf(t) \in Nat /\ EndOf(t) \in Nat
         /\ LengthOf(t) \in 1..MaxLength
<1>1. SenderOf(t) \in Senders /\ t.payload \in Seq(Byte)
  BY TagParts
<1>2. MessageOf(t) \in 1..Len(sent[SenderOf(t)])
  BY DEF Genuine
<1>3. LengthOf(t) \in 1..MaxLength /\ MessageOf(t) \in Nat
  BY <1>1, <1>2, MessageType DEF LengthOf
<1> QED
  BY <1>1, <1>3 DEF Genuine, EndOf

\* A datagram put on the wire adds its tag.
LEMMA OneMoreTag ==
  ASSUME TypeOK, NEW d, wire' = Append(wire, d)
  PROVE  /\ Tags' = Tags \cup {d.tag}
         /\ DOMAIN wire' = 1..(Len(wire) + 1) /\ DOMAIN wire = 1..Len(wire)
         /\ \A i \in 1..Len(wire) : wire'[i] = wire[i]
         /\ wire'[Len(wire) + 1] = d
<1>1. /\ DOMAIN wire' = 1..(Len(wire) + 1) /\ DOMAIN wire = 1..Len(wire)
      /\ \A i \in 1..Len(wire) : wire'[i] = wire[i]
      /\ wire'[Len(wire) + 1] = d /\ Len(wire) \in Nat
  BY DEF TypeOK
<1>2. \A t \in Tags' : t \in Tags \cup {d.tag}
  <2> TAKE t \in Tags'
  <2>1. PICK i \in 1..(Len(wire) + 1) : t = wire'[i].tag
    BY <1>1 DEF Tags
  <2> QED
    BY <1>1, <2>1 DEF Tags
<1>3. \A t \in Tags \cup {d.tag} : t \in Tags'
  <2> TAKE t \in Tags \cup {d.tag}
  <2>1. CASE t = d.tag
    <3>1. Len(wire) + 1 \in DOMAIN wire'
      BY <1>1
    <3> QED
      BY <1>1, <2>1, <3>1 DEF Tags
  <2>2. CASE t \in Tags
    <3>1. PICK i \in 1..Len(wire) : t = wire[i].tag
      BY <1>1, <2>2 DEF Tags
    <3>2. i \in DOMAIN wire' /\ t = wire'[i].tag
      BY <1>1, <3>1
    <3> QED
      BY <3>2 DEF Tags
  <2> QED
    BY <2>1, <2>2
<1> QED
  BY <1>1, <1>2, <1>3

\* A boot that has a fragment to send has numbers left after it.
LEMMA NumbersLeft ==
  ASSUME TypeOK, SealingInv, NEW s \in Senders, ~fragments[s].done
  PROVE  Dist(fragments[s].sequence) + 1 < SequenceModulus
<1> DEFINE n == Len(sent[s])
           D == Dist(fragments[s].sequence)
           rest == sent[s][n].length - fragments[s].offset
<1>1. n \in 0..MaxMessages /\ MaxMessages \in Nat /\ MaxLength \in Nat
  BY LinkBoundsAssumption DEF TypeOK
<1>7. n \in 1..Len(sent[s])
  BY <1>1 DEF SealingInv, AtWork
<1>2. D + sent[s][n].length - fragments[s].offset <= MaxLength * n /\ n >= 1
      /\ fragments[s].offset < sent[s][n].length
  BY DEF SealingInv, AtWork
<1>3. D \in Nat /\ fragments[s].offset \in Nat
  <2>1. fragments[s].sequence \in SequenceNumber /\ fragments[s].offset \in Nat
    BY DEF TypeOK, IteratorOver
  <2> QED
    BY <2>1, Distances, SequenceModulusAssumption
<1>4. sent[s][n].length \in Nat
  BY <1>7, MessageType
<1>5. MaxLength * n <= MaxMessages * MaxLength
  <2> HIDE DEF n
  <2> QED
    BY <1>1
<1>6. MaxLength * n \in Nat /\ MaxMessages * MaxLength \in Nat
  <2> HIDE DEF n
  <2> QED
    BY <1>1
<1> DEFINE L == sent[s][n].length
           o == fragments[s].offset
           B == MaxLength * n
           C == MaxMessages * MaxLength
<1>8. /\ D + L - o <= B /\ o < L /\ D \in Nat /\ o \in Nat /\ L \in Nat
      /\ B <= C /\ B \in Nat /\ C \in Nat /\ C < SequenceModulus
  BY <1>2, <1>3, <1>4, <1>5, <1>6, NumbersSufficeAssumption
<1> HIDE DEF n, D, L, o, B, C
<1>9. D + 1 < SequenceModulus
  BY <1>8, SequenceModulusAssumption
<1> QED
  BY <1>9 DEF D

\* What a sender at work seals next: the piece of its last message that starts
\* where it stopped, with the flags of that piece.
LEMMA NextTag ==
  ASSUME TypeOK, SealingInv, NEW s \in Senders, ~fragments[s].done,
         NEW u, u = Sealed(s, Yielded(fragments[s]), boot[s]).tag
  PROVE  /\ SenderOf(u) = s /\ BootOf(u) = boot[s]
         /\ NumberOf(u) = fragments[s].sequence
         /\ MessageOf(u) = Len(sent[s]) /\ StartOf(u) = fragments[s].offset
         /\ EndOf(u) = ChunkEnd(fragments[s])
         /\ LengthOf(u) = Len(fragments[s].payload)
         /\ u.nonce = <<s, fragments[s].sequence, boot[s]>>
         /\ Genuine(u)
<1> DEFINE it == fragments[s]
           n == Len(sent[s])
           L == sent[s][n].length
           o == it.offset
           e == ChunkEnd(it)
<1>1. /\ n \in 1..Len(sent[s]) /\ n \in Nat /\ sent[s][n].boot = boot[s]
      /\ it.payload = Payload(s, n, L) /\ o < L /\ L \in Nat \ {0}
      /\ o > 0 => it.chunk < L
  <2>1. /\ n >= 1 /\ sent[s][n].boot = boot[s]
        /\ it.payload = Payload(s, n, L) /\ o < L
        /\ o > 0 => it.chunk < L
    BY DEF SealingInv, AtWork, SentPayload
  <2>2. n \in 1..Len(sent[s])
    BY <2>1 DEF TypeOK
  <2> QED
    BY <2>1, <2>2, MessageType
<1>2. it.chunk \in Nat \ {0} /\ o \in Nat /\ it.sequence \in SequenceNumber
  BY DEF TypeOK, IteratorOver
<1>3. Len(it.payload) = L
  <2> HIDE DEF n, L, it
  <2> QED
    BY <1>1, PayloadType
<1>4. e \in Nat /\ o < e /\ e <= L /\ (it.chunk >= L => e = L)
  BY <1>1, <1>2, <1>3 DEF ChunkEnd, Lesser
<1>5. /\ Len(Piece(s, n, o, e)) = e - o
      /\ Piece(s, n, o, e)[1] = <<s, n, o + 1>>
      /\ Slice(Payload(s, n, L), o, e) = Piece(s, n, o, e)
  <2>1. n \in Nat /\ o \in Nat /\ e \in Nat /\ o < e /\ o <= e /\ L \in Nat /\ e <= L
    BY <1>1, <1>2, <1>4
  <2> HIDE DEF n, L, o, e, it
  <2> QED
    <3>1. Len(Piece(s, n, o, e)) = e - o
      BY <2>1, PieceType
    <3>2. Piece(s, n, o, e)[1] = <<s, n, o + 1>>
      BY <2>1, PieceType
    <3>3. Slice(Payload(s, n, L), o, e) = Piece(s, n, o, e)
      BY <2>1, SliceIsPiece
    <3> QED
      BY <3>1, <3>2, <3>3
<1>6. SubSeq(it.payload, o + 1, e) = Piece(s, n, o, e)
  BY <1>1, <1>5 DEF Slice
<1>7. /\ u.payload = Piece(s, n, o, e)
      /\ u.associated = [sender |-> s, sequence |-> it.sequence, flags |-> FragmentFlags(it)]
      /\ u.nonce = <<s, it.sequence, boot[s]>>
  BY <1>6 DEF Sealed, Tag, Nonce, AssociatedData, Yielded
<1>8. /\ SenderOf(u) = s /\ BootOf(u) = boot[s] /\ NumberOf(u) = it.sequence
      /\ u.associated.flags = FragmentFlags(it)
  BY <1>7 DEF SenderOf, BootOf, NumberOf
<1>9. MessageOf(u) = n /\ StartOf(u) = o /\ EndOf(u) = e
  <2> HIDE DEF n, L, o, e, it
  <2>1. u.payload[1] = <<s, n, o + 1>> /\ Len(u.payload) = e - o
    BY <1>5, <1>7
  <2> QED
    BY <1>2, <1>4, <2>1 DEF MessageOf, StartOf, EndOf
<1>10. LengthOf(u) = L
  BY <1>8, <1>9 DEF LengthOf
<1>11. IF u.associated.flags.fragment
         THEN /\ u.associated.flags.first <=> StartOf(u) = 0
              /\ u.associated.flags.last <=> Completes(u)
         ELSE StartOf(u) = 0 /\ Completes(u)
  <2>1. CASE L <= it.chunk
    <3>1. FragmentFlags(it) = Unfragmented
      BY <1>3, <2>1 DEF FragmentFlags
    <3>2. o = 0 /\ e = L
      BY <1>1, <1>2, <1>4, <2>1
    <3> QED
      BY <1>8, <1>9, <1>10, <3>1, <3>2 DEF Unfragmented, Completes
  <2>2. CASE ~(L <= it.chunk)
    <3>1. FragmentFlags(it) = [fragment |-> TRUE, first |-> o = 0, last |-> e = L]
      BY <1>3, <2>2 DEF FragmentFlags
    <3>2. /\ u.associated.flags.fragment
          /\ u.associated.flags.first = (o = 0) /\ u.associated.flags.last = (e = L)
      BY <1>8, <3>1
    <3> HIDE DEF o, e, L
    <3> QED
      BY <1>9, <1>10, <3>2 DEF Completes
  <2> QED
    BY <2>1, <2>2
<1>12. Genuine(u)
  BY <1>1, <1>2, <1>4, <1>7, <1>8, <1>9, <1>10, <1>11 DEF Genuine
<1> QED
  BY <1>3, <1>7, <1>8, <1>9, <1>10, <1>12

\* Numbering on after a fragment leads one number further away from the first.
LEMMA NumberAfter ==
  ASSUME TypeOK, SealingInv, NEW s \in Senders, ~fragments[s].done
  PROVE  /\ Advanced(fragments[s]).sequence = WrappingNext(fragments[s].sequence)
         /\ Dist(WrappingNext(fragments[s].sequence)) = Dist(fragments[s].sequence) + 1
         /\ fragments[s].sequence \in SequenceNumber
         /\ WrappingNext(fragments[s].sequence) \in SequenceNumber
         /\ Dist(fragments[s].sequence) \in Nat
<1>1. fragments[s].sequence \in SequenceNumber /\ fragments[s] \in IteratorOver(Byte)
  BY DEF TypeOK, IteratorOver
<1>2. Advanced(fragments[s]).sequence = WrappingNext(fragments[s].sequence)
  BY <1>1 DEF Advanced, IteratorOver
<1>3. Dist(fragments[s].sequence) + 1 < SequenceModulus
  BY NumbersLeft
<1>4. Dist(fragments[s].sequence) \in Nat
  BY <1>1, Distances, SequenceModulusAssumption
<1> QED
  BY <1>1, <1>2, <1>3, <1>4, Distances, WrappingNextValue

\* What a sender's step does not touch: the other senders.
LEMMA OtherSenders ==
  ASSUME TypeOK, NEW s \in Senders, NEW r \in Senders, r # s,
         SenderStep(s) \/ Reboot(s)
  PROVE  fragments'[r] = fragments[r] /\ sent'[r] = sent[r] /\ boot'[r] = boot[r]
  BY DEF TypeOK, SenderStep, Submit, SendFragment, Reboot

\* Handing a message to a sender whose last one is all sent.
LEMMA SubmitSeals ==
  ASSUME TypeOK, SealingInv, NEW s \in Senders, NEW length \in 1..MaxLength,
         Submit(s, length)
  PROVE  SealingInv' /\ Grows /\ ContinuationsStay
<1> DEFINE n == Len(sent[s])
           it == fragments[s]
           Message == [length : 1..MaxLength, boot : Boot]
           new == [length |-> length, boot |-> boot[s]]
<1>1. /\ UNCHANGED <<boot, wire>> /\ Tags' = Tags /\ it.done
      /\ length \in Nat \ {0} /\ n \in Nat
  BY LinkBoundsAssumption DEF Submit, Tags, TypeOK
<1>2. /\ sent[s] \in Seq(Message) /\ new \in Message
      /\ sent'[s] = Append(sent[s], new)
  BY DEF TypeOK, Submit
<1>3. /\ Len(sent'[s]) = n + 1 /\ sent'[s][n + 1] = new
      /\ \A m \in 1..n : sent'[s][m] = sent[s][m]
  <2> HIDE DEF Message, new
  <2> QED
    BY <1>2, AppendProperties
<1>4. /\ fragments'[s].payload = Payload(s, n + 1, length) /\ fragments'[s].offset = 0
      /\ fragments'[s].sequence = it.sequence /\ ~fragments'[s].done
  BY DEF Submit, TypeOK, Fragments
<1>5. SenderStep(s)
  BY DEF SenderStep
<1>6. Grows
  <2>1. ASSUME NEW r \in Senders
        PROVE  /\ boot[r] <= boot'[r] /\ Len(sent[r]) <= Len(sent'[r])
               /\ \A m \in 1..Len(sent[r]) : sent'[r][m] = sent[r][m]
    <3>1. boot[r] <= boot'[r]
      BY <1>1 DEF TypeOK, Boot
    <3>2. Len(sent[r]) \in Nat
      BY DEF TypeOK
    <3>3. CASE r = s
      BY <1>1, <1>3, <3>1, <3>3
    <3>4. CASE r # s
      BY <1>5, <3>1, <3>2, <3>4, OtherSenders
    <3> QED
      BY <3>3, <3>4
  <2> QED
    BY <1>1, <2>1 DEF Grows
<1>7. \A r \in Senders : AtWork(r)'
  <2> SUFFICES ASSUME NEW r \in Senders PROVE AtWork(r)'
    OBVIOUS
  <2>1. CASE r # s
    <3>1. fragments'[r] = fragments[r] /\ sent'[r] = sent[r] /\ boot'[r] = boot[r]
      BY <1>5, <2>1, OtherSenders
    <3>2. AtWork(r)
      BY DEF SealingInv
    <3> QED
      BY <3>1, <3>2 DEF AtWork, SentPayload
  <2>2. CASE r = s
    <3>1. Dist(it.sequence) <= MaxLength * n /\ Dist(it.sequence) \in Nat
      <4>1. AtWork(s) /\ it.sequence \in SequenceNumber
        BY DEF SealingInv, TypeOK, IteratorOver
      <4> QED
        BY <1>1, <4>1, Distances, SequenceModulusAssumption DEF AtWork
    <3>2. MaxLength * (n + 1) = MaxLength * n + MaxLength /\ MaxLength * n \in Nat
      <4> HIDE DEF n
      <4> QED
        BY <1>1, LinkBoundsAssumption
    <3>3. Dist(fragments'[s].sequence) + new.length - fragments'[s].offset
            <= MaxLength * (n + 1)
      BY <1>1, <1>4, <3>1, <3>2, LinkBoundsAssumption
    <3> DEFINE k == Len(sent'[s])
    <3>4. k = n + 1 /\ k >= 1 /\ sent'[s][k].boot = boot'[s] /\ sent'[s][k].length = length
      BY <1>1, <1>3
    <3>6. /\ fragments'[s].payload = Payload(s, k, sent'[s][k].length)
          /\ Dist(fragments'[s].sequence) + sent'[s][k].length - fragments'[s].offset
               <= MaxLength * k
      BY <1>4, <3>3, <3>4
    <3>7. /\ fragments'[s].offset < sent'[s][k].length
          /\ ~(fragments'[s].offset > 0) /\ ~fragments'[s].done
      BY <1>1, <1>4, <3>4
    <3>8. AtWork(s)'
      BY <3>4, <3>6, <3>7 DEF AtWork, SentPayload
    <3> QED
      BY <2>2, <3>8
  <2> QED
    BY <2>1, <2>2
<1>8. \A r \in Senders : \A m \in 1..Len(sent'[r]) : sent'[r][m].boot <= boot'[r]
  <2> SUFFICES ASSUME NEW r \in Senders, NEW m \in 1..Len(sent'[r])
               PROVE  sent'[r][m].boot <= boot'[r]
    OBVIOUS
  <2>1. CASE r = s /\ m = n + 1
    BY <1>1, <1>2, <1>3, <2>1 DEF TypeOK, Boot
  <2>2. CASE ~(r = s /\ m = n + 1)
    <3>1. m \in 1..Len(sent[r])
      BY <1>1, <1>3, <1>5, <2>2, OtherSenders
    <3> QED
      BY <1>1, <1>6, <3>1 DEF Grows, SealingInv
  <2> QED
    BY <2>1, <2>2
<1>9. \A t \in Tags : Genuine(t)' /\ SealedBefore(t)' /\ LengthOf(t)' = LengthOf(t)
  <2> SUFFICES ASSUME NEW t \in Tags
               PROVE  Genuine(t)' /\ SealedBefore(t)' /\ LengthOf(t)' = LengthOf(t)
    OBVIOUS
  <2>1. SenderOf(t) \in Senders /\ Genuine(t) /\ SealedBefore(t)
    BY TagParts DEF SealingInv
  <2>2. /\ MessageOf(t) \in 1..Len(sent[SenderOf(t)])
        /\ Len(sent[SenderOf(t)]) \in Nat
    BY <2>1 DEF Genuine, TypeOK
  <2>3. /\ sent'[SenderOf(t)][MessageOf(t)] = sent[SenderOf(t)][MessageOf(t)]
        /\ Len(sent[SenderOf(t)]) <= Len(sent'[SenderOf(t)])
    BY <1>6, <2>1, <2>2 DEF Grows
  <2>4. LengthOf(t)' = LengthOf(t)
    BY <2>3 DEF LengthOf, SenderOf, MessageOf
  <2>5. Genuine(t)'
    <3>1. MessageOf(t) \in 1..Len(sent'[SenderOf(t)]) /\ (Completes(t)' <=> Completes(t))
      BY <1>1, <1>3, <1>5, <2>1, <2>2, <2>3, <2>4, OtherSenders DEF Completes
    <3> QED
      BY <2>1, <2>3, <2>4, <3>1 DEF Genuine
  <2>6. SealedBefore(t)'
    <3>1. CASE SenderOf(t) = s
      BY <1>1, <1>3, <1>4, <2>1, <2>2, <3>1 DEF SealedBefore
    <3>2. CASE SenderOf(t) # s
      <4>1. /\ fragments'[SenderOf(t)] = fragments[SenderOf(t)]
            /\ sent'[SenderOf(t)] = sent[SenderOf(t)]
            /\ boot'[SenderOf(t)] = boot[SenderOf(t)]
        BY <1>5, <2>1, <3>2, OtherSenders
      <4> QED
        BY <2>1, <4>1 DEF SealedBefore
    <3> QED
      BY <3>1, <3>2
  <2> QED
    BY <2>4, <2>5, <2>6
<1>10. ASSUME NEW r \in Senders, NEW b, NEW q, NEW m, NEW e,
              OnlyContinuation(r, b, q, m, e)
       PROVE  OnlyContinuation(r, b, q, m, e)'
  <2>1. CASE r = s
    BY <1>1, <1>4, <1>10, <2>1 DEF OnlyContinuation
  <2>2. CASE r # s
    BY <1>1, <1>5, <1>10, <2>2, OtherSenders DEF OnlyContinuation
  <2> QED
    BY <2>1, <2>2
<1>11. ContinuationsStay
  BY <1>10 DEF ContinuationsStay
<1>12. \A t, u \in Tags' :
         (/\ SenderOf(t) = SenderOf(u) /\ MessageOf(t) = MessageOf(u)
          /\ Completes(t)' /\ Completes(u)') => t = u
  BY <1>1, <1>9 DEF SealingInv, Completes
<1>13. \A t \in Tags' : ~Completes(t)' =>
         OnlyContinuation(SenderOf(t), BootOf(t), WrappingNext(NumberOf(t)),
                          MessageOf(t), EndOf(t))'
  BY <1>1, <1>9, <1>10, TagParts DEF SealingInv, Completes
<1>14. NoncesUnique'
  BY <1>1 DEF SealingInv, NoncesUnique
<1>15. SealingInv'
  BY <1>1, <1>7, <1>8, <1>9, <1>12, <1>13, <1>14 DEF SealingInv
<1> QED
  BY <1>6, <1>11, <1>15

\* Sealing and sending a fragment.
LEMMA SendSeals ==
  ASSUME TypeOK, SealingInv, NEW s \in Senders, SendFragment(s)
  PROVE  SealingInv' /\ Grows /\ ContinuationsStay
<1> DEFINE it == fragments[s]
<1>0. PICK d : d = Sealed(s, Yielded(it), boot[s])
  OBVIOUS
<1> DEFINE u == d.tag
<1>a. PICK n, b0, q0, o, e0 : /\ n = Len(sent[s]) /\ b0 = boot[s] /\ q0 = it.sequence
                              /\ o = it.offset /\ e0 = ChunkEnd(it)
  OBVIOUS
<1>b. PICK L : L = sent[s][n].length
  OBVIOUS
<1> USE <1>a, <1>b
<1>1. /\ UNCHANGED <<boot, sent>> /\ ~it.done
      /\ wire' = Append(wire, d) /\ fragments' = [fragments EXCEPT ![s] = Advanced(it)]
  BY <1>0 DEF SendFragment
<1>2. /\ SenderOf(u) = s /\ BootOf(u) = b0 /\ NumberOf(u) = q0
      /\ MessageOf(u) = n /\ StartOf(u) = o /\ EndOf(u) = e0
      /\ LengthOf(u) = Len(it.payload) /\ u.nonce = <<s, q0, b0>> /\ Genuine(u)
  BY <1>0, <1>1, NextTag
<1>3. /\ Tags' = Tags \cup {u}
      /\ DOMAIN wire' = 1..(Len(wire) + 1) /\ DOMAIN wire = 1..Len(wire)
      /\ \A i \in 1..Len(wire) : wire'[i] = wire[i]
      /\ wire'[Len(wire) + 1] = d /\ Len(wire) \in Nat
  <2>1. Len(wire) \in Nat
    BY DEF TypeOK
  <2> HIDE <1>a, <1>b
  <2>2. /\ Tags' = Tags \cup {d.tag}
        /\ DOMAIN wire' = 1..(Len(wire) + 1) /\ DOMAIN wire = 1..Len(wire)
        /\ \A i \in 1..Len(wire) : wire'[i] = wire[i]
        /\ wire'[Len(wire) + 1] = d
    BY <1>1, OneMoreTag
  <2> QED
    BY <2>1, <2>2
<1>4. /\ WrappingNext(q0) \in SequenceNumber /\ q0 \in SequenceNumber /\ Dist(q0) \in Nat
      /\ Dist(WrappingNext(q0)) = Dist(q0) + 1
  BY <1>1, NumberAfter
<1>5. /\ n \in 1..Len(sent[s]) /\ sent[s][n].boot = boot[s] /\ L \in Nat \ {0}
      /\ it.payload = Payload(s, n, L) /\ Len(it.payload) = L /\ o < L
      /\ Dist(q0) + L - o <= MaxLength * n
  <2>1. /\ n >= 1 /\ sent[s][n].boot = boot[s] /\ it.payload = Payload(s, n, L) /\ o < L
        /\ Dist(q0) + L - o <= MaxLength * n
    BY <1>1 DEF SealingInv, AtWork, SentPayload
  <2>2. n \in 1..Len(sent[s])
    BY <2>1 DEF TypeOK
  <2>3. L \in Nat \ {0} /\ n \in Nat
    BY <2>2, MessageType
  <2>4. Len(it.payload) = L
    <3> HIDE <1>a, <1>b
    <3>1. Len(Payload(s, n, L)) = L
      BY <2>3, PayloadType
    <3> QED
      BY <2>1, <3>1
  <2> QED
    BY <2>1, <2>2, <2>3, <2>4
<1>6. /\ it.chunk \in Nat \ {0} /\ o \in Nat /\ e0 \in Nat /\ o < e0 /\ e0 <= L
      /\ e0 < L => it.chunk < L
  <2>1. it.chunk \in Nat \ {0} /\ o \in Nat
    BY DEF TypeOK, IteratorOver
  <2> QED
    <3>1. e0 = IF o + it.chunk < L THEN o + it.chunk ELSE L
      BY <1>5 DEF ChunkEnd, Lesser
    <3> HIDE <1>a, <1>b
    <3> HIDE DEF it
    <3> QED
      BY <1>5, <2>1, <3>1
<1>7. /\ fragments'[s].payload = it.payload /\ fragments'[s].chunk = it.chunk
      /\ fragments'[s].offset = e0 /\ fragments'[s].sequence = WrappingNext(q0)
      /\ fragments'[s].done <=> e0 = L
      /\ \A r \in Senders : r # s => fragments'[r] = fragments[r]
  BY <1>1, <1>5 DEF TypeOK, IteratorOver, Advanced
<1> HIDE DEF u
<1>8. Grows
  BY <1>1, <1>3 DEF Grows, TypeOK, Boot
<1>9. \A r \in Senders : AtWork(r)'
  <2> SUFFICES ASSUME NEW r \in Senders PROVE AtWork(r)'
    OBVIOUS
  <2>1. CASE r # s
    <3>1. AtWork(r)
      BY DEF SealingInv
    <3> QED
      BY <1>1, <1>7, <2>1, <3>1 DEF AtWork, SentPayload
  <2>2. CASE r = s
    <3>1. MaxLength * n \in Nat
      <4>1. n \in Nat
        BY DEF TypeOK
      <4> QED
        BY <4>1, LinkBoundsAssumption
    <3>2. Dist(fragments'[s].sequence) + L - e0 <= MaxLength * n
      <4> DEFINE B == MaxLength * n
      <4>1. B \in Nat /\ Dist(q0) + L - o <= B
        BY <1>5, <3>1
      <4> HIDE DEF B
      <4>2. Dist(q0) + 1 + L - e0 <= B
        BY <1>4, <1>5, <1>6, <4>1
      <4> QED
        BY <1>4, <1>7, <4>2 DEF B
    <3>3. CASE e0 = L
      <4>1. fragments'[s].done
        BY <1>7, <3>3
      <4>2. Dist(fragments'[s].sequence) <= MaxLength * n
        <5> DEFINE B == MaxLength * n
        <5> HIDE DEF B
        <5>1. Dist(q0) + 1 + L - e0 <= B
          BY <1>4, <1>7, <3>2 DEF B
        <5>2. Dist(q0) + 1 <= B
          BY <1>4, <1>5, <3>3, <5>1
        <5> QED
          BY <1>4, <1>7, <5>2 DEF B
      <4> QED
        BY <1>1, <2>2, <4>1, <4>2 DEF AtWork
    <3>4. CASE e0 # L
      <4>1. /\ n >= 1 /\ e0 < L /\ it.chunk < L
        BY <1>5, <1>6, <3>4
      <4> QED
        BY <1>1, <1>5, <1>7, <2>2, <3>2, <3>4, <4>1 DEF AtWork, SentPayload
    <3> QED
      BY <3>3, <3>4
  <2> QED
    BY <2>1, <2>2
<1>10. \A t \in Tags : /\ Genuine(t)' /\ SealedBefore(t)'
                       /\ (Completes(t)' <=> Completes(t))
  <2> SUFFICES ASSUME NEW t \in Tags
               PROVE  Genuine(t)' /\ SealedBefore(t)' /\ (Completes(t)' <=> Completes(t))
    OBVIOUS
  <2>1. /\ SenderOf(t) \in Senders /\ NumberOf(t) \in SequenceNumber /\ BootOf(t) \in Boot
        /\ Genuine(t) /\ SealedBefore(t) /\ EndOf(t) \in Nat
    BY TagParts, GenuineParts DEF SealingInv
  <2>2. Genuine(t)' /\ (Completes(t)' <=> Completes(t))
    BY <1>1, <2>1 DEF Genuine, LengthOf, Completes
  <2>3. SealedBefore(t)'
    <3>1. CASE SenderOf(t) # s
      BY <1>1, <1>7, <2>1, <3>1 DEF SealedBefore
    <3>2. CASE SenderOf(t) = s
      <4>1. /\ BootOf(t) <= boot[s]
            /\ BootOf(t) = boot[s] => Dist(NumberOf(t)) < Dist(q0)
            /\ MessageOf(t) = Len(sent[s]) => EndOf(t) <= o
        BY <1>1, <2>1, <3>2 DEF SealedBefore
      <4>2. Dist(NumberOf(t)) \in Nat
        BY <2>1, Distances, SequenceModulusAssumption
      <4>3. BootOf(t) = boot[s] => Dist(NumberOf(t)) < Dist(fragments'[s].sequence)
        BY <1>4, <1>7, <4>1, <4>2
      <4>4. MessageOf(t) = Len(sent[s]) => EndOf(t) <= fragments'[s].offset
        BY <1>6, <1>7, <2>1, <4>1
      <4> QED
        BY <1>1, <3>2, <4>1, <4>3, <4>4 DEF SealedBefore
    <3> QED
      BY <3>1, <3>2
  <2> QED
    BY <2>2, <2>3
<1>11. Genuine(u)' /\ SealedBefore(u)' /\ (Completes(u)' <=> e0 = L)
  <2>1. Genuine(u)' /\ (Completes(u)' <=> e0 = L)
    BY <1>1, <1>2, <1>5 DEF Genuine, LengthOf, Completes
  <2>2. SealedBefore(u)'
    <3>1. boot'[s] = boot[s] /\ boot[s] \in Nat
      BY <1>1 DEF TypeOK, Boot
    <3>2. SenderOf(u) = s /\ BootOf(u) <= boot'[s]
      BY <1>2, <3>1
    <3>3. Dist(NumberOf(u)) < Dist(fragments'[s].sequence)
      BY <1>2, <1>4, <1>7
    <3>4. EndOf(u) <= fragments'[s].offset
      BY <1>2, <1>6, <1>7
    <3> QED
      BY <3>2, <3>3, <3>4 DEF SealedBefore
  <2> QED
    BY <2>1, <2>2
<1>12. \A t \in Tags : Completes(t)' => ~(SenderOf(t) = s /\ MessageOf(t) = n)
  <2> SUFFICES ASSUME NEW t \in Tags, Completes(t)', SenderOf(t) = s, MessageOf(t) = n
               PROVE  FALSE
    OBVIOUS
  <2>1. EndOf(t) <= o /\ EndOf(t) \in Nat
    BY <1>1, GenuineParts DEF SealingInv, SealedBefore
  <2>2. EndOf(t) = L
    BY <1>10 DEF Completes, LengthOf
  <2> QED
    BY <1>5, <1>6, <2>1, <2>2
<1>13. \A t, v \in Tags' :
         (/\ SenderOf(t) = SenderOf(v) /\ MessageOf(t) = MessageOf(v)
          /\ Completes(t)' /\ Completes(v)') => t = v
  <2> SUFFICES ASSUME NEW t \in Tags', NEW v \in Tags', Completes(t)', Completes(v)',
                      SenderOf(t) = SenderOf(v), MessageOf(t) = MessageOf(v)
               PROVE  t = v
    OBVIOUS
  <2>1. CASE t \in Tags /\ v \in Tags
    BY <1>10, <2>1 DEF SealingInv
  <2>2. CASE t \in Tags /\ v = u
    BY <1>2, <1>12, <2>2
  <2>3. CASE t = u /\ v \in Tags
    BY <1>2, <1>12, <2>3
  <2> QED
    BY <1>3, <2>1, <2>2, <2>3
<1>14. ASSUME NEW r \in Senders, NEW b \in Boot, NEW q \in SequenceNumber, NEW m, NEW e,
              OnlyContinuation(r, b, q, m, e)
       PROVE  OnlyContinuation(r, b, q, m, e)'
  <2>1. ASSUME NEW t \in Tags', SenderOf(t) = r, BootOf(t) = b, NumberOf(t) = q,
               StartOf(t) > 0
        PROVE  MessageOf(t) = m /\ StartOf(t) = e
    <3>1. CASE t \in Tags
      BY <1>14, <2>1, <3>1 DEF OnlyContinuation
    <3>2. CASE t = u
      <4>1. r = s /\ b = boot[s] /\ q = q0 /\ o > 0
        BY <1>2, <2>1, <3>2
      <4>2. m = n /\ e = o
        BY <1>1, <1>14, <4>1 DEF OnlyContinuation
      <4> QED
        BY <1>2, <3>2, <4>2
    <3> QED
      BY <1>3, <3>1, <3>2
  <2>2. b <= boot'[r]
    BY <1>1, <1>14 DEF OnlyContinuation
  <2>3. ASSUME b = boot'[r]
        PROVE  /\ Dist(q) <= Dist(fragments'[r].sequence)
               /\ (/\ q = fragments'[r].sequence
                   /\ ~fragments'[r].done /\ fragments'[r].offset > 0)
                   => (m = Len(sent'[r]) /\ e = fragments'[r].offset)
    <3>1. CASE r # s
      BY <1>1, <1>7, <1>14, <2>3, <3>1 DEF OnlyContinuation
    <3>2. CASE r = s
      <4>1. Dist(q) <= Dist(q0) /\ Dist(q) \in Nat
        BY <1>1, <1>14, <2>3, <3>2, Distances, SequenceModulusAssumption
           DEF OnlyContinuation
      <4>2. Dist(q) <= Dist(fragments'[s].sequence)
        BY <1>4, <1>7, <4>1
      <4>3. q # fragments'[s].sequence
        BY <1>4, <1>7, <4>1
      <4> QED
        BY <3>2, <4>2, <4>3
    <3> QED
      BY <3>1, <3>2
  <2> QED
    BY <2>1, <2>2, <2>3 DEF OnlyContinuation
<1>15. OnlyContinuation(s, b0, WrappingNext(q0), n, e0)'
  <2>1. ASSUME NEW t \in Tags', SenderOf(t) = s, BootOf(t) = boot[s],
               NumberOf(t) = WrappingNext(q0)
        PROVE  FALSE
    <3>1. CASE t \in Tags
      <4>1. Dist(NumberOf(t)) < Dist(q0)
        BY <2>1, <3>1 DEF SealingInv, SealedBefore
      <4> QED
        BY <1>4, <2>1, <4>1
    <3>2. CASE t = u
      BY <1>2, <1>4, <2>1, <3>2
    <3> QED
      BY <1>3, <3>1, <3>2
  <2>2. boot[s] <= boot'[s] /\ boot'[s] = boot[s] /\ sent' = sent
    BY <1>1 DEF TypeOK, Boot
  <2>3. Dist(WrappingNext(q0)) <= Dist(fragments'[s].sequence)
    BY <1>4, <1>7
  <2> QED
    BY <1>7, <2>1, <2>2, <2>3 DEF OnlyContinuation
<1>16. \A t \in Tags' : ~Completes(t)' =>
         OnlyContinuation(SenderOf(t), BootOf(t), WrappingNext(NumberOf(t)),
                          MessageOf(t), EndOf(t))'
  <2> SUFFICES ASSUME NEW t \in Tags', ~Completes(t)'
               PROVE  OnlyContinuation(SenderOf(t), BootOf(t), WrappingNext(NumberOf(t)),
                                       MessageOf(t), EndOf(t))'
    OBVIOUS
  <2>1. CASE t \in Tags
    <3>1. OnlyContinuation(SenderOf(t), BootOf(t), WrappingNext(NumberOf(t)),
                           MessageOf(t), EndOf(t))
      BY <1>10, <2>1 DEF SealingInv
    <3>2. /\ SenderOf(t) \in Senders /\ BootOf(t) \in Boot
          /\ WrappingNext(NumberOf(t)) \in SequenceNumber
      BY <2>1, TagParts, WrappingNextValue
    <3> QED
      BY <1>14, <3>1, <3>2
  <2>2. CASE t = u
    BY <1>1, <1>2, <1>15, <2>2
  <2> QED
    BY <1>3, <2>1, <2>2
<1>17. NoncesUnique'
  <2> SUFFICES ASSUME NEW i \in DOMAIN wire', NEW j \in DOMAIN wire',
                      ~wire'[i].damaged, ~wire'[j].damaged,
                      wire'[i].tag.nonce = wire'[j].tag.nonce
               PROVE  i = j
    BY DEF NoncesUnique
  <2>1. \A k \in 1..Len(wire) : wire[k].tag.nonce # u.nonce
    <3> SUFFICES ASSUME NEW k \in 1..Len(wire), wire[k].tag.nonce = u.nonce
                 PROVE  FALSE
      OBVIOUS
    <3> DEFINE t == wire[k].tag
    <3>1. t \in Tags
      BY <1>3 DEF Tags
    <3> HIDE DEF t
    <3>2. t.nonce = <<s, q0, b0>>
      BY <1>2 DEF t
    <3>3. SenderOf(t) = s /\ NumberOf(t) = q0 /\ BootOf(t) = boot[s]
      BY <3>1, <3>2 DEF SealingInv, Genuine
    <3>4. Dist(NumberOf(t)) < Dist(q0)
      BY <3>1, <3>3 DEF SealingInv, SealedBefore
    <3> QED
      BY <1>4, <3>3, <3>4
  <2>2. CASE i \in 1..Len(wire) /\ j \in 1..Len(wire)
    BY <1>3, <2>2 DEF SealingInv, NoncesUnique
  <2>3. CASE i = Len(wire) + 1 /\ j \in 1..Len(wire)
    BY <1>3, <2>1, <2>3 DEF u
  <2>4. CASE i \in 1..Len(wire) /\ j = Len(wire) + 1
    BY <1>3, <2>1, <2>4 DEF u
  <2> QED
    BY <1>3, <2>2, <2>3, <2>4
<1>18. \A r \in Senders : \A m \in 1..Len(sent'[r]) : sent'[r][m].boot <= boot'[r]
  BY <1>1 DEF SealingInv
<1>19. \A t \in Tags' : Genuine(t)' /\ SealedBefore(t)'
  BY <1>3, <1>10, <1>11
<1>20. ContinuationsStay
  BY <1>14 DEF ContinuationsStay
<1>21. SealingInv'
  BY <1>9, <1>13, <1>16, <1>17, <1>18, <1>19 DEF SealingInv
<1> QED
  BY <1>8, <1>20, <1>21

\* A sender starting over: its earlier tags belong to an earlier boot.
LEMMA RebootSeals ==
  ASSUME TypeOK, SealingInv, NEW s \in Senders, Reboot(s)
  PROVE  SealingInv' /\ Grows /\ ContinuationsStay
<1>1. /\ UNCHANGED <<sent, wire>> /\ Tags' = Tags
      /\ boot' = [boot EXCEPT ![s] = @ + 1]
  BY DEF Reboot, Tags
<1>2. /\ boot'[s] = boot[s] + 1 /\ boot[s] \in Nat
      /\ \A r \in Senders : boot[r] \in Nat /\ boot[r] <= boot'[r]
      /\ \A r \in Senders : r # s => boot'[r] = boot[r] /\ fragments'[r] = fragments[r]
  BY <1>1 DEF TypeOK, Boot, Reboot
<1>3. fragments'[s].done /\ fragments'[s].sequence = FirstSequence
  <2>1. fragments'[s] = [Fragments(<<>>, FirstSequence, Chunk) EXCEPT !.done = TRUE]
    BY DEF Reboot, TypeOK
  <2> QED
    BY <2>1 DEF Fragments
<1>4. Grows
  BY <1>1, <1>2 DEF Grows, TypeOK
<1>5. \A r \in Senders : AtWork(r)'
  <2> SUFFICES ASSUME NEW r \in Senders PROVE AtWork(r)'
    OBVIOUS
  <2>1. CASE r # s
    BY <1>1, <1>2, <2>1 DEF SealingInv, AtWork, SentPayload
  <2>2. CASE r = s
    <3>1. Dist(FirstSequence) = 0
      BY LinkBoundsAssumption, SequenceModulusAssumption DEF Dist, StepsFrom, SequenceNumber
    <3>2. MaxLength * Len(sent[s]) >= 0
      <4> DEFINE n == Len(sent[s])
      <4>1. n \in Nat
        BY DEF TypeOK
      <4> HIDE DEF n
      <4>2. MaxLength * n >= 0
        BY <4>1, LinkBoundsAssumption
      <4> QED
        BY <4>2 DEF n
    <3> QED
      BY <1>1, <1>3, <2>2, <3>1, <3>2 DEF AtWork
  <2> QED
    BY <2>1, <2>2
<1>6. \A r \in Senders : \A m \in 1..Len(sent'[r]) : sent'[r][m].boot <= boot'[r]
  <2> SUFFICES ASSUME NEW r \in Senders, NEW m \in 1..Len(sent[r])
               PROVE  sent[r][m].boot <= boot'[r]
    BY <1>1
  <2>1. sent[r][m].boot <= boot[r] /\ sent[r][m].boot \in Boot
    BY MessageType DEF SealingInv
  <2> QED
    BY <1>2, <2>1 DEF Boot
<1>7. \A t \in Tags : /\ Genuine(t)' /\ SealedBefore(t)'
                      /\ (Completes(t)' <=> Completes(t))
  <2> SUFFICES ASSUME NEW t \in Tags
               PROVE  Genuine(t)' /\ SealedBefore(t)' /\ (Completes(t)' <=> Completes(t))
    OBVIOUS
  <2>1. /\ SenderOf(t) \in Senders /\ BootOf(t) \in Boot
        /\ Genuine(t) /\ SealedBefore(t)
    BY TagParts DEF SealingInv
  <2>2. Genuine(t)' /\ (Completes(t)' <=> Completes(t))
    BY <1>1, <2>1 DEF Genuine, LengthOf, Completes
  <2>3. SealedBefore(t)'
    <3>1. CASE SenderOf(t) # s
      BY <1>1, <1>2, <2>1, <3>1 DEF SealedBefore
    <3>2. CASE SenderOf(t) = s
      BY <1>2, <1>3, <2>1, <3>2 DEF SealedBefore, Boot
    <3> QED
      BY <3>1, <3>2
  <2> QED
    BY <2>2, <2>3
<1>8. ASSUME NEW r \in Senders, NEW b \in Boot, NEW q, NEW m, NEW e,
             OnlyContinuation(r, b, q, m, e)
      PROVE  OnlyContinuation(r, b, q, m, e)'
  <2>1. CASE r # s
    BY <1>1, <1>2, <1>8, <2>1 DEF OnlyContinuation
  <2>2. CASE r = s
    <3>1. b <= boot[s] /\ b \in Nat
      BY <1>8, <2>2 DEF OnlyContinuation, Boot
    <3>2. b <= boot'[s] /\ b # boot'[s]
      BY <1>2, <3>1
    <3> QED
      BY <1>1, <1>8, <2>2, <3>2 DEF OnlyContinuation
  <2> QED
    BY <2>1, <2>2
<1>9. \A t, u \in Tags' :
        (/\ SenderOf(t) = SenderOf(u) /\ MessageOf(t) = MessageOf(u)
         /\ Completes(t)' /\ Completes(u)') => t = u
  BY <1>1, <1>7 DEF SealingInv
<1>10. \A t \in Tags' : ~Completes(t)' =>
         OnlyContinuation(SenderOf(t), BootOf(t), WrappingNext(NumberOf(t)),
                          MessageOf(t), EndOf(t))'
  BY <1>1, <1>7, <1>8, TagParts DEF SealingInv
<1>11. NoncesUnique'
  BY <1>1 DEF SealingInv, NoncesUnique
<1>12. SealingInv'
  BY <1>1, <1>5, <1>6, <1>7, <1>9, <1>10, <1>11 DEF SealingInv
<1> QED
  BY <1>4, <1>8, <1>12 DEF ContinuationsStay

\* Whatever touches neither the senders nor the set of tags, and adds nothing
\* undamaged to the wire, leaves the sealing side as it is.
LEMMA ElsewhereSeals ==
  ASSUME TypeOK, SealingInv, UNCHANGED senderVars, Tags' = Tags, NoncesUnique'
  PROVE  SealingInv' /\ Grows /\ ContinuationsStay
<1>1. boot' = boot /\ sent' = sent /\ fragments' = fragments
  BY DEF senderVars
<1>2. Grows
  BY <1>1 DEF Grows, TypeOK, Boot
<1>3. \A t \in Tags : /\ Genuine(t)' <=> Genuine(t)
                      /\ SealedBefore(t)' <=> SealedBefore(t)
                      /\ Completes(t)' <=> Completes(t)
  BY <1>1 DEF Genuine, SealedBefore, Completes, LengthOf
<1>4. \A r, b, q, m, e : OnlyContinuation(r, b, q, m, e)' <=> OnlyContinuation(r, b, q, m, e)
  BY <1>1 DEF OnlyContinuation
<1>5. \A r \in Senders : AtWork(r)' <=> AtWork(r)
  BY <1>1 DEF AtWork, SentPayload
<1>6. SealingInv'
  BY <1>1, <1>3, <1>4, <1>5 DEF SealingInv
<1> QED
  BY <1>2, <1>4, <1>6 DEF ContinuationsStay

\* Damage copies tags and marks the copies.
LEMMA DamageSeals ==
  ASSUME TypeOK, SealingInv, Damage
  PROVE  SealingInv' /\ Grows /\ ContinuationsStay
<1>1. PICK i \in DOMAIN wire : \E d \in Damaged(wire[i]) : wire' = Append(wire, d)
  BY DEF Damage
<1>2. PICK d \in Damaged(wire[i]) : wire' = Append(wire, d)
  BY <1>1
<1>3. d.tag = wire[i].tag /\ d.damaged
  BY DamageKeepsTag DEF TypeOK
<1>4. /\ Tags' = Tags \cup {d.tag}
      /\ DOMAIN wire' = 1..(Len(wire) + 1) /\ DOMAIN wire = 1..Len(wire)
      /\ \A j \in 1..Len(wire) : wire'[j] = wire[j]
      /\ wire'[Len(wire) + 1] = d
  BY <1>2, OneMoreTag
<1>5. Tags' = Tags
  BY <1>3, <1>4 DEF Tags
<1>6. NoncesUnique'
  <2>1. \A j \in DOMAIN wire' :
          ~wire'[j].damaged => j \in DOMAIN wire /\ wire'[j] = wire[j]
    BY <1>3, <1>4 DEF TypeOK
  <2> QED
    BY <2>1 DEF SealingInv, NoncesUnique
<1>7. UNCHANGED senderVars
  BY DEF Damage
<1> QED
  BY <1>5, <1>6, <1>7, ElsewhereSeals

-----------------------------------------------------------------------------
(* The receiving side.                                                      *)

\* While the receiver does nothing, what it holds and what it has passed on stay
\* what they are, whatever the senders and the network do.
LEMMA ReceiverWaits ==
  ASSUME TypeOK, TypeOK', SealingInv, ReceivingInv, Grows, ContinuationsStay,
         UNCHANGED receiverVars
  PROVE  ReceivingInv'
<1>1. /\ known' = known /\ window' = window
      /\ reassembler' = reassembler /\ handedUp' = handedUp
  BY DEF receiverVars
<1> SUFFICES ASSUME NEW s \in Senders
             PROVE  /\ known[s] <= boot'[s]
                    /\ HoldsBeginning(s)'
                    /\ \A p \in DOMAIN handedUp[s] :
                         handedUp[s][p] = 1 /\ PassedOnByRefusedTag(s, p)'
  BY <1>1 DEF ReceivingInv
<1>2. /\ boot[s] <= boot'[s] /\ Len(sent[s]) <= Len(sent'[s])
      /\ \A m \in 1..Len(sent[s]) : sent'[s][m] = sent[s][m]
  BY DEF Grows
<1>3. known[s] <= boot'[s]
  <2>1. known[s] <= boot[s] /\ known[s] \in Nat /\ boot[s] \in Nat /\ boot'[s] \in Nat
    BY DEF ReceivingInv, TypeOK, Boot
  <2>2. boot'[s] >= boot[s]
    BY <1>2
  <2> QED
    BY <2>1, <2>2
<1>4. HoldsBeginning(s)'
  <2> SUFFICES ASSUME reassembler[s].inProgress
               PROVE  \E m \in 1..Len(sent'[s]) : \E e \in 1..(sent'[s][m].length - 1) :
                        /\ reassembler[s].held = Payload(s, m, e)
                        /\ OnlyContinuation(s, known[s], reassembler[s].nextSequence, m, e)'
    BY <1>1 DEF HoldsBeginning
  <2>1. PICK m \in 1..Len(sent[s]) : \E e \in 1..(sent[s][m].length - 1) :
          /\ reassembler[s].held = Payload(s, m, e)
          /\ OnlyContinuation(s, known[s], reassembler[s].nextSequence, m, e)
    BY DEF ReceivingInv, HoldsBeginning
  <2>2. PICK e \in 1..(sent[s][m].length - 1) :
          /\ reassembler[s].held = Payload(s, m, e)
          /\ OnlyContinuation(s, known[s], reassembler[s].nextSequence, m, e)
    BY <2>1
  <2>3. m \in Nat /\ e \in Nat /\ m \in 1..Len(sent'[s]) /\ sent'[s][m] = sent[s][m]
    BY <1>2, MessageType DEF Grows
  <2>4. PICK b, q : b = known[s] /\ q = reassembler[s].nextSequence
    OBVIOUS
  <2>5. b \in Boot /\ q \in SequenceNumber
    BY <2>4 DEF TypeOK, ReassemblerOver
  <2>6. OnlyContinuation(s, b, q, m, e)'
    BY <2>2, <2>3, <2>4, <2>5 DEF ContinuationsStay
  <2>7. OnlyContinuation(s, known[s], reassembler[s].nextSequence, m, e)'
    BY <1>1, <2>4, <2>6
  <2> QED
    BY <1>1, <2>2, <2>3, <2>7
<1>5. ASSUME NEW p \in DOMAIN handedUp[s]
      PROVE  handedUp[s][p] = 1 /\ PassedOnByRefusedTag(s, p)'
  <2>1. PICK t \in Tags :
          /\ SenderOf(t) = s /\ Completes(t) /\ p = SentPayload(s, MessageOf(t))
          /\ BootOf(t) <= known[s]
          /\ BootOf(t) = known[s] => Refused(window[s], NumberOf(t))
    BY DEF ReceivingInv, PassedOnByRefusedTag
  <2>2. t \in Tags' /\ sent'[s][MessageOf(t)] = sent[s][MessageOf(t)]
    BY <1>2, <2>1 DEF Grows, SealingInv, Genuine
  <2>3. Completes(t)' /\ SentPayload(s, MessageOf(t))' = SentPayload(s, MessageOf(t))
    BY <2>1, <2>2 DEF Completes, LengthOf, SentPayload
  <2>4. handedUp[s][p] = 1
    BY DEF ReceivingInv
  <2> QED
    BY <1>1, <2>1, <2>2, <2>3, <2>4 DEF PassedOnByRefusedTag
<1> QED
  BY <1>3, <1>4, <1>5

\* A datagram that opens is the one its tag was sealed with.
LEMMA OpenedIsGenuine ==
  ASSUME TypeOK, SealingInv, NEW i \in DOMAIN wire, NEW d, d = wire[i],
         Opens(d, known[d.header.sender])
  PROVE  /\ d.tag \in Tags /\ Genuine(d.tag) /\ d.header.sender \in Senders
         /\ SenderOf(d.tag) = d.header.sender
         /\ NumberOf(d.tag) = d.header.sequence
         /\ BootOf(d.tag) = known[d.header.sender]
         /\ d.tag.associated = d.header /\ d.tag.payload = d.payload
<1>1. d.tag \in Tags /\ Genuine(d.tag)
  BY DEF Tags, SealingInv
<1>2. /\ d.tag.associated = d.header /\ d.tag.payload = d.payload
      /\ d.tag.nonce = <<d.header.sender, d.header.sequence, known[d.header.sender]>>
  BY DEF Opens, Tag, Nonce, AssociatedData
<1> QED
  BY <1>1, <1>2, TagParts DEF SenderOf, NumberOf, BootOf

\* What accept() makes of a genuine datagram: a whole message, a longer beginning
\* of the message it belongs to, or nothing.
LEMMA AcceptedPiece ==
  ASSUME TypeOK, SealingInv, NEW s \in Senders, HoldsBeginning(s),
         NEW t \in Tags, SenderOf(t) = s, BootOf(t) = known[s],
         NEW x, x = [sequence |-> NumberOf(t), flags |-> t.associated.flags,
                     payload |-> t.payload],
         NEW v, v = AcceptVerdictOf(reassembler[s], x),
         NEW r, r = AfterAccept(reassembler[s], x)
  PROVE  /\ v \in AcceptVerdict
         /\ v = "Whole" => Completes(t) /\ t.payload = SentPayload(s, MessageOf(t))
         /\ v \in {"Held", "Complete"} =>
              /\ r.held = Payload(s, MessageOf(t), EndOf(t))
              /\ r.nextSequence = WrappingNext(NumberOf(t))
              /\ r.inProgress <=> ~Completes(t)
         /\ v = "Complete" => Completes(t)
         /\ v \in {"Whole", "Gap", "TooLarge"} => ~r.inProgress
<1> DEFINE m == MessageOf(t)
           a == StartOf(t)
           e == EndOf(t)
           flags == t.associated.flags
<1>1. Genuine(t)
  BY DEF SealingInv
<1>2. /\ m \in Nat /\ a \in Nat /\ e \in Nat /\ a <= e /\ t.payload = Piece(s, m, a, e)
      /\ IF flags.fragment
           THEN /\ flags.first <=> a = 0
                /\ flags.last <=> Completes(t)
           ELSE a = 0 /\ Completes(t)
  BY <1>1, GenuineParts DEF Genuine
<1>3. /\ Payload(s, m, a) \o Piece(s, m, a, e) = Payload(s, m, e)
      /\ Payload(s, m, e) = Piece(s, m, 0, e)
  <2> HIDE DEF m, a, e
  <2> QED
    BY <1>2, PiecesJoin
<1>4. v \in AcceptVerdict
  BY DEF AcceptVerdictOf, AcceptVerdict
<1>5. ASSUME v = "Whole"
      PROVE  Completes(t) /\ t.payload = SentPayload(s, m)
  <2>1. ~flags.fragment
    BY <1>5 DEF AcceptVerdictOf
  <2>2. a = 0 /\ Completes(t)
    BY <1>2, <2>1
  <2>3. t.payload = Payload(s, m, e) /\ e = sent[s][m].length
    BY <1>2, <1>3, <2>2 DEF Completes, LengthOf
  <2> QED
    BY <2>2, <2>3 DEF SentPayload
<1>6. ASSUME v \in {"Held", "Complete"}
      PROVE  /\ r.held = Payload(s, m, e)
             /\ r.nextSequence = WrappingNext(NumberOf(t))
             /\ r.inProgress <=> ~Completes(t)
             /\ v = "Complete" => Completes(t)
  <2>1. /\ flags.fragment /\ Continues(reassembler[s], NumberOf(t), flags)
        /\ (v = "Complete" <=> flags.last)
    BY <1>6 DEF AcceptVerdictOf
  <2>5. /\ r.held = Base(reassembler[s], flags) \o t.payload
        /\ r.nextSequence = WrappingNext(NumberOf(t))
        /\ r.inProgress <=> ~flags.last
    <3>1. AcceptVerdictOf(reassembler[s], x) \in {"Held", "Complete"}
      BY <1>6
    <3>2. /\ r.held = Lengthened(reassembler[s], x)
          /\ r.nextSequence = WrappingNext(x.sequence)
          /\ r.inProgress <=> ~x.flags.last
      BY <3>1, Taken
    <3>3. x.flags = flags /\ x.payload = t.payload /\ x.sequence = NumberOf(t)
      OBVIOUS
    <3> QED
      BY <3>2, <3>3 DEF Lengthened
  <2>6. r.inProgress <=> ~Completes(t)
    <3>1. r.inProgress <=> ~flags.last
      BY <2>5
    <3>2. flags.last <=> Completes(t)
      BY <1>2, <2>1
    <3> QED
      BY <3>1, <3>2
  <2>7. v = "Complete" => Completes(t)
    BY <1>2, <2>1
  <2>3. CASE flags.first
    <3>1. Base(reassembler[s], flags) = <<>>
      BY <2>3 DEF Base, Reset, TypeOK, ReassemblerOver
    <3>2. t.payload = Payload(s, m, e)
      BY <1>2, <1>3, <2>1, <2>3
    <3>3. <<>> \o t.payload = t.payload
      BY TagParts
    <3> QED
      BY <2>5, <2>6, <2>7, <3>1, <3>2, <3>3
  <2>4. CASE ~flags.first
    <3>1. reassembler[s].inProgress /\ NumberOf(t) = reassembler[s].nextSequence
      BY <2>1, <2>4 DEF Continues
    <3>2. PICK n \in 1..Len(sent[s]) : \E k \in 1..(sent[s][n].length - 1) :
            /\ reassembler[s].held = Payload(s, n, k)
            /\ OnlyContinuation(s, known[s], reassembler[s].nextSequence, n, k)
      BY <3>1 DEF HoldsBeginning
    <3>3. PICK k \in 1..(sent[s][n].length - 1) :
            /\ reassembler[s].held = Payload(s, n, k)
            /\ OnlyContinuation(s, known[s], reassembler[s].nextSequence, n, k)
      BY <3>2
    <3>4. a > 0
      BY <1>2, <2>1, <2>4
    <3>5. m = n /\ a = k
      BY <3>1, <3>3, <3>4 DEF OnlyContinuation
    <3>6. Base(reassembler[s], flags) = Payload(s, m, a)
      BY <2>4, <3>3, <3>5 DEF Base
    <3> QED
      BY <1>2, <1>3, <2>5, <2>6, <2>7, <3>6
  <2> QED
    BY <2>3, <2>4
<1>7. ASSUME v \in {"Whole", "Gap", "TooLarge"}
      PROVE  ~r.inProgress
  <2>1. r = Reset(reassembler[s])
    BY <1>7 DEF AfterAccept
  <2>2. reassembler[s] \in ReassemblerOver(Byte)
    BY DEF TypeOK
  <2>3. ASSUME NEW x0 \in ReassemblerOver(Byte)
        PROVE  Reset(x0).inProgress = FALSE
    BY DEF Reset, ReassemblerOver
  <2> QED
    BY <2>1, <2>2, <2>3
<1> QED
  BY <1>4, <1>5, <1>6, <1>7

\* Reading a datagram that opens and is let through keeps the receiving side.
LEMMA ReceiveKeeps ==
  ASSUME TypeOK, SealingInv, ReceivingInv, NEW i \in DOMAIN wire, Receive(i),
         NEW d, d = wire[i], NEW s, s = d.header.sender,
         Opens(d, known[s]), Judged(s, d)
  PROVE  /\ ReceivingInv'
         /\ \A r \in Senders \ {s} : handedUp'[r] = handedUp[r]
         /\ \A p \in DOMAIN handedUp'[s] \ DOMAIN handedUp[s] :
              /\ p = SentPayload(s, MessageOf(d.tag)) /\ Genuine(d.tag)
              /\ BootOf(d.tag) = known[s] /\ SenderOf(d.tag) = s
<1>0. PICK t, x, v :
        /\ t = d.tag
        /\ x = [sequence |-> d.header.sequence, flags |-> d.header.flags,
                payload |-> d.payload]
        /\ v = AcceptVerdictOf(reassembler[s], x)
  OBVIOUS
<1>1. /\ t \in Tags /\ Genuine(t) /\ s \in Senders /\ SenderOf(t) = s
      /\ NumberOf(t) = d.header.sequence /\ BootOf(t) = known[s]
      /\ t.associated = d.header /\ t.payload = d.payload
  BY <1>0, OpenedIsGenuine
<1>2. /\ x = [sequence |-> NumberOf(t), flags |-> t.associated.flags,
              payload |-> t.payload]
      /\ NumberOf(t) \in SequenceNumber /\ BootOf(t) \in Boot
  BY <1>0, <1>1, TagParts
<1>3. /\ window' = [window EXCEPT ![s] = Replay!After(@, NumberOf(t))]
      /\ reassembler' = [reassembler EXCEPT ![s] = AfterAccept(@, x)]
      /\ handedUp' = [handedUp EXCEPT ![s] =
           CASE v = "Whole"    -> HandUp(@, d.payload)
             [] v = "Complete" -> HandUp(@, reassembler'[s].held)
             [] OTHER          -> @]
      /\ UNCHANGED <<boot, sent, fragments, wire, known>>
  BY <1>0, <1>1 DEF Receive, senderVars
<1>4. /\ Tags' = Tags
      /\ \A u \in Tags : Completes(u)' <=> Completes(u)
      /\ \A r, m : SentPayload(r, m)' = SentPayload(r, m)
      /\ \A r, b, q, m, e : OnlyContinuation(r, b, q, m, e)' <=> OnlyContinuation(r, b, q, m, e)
  BY <1>3 DEF Tags, Completes, LengthOf, SentPayload, OnlyContinuation
<1>5. PICK y : y = AfterAccept(reassembler[s], x)
  OBVIOUS
<1>6. /\ v \in AcceptVerdict
      /\ v = "Whole" => Completes(t) /\ t.payload = SentPayload(s, MessageOf(t))
      /\ v \in {"Held", "Complete"} =>
           /\ y.held = Payload(s, MessageOf(t), EndOf(t))
           /\ y.nextSequence = WrappingNext(NumberOf(t))
           /\ y.inProgress <=> ~Completes(t)
      /\ v = "Complete" => Completes(t)
      /\ v \in {"Whole", "Gap", "TooLarge"} => ~y.inProgress
  <2>1. HoldsBeginning(s)
    BY <1>1 DEF ReceivingInv
  <2> QED
    BY <1>0, <1>1, <1>2, <1>5, <2>1, AcceptedPiece
<1>7. /\ reassembler'[s] = y /\ window'[s] = Replay!After(window[s], NumberOf(t))
      /\ \A r \in Senders : r # s => /\ reassembler'[r] = reassembler[r]
                                    /\ window'[r] = window[r]
                                    /\ handedUp'[r] = handedUp[r]
  BY <1>1, <1>3, <1>5 DEF TypeOK
<1>8. PICK p : p = SentPayload(s, MessageOf(t))
  OBVIOUS
<1>9. /\ v \in {"Whole", "Complete"} =>
           Completes(t) /\ handedUp'[s] = HandUp(handedUp[s], p)
      /\ v \notin {"Whole", "Complete"} => handedUp'[s] = handedUp[s]
  <2>1. CASE v = "Whole"
    BY <1>1, <1>3, <1>6, <1>8, <2>1 DEF TypeOK
  <2>2. CASE v = "Complete"
    <3>1. Completes(t) /\ y.held = p
      BY <1>1, <1>6, <1>8, <2>2 DEF Completes, LengthOf, SentPayload
    <3>2. handedUp'[s] = HandUp(handedUp[s], reassembler'[s].held)
      BY <1>1, <1>3, <2>2 DEF TypeOK
    <3> QED
      BY <1>7, <2>2, <3>1, <3>2
  <2>3. CASE v \notin {"Whole", "Complete"}
    BY <1>1, <1>3, <2>3 DEF TypeOK
  <2> QED
    BY <2>1, <2>2, <2>3
<1>10. /\ ~Refused(window[s], NumberOf(t))
       /\ Refused(window'[s], NumberOf(t))
       /\ \A q \in SequenceNumber : Refused(window[s], q) => Refused(window'[s], q)
  <2>1. window[s] \in Replay!Window
    BY <1>1 DEF TypeOK
  <2>2. ~Refused(window[s], NumberOf(t))
    BY <1>1 DEF Judged, Refused
  <2> QED
    BY <1>2, <1>7, <2>1, <2>2, RefusedForGood
<1>11. Completes(t) => p \notin DOMAIN handedUp[s]
  <2> SUFFICES ASSUME Completes(t), p \in DOMAIN handedUp[s] PROVE FALSE
    OBVIOUS
  <2>1. PICK u \in Tags :
          /\ SenderOf(u) = s /\ Completes(u) /\ p = SentPayload(s, MessageOf(u))
          /\ BootOf(u) = known[s] => Refused(window[s], NumberOf(u))
    BY <1>1 DEF ReceivingInv, PassedOnByRefusedTag
  <2>2. MessageOf(u) = MessageOf(t)
    <3>1. /\ sent[s][MessageOf(t)].length \in Nat \ {0}
          /\ sent[s][MessageOf(u)].length \in Nat \ {0}
      BY <1>1, <2>1, MessageType DEF SealingInv, Genuine
    <3>2. Payload(s, MessageOf(t), sent[s][MessageOf(t)].length)
            = Payload(s, MessageOf(u), sent[s][MessageOf(u)].length)
      BY <1>8, <2>1 DEF SentPayload
    <3> QED
      BY <3>1, <3>2, PayloadNamesMessage
  <2>3. u = t
    BY <1>1, <2>1, <2>2 DEF SealingInv
  <2> QED
    BY <1>1, <1>10, <2>1, <2>3
<1>12. HoldsBeginning(s)'
  <2> SUFFICES ASSUME y.inProgress
               PROVE  \E m \in 1..Len(sent[s]) : \E e \in 1..(sent[s][m].length - 1) :
                        /\ y.held = Payload(s, m, e)
                        /\ OnlyContinuation(s, known[s], y.nextSequence, m, e)'
    BY <1>3, <1>7 DEF HoldsBeginning
  <2>1. /\ y.held = Payload(s, MessageOf(t), EndOf(t))
        /\ y.nextSequence = WrappingNext(NumberOf(t)) /\ ~Completes(t)
    BY <1>6 DEF AcceptVerdict
  <2>4. PICK b : b = known[s]
    OBVIOUS
  <2>2. OnlyContinuation(s, b, y.nextSequence, MessageOf(t), EndOf(t))
    BY <1>1, <2>1, <2>4 DEF SealingInv
  <2>5. OnlyContinuation(s, b, y.nextSequence, MessageOf(t), EndOf(t))'
    BY <1>4, <2>2
  <2>6. OnlyContinuation(s, known[s], y.nextSequence, MessageOf(t), EndOf(t))'
    BY <1>3, <2>4, <2>5
  <2>3. /\ MessageOf(t) \in 1..Len(sent[s])
        /\ EndOf(t) \in 1..(sent[s][MessageOf(t)].length - 1)
    BY <1>1, <2>1, GenuineParts DEF Genuine, Completes, LengthOf
  <2> QED
    BY <2>1, <2>3, <2>6
<1>13. ASSUME NEW o \in DOMAIN handedUp'[s]
       PROVE  handedUp'[s][o] = 1 /\ PassedOnByRefusedTag(s, o)'
  <2>1. CASE o \in DOMAIN handedUp[s]
    <3>1. PICK u \in Tags :
            /\ SenderOf(u) = s /\ Completes(u) /\ o = SentPayload(s, MessageOf(u))
            /\ BootOf(u) <= known[s]
            /\ BootOf(u) = known[s] => Refused(window[s], NumberOf(u))
      BY <1>1, <2>1 DEF ReceivingInv, PassedOnByRefusedTag
    <3>2. NumberOf(u) \in SequenceNumber
      BY TagParts
    <3>3. BootOf(u) = known[s] => Refused(window'[s], NumberOf(u))
      BY <1>10, <3>1, <3>2
    <3>4. PassedOnByRefusedTag(s, o)'
      BY <1>3, <1>4, <3>1, <3>3 DEF PassedOnByRefusedTag, Refused
    <3>5. handedUp[s][o] = 1
      BY <1>1, <2>1 DEF ReceivingInv
    <3>6. handedUp'[s][o] = handedUp[s][o]
      BY <1>9, <1>11, <2>1 DEF HandUp
    <3> QED
      BY <3>4, <3>5, <3>6
  <2>2. CASE o \notin DOMAIN handedUp[s]
    <3>1. handedUp'[s] = HandUp(handedUp[s], p) /\ Completes(t)
      BY <1>9, <2>2
    <3>2. o = p /\ handedUp'[s][o] = 1
      BY <1>11, <2>2, <3>1 DEF HandUp
    <3>3. known'[s] = known[s] /\ BootOf(t) <= known[s]
      BY <1>1, <1>3 DEF TypeOK, Boot
    <3>4. PassedOnByRefusedTag(s, p)'
      BY <1>1, <1>4, <1>8, <1>10, <3>1, <3>3 DEF PassedOnByRefusedTag, Refused
    <3> QED
      BY <3>2, <3>4
  <2> QED
    BY <2>1, <2>2
<1>14. ASSUME NEW r \in Senders, r # s
       PROVE  /\ HoldsBeginning(r)'
              /\ \A o \in DOMAIN handedUp'[r] :
                   handedUp'[r][o] = 1 /\ PassedOnByRefusedTag(r, o)'
  <2>1. /\ reassembler'[r] = reassembler[r] /\ window'[r] = window[r]
        /\ handedUp'[r] = handedUp[r] /\ known'[r] = known[r] /\ sent' = sent
    BY <1>3, <1>7, <1>14
  <2>2. HoldsBeginning(r)'
    <3>1. PICK b, q : b = known[r] /\ q = reassembler[r].nextSequence
      OBVIOUS
    <3>2. \A m, e : OnlyContinuation(r, b, q, m, e)' <=> OnlyContinuation(r, b, q, m, e)
      BY <1>4
    <3>3. HoldsBeginning(r)
      BY DEF ReceivingInv
    <3> QED
      BY <2>1, <3>1, <3>2, <3>3 DEF HoldsBeginning
  <2>3. ASSUME NEW o \in DOMAIN handedUp[r]
        PROVE  handedUp[r][o] = 1 /\ PassedOnByRefusedTag(r, o)'
    <3>1. handedUp[r][o] = 1 /\ PassedOnByRefusedTag(r, o)
      BY DEF ReceivingInv
    <3> QED
      BY <1>4, <2>1, <3>1 DEF PassedOnByRefusedTag, Refused
  <2> QED
    BY <2>1, <2>2, <2>3
<1>15. ReceivingInv'
  BY <1>3, <1>12, <1>13, <1>14 DEF ReceivingInv
<1>16. \A o \in DOMAIN handedUp'[s] \ DOMAIN handedUp[s] : o = p
  BY <1>9 DEF HandUp
<1> QED
  BY <1>0, <1>1, <1>7, <1>8, <1>15, <1>16

-----------------------------------------------------------------------------
(* The invariant holds, and what follows from it.                           *)

\* Nothing is on the wire and nobody is at work at the start.
LEMMA LinkStarts == Init => LinkInv
<1> SUFFICES ASSUME Init PROVE LinkInv
  OBVIOUS
<1>1. TypeOK
  BY InitType
<1>2. Tags = {} /\ DOMAIN wire = {}
  BY DEF Init, Tags
<1>3. \A s \in Senders : AtWork(s)
  <2> TAKE s \in Senders
  <2>1. fragments[s].done /\ fragments[s].sequence = FirstSequence /\ Len(sent[s]) = 0
    BY DEF Init, Fragments
  <2>2. Dist(FirstSequence) = 0 /\ MaxLength * 0 = 0
    BY LinkBoundsAssumption, SequenceModulusAssumption DEF Dist, StepsFrom, SequenceNumber
  <2> QED
    BY <2>1, <2>2 DEF AtWork
<1>4. SealingInv
  BY <1>2, <1>3 DEF SealingInv, NoncesUnique, Init
<1>5. ReceivingInv
  BY DEF Init, ReceivingInv, HoldsBeginning, NewReassembler
<1> QED
  BY <1>1, <1>4, <1>5 DEF LinkInv

\* A receiver that learns of a reboot forgets what it held of the earlier boot;
\* the tags of that boot no longer open.
LEMMA LearnBootKeeps ==
  ASSUME TypeOK, SealingInv, ReceivingInv, NEW s \in Senders, LearnBoot(s)
  PROVE  ReceivingInv'
<1>1. /\ UNCHANGED <<boot, sent, fragments, wire, handedUp>> /\ Tags' = Tags
      /\ known' = [known EXCEPT ![s] = boot[s]]
      /\ window' = [window EXCEPT ![s] = Replay!New]
      /\ reassembler' = [reassembler EXCEPT ![s] = Reset(@)]
      /\ known[s] # boot[s]
  BY DEF LearnBoot, senderVars, Tags
<1>2. /\ known'[s] = boot[s] /\ known[s] < boot[s]
      /\ known[s] \in Nat /\ boot[s] \in Nat
  BY <1>1 DEF ReceivingInv, TypeOK, Boot
<1>3. ~reassembler'[s].inProgress
  <2>1. reassembler[s] \in ReassemblerOver(Byte) /\ reassembler'[s] = Reset(reassembler[s])
    BY <1>1 DEF TypeOK
  <2>2. \A r \in ReassemblerOver(Byte) : Reset(r).inProgress = FALSE
    BY DEF Reset, ReassemblerOver
  <2>3. reassembler'[s].inProgress = FALSE
    BY <2>1, <2>2
  <2> QED
    BY <2>3
<1>4. \A r \in Senders : r # s => /\ known'[r] = known[r] /\ window'[r] = window[r]
                                 /\ reassembler'[r] = reassembler[r]
  BY <1>1 DEF TypeOK
<1> SUFFICES ASSUME NEW r \in Senders
             PROVE  /\ known'[r] <= boot[r]
                    /\ HoldsBeginning(r)'
                    /\ \A p \in DOMAIN handedUp[r] :
                         handedUp[r][p] = 1 /\ PassedOnByRefusedTag(r, p)'
  BY <1>1 DEF ReceivingInv
<1>5. known'[r] <= boot[r]
  BY <1>2, <1>4 DEF ReceivingInv
<1>6. HoldsBeginning(r)'
  <2>1. CASE r = s
    BY <1>3, <2>1 DEF HoldsBeginning
  <2>2. CASE r # s
    <3>1. \A q, m, e : OnlyContinuation(r, known[r], q, m, e)'
                         <=> OnlyContinuation(r, known[r], q, m, e)
      BY <1>1, <1>4, <2>2 DEF OnlyContinuation
    <3>2. HoldsBeginning(r)
      BY DEF ReceivingInv
    <3>3. PICK q : q = reassembler[r].nextSequence
      OBVIOUS
    <3>4. \A m, e : OnlyContinuation(r, known[r], reassembler[r].nextSequence, m, e)'
                       <=> OnlyContinuation(r, known[r], q, m, e)
      BY <1>4, <2>2, <3>1, <3>3
    <3> QED
      BY <1>1, <1>4, <2>2, <3>2, <3>3, <3>4 DEF HoldsBeginning
  <2> QED
    BY <2>1, <2>2
<1>7. ASSUME NEW p \in DOMAIN handedUp[r]
      PROVE  handedUp[r][p] = 1 /\ PassedOnByRefusedTag(r, p)'
  <2>1. PICK t \in Tags :
          /\ SenderOf(t) = r /\ Completes(t) /\ p = SentPayload(r, MessageOf(t))
          /\ BootOf(t) <= known[r]
          /\ BootOf(t) = known[r] => Refused(window[r], NumberOf(t))
    BY DEF ReceivingInv, PassedOnByRefusedTag
  <2>2. /\ BootOf(t) <= known'[r]
        /\ BootOf(t) = known'[r] => Refused(window'[r], NumberOf(t))
    <3>1. CASE r = s
      <4>1. BootOf(t) \in Nat
        BY TagParts DEF Boot
      <4> QED
        BY <1>2, <2>1, <3>1, <4>1
    <3>2. CASE r # s
      BY <1>4, <2>1, <3>2
    <3> QED
      BY <3>1, <3>2
  <2>3. Completes(t)' /\ SentPayload(r, MessageOf(t))' = SentPayload(r, MessageOf(t))
    BY <1>1, <2>1 DEF Completes, LengthOf, SentPayload
  <2>4. handedUp[r][p] = 1
    BY DEF ReceivingInv
  <2> QED
    BY <1>1, <2>1, <2>2, <2>3, <2>4 DEF PassedOnByRefusedTag, Refused
<1> QED
  BY <1>5, <1>6, <1>7

\* A receiver that restarts holds nothing and remembers nothing.
LEMMA RestartKeeps ==
  ASSUME TypeOK, ReceivingInv, ReceiverRestart
  PROVE  ReceivingInv'
<1>1. known' = known /\ boot' = boot
  BY DEF ReceiverRestart, senderVars
<1>2. \A s \in Senders : ~reassembler'[s].inProgress /\ DOMAIN handedUp'[s] = {}
  BY DEF ReceiverRestart, NewReassembler
<1> QED
  BY <1>1, <1>2 DEF ReceivingInv, HoldsBeginning

\* Every step keeps the invariant, action by action.
LEMMA LinkStep ==
  ASSUME LinkInv, [Next]_vars
  PROVE  LinkInv'
<1>1. TypeOK /\ SealingInv /\ ReceivingInv /\ TypeOK'
  BY StepType DEF LinkInv
<1> SUFFICES SealingInv' /\ ReceivingInv'
  BY <1>1 DEF LinkInv
<1>2. ASSUME NEW s \in Senders, SenderStep(s) \/ Reboot(s)
      PROVE  SealingInv' /\ ReceivingInv'
  <2>1. SealingInv' /\ Grows /\ ContinuationsStay
    BY <1>1, <1>2, SubmitSeals, SendSeals, RebootSeals DEF SenderStep
  <2>2. UNCHANGED receiverVars
    BY <1>2 DEF SenderStep, Submit, SendFragment, Reboot, receiverVars
  <2> QED
    BY <1>1, <2>1, <2>2, ReceiverWaits
<1>3. ASSUME Damage
      PROVE  SealingInv' /\ ReceivingInv'
  <2>1. SealingInv' /\ Grows /\ ContinuationsStay
    BY <1>1, <1>3, DamageSeals
  <2>2. UNCHANGED receiverVars
    BY <1>3 DEF Damage
  <2> QED
    BY <1>1, <2>1, <2>2, ReceiverWaits
<1>4. ASSUME UNCHANGED senderVars, UNCHANGED wire
      PROVE  SealingInv' /\ Grows /\ ContinuationsStay
  <2>1. Tags' = Tags /\ NoncesUnique'
    BY <1>1, <1>4 DEF Tags, SealingInv, NoncesUnique
  <2> QED
    BY <1>1, <1>4, <2>1, ElsewhereSeals
<1>5. ASSUME NEW s \in Senders, LearnBoot(s)
      PROVE  SealingInv' /\ ReceivingInv'
  BY <1>1, <1>4, <1>5, LearnBootKeeps DEF LearnBoot
<1>6. ASSUME ReceiverRestart
      PROVE  SealingInv' /\ ReceivingInv'
  BY <1>1, <1>4, <1>6, RestartKeeps DEF ReceiverRestart
<1>7. ASSUME NEW i \in DOMAIN wire, Receive(i)
      PROVE  SealingInv' /\ ReceivingInv'
  <2>1. UNCHANGED senderVars /\ UNCHANGED wire
    BY <1>7 DEF Receive
  <2>2. SealingInv' /\ Grows /\ ContinuationsStay
    BY <1>4, <2>1
  <2>3. PICK d, s : d = wire[i] /\ s = d.header.sender
    OBVIOUS
  <2>4. CASE Opens(d, known[s]) /\ Judged(s, d)
    BY <1>1, <1>7, <2>2, <2>3, <2>4, ReceiveKeeps
  <2>5. CASE ~(Opens(d, known[s]) /\ Judged(s, d))
    <3>1. UNCHANGED receiverVars
      BY <1>7, <2>3, <2>5 DEF Receive, receiverVars
    <3> QED
      BY <1>1, <2>2, <3>1, ReceiverWaits
  <2> QED
    BY <2>4, <2>5
<1>8. CASE ReceiveNext \/ ReceiveAny
  <2>1. PICK i \in DOMAIN wire : Receive(i)
    BY <1>1, <1>8 DEF ReceiveNext, ReceiveAny, TypeOK
  <2> QED
    BY <1>7, <2>1
<1>9. CASE UNCHANGED vars
  <2>1. UNCHANGED senderVars /\ UNCHANGED wire /\ UNCHANGED receiverVars
    BY <1>9 DEF vars, senderVars, receiverVars
  <2>2. SealingInv' /\ Grows /\ ContinuationsStay
    BY <1>4, <2>1
  <2> QED
    BY <1>1, <2>1, <2>2, ReceiverWaits
<1> QED
  BY <1>2, <1>3, <1>5, <1>6, <1>8, <1>9 DEF Next

\* The invariant of the link: tags are genuine, and what a receiver holds or has
\* passed on was put together from them.
THEOREM LinkInvariant == Spec => []LinkInv
<1>1. Init => LinkInv
  BY LinkStarts
<1>2. LinkInv /\ [Next]_vars => LinkInv'
  BY LinkStep
<1> QED
  BY <1>1, <1>2, PTL DEF Spec

\* No nonce is used for two datagrams under one key, across reboots and senders.
THEOREM UniqueNonces == Spec => []NoncesUnique
<1>1. LinkInv => NoncesUnique
  BY DEF LinkInv, SealingInv
<1> QED
  BY <1>1, LinkInvariant, PTL

\* What a receiver passes on is exactly one message of that sender, whatever the
\* network repeats, reorders, loses or damages and whoever restarts.
THEOREM WholeMessages == Spec => []OnlyWholeMessages
<1>1. LinkInv => OnlyWholeMessages
  <2> SUFFICES ASSUME LinkInv, NEW s \in Senders, NEW p \in DOMAIN handedUp[s]
               PROVE  p \in SentPayloads(s)
    BY DEF OnlyWholeMessages
  <2>1. PICK t \in Tags : SenderOf(t) = s /\ p = SentPayload(s, MessageOf(t))
    BY DEF LinkInv, ReceivingInv, PassedOnByRefusedTag
  <2>2. MessageOf(t) \in 1..Len(sent[s])
    BY <2>1 DEF LinkInv, SealingInv, Genuine
  <2> QED
    BY <2>1, <2>2 DEF SentPayloads
<1> QED
  BY <1>1, LinkInvariant, PTL

\* No message is passed on twice in a receiver's life.
THEOREM PassedOnOnce == Spec => []HandedUpAtMostOnce
<1>1. LinkInv => HandedUpAtMostOnce
  BY DEF LinkInv, ReceivingInv, HandedUpAtMostOnce
<1> QED
  BY <1>1, LinkInvariant, PTL

\* Once the receiver knows of a reboot, nothing sent before it is passed on.
THEOREM EarlierBootsSilent == Spec => NothingFromAnEarlierBoot
<1> DEFINE OfTheKnownBoot ==
      \A s \in Senders : \A m \in 1..Len(sent[s]) :
        SentPayload(s, m) \in DOMAIN handedUp'[s] \ DOMAIN handedUp[s]
          => sent[s][m].boot = known[s]
<1>1. LinkInv /\ [Next]_vars => [OfTheKnownBoot]_vars
  <2> SUFFICES ASSUME LinkInv, Next, NEW s \in Senders, NEW m \in 1..Len(sent[s]),
                      SentPayload(s, m) \in DOMAIN handedUp'[s] \ DOMAIN handedUp[s]
               PROVE  sent[s][m].boot = known[s]
    OBVIOUS
  <2>1. TypeOK /\ SealingInv /\ ReceivingInv
    BY DEF LinkInv
  <2>2. ReceiveNext \/ ReceiveAny
    <3>1. handedUp' # handedUp
      OBVIOUS
    <3>2. ASSUME NEW q \in Senders
          PROVE  SenderStep(q) \/ Reboot(q) \/ LearnBoot(q) => handedUp' = handedUp
      BY DEF SenderStep, Submit, SendFragment, Reboot, LearnBoot, receiverVars
    <3>3. Damage => handedUp' = handedUp
      BY DEF Damage, receiverVars
    <3>4. ReceiverRestart => DOMAIN handedUp'[s] = {}
      BY DEF ReceiverRestart
    <3> QED
      BY <3>1, <3>2, <3>3, <3>4 DEF Next
  <2>3. PICK i \in DOMAIN wire : Receive(i)
    BY <2>1, <2>2 DEF ReceiveNext, ReceiveAny, TypeOK
  <2>4. PICK d, r : d = wire[i] /\ r = d.header.sender
    OBVIOUS
  <2>5. Opens(d, known[r]) /\ Judged(r, d)
    BY <2>3, <2>4 DEF Receive
  <2>6. /\ \A q \in Senders \ {r} : handedUp'[q] = handedUp[q]
        /\ \A p \in DOMAIN handedUp'[r] \ DOMAIN handedUp[r] :
             /\ p = SentPayload(r, MessageOf(d.tag)) /\ Genuine(d.tag)
             /\ BootOf(d.tag) = known[r] /\ SenderOf(d.tag) = r
    BY <2>1, <2>3, <2>4, <2>5, ReceiveKeeps
  <2>7. /\ r = s /\ SentPayload(s, m) = SentPayload(s, MessageOf(d.tag))
        /\ MessageOf(d.tag) \in 1..Len(sent[s])
        /\ sent[s][MessageOf(d.tag)].boot = known[s]
    BY <2>6 DEF Genuine
  <2>8. m = MessageOf(d.tag)
    <3>1. /\ sent[s][m].length \in Nat \ {0}
          /\ sent[s][MessageOf(d.tag)].length \in Nat \ {0}
      BY <2>1, <2>7, MessageType
    <3> QED
      BY <2>7, <3>1, PayloadNamesMessage DEF SentPayload
  <2> QED
    BY <2>7, <2>8
<1> QED
  BY <1>1, LinkInvariant, PTL DEF Spec, NothingFromAnEarlierBoot
=============================================================================
