----------------------- MODULE FragmentedStreamProofs -----------------------
(***************************************************************************)
(* What reassembly.rs promises by itself, for messages, datagrams and      *)
(* buffers of any size over any network: what a receiver passes on is one  *)
(* whole message, and what it holds is the beginning of one.               *)
(*                                                                         *)
(* The argument is about sequence numbers.  A fragment that is not first   *)
(* goes on where the number before it stopped, in the same message, so the *)
(* only fragment accept() can take for a continuation is the next one.     *)
(***************************************************************************)
EXTENDS FragmentedStream, ReassemblyLemmas

-----------------------------------------------------------------------------
(* The inductive invariant.                                                 *)

\* How many numbers the sender has used before it comes to this one.
Used(q) == StepsFrom(FirstSequence, q)

InFlight == {network[i] : i \in DOMAIN network}

\* Where in which message the payload of a fragment belongs.
MessageOf(d) == d.payload[1][1]
StartOf(d) == d.payload[1][2] - 1
EndOf(d) == StartOf(d) + Len(d.payload)

Message(m) == Payload(m, sent[m])

\* A datagram is a whole message, or a piece of one with the flags of that piece.
Genuine(d) ==
  IF d.flags.fragment
    THEN /\ MessageOf(d) \in 1..Len(sent)
         /\ StartOf(d) \in Nat /\ StartOf(d) < EndOf(d) /\ EndOf(d) <= sent[MessageOf(d)]
         /\ d.payload = Slice(Message(MessageOf(d)), StartOf(d), EndOf(d))
         /\ d.flags.first <=> StartOf(d) = 0
         /\ d.flags.last <=> EndOf(d) = sent[MessageOf(d)]
    ELSE d.payload \in SentPayloads

\* A sender at work is sending its last message, and has numbers left for it.
AtWork ==
  LET it == fragments
      n  == Len(sent)
  IN  /\ it.done => Used(it.sequence) <= (MaxLength + 1) * n
      /\ ~it.done =>
           /\ n >= 1 /\ it.payload = Message(n)
           /\ it.offset < sent[n] \/ (sent[n] = 0 /\ it.offset = 0)
           /\ it.offset > 0 => it.chunk < sent[n]
           /\ Used(it.sequence) + sent[n] - it.offset + 1 <= (MaxLength + 1) * n

\* Under number q, only the piece of message m that starts after byte e continues
\* a message, now and whatever is sent from here on.
OnlyContinuation(q, m, e) ==
  /\ \A d \in InFlight :
       (d.flags.fragment /\ ~d.flags.first /\ d.sequence = q)
         => (MessageOf(d) = m /\ StartOf(d) = e)
  /\ Used(q) <= Used(fragments.sequence)
  /\ (q = fragments.sequence /\ ~fragments.done /\ fragments.offset > 0)
       => (m = Len(sent) /\ e = fragments.offset)

\* What is held is the beginning of a message, and only its next piece fits on.
HoldsBeginning ==
  reassembler.inProgress =>
    \E m \in 1..Len(sent) : \E e \in 1..(sent[m] - 1) :
      /\ reassembler.held = Slice(Message(m), 0, e)
      /\ OnlyContinuation(reassembler.nextSequence, m, e)

StreamInv ==
  /\ TypeOK
  /\ AtWork
  /\ \A d \in InFlight : Genuine(d) /\ Used(d.sequence) < Used(fragments.sequence)
  /\ \A d \in InFlight : (d.flags.fragment /\ ~d.flags.last)
       => OnlyContinuation(WrappingNext(d.sequence), MessageOf(d), EndOf(d))
  /\ HoldsBeginning
  /\ OnlyWholeMessages

-----------------------------------------------------------------------------
(* Numbers, messages and what is in flight.                                 *)

\* Two numbers used equally late are the same number, and until the numbers run
\* out the next one is used one later.
LEMMA UsedCounts ==
  ASSUME NEW q \in SequenceNumber, NEW r \in SequenceNumber
  PROVE  /\ Used(q) \in Nat /\ Used(FirstSequence) = 0
         /\ Used(q) = Used(r) => q = r
         /\ Used(q) + 1 < SequenceModulus => Used(WrappingNext(q)) = Used(q) + 1
         /\ WrappingNext(q) \in SequenceNumber
  BY StepsCount, WrappingNextValue, BoundsAssumption DEF Used

\* A message is a sequence of bytes that say where they belong.
LEMMA PayloadType ==
  ASSUME NEW m \in 1..MaxMessages, NEW n \in Nat
  PROVE  /\ Payload(m, n) \in Seq(Byte) /\ Len(Payload(m, n)) = n
         /\ \A i \in 1..n : Payload(m, n)[i] = <<m, i>>
<1>1. \A i \in 1..n : <<m, i>> \in Byte
  BY DEF Byte
<1> QED
  BY <1>1 DEF Payload

\* A message that was sent has one of the lengths and is within the bound.
LEMMA SentType ==
  ASSUME TypeOK, NEW m \in 1..Len(sent)
  PROVE  /\ sent[m] \in Nat /\ sent[m] <= MaxLength
         /\ Message(m) \in Seq(Byte) /\ Len(Message(m)) = sent[m]
         /\ \A i \in 1..sent[m] : Message(m)[i] = <<m, i>>
         /\ Message(m) \in SentPayloads
<1>1. /\ MaxMessages \in Nat
      /\ \A length \in Lengths : length \in Nat /\ length <= MaxLength
  BY BoundsAssumption
<1>2. sent \in Seq(Lengths) /\ Len(sent) <= MaxMessages
  BY DEF TypeOK
<1>3. sent[m] \in Lengths /\ m \in 1..MaxMessages
  BY <1>1, <1>2
<1>4. sent[m] \in Nat /\ sent[m] <= MaxLength
  BY <1>1, <1>3
<1> QED
  BY <1>3, <1>4, PayloadType DEF Message, SentPayloads

\* Taking a datagram out of the network leaves the others.
LEMMA WithoutOne ==
  ASSUME TypeOK, NEW i \in 1..Len(network)
  PROVE  /\ Without(i) \in Seq(FragmentOver(Byte))
         /\ \A j \in DOMAIN Without(i) : Without(i)[j] \in InFlight
<1> DEFINE F == FragmentOver(Byte)
<1>1. network \in Seq(F)
  BY DEF TypeOK
<1> HIDE DEF F
<1>2. DOMAIN network = 1..Len(network) /\ Len(network) \in Nat
  BY <1>1
<1>3. \A j \in 1..(Len(network) - 1) :
        (IF j < i THEN j ELSE j + 1) \in DOMAIN network
  BY <1>2
<1>4. \A j \in 1..(Len(network) - 1) : Without(i)[j] \in InFlight
  BY <1>3 DEF Without, InFlight
<1>5. InFlight \subseteq F
  BY <1>1, <1>2 DEF InFlight
<1>6. Without(i) \in Seq(F) /\ DOMAIN Without(i) = 1..(Len(network) - 1)
  <2>1. Len(network) - 1 \in Nat
    BY <1>2
  <2>2. Without(i) \in [1..(Len(network) - 1) -> F]
    BY <1>4, <1>5 DEF Without
  <2> QED
    BY <2>1, <2>2
<1> QED
  BY <1>4, <1>6 DEF F

\* Whichever way the network delivers, accept() gets a datagram that was in
\* flight, and none is in flight after it that was not before.
LEMMA Deliveries ==
  ASSUME TypeOK, ReceiveInOrder \/ ReceiveReordered \/ ReceiveCopy
  PROVE  /\ \E d \in InFlight : Accept(d)
         /\ network' \in Seq(FragmentOver(Byte)) /\ InFlight' \subseteq InFlight
         /\ UNCHANGED <<ordered, sent, fragments>>
<1> DEFINE F == FragmentOver(Byte)
<1>1. network \in Seq(F) /\ DOMAIN network = 1..Len(network) /\ Len(network) \in Nat
  BY DEF TypeOK
<1> HIDE DEF F
<1>2. CASE ReceiveInOrder
  <2>1. /\ 1 \in DOMAIN network /\ Head(network) = network[1]
        /\ Tail(network) \in Seq(F) /\ Len(Tail(network)) = Len(network) - 1
        /\ \A j \in 1..(Len(network) - 1) : Tail(network)[j] = network[j + 1]
    BY <1>1, <1>2, HeadTailProperties DEF ReceiveInOrder
  <2>2. \A j \in DOMAIN network' : network'[j] \in InFlight
    <3> SUFFICES ASSUME NEW j \in DOMAIN network' PROVE network'[j] \in InFlight
      OBVIOUS
    <3>1. j \in 1..(Len(network) - 1) /\ j + 1 \in DOMAIN network
      BY <1>1, <1>2, <2>1 DEF ReceiveInOrder
    <3> QED
      BY <1>2, <2>1, <3>1 DEF ReceiveInOrder, InFlight
  <2>3. InFlight' \subseteq InFlight
    BY <2>2 DEF InFlight
  <2>4. Accept(network[1]) /\ network[1] \in InFlight
    BY <1>2, <2>1 DEF ReceiveInOrder, InFlight
  <2> QED
    BY <1>2, <2>1, <2>3, <2>4 DEF ReceiveInOrder, F
<1>3. CASE ReceiveReordered
  <2>1. PICK i \in 2..Len(network) :
          /\ Accept(network[i]) /\ network' = Without(i)
          /\ UNCHANGED <<ordered, sent, fragments>>
    BY <1>3 DEF ReceiveReordered
  <2>2. i \in 1..Len(network) /\ network[i] \in InFlight
    BY <1>1 DEF InFlight
  <2>3. network' \in Seq(F) /\ \A j \in DOMAIN network' : network'[j] \in InFlight
    BY <2>1, <2>2, WithoutOne DEF F
  <2> QED
    BY <2>1, <2>2, <2>3 DEF F, InFlight
<1>4. CASE ReceiveCopy
  <2>1. PICK i \in 1..Len(network) :
          Accept(network[i]) /\ UNCHANGED <<ordered, sent, fragments, network>>
    BY <1>4 DEF ReceiveCopy
  <2> QED
    BY <1>1, <2>1 DEF F, InFlight
<1> QED
  BY <1>2, <1>3, <1>4

\* A loss leaves the others in flight and touches neither end.
LEMMA Losses ==
  ASSUME TypeOK, Lose
  PROVE  /\ network' \in Seq(FragmentOver(Byte)) /\ InFlight' \subseteq InFlight
         /\ UNCHANGED <<ordered, sent, fragments, reassembler, verdict, handedUp>>
<1>1. PICK i \in 1..Len(network) :
        /\ network' = Without(i)
        /\ UNCHANGED <<ordered, sent, fragments, reassembler, verdict, handedUp>>
  BY DEF Lose
<1>2. /\ network' \in Seq(FragmentOver(Byte))
      /\ \A j \in DOMAIN network' : network'[j] \in InFlight
  BY <1>1, WithoutOne
<1> QED
  BY <1>1, <1>2 DEF InFlight

\* Every datagram in flight is a fragment.
LEMMA InFlightType ==
  ASSUME TypeOK
  PROVE  InFlight \subseteq FragmentOver(Byte)
<1> DEFINE F == FragmentOver(Byte)
<1>1. network \in Seq(F)
  BY DEF TypeOK
<1> HIDE DEF F
<1>2. InFlight \subseteq F
  BY <1>1 DEF InFlight
<1> QED
  BY <1>2 DEF F

\* What is put on the wire joins what is in flight.
LEMMA OneMoreInFlight ==
  ASSUME TypeOK, NEW d \in FragmentOver(Byte), network' = Append(network, d)
  PROVE  network' \in Seq(FragmentOver(Byte)) /\ InFlight' = InFlight \cup {d}
<1> DEFINE F == FragmentOver(Byte)
<1>1. network \in Seq(F) /\ d \in F
  BY DEF TypeOK
<1> HIDE DEF F
<1>2. /\ network' \in Seq(F) /\ Len(network') = Len(network) + 1
      /\ \A j \in 1..Len(network) : network'[j] = network[j]
      /\ network'[Len(network) + 1] = d /\ Len(network) \in Nat
      /\ DOMAIN network = 1..Len(network) /\ DOMAIN network' = 1..(Len(network) + 1)
  BY <1>1, AppendProperties
<1>3. \A x \in InFlight' : x \in InFlight \cup {d}
  <2> TAKE x \in InFlight'
  <2>1. PICK j \in 1..(Len(network) + 1) : x = network'[j]
    BY <1>2 DEF InFlight
  <2> QED
    BY <1>2, <2>1 DEF InFlight
<1>4. \A x \in InFlight \cup {d} : x \in InFlight'
  <2> TAKE x \in InFlight \cup {d}
  <2>1. CASE x = d
    BY <1>2, <2>1 DEF InFlight
  <2>2. CASE x \in InFlight
    <3>1. PICK j \in 1..Len(network) : x = network[j]
      BY <1>2, <2>2 DEF InFlight
    <3>2. j \in DOMAIN network' /\ x = network'[j]
      BY <1>2, <3>1
    <3> QED
      BY <3>2 DEF InFlight
  <2> QED
    BY <2>1, <2>2
<1> QED
  BY <1>2, <1>3, <1>4 DEF F

-----------------------------------------------------------------------------
(* Types.                                                                   *)

\* Init gives every variable a value of its type.
LEMMA InitType == Init => TypeOK
<1> SUFFICES ASSUME Init PROVE TypeOK
  OBVIOUS
<1>1. <<>> \in Seq(Byte) /\ <<>> \in Seq(Lengths) /\ <<>> \in Seq(FragmentOver(Byte))
      /\ Len(<<>>) = 0
  OBVIOUS
<1>2. fragments \in IteratorOver(Byte)
  BY <1>1, FragmentsType, BoundsAssumption DEF Init
<1>3. reassembler \in ReassemblerOver(Byte) /\ Len(reassembler.held) <= Capacity
  <2>1. reassembler.held = <<>> /\ reassembler \in ReassemblerOver(Byte)
    BY <1>1, SequenceModulusAssumption
       DEF Init, NewReassembler, ReassemblerOver, SequenceNumber
  <2> QED
    BY <1>1, <2>1, CapacityAssumption
<1>4. sent \in Seq(Lengths) /\ Len(sent) <= MaxMessages
  BY <1>1, BoundsAssumption DEF Init
<1>5. ordered \in BOOLEAN /\ verdict = "None" /\ handedUp = {} /\ network = <<>>
  BY DEF Init
<1> QED
  BY <1>1, <1>2, <1>3, <1>4, <1>5 DEF TypeOK

\* Accepting a datagram keeps the types of what the receiver keeps.
LEMMA AcceptKeepsType ==
  ASSUME TypeOK, NEW d \in FragmentOver(Byte), Accept(d)
  PROVE  /\ reassembler' \in ReassemblerOver(Byte) /\ Len(reassembler'.held) <= Capacity
         /\ verdict' \in AcceptVerdict
         /\ handedUp' \subseteq Seq(Byte)
<1>1. /\ reassembler' \in ReassemblerOver(Byte) /\ Len(reassembler'.held) <= Capacity
      /\ verdict' \in AcceptVerdict
  BY AcceptType DEF Accept, TypeOK
<1>2. reassembler'.held \in Seq(Byte) /\ d.payload \in Seq(Byte)
  BY <1>1 DEF ReassemblerOver, FragmentOver
<1>3. handedUp' \subseteq Seq(Byte)
  BY <1>2 DEF Accept, TypeOK
<1> QED
  BY <1>1, <1>3

\* Every step keeps the types.
LEMMA StepType == TypeOK /\ [Next]_vars => TypeOK'
<1> SUFFICES ASSUME TypeOK, [Next]_vars PROVE TypeOK'
  OBVIOUS
<1>1. ASSUME NEW length \in Lengths, NEW chunk \in Chunks, Submit(length, chunk)
      PROVE  TypeOK'
  <2>1. /\ sent \in Seq(Lengths) /\ length \in Nat /\ chunk \in Nat
        /\ Len(sent) + 1 \in 1..MaxMessages
    BY <1>1, BoundsAssumption DEF TypeOK, Submit
  <2>2. sent' \in Seq(Lengths) /\ Len(sent') = Len(sent) + 1
    BY <1>1, <2>1 DEF Submit
  <2>3. Payload(Len(sent) + 1, length) \in Seq(Byte)
    BY <2>1, PayloadType
  <2>4. fragments.sequence \in SequenceNumber
    BY DEF TypeOK, IteratorOver
  <2>5. fragments' \in IteratorOver(Byte)
    BY <1>1, <2>1, <2>3, <2>4, FragmentsType DEF Submit
  <2>6. Len(sent') <= MaxMessages
    BY <2>1, <2>2, BoundsAssumption
  <2> QED
    BY <1>1, <2>2, <2>5, <2>6 DEF Submit, TypeOK
<1>2. CASE SendFragment
  <2>1. /\ Yielded(fragments) \in FragmentOver(Byte)
        /\ Advanced(fragments) \in IteratorOver(Byte)
    BY NextFragment DEF TypeOK
  <2>2. network' \in Seq(FragmentOver(Byte))
    <3>1. PICK u : u = Yielded(fragments)
      OBVIOUS
    <3>2. network' = Append(network, u) /\ u \in FragmentOver(Byte)
      BY <1>2, <2>1, <3>1 DEF SendFragment
    <3> QED
      BY <3>2, OneMoreInFlight
  <2> QED
    BY <1>2, <2>1, <2>2 DEF SendFragment, TypeOK
<1>3. CASE ReceiveInOrder \/ ReceiveReordered \/ ReceiveCopy
  <2>1. PICK d \in InFlight : Accept(d)
    BY <1>3, Deliveries
  <2>2. /\ network' \in Seq(FragmentOver(Byte))
        /\ UNCHANGED <<ordered, sent, fragments>>
    BY <1>3, Deliveries
  <2>3. d \in FragmentOver(Byte)
    BY InFlightType
  <2>4. /\ reassembler' \in ReassemblerOver(Byte) /\ Len(reassembler'.held) <= Capacity
        /\ verdict' \in AcceptVerdict /\ handedUp' \subseteq Seq(Byte)
    BY <2>1, <2>3, AcceptKeepsType
  <2> QED
    BY <2>2, <2>4 DEF TypeOK
<1>4. CASE Lose
  <2>1. /\ network' \in Seq(FragmentOver(Byte))
        /\ UNCHANGED <<ordered, sent, fragments, reassembler, verdict, handedUp>>
    BY <1>4, Losses
  <2> QED
    BY <2>1 DEF TypeOK
<1>5. CASE UNCHANGED vars
  BY <1>5 DEF vars, TypeOK
<1> QED
  BY <1>1, <1>2, <1>3, <1>4, <1>5 DEF Next, Send

\* Every variable keeps its type, and what is held fits the buffer.
THEOREM TypeCorrect == Spec => []TypeOK
  BY InitType, StepType, PTL DEF Spec

-----------------------------------------------------------------------------
(* The sender's steps.                                                      *)

\* While the sender does nothing and the network sends nothing new, what is true
\* of numbers and of pieces stays true.
LEMMA SenderWaits ==
  ASSUME TypeOK, UNCHANGED <<sent, fragments>>, InFlight' \subseteq InFlight
  PROVE  /\ \A q, m, e : OnlyContinuation(q, m, e) => OnlyContinuation(q, m, e)'
         /\ AtWork => AtWork'
         /\ \A d \in InFlight : Genuine(d) => Genuine(d)'
         /\ SentPayloads' = SentPayloads
         /\ \A m : Message(m)' = Message(m)
<1>1. SentPayloads' = SentPayloads /\ \A m : Message(m)' = Message(m)
  BY DEF SentPayloads, Message
<1>2. AtWork => AtWork'
  BY DEF AtWork, Message
<1>3. \A q, m, e : OnlyContinuation(q, m, e) => OnlyContinuation(q, m, e)'
  BY DEF OnlyContinuation
<1>4. \A d \in InFlight : Genuine(d) => Genuine(d)'
  BY <1>1 DEF Genuine, Message
<1> QED
  BY <1>1, <1>2, <1>3, <1>4

\* A new message leaves the ones before it what they are.
LEMMA EarlierMessages ==
  ASSUME TypeOK, NEW length \in Lengths, sent' = Append(sent, length)
  PROVE  /\ Len(sent') = Len(sent) + 1 /\ Len(sent) \in Nat
         /\ sent'[Len(sent) + 1] = length
         /\ \A m \in 1..Len(sent) : /\ m \in 1..Len(sent') /\ sent'[m] = sent[m]
                                    /\ Message(m)' = Message(m)
         /\ SentPayloads \subseteq SentPayloads'
<1>1. /\ Len(sent') = Len(sent) + 1 /\ Len(sent) \in Nat
      /\ sent'[Len(sent) + 1] = length
      /\ \A m \in 1..Len(sent) : m \in 1..Len(sent') /\ sent'[m] = sent[m]
  <2>1. sent \in Seq(Lengths)
    BY DEF TypeOK
  <2> QED
    BY <2>1
<1>2. \A m \in 1..Len(sent) : Message(m)' = Message(m)
  BY <1>1 DEF Message
<1>3. SentPayloads \subseteq SentPayloads'
  BY <1>1 DEF SentPayloads
<1> QED
  BY <1>1, <1>2, <1>3

\* Handing a message to a sender whose last one is all sent.
LEMMA SubmitKeeps ==
  ASSUME StreamInv, NEW length \in Lengths, NEW chunk \in Chunks, Submit(length, chunk)
  PROVE  StreamInv'
<1>1. TypeOK /\ TypeOK'
  <2>1. TypeOK /\ Next
    BY DEF StreamInv, Next, Send
  <2> QED
    BY <2>1, StepType
<1>2. /\ fragments.done /\ sent' = Append(sent, length)
      /\ fragments' = Fragments(Payload(Len(sent) + 1, length), fragments.sequence, chunk)
      /\ UNCHANGED <<ordered, network, reassembler, verdict, handedUp>>
      /\ InFlight' = InFlight
  BY DEF Submit, InFlight
<1>3. /\ Len(sent') = Len(sent) + 1 /\ Len(sent) \in Nat
      /\ sent'[Len(sent) + 1] = length
      /\ \A m \in 1..Len(sent) : /\ m \in 1..Len(sent') /\ sent'[m] = sent[m]
                                 /\ Message(m)' = Message(m)
      /\ SentPayloads \subseteq SentPayloads'
  BY <1>1, <1>2, EarlierMessages
<1>4. PICK n, q0 : n = Len(sent) + 1 /\ q0 = fragments.sequence
  OBVIOUS
<1>5. /\ fragments'.payload = Payload(n, length) /\ fragments'.offset = 0
      /\ fragments'.sequence = q0 /\ ~fragments'.done
  BY <1>2, <1>4 DEF Fragments
<1>6. AtWork'
  <2>1. Used(q0) <= (MaxLength + 1) * Len(sent)
    BY <1>2, <1>4 DEF StreamInv, AtWork
  <2>2. length \in Nat /\ length <= MaxLength /\ MaxLength \in Nat
    BY BoundsAssumption
  <2>3. Used(q0) \in Nat
    BY <1>1, <1>4, UsedCounts DEF TypeOK, IteratorOver
  <2>4. (MaxLength + 1) * n = (MaxLength + 1) * Len(sent) + (MaxLength + 1)
    BY <1>3, <1>4, <2>2
  <2> DEFINE B == (MaxLength + 1) * Len(sent)
             C == (MaxLength + 1) * n
  <2>5. B \in Nat /\ C \in Nat
    BY <1>3, <1>4, <2>2
  <2>6. Used(q0) + length - 0 + 1 <= C
    <3> HIDE DEF B, C
    <3>1. Used(q0) <= B /\ C = B + (MaxLength + 1)
      BY <2>1, <2>4 DEF B, C
    <3> QED
      BY <2>2, <2>3, <2>5, <3>1
  <2>7. n = Len(sent') /\ n >= 1 /\ sent'[n] = length /\ fragments'.payload = Message(n)'
    BY <1>3, <1>4, <1>5 DEF Message
  <2>8. 0 < length \/ (length = 0)
    BY <2>2
  <2> HIDE DEF B
  <2> QED
    BY <1>5, <2>6, <2>7, <2>8 DEF AtWork, Message
<1>7. ASSUME NEW q, NEW m \in 1..Len(sent), NEW e, OnlyContinuation(q, m, e)
      PROVE  OnlyContinuation(q, m, e)'
  BY <1>2, <1>4, <1>5, <1>7 DEF OnlyContinuation
<1>8. ASSUME NEW d \in InFlight
      PROVE  /\ Genuine(d)' /\ Used(d.sequence) < Used(fragments'.sequence)
             /\ (d.flags.fragment /\ ~d.flags.last) =>
                  OnlyContinuation(WrappingNext(d.sequence), MessageOf(d), EndOf(d))'
  <2>1. /\ Genuine(d) /\ Used(d.sequence) < Used(q0)
        /\ (d.flags.fragment /\ ~d.flags.last) =>
                  OnlyContinuation(WrappingNext(d.sequence), MessageOf(d), EndOf(d))
    BY <1>4 DEF StreamInv
  <2>2. CASE d.flags.fragment
    <3>1. MessageOf(d) \in 1..Len(sent)
      BY <2>1, <2>2 DEF Genuine
    <3>2. Genuine(d)'
      BY <1>3, <2>1, <2>2, <3>1 DEF Genuine
    <3> QED
      BY <1>5, <1>7, <2>1, <3>1, <3>2
  <2>3. CASE ~d.flags.fragment
    BY <1>3, <1>5, <2>1, <2>3 DEF Genuine
  <2> QED
    BY <2>2, <2>3
<1>9. HoldsBeginning'
  <2> SUFFICES ASSUME reassembler.inProgress
               PROVE  \E m \in 1..Len(sent') : \E e \in 1..(sent'[m] - 1) :
                        /\ reassembler.held = Slice(Message(m)', 0, e)
                        /\ OnlyContinuation(reassembler.nextSequence, m, e)'
    BY <1>2 DEF HoldsBeginning
  <2>1. PICK m \in 1..Len(sent) : \E e \in 1..(sent[m] - 1) :
          /\ reassembler.held = Slice(Message(m), 0, e)
          /\ OnlyContinuation(reassembler.nextSequence, m, e)
    BY DEF StreamInv, HoldsBeginning
  <2>2. PICK e \in 1..(sent[m] - 1) :
          /\ reassembler.held = Slice(Message(m), 0, e)
          /\ OnlyContinuation(reassembler.nextSequence, m, e)
    BY <2>1
  <2>3. PICK q : q = reassembler.nextSequence
    OBVIOUS
  <2>4. OnlyContinuation(q, m, e)'
    BY <1>7, <2>2, <2>3
  <2>5. OnlyContinuation(reassembler.nextSequence, m, e)'
    BY <1>2, <2>3, <2>4
  <2> QED
    BY <1>3, <2>2, <2>5
<1>10. OnlyWholeMessages'
  BY <1>2, <1>3 DEF StreamInv, OnlyWholeMessages
<1> QED
  BY <1>1, <1>2, <1>6, <1>8, <1>9, <1>10 DEF StreamInv

\* A sender with a fragment to send has numbers left after it.
LEMMA NumbersLeft ==
  ASSUME StreamInv, ~fragments.done
  PROVE  Used(fragments.sequence) + 1 < SequenceModulus
<1> DEFINE n == Len(sent)
           D == Used(fragments.sequence)
           L == sent[n]
           o == fragments.offset
           B == (MaxLength + 1) * n
           C == MaxMessages * (MaxLength + 1)
<1>1. n \in 0..MaxMessages /\ MaxMessages \in Nat /\ MaxLength \in Nat
  BY BoundsAssumption DEF StreamInv, TypeOK
<1>2. /\ n >= 1 /\ D + L - o + 1 <= B
      /\ o < L \/ (L = 0 /\ o = 0)
  BY DEF StreamInv, AtWork
<1>3. L \in Nat /\ o \in Nat /\ D \in Nat
  <2>1. n \in 1..Len(sent)
    BY <1>1, <1>2
  <2>2. L \in Nat
    BY <2>1, SentType DEF StreamInv
  <2>3. fragments.sequence \in SequenceNumber /\ o \in Nat
    BY DEF StreamInv, TypeOK, IteratorOver
  <2> QED
    BY <2>2, <2>3, UsedCounts
<1>4. B \in Nat /\ C \in Nat /\ B <= C
  <2> HIDE DEF n
  <2>1. n <= MaxMessages /\ n \in Nat
    BY <1>1
  <2> QED
    BY <1>1, <2>1
<1>5. C < SequenceModulus
  BY BoundsAssumption
<1> HIDE DEF n, D, L, o, B, C
<1>6. D + 1 < SequenceModulus
  BY <1>2, <1>3, <1>4, <1>5, SequenceModulusAssumption
<1> QED
  BY <1>6 DEF D

\* What a sender at work sends next is genuine: the piece of its last message
\* that starts where it stopped, or all of it if it fits.
LEMMA NextIsGenuine ==
  ASSUME StreamInv, ~fragments.done, NEW u, u = Yielded(fragments)
  PROVE  /\ Genuine(u) /\ u \in FragmentOver(Byte)
         /\ u.sequence = fragments.sequence
         /\ u.flags.fragment =>
              /\ MessageOf(u) = Len(sent) /\ StartOf(u) = fragments.offset
              /\ EndOf(u) = ChunkEnd(fragments)
              /\ ~u.flags.first => fragments.offset > 0
              /\ ~u.flags.last => ChunkEnd(fragments) < sent[Len(sent)]
<1> DEFINE it == fragments
           n == Len(sent)
           L == sent[n]
           o == it.offset
           e == ChunkEnd(it)
           P == Message(n)
<1>1. TypeOK /\ it \in IteratorOver(Byte)
  BY DEF StreamInv, TypeOK
<1>2. /\ n >= 1 /\ it.payload = P /\ (o < L \/ (L = 0 /\ o = 0))
      /\ o > 0 => it.chunk < L
  BY DEF StreamInv, AtWork
<1>3. n \in 1..Len(sent) /\ n \in Nat
  BY <1>1, <1>2 DEF TypeOK
<1>4. /\ L \in Nat /\ P \in Seq(Byte) /\ Len(P) = L /\ P \in SentPayloads
      /\ \A i \in 1..L : P[i] = <<n, i>>
  BY <1>1, <1>3, SentType
<1>5. it.chunk \in Nat \ {0} /\ o \in Nat /\ it.sequence \in SequenceNumber
  BY <1>1 DEF IteratorOver
<1>6. /\ e \in Nat /\ e <= L /\ o <= e /\ (o < L => o < e)
      /\ L <= it.chunk => e = L
  <2>1. it.offset < Len(it.payload) \/ (Len(it.payload) = 0 /\ it.offset = 0)
    BY <1>2, <1>4
  <2>2. /\ ChunkEnd(it) \in Nat /\ ChunkEnd(it) <= Len(it.payload)
        /\ it.offset <= ChunkEnd(it)
        /\ it.offset < Len(it.payload) => it.offset < ChunkEnd(it)
        /\ Len(it.payload) <= it.chunk => ChunkEnd(it) = Len(it.payload)
    <3> HIDE DEF it
    <3> QED
      BY <1>1, <2>1, ChunkEnds
  <2> QED
    BY <1>2, <1>4, <2>2
<1>7. u \in FragmentOver(Byte)
  BY <1>1, NextFragment
<1>8. /\ u.sequence = it.sequence /\ u.flags = FragmentFlags(it)
      /\ u.payload = Slice(P, o, e)
  BY <1>2 DEF Yielded, Slice
<1>9. /\ Len(Slice(P, o, e)) = e - o /\ (o < e => Slice(P, o, e)[1] = P[o + 1])
      /\ Slice(P, 0, Len(P)) = P
  <2>1. P \in Seq(Byte) /\ o \in Nat /\ e \in Nat /\ o <= e /\ e <= Len(P)
    BY <1>4, <1>5, <1>6
  <2> HIDE DEF P, o, e, L, n, it
  <2>2. Len(Slice(P, o, e)) = e - o
    BY <2>1, Slices
  <2>3. o < e => Slice(P, o, e)[1] = P[o + 1]
    BY <2>1, Slices
  <2>4. Slice(P, 0, Len(P)) = P
    BY <2>1, Slices
  <2> QED
    BY <2>2, <2>3, <2>4
<1>10. CASE L <= it.chunk
  <2>1. FragmentFlags(it) = Unfragmented
    BY <1>2, <1>4, <1>10 DEF FragmentFlags
  <2>2. ~u.flags.fragment
    BY <1>8, <2>1 DEF Unfragmented
  <2>3. o = 0 /\ e = L
    BY <1>2, <1>4, <1>5, <1>6, <1>10
  <2>4. u.payload \in SentPayloads
    BY <1>4, <1>8, <1>9, <2>3
  <2> QED
    BY <1>7, <1>8, <2>2, <2>4 DEF Genuine
<1>11. CASE ~(L <= it.chunk)
  <2>1. FragmentFlags(it) = [fragment |-> TRUE, first |-> o = 0, last |-> e = L]
    BY <1>2, <1>4, <1>11 DEF FragmentFlags
  <2>2. /\ u.flags.fragment
        /\ u.flags.first = (o = 0) /\ u.flags.last = (e = L)
    BY <1>8, <2>1
  <2>3. o < L /\ o < e
    BY <1>2, <1>4, <1>5, <1>6, <1>11
  <2>4. u.payload[1] = <<n, o + 1>> /\ Len(u.payload) = e - o
    <3>1. o + 1 \in 1..L
      BY <1>4, <1>5, <2>3
    <3>2. u.payload[1] = P[o + 1]
      BY <1>8, <1>9, <2>3
    <3> QED
      BY <1>4, <1>8, <1>9, <3>1, <3>2
  <2>5. MessageOf(u) = n /\ StartOf(u) = o /\ EndOf(u) = e
    <3>1. o \in Nat /\ e \in Nat
      BY <1>5, <1>6
    <3> HIDE DEF o, e, n, it, L, P
    <3>2. MessageOf(u) = n
      BY <2>4 DEF MessageOf
    <3>3. StartOf(u) = o
      <4>1. u.payload[1][2] = o + 1
        BY <2>4
      <4> QED
        BY <3>1, <4>1 DEF StartOf
    <3>4. EndOf(u) = e
      BY <2>4, <3>1, <3>3 DEF EndOf
    <3> QED
      BY <3>2, <3>3, <3>4
  <2>6. Genuine(u)
    <3>1. (u.flags.first <=> StartOf(u) = 0) /\ (u.flags.last <=> EndOf(u) = L)
      BY <2>2, <2>5
    <3>2. StartOf(u) \in Nat /\ StartOf(u) < EndOf(u) /\ EndOf(u) <= L
      BY <1>5, <1>6, <2>3, <2>5
    <3>3. u.payload = Slice(Message(MessageOf(u)), StartOf(u), EndOf(u))
      BY <1>8, <2>5
    <3> QED
      BY <1>3, <2>2, <2>5, <3>1, <3>2, <3>3 DEF Genuine
  <2>7. (~u.flags.first => o > 0) /\ (~u.flags.last => e < L)
    <3>1. (~u.flags.first => o # 0) /\ (~u.flags.last => e # L)
      BY <2>2
    <3>2. o \in Nat /\ e \in Nat /\ L \in Nat /\ e <= L
      BY <1>4, <1>5, <1>6
    <3> HIDE DEF o, e, L
    <3> QED
      BY <3>1, <3>2
  <2> QED
    BY <1>7, <1>8, <2>5, <2>6, <2>7
<1> QED
  BY <1>10, <1>11

\* Sending the next fragment.
LEMMA SendKeeps ==
  ASSUME StreamInv, SendFragment
  PROVE  StreamInv'
<1>1. TypeOK /\ TypeOK'
  <2>1. TypeOK /\ Next
    BY DEF StreamInv, Next, Send
  <2> QED
    BY <2>1, StepType
<1>2. PICK u, n, q0, o, e0, L :
        /\ u = Yielded(fragments) /\ n = Len(sent) /\ q0 = fragments.sequence
        /\ o = fragments.offset /\ e0 = ChunkEnd(fragments) /\ L = sent[n]
  OBVIOUS
<1>3. /\ ~fragments.done /\ network' = Append(network, u)
      /\ fragments' = Advanced(fragments)
      /\ UNCHANGED <<ordered, sent, reassembler, verdict, handedUp>>
  BY <1>2 DEF SendFragment
<1>4. /\ Genuine(u) /\ u \in FragmentOver(Byte) /\ u.sequence = q0
      /\ u.flags.fragment => /\ MessageOf(u) = n /\ StartOf(u) = o /\ EndOf(u) = e0
                             /\ ~u.flags.first => o > 0
                             /\ ~u.flags.last => e0 < L
  BY <1>2, <1>3, NextIsGenuine
<1>5. InFlight' = InFlight \cup {u}
  BY <1>1, <1>3, <1>4, OneMoreInFlight
<1>6. /\ q0 \in SequenceNumber /\ Used(q0) \in Nat /\ WrappingNext(q0) \in SequenceNumber
      /\ Used(WrappingNext(q0)) = Used(q0) + 1
  <2>1. q0 \in SequenceNumber
    BY <1>1, <1>2 DEF TypeOK, IteratorOver
  <2>2. Used(q0) + 1 < SequenceModulus
    BY <1>2, <1>3, NumbersLeft
  <2> QED
    BY <2>1, <2>2, UsedCounts
<1>7. /\ n >= 1 /\ n \in 1..Len(sent) /\ n \in Nat /\ fragments.payload = Message(n)
      /\ Len(fragments.payload) = L /\ L \in Nat /\ o \in Nat
      /\ o < L \/ (L = 0 /\ o = 0)
      /\ Used(q0) + L - o + 1 <= (MaxLength + 1) * n
  <2>1. /\ n >= 1 /\ fragments.payload = Message(n)
        /\ o < L \/ (L = 0 /\ o = 0)
        /\ Used(q0) + L - o + 1 <= (MaxLength + 1) * n
    BY <1>2, <1>3 DEF StreamInv, AtWork
  <2>2. n \in 1..Len(sent) /\ n \in Nat
    BY <1>1, <1>2, <2>1 DEF TypeOK
  <2>3. L \in Nat /\ Len(Message(n)) = L
    BY <1>1, <1>2, <2>2, SentType
  <2>4. o \in Nat
    BY <1>1, <1>2 DEF TypeOK, IteratorOver
  <2> QED
    BY <2>1, <2>2, <2>3, <2>4
<1>8. /\ e0 \in Nat /\ e0 <= L /\ o <= e0 /\ (o < L => o < e0)
      /\ e0 < L => fragments.chunk < L
  <2>1. fragments.offset < Len(fragments.payload)
          \/ (Len(fragments.payload) = 0 /\ fragments.offset = 0)
    BY <1>2, <1>7
  <2>2. fragments \in IteratorOver(Byte)
    BY <1>1 DEF TypeOK
  <2>3. /\ ChunkEnd(fragments) \in Nat /\ ChunkEnd(fragments) <= Len(fragments.payload)
        /\ fragments.offset <= ChunkEnd(fragments)
        /\ fragments.offset < Len(fragments.payload) => fragments.offset < ChunkEnd(fragments)
        /\ ChunkEnd(fragments) < Len(fragments.payload)
             => fragments.chunk < Len(fragments.payload)
    BY <2>1, <2>2, ChunkEnds
  <2> QED
    BY <1>2, <1>7, <2>3
<1>9. /\ fragments'.payload = fragments.payload /\ fragments'.chunk = fragments.chunk
      /\ fragments'.offset = e0 /\ fragments'.sequence = WrappingNext(q0)
      /\ fragments'.done <=> e0 = L
  BY <1>1, <1>2, <1>3, <1>7, AdvancedParts DEF TypeOK
<1>10. AtWork'
  <2> DEFINE B == (MaxLength + 1) * n
  <2>1. B \in Nat /\ Used(q0) + L - o + 1 <= B
    BY <1>7, BoundsAssumption
  <2>2. CASE e0 = L
    <3>1. Used(q0) + 1 <= B
      <4> HIDE DEF B
      <4> QED
        BY <1>6, <1>7, <2>1
    <3>2. Used(fragments'.sequence) <= B /\ fragments'.done
      BY <1>6, <1>9, <2>2, <3>1
    <3> QED
      BY <1>2, <1>3, <3>2 DEF AtWork
  <2>3. CASE e0 # L
    <3>1. e0 < L /\ fragments'.chunk < L /\ ~fragments'.done /\ o < e0
      BY <1>7, <1>8, <1>9, <2>3
    <3>2. Used(q0) + 1 + L - e0 + 1 <= B
      <4> HIDE DEF B
      <4> QED
        BY <1>6, <1>7, <1>8, <2>1, <3>1
    <3>3. Used(fragments'.sequence) + L - e0 + 1 <= B
      BY <1>6, <1>9, <3>2
    <3>4. fragments'.payload = Message(n)'
      BY <1>3, <1>7, <1>9 DEF Message
    <3> QED
      BY <1>2, <1>3, <1>7, <1>9, <3>1, <3>3, <3>4 DEF AtWork, Message
  <2> QED
    BY <2>2, <2>3
<1>11. ASSUME NEW d \in InFlight \cup {u}
       PROVE  Genuine(d)' /\ Used(d.sequence) < Used(fragments'.sequence)
  <2>1. Genuine(d)
    BY <1>4 DEF StreamInv
  <2>2. Genuine(d)'
    BY <1>3, <2>1 DEF Genuine, Message, SentPayloads
  <2>3. Used(d.sequence) < Used(q0) \/ Used(d.sequence) = Used(q0)
    BY <1>2, <1>4 DEF StreamInv
  <2>4. d.sequence \in SequenceNumber
    BY <1>1, <1>4, InFlightType DEF FragmentOver
  <2>5. Used(d.sequence) \in Nat
    BY <2>4, UsedCounts
  <2> QED
    BY <1>6, <1>9, <2>2, <2>3, <2>5
<1>12. ASSUME NEW q \in SequenceNumber, NEW m, NEW e, OnlyContinuation(q, m, e)
       PROVE  OnlyContinuation(q, m, e)'
  <2>1. Used(q) \in Nat /\ Used(q) <= Used(q0)
    BY <1>2, <1>12, UsedCounts DEF OnlyContinuation
  <2>2. ASSUME NEW d \in InFlight \cup {u}, d.flags.fragment, ~d.flags.first, d.sequence = q
        PROVE  MessageOf(d) = m /\ StartOf(d) = e
    <3>1. CASE d \in InFlight
      BY <1>12, <2>2, <3>1 DEF OnlyContinuation
    <3>2. CASE d = u
      <4>1. q = q0 /\ o > 0 /\ MessageOf(d) = n /\ StartOf(d) = o
        BY <1>4, <2>2, <3>2
      <4> QED
        BY <1>2, <1>3, <1>12, <4>1 DEF OnlyContinuation
    <3> QED
      BY <2>2, <3>1, <3>2
  <2>3. Used(q) <= Used(fragments'.sequence) /\ q # fragments'.sequence
    BY <1>6, <1>9, <2>1
  <2> QED
    BY <1>5, <2>2, <2>3 DEF OnlyContinuation
<1>13. ASSUME u.flags.fragment, ~u.flags.last
       PROVE  OnlyContinuation(WrappingNext(q0), n, e0)'
  <2>1. ASSUME NEW d \in InFlight \cup {u}, d.sequence = WrappingNext(q0)
        PROVE  FALSE
    <3>1. Used(d.sequence) < Used(q0) \/ d.sequence = q0
      BY <1>2, <1>4 DEF StreamInv
    <3> QED
      BY <1>6, <2>1, <3>1
  <2>2. Used(WrappingNext(q0)) <= Used(fragments'.sequence)
    BY <1>6, <1>9
  <2> QED
    BY <1>2, <1>3, <1>5, <1>9, <2>1, <2>2 DEF OnlyContinuation
<1>14. ASSUME NEW d \in InFlight \cup {u}, d.flags.fragment, ~d.flags.last
       PROVE  OnlyContinuation(WrappingNext(d.sequence), MessageOf(d), EndOf(d))'
  <2>1. CASE d \in InFlight
    <3>1. WrappingNext(d.sequence) \in SequenceNumber
      BY <1>1, <2>1, InFlightType, WrappingNextValue DEF FragmentOver
    <3>2. OnlyContinuation(WrappingNext(d.sequence), MessageOf(d), EndOf(d))
      BY <1>14, <2>1 DEF StreamInv
    <3> QED
      BY <1>12, <3>1, <3>2
  <2>2. CASE d = u
    BY <1>4, <1>13, <1>14, <2>2
  <2> QED
    BY <2>1, <2>2
<1>15. HoldsBeginning'
  <2> SUFFICES ASSUME reassembler.inProgress
               PROVE  \E m \in 1..Len(sent) : \E e \in 1..(sent[m] - 1) :
                        /\ reassembler.held = Slice(Message(m), 0, e)
                        /\ OnlyContinuation(reassembler.nextSequence, m, e)'
    BY <1>3 DEF HoldsBeginning, Message
  <2>1. PICK m \in 1..Len(sent) : \E e \in 1..(sent[m] - 1) :
          /\ reassembler.held = Slice(Message(m), 0, e)
          /\ OnlyContinuation(reassembler.nextSequence, m, e)
    BY DEF StreamInv, HoldsBeginning
  <2>2. PICK e \in 1..(sent[m] - 1) :
          /\ reassembler.held = Slice(Message(m), 0, e)
          /\ OnlyContinuation(reassembler.nextSequence, m, e)
    BY <2>1
  <2>3. PICK q : q = reassembler.nextSequence
    OBVIOUS
  <2>4. q \in SequenceNumber
    BY <1>1, <2>3 DEF TypeOK, ReassemblerOver
  <2>5. OnlyContinuation(q, m, e)'
    BY <1>12, <2>2, <2>3, <2>4
  <2>6. OnlyContinuation(reassembler.nextSequence, m, e)'
    BY <1>3, <2>3, <2>5
  <2> QED
    BY <2>2, <2>6
<1>16. OnlyWholeMessages'
  BY <1>3 DEF StreamInv, OnlyWholeMessages, SentPayloads
<1> QED
  BY <1>1, <1>5, <1>10, <1>11, <1>14, <1>15, <1>16 DEF StreamInv

-----------------------------------------------------------------------------
(* The receiver's step.                                                     *)

\* What accept() makes of a datagram in flight: a whole message, a longer
\* beginning of the message it belongs to, or nothing.
LEMMA AcceptedPiece ==
  ASSUME StreamInv, NEW d \in InFlight,
         NEW v, v = AcceptVerdictOf(reassembler, d),
         NEW r, r = AfterAccept(reassembler, d)
  PROVE  /\ v = "Whole" => d.payload \in SentPayloads
         /\ v = "Complete" => r.held \in SentPayloads
         /\ r.inProgress =>
              /\ d.flags.fragment /\ ~d.flags.last
              /\ r.held = Slice(Message(MessageOf(d)), 0, EndOf(d))
              /\ r.nextSequence = WrappingNext(d.sequence)
<1> DEFINE m == MessageOf(d)
           a == StartOf(d)
           e == EndOf(d)
           P == Message(m)
<1>1. /\ TypeOK /\ d \in FragmentOver(Byte) /\ reassembler \in ReassemblerOver(Byte)
      /\ Genuine(d)
  BY InFlightType DEF StreamInv, TypeOK
<1>2. v = "Whole" => d.payload \in SentPayloads
  BY <1>1 DEF AcceptVerdictOf, Genuine
<1>3. ASSUME v \notin {"Held", "Complete"}
      PROVE  ~r.inProgress
  <2>1. r = Reset(reassembler)
    BY <1>3 DEF AfterAccept, AcceptVerdictOf
  <2> QED
    BY <1>1, <2>1, ResetParts
<1>4. ASSUME v \in {"Held", "Complete"}
      PROVE  /\ v = "Complete" => r.held \in SentPayloads
             /\ d.flags.fragment /\ (r.inProgress => ~d.flags.last)
             /\ r.held = Slice(P, 0, e)
             /\ r.nextSequence = WrappingNext(d.sequence)
  <2>1. /\ d.flags.fragment /\ Continues(reassembler, d.sequence, d.flags)
        /\ v = "Complete" <=> d.flags.last
    BY <1>4 DEF AcceptVerdictOf
  <2>2. /\ r.held = Lengthened(reassembler, d)
        /\ r.nextSequence = WrappingNext(d.sequence)
        /\ r.inProgress <=> ~d.flags.last
    BY <1>4, Taken
  <2>3. /\ m \in 1..Len(sent) /\ a \in Nat /\ a < e /\ e <= sent[m]
        /\ d.payload = Slice(P, a, e)
        /\ d.flags.first <=> a = 0
        /\ d.flags.last <=> e = sent[m]
    BY <1>1, <2>1 DEF Genuine
  <2>4. /\ P \in Seq(Byte) /\ Len(P) = sent[m] /\ sent[m] \in Nat /\ P \in SentPayloads
    <3> HIDE DEF m
    <3> QED
      BY <1>1, <2>3, SentType
  <2>5. e \in Nat /\ a <= e
    <3>1. Len(d.payload) \in Nat
      BY <1>1 DEF FragmentOver
    <3> QED
      BY <2>3, <3>1 DEF EndOf
  <2>6. /\ Continued(P, a, e) = Slice(P, 0, e)
        /\ Slice(P, 0, Len(P)) = P /\ Slice(P, 0, e) \in Seq(Byte)
    <3>0. 0 \in Nat /\ 0 <= e
      BY <2>5
    <3>1. P \in Seq(Byte) /\ a \in Nat /\ e \in Nat /\ a <= e /\ e <= Len(P)
      BY <2>4, <2>3, <2>5
    <3> HIDE DEF P, a, e, m
    <3>2. Continued(P, a, e) = Slice(P, 0, e)
      BY <3>1, Slices
    <3>3. Slice(P, 0, Len(P)) = P
      BY <3>1, Slices
    <3>4. Slice(P, 0, e) \in Seq(Byte)
      BY <3>0, <3>1, Slices
    <3> QED
      BY <3>2, <3>3, <3>4
  <2>7. r.held = Slice(P, 0, e)
    <3>1. CASE d.flags.first
      <4>1. Base(reassembler, d.flags) = <<>>
        BY <1>1, <3>1, ResetParts DEF Base
      <4>2. d.payload = Slice(P, 0, e)
        BY <2>3, <3>1
      <4>3. <<>> \o d.payload = d.payload
        <5>1. d.payload \in Seq(Byte)
          BY <1>1 DEF FragmentOver
        <5> QED
          BY <5>1
      <4> QED
        BY <2>2, <4>1, <4>2, <4>3 DEF Lengthened
    <3>2. CASE ~d.flags.first
      <4>1. reassembler.inProgress /\ d.sequence = reassembler.nextSequence
        BY <2>1, <3>2 DEF Continues
      <4>2. PICK n \in 1..Len(sent) : \E k \in 1..(sent[n] - 1) :
              /\ reassembler.held = Slice(Message(n), 0, k)
              /\ OnlyContinuation(reassembler.nextSequence, n, k)
        BY <4>1 DEF StreamInv, HoldsBeginning
      <4>3. PICK k \in 1..(sent[n] - 1) :
              /\ reassembler.held = Slice(Message(n), 0, k)
              /\ OnlyContinuation(reassembler.nextSequence, n, k)
        BY <4>2
      <4>4. m = n /\ a = k
        BY <2>1, <3>2, <4>1, <4>3 DEF OnlyContinuation
      <4>5. Base(reassembler, d.flags) = Slice(P, 0, a)
        BY <3>2, <4>3, <4>4 DEF Base
      <4> QED
        BY <2>2, <2>3, <2>6, <4>5 DEF Lengthened, Continued
    <3> QED
      BY <3>1, <3>2
  <2>8. v = "Complete" => r.held \in SentPayloads
    BY <2>1, <2>3, <2>4, <2>6, <2>7
  <2> QED
    BY <2>1, <2>2, <2>7, <2>8
<1> QED
  BY <1>2, <1>3, <1>4

\* Whatever the network delivers, only whole messages are passed on, and what is
\* held stays the beginning of one.
LEMMA ReceiveKeeps ==
  ASSUME StreamInv, ReceiveInOrder \/ ReceiveReordered \/ ReceiveCopy
  PROVE  StreamInv'
<1>1. TypeOK /\ TypeOK'
  <2>1. TypeOK /\ Next
    BY DEF StreamInv, Next
  <2> QED
    BY <2>1, StepType
<1>2. PICK d \in InFlight : Accept(d)
  BY <1>1, Deliveries
<1>3. InFlight' \subseteq InFlight /\ UNCHANGED <<ordered, sent, fragments>>
  BY <1>1, Deliveries
<1>4. /\ \A q, m, e : OnlyContinuation(q, m, e) => OnlyContinuation(q, m, e)'
      /\ AtWork' /\ SentPayloads' = SentPayloads
      /\ \A x \in InFlight : Genuine(x)'
      /\ \A m : Message(m)' = Message(m)
  BY <1>1, <1>3, SenderWaits DEF StreamInv
<1>5. PICK v, r : v = AcceptVerdictOf(reassembler, d) /\ r = AfterAccept(reassembler, d)
  OBVIOUS
<1>6. /\ v = "Whole" => d.payload \in SentPayloads
      /\ v = "Complete" => r.held \in SentPayloads
      /\ r.inProgress =>
           /\ d.flags.fragment /\ ~d.flags.last
           /\ r.held = Slice(Message(MessageOf(d)), 0, EndOf(d))
           /\ r.nextSequence = WrappingNext(d.sequence)
  BY <1>5, AcceptedPiece
<1>7. /\ reassembler' = r /\ verdict' = v
      /\ handedUp' = handedUp \cup
           CASE v = "Whole"    -> {d.payload}
             [] v = "Complete" -> {r.held}
             [] OTHER          -> {}
  BY <1>2, <1>5 DEF Accept
<1>8. OnlyWholeMessages'
  BY <1>4, <1>6, <1>7 DEF StreamInv, OnlyWholeMessages
<1>9. HoldsBeginning'
  <2> SUFFICES ASSUME r.inProgress
               PROVE  \E m \in 1..Len(sent) : \E e \in 1..(sent[m] - 1) :
                        /\ r.held = Slice(Message(m), 0, e)
                        /\ OnlyContinuation(r.nextSequence, m, e)'
    BY <1>3, <1>4, <1>7 DEF HoldsBeginning
  <2>1. PICK m, e, q : m = MessageOf(d) /\ e = EndOf(d) /\ q = WrappingNext(d.sequence)
    OBVIOUS
  <2>2. /\ r.held = Slice(Message(m), 0, e) /\ r.nextSequence = q
        /\ OnlyContinuation(q, m, e)
    BY <1>6, <2>1 DEF StreamInv
  <2>3. OnlyContinuation(q, m, e)'
    BY <1>4, <2>2
  <2>4. m \in 1..Len(sent) /\ e \in 1..(sent[m] - 1)
    <3>1. /\ m \in 1..Len(sent) /\ StartOf(d) \in Nat /\ StartOf(d) < e /\ e <= sent[m]
          /\ e # sent[m]
      BY <1>6, <2>1 DEF StreamInv, Genuine
    <3>2. sent[m] \in Nat
      BY <1>1, <3>1, SentType
    <3>3. e \in Nat
      <4>1. Len(d.payload) \in Nat
        BY <1>1, InFlightType DEF FragmentOver
      <4> QED
        BY <2>1, <3>1, <4>1 DEF EndOf
    <3> QED
      BY <3>1, <3>2, <3>3
  <2> QED
    BY <2>2, <2>3, <2>4
<1>10. \A x \in InFlight' :
         /\ Genuine(x)' /\ Used(x.sequence) < Used(fragments'.sequence)
         /\ (x.flags.fragment /\ ~x.flags.last)
              => OnlyContinuation(WrappingNext(x.sequence), MessageOf(x), EndOf(x))'
  <2> TAKE x \in InFlight'
  <2>1. x \in InFlight
    BY <1>3
  <2>2. PICK m, e, q : m = MessageOf(x) /\ e = EndOf(x) /\ q = WrappingNext(x.sequence)
    OBVIOUS
  <2>3. (x.flags.fragment /\ ~x.flags.last) => OnlyContinuation(q, m, e)'
    BY <1>4, <2>1, <2>2 DEF StreamInv
  <2> QED
    BY <1>3, <1>4, <2>1, <2>2, <2>3 DEF StreamInv
<1> QED
  BY <1>1, <1>4, <1>8, <1>9, <1>10 DEF StreamInv

\* A datagram lost.
LEMMA LoseKeeps ==
  ASSUME StreamInv, Lose
  PROVE  StreamInv'
<1>1. TypeOK /\ TypeOK'
  <2>1. TypeOK /\ Next
    BY DEF StreamInv, Next
  <2> QED
    BY <2>1, StepType
<1>2. /\ InFlight' \subseteq InFlight
      /\ UNCHANGED <<ordered, sent, fragments, reassembler, verdict, handedUp>>
  BY <1>1, Losses
<1>3. /\ \A q, m, e : OnlyContinuation(q, m, e) => OnlyContinuation(q, m, e)'
      /\ AtWork' /\ SentPayloads' = SentPayloads
      /\ \A x \in InFlight : Genuine(x)'
      /\ \A m : Message(m)' = Message(m)
  BY <1>1, <1>2, SenderWaits DEF StreamInv
<1>4. OnlyWholeMessages'
  BY <1>2, <1>3 DEF StreamInv, OnlyWholeMessages
<1>5. HoldsBeginning'
  <2>1. PICK q : q = reassembler.nextSequence
    OBVIOUS
  <2>2. \A m, e : OnlyContinuation(q, m, e) => OnlyContinuation(q, m, e)'
    BY <1>3
  <2> QED
    BY <1>2, <1>3, <2>1, <2>2 DEF StreamInv, HoldsBeginning
<1>6. \A x \in InFlight' :
         /\ Genuine(x)' /\ Used(x.sequence) < Used(fragments'.sequence)
         /\ (x.flags.fragment /\ ~x.flags.last)
              => OnlyContinuation(WrappingNext(x.sequence), MessageOf(x), EndOf(x))'
  <2> TAKE x \in InFlight'
  <2>1. x \in InFlight
    BY <1>2
  <2>2. PICK m, e, q : m = MessageOf(x) /\ e = EndOf(x) /\ q = WrappingNext(x.sequence)
    OBVIOUS
  <2>3. (x.flags.fragment /\ ~x.flags.last) => OnlyContinuation(q, m, e)'
    BY <1>3, <2>1, <2>2 DEF StreamInv
  <2> QED
    BY <1>2, <1>3, <2>1, <2>2, <2>3 DEF StreamInv
<1> QED
  BY <1>1, <1>3, <1>4, <1>5, <1>6 DEF StreamInv

-----------------------------------------------------------------------------
(* The invariant holds, and what follows from it.                           *)

\* At the start nothing is sent, in flight or held.
LEMMA StreamStarts == Init => StreamInv
<1> SUFFICES ASSUME Init PROVE StreamInv
  OBVIOUS
<1>1. TypeOK
  BY InitType
<1>2. InFlight = {} /\ ~reassembler.inProgress /\ handedUp = {} /\ sent = <<>>
  BY DEF Init, InFlight, NewReassembler
<1>3. AtWork
  <2>1. fragments.done /\ fragments.sequence = FirstSequence
    BY DEF Init, Fragments
  <2>2. Used(FirstSequence) = 0
    BY UsedCounts, BoundsAssumption
  <2>3. (MaxLength + 1) * Len(sent) = 0
    BY <1>2, BoundsAssumption
  <2> QED
    BY <2>1, <2>2, <2>3 DEF AtWork
<1> QED
  BY <1>1, <1>2, <1>3 DEF StreamInv, HoldsBeginning, OnlyWholeMessages

\* Every step keeps the invariant.
LEMMA StreamStep == StreamInv /\ [Next]_vars => StreamInv'
<1> SUFFICES ASSUME StreamInv, [Next]_vars PROVE StreamInv'
  OBVIOUS
<1>1. ASSUME NEW length \in Lengths, NEW chunk \in Chunks, Submit(length, chunk)
      PROVE  StreamInv'
  BY <1>1, SubmitKeeps
<1>2. CASE SendFragment
  BY <1>2, SendKeeps
<1>3. CASE ReceiveInOrder \/ ReceiveReordered \/ ReceiveCopy
  BY <1>3, ReceiveKeeps
<1>4. CASE Lose
  BY <1>4, LoseKeeps
<1>5. CASE UNCHANGED vars
  BY <1>5 DEF vars, StreamInv, TypeOK, AtWork, InFlight, Genuine, OnlyContinuation,
              HoldsBeginning, OnlyWholeMessages, SentPayloads, Message
<1> QED
  BY <1>1, <1>2, <1>3, <1>4, <1>5 DEF Next, Send

\* The invariant of a stream: what is in flight is genuine, and a fragment's
\* number says which fragment continues it.
THEOREM StreamInvariant == Spec => []StreamInv
  BY StreamStarts, StreamStep, PTL DEF Spec

\* A payload passed on is exactly one message of the sender, whatever is lost,
\* repeated or overtaken, without a replay window in front of the reassembler.
THEOREM WholeMessages == Spec => []OnlyWholeMessages
<1>1. StreamInv => OnlyWholeMessages
  BY DEF StreamInv
<1> QED
  BY <1>1, StreamInvariant, PTL

\* What is held fits the buffer and is a proper, non-empty beginning of one
\* message while that message is in progress.
THEOREM HeldPrefix == Spec => []HeldIsAPrefix
<1>1. StreamInv => HeldIsAPrefix
  <2> SUFFICES ASSUME StreamInv PROVE HeldIsAPrefix
    OBVIOUS
  <2>1. Len(reassembler.held) <= Capacity
    BY DEF StreamInv, TypeOK
  <2>2. ASSUME reassembler.inProgress
        PROVE  \E m \in 1..Len(sent) :
                 /\ Len(reassembler.held) \in 1..(sent[m] - 1)
                 /\ reassembler.held = Slice(Message(m), 0, Len(reassembler.held))
    <3>1. PICK m \in 1..Len(sent) : \E e \in 1..(sent[m] - 1) :
            reassembler.held = Slice(Message(m), 0, e)
      BY <2>2 DEF StreamInv, HoldsBeginning
    <3>2. PICK e \in 1..(sent[m] - 1) : reassembler.held = Slice(Message(m), 0, e)
      BY <3>1
    <3>3. Message(m) \in Seq(Byte) /\ Len(Message(m)) = sent[m] /\ sent[m] \in Nat
      BY SentType DEF StreamInv
    <3>4. 0 \in Nat /\ e \in Nat /\ 0 <= e /\ e <= Len(Message(m))
      BY <3>3
    <3>5. Len(Slice(Message(m), 0, e)) = e - 0
      BY <3>3, <3>4, Slices
    <3> QED
      BY <3>2, <3>4, <3>5
  <2> QED
    BY <2>1, <2>2 DEF HeldIsAPrefix, Slice, Message
<1> QED
  BY <1>1, StreamInvariant, PTL
=============================================================================
