-------------------------- MODULE FragmentedStream --------------------------
(***************************************************************************)
(* One sender fragmenting its messages, a datagram network that loses,     *)
(* duplicates and reorders, and one receiver reassembling what arrives.    *)
(* There is no replay window here: reassembly.rs promises by itself that   *)
(* no message is ever delivered truncated or mixed with another.           *)
(***************************************************************************)
EXTENDS Reassembly

CONSTANTS
  Lengths,         \* the lengths messages may have
  MaxLength,       \* the largest of them
  Chunks,          \* the datagram payload sizes a sender may have discovered
  MaxMessages,     \* bound: messages the sender sends
  MaxInFlight,     \* bound: datagrams in the network
  FirstSequence    \* the sequence number the sender has reached at the start

ASSUME BoundsAssumption ==
  /\ MaxLength \in Nat /\ Lengths \subseteq 0..MaxLength /\ Chunks \subseteq Nat
  /\ MaxMessages \in Nat /\ MaxInFlight \in Nat \ {0}
  /\ FirstSequence \in SequenceNumber
  \* No sequence number is used twice while a datagram with it is still around.
  /\ MaxMessages * (MaxLength + 1) < SequenceModulus

VARIABLES
  ordered,      \* whether this network keeps order and loses nothing
  sent,         \* the lengths of the messages handed to the sender so far
  fragments,    \* the sender's Fragments iterator
  network,      \* the datagrams in flight, oldest first
  reassembler,  \* the receiver's Reassembler
  verdict,      \* what accept() last returned
  handedUp      \* the payloads the receiver has passed on

vars == <<ordered, sent, fragments, network, reassembler, verdict, handedUp>>

\* The i-th byte of the m-th message.
Payload(m, length) == [i \in 1..length |-> <<m, i>>]

SentPayloads == {Payload(m, sent[m]) : m \in 1..Len(sent)}

\* Some networks keep order and lose nothing: a serial link, or one switch with
\* an idle queue.
Init ==
  /\ ordered \in BOOLEAN
  /\ sent = <<>>
  /\ fragments = [Fragments(<<>>, FirstSequence, 1) EXCEPT !.done = TRUE]
  /\ network = <<>>
  /\ reassembler = NewReassembler
  /\ verdict = "None"
  /\ handedUp = {}

\* fragment(): the next message starts where the numbering of the last stopped.
Submit(length, chunk) ==
  /\ fragments.done
  /\ Len(sent) < MaxMessages
  /\ sent' = Append(sent, length)
  /\ fragments' = Fragments(Payload(Len(sent) + 1, length), fragments.sequence, chunk)
  /\ UNCHANGED <<ordered, network, reassembler, verdict, handedUp>>

\* Fragments::next(), and the datagram put on the wire.
SendFragment ==
  /\ ~fragments.done
  /\ Len(network) < MaxInFlight
  /\ network' = Append(network, Yielded(fragments))
  /\ fragments' = Advanced(fragments)
  /\ UNCHANGED <<ordered, sent, reassembler, verdict, handedUp>>

\* Reassembler::accept() on datagram d, and the caller passing on what it may.
Accept(d) ==
  /\ verdict' = AcceptVerdictOf(reassembler, d)
  /\ reassembler' = AfterAccept(reassembler, d)
  /\ handedUp' = handedUp \cup
       CASE verdict' = "Whole"    -> {d.payload}
         [] verdict' = "Complete" -> {reassembler'.held}
         [] OTHER                 -> {}

\* The network delivers its oldest datagram.
ReceiveInOrder ==
  /\ network # <<>>
  /\ Accept(Head(network))
  /\ network' = Tail(network)
  /\ UNCHANGED <<ordered, sent, fragments>>

Without(i) == [j \in 1..(Len(network) - 1) |-> network[IF j < i THEN j ELSE j + 1]]

\* The network overtakes: any datagram may come next.
ReceiveReordered ==
  ~ordered /\ \E i \in 2..Len(network) :
    /\ Accept(network[i])
    /\ network' = Without(i)
    /\ UNCHANGED <<ordered, sent, fragments>>

\* The network delivers a copy and keeps the datagram.
ReceiveCopy ==
  ~ordered /\ \E i \in 1..Len(network) :
    /\ Accept(network[i])
    /\ UNCHANGED <<ordered, sent, fragments, network>>

\* The network drops a datagram.
Lose ==
  ~ordered /\ \E i \in 1..Len(network) :
    /\ network' = Without(i)
    /\ UNCHANGED <<ordered, sent, fragments, reassembler, verdict, handedUp>>

Send == SendFragment \/ \E length \in Lengths, chunk \in Chunks : Submit(length, chunk)

Next == Send \/ ReceiveInOrder \/ ReceiveReordered \/ ReceiveCopy \/ Lose

\* A sender finishes the message it started, and a receiver keeps reading.
Spec == /\ Init /\ [][Next]_vars
        /\ WF_vars(SendFragment) /\ WF_vars(ReceiveInOrder)

-----------------------------------------------------------------------------
Byte == (1..MaxMessages) \X Nat

\* Every variable keeps the type the code gives it.
TypeOK ==
  /\ ordered \in BOOLEAN
  /\ sent \in Seq(Lengths) /\ Len(sent) <= MaxMessages
  /\ fragments \in IteratorOver(Byte)
  /\ network \in Seq(FragmentOver(Byte))
  /\ reassembler \in ReassemblerOver(Byte) /\ Len(reassembler.held) <= Capacity
  /\ verdict \in AcceptVerdict \cup {"None"}
  /\ handedUp \subseteq Seq(Byte)

\* Whatever is lost, repeated or overtaken, a payload passed on is exactly one
\* message of the sender: never a truncated one, never parts of two.
OnlyWholeMessages == handedUp \subseteq SentPayloads

\* What is held fits the buffer, and while a message is in progress it is a
\* proper, non-empty prefix of one message sent.
HeldIsAPrefix ==
  /\ Len(reassembler.held) <= Capacity
  /\ (reassembler.inProgress =>
       \E m \in 1..Len(sent) :
         /\ Len(reassembler.held) \in 1..(sent[m] - 1)
         /\ reassembler.held = SubSeq(Payload(m, sent[m]), 1, Len(reassembler.held)))

\* A message the receiver has room for arrives, on a wire that keeps order,
\* also when its fragments straddle the wrap of the sequence number.
Deliverable(m) == ordered /\ m <= Len(sent) /\ sent[m] <= Capacity
Arrived(m) == m <= Len(sent) /\ Payload(m, sent[m]) \in handedUp
EveryMessageArrives ==
  \A m \in 1..MaxMessages :
    Deliverable(m) ~> Arrived(m)

\* The documentation of Reassembler::message(): it is valid after Complete and
\* "Empty at any other time".
MessageEmptyUnlessComplete == verdict # "Complete" => reassembler.held = <<>>
=============================================================================
