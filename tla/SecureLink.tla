----------------------------- MODULE SecureLink -----------------------------
(***************************************************************************)
(* The receive path lumen-proto gives a node for encrypted traffic, put    *)
(* together: senders fragment and seal (reassembly.rs, crypto.rs), the     *)
(* network repeats, reorders, loses and damages datagrams, senders reboot, *)
(* and a receiver opens, filters replays (replay.rs) and reassembles.      *)
(*                                                                         *)
(* The crate is sans-IO: it provides the steps and leaves calling them to  *)
(* a node.  The order of the calls here - open, then check(), then         *)
(* accept(), one window and one reassembler per (sender, boot) - is the    *)
(* one its documentation prescribes.                                       *)
(***************************************************************************)
EXTENDS Reassembly, FiniteSets

CONSTANTS
  Senders,         \* the sender prefixes
  WindowBits,      \* width of a replay window
  MaxLength,       \* bound: messages are 1..MaxLength bytes long
  Chunk,           \* the payload size of a datagram
  MaxMessages,     \* bound: messages of all senders
  MaxReboots,      \* bound: reboots of all senders
  MaxDamaged,      \* bound: datagrams damaged in the network
  FirstSequence    \* the number a boot starts from (0, or near the wrap)

ASSUME LinkBoundsAssumption ==
  /\ IsFiniteSet(Senders)
  /\ WindowBits \in Nat \ {0}
  /\ MaxLength \in Nat \ {0} /\ Chunk \in Nat
  /\ MaxMessages \in Nat /\ MaxReboots \in Nat /\ MaxDamaged \in Nat
  /\ FirstSequence \in SequenceNumber

\* No boot lives long enough to use a sequence number twice: in the code it
\* would have to seal 2^32 datagrams.  The numbers may still wrap.
ASSUME NumbersSufficeAssumption == MaxMessages * MaxLength < SequenceModulus

Replay == INSTANCE ReplayWindow WITH MaxSequence <- SequenceModulus - 1

VARIABLES
  ordered,      \* whether this network keeps order and loses nothing
  boot,         \* per sender: its boot counter, in NVS
  sent,         \* per sender: the messages given to it, with the boot that sent them
  fragments,    \* per sender: its Fragments iterator, in RAM
  wire,         \* every datagram put on the network, damaged copies included
  arrived,      \* the furthest position of wire received so far
  known,        \* per sender: the boot counter the receiver believes in
  window,       \* per sender: the receiver's ReplayWindow for that boot
  reassembler,  \* per sender: the receiver's Reassembler
  handedUp      \* per sender: the payloads passed on, with how often since the
                \* receiver started

vars == <<ordered, boot, sent, fragments, wire, arrived, known, window, reassembler, handedUp>>
senderVars == <<boot, sent, fragments>>
receiverVars == <<known, window, reassembler, handedUp>>

Payload(s, m, length) == [i \in 1..length |-> <<s, m, i>>]

SentPayload(s, m) == Payload(s, m, sent[s][m].length)
SentPayloads(s) == {SentPayload(s, m) : m \in 1..Len(sent[s])}

Messages == Cardinality({x \in Senders \X (1..MaxMessages) : x[2] <= Len(sent[x[1]])})
Reboots == Cardinality({x \in Senders \X (1..MaxReboots) : x[2] < boot[x[1]]})

-----------------------------------------------------------------------------
(* Sealing and opening.                                                     *)

\* Mistake: the boot counter is left out of the nonce.
NonceWithoutBoot(header, bootCounter) == <<header.sender, header.sequence>>

\* Mistake: the sender prefix is left out of the nonce.
NonceWithoutSender(header, bootCounter) == <<header.sequence, bootCounter>>

\* Header::nonce: sender_prefix, sequence and boot_counter.
Nonce(header, bootCounter) == <<header.sender, header.sequence, bootCounter>>

\* Mistake: only the fields the nonce does not cover are authenticated.
AssociatedLessFlags(header) == [header EXCEPT !.flags = Unfragmented]

\* What the tag authenticates beside the payload: the header as sent.
AssociatedData(header) == header

\* An ideal AEAD: a tag is the things it was computed from.
Tag(header, payload, bootCounter) ==
  [nonce |-> Nonce(header, bootCounter),
   associated |-> AssociatedData(header), payload |-> payload]

\* seal_in_place on one fragment.
Sealed(s, fragment, bootCounter) ==
  LET header == [sender |-> s, sequence |-> fragment.sequence, flags |-> fragment.flags]
  IN  [header |-> header, payload |-> fragment.payload,
       tag |-> Tag(header, fragment.payload, bootCounter), damaged |-> FALSE]

\* open_in_place: the tag is recomputed from the datagram as it arrived and the
\* boot counter the receiver believes in.
Opens(d, bootCounter) == d.tag = Tag(d.header, d.payload, bootCounter)

-----------------------------------------------------------------------------
\* On a network that keeps order and loses nothing no node restarts either: it
\* is the best case, in which every message has to arrive.
Init ==
  /\ ordered \in BOOLEAN
  /\ boot = [s \in Senders |-> 1]
  /\ sent = [s \in Senders |-> <<>>]
  /\ fragments = [s \in Senders |->
                    [Fragments(<<>>, FirstSequence, Chunk) EXCEPT !.done = TRUE]]
  /\ wire = <<>>
  /\ arrived = 0
  /\ known = [s \in Senders |-> 1]
  /\ window = [s \in Senders |-> Replay!New]
  /\ reassembler = [s \in Senders |-> NewReassembler]
  /\ handedUp = [s \in Senders |-> [p \in {} |-> 0]]

\* fragment(): the caller starts a message once the one before is all sent.
Submit(s, length) ==
  /\ fragments[s].done
  /\ Messages < MaxMessages
  /\ sent' = [sent EXCEPT ![s] = Append(@, [length |-> length, boot |-> boot[s]])]
  /\ fragments' = [fragments EXCEPT ![s] =
                     Fragments(Payload(s, Len(sent[s]) + 1, length), @.sequence, Chunk)]
  /\ UNCHANGED <<ordered, boot, wire, arrived, receiverVars>>

\* Fragments::next(), then seal_in_place.
SendFragment(s) ==
  /\ ~fragments[s].done
  /\ wire' = Append(wire, Sealed(s, Yielded(fragments[s]), boot[s]))
  /\ fragments' = [fragments EXCEPT ![s] = Advanced(@)]
  /\ UNCHANGED <<ordered, boot, sent, arrived, receiverVars>>

\* A sender restarts: what is in RAM is gone, the sequence starts over, and the
\* boot counter in NVS has been incremented.
Reboot(s) ==
  /\ ~ordered
  /\ Reboots < MaxReboots
  /\ boot' = [boot EXCEPT ![s] = @ + 1]
  /\ fragments' = [fragments EXCEPT ![s] =
                     [Fragments(<<>>, FirstSequence, Chunk) EXCEPT !.done = TRUE]]
  /\ UNCHANGED <<ordered, sent, wire, arrived, receiverVars>>

\* The receiver learns that a sender has rebooted: a new window for the new
\* (sender, boot), and Reassembler::reset for the old one's message.
LearnBoot(s) ==
  /\ known[s] # boot[s]
  /\ known' = [known EXCEPT ![s] = boot[s]]
  /\ window' = [window EXCEPT ![s] = Replay!New]
  /\ reassembler' = [reassembler EXCEPT ![s] = Reset(@)]
  /\ UNCHANGED <<ordered, senderVars, wire, arrived, handedUp>>

\* The receiver restarts: windows, reassemblers and its memory of what it passed
\* on were in RAM.
ReceiverRestart ==
  /\ ~ordered
  /\ window' = [s \in Senders |-> Replay!New]
  /\ reassembler' = [s \in Senders |-> NewReassembler]
  /\ handedUp' = [s \in Senders |-> [p \in {} |-> 0]]
  /\ UNCHANGED <<ordered, senderVars, wire, arrived, known>>

\* A damaged copy of a datagram joins the network.
Damaged(d) ==
  {[d EXCEPT !.header.flags.first = ~@, !.damaged = TRUE],
   [d EXCEPT !.header.flags.last = ~@, !.damaged = TRUE],
   [d EXCEPT !.header.sequence = WrappingNext(@), !.damaged = TRUE],
   [d EXCEPT !.payload = <<>>, !.damaged = TRUE]}

Damage ==
  /\ ~ordered
  /\ Cardinality({i \in DOMAIN wire : wire[i].damaged}) < MaxDamaged
  /\ \E i \in DOMAIN wire : \E d \in Damaged(wire[i]) : wire' = Append(wire, d)
  /\ UNCHANGED <<ordered, senderVars, arrived, receiverVars>>

\* Mistake: the window is consulted for fragments only.
JudgedFragmentsOnly(s, d) ==
  \/ ~d.header.flags.fragment
  \/ Replay!VerdictOf(window[s], d.header.sequence) = "Fresh"

\* Whether the replay window lets an opened datagram through.
Judged(s, d) == Replay!VerdictOf(window[s], d.header.sequence) = "Fresh"

HandUp(counts, p) == IF p \in DOMAIN counts
                       THEN [counts EXCEPT ![p] = @ + 1]
                       ELSE [q \in DOMAIN counts \cup {p} |->
                               IF q = p THEN 1 ELSE counts[q]]

\* The receiver reads the i-th datagram of the wire, in any order and as often as
\* the network likes.  What does not open or is not Fresh changes nothing.
Receive(i) ==
  LET d == wire[i]
      s == d.header.sender
      fragment == [sequence |-> d.header.sequence, flags |-> d.header.flags,
                   payload |-> d.payload]
      verdict == AcceptVerdictOf(reassembler[s], fragment)
  IN  /\ arrived' = Greater(arrived, i)
      /\ IF Opens(d, known[s]) /\ Judged(s, d)
           THEN /\ window' = [window EXCEPT ![s] = Replay!After(@, d.header.sequence)]
                /\ reassembler' = [reassembler EXCEPT ![s] = AfterAccept(@, fragment)]
                /\ handedUp' = [handedUp EXCEPT ![s] =
                     CASE verdict = "Whole"    -> HandUp(@, d.payload)
                       [] verdict = "Complete" -> HandUp(@, reassembler'[s].held)
                       [] OTHER                -> @]
           ELSE UNCHANGED <<window, reassembler, handedUp>>
      /\ UNCHANGED <<ordered, senderVars, wire, known>>

SenderStep(s) == (\E length \in 1..MaxLength : Submit(s, length)) \/ SendFragment(s)

ReceiveNext == arrived < Len(wire) /\ Receive(arrived + 1)

ReceiveAny == ~ordered /\ \E i \in DOMAIN wire : Receive(i)

Next == \/ \E s \in Senders : SenderStep(s) \/ Reboot(s) \/ LearnBoot(s)
        \/ ReceiverRestart
        \/ Damage
        \/ ReceiveNext \/ ReceiveAny

\* A sender finishes the message it started, and a receiver keeps reading.
Spec == /\ Init /\ [][Next]_vars
        /\ WF_vars(ReceiveNext)
        /\ \A s \in Senders : WF_vars(SendFragment(s))

-----------------------------------------------------------------------------
Boot == 1..(MaxReboots + 1)
Byte == Senders \X Nat \X Nat
Header == [sender : Senders, sequence : SequenceNumber, flags : Flags]
Datagram ==
  [header : Header, payload : Seq(Byte), damaged : BOOLEAN,
   tag : [nonce : Senders \X SequenceNumber \X Boot,
          associated : Header, payload : Seq(Byte)]]

\* Every variable keeps the type the code gives it.
TypeOK ==
  /\ ordered \in BOOLEAN
  /\ boot \in [Senders -> Boot] /\ known \in [Senders -> Boot]
  /\ sent \in [Senders -> Seq([length : 1..MaxLength, boot : Boot])]
  /\ fragments \in [Senders -> IteratorOver(Byte)]
  /\ wire \in Seq(Datagram) /\ arrived \in 0..Len(wire)
  /\ window \in [Senders -> Replay!Window]
  /\ reassembler \in [Senders -> ReassemblerOver(Byte)]
  /\ \A s \in Senders :
       /\ Len(sent[s]) <= MaxMessages
       /\ Len(reassembler[s].held) <= Capacity
       /\ handedUp[s] \in [DOMAIN handedUp[s] -> Nat]
  /\ DOMAIN handedUp = Senders

\* A nonce is never used for two different datagrams under one key, across
\* reboots and across senders: what Header::nonce puts the boot counter in for.
NoncesUnique ==
  \A i, j \in DOMAIN wire :
    (/\ ~wire[i].damaged /\ ~wire[j].damaged
     /\ wire[i].tag.nonce = wire[j].tag.nonce) => i = j

\* Whatever the network repeats, reorders or damages and whoever reboots, what a
\* receiver passes on is exactly one message of that sender.
OnlyWholeMessages == \A s \in Senders : DOMAIN handedUp[s] \subseteq SentPayloads(s)

\* A receiver passes each message on at most once in its life.
HandedUpAtMostOnce ==
  \A s \in Senders : \A p \in DOMAIN handedUp[s] : handedUp[s][p] <= 1

\* Once the receiver knows of a reboot, nothing sent before it is passed on any
\* more, however late it arrives.
NothingFromAnEarlierBoot ==
  [][ \A s \in Senders : \A m \in 1..Len(sent[s]) :
        SentPayload(s, m) \in DOMAIN handedUp'[s] \ DOMAIN handedUp[s]
          => sent[s][m].boot = known[s] ]_vars

\* Over a wire that keeps order, every message the receiver has room for arrives.
\* This is what reassembly.rs wraps its sequence arithmetic for.
Arrived(s, m) == /\ m <= Len(sent[s])
                 /\ SentPayload(s, m) \in DOMAIN handedUp[s]
EveryMessageArrives ==
  \A s \in Senders : \A m \in 1..MaxMessages :
    (ordered /\ m <= Len(sent[s]) /\ sent[s][m].length <= Capacity) ~> Arrived(s, m)
=============================================================================
