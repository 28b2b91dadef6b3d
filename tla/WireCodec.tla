----------------------------- MODULE WireCodec ------------------------------
(***************************************************************************)
(* A sender encodes a message into a datagram, the network or a peer of    *)
(* another version changes it, and a receiver decodes it: Datagram in      *)
(* lumen-proto's lib.rs around the payloads and the header of Payloads.    *)
(***************************************************************************)
EXTENDS Payloads

CONSTANTS
  Samples,      \* the messages senders send: a set of (type, message)
  TypeCode,     \* the wire code of each message type
  TagLen,       \* TAG_LEN, 16 in the code
  Overwrites,   \* bound: the values a byte may be overwritten with
  Appends       \* bound: the byte sequences a newer peer may append

ASSUME CodecAssumption ==
  /\ TypeCode \in [MsgType -> 0..U8Max] /\ IsInjective(TypeCode)
  /\ TagLen \in Nat
  /\ \A s \in Samples : s[1] \in MsgType

VARIABLES
  sent,       \* the (type, message) last encoded
  datagram,   \* the datagram it became, as it is now
  touched,    \* what happened to it since: "Nothing", or what was done
  result      \* what the last encode or decode returned

vars == <<sent, datagram, touched, result>>

HeaderLen == FoldLeft(LAMBDA n, f : n + f.size, 0, HeaderLayout)

\* MsgType::from_u8: a code this version does not know is none.
TypeOf(code) == {t \in MsgType : TypeCode[t] = code}

\* Header::new, the sequence number and the identities being opaque.
NewHeader(t) ==
  [minor |-> 1, msg_type |-> TypeCode[t], flags |-> <<0>>,
   mesh_prefix |-> <<1, 2>>, sender_prefix |-> <<1, 2, 3, 4>>, sequence |-> <<5, 0, 0, 0>>,
   show_time_us |-> <<6, 0, 0, 0, 0, 0, 0, 0>>, payload_len |-> 0]

Tag == [i \in 1..TagLen |-> 7]

\* Datagram::encode: payload_len is recomputed from the payload.
EncodeDatagram(header, payload) ==
  IF Len(payload) > U16Max
    THEN [bytes |-> <<>>, err |-> "BlobTooLong"]
    ELSE [bytes |-> WriteAll(HeaderLayout, [header EXCEPT !.payload_len = Len(payload)],
                             HeaderLen).bytes \o payload \o Tag,
          err |-> "None"]

Framed(bytes, declared) == Len(bytes) - HeaderLen - TagLen = declared

\* Datagram::decode, then parse_payload.
DecodeDatagram(bytes) ==
  LET head == ReadAll(HeaderLayout, bytes)
  IN  CASE head.err # "None" -> Refused(head.err)
        [] head.err = "None" /\ Len(bytes) < HeaderLen + TagLen -> Refused("Truncated")
        [] /\ head.err = "None" /\ Len(bytes) >= HeaderLen + TagLen
           /\ ~Framed(bytes, head.out.payload_len) -> Refused("PayloadLenMismatch")
        [] OTHER ->
             IF TypeOf(head.out.msg_type) = {}
               THEN Refused("Ignored")
               ELSE DecodePayload(CHOOSE t \in TypeOf(head.out.msg_type) : TRUE,
                                  Slice(bytes, HeaderLen, head.out.payload_len))

PayloadBytes == Slice(datagram, HeaderLen, Len(datagram) - HeaderLen - TagLen)

-----------------------------------------------------------------------------
Nothing == <<>>

Init == /\ sent = Nothing /\ datagram = Nothing
        /\ touched = "Nothing"
        /\ result = Refused("None")

\* encode() into a buffer that is large enough or just too small, and the datagram.
\* The codec keeps nothing from one datagram to the next, so one is enough.
Send(t, m) ==
  /\ sent = Nothing
  /\ \E room \in {U16Max + 1, Len(EncodePayload(t, m, U16Max + 1).bytes) - 1} :
       LET payload == EncodePayload(t, m, room)
           framed == EncodeDatagram(NewHeader(t), payload.bytes)
       IN  IF payload.err = "None" /\ framed.err = "None"
             THEN sent' = <<t, m>> /\ datagram' = framed.bytes /\ result' = Refused("None")
             ELSE /\ UNCHANGED <<sent, datagram>>
                  /\ result' = Refused(IF payload.err # "None" THEN payload.err ELSE framed.err)
  /\ touched' = "Nothing"

\* A datagram loses its end.
CutDatagram ==
  /\ datagram # Nothing /\ touched = "Nothing"
  /\ \E n \in 1..(Len(datagram) - 1) : datagram' = SubSeq(datagram, 1, n)
  /\ touched' = "Cut"
  /\ UNCHANGED <<sent, result>>

\* A peer sends a shorter or longer payload and frames it properly.
Reframe(payload, what) ==
  /\ datagram # Nothing /\ touched = "Nothing"
  /\ datagram' = EncodeDatagram(NewHeader(sent[1]), payload).bytes
  /\ touched' = what
  /\ UNCHANGED <<sent, result>>

ShortenPayload ==
  \E n \in 0..(Len(PayloadBytes) - 1) : Reframe(SubSeq(PayloadBytes, 1, n), "Shortened")

\* A peer one minor version ahead appends a field.
AppendField == \E extra \in Appends : Reframe(PayloadBytes \o extra, "Appended")

\* A byte arrives as another: a peer that sets what is reserved here, or no
\* conforming peer at all.
Overwrite ==
  /\ datagram # Nothing /\ touched = "Nothing"
  /\ \E i \in DOMAIN datagram, v \in Overwrites :
       /\ v # datagram[i]
       /\ datagram' = [datagram EXCEPT ![i] = v]
  /\ touched' = "Overwritten"
  /\ UNCHANGED <<sent, result>>

\* Datagram::decode and parse_payload on what arrived.
Receive ==
  /\ datagram # Nothing
  /\ result' = DecodeDatagram(datagram)
  /\ datagram' = Nothing
  /\ UNCHANGED <<sent, touched>>

Next == \/ \E s \in Samples : Send(s[1], s[2])
        \/ CutDatagram \/ ShortenPayload \/ AppendField \/ Overwrite
        \/ Receive

Spec == Init /\ [][Next]_vars

-----------------------------------------------------------------------------
\* Every variable keeps the type the code gives it.
TypeOK ==
  /\ sent \in Samples \cup {Nothing}
  /\ datagram \in Seq(0..U8Max)
  /\ datagram # Nothing => sent # Nothing
  /\ touched \in {"Nothing", "Cut", "Shortened", "Appended", "Overwritten"}
  /\ result.err = "None" /\ "type" \in DOMAIN result => result.type \in MsgType

Received == datagram # Nothing /\ datagram' = Nothing
AsSent == Decoded(sent[1], sent[2])


\* A message is never decoded from a part of itself, whether the datagram lost its
\* end or the payload was framed short.
PartsAreRefused ==
  [][ Received => /\ touched = "Cut" => result'.err \in {"Truncated", "PayloadLenMismatch"}
                  /\ (touched = "Shortened" /\ sent[1] \in Laid)
                       => result'.err = "Truncated" ]_vars

\* The positions of a payload that are reserved.
FieldAt(t, k) == FoldLeft(LAMBDA n, f : n + f.size, 0, SubSeq(Layout[t], 1, k - 1))
ReservedAt(t) ==
  UNION {FieldAt(t, k) + 1 .. FieldAt(t, k) + Layout[t][k].size :
           k \in {j \in DOMAIN Layout[t] : Layout[t][j].kind = "Reserved"}}

AsEncoded == EncodeDatagram(NewHeader(sent[1]),
                            EncodePayload(sent[1], sent[2], U16Max + 1).bytes).bytes
Altered == {i \in DOMAIN datagram : datagram[i] # AsEncoded[i]}

\* The iterators hand out exactly `count` items, and leave nothing of the body.
WalksAreComplete(m, type) ==
  /\ type = "StateDigest" => Len(WalkItems(m.entries.body, UuidLen + 8)) = m.entries.count
  /\ type = "StatePull" => Len(WalkItems(m.ids.body, UuidLen)) = m.ids.count
  /\ type = "StatePush" => /\ Len(WalkRecords(m.records.body)) = m.records.count
                           /\ FlattenSeq(WalkRecords(m.records.body)) = m.records.body

\* Encoding refuses nothing that decoding lets in: whatever bytes arrived, also when
\* no peer encoded them, what was decoded from them can be sent on and then reads the
\* same, and the second walk over a counted list finds what the first one counted.
DecodedReencodes ==
  "type" \in DOMAIN result =>
    LET again == EncodePayload(result.type, result.message, U16Max + 1)
    IN  /\ again.err = "None" /\ DecodePayload(result.type, again.bytes) = result
        /\ WalksAreComplete(result.message, result.type)

AudioSamples == {s \in Samples : s[1] = "Chan" /\ Len(s[2].payload) >= AudioFrameLen}
AudioUnchanged(payload) ==
  LET audio == AudioFromPayload(payload)
  IN  /\ audio.err = "None"
      /\ WriteAll(AudioLayout, audio.message, U16Max).bytes
           = SubSeq(sent[2].payload, 1, AudioFrameLen)

\* A peer of a later minor version appended a field, or put something into bytes that
\* are reserved here.
FromNewerPeer ==
  /\ sent[1] \in Laid
  /\ \/ touched = "Appended"
     \/ touched = "Overwritten" /\ \A i \in Altered : i - HeaderLen \in ReservedAt(sent[1])

\* What encode() accepts, decode() returns unchanged, also from a peer of a later minor
\* version: every message, at every length its fields may have, and the audio frame
\* inside a CHAN.
RoundTrip ==
  [][ Received /\ (touched = "Nothing" \/ FromNewerPeer) =>
        /\ result' = AsSent
        /\ sent \in AudioSamples => AudioUnchanged(result'.message.payload) ]_vars
=============================================================================
