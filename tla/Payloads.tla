------------------------------ MODULE Payloads ------------------------------
(***************************************************************************)
(* The byte layouts of lumen-proto: the payload of every message (msg.rs), *)
(* the L1 header (header.rs), an audio frame (audio.rs) and the Reader and *)
(* Writer cursors all of them go through (buf.rs).                         *)
(*                                                                         *)
(* A layout is a sequence of fields.  decode() and encode() of a message   *)
(* are one walk over its layout, reading or writing field after field and  *)
(* stopping at the first error, as each pair in msg.rs does by hand.  What *)
(* only travels is raw bytes; what steers the decoding (lengths, counts,   *)
(* enumerations, flags) is a number.                                       *)
(***************************************************************************)
EXTENDS Integers, Sequences, FiniteSets, SequencesExt, TLC

CONSTANTS
  Base,           \* values of a byte, 256 in the code
  Minors,         \* values of version_minor, 16 in the code
  AmbientFloor,   \* AMBIENT_FLOOR_PRIORITY, 63 in the code
  UuidLen, SigLen, HashLen, Bands   \* 16, 64, 32 and 32 in the code

ASSUME LayoutAssumption ==
  /\ Base \in Nat /\ Minors \in 1..Base /\ AmbientFloor \in 0..(Base - 1)
  /\ {UuidLen, SigLen, HashLen, Bands} \subseteq Nat

U8Max == Base - 1
U16Max == Base * Base - 1

Magic == U8Max - 1
VersionMajor == 0
NotUtf8 == U8Max       \* stands for the byte sequences that are not UTF-8

-----------------------------------------------------------------------------
(* Layouts.                                                                 *)

Field(name, kind, size) == [name |-> name, kind |-> kind, size |-> size]

Opaque(name, size) == Field(name, "Opaque", size)
U8(name) == Opaque(name, 1)
U16(name) == Opaque(name, 2)
U32(name) == Opaque(name, 4)
U64(name) == Opaque(name, 8)
Uuid(name) == Opaque(name, UuidLen)
Number(name, size) == Field(name, "Number", size)
Choice(name) == Field(name, "Choice", 1)       \* an enumeration of four
Flag(name) == Field(name, "Flag", 1)           \* bit 0 of a byte of flags
Reserved(size) == Field("reserved", "Reserved", size)
Text(name) == Field(name, "Text", 1)
Blob(name) == Field(name, "Blob", 1)
Items(name, size) == Field(name, "Items", size)

TimeLayouts ==
  [Tick |-> <<U64("show_time_us"), Uuid("master_uuid"), U32("master_capacity"),
              U32("election_epoch"), U64("wall_time_us"), Choice("wall_quality"),
              Reserved(3)>>,
   SyncReq |-> <<U64("t1")>>,
   SyncResp |-> <<U64("t1"), U64("t2"), U64("t3")>>]

ChannelLayouts ==
  [Activate |-> <<U16("program_id"), U8("slot"), Reserved(1), U64("activate_at")>>,
   Chan |-> <<U16("channel_id"), U16("producer_seq"), Blob("payload")>>,
   ChanClaim |-> <<U16("channel_id"), U8("priority"), Reserved(1), U32("lease_ms")>>,
   ChanRelease |-> <<U16("channel_id"), Reserved(2)>>]

FrameLayouts ==
  [Frame |-> <<U16("segment_id"), U16("offset"), Choice("format"), U8("priority"),
               Number("count", 2), Field("pixels", "Pixels", 1)>>]

SourceLayouts ==
  [SrcPush |-> <<Uuid("source_id"), Uuid("zone_id"), Uuid("scene_id"),
                 Number("priority", 1), Flag("has_expiry"), U16("fade_in_ms"),
                 U16("fade_out_ms"), Reserved(2), Field("expires_at", "Expiry", 8),
                 Blob("param_overrides")>>,
   SrcRenew |-> <<Uuid("source_id"), U64("expires_at")>>,
   SrcPop |-> <<Uuid("source_id"), U16("fade_out_ms")>>]

EventLayout == <<Uuid("event_id"), Uuid("source_uuid"), Text("kind"),
                 U32("value"), U64("wall_time_us")>>

StateLayouts ==
  [StateDigest |-> <<Items("entries", UuidLen + 8)>>,
   StatePull |-> <<Items("ids", UuidLen)>>,
   StatePush |-> <<Field("records", "Records", 1)>>]

\* A record of a STATE_PUSH up to its body.
RecordHead == UuidLen + 1 + 8 + UuidLen

ProgramLayouts ==
  [ProgBegin |-> <<U16("program_id"), U8("slot"), U8("vm_min_version"),
                   U32("total_len"), Text("device_class")>>,
   ProgChunk |-> <<U16("program_id"), U32("offset"), Blob("data")>>,
   ProgEnd |-> <<U16("program_id"), Opaque("sha256", HashLen), Opaque("sig", SigLen)>>]

FederationLayouts ==
  [FedHello |-> <<Uuid("mesh_id"), Text("mesh_name"), U32("caps"),
                  Opaque("fed_pubkey", HashLen)>>,
   FedEvent |-> Append(EventLayout, Uuid("origin_mesh")),
   FedCue |-> <<Text("cue_name"), U64("wall_at_us"), Uuid("origin_mesh")>>]

DebugLayouts ==
  [ProbeSet |-> <<U16("program_id"), U16("probe_id"), U16("pixel_index"), Reserved(2)>>,
   ProbeData |-> <<U16("probe_id"), U16("pixel_index"), U64("frame_show_time"),
                   U32("value")>>,
   TimeCtl |-> <<Choice("mode"), Reserved(3), U32("lease_ms"), U64("target_show_time")>>]

Layout == TimeLayouts @@ ChannelLayouts @@ FrameLayouts @@ SourceLayouts
          @@ [Event |-> EventLayout] @@ StateLayouts @@ ProgramLayouts
          @@ FederationLayouts @@ DebugLayouts

Laid == DOMAIN Layout

\* Named in the type table, with no layout: the body is passed on as it is.
Unparsed == {"Hello", "Caps", "Get", "Set"}

MsgType == Laid \cup Unparsed

AudioLayout == <<Opaque("bands", Bands), U8("level"), U8("smoothed_level"), Flag("onset"),
                 U8("confidence"), U16("beat_phase"), U16("bpm_x4")>>

AudioFrameLen == Bands + 8

HeaderLayout == <<Field("magic", "Magic", 1), Field("minor", "Version", 1),
                  Number("msg_type", 1), U8("flags"), Opaque("mesh_prefix", 2),
                  Opaque("sender_prefix", 4), U32("sequence"), U64("show_time_us"),
                  Number("payload_len", 2)>>

-----------------------------------------------------------------------------
(* Numbers on the wire.                                                     *)

\* u8, and u16::from_le_bytes.
FromBytes(bytes) == IF Len(bytes) = 2 THEN bytes[1] + Base * bytes[2] ELSE bytes[1]

ToBytes(v, size) == IF size = 2 THEN <<v % Base, v \div Base>> ELSE <<v>>

Zeros(n) == [i \in 1..n |-> 0]

BytesPerPixel(format) == <<3, 4, 6, 4>>[format + 1]

Slice(bytes, at, n) == SubSeq(bytes, at + 1, at + n)

-----------------------------------------------------------------------------
(* Reader.                                                                  *)

\* Past the end of bytes: where a walk that runs out of them ends.
Beyond(bytes) == Len(bytes) + 1

\* Mistake: the probe forgets the signature.
RecordEndUnsigned(bytes, at) ==
  IF at + RecordHead + 2 > Len(bytes)
    THEN Beyond(bytes)
    ELSE at + RecordHead + 2 + FromBytes(Slice(bytes, at + RecordHead, 2))

\* Where the STATE_PUSH record that starts at `at` ends: head, blob, signature.
RecordEnd(bytes, at) ==
  IF at + RecordHead + 2 > Len(bytes)
    THEN Beyond(bytes)
    ELSE at + RecordHead + 2 + FromBytes(Slice(bytes, at + RecordHead, 2)) + SigLen

\* The ends of the first n records.
RecordEnds(bytes, n) ==
  LET end[k \in 0..n] == IF k = 0 THEN 0 ELSE RecordEnd(bytes, end[k - 1]) IN end

\* Mistake: whatever is left is taken to be the records.
RecordsLenRest(bytes, n) == Len(bytes)

\* StatePush::decode walks n records to find where they end; a record takes
\* more than a byte.
RecordsLen(bytes, n) ==
  IF n > Len(bytes) THEN Beyond(bytes) ELSE RecordEnds(bytes, n)[n]

PrefixLen(f) == CASE f.kind = "Text" -> 1
                  [] f.kind \in {"Blob", "Items", "Records"} -> 2
                  [] OTHER -> 0

\* How many bytes field f takes after its prefix, whose number is n.
BodyLen(f, s, n) ==
  CASE f.kind = "Records" -> RecordsLen(Slice(s.bytes, s.at + 2, Len(s.bytes) - s.at - 2), n)
    [] f.kind \in {"Text", "Blob", "Items"} -> n * f.size
    [] f.kind = "Pixels" -> s.out.count * BytesPerPixel(s.out.format)
    [] f.kind = "Expiry" -> IF s.out.has_expiry THEN f.size ELSE 0
    [] OTHER -> f.size

\* Mistake: a reserved byte must be zero.
ErrorOfStrict(f, body) ==
  CASE f.kind = "Reserved" /\ body # Zeros(f.size) -> "InvalidValue"
    [] f.kind = "Choice" /\ body[1] \notin 0..3 -> "InvalidValue"
    [] f.kind = "Text" /\ \E i \in DOMAIN body : body[i] = NotUtf8 -> "BadUtf8"
    [] f.kind = "Magic" /\ body[1] # Magic -> "BadMagic"
    [] f.kind = "Version" /\ body[1] \div Minors # VersionMajor -> "UnsupportedVersion"
    [] OTHER -> "None"

\* What is wrong with a field that is all there.
ErrorOf(f, body) ==
  CASE f.kind = "Choice" /\ body[1] \notin 0..3 -> "InvalidValue"
    [] f.kind = "Text" /\ \E i \in DOMAIN body : body[i] = NotUtf8 -> "BadUtf8"
    [] f.kind = "Magic" /\ body[1] # Magic -> "BadMagic"
    [] f.kind = "Version" /\ body[1] \div Minors # VersionMajor -> "UnsupportedVersion"
    [] OTHER -> "None"

ValueOf(f, n, body) ==
  CASE f.kind \in {"Number", "Choice"} -> FromBytes(body)
    [] f.kind = "Version" -> body[1] % Minors
    [] f.kind = "Flag" -> body[1] % 2 = 1
    [] f.kind \in {"Items", "Records"} -> [count |-> n, body |-> body]
    [] OTHER -> body

Reader(bytes) == [bytes |-> bytes, at |-> 0, out |-> <<>>, err |-> "None"]

\* One field: nothing is read after an error, and a Reader never runs past its end.
ReadField(s, f) ==
  LET prefix == PrefixLen(f)
      left == Len(s.bytes) - s.at
      n == FromBytes(Slice(s.bytes, s.at, prefix))
      len == BodyLen(f, s, IF prefix = 0 THEN 0 ELSE n)
      body == Slice(s.bytes, s.at + prefix, len)
  IN  CASE s.err # "None" -> s
        [] s.err = "None" /\ (left < prefix \/ left - prefix < len) ->
             [s EXCEPT !.err = "Truncated"]
        [] OTHER ->
             [s EXCEPT !.at = @ + prefix + len,
                       !.err = ErrorOf(f, body),
                       !.out = IF f.kind \in {"Reserved", "Magic"} \/ ErrorOf(f, body) # "None"
                                 THEN @ ELSE @ @@ (f.name :> ValueOf(f, n, body))]

ReadAll(layout, bytes) == FoldLeft(ReadField, Reader(bytes), layout)

-----------------------------------------------------------------------------
(* Writer.                                                                  *)

\* Why a value cannot be written whatever the room.
Unwritable(f, m) ==
  CASE f.kind = "Text" /\ Len(m[f.name]) > U8Max -> "StringTooLong"
    [] f.kind = "Blob" /\ Len(m[f.name]) > U16Max -> "BlobTooLong"
    [] f.kind \in {"Items", "Records"} /\ m[f.name].count > U16Max -> "InvalidValue"
    [] OTHER -> "None"

FieldBytes(f, m) ==
  CASE f.kind \in {"Number", "Choice"} -> ToBytes(m[f.name], f.size)
    [] f.kind = "Magic" -> <<Magic>>
    [] f.kind = "Version" -> <<(VersionMajor * Minors) + (m[f.name] % Minors)>>
    [] f.kind = "Flag" -> <<IF m[f.name] THEN 1 ELSE 0>>
    [] f.kind = "Reserved" -> Zeros(f.size)
    [] f.kind = "Text" -> <<Len(m[f.name])>> \o m[f.name]
    [] f.kind = "Blob" -> ToBytes(Len(m[f.name]), 2) \o m[f.name]
    [] f.kind \in {"Items", "Records"} -> ToBytes(m[f.name].count, 2) \o m[f.name].body
    [] OTHER -> m[f.name]

\* One field into a buffer of `room` bytes; nothing is written after an error.
WriteField(w, f, m, room) ==
  CASE w.err # "None" -> w
    [] w.err = "None" /\ Unwritable(f, m) # "None" -> [w EXCEPT !.err = Unwritable(f, m)]
    [] w.err = "None" /\ Unwritable(f, m) = "None"
       /\ Len(w.bytes) + Len(FieldBytes(f, m)) > room -> [w EXCEPT !.err = "BufferTooSmall"]
    [] OTHER -> [w EXCEPT !.bytes = @ \o FieldBytes(f, m)]

WriteAll(layout, m, room) ==
  LET step(w, f) == WriteField(w, f, m, room)
  IN  FoldLeft(step, [bytes |-> <<>>, err |-> "None"], layout)

-----------------------------------------------------------------------------
(* Payload::decode and Payload::encode.                                     *)

\* SrcPush::check_expiry: above the ambient floor a source must expire.
CheckExpiry(t, m) ==
  IF t = "SrcPush" /\ m.priority > AmbientFloor /\ ~m.has_expiry
    THEN "SourceWithoutExpiry" ELSE "None"

\* What encode() refuses before it writes.
Precheck(t, m) ==
  IF t = "Frame" /\ Len(m.pixels) # m.count * BytesPerPixel(m.format)
    THEN "InvalidValue" ELSE CheckExpiry(t, m)

Decoded(t, m) == [err |-> "None", type |-> t, message |-> m]
Refused(err) == [err |-> err]

\* Bytes after the last field are ignored.
DecodePayload(t, bytes) ==
  IF t \in Unparsed THEN Decoded(t, bytes)
  ELSE LET s == ReadAll(Layout[t], bytes)
       IN  CASE s.err # "None" -> Refused(s.err)
             [] s.err = "None" /\ CheckExpiry(t, s.out) # "None" ->
                  Refused(CheckExpiry(t, s.out))
             [] OTHER -> Decoded(t, s.out)

EncodePayload(t, m, room) ==
  CASE t \in Unparsed ->
         IF Len(m) > room THEN [bytes |-> <<>>, err |-> "BufferTooSmall"]
                          ELSE [bytes |-> m, err |-> "None"]
    [] t \in Laid /\ Precheck(t, m) # "None" -> [bytes |-> <<>>, err |-> Precheck(t, m)]
    [] OTHER -> WriteAll(Layout[t], m, room)

\* Mistake: a frame with a field appended is refused.
AudioFromPayloadExact(payload) ==
  IF Len(payload) # AudioFrameLen THEN Refused("Truncated")
  ELSE Decoded("AudioFrame", ReadAll(AudioLayout, Slice(payload, 0, AudioFrameLen)).out)

\* AudioFrame::from_payload, on the payload of a CHAN.
AudioFromPayload(payload) ==
  IF Len(payload) < AudioFrameLen THEN Refused("Truncated")
  ELSE Decoded("AudioFrame", ReadAll(AudioLayout, Slice(payload, 0, AudioFrameLen)).out)

-----------------------------------------------------------------------------
(* The iterators over what was decoded.                                     *)

\* StateDigest::entries and StatePull::ids: whole items only.
WalkItems(body, size) ==
  [k \in 1..(Len(body) \div size) |-> Slice(body, (k - 1) * size, size)]

\* StatePush::records: until nothing is left, or a record is malformed.
WalkRecords(body) ==
  LET end == RecordEnds(body, Len(body))
      whole == {k \in 1..Len(body) : end[k] <= Len(body)}
  IN  [k \in 1..Cardinality(whole) |-> Slice(body, end[k - 1], end[k] - end[k - 1])]
=============================================================================
