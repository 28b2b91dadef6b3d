---------------------------- MODULE MCWireCodec -----------------------------
(***************************************************************************)
(* WireFormats with one message or more of every type, and programs that   *)
(* use every opcode and every pool.                                        *)
(***************************************************************************)
EXTENDS WireFormats

\* In the order of the type table.
AllTypes ==
  <<"Hello", "Caps", "Get", "Set", "Tick", "SyncReq", "SyncResp", "Activate", "Chan",
    "ChanClaim", "ChanRelease", "Frame", "SrcPush", "SrcRenew", "SrcPop", "Event",
    "StateDigest", "StatePull", "StatePush", "ProgBegin", "ProgChunk", "ProgEnd",
    "FedHello", "FedEvent", "FedCue", "ProbeSet", "ProbeData", "TimeCtl">>
Codes == [t \in MsgType |-> CHOOSE i \in 1..Len(AllTypes) : AllTypes[i] = t]

Bytes(seed, n) == [j \in 1..n |-> (seed + j) % 8]

\* The i-th field, all variable parts n long.
Sampled(f, i, n) ==
  CASE f.kind \in {"Text", "Blob"} -> Bytes(i, n)
    [] f.kind = "Items" -> [count |-> n, body |-> Bytes(i, n * f.size)]
    [] f.kind = "Choice" -> n % 4
    [] OTHER -> Bytes(i, f.size)

Named(t) == {i \in DOMAIN Layout[t] : Layout[t][i].kind # "Reserved"}

Sample(t, n) ==
  [name \in {Layout[t][i].name : i \in Named(t)} |->
     LET i == CHOOSE j \in Named(t) : Layout[t][j].name = name
     IN  Sampled(Layout[t][i], i, n)]

Regular == Laid \ {"Frame", "SrcPush", "StatePush"}

Varying(t) == \E i \in DOMAIN Layout[t] :
                Layout[t][i].kind \in {"Text", "Blob", "Items", "Choice"}

\* Lengths around the limits of a byte and of two.
Lengths(t) ==
  CASE \E i \in DOMAIN Layout[t] : Layout[t][i].kind = "Blob" -> {0, 2, U8Max + 2, U16Max + 1}
    [] \E i \in DOMAIN Layout[t] : Layout[t][i].kind = "Text" -> {0, 3, U8Max, U8Max + 1}
    [] OTHER -> IF Varying(t) THEN 0..3 ELSE {1}

RegularSamples == UNION {{<<t, Sample(t, n)>> : n \in Lengths(t)} : t \in Regular}

Frame(format, count, len) ==
  [segment_id |-> Bytes(1, 2), offset |-> Bytes(2, 2), format |-> format,
   priority |-> Bytes(4, 1), count |-> count, pixels |-> Bytes(6, len)]

\* One frame has a pixel byte too few for its count.
FrameSamples ==
  {<<"Frame", Frame(format, count, count * BytesPerPixel(format))>> :
     format \in 0..3, count \in {0, 2}} \cup {<<"Frame", Frame(2, 1, 5)>>}

Source(priority, expires, n) ==
  [source_id |-> Bytes(1, UuidLen), zone_id |-> Bytes(2, UuidLen),
   scene_id |-> Bytes(3, UuidLen), priority |-> priority, has_expiry |-> expires,
   fade_in_ms |-> Bytes(6, 2), fade_out_ms |-> Bytes(7, 2),
   expires_at |-> IF expires THEN Bytes(9, 8) ELSE <<>>, param_overrides |-> Bytes(10, n)]

SourceSamples ==
  {<<"SrcPush", Source(priority, expires, 1)>> :
     priority \in {0, AmbientFloor, AmbientFloor + 1}, expires \in BOOLEAN}

Record(n) == Bytes(3, RecordHead) \o ToBytes(n, 2) \o Bytes(5, n) \o Bytes(6, SigLen)
Records(lengths) ==
  <<"StatePush", [records |-> [count |-> Len(lengths),
                               body |-> FlattenSeq([i \in DOMAIN lengths |-> Record(lengths[i])])]]>>

RecordSamples == {Records(lengths) : lengths \in {<<>>, <<0>>, <<2, 0>>, <<1, 1, 3>>}}

Audio(extra) ==
  WriteAll(AudioLayout,
           [bands |-> Bytes(0, Bands), level |-> <<1>>, smoothed_level |-> <<2>>,
            onset |-> TRUE, confidence |-> <<3>>, beat_phase |-> <<4, 5>>, bpm_x4 |-> <<6, 7>>],
           U16Max).bytes \o extra

AudioChannels ==
  {<<"Chan", [channel_id |-> <<1, 2>>, producer_seq |-> <<3, 4>>, payload |-> Audio(extra)]>> :
     extra \in {<<>>, <<9>>}}

AllSamples == RegularSamples \cup FrameSamples \cup SourceSamples \cup RecordSamples
              \cup AudioChannels \cup {<<t, Bytes(0, 2)>> : t \in Unparsed}

-----------------------------------------------------------------------------
\* As numbered in the code, closed up.
OpCodes == [LoadK |-> 1, ChRead |-> 2, AStore |-> 3, MaskTest |-> 4, Repeat |-> 5,
            EndRep |-> 6, Call |-> 7, Ret |-> 8, Halt |-> 0]
OpCosts == [op \in Op |-> IF op = "LoadK" THEN 2 ELSE 3]

Literal(n) == <<n, 1, 0, 2>>
Palette(n) == [i \in 1..(Stops * 3) |-> Literal(n + i)]
Push(section, op, a, bc) == <<"push", section, Instr(op, a, bc)>>

Script(profile, flags, budget, calls) ==
  [profile |-> profile, reads_dt |-> flags, has_probes |-> ~flags, budget |-> budget,
   calls |-> calls]

Pools == <<<<"constant", Literal(3)>>, <<"channel", 40>>, <<"constant", Literal(5)>>,
           <<"palette", Palette(1)>>, <<"constant", Literal(3)>>, <<"channel", 2>>,
           <<"channel", 40>>, <<"palette", Palette(7)>>>>

Sections ==
  <<Push("once", "LoadK", 4, 1), Push("frame", "ChRead", 5, 0), Push("frame", "LoadK", 1, 33),
    Push("pixel", "MaskTest", 0, 1), Push("pixel", "LoadK", 2, 0), Push("pixel", "Halt", 0, 0)>>

\* One section of code, in a program of either profile.
Coded(profile, code) == Script(profile, FALSE, 0, [i \in DOMAIN code |-> <<"push", "frame", code[i]>>])

Looping == <<Instr("Repeat", 0, 2), Instr("AStore", 1, 1), Instr("EndRep", 0, 0),
             Instr("Call", 0, 4), Instr("Ret", 0, 0), Instr("MaskTest", 0, 0)>>

\* Each has one thing wrong with it.
Faulty == {<<Instr("EndRep", 0, 0), Instr("Repeat", 0, 1)>>,
           <<Instr("Repeat", 0, 1), Instr("Halt", 0, 0)>>,
           <<Instr("Call", 0, 1)>>, <<Instr("MaskTest", 0, 1)>>,
           <<Instr("MaskTest", 0, 33), Instr("Halt", 0, 0)>>}

\* An effect that reads n channels.
Reads(n) == Script("Pixel", TRUE, 7, [i \in 1..n |-> <<"channel", 30 + i>>])

AllScripts ==
  {Script("Pixel", TRUE, 0, <<>>), Script("Pixel", TRUE, 0, Pools \o Sections),
   Script("Sim", FALSE, 40, Sections \o Pools), Reads(U8Max), Reads(U8Max + 2)}
  \cup {Coded(profile, code) : profile \in {"Pixel", "Sim"}, code \in Faulty \cup {Looping}}

Changes == {0, 1, 4, 31}
NewFields == {<<0>>, <<9, 9>>}
=============================================================================
