---------------------------- MODULE ProgramImage ----------------------------
(***************************************************************************)
(* The program format (lumen-vm, program.rs): the emitter calls a          *)
(* ProgramBuilder, build() writes an image, the image is stored or sent    *)
(* and may be damaged on the way, and a device parses it.                  *)
(*                                                                         *)
(* The opcodes are those of Bytecode; program_id and graph_hash only       *)
(* travel.  A literal of the constant pool is its four bytes.              *)
(***************************************************************************)
EXTENDS Bytecode, Payloads

CONSTANTS
  OpCode,           \* the byte of each opcode: OpCode::to_u8
  VmVersion,        \* VM_VERSION, 1 in the code
  Stops,            \* PALETTE_STOPS, 16 in the code
  Scripts,          \* bound: what the emitter builds, a set of scripts
  ImageOverwrites   \* bound: the values a damaged byte may have

ASSUME ImageAssumption ==
  /\ OpCode \in [Op -> 0..U8Max] /\ IsInjective(OpCode)
  /\ VmVersion \in 0..U8Max /\ Stops \in Nat \ {0}

VARIABLES
  plan,      \* the script the emitter follows: the calls it has still to make
  builder,   \* the ProgramBuilder
  given,     \* the calls made that answered with an index, and the answers
  image,     \* the bytes of the program, as they are now
  damage,    \* what happened to them: "Nothing", or what was done
  loaded     \* what the last parse returned

imageVars == <<plan, builder, given, image, damage, loaded>>

Section == {"once", "frame", "pixel"}
SectionOrder == <<"once", "frame", "pixel">>
ProgramMagic == <<12, 22, 13, 0>>

\* ProgramBuilder::new
NewBuilder(profile, readsDt, probes, budget) ==
  [profile |-> profile, reads_dt |-> readsDt, has_probes |-> probes, budget |-> budget,
   channels |-> <<>>, constants |-> <<>>, palettes |-> <<>>,
   once |-> <<>>, frame |-> <<>>, pixel |-> <<>>]

-----------------------------------------------------------------------------
(* ProgramBuilder.  Indices are cut to their width with `as`.               *)

\* The first place v is at in pool, counted from 0.
PlaceIn(pool, v) == CHOOSE i \in 0..(Len(pool) - 1) :
                      pool[i + 1] = v /\ \A j \in 1..i : pool[j] # v

\* constant() and channel(): an entry that is there already is shared.
PoolIndex(pool, v) == IF Contains(pool, v) THEN PlaceIn(pool, v) ELSE Len(pool)
Pooled(pool, v) == IF Contains(pool, v) THEN pool ELSE Append(pool, v)

\* What the builder answers to a call.
Answer(b, call) ==
  CASE call[1] = "constant" -> PoolIndex(b.constants, call[2]) % (U16Max + 1)
    [] call[1] = "channel" -> PoolIndex(b.channels, call[2]) % Base
    [] call[1] = "palette" -> Len(b.palettes) % Base

\* The builder after it.
After(b, call) ==
  CASE call[1] = "constant" -> [b EXCEPT !.constants = Pooled(@, call[2])]
    [] call[1] = "channel" -> [b EXCEPT !.channels = Pooled(@, call[2])]
    [] call[1] = "palette" -> [b EXCEPT !.palettes = Append(@, call[2])]
    [] call[1] = "push" -> [b EXCEPT ![call[2]] = Append(@, call[3])]

\* Instruction::with_imm and encode.
Encoded(ins) == <<OpCode[ins.op], ins.a>> \o ToBytes(ins.bc, 2)

EncodedAll(code) == FlattenSeq([i \in DOMAIN code |-> Encoded(code[i])])

\* The budget an image states: the pixel section's cost unless one was set.
Budget(b) == IF b.budget # 0 THEN b.budget ELSE SectionCost(b.pixel)

ProgramHeader ==
  <<Opaque("magic", 4), Number("vm_version", 1), Number("profile", 1), U16("program_id"),
    Number("flags", 2), Number("const_count", 2), Number("palette_count", 1),
    Number("channel_count", 1), Number("once", 2), Number("frame", 2), Number("pixel", 2),
    U32("budget"), U64("graph_hash")>>
ProgramHeaderLen == FoldLeft(LAMBDA n, f : n + f.size, 0, ProgramHeader)

Bit(b) == IF b THEN 1 ELSE 0

\* u32::to_le_bytes of a number that needs two bytes at most.
Bytes32(n) == ToBytes(n, 2) \o Zeros(2)

\* The header build() writes; counts are cut to their width.
HeaderOf(b) ==
  [magic |-> ProgramMagic, vm_version |-> VmVersion, profile |-> Bit(b.profile = "Sim"),
   program_id |-> <<1, 2>>, flags |-> Bit(b.has_probes) + 2 * Bit(b.reads_dt),
   const_count |-> Len(b.constants) % (U16Max + 1), palette_count |-> Len(b.palettes) % Base,
   channel_count |-> Len(b.channels) % Base, budget |-> Bytes32(Budget(b)),
   graph_hash |-> <<1, 2, 3, 4, 5, 6, 7, 8>>]
  @@ [s \in Section |-> Len(b[s]) % (U16Max + 1)]

\* build()
Image(b) ==
  WriteAll(ProgramHeader, HeaderOf(b), U16Max).bytes
    \o FlattenSeq([i \in DOMAIN b.channels |-> ToBytes(b.channels[i], 2)])
    \o FlattenSeq(b.constants) \o FlattenSeq(FlattenSeq(b.palettes))
    \o FlattenSeq([i \in 1..3 |-> EncodedAll(b[SectionOrder[i]])])

-----------------------------------------------------------------------------
(* Program::parse.                                                          *)

PaletteLen == Stops * 3 * 4

\* The parts of an image after its header, in order: name and length in bytes.
Parts(h) ==
  <<<<"channels", h.channel_count * 2>>, <<"constants", h.const_count * 4>>,
    <<"palettes", h.palette_count * PaletteLen>>,
    <<"once", h.once * 4>>, <<"frame", h.frame * 4>>, <<"pixel", h.pixel * 4>>>>

PartAt(h, k) ==
  FoldLeft(LAMBDA n, part : n + part[2], ProgramHeaderLen, SubSeq(Parts(h), 1, k - 1))
PartsEnd(h) == PartAt(h, 7)

\* What the parsed program says; it borrows its parts from the image.
ProgramOf(bytes, h) ==
  [profile |-> IF h.profile = 1 THEN "Sim" ELSE "Pixel",
   has_probes |-> h.flags % 2 = 1, reads_dt |-> (h.flags \div 2) % 2 = 1,
   budget |-> h.budget]
  @@ [name \in {Parts(h)[k][1] : k \in 1..6} |->
        LET k == CHOOSE j \in 1..6 : Parts(h)[j][1] = name
        IN  Slice(bytes, PartAt(h, k), Parts(h)[k][2])]

\* instruction(): none if the section ends before it or its opcode is unknown.
InstructionIn(section, i) ==
  LET raw == Slice(section, i * 4, 4)
  IN  IF Len(raw) < 4 THEN {}
      ELSE {Instr(op, raw[2], FromBytes(Slice(raw, 2, 2))) :
              op \in {o \in Op : OpCode[o] = raw[1]}}

SectionLen(section) == Len(section) \div 4

\* Mistake: whether blocks balance is only looked at after the last instruction.
InstructionErrorLate(ins, i, count, depth, profile) ==
  CASE profile = "Pixel" /\ ins.op \in SimOnly -> "SimInstructionInPixelProfile"
    [] ins.op = "Call" /\ ins.bc >= count -> "BadJumpTarget"
    [] ins.op = "MaskTest" /\ i + 1 + ins.bc > count -> "BadJumpTarget"
    [] OTHER -> "None"

\* What validate_section has against instruction i, with depth blocks open.
InstructionError(ins, i, count, depth, profile) ==
  CASE profile = "Pixel" /\ ins.op \in SimOnly -> "SimInstructionInPixelProfile"
    [] ins.op = "EndRep" /\ depth = 0 -> "UnbalancedRepeat"
    [] ins.op = "Call" /\ ins.bc >= count -> "BadJumpTarget"
    [] ins.op = "MaskTest" /\ i + 1 + ins.bc > count -> "BadJumpTarget"
    [] OTHER -> "None"

\* validate_section: what is wrong with a section, the first thing first.
SectionError(section, profile) ==
  LET count == SectionLen(section)
      check(s, i) ==
        LET found == InstructionIn(section, i) IN
        CASE s.err # "None" -> s
          [] s.err = "None" /\ found = {} -> [s EXCEPT !.err = "UnsupportedInstruction"]
          [] OTHER ->
               LET ins == CHOOSE f \in found : TRUE
               IN  [err |-> InstructionError(ins, i, count, s.depth, profile),
                    depth |-> s.depth + Bit(ins.op = "Repeat") - Bit(ins.op = "EndRep")]
      end == FoldLeft(check, [err |-> "None", depth |-> 0], [i \in 1..count |-> i - 1])
  IN  IF end.err = "None" /\ end.depth # 0 THEN "UnbalancedRepeat" ELSE end.err

FirstError(p) ==
  LET errors == SelectSeq([i \in 1..3 |-> SectionError(p[SectionOrder[i]], p.profile)],
                          LAMBDA e : e # "None")
  IN  IF errors = <<>> THEN "None" ELSE errors[1]

\* parse(): what is wrong with the header, then with the lengths, then with the code.
Parse(bytes) ==
  LET head == ReadAll(ProgramHeader, bytes)
      h == head.out
  IN  CASE head.err # "None" -> Refused("Truncated")
        [] OTHER ->
             CASE h.magic # ProgramMagic -> Refused("BadMagic")
               [] h.magic = ProgramMagic /\ h.vm_version > VmVersion -> Refused("VmTooOld")
               [] /\ h.magic = ProgramMagic /\ h.vm_version <= VmVersion
                  /\ h.profile \notin {0, 1} -> Refused("BadProfile")
               [] OTHER ->
                    IF PartsEnd(h) > Len(bytes) THEN Refused("Truncated")
                    ELSE LET p == ProgramOf(bytes, h)
                         IN  IF FirstError(p) = "None" THEN [err |-> "None", program |-> p]
                             ELSE Refused(FirstError(p))

\* constant(), channel_id() and the stops palette_sample() reads; none past the end.
Entry(pool, index, size) ==
  IF (index + 1) * size > Len(pool) THEN {} ELSE {Slice(pool, index * size, size)}

-----------------------------------------------------------------------------
NoImage == <<>>

ImageInit ==
  /\ plan = <<>> /\ builder = NewBuilder("Pixel", FALSE, FALSE, 0) /\ given = {}
  /\ image = NoImage /\ damage = "Idle" /\ loaded = Refused("None")

\* The emitter starts a program.
StartProgram(script) ==
  /\ damage = "Idle"
  /\ plan' = script.calls
  /\ builder' = NewBuilder(script.profile, script.reads_dt, script.has_probes, script.budget)
  /\ damage' = "Building"
  /\ UNCHANGED <<given, image, loaded>>

\* constant(), channel(), palette() or push().
CallBuilder ==
  /\ damage = "Building" /\ plan # <<>>
  /\ builder' = After(builder, Head(plan))
  /\ given' = IF Head(plan)[1] = "push" THEN given
                ELSE given \cup {<<Head(plan)[1], Head(plan)[2], Answer(builder, Head(plan))>>}
  /\ plan' = Tail(plan)
  /\ UNCHANGED <<image, damage, loaded>>

BuildImage ==
  /\ damage = "Building" /\ plan = <<>>
  /\ image' = Image(builder)
  /\ damage' = "Nothing"
  /\ UNCHANGED <<plan, builder, given, loaded>>

\* An upload stops early, or a byte of flash reads back as another.
CutImage ==
  /\ damage = "Nothing" /\ image # NoImage
  /\ \E n \in 1..(Len(image) - 1) : image' = SubSeq(image, 1, n)
  /\ damage' = "Cut"
  /\ UNCHANGED <<plan, builder, given, loaded>>

OverwriteImage ==
  /\ damage = "Nothing" /\ image # NoImage
  /\ \E i \in DOMAIN image, v \in ImageOverwrites :
       v # image[i] /\ image' = [image EXCEPT ![i] = v]
  /\ damage' = "Overwritten"
  /\ UNCHANGED <<plan, builder, given, loaded>>

\* Program::parse
LoadImage ==
  /\ image # NoImage
  /\ loaded' = Parse(image)
  /\ image' = NoImage
  /\ UNCHANGED <<plan, builder, given, damage>>

ImageNext == \/ \E script \in Scripts : StartProgram(script)
             \/ CallBuilder \/ BuildImage \/ CutImage \/ OverwriteImage \/ LoadImage

-----------------------------------------------------------------------------
\* What the widths of the format have room for.
WithinFormat(b) ==
  /\ Len(b.channels) <= U8Max /\ Len(b.palettes) <= U8Max /\ Len(b.constants) <= U16Max
  /\ \A s \in Section : Len(b[s]) <= U16Max

\* The code of a loaded program, as the interpreter fetches it.
Fetched(section) ==
  [i \in 1..SectionLen(section) |-> CHOOSE ins \in InstructionIn(section, i - 1) : TRUE]

\* What accessor answers for an index the builder gave out.
NamesItsValue(p, answer) ==
  CASE answer[1] = "constant" -> Entry(p.constants, answer[3], 4) = {answer[2]}
    [] answer[1] = "channel" -> Entry(p.channels, answer[3], 2) = {ToBytes(answer[2], 2)}
    [] answer[1] = "palette" ->
         Entry(p.palettes, answer[3], PaletteLen) = {FlattenSeq(answer[2])}

ReadsAs(p, b) ==
  /\ p.profile = b.profile /\ p.reads_dt = b.reads_dt /\ p.has_probes = b.has_probes
  /\ \A s \in Section : Fetched(p[s]) = b[s]
  /\ p.budget = Bytes32(IF b.budget # 0 THEN b.budget ELSE SectionCost(Fetched(p.pixel)))
  /\ \A answer \in given : NamesItsValue(p, answer)

Runnable(b) == \A s \in Section : Valid(b[s], b.profile)

\* A program that fits the format loads exactly when every section of it is one the
\* interpreter can run, and then reads as it was built: its code, and at each index the
\* builder gave out the value it was given out for.  An image that lost its end never
\* loads, and whatever loads from a damaged one can still be run.
ProgramsReadAsBuilt ==
  [][ (image # NoImage /\ image' = NoImage) =>
        /\ (damage = "Nothing" /\ WithinFormat(builder)) =>
             IF Runnable(builder)
               THEN loaded'.err = "None" /\ ReadsAs(loaded'.program, builder)
               ELSE loaded'.err # "None"
        /\ (damage = "Cut" /\ WithinFormat(builder)) => loaded'.err = "Truncated"
        /\ loaded'.err = "None" =>
             \A s \in Section :
               Valid(Fetched(loaded'.program[s]), loaded'.program.profile) ]_imageVars
=============================================================================
