---------------------------- MODULE PixelMachine ----------------------------
(***************************************************************************)
(* The register machine as its shells drive it (lumen-vm, vm.rs): what     *)
(* each instruction reads and writes, and the three sections once, frame   *)
(* and pixel.  Interpreter has the flow of control; here a section is      *)
(* straight-line but for MASKTEST, which is what the compiler emits.       *)
(*                                                                         *)
(* Values are symbolic: a register holds the term that computed it, say    *)
(* <<"Add", <<"U", 1>>, <<"Num", 2>>>>, so two values are equal only when  *)
(* they were computed alike from alike inputs.                             *)
(***************************************************************************)
EXTENDS Integers, Sequences, SequencesExt

CONSTANT RegisterCount   \* REG_COUNT, 32 in the code

\* The input registers the model reads: x, y, z, lx, ly, lz, n, uv are as u is.
R_I == 6
R_U == 8
R_T == 11
R_PREV == 12
R_DT == 15
R_SCRATCH_NO_DT == 15
R_SCRATCH == 16

Registers == 0..(RegisterCount - 1)
Run3(r) == <<r, r + 1, r + 2>>

-----------------------------------------------------------------------------

Num(k) == <<"Num", k>>
Black == <<Num(0), Num(0), Num(0)>>

\* The values whose being zero a program tests: a constant, the index of the
\* first LED, and whether that index exceeds zero; and in a simulation, whether
\* its first element starts below zero and whether it is late at time 1.
IsZero(v) ==
  \/ v = Num(0)
  \/ v = <<"I", 0>>
  \/ v = <<"Gt", <<"I", 0>>, Num(0)>>
  \/ v = <<"Lt", <<"E", 1, 1>>, Num(0)>>
  \/ v = <<"Gt", <<"T", 1>>, Num(3)>>

\* The arrays a section is given: the words of array a are bank[a + 1].  An
\* index is a constant, which counts halves; any other is out of bounds.
NoArrays == <<>>
WordAt(v) == v[2] \div 2 + 1
InBounds(bank, a, v) ==
  v[1] = "Num" /\ a + 1 \in DOMAIN bank /\ WordAt(v) \in DOMAIN bank[a + 1]

\* Which registers an instruction reads, by the shape of its operands.
Unary == {"Neg", "Abs", "Floor", "Fract", "Sin", "Cos", "SinTurns", "CosTurns",
          "Sqrt", "Exp", "Log", "Log2", "Noise1"}
Binary == {"Add", "Sub", "Mul", "Div", "Min", "Max", "Atan2", "Pow", "Noise2",
           "Lt", "Le", "Gt", "Ge", "Eq", "Step", "Len2"}
InPlace == {"Madd", "Clamp", "Select", "SmoothStep", "Lerp"}
Gathering == {"Noise3", "Len3"}
Spreading == {"Temp2Rgb", "Palette"}
Triple == {"Hsv2Rgb", "Rgb2Hsv"}

\* One register read, one written, three written.
ReadsOne == Unary \cup Spreading \cup {"Mov"}
WritesOne == Unary \cup Binary \cup InPlace \cup Gathering \cup {"Mov", "LoadK", "Dot3", "ALoad"}
WritesThree == Spreading \cup Triple \cup {"PrevRead"}

Ins(op, a, b, c) == [op |-> op, a |-> a, b |-> b, c |-> c]

Sources(ins) ==
  CASE ins.op \in ReadsOne -> <<ins.b>>
    [] ins.op \in Binary -> <<ins.b, ins.c>>
    [] ins.op \in InPlace -> <<ins.a, ins.b, ins.c>>
    [] ins.op \in Gathering \cup Triple -> Run3(ins.b)
    [] ins.op = "Dot3" -> Run3(ins.b) \o Run3(ins.c)
    [] ins.op = "PrevRead" -> Run3(R_PREV)
    [] ins.op \in {"PrevWrite"} -> Run3(ins.a)
    [] ins.op = "EmitRgb" -> <<ins.a, ins.b, ins.c>>
    [] ins.op = "EmitRgbw" -> Run3(ins.a) \o <<ins.a + 3>>
    [] ins.op = "EmitCct" -> <<ins.a, ins.b>>
    [] ins.op = "MaskTest" -> <<ins.a>>
    [] ins.op = "ALoad" -> <<ins.c>>
    [] ins.op = "AStore" -> <<ins.b, ins.c>>
    [] OTHER -> <<>>

Targets(ins) ==
  CASE ins.op \in WritesOne -> {ins.a}
    [] ins.op \in WritesThree -> {ins.a, ins.a + 1, ins.a + 2}
    [] OTHER -> {}

\* What it reads there.
Args(regs, ins) == [j \in DOMAIN Sources(ins) |-> regs[Sources(ins)[j]]]

\* What a register in Targets(ins) receives.
Value(regs, ins, r) ==
  LET args == Args(regs, ins)
  IN  CASE ins.op = "LoadK" -> Num(ins.b)
        [] ins.op = "Mov" -> args[1]
        [] ins.op = "PrevRead" -> args[r - ins.a + 1]
        [] ins.op \in Spreading \cup Triple -> <<ins.op, r - ins.a>> \o args
        [] OTHER -> <<ins.op>> \o args

\* check_reg; a divisor of zero; and a word outside its array, or of no array.
Faults(regs, ins, bank) ==
  \/ \E r \in Targets(ins) : r \notin Registers
  \/ \E j \in DOMAIN Sources(ins) : Sources(ins)[j] \notin Registers
  \/ ins.op = "Div" /\ IsZero(Args(regs, ins)[2])
  \/ ins.op = "ALoad" /\ ~InBounds(bank, ins.b, Args(regs, ins)[1])
  \/ ins.op = "AStore" /\ ~InBounds(bank, ins.a, Args(regs, ins)[1])

Dark == [kind |-> "None", color |-> Black]

\* EMIT leaves its colour as the history unless the program wrote one.
Emitted(m, color) == IF m.prevWritten THEN m ELSE [m EXCEPT !.prevOut = color]

\* step: one instruction on [m, bank, out, skip, halted, fault].
Step(s, ins) ==
  LET written == Targets(ins)
      read == Args(s.m.regs, ins)
      first3 == SubSeq(read, 1, 3)
  IN  IF s.fault \/ s.halted THEN s
      ELSE IF s.skip > 0 THEN [s EXCEPT !.skip = @ - 1]
      ELSE IF Faults(s.m.regs, ins, s.bank) THEN [s EXCEPT !.fault = TRUE]
      ELSE CASE ins.op = "MaskTest" ->
                  [s EXCEPT !.skip = IF IsZero(read[1]) THEN ins.b ELSE 0]
             [] ins.op = "PrevWrite" ->
                  [s EXCEPT !.m = [@ EXCEPT !.prevOut = read, !.prevWritten = TRUE]]
             [] ins.op \in {"EmitRgb", "EmitRgbw"} ->
                  [s EXCEPT !.m = Emitted(@, first3),
                            !.out = [kind |-> "Rgb", color |-> first3]]
             [] ins.op = "EmitCct" -> [s EXCEPT !.out = [kind |-> "Cct", color |-> Black]]
             [] ins.op = "ALoad" ->
                  [s EXCEPT !.m.regs[ins.a] = s.bank[ins.b + 1][WordAt(read[1])]]
             [] ins.op = "AStore" ->
                  [s EXCEPT !.bank[ins.a + 1][WordAt(read[1])] = read[2]]
             [] ins.op \in {"Halt", "Ret"} -> [s EXCEPT !.halted = TRUE]
             [] OTHER ->
                  [s EXCEPT !.m.regs = [r \in Registers |->
                     IF r \in written THEN Value(@, ins, r) ELSE @[r]]]

\* A section's start, with no instruction run.
Started(m, bank) ==
  [m |-> m, bank |-> bank, out |-> Dark, skip |-> 0, halted |-> FALSE, fault |-> FALSE]

\* execute: a whole section.
Execute(m, code, bank) ==
  LET after[k \in 0..Len(code)] == IF k = 0 THEN Started(m, bank) ELSE Step(after[k - 1], code[k])
  IN  after[Len(code)]

-----------------------------------------------------------------------------

New == [regs |-> [r \in Registers |-> Num(0)], prevOut |-> Black, prevWritten |-> FALSE]

\* Mistake: whether the last pixel wrote its history is remembered.
LoadInputsKeepsWritten(m, i, prev) ==
  [m EXCEPT !.regs = [@ EXCEPT ![R_I] = <<"I", i>>, ![R_U] = <<"U", i>>,
                               ![R_PREV] = prev[1], ![R_PREV + 1] = prev[2],
                               ![R_PREV + 2] = prev[3]],
            !.prevOut = prev]

LoadInputs(m, i, prev) ==
  [m EXCEPT !.regs = [@ EXCEPT ![R_I] = <<"I", i>>, ![R_U] = <<"U", i>>,
                               ![R_PREV] = prev[1], ![R_PREV + 1] = prev[2],
                               ![R_PREV + 2] = prev[3]],
            !.prevOut = prev,
            !.prevWritten = FALSE]

RunOnce(m, program) == Execute(m, program.once, NoArrays)

\* Mistake: dt is written for programs that use its register for themselves.
RunFrameAtAlwaysDt(m, program, t, dt) ==
  Execute([m EXCEPT !.regs = [@ EXCEPT ![R_T] = <<"T", t>>, ![R_DT] = <<"DT", dt>>]],
          program.frame, NoArrays)

\* The frame section at a show time; dt only for a program that reads it.
RunFrameAt(m, program, t, dt) ==
  Execute([m EXCEPT !.regs =
             [r \in Registers |-> CASE r = R_T -> <<"T", t>>
                                    [] r = R_DT /\ program.readsDt -> <<"DT", dt>>
                                    [] OTHER -> @[r]]],
          program.frame, NoArrays)

\* One LED, with the elements last broadcast to read (run_pixel_with).
RunPixel(m, program, i, prev, bank) == Execute(LoadInputs(m, i, prev), program.pixel, bank)

\* The sim program's step: it is given the time, and the elements to change.
RunSim(m, program, t, bank) == Execute([m EXCEPT !.regs[R_T] = <<"T", t>>], program.sim, bank)
=============================================================================
