---------------------------- MODULE RenderProofs ----------------------------
(***************************************************************************)
(* The render shell of Render, proved for every set of loadable programs,  *)
(* every strip and every split of it: what a disciplined program shows     *)
(* follows from the show time and the pixel, and a fault costs the rest of *)
(* one core's range and nothing else.                                      *)
(***************************************************************************)
EXTENDS Render, NaturalsInduction, WellFoundedInduction, TLAPS

\* A nonempty set of numbers has a least one.
LEMMA LeastNumber ==
  ASSUME NEW K \in SUBSET Nat, K # {}
  PROVE  \E n \in K : \A m \in K : n <= m
<1>1. PICK n \in K : \A m \in K : ~(<<m, n>> \in OpToRel(<, Nat))
  BY NatLessThanWellFounded, WFMin
<1>2. \A m \in K : ~(m < n)
  BY <1>1 DEF OpToRel
<1> QED
  BY <1>2

-----------------------------------------------------------------------------
(* The states a section passes through.                                     *)

\* f holds them for its first n instructions.
RunsTo(f, s, code, n) ==
  /\ f[0] = s
  /\ \A k \in 1..n : f[k] = Step(f[k - 1], code[k])

\* A section can be run instruction by instruction, as far as one likes.
LEMMA RunsExist ==
  ASSUME NEW code, NEW s, NEW len \in Nat
  PROVE  \E f : RunsTo(f, s, code, len)
<1> DEFINE Fails == {n \in Nat : ~(\E f : RunsTo(f, s, code, n))}
<1> SUFFICES ASSUME Fails # {} PROVE FALSE
  OBVIOUS
<1>1. PICK n \in Fails : \A m \in Fails : n <= m
  <2>1. Fails \in SUBSET Nat
    OBVIOUS
  <2> HIDE DEF Fails
  <2> QED
    BY <2>1, LeastNumber
<1>2. n \in Nat /\ ~(\E f : RunsTo(f, s, code, n))
  BY <1>1
<1>3. \A m \in Nat : m < n => \E f : RunsTo(f, s, code, m)
  BY <1>1
<1> HIDE DEF Fails
<1>4. n # 0
  <2> SUFFICES ASSUME n = 0 PROVE FALSE
    OBVIOUS
  <2> DEFINE f == [k \in {0} |-> s]
  <2>1. RunsTo(f, s, code, n)
    BY DEF RunsTo
  <2> QED
    BY <1>2, <2>1
<1>5. n - 1 \in Nat /\ n - 1 < n
  BY <1>2, <1>4
<1>6. PICK f : RunsTo(f, s, code, n - 1)
  BY <1>3, <1>5
<1> DEFINE g == [k \in 0..n |-> IF k = n THEN Step(f[n - 1], code[n]) ELSE f[k]]
<1>7. RunsTo(g, s, code, n)
  BY <1>2, <1>4, <1>6 DEF RunsTo
<1> QED
  BY <1>2, <1>7

\* Execute is the last of them.
LEMMA ExecuteRuns ==
  ASSUME NEW code, Len(code) \in Nat, NEW m, NEW bank
  PROVE  \E f : RunsTo(f, Started(m, bank), code, Len(code)) /\ Execute(m, code, bank) = f[Len(code)]
<1>1. PICK g : RunsTo(g, Started(m, bank), code, Len(code))
  BY RunsExist
<1> DEFINE Next1(f) == [k \in 0..Len(code) |->
                          IF k = 0 THEN Started(m, bank) ELSE Step(f[k - 1], code[k])]
           it == CHOOSE f : f = Next1(f)
           h == [k \in 0..Len(code) |-> g[k]]
<1>2. Execute(m, code, bank) = it[Len(code)]
  BY DEF Execute
<1>3. \A k \in 0..Len(code) : h[k] = IF k = 0 THEN Started(m, bank) ELSE Step(h[k - 1], code[k])
  BY <1>1 DEF RunsTo
<1>4. h = Next1(h)
  <2>1. h = [k \in 0..Len(code) |-> h[k]]
    OBVIOUS
  <2> HIDE DEF h
  <2> QED
    BY <1>3, <2>1
<1>5. it = Next1(it)
  BY <1>4
<1>6. RunsTo(it, Started(m, bank), code, Len(code))
  <2> HIDE DEF it
  <2>1. \A k \in 0..Len(code) : it[k] = IF k = 0 THEN Started(m, bank) ELSE Step(it[k - 1], code[k])
    BY <1>5
  <2> QED
    BY <2>1 DEF RunsTo
<1> QED
  BY <1>2, <1>6

-----------------------------------------------------------------------------
(* What one instruction does, field by field.                               *)

IsMachine(m) == DOMAIN m = {"regs", "prevOut", "prevWritten"} /\ DOMAIN m.regs = Registers

IsState(s) ==
  /\ DOMAIN s = {"m", "bank", "out", "skip", "halted", "fault"}
  /\ IsMachine(s.m)
  /\ s.skip \in Nat

\* The next instruction is carried out, not skipped.
Going(s) == ~s.fault /\ ~s.halted /\ s.skip = 0

\* The operations with a clause of their own in Step.
Special == {"MaskTest", "PrevWrite", "EmitRgb", "EmitRgbw", "EmitCct", "ALoad", "AStore", "Halt", "Ret"}
Emits == {"EmitRgb", "EmitRgbw"}

\* What r holds after ins, from what it held and what ins read.
RegAfter(s, ins, r) ==
  IF r \notin Targets(ins) THEN s.m.regs[r]
  ELSE IF ins.op = "ALoad" THEN s.bank[ins.b + 1][WordAt(Args(s.m.regs, ins)[1])]
  ELSE Value(s.m.regs, ins, r)

BankAfter(s, ins, args) ==
  IF ins.op = "AStore" THEN [s.bank EXCEPT ![ins.a + 1][WordAt(args[1])] = args[2]] ELSE s.bank

OutAfter(s, ins, args) ==
  IF ins.op \in Emits THEN [kind |-> "Rgb", color |-> SubSeq(args, 1, 3)]
  ELSE IF ins.op = "EmitCct" THEN [kind |-> "Cct", color |-> Black]
  ELSE s.out

PastAfter(s, ins, args) ==
  IF ins.op = "PrevWrite" THEN args
  ELSE IF ins.op \in Emits /\ ~s.m.prevWritten THEN SubSeq(args, 1, 3)
  ELSE s.m.prevOut

SkipAfter(ins, args) == IF ins.op = "MaskTest" /\ IsZero(args[1]) THEN ins.b ELSE 0

\* t is what ins makes of s.
Follows(t, s, ins, args) ==
  /\ IsState(t)
  /\ \A r \in Registers : t.m.regs[r] = RegAfter(s, ins, r)
  /\ t.m.prevOut = PastAfter(s, ins, args)
  /\ t.m.prevWritten = IF ins.op = "PrevWrite" THEN TRUE ELSE s.m.prevWritten
  /\ t.bank = BankAfter(s, ins, args)
  /\ t.out = OutAfter(s, ins, args)
  /\ t.skip = SkipAfter(ins, args)
  /\ t.halted = IF ins.op \in {"Halt", "Ret"} THEN TRUE ELSE s.halted
  /\ t.fault = s.fault

\* Which registers the special operations write: none but ALOAD, which writes one.
LEMMA SpecialTargets ==
  ASSUME NEW ins, ins.op \in Special
  PROVE  Targets(ins) = IF ins.op = "ALoad" THEN {ins.a} ELSE {}
<1>1. ins.op \notin WritesThree
  BY DEF Special, WritesThree, Spreading, Triple
<1>2. ins.op = "ALoad" => ins.op \in WritesOne
  BY DEF WritesOne
<1>3. ins.op # "ALoad" => ins.op \notin WritesOne
  BY DEF Special, WritesOne, Unary, Binary, InPlace, Gathering
<1> QED
  BY <1>1, <1>2, <1>3 DEF Targets

\* Carrying out an instruction that does not fault.
LEMMA StepFields ==
  ASSUME NEW s, IsState(s), Going(s), NEW ins, ins.op = "MaskTest" => ins.b \in Nat,
         ~Faults(s.m.regs, ins, s.bank)
  PROVE  Follows(Step(s, ins), s, ins, Args(s.m.regs, ins))
<1> DEFINE args == Args(s.m.regs, ins)
           t == Step(s, ins)
<1>1. CASE ins.op \notin Special
  <2>1. t = [s EXCEPT !.m.regs = [r \in Registers |->
                 IF r \in Targets(ins) THEN Value(@, ins, r) ELSE @[r]]]
    BY <1>1 DEF Step, Going, Special
  <2>2. IsState(t) /\ t.bank = s.bank /\ t.out = s.out /\ t.skip = 0 /\ t.halted = s.halted
        /\ t.fault = s.fault /\ t.m.prevOut = s.m.prevOut /\ t.m.prevWritten = s.m.prevWritten
    BY <2>1 DEF IsState, IsMachine, Going
  <2>3. \A r \in Registers : t.m.regs[r] = RegAfter(s, ins, r)
    BY <1>1, <2>1 DEF RegAfter, IsState, IsMachine, Special
  <2>4. ins.op \notin Emits /\ ins.op \notin {"EmitCct", "AStore", "PrevWrite", "MaskTest", "Halt", "Ret"}
    BY <1>1 DEF Special, Emits
  <2> QED
    BY <2>2, <2>3, <2>4 DEF Follows, BankAfter, OutAfter, PastAfter, SkipAfter
<1>2. CASE ins.op = "MaskTest"
  <2>1. t = [s EXCEPT !.skip = IF IsZero(args[1]) THEN ins.b ELSE 0]
    BY <1>2 DEF Step, Going
  <2>2. Targets(ins) = {}
    BY <1>2, SpecialTargets DEF Special
  <2> QED
    BY <1>2, <2>1, <2>2
    DEF Follows, BankAfter, OutAfter, PastAfter, SkipAfter, RegAfter, Emits, IsState, IsMachine
<1>3. CASE ins.op = "PrevWrite"
  <2>1. t = [s EXCEPT !.m = [@ EXCEPT !.prevOut = args, !.prevWritten = TRUE]]
    BY <1>3 DEF Step, Going
  <2>2. Targets(ins) = {}
    BY <1>3, SpecialTargets DEF Special
  <2>3. t.m = [s.m EXCEPT !.prevOut = args, !.prevWritten = TRUE] /\ DOMAIN t = DOMAIN s
        /\ t.bank = s.bank /\ t.out = s.out /\ t.skip = 0 /\ t.halted = s.halted /\ t.fault = s.fault
    BY <2>1 DEF IsState, Going
  <2>4. t.m.regs = s.m.regs /\ t.m.prevOut = args /\ t.m.prevWritten = TRUE /\ DOMAIN t.m = DOMAIN s.m
    BY <2>3 DEF IsState, IsMachine
  <2>5. IsState(t)
    BY <2>3, <2>4 DEF IsState, IsMachine
  <2>6. ins.op \notin Emits /\ ins.op \notin {"EmitCct", "AStore", "MaskTest", "Halt", "Ret"}
    BY <1>3 DEF Emits
  <2> QED
    BY <1>3, <2>2, <2>3, <2>4, <2>5, <2>6
    DEF Follows, BankAfter, OutAfter, PastAfter, SkipAfter, RegAfter
<1>4. CASE ins.op \in Emits
  <2>1. t = [s EXCEPT !.m = Emitted(@, SubSeq(args, 1, 3)),
                      !.out = [kind |-> "Rgb", color |-> SubSeq(args, 1, 3)]]
    BY <1>4 DEF Step, Going, Emits
  <2>2. Targets(ins) = {}
    BY <1>4, SpecialTargets DEF Special, Emits
  <2>3. t.m = Emitted(s.m, SubSeq(args, 1, 3)) /\ DOMAIN t = DOMAIN s
        /\ t.out = [kind |-> "Rgb", color |-> SubSeq(args, 1, 3)]
        /\ t.bank = s.bank /\ t.skip = 0 /\ t.halted = s.halted /\ t.fault = s.fault
    BY <2>1 DEF IsState, Going
  <2>4. t.m.regs = s.m.regs /\ t.m.prevWritten = s.m.prevWritten /\ DOMAIN t.m = DOMAIN s.m
        /\ t.m.prevOut = IF s.m.prevWritten THEN s.m.prevOut ELSE SubSeq(args, 1, 3)
    BY <2>3 DEF IsState, IsMachine, Emitted
  <2>5. IsState(t)
    BY <2>3, <2>4 DEF IsState, IsMachine
  <2>6. ins.op \notin {"EmitCct", "AStore", "MaskTest", "PrevWrite", "Halt", "Ret"}
    BY <1>4 DEF Emits
  <2> QED
    BY <1>4, <2>2, <2>3, <2>4, <2>5, <2>6
    DEF Follows, BankAfter, OutAfter, PastAfter, SkipAfter, RegAfter
<1>5. CASE ins.op = "EmitCct"
  <2>1. t = [s EXCEPT !.out = [kind |-> "Cct", color |-> Black]]
    BY <1>5 DEF Step, Going
  <2>2. Targets(ins) = {}
    BY <1>5, SpecialTargets DEF Special
  <2> QED
    BY <1>5, <2>1, <2>2
    DEF Follows, BankAfter, OutAfter, PastAfter, SkipAfter, RegAfter, Emits, IsState, IsMachine, Going
<1>6. CASE ins.op = "ALoad"
  <2>1. t = [s EXCEPT !.m.regs[ins.a] = s.bank[ins.b + 1][WordAt(args[1])]]
    BY <1>6 DEF Step, Going
  <2>2. Targets(ins) = {ins.a}
    BY <1>6, SpecialTargets DEF Special
  <2>3. ins.a \in Registers
    BY <2>2 DEF Faults
  <2> QED
    BY <1>6, <2>1, <2>2, <2>3
    DEF Follows, BankAfter, OutAfter, PastAfter, SkipAfter, RegAfter, Emits, IsState, IsMachine, Going
<1>7. CASE ins.op = "AStore"
  <2>1. t = [s EXCEPT !.bank[ins.a + 1][WordAt(args[1])] = args[2]]
    BY <1>7 DEF Step, Going
  <2>2. Targets(ins) = {}
    BY <1>7, SpecialTargets DEF Special
  <2> QED
    BY <1>7, <2>1, <2>2
    DEF Follows, BankAfter, OutAfter, PastAfter, SkipAfter, RegAfter, Emits, IsState, IsMachine, Going
<1>8. CASE ins.op \in {"Halt", "Ret"}
  <2>1. t = [s EXCEPT !.halted = TRUE]
    BY <1>8 DEF Step, Going
  <2>2. Targets(ins) = {}
    BY <1>8, SpecialTargets DEF Special
  <2> QED
    BY <1>8, <2>1, <2>2
    DEF Follows, BankAfter, OutAfter, PastAfter, SkipAfter, RegAfter, Emits, IsState, IsMachine, Going
<1> QED
  BY <1>1, <1>2, <1>3, <1>4, <1>5, <1>6, <1>7, <1>8 DEF Special, Emits

-----------------------------------------------------------------------------
(* The same instruction on two machines.                                    *)

\* What the two have in common, whatever their registers hold.
Alike(s, q) ==
  /\ IsState(s) /\ IsState(q)
  /\ s.bank = q.bank /\ s.out = q.out /\ s.skip = q.skip
  /\ s.halted = q.halted /\ s.fault = q.fault

\* The registers that hold the same in both.
Agree(m, n) == {r \in Registers : m.regs[r] = n.regs[r]}

SamePast(m, n) == m.prevOut = n.prevOut /\ m.prevWritten = n.prevWritten

\* The skip of a MASKTEST is a number.
Skippable(ins) == ins.op = "MaskTest" => ins.b \in Nat

\* An instruction none of whose sources is out of range reads the same in both.
LEMMA ArgsAlike ==
  ASSUME NEW m, NEW n, NEW ins, SourceSet(ins) \cap Registers \subseteq Agree(m, n),
         \A j \in DOMAIN Sources(ins) : Sources(ins)[j] \in Registers
  PROVE  Args(m.regs, ins) = Args(n.regs, ins)
<1>1. \A j \in DOMAIN Sources(ins) : m.regs[Sources(ins)[j]] = n.regs[Sources(ins)[j]]
  BY DEF SourceSet, Agree
<1> QED
  BY <1>1 DEF Args

\* An instruction that reads the same in both computes the same in both.
LEMMA ValueAlike ==
  ASSUME NEW x, NEW y, NEW ins, NEW r, Args(x, ins) = Args(y, ins)
  PROVE  Value(x, ins, r) = Value(y, ins, r)
BY DEF Value

\* And it faults in both or in neither.
LEMMA FaultsAlike ==
  ASSUME NEW m, NEW n, NEW ins, NEW bank, SourceSet(ins) \cap Registers \subseteq Agree(m, n)
  PROVE  Faults(m.regs, ins, bank) = Faults(n.regs, ins, bank)
<1>1. CASE \E j \in DOMAIN Sources(ins) : Sources(ins)[j] \notin Registers
  BY <1>1 DEF Faults
<1>2. CASE \A j \in DOMAIN Sources(ins) : Sources(ins)[j] \in Registers
  <2>1. Args(m.regs, ins) = Args(n.regs, ins)
    BY <1>2, ArgsAlike
  <2> QED
    BY <2>1 DEF Faults
<1> QED
  BY <1>1, <1>2

\* What an instruction may do to a state: nothing once the section has stopped,
\* pass over a skipped one, fault, or be carried out.
LEMMA StepCases ==
  ASSUME NEW s, IsState(s), NEW ins, Skippable(ins)
  PROVE  /\ s.fault \/ s.halted => Step(s, ins) = s
         /\ ~s.fault /\ ~s.halted /\ s.skip > 0 => Step(s, ins) = [s EXCEPT !.skip = @ - 1]
         /\ Going(s) /\ Faults(s.m.regs, ins, s.bank) => Step(s, ins) = [s EXCEPT !.fault = TRUE]
         /\ Going(s) /\ ~Faults(s.m.regs, ins, s.bank)
              => Follows(Step(s, ins), s, ins, Args(s.m.regs, ins))
<1>1. s.fault \/ s.halted => Step(s, ins) = s
  BY DEF Step
<1>2. ~s.fault /\ ~s.halted /\ s.skip > 0 => Step(s, ins) = [s EXCEPT !.skip = @ - 1]
  BY DEF Step
<1>3. Going(s) /\ Faults(s.m.regs, ins, s.bank) => Step(s, ins) = [s EXCEPT !.fault = TRUE]
  BY DEF Step, Going
<1>4. Going(s) /\ ~Faults(s.m.regs, ins, s.bank)
        => Follows(Step(s, ins), s, ins, Args(s.m.regs, ins))
  BY StepFields DEF Skippable
<1> QED
  BY <1>1, <1>2, <1>3, <1>4

\* An instruction writes its targets and no other register.
LEMMA StepWrites ==
  ASSUME NEW s, IsState(s), NEW ins, Skippable(ins)
  PROVE  /\ IsState(Step(s, ins))
         /\ \A r \in Registers \ Targets(ins) : Step(s, ins).m.regs[r] = s.m.regs[r]
<1> DEFINE t == Step(s, ins)
<1>1. CASE s.fault \/ s.halted
  BY <1>1, StepCases
<1>2. CASE ~s.fault /\ ~s.halted /\ s.skip > 0
  <2>1. t = [s EXCEPT !.skip = @ - 1]
    BY <1>2, StepCases
  <2>2. DOMAIN t = DOMAIN s /\ t.m = s.m /\ t.skip = s.skip - 1
    BY <2>1 DEF IsState
  <2>3. s.skip - 1 \in Nat
    BY <1>2 DEF IsState
  <2> QED
    BY <2>2, <2>3 DEF IsState
<1>3. CASE Going(s) /\ Faults(s.m.regs, ins, s.bank)
  <2>1. t = [s EXCEPT !.fault = TRUE]
    BY <1>3, StepCases
  <2> QED
    BY <2>1 DEF IsState
<1>4. CASE Going(s) /\ ~Faults(s.m.regs, ins, s.bank)
  <2>1. Follows(t, s, ins, Args(s.m.regs, ins))
    BY <1>4, StepCases
  <2> QED
    BY <2>1 DEF Follows, RegAfter
<1>5. s.skip = 0 \/ s.skip > 0
  BY DEF IsState
<1> QED
  BY <1>1, <1>2, <1>3, <1>4, <1>5 DEF Going

\* Two states that are alike, and agree on what the next instruction reads, are
\* alike after it, agree on no less, and agree on what it wrote.
LEMMA StepAlike ==
  ASSUME NEW s, NEW q, Alike(s, q), NEW ins, Skippable(ins),
         Going(s) => SourceSet(ins) \cap Registers \subseteq Agree(s.m, q.m)
  PROVE  /\ Alike(Step(s, ins), Step(q, ins))
         /\ Agree(s.m, q.m) \subseteq Agree(Step(s, ins).m, Step(q, ins).m)
         /\ Going(s) /\ ~Step(s, ins).fault
              => Targets(ins) \cap Registers \subseteq Agree(Step(s, ins).m, Step(q, ins).m)
         /\ SamePast(s.m, q.m) => SamePast(Step(s, ins).m, Step(q, ins).m)
<1> DEFINE t == Step(s, ins)
           u == Step(q, ins)
<1>1. IsState(s) /\ IsState(q) /\ IsState(t) /\ IsState(u)
  BY StepWrites DEF Alike
<1>2. CASE s.fault \/ s.halted
  <2>1. t = s /\ u = q
    BY <1>1, <1>2, StepCases DEF Alike
  <2> QED
    BY <1>2, <2>1 DEF Going
<1>3. CASE ~s.fault /\ ~s.halted /\ s.skip > 0
  <2>1. t = [s EXCEPT !.skip = @ - 1] /\ u = [q EXCEPT !.skip = @ - 1]
    BY <1>1, <1>3, StepCases DEF Alike
  <2>2. /\ t.m = s.m /\ t.bank = s.bank /\ t.out = s.out /\ t.skip = s.skip - 1
        /\ t.halted = s.halted /\ t.fault = s.fault
        /\ u.m = q.m /\ u.bank = q.bank /\ u.out = q.out /\ u.skip = q.skip - 1
        /\ u.halted = q.halted /\ u.fault = q.fault
    BY <1>1, <2>1 DEF IsState
  <2>3. Alike(t, u)
    BY <1>1, <2>2 DEF Alike
  <2> QED
    BY <1>3, <2>2, <2>3 DEF Going
<1>4. CASE Going(s) /\ Faults(s.m.regs, ins, s.bank)
  <2>1. Going(q) /\ Faults(q.m.regs, ins, q.bank)
    BY <1>4, FaultsAlike DEF Alike, Going
  <2>2. t = [s EXCEPT !.fault = TRUE] /\ u = [q EXCEPT !.fault = TRUE]
    BY <1>1, <1>4, <2>1, StepCases
  <2>3. /\ t.m = s.m /\ t.bank = s.bank /\ t.out = s.out /\ t.skip = s.skip
        /\ t.halted = s.halted /\ t.fault = TRUE
        /\ u.m = q.m /\ u.bank = q.bank /\ u.out = q.out /\ u.skip = q.skip
        /\ u.halted = q.halted /\ u.fault = TRUE
    BY <1>1, <2>2 DEF IsState
  <2>4. Alike(t, u)
    BY <1>1, <2>3 DEF Alike
  <2> QED
    BY <2>3, <2>4
<1>5. CASE Going(s) /\ ~Faults(s.m.regs, ins, s.bank)
  <2>1. Going(q) /\ ~Faults(q.m.regs, ins, q.bank)
    BY <1>5, FaultsAlike DEF Alike, Going
  <2>2. \A j \in DOMAIN Sources(ins) : Sources(ins)[j] \in Registers
    BY <1>5 DEF Faults
  <2>3. PICK args : args = Args(s.m.regs, ins) /\ args = Args(q.m.regs, ins)
    BY <1>5, <2>2, ArgsAlike
  <2>4. Follows(t, s, ins, args) /\ Follows(u, q, ins, args)
    <3>1. Follows(t, s, ins, Args(s.m.regs, ins))
      BY <1>1, <1>5, StepCases
    <3>2. Follows(u, q, ins, Args(q.m.regs, ins))
      BY <1>1, <2>1, StepCases
    <3> QED
      BY <2>3, <3>1, <3>2
  <2> HIDE DEF t, u
  <2>5. Alike(t, u)
    BY <1>1, <2>4 DEF Alike, Follows, BankAfter, OutAfter
  <2>6. \A r \in Targets(ins) : RegAfter(s, ins, r) = RegAfter(q, ins, r)
    <3>1. \A r : Value(s.m.regs, ins, r) = Value(q.m.regs, ins, r)
      <4>1. Args(s.m.regs, ins) = Args(q.m.regs, ins)
        BY <2>3
      <4> QED
        BY <4>1, ValueAlike
    <3>2. s.bank = q.bank
      BY DEF Alike
    <3> QED
      BY <2>3, <3>1, <3>2 DEF RegAfter
  <2>7. \A r \in Registers : t.m.regs[r] = RegAfter(s, ins, r) /\ u.m.regs[r] = RegAfter(q, ins, r)
    BY <2>4 DEF Follows
  <2>8. Targets(ins) \cap Registers \subseteq Agree(t.m, u.m)
    BY <2>6, <2>7 DEF Agree
  <2>9. Agree(s.m, q.m) \subseteq Agree(t.m, u.m)
    BY <2>6, <2>7 DEF Agree, RegAfter
  <2>10. SamePast(s.m, q.m) => SamePast(t.m, u.m)
    BY <2>4 DEF Follows, SamePast, PastAfter
  <2> QED
    BY <2>5, <2>8, <2>9, <2>10 DEF t, u
<1>6. s.skip = 0 \/ s.skip > 0
  BY <1>1 DEF IsState
<1> QED
  BY <1>2, <1>3, <1>4, <1>5, <1>6 DEF Going

-----------------------------------------------------------------------------
(* A section on two machines.                                               *)

\* What becomes of the section's progress in one instruction.
LEMMA StepControl ==
  ASSUME NEW s, IsState(s), NEW ins, Skippable(ins)
  PROVE  /\ ~Step(s, ins).fault /\ ~Step(s, ins).halted =>
              /\ ~s.fault /\ ~s.halted
              /\ \/ s.skip > 0 /\ Step(s, ins).skip = s.skip - 1
                 \/ /\ Going(s)
                    /\ Step(s, ins).skip = 0 \/ (ins.op = "MaskTest" /\ Step(s, ins).skip = ins.b)
         /\ ~s.halted /\ ins.op \notin {"Halt", "Ret"} => ~Step(s, ins).halted
<1> DEFINE t == Step(s, ins)
<1>1. CASE s.fault \/ s.halted
  BY <1>1, StepCases
<1>2. CASE ~s.fault /\ ~s.halted /\ s.skip > 0
  <2>1. t = [s EXCEPT !.skip = @ - 1]
    BY <1>2, StepCases
  <2>2. t.skip = s.skip - 1 /\ t.halted = s.halted
    BY <2>1 DEF IsState
  <2> QED
    BY <1>2, <2>2
<1>3. CASE Going(s) /\ Faults(s.m.regs, ins, s.bank)
  <2>1. t = [s EXCEPT !.fault = TRUE]
    BY <1>3, StepCases
  <2>2. t.fault = TRUE /\ t.halted = s.halted
    BY <2>1 DEF IsState
  <2> QED
    BY <2>2
<1>4. CASE Going(s) /\ ~Faults(s.m.regs, ins, s.bank)
  <2>1. Follows(t, s, ins, Args(s.m.regs, ins))
    BY <1>4, StepCases
  <2> HIDE DEF t
  <2>2. t.skip = 0 \/ (ins.op = "MaskTest" /\ t.skip = ins.b)
    BY <2>1 DEF Follows, SkipAfter
  <2>3. ins.op \notin {"Halt", "Ret"} => t.halted = s.halted
    BY <2>1 DEF Follows
  <2> QED
    BY <1>4, <2>2, <2>3 DEF Going, t
<1>5. s.skip = 0 \/ s.skip > 0
  BY DEF IsState
<1> QED
  BY <1>1, <1>2, <1>3, <1>4, <1>5 DEF Going

\* What j wrote is the same in both after k instructions, or a MASKTEST before it
\* passed over it, and over all of those up to here.
Covered(f, g, code, j, k) ==
  \/ Targets(code[j]) \cap Registers \subseteq Agree(f[k].m, g[k].m)
  \/ \E l \in 1..(j - 1) : code[l].op = "MaskTest" /\ l + code[l].b \in j..(k + f[k].skip)

\* An instruction that is being passed over has a MASKTEST that does it.
Skipped(f, code, k) ==
  f[k].skip > 0 => \E l \in 1..k : code[l].op = "MaskTest" /\ l + code[l].b = k + f[k].skip

Stage(f, g, code, k) ==
  /\ Alike(f[k], g[k])
  /\ Agree(f[0].m, g[0].m) \subseteq Agree(f[k].m, g[k].m)
  /\ SamePast(f[0].m, g[0].m) => SamePast(f[k].m, g[k].m)
  /\ ~f[k].fault /\ ~f[k].halted =>
       Skipped(f, code, k) /\ \A j \in 1..k : Covered(f, g, code, j, k)
  /\ NeverHalts(code) => ~f[k].halted

\* What the k-th instruction of a disciplined section reads is the same in both.
LEMMA ReadsAgree ==
  ASSUME NEW code, NEW f, NEW g, NEW given, ReadsOnly(code, given),
         Len(code) \in Nat, SkipsLand(code), NEW k \in 1..Len(code),
         given \cap Registers \subseteq Agree(f[0].m, g[0].m),
         Stage(f, g, code, k - 1), Going(f[k - 1])
  PROVE  SourceSet(code[k]) \cap Registers \subseteq Agree(f[k - 1].m, g[k - 1].m)
<1> SUFFICES ASSUME NEW r \in SourceSet(code[k]) \cap Registers
             PROVE  r \in Agree(f[k - 1].m, g[k - 1].m)
  OBVIOUS
<1>1. r \in given \/ r \in Written(code, k)
  BY DEF ReadsOnly, Steps
<1>2. CASE r \in given
  BY <1>2 DEF Stage
<1>3. CASE r \in Written(code, k)
  <2>1. PICK j \in 1..(k - 1) : /\ r \in Targets(code[j])
                                /\ \A l \in 1..(j - 1) : code[l].op = "MaskTest" => l + code[l].b \notin j..(k - 1)
    BY <1>3 DEF Written
  <2>2. Covered(f, g, code, j, k - 1) /\ f[k - 1].skip = 0
    BY <2>1 DEF Stage, Going
  <2>3. k - 1 + f[k - 1].skip = k - 1
    BY <2>2
  <2> QED
    BY <2>1, <2>2, <2>3 DEF Covered
<1> QED
  BY <1>1, <1>2, <1>3

\* One instruction further.
LEMMA StageStep ==
  ASSUME NEW code, NEW f, NEW g, NEW given, ReadsOnly(code, given),
         Len(code) \in Nat, SkipsLand(code), NEW k \in 1..Len(code),
         given \cap Registers \subseteq Agree(f[0].m, g[0].m),
         f[k] = Step(f[k - 1], code[k]), g[k] = Step(g[k - 1], code[k]),
         Stage(f, g, code, k - 1)
  PROVE  Stage(f, g, code, k)
<1>1. Alike(f[k - 1], g[k - 1]) /\ IsState(f[k - 1])
  BY DEF Stage, Alike
<1>2. Skippable(code[k])
  BY DEF SkipsLand, Skippable
<1>3. Going(f[k - 1]) => SourceSet(code[k]) \cap Registers \subseteq Agree(f[k - 1].m, g[k - 1].m)
  BY ReadsAgree
<1> DEFINE s == f[k - 1]
           q == g[k - 1]
           t == f[k]
           u == g[k]
<1>4. /\ Alike(t, u)
      /\ Agree(s.m, q.m) \subseteq Agree(t.m, u.m)
      /\ Going(s) /\ ~t.fault => Targets(code[k]) \cap Registers \subseteq Agree(t.m, u.m)
      /\ SamePast(s.m, q.m) => SamePast(t.m, u.m)
  BY <1>1, <1>2, <1>3, StepAlike
<1>5. /\ ~t.fault /\ ~t.halted =>
           /\ ~s.fault /\ ~s.halted
           /\ \/ s.skip > 0 /\ t.skip = s.skip - 1
              \/ /\ Going(s)
                 /\ t.skip = 0 \/ (code[k].op = "MaskTest" /\ t.skip = code[k].b)
      /\ ~s.halted /\ code[k].op \notin {"Halt", "Ret"} => ~t.halted
  BY <1>1, <1>2, StepControl
<1>6. NeverHalts(code) => ~t.halted
  BY <1>5 DEF Stage, NeverHalts, Steps
<1>7. s.skip \in Nat /\ t.skip \in Nat
  BY <1>4 DEF Alike, IsState, Stage
<1>8. ASSUME ~t.fault, ~t.halted PROVE Skipped(f, code, k)
  <2> SUFFICES ASSUME t.skip > 0
               PROVE  \E l \in 1..k : code[l].op = "MaskTest" /\ l + code[l].b = k + t.skip
    BY DEF Skipped
  <2>1. CASE s.skip > 0 /\ t.skip = s.skip - 1
    <3>1. PICK l \in 1..(k - 1) : code[l].op = "MaskTest" /\ l + code[l].b = k - 1 + s.skip
      BY <1>5, <1>8, <2>1 DEF Stage, Skipped
    <3>2. k - 1 + s.skip = k + t.skip
      <4> HIDE DEF s, t
      <4> QED
        BY <1>7, <2>1
    <3> QED
      BY <3>1, <3>2
  <2>2. CASE code[k].op = "MaskTest" /\ t.skip = code[k].b
    BY <2>2
  <2> QED
    BY <1>5, <1>8, <2>1, <2>2
<1>9. ASSUME ~t.fault, ~t.halted, NEW j \in 1..k PROVE Covered(f, g, code, j, k)
  <2>1. CASE j \in 1..(k - 1)
    <3>1. Covered(f, g, code, j, k - 1)
      BY <1>5, <1>9, <2>1 DEF Stage
    <3>2. CASE Targets(code[j]) \cap Registers \subseteq Agree(s.m, q.m)
      BY <1>4, <3>2 DEF Covered
    <3>3. CASE \E l \in 1..(j - 1) : code[l].op = "MaskTest" /\ l + code[l].b \in j..(k - 1 + s.skip)
      <4>1. PICK l \in 1..(j - 1) : code[l].op = "MaskTest" /\ l + code[l].b \in j..(k - 1 + s.skip)
        BY <3>3
      <4>2. k - 1 + s.skip <= k + t.skip
        BY <1>5, <1>7, <1>9 DEF Going
      <4>3. l + code[l].b \in j..(k + t.skip)
        BY <1>7, <4>1, <4>2
      <4> QED
        BY <4>1, <4>3 DEF Covered
    <3> QED
      BY <3>1, <3>2, <3>3 DEF Covered
  <2>2. CASE j = k /\ Going(s)
    BY <1>4, <1>9, <2>2 DEF Covered
  <2>3. CASE j = k /\ s.skip > 0 /\ t.skip = s.skip - 1
    <3>1. PICK l \in 1..(k - 1) : code[l].op = "MaskTest" /\ l + code[l].b = k - 1 + s.skip
      BY <1>5, <1>9, <2>3 DEF Stage, Skipped
    <3>2. k - 1 + s.skip = k + t.skip /\ k + t.skip \in k..(k + t.skip)
      <4> HIDE DEF s, t
      <4> QED
        BY <1>7, <2>3
    <3>3. l + code[l].b \in k..(k + t.skip)
      BY <3>1, <3>2
    <3> QED
      BY <2>3, <3>1, <3>3 DEF Covered
  <2> QED
    BY <1>5, <1>9, <2>1, <2>2, <2>3
<1> QED
  BY <1>4, <1>6, <1>8, <1>9 DEF Stage

\* Every instruction of a loaded section may skip only forward.
LEMMA SectionSkippable ==
  ASSUME NEW code, Len(code) \in Nat, SkipsLand(code), NEW k \in 1..Len(code)
  PROVE  Skippable(code[k])
BY DEF SkipsLand, Skippable

\* A section starts in a state of its own, with the registers it is given.
LEMMA StartedState ==
  ASSUME NEW m, IsMachine(m), NEW bank
  PROVE  /\ IsState(Started(m, bank))
         /\ Started(m, bank).m = m /\ Started(m, bank).bank = bank /\ Started(m, bank).skip = 0
         /\ ~Started(m, bank).halted /\ ~Started(m, bank).fault
BY DEF Started, IsState

\* A section writes the targets of its instructions and no other register.
LEMMA SectionWrites ==
  ASSUME NEW code, Len(code) \in Nat, SkipsLand(code), NEW m, IsMachine(m), NEW bank
  PROVE  /\ IsState(Execute(m, code, bank))
         /\ \A r \in Registers \ AllTargets(code) : Execute(m, code, bank).m.regs[r] = m.regs[r]
<1>1. PICK f : RunsTo(f, Started(m, bank), code, Len(code)) /\ Execute(m, code, bank) = f[Len(code)]
  BY ExecuteRuns
<1> DEFINE Kept(k) == IsState(f[k]) /\ \A r \in Registers \ AllTargets(code) : f[k].m.regs[r] = m.regs[r]
           Fails == {k \in 0..Len(code) : ~Kept(k)}
<1>2. ASSUME Fails # {} PROVE FALSE
  <2>1. PICK k \in Fails : \A n \in Fails : k <= n
    <3>1. Fails \in SUBSET Nat
      OBVIOUS
    <3> HIDE DEF Fails
    <3> QED
      BY <1>2, <3>1, LeastNumber
  <2>2. k \in 0..Len(code) /\ ~Kept(k)
    BY <2>1
  <2>3. CASE k = 0
    <3>1. f[0] = Started(m, bank)
      BY <1>1 DEF RunsTo
    <3> QED
      BY <2>2, <2>3, <3>1, StartedState
  <2>4. CASE k \in 1..Len(code)
    <3>1. k - 1 \in 0..Len(code) /\ ~(k <= k - 1)
      BY <2>4
    <3>2. Kept(k - 1)
      BY <2>1, <3>1
    <3>3. f[k] = Step(f[k - 1], code[k])
      BY <1>1, <2>4 DEF RunsTo
    <3>4. IsState(f[k]) /\ \A r \in Registers \ Targets(code[k]) : f[k].m.regs[r] = f[k - 1].m.regs[r]
      BY <2>4, <3>2, <3>3, SectionSkippable, StepWrites
    <3>5. Targets(code[k]) \subseteq AllTargets(code)
      BY <2>4 DEF AllTargets, Steps
    <3> QED
      BY <2>2, <3>2, <3>4, <3>5
  <2> QED
    BY <2>2, <2>3, <2>4
<1>3. Kept(Len(code))
  BY <1>2
<1> QED
  BY <1>1, <1>3

\* Two machines that agree on what a section may read are alike after it, agree
\* on no less, and if it ran to its end agree on everything it must have written.
LEMMA SectionAlike ==
  ASSUME NEW code, Len(code) \in Nat, SkipsLand(code), NEW given, ReadsOnly(code, given),
         NEW m, IsMachine(m), NEW n, IsMachine(n), NEW bank,
         given \cap Registers \subseteq Agree(m, n)
  PROVE  LET s == Execute(m, code, bank)
             q == Execute(n, code, bank)
         IN  /\ Alike(s, q)
             /\ Agree(m, n) \subseteq Agree(s.m, q.m)
             /\ SamePast(m, n) => SamePast(s.m, q.m)
             /\ NeverHalts(code) /\ ~s.fault =>
                  Written(code, Len(code) + 1) \cap Registers \subseteq Agree(s.m, q.m)
<1>1. PICK f : RunsTo(f, Started(m, bank), code, Len(code)) /\ Execute(m, code, bank) = f[Len(code)]
  BY ExecuteRuns
<1>2. PICK g : RunsTo(g, Started(n, bank), code, Len(code)) /\ Execute(n, code, bank) = g[Len(code)]
  BY ExecuteRuns
<1>3. f[0] = Started(m, bank) /\ g[0] = Started(n, bank) /\ f[0].m = m /\ g[0].m = n
  BY <1>1, <1>2, StartedState DEF RunsTo
<1> DEFINE Fails == {k \in 0..Len(code) : ~Stage(f, g, code, k)}
<1>4. ASSUME Fails # {} PROVE FALSE
  <2>1. PICK k \in Fails : \A l \in Fails : k <= l
    <3>1. Fails \in SUBSET Nat
      OBVIOUS
    <3> HIDE DEF Fails
    <3> QED
      BY <1>4, <3>1, LeastNumber
  <2>2. k \in 0..Len(code) /\ ~Stage(f, g, code, k)
    BY <2>1
  <2>3. CASE k = 0
    <3>1. IsState(f[0]) /\ IsState(g[0]) /\ f[0].skip = 0 /\ ~f[0].halted
      BY <1>3, StartedState
    <3>2. Alike(f[0], g[0])
      BY <1>3, <3>1 DEF Alike, Started
    <3>3. Skipped(f, code, 0)
      BY <3>1 DEF Skipped
    <3> QED
      BY <2>2, <2>3, <3>1, <3>2, <3>3 DEF Stage
  <2>4. CASE k \in 1..Len(code)
    <3>1. k - 1 \in 0..Len(code) /\ ~(k <= k - 1)
      BY <2>4
    <3>2. Stage(f, g, code, k - 1)
      BY <2>1, <3>1
    <3>3. f[k] = Step(f[k - 1], code[k]) /\ g[k] = Step(g[k - 1], code[k])
      BY <1>1, <1>2, <2>4 DEF RunsTo
    <3>4. given \cap Registers \subseteq Agree(f[0].m, g[0].m)
      BY <1>3
    <3>5. Stage(f, g, code, k)
      BY <2>4, <3>2, <3>3, <3>4, StageStep
    <3> QED
      BY <2>2, <3>5
  <2> QED
    BY <2>2, <2>3, <2>4
<1>5. PICK len \in Nat : len = Len(code)
  OBVIOUS
<1>6. Stage(f, g, code, len)
  BY <1>4, <1>5
<1>7. ASSUME NeverHalts(code), ~f[len].fault,
             NEW r \in Written(code, len + 1) \cap Registers
      PROVE  r \in Agree(f[len].m, g[len].m)
  <2>1. PICK j \in 1..len : /\ r \in Targets(code[j])
                            /\ \A l \in 1..(j - 1) : code[l].op = "MaskTest" => l + code[l].b \notin j..len
    <3>1. len + 1 - 1 = len
      OBVIOUS
    <3>2. r \in UNION {Targets(code[j]) : j \in {j \in 1..len : \A l \in 1..(j - 1) :
                      code[l].op = "MaskTest" => l + code[l].b \notin j..len}}
      BY <1>7, <3>1 DEF Written
    <3> QED
      BY <3>2
  <2>2. Skipped(f, code, len) /\ Covered(f, g, code, j, len) /\ f[len].skip \in Nat
    BY <1>6, <1>7 DEF Stage, Alike, IsState
  <2>3. f[len].skip = 0
    <3> SUFFICES ASSUME f[len].skip > 0 PROVE FALSE
      BY <2>2
    <3>1. PICK l \in 1..len : code[l].op = "MaskTest" /\ l + code[l].b = len + f[len].skip
      BY <2>2 DEF Skipped
    <3>2. code[l].b \in 0..(len - l)
      BY <1>5, <3>1 DEF SkipsLand
    <3> QED
      BY <2>2, <3>1, <3>2
  <2>4. len + f[len].skip = len
    BY <2>3
  <2> QED
    BY <1>7, <2>1, <2>2, <2>4 DEF Covered
<1>8. NeverHalts(code) /\ ~f[len].fault => Written(code, len + 1) \cap Registers \subseteq Agree(f[len].m, g[len].m)
  BY <1>7
<1> QED
  BY <1>1, <1>2, <1>3, <1>5, <1>6, <1>8 DEF Stage

\* A colour has three components.
IsColor(v) == Len(v) = 3
HoldsColors(s) == IsColor(s.out.color) /\ IsColor(s.m.prevOut)

\* What an instruction emits or leaves as history is a colour.
LEMMA StepColors ==
  ASSUME NEW s, IsState(s), HoldsColors(s), NEW ins, Skippable(ins)
  PROVE  HoldsColors(Step(s, ins))
<1> DEFINE t == Step(s, ins)
<1>1. CASE s.fault \/ s.halted
  BY <1>1, StepCases
<1>2. CASE ~s.fault /\ ~s.halted /\ s.skip > 0
  <2>1. t = [s EXCEPT !.skip = @ - 1]
    BY <1>2, StepCases
  <2> QED
    BY <2>1 DEF IsState, HoldsColors
<1>3. CASE Going(s) /\ Faults(s.m.regs, ins, s.bank)
  <2>1. t = [s EXCEPT !.fault = TRUE]
    BY <1>3, StepCases
  <2> QED
    BY <2>1 DEF IsState, HoldsColors
<1>4. CASE Going(s) /\ ~Faults(s.m.regs, ins, s.bank)
  <2> DEFINE args == Args(s.m.regs, ins)
  <2>1. Follows(t, s, ins, args)
    BY <1>4, StepCases
  <2> HIDE DEF t
  <2>2. IsColor(SubSeq(args, 1, 3)) /\ IsColor(Black)
    BY DEF IsColor, Black
  <2>3. ins.op = "PrevWrite" => IsColor(args)
    <3> SUFFICES ASSUME ins.op = "PrevWrite" PROVE IsColor(args)
      OBVIOUS
    <3>1. Sources(ins) = Run3(ins.a)
      BY DEF Sources, ReadsOne, Unary, Spreading, Binary, InPlace, Gathering, Triple
    <3>2. DOMAIN Sources(ins) = 1..3
      BY <3>1 DEF Run3
    <3> QED
      BY <3>2 DEF Args, IsColor
  <2> HIDE DEF args
  <2> QED
    BY <2>1, <2>2, <2>3 DEF Follows, OutAfter, PastAfter, HoldsColors, t
<1>5. s.skip = 0 \/ s.skip > 0
  BY DEF IsState
<1> QED
  BY <1>1, <1>2, <1>3, <1>4, <1>5 DEF Going

\* And so is what a section leaves, if it started with one.
LEMMA SectionColors ==
  ASSUME NEW code, Len(code) \in Nat, SkipsLand(code), NEW m, IsMachine(m), IsColor(m.prevOut),
         NEW bank
  PROVE  HoldsColors(Execute(m, code, bank))
<1>1. PICK f : RunsTo(f, Started(m, bank), code, Len(code)) /\ Execute(m, code, bank) = f[Len(code)]
  BY ExecuteRuns
<1> DEFINE Holds(k) == IsState(f[k]) /\ HoldsColors(f[k])
           Fails == {k \in 0..Len(code) : ~Holds(k)}
<1>2. ASSUME Fails # {} PROVE FALSE
  <2>1. PICK k \in Fails : \A n \in Fails : k <= n
    <3>1. Fails \in SUBSET Nat
      OBVIOUS
    <3> HIDE DEF Fails
    <3> QED
      BY <1>2, <3>1, LeastNumber
  <2>2. k \in 0..Len(code) /\ ~Holds(k)
    BY <2>1
  <2>3. CASE k = 0
    <3>1. f[0] = Started(m, bank)
      BY <1>1 DEF RunsTo
    <3>2. IsState(f[0])
      BY <3>1, StartedState
    <3>3. f[0].out.color = Black /\ f[0].m = m
      BY <3>1 DEF Started, Dark
    <3>4. HoldsColors(f[0])
      BY <3>3 DEF HoldsColors, IsColor, Black
    <3> QED
      BY <2>2, <2>3, <3>2, <3>4
  <2>4. CASE k \in 1..Len(code)
    <3>1. k - 1 \in 0..Len(code) /\ ~(k <= k - 1)
      BY <2>4
    <3>2. IsState(f[k - 1]) /\ HoldsColors(f[k - 1])
      BY <2>1, <3>1
    <3>3. f[k] = Step(f[k - 1], code[k])
      BY <1>1, <2>4 DEF RunsTo
    <3>4. Skippable(code[k])
      BY <2>4, SectionSkippable
    <3>5. IsState(f[k]) /\ HoldsColors(f[k])
      BY <3>2, <3>3, <3>4, StepWrites, StepColors
    <3> QED
      BY <2>2, <3>5
  <2> QED
    BY <2>2, <2>3, <2>4
<1>3. Holds(Len(code))
  BY <1>2
<1> QED
  BY <1>1, <1>3

-----------------------------------------------------------------------------
(* The shell's runs.                                                  *)

\* The registers that only the inputs of a pixel are put in.
Loaded == {R_I, R_U, R_PREV, R_PREV + 1, R_PREV + 2}

\* Outside rs, m holds what n holds.
SameOutside(rs, m, n) == \A r \in Registers \ rs : m.regs[r] = n.regs[r]

\* What is active was loaded.
LEMMA SectionsLoaded ==
  ASSUME program \in Programs
  PROVE  /\ Len(program.once) \in Nat /\ SkipsLand(program.once)
         /\ Len(program.frame) \in Nat /\ SkipsLand(program.frame)
         /\ Len(program.pixel) \in Nat /\ SkipsLand(program.pixel)
         /\ Len(program.sim) \in Nat /\ SkipsLand(program.sim)
BY ProgramsAssumption

\* A new machine is one.
LEMMA NewMachine == IsMachine(New)
BY DEF New, IsMachine

\* The once section leaves a machine.
LEMMA OnceMachine ==
  ASSUME program \in Programs
  PROVE  IsMachine(RunOnce(New, program).m)
BY SectionsLoaded, NewMachine, SectionWrites DEF RunOnce, IsState

\* What loading a pixel's inputs makes of the registers.
LEMMA LoadedMachine ==
  ASSUME NEW m, IsMachine(m), NEW i, NEW prev
  PROVE  /\ IsMachine(LoadInputs(m, i, prev))
         /\ SameOutside(Loaded, LoadInputs(m, i, prev), m)
         /\ LoadInputs(m, i, prev).prevOut = prev
         /\ LoadInputs(m, i, prev).prevWritten = FALSE
BY DEF LoadInputs, IsMachine, Loaded, SameOutside

\* Two machines given the same inputs hold them alike.
LEMMA LoadedAlike ==
  ASSUME NEW m, IsMachine(m), NEW n, IsMachine(n), NEW i, NEW prev
  PROVE  /\ Loaded \cap Registers \subseteq Agree(LoadInputs(m, i, prev), LoadInputs(n, i, prev))
         /\ Agree(m, n) \subseteq Agree(LoadInputs(m, i, prev), LoadInputs(n, i, prev))
         /\ SamePast(LoadInputs(m, i, prev), LoadInputs(n, i, prev))
<1> DEFINE x == LoadInputs(m, i, prev)
           y == LoadInputs(n, i, prev)
<1>1. \A r \in Registers : r \in Loaded => x.regs[r] = y.regs[r]
  BY DEF LoadInputs, IsMachine, Loaded, R_I, R_U, R_PREV
<1>2. \A r \in Registers \ Loaded : x.regs[r] = m.regs[r] /\ y.regs[r] = n.regs[r]
  <2>1. SameOutside(Loaded, x, m) /\ SameOutside(Loaded, y, n)
    BY LoadedMachine
  <2> QED
    BY <2>1 DEF SameOutside
<1>3. SamePast(x, y)
  <2>1. x.prevOut = prev /\ x.prevWritten = FALSE
    BY LoadedMachine
  <2>2. y.prevOut = prev /\ y.prevWritten = FALSE
    BY LoadedMachine
  <2> QED
    BY <2>1, <2>2 DEF SamePast
<1> HIDE DEF x, y
<1>4. Loaded \cap Registers \subseteq Agree(x, y) /\ Agree(m, n) \subseteq Agree(x, y)
  BY <1>1, <1>2 DEF Agree
<1> QED
  BY <1>3, <1>4 DEF x, y

\* The machine the frame section is started on.
Timed(m, t, dt) ==
  [m EXCEPT !.regs = [r \in Registers |-> CASE r = R_T -> <<"T", t>>
                                            [] r = R_DT /\ program.readsDt -> <<"DT", dt>>
                                            [] OTHER -> @[r]]]

\* It holds the time, and otherwise what it held before.
LEMMA TimedMachine ==
  ASSUME NEW m, IsMachine(m), NEW t, NEW dt
  PROVE  /\ IsMachine(Timed(m, t, dt))
         /\ SameOutside(ShowInputs, Timed(m, t, dt), m)
BY DEF Timed, IsMachine, ShowInputs, SameOutside

\* Two machines given the same time hold it alike.
LEMMA TimedAlike ==
  ASSUME NEW m, IsMachine(m), NEW n, IsMachine(n), NEW t, NEW dt
  PROVE  /\ ShowInputs \cap Registers \subseteq Agree(Timed(m, t, dt), Timed(n, t, dt))
         /\ Agree(m, n) \subseteq Agree(Timed(m, t, dt), Timed(n, t, dt))
<1> DEFINE x == Timed(m, t, dt)
           y == Timed(n, t, dt)
<1>1. \A r \in Registers : r \in ShowInputs => x.regs[r] = y.regs[r]
  BY DEF Timed, IsMachine, ShowInputs, R_T, R_DT
<1>2. \A r \in Registers \ ShowInputs : x.regs[r] = m.regs[r] /\ y.regs[r] = n.regs[r]
  BY TimedMachine DEF SameOutside
<1> HIDE DEF x, y
<1>3. ShowInputs \cap Registers \subseteq Agree(x, y) /\ Agree(m, n) \subseteq Agree(x, y)
  BY <1>1, <1>2 DEF Agree
<1> QED
  BY <1>3 DEF x, y

\* A program that does not read dt runs its frame section the same at any dt.
LEMMA RateFree ==
  ASSUME NEW m, NEW t, NEW d1, NEW d2, ~program.readsDt
  PROVE  RunFrameAt(m, program, t, d1) = RunFrameAt(m, program, t, d2)
BY DEF RunFrameAt

\* The frame section leaves a machine, and the registers it does not write.
LEMMA FrameKeeps ==
  ASSUME program \in Programs, NEW m, IsMachine(m), NEW t, NEW dt
  PROVE  /\ IsMachine(RunFrameAt(m, program, t, dt).m)
         /\ SameOutside(ShowInputs \cup AllTargets(program.frame), RunFrameAt(m, program, t, dt).m, m)
<1>1. RunFrameAt(m, program, t, dt) = Execute(Timed(m, t, dt), program.frame, NoArrays)
  BY DEF RunFrameAt, Timed
<1>2. IsMachine(Timed(m, t, dt)) /\ SameOutside(ShowInputs, Timed(m, t, dt), m)
  BY TimedMachine
<1> DEFINE s == Execute(Timed(m, t, dt), program.frame, NoArrays)
<1>3. /\ IsState(s)
      /\ \A r \in Registers \ AllTargets(program.frame) : s.m.regs[r] = Timed(m, t, dt).regs[r]
  BY <1>2, SectionsLoaded, SectionWrites
<1> HIDE DEF s
<1>4. IsMachine(s.m) /\ SameOutside(ShowInputs \cup AllTargets(program.frame), s.m, m)
  BY <1>2, <1>3 DEF IsState, SameOutside
<1> QED
  BY <1>1, <1>4 DEF s

\* A pixel leaves a machine, and the registers the program does not write.
LEMMA PixelKeeps ==
  ASSUME program \in Programs, NEW m, IsMachine(m), NEW i, NEW prev, NEW bank
  PROVE  /\ IsMachine(RunPixel(m, program, i, prev, bank).m)
         /\ SameOutside(Loaded \cup AllTargets(program.pixel), RunPixel(m, program, i, prev, bank).m, m)
<1> DEFINE n == LoadInputs(m, i, prev)
           s == Execute(n, program.pixel, bank)
<1>1. RunPixel(m, program, i, prev, bank) = s
  BY DEF RunPixel
<1>2. IsMachine(n) /\ SameOutside(Loaded, n, m)
  BY LoadedMachine
<1>3. IsState(s) /\ \A r \in Registers \ AllTargets(program.pixel) : s.m.regs[r] = n.regs[r]
  BY <1>2, SectionsLoaded, SectionWrites
<1> HIDE DEF n, s
<1>4. IsMachine(s.m) /\ SameOutside(Loaded \cup AllTargets(program.pixel), s.m, m)
  BY <1>2, <1>3 DEF IsState, SameOutside
<1> QED
  BY <1>1, <1>4

\* A pixel shows a colour and leaves one as its history.
LEMMA PixelColors ==
  ASSUME program \in Programs, NEW m, IsMachine(m), NEW i, NEW prev, IsColor(prev), NEW bank
  PROVE  HoldsColors(RunPixel(m, program, i, prev, bank))
<1>1. IsMachine(LoadInputs(m, i, prev)) /\ LoadInputs(m, i, prev).prevOut = prev
  BY LoadedMachine
<1>2. IsColor(LoadInputs(m, i, prev).prevOut)
  BY <1>1
<1> QED
  BY <1>1, <1>2, SectionsLoaded, SectionColors DEF RunPixel

\* The simulation's step leaves a machine, and if it is disciplined makes of the
\* elements what any other machine would.
LEMMA SimSteps ==
  ASSUME program \in Programs, NEW m, IsMachine(m), NEW t, NEW bank
  PROVE  /\ IsMachine(RunSim(m, program, t, bank).m)
         /\ SimDisciplined => RunSim(m, program, t, bank).bank = RunSim(New, program, t, bank).bank
<1> DEFINE x == [m EXCEPT !.regs[R_T] = <<"T", t>>]
           y == [New EXCEPT !.regs[R_T] = <<"T", t>>]
<1>1. RunSim(m, program, t, bank) = Execute(x, program.sim, bank)
      /\ RunSim(New, program, t, bank) = Execute(y, program.sim, bank)
  BY DEF RunSim
<1>2. IsMachine(x)
  BY DEF IsMachine
<1>3. IsMachine(y)
  BY NewMachine DEF IsMachine
<1>4. {R_T} \cap Registers \subseteq Agree(x, y)
  BY NewMachine DEF IsMachine, Agree
<1> HIDE DEF x, y
<1>5. IsState(Execute(x, program.sim, bank))
  BY <1>2, SectionsLoaded, SectionWrites
<1>6. ASSUME SimDisciplined
      PROVE  Execute(x, program.sim, bank).bank = Execute(y, program.sim, bank).bank
  <2>1. ReadsOnly(program.sim, {R_T})
    BY <1>6 DEF SimDisciplined
  <2>2. Alike(Execute(x, program.sim, bank), Execute(y, program.sim, bank))
    BY <1>2, <1>3, <1>4, <2>1, SectionsLoaded, SectionAlike
  <2> QED
    BY <2>2 DEF Alike
<1> QED
  BY <1>1, <1>5, <1>6 DEF IsState

-----------------------------------------------------------------------------
(* The inductive invariant.                                                 *)

\* A device that has activated the program, and nothing else.
Once == RunOnce(New, program).m

\* And has run the frame section at this frame's show time.
Framed == RunFrameAt(Once, program, show.t, show.dt).m

\* What a core's machine keeps of activation whatever it runs.
OnceKept == Registers \ (Inputs \cup AllTargets(program.frame) \cup AllTargets(program.pixel))

\* And of the frame section whatever pixels it renders.
FrameKept == ((ShowInputs \cup FromOnce \cup FromFrame) \ Loaded) \cap Registers

First(c) == IF c = 1 THEN 0 ELSE limit[1]

\* The pixel rendered alone, on the elements and the history of this frame.
Ideal(i) == Alone(i, PrevOf(before, i), show.dt)

Typed ==
  /\ program \in Programs
  /\ show \in [t : Times \cup {0}, dt : Dts]
  /\ DOMAIN machine = Cores /\ \A c \in Cores : IsMachine(machine[c])
  /\ IsMachine(base) /\ IsMachine(master)
  /\ cursor \in [Cores -> Nat] /\ limit \in [Cores -> Nat]
  /\ DOMAIN strip = Leds /\ DOMAIN history = Leds
  /\ \A i \in Leds : IsColor(strip[i]) /\ IsColor(history[i])
  /\ fresh \subseteq Leds

\* The cores have disjoint ranges, and what is fresh they have passed.
Ranges ==
  /\ \A c \in Cores : cursor[c] <= limit[c]
  /\ limit[1] <= cursor[2] /\ limit[2] <= Count
  /\ \A i \in fresh : i < cursor[1] \/ (limit[1] <= i /\ i < cursor[2])
  /\ \A i \in Leds \ fresh : history[i] = before[i]

\* Each core's machine has what a pixel may read of activation, and while there
\* is a range to render also what it may read of this frame.
Ready ==
  /\ \A c \in Cores : OnceKept \subseteq Agree(machine[c], Once)
  /\ \/ limit[1] = 0 /\ limit[2] = 0
     \/ /\ \A c \in Cores : FrameKept \subseteq Agree(machine[c], Framed)
        /\ FrameKept \subseteq Agree(base, Framed)

Shown(i) ==
  ~Ideal(i).fault /\ strip[i] = Ideal(i).out.color /\ history[i] = Ideal(i).m.prevOut

\* From j on the core's range was given up.
StoppedAt(c, j) ==
  /\ Ideal(j).fault
  /\ \A i \in First(c)..(j - 1) : i \in fresh
  /\ \A i \in j..(limit[c] - 1) : i \notin fresh

\* A core has rendered all it has passed, or faulted and rendered all before that.
Progress(c) ==
  \/ \A i \in First(c)..(cursor[c] - 1) : i \in fresh
  \/ cursor[c] = limit[c] /\ \E j \in First(c)..(limit[c] - 1) : StoppedAt(c, j)

\* The shell runs the once section, if there is one.
OnceRuns == Shell = "Device" \/ \A p \in Programs : p.once = <<>>

RenderInv ==
  /\ Typed
  /\ Ranges
  /\ (Disciplined /\ OnceRuns) => /\ Ready
                                  /\ \A i \in fresh : Shown(i)
                                  /\ \A c \in Cores : Progress(c)
  /\ AnyMasterWillDo

-----------------------------------------------------------------------------
(* What a frame and a pixel do to the machines.                             *)

\* The sections of a disciplined program leave the registers that are kept.
LEMMA KeptApart ==
  ASSUME Disciplined
  PROVE  /\ OnceKept \cap (ShowInputs \cup AllTargets(program.frame)) = {}
         /\ OnceKept \cap (Loaded \cup AllTargets(program.pixel)) = {}
         /\ FrameKept \cap (Loaded \cup AllTargets(program.pixel)) = {}
<1>1. Inputs = ShowInputs \cup Loaded
  BY DEF Inputs, Loaded
<1>2. FromOnce \cap AllTargets(program.pixel) = {} /\ FromFrame \cap AllTargets(program.pixel) = {}
  BY DEF FromOnce, FromFrame
<1>3. ShowInputs \cap AllTargets(program.pixel) = {}
  BY DEF Disciplined
<1>4. FrameKept \cap (Loaded \cup AllTargets(program.pixel)) = {}
  BY <1>2, <1>3 DEF FrameKept
<1> QED
  BY <1>1, <1>4 DEF OnceKept

\* Agreement is handed on by a run that leaves the registers in question alone.
LEMMA AgreeKept ==
  ASSUME NEW rs, NEW kept, kept \cap rs = {}, NEW x, NEW m, NEW n,
         SameOutside(rs, x, m), kept \subseteq Agree(m, n)
  PROVE  kept \subseteq Agree(x, n)
BY DEF SameOutside, Agree

\* A frame section started on a machine that kept what activation left does what
\* it would do on a device that has activated the program and nothing else.
LEMMA FrameAlike ==
  ASSUME program \in Programs, Disciplined, NEW m, IsMachine(m),
         OnceKept \subseteq Agree(m, Once), NEW t, NEW dt
  PROVE  /\ RunFrameAt(m, program, t, dt).fault = RunFrameAt(Once, program, t, dt).fault
         /\ ~RunFrameAt(m, program, t, dt).fault =>
              FrameKept \subseteq Agree(RunFrameAt(m, program, t, dt).m, RunFrameAt(Once, program, t, dt).m)
<1> DEFINE x == Timed(m, t, dt)
           y == Timed(Once, t, dt)
           s == Execute(x, program.frame, NoArrays)
           q == Execute(y, program.frame, NoArrays)
<1>1. RunFrameAt(m, program, t, dt) = s /\ RunFrameAt(Once, program, t, dt) = q
  BY DEF RunFrameAt, Timed
<1>2. IsMachine(Once)
  BY OnceMachine DEF Once
<1>3. IsMachine(x) /\ IsMachine(y)
  BY <1>2, TimedMachine
<1>4. ShowInputs \cap Registers \subseteq Agree(x, y) /\ Agree(m, Once) \subseteq Agree(x, y)
  BY <1>2, TimedAlike
<1>5. FromOnce \cap Registers \subseteq OnceKept
  BY DEF FromOnce, OnceKept
<1>6. (ShowInputs \cup FromOnce) \cap Registers \subseteq Agree(x, y)
  BY <1>4, <1>5
<1>7. ReadsOnly(program.frame, ShowInputs \cup FromOnce) /\ NeverHalts(program.frame)
  BY DEF Disciplined
<1> HIDE DEF x, y
<1>8. /\ Alike(s, q)
      /\ Agree(x, y) \subseteq Agree(s.m, q.m)
      /\ NeverHalts(program.frame) /\ ~s.fault =>
           Written(program.frame, Len(program.frame) + 1) \cap Registers \subseteq Agree(s.m, q.m)
  BY <1>3, <1>6, <1>7, SectionsLoaded, SectionAlike
<1> HIDE DEF s, q
<1>9. ~s.fault => FrameKept \subseteq Agree(s.m, q.m)
  BY <1>6, <1>7, <1>8 DEF FrameKept, FromFrame
<1> QED
  BY <1>1, <1>8, <1>9 DEF Alike

\* A pixel on a machine that kept what the frame section left, and one on the
\* machine as it left it, come to the same.
LEMMA PixelAlike ==
  ASSUME program \in Programs, Disciplined, NEW m, IsMachine(m), NEW n, IsMachine(n),
         FrameKept \subseteq Agree(m, n), NEW i, NEW prev, NEW bank
  PROVE  /\ Alike(RunPixel(m, program, i, prev, bank), RunPixel(n, program, i, prev, bank))
         /\ SamePast(RunPixel(m, program, i, prev, bank).m, RunPixel(n, program, i, prev, bank).m)
<1> DEFINE x == LoadInputs(m, i, prev)
           y == LoadInputs(n, i, prev)
<1>1. RunPixel(m, program, i, prev, bank) = Execute(x, program.pixel, bank)
      /\ RunPixel(n, program, i, prev, bank) = Execute(y, program.pixel, bank)
  BY DEF RunPixel
<1>2. IsMachine(x) /\ IsMachine(y)
  BY LoadedMachine
<1>3. Loaded \cap Registers \subseteq Agree(x, y) /\ Agree(m, n) \subseteq Agree(x, y) /\ SamePast(x, y)
  BY LoadedAlike
<1>4. ReadsOnly(program.pixel, Inputs \cup FromOnce \cup FromFrame)
  BY DEF Disciplined
<1>5. (Inputs \cup FromOnce \cup FromFrame) \cap Registers \subseteq Agree(x, y)
  <2>1. Inputs = ShowInputs \cup Loaded
    BY DEF Inputs, Loaded
  <2> HIDE DEF x, y
  <2> QED
    BY <1>3, <2>1 DEF FrameKept
<1> HIDE DEF x, y
<1>6. Alike(Execute(x, program.pixel, bank), Execute(y, program.pixel, bank))
      /\ SamePast(Execute(x, program.pixel, bank).m, Execute(y, program.pixel, bank).m)
  BY <1>2, <1>3, <1>4, <1>5, SectionsLoaded, SectionAlike
<1> QED
  BY <1>1, <1>6

-----------------------------------------------------------------------------
(* The invariant is inductive.                                              *)

\* A program without a once section is activated by doing nothing.
LEMMA ActivatedIsOnce ==
  ASSUME OnceRuns, program \in Programs
  PROVE  Activated(program) = Once
<1>1. CASE Shell = "Device"
  BY <1>1 DEF Activated, Once
<1>2. CASE Shell # "Device"
  <2>1. program.once = <<>>
    BY <1>2 DEF OnceRuns
  <2>2. PICK f : RunsTo(f, Started(New, NoArrays), <<>>, Len(<<>>))
                 /\ Execute(New, <<>>, NoArrays) = f[Len(<<>>)]
    <3>1. Len(<<>>) \in Nat
      OBVIOUS
    <3> QED
      BY <3>1, ExecuteRuns
  <2>3. Len(<<>>) = 0
    OBVIOUS
  <2>4. Execute(New, <<>>, NoArrays) = Started(New, NoArrays)
    BY <2>2, <2>3 DEF RunsTo
  <2>5. RunOnce(New, program).m = New
    BY <2>1, <2>4 DEF RunOnce, Started
  <2> QED
    BY <1>2, <2>5 DEF Activated, Once
<1> QED
  BY <1>1, <1>2

LEMMA InitRender ==
  ASSUME Init
  PROVE  RenderInv
<1>1. /\ program \in Programs /\ fresh = {} /\ history = before /\ show.t = 0
      /\ base = Activated(program) /\ master = New
      /\ \A c \in Cores : cursor[c] = 0 /\ limit[c] = 0 /\ machine[c] = Activated(program)
  BY DEF Init
<1>2. IsMachine(Once) /\ IsMachine(New)
  BY <1>1, OnceMachine, NewMachine DEF Once
<1>3. IsMachine(Activated(program))
  BY <1>1, <1>2 DEF Activated, Once
<1>4. Typed
  <2>1. show = [t |-> 0, dt |-> CHOOSE d \in Dts : TRUE] /\ (CHOOSE d \in Dts : TRUE) \in Dts
    BY DtsAssumption DEF Init
  <2>2. \A i \in Leds : strip[i] = Black /\ history[i] = Black
    BY DEF Init
  <2>3. IsColor(Black)
    BY DEF IsColor, Black
  <2> QED
    BY <1>1, <1>2, <1>3, <2>1, <2>2, <2>3 DEF Init, Typed
<1>5. Ranges
  BY <1>1, CountAssumption DEF Ranges, Cores
<1>6. ASSUME OnceRuns PROVE Ready
  <2>1. \A c \in Cores : machine[c] = Once
    BY <1>1, <1>6, ActivatedIsOnce
  <2>2. \A c \in Cores : Agree(machine[c], Once) = Registers
    BY <2>1 DEF Agree
  <2> QED
    BY <1>1, <2>2 DEF Ready, Cores, OnceKept
<1>7. \A c \in Cores : Progress(c)
  BY <1>1 DEF Progress, First, Cores
<1>8. AnyMasterWillDo
  BY <1>1 DEF AnyMasterWillDo
<1> QED
  BY <1>1, <1>4, <1>5, <1>6, <1>7, <1>8 DEF RenderInv

\* A frame starts: no pixel of it is rendered yet, and both cores have the
\* machine its frame section left.
LEMMA FrameStep ==
  ASSUME RenderInv, NEW t \in Times, NEW dt \in Dts, NEW k \in 0..Count, Frame(t, dt, k)
  PROVE  RenderInv'
<1> DEFINE s == RunFrameAt(machine[1], program, t, dt)
           q == RunFrameAt(Once, program, t, dt)
           sim == Simulated(t)
<1>1. program \in Programs /\ IsMachine(machine[1]) /\ IsMachine(master) /\ 1 \in Cores
  BY DEF RenderInv, Typed, Cores
<1>2. /\ program' = program /\ fresh' = {} /\ strip' = strip /\ history' = history /\ before' = history
      /\ show' = [t |-> t, dt |-> dt] /\ machine' = [c \in Cores |-> s.m]
      /\ base' = s.m /\ master' = sim.m /\ elements' = sim.bank /\ earlier' = elements
      /\ cursor' = IF s.fault THEN [c \in Cores |-> 0] ELSE <<0, k>>
      /\ limit' = IF s.fault THEN [c \in Cores |-> 0] ELSE <<k, Count>>
  BY DEF Frame
<1>3. IsMachine(s.m) /\ SameOutside(ShowInputs \cup AllTargets(program.frame), s.m, machine[1])
  BY <1>1, FrameKeeps
<1> HIDE DEF s
<1>4. /\ cursor' \in [Cores -> Nat] /\ limit' \in [Cores -> Nat]
      /\ \/ s.fault /\ cursor'[1] = 0 /\ cursor'[2] = 0 /\ limit'[1] = 0 /\ limit'[2] = 0
         \/ ~s.fault /\ cursor'[1] = 0 /\ cursor'[2] = k /\ limit'[1] = k /\ limit'[2] = Count
  BY <1>2, CountAssumption DEF Cores
<1>5. IsMachine(sim.m)
  <2>1. CASE program.sim = <<>>
    BY <1>1, <2>1 DEF Simulated
  <2>2. CASE program.sim # <<>>
    BY <1>1, <2>2, SimSteps DEF Simulated
  <2> QED
    BY <2>1, <2>2
<1>6. Typed'
  BY <1>2, <1>3, <1>4, <1>5 DEF RenderInv, Typed, Leds
<1>7. Ranges'
  BY <1>2, <1>4, CountAssumption DEF Ranges, Cores, Leds
<1>8. \A c \in Cores : Progress(c)'
  BY <1>4, CountAssumption DEF Progress, First, Cores
<1>9. ASSUME Disciplined, OnceRuns PROVE Ready'
  <2>1. Once' = Once /\ OnceKept' = OnceKept /\ FrameKept' = FrameKept
    BY <1>2 DEF Once, OnceKept, FrameKept, FromOnce, FromFrame, ShowInputs, Inputs
  <2>2. Framed' = q.m
    BY <1>2, <2>1 DEF Framed
  <2>3. OnceKept \subseteq Agree(machine[1], Once)
    BY <1>1, <1>9 DEF RenderInv, Ready
  <2>4. OnceKept \subseteq Agree(s.m, Once)
    BY <1>3, <1>9, <2>3, KeptApart, AgreeKept
  <2>5. ~s.fault => FrameKept \subseteq Agree(s.m, q.m)
    BY <1>1, <1>9, <2>3, FrameAlike DEF s
  <2>6. base' = s.m /\ \A c \in Cores : machine'[c] = s.m
    BY <1>2
  <2> HIDE DEF q
  <2> QED
    BY <1>4, <2>1, <2>2, <2>4, <2>5, <2>6 DEF Ready
<1>10. Disciplined' => Disciplined
  BY <1>2 DEF Disciplined, FromOnce, FromFrame, ShowInputs, Inputs
<1>11. AnyMasterWillDo'
  <2> SUFFICES ASSUME SimDisciplined
               PROVE  sim.bank = IF program.sim = <<>> THEN elements
                                 ELSE RunSim(New, program, t, elements).bank
    BY <1>2 DEF AnyMasterWillDo, SimDisciplined
  <2>1. CASE program.sim = <<>>
    BY <2>1 DEF Simulated
  <2>2. CASE program.sim # <<>>
    BY <1>1, <2>2, SimSteps DEF Simulated
  <2> QED
    BY <2>1, <2>2
<1> QED
  BY <1>2, <1>6, <1>7, <1>8, <1>9, <1>10, <1>11 DEF RenderInv

\* A pixel is rendered once in a frame, with the history the frame began with.
LEMMA PixelIsNew ==
  ASSUME RenderInv, NEW c \in Cores, cursor[c] < limit[c]
  PROVE  /\ cursor[c] \in Leds /\ cursor[c] \notin fresh
         /\ PrevOf(history, cursor[c]) = PrevOf(before, cursor[c])
<1>1. Typed /\ Ranges
  BY DEF RenderInv
<1>2. PICK x \in Nat, y \in Nat, v \in Nat, w \in Nat :
        x = cursor[1] /\ y = cursor[2] /\ v = limit[1] /\ w = limit[2]
  BY <1>1 DEF Typed, Cores
<1>3. x <= v /\ y <= w /\ v <= y /\ w <= Count
  BY <1>1, <1>2 DEF Ranges, Cores
<1>4. cursor[c] \in Leds /\ cursor[c] \notin fresh
  <2>1. CASE c = 1
    BY <1>1, <1>2, <1>3, <2>1, CountAssumption DEF Ranges, Leds
  <2>2. CASE c = 2
    BY <1>1, <1>2, <1>3, <2>2, CountAssumption DEF Ranges, Leds
  <2> QED
    BY <2>1, <2>2 DEF Cores
<1>5. history[cursor[c]] = before[cursor[c]]
  BY <1>1, <1>4 DEF Ranges
<1> QED
  BY <1>4, <1>5 DEF PrevOf

\* The pixel a core renders shows, and faults, as it would alone.
LEMMA PixelAsIdeal ==
  ASSUME RenderInv, Disciplined, OnceRuns, NEW c \in Cores, cursor[c] < limit[c]
  PROVE  LET s == RunPixel(machine[c], program, cursor[c], PrevOf(history, cursor[c]), elements)
         IN  /\ s.fault = Ideal(cursor[c]).fault /\ s.out = Ideal(cursor[c]).out
             /\ s.m.prevOut = Ideal(cursor[c]).m.prevOut
<1>1. program \in Programs /\ IsMachine(machine[c])
  BY DEF RenderInv, Typed
<1>2. IsMachine(Once)
  BY <1>1, OnceMachine DEF Once
<1>3. IsMachine(Framed)
  BY <1>1, <1>2, FrameKeeps DEF Framed
<1>4. FrameKept \subseteq Agree(machine[c], Framed)
  <2>1. ~(limit[1] = 0 /\ limit[2] = 0)
    BY DEF RenderInv, Typed, Cores
  <2> QED
    BY <2>1 DEF RenderInv, Ready
<1> DEFINE i == cursor[c]
           prev == PrevOf(history, i)
           s == RunPixel(machine[c], program, i, prev, elements)
           q == RunPixel(Framed, program, i, prev, elements)
<1>5. Alike(s, q) /\ SamePast(s.m, q.m)
  BY <1>1, <1>3, <1>4, PixelAlike
<1>6. Ideal(i) = q
  BY PixelIsNew DEF Ideal, Alone, Framed, Once
<1> HIDE DEF s, q
<1> QED
  BY <1>5, <1>6 DEF Alike, SamePast, s

\* One turn of a core's loop.
LEMMA PixelStep ==
  ASSUME RenderInv, NEW c \in Cores, Pixel(c)
  PROVE  RenderInv'
<1> DEFINE i == cursor[c]
           s == RunPixel(machine[c], program, i, PrevOf(history, i), elements)
<1>1. Typed /\ Ranges /\ i < limit[c]
  BY DEF RenderInv, Pixel
<1>2. i \in Leds /\ i \notin fresh /\ i \in Nat
  BY <1>1, PixelIsNew, CountAssumption DEF Leds
<1>3. /\ program' = program /\ show' = show /\ limit' = limit /\ before' = before
      /\ base' = base /\ master' = master /\ elements' = elements /\ earlier' = earlier
      /\ machine' = [machine EXCEPT ![c] = s.m]
      /\ \/ /\ s.fault
            /\ cursor' = [cursor EXCEPT ![c] = limit[c]]
            /\ strip' = strip /\ fresh' = fresh /\ history' = history
         \/ /\ ~s.fault
            /\ cursor' = [cursor EXCEPT ![c] = i + 1]
            /\ strip' = [strip EXCEPT ![i] = s.out.color]
            /\ fresh' = fresh \cup {i}
            /\ history' = [history EXCEPT ![i] = s.m.prevOut]
  BY DEF Pixel, AfterFault
<1>4. IsMachine(s.m) /\ SameOutside(Loaded \cup AllTargets(program.pixel), s.m, machine[c])
  BY <1>1, PixelKeeps DEF Typed
<1> HIDE DEF s
<1>5. Disciplined /\ OnceRuns =>
        /\ s.fault = Ideal(i).fault /\ s.out.color = Ideal(i).out.color
        /\ s.m.prevOut = Ideal(i).m.prevOut
  BY <1>1, PixelAsIdeal DEF s
<1>6. Typed'
  <2>1. DOMAIN machine' = Cores /\ \A d \in Cores : IsMachine(machine'[d])
    BY <1>1, <1>3, <1>4 DEF Typed
  <2>2. cursor' \in [Cores -> Nat] /\ limit' \in [Cores -> Nat]
    BY <1>1, <1>2, <1>3 DEF Typed
  <2>3. DOMAIN strip' = Leds /\ DOMAIN history' = Leds /\ fresh' \subseteq Leds
    BY <1>1, <1>2, <1>3 DEF Typed
  <2>5. IsColor(s.out.color) /\ IsColor(s.m.prevOut)
    <3>1. IsColor(PrevOf(history, i))
      BY <1>1, <1>2 DEF Typed, PrevOf, IsColor, Black
    <3>2. program \in Programs /\ IsMachine(machine[c])
      BY <1>1 DEF Typed
    <3> QED
      BY <3>1, <3>2, PixelColors DEF HoldsColors, s
  <2>6. \A l \in Leds : IsColor(strip'[l]) /\ IsColor(history'[l])
    BY <1>1, <1>2, <1>3, <2>5 DEF Typed
  <2>4. Leds' = Leds
    BY DEF Leds
  <2> QED
    BY <1>1, <1>3, <2>1, <2>2, <2>3, <2>4, <2>6 DEF Typed
<1>7. Ranges'
  <2>1. PICK x \in Nat, y \in Nat, v \in Nat, w \in Nat :
          x = cursor[1] /\ y = cursor[2] /\ v = limit[1] /\ w = limit[2]
    BY <1>1 DEF Typed, Cores
  <2>2. x <= v /\ y <= w /\ v <= y /\ w <= Count
    BY <1>1, <2>1 DEF Ranges, Cores
  <2>3. \A d \in Cores : cursor[d] <= cursor'[d] /\ cursor'[d] <= limit[d]
    BY <1>1, <1>3, <2>1, <2>2 DEF Typed, Cores
  <2>4. \A l \in fresh' : l < cursor'[1] \/ (limit[1] <= l /\ l < cursor'[2])
    <3> SUFFICES ASSUME NEW l \in fresh' PROVE l < cursor'[1] \/ (limit[1] <= l /\ l < cursor'[2])
      OBVIOUS
    <3>1. l \in Nat
      BY <1>6, CountAssumption DEF Typed, Leds
    <3>2. cursor'[1] \in Nat /\ cursor'[2] \in Nat
      BY <1>6 DEF Typed, Cores
    <3>3. CASE l \in fresh
      BY <1>1, <2>1, <2>3, <3>1, <3>2, <3>3 DEF Ranges, Cores
    <3>4. CASE l = i /\ ~s.fault
      <4>1. cursor'[c] = i + 1
        BY <1>1, <1>3, <3>4 DEF Typed
      <4>2. CASE c = 1
        BY <1>2, <3>4, <4>1, <4>2
      <4>3. CASE c = 2
        BY <1>2, <2>1, <2>2, <3>4, <4>1, <4>3
      <4> QED
        BY <4>2, <4>3 DEF Cores
    <3> QED
      BY <1>3, <3>3, <3>4
  <2>5. \A l \in Leds \ fresh' : history'[l] = before[l]
    BY <1>1, <1>3 DEF Ranges, Typed
  <2>6. limit[1] <= cursor'[2]
    BY <1>6, <2>1, <2>2, <2>3 DEF Typed, Cores
  <2> QED
    BY <1>1, <1>3, <2>3, <2>4, <2>5, <2>6 DEF Ranges, Leds
<1>8. /\ Once' = Once /\ Framed' = Framed /\ OnceKept' = OnceKept /\ FrameKept' = FrameKept
      /\ \A l : Ideal(l)' = Ideal(l)
  BY <1>3 DEF Once, Framed, OnceKept, FrameKept, FromOnce, FromFrame, ShowInputs, Inputs,
              Ideal, Alone, PrevOf
<1>9. Disciplined' => Disciplined
  BY <1>3 DEF Disciplined, FromOnce, FromFrame, ShowInputs, Inputs
<1>10. ASSUME Disciplined, OnceRuns PROVE Ready'
  <2>1. Ready
    BY <1>10 DEF RenderInv
  <2>2. \A d \in Cores : machine'[d] = IF d = c THEN s.m ELSE machine[d]
    BY <1>1, <1>3 DEF Typed
  <2>3. OnceKept \subseteq Agree(s.m, Once)
    BY <1>4, <1>10, <2>1, KeptApart, AgreeKept DEF Ready
  <2>4. FrameKept \subseteq Agree(machine[c], Framed) => FrameKept \subseteq Agree(s.m, Framed)
    BY <1>4, <1>10, KeptApart, AgreeKept
  <2> QED
    BY <1>3, <1>8, <2>1, <2>2, <2>3, <2>4 DEF Ready
<1>11. ASSUME Disciplined, OnceRuns, NEW l \in fresh' PROVE Shown(l)'
  <2>1. CASE l \in fresh
    <3>1. l # i /\ Shown(l)
      BY <1>2, <1>11, <2>1 DEF RenderInv
    <3>2. strip'[l] = strip[l] /\ history'[l] = history[l]
      BY <1>1, <1>3, <3>1, <2>1 DEF Typed
    <3> QED
      BY <1>8, <3>1, <3>2 DEF Shown
  <2>2. CASE l = i /\ ~s.fault
    <3>1. strip'[i] = s.out.color /\ history'[i] = s.m.prevOut
      BY <1>1, <1>2, <1>3, <2>2 DEF Typed
    <3> QED
      BY <1>5, <1>8, <1>11, <2>2, <3>1 DEF Shown
  <2> QED
    BY <1>3, <1>11, <2>1, <2>2
<1>12. ASSUME Disciplined, OnceRuns, NEW d \in Cores PROVE Progress(d)'
  <2>1. Progress(d) /\ First(d)' = First(d)
    BY <1>3, <1>12 DEF RenderInv, First
  <2>2. PICK x \in Nat, y \in Nat, v \in Nat, w \in Nat :
          x = cursor[1] /\ y = cursor[2] /\ v = limit[1] /\ w = limit[2]
    BY <1>1 DEF Typed, Cores
  <2>3. x <= v /\ y <= w /\ v <= y /\ w <= Count
    BY <1>1, <2>2 DEF Ranges, Cores
  <2>4. CASE d # c
    <3>1. cursor'[d] = cursor[d] /\ limit'[d] = limit[d] /\ fresh \subseteq fresh'
      BY <1>1, <1>3, <2>4 DEF Typed
    <3>2. \A l \in First(d)..(limit[d] - 1) : l # i
      BY <1>1, <2>2, <2>3, <2>4 DEF First, Cores
    <3>3. ASSUME NEW j \in First(d)..(limit[d] - 1), StoppedAt(d, j) PROVE StoppedAt(d, j)'
      <4>1. \A l \in j..(limit[d] - 1) : l \in First(d)..(limit[d] - 1)
        BY <2>2, <3>3 DEF First, Cores
      <4>2. \A l \in j..(limit[d] - 1) : l \notin fresh'
        BY <1>3, <3>2, <3>3, <4>1 DEF StoppedAt
      <4> QED
        BY <1>3, <1>8, <2>1, <3>1, <3>3, <4>2 DEF StoppedAt
    <3> QED
      BY <2>1, <3>1, <3>3 DEF Progress
  <2>5. CASE d = c
    <3>1. \A l \in First(c)..(i - 1) : l \in fresh
      BY <1>1, <2>1, <2>2, <2>5 DEF Progress, Cores
    <3>2. CASE ~s.fault
      <4>1. cursor'[c] = i + 1 /\ fresh' = fresh \cup {i}
        BY <1>1, <1>3, <3>2 DEF Typed
      <4>2. \A l \in First(c)..(cursor'[c] - 1) : l \in First(c)..(i - 1) \/ l = i
        BY <1>2, <2>2, <4>1 DEF First
      <4>3. \A l \in First(c)..(cursor'[c] - 1) : l \in fresh'
        BY <3>1, <4>1, <4>2
      <4> QED
        BY <2>1, <2>5, <4>1, <4>3 DEF Progress
    <3>3. CASE s.fault
      <4>1. cursor'[c] = limit[c] /\ fresh' = fresh
        BY <1>1, <1>3, <3>3 DEF Typed
      <4>2. PICK j : j = i
        OBVIOUS
      <4>3. j \in First(c)..(limit[c] - 1)
        BY <1>1, <1>2, <2>2, <2>3, <4>2 DEF First, Cores
      <4>4. \A l \in j..(limit[c] - 1) : l \notin fresh
        BY <1>1, <2>2, <2>3, <4>2 DEF Ranges, Cores
      <4>5. Ideal(j).fault
        BY <1>5, <1>12, <3>3, <4>2
      <4>6. \A l \in First(c)..(j - 1) : l \in fresh
        BY <3>1, <4>2
      <4>7. StoppedAt(c, j)'
        BY <1>3, <1>8, <2>1, <2>5, <4>1, <4>4, <4>5, <4>6 DEF StoppedAt
      <4> QED
        BY <1>3, <2>1, <2>5, <4>1, <4>3, <4>7 DEF Progress
    <3> QED
      BY <3>2, <3>3
  <2> QED
    BY <2>4, <2>5
<1>13. AnyMasterWillDo'
  BY <1>3 DEF RenderInv, AnyMasterWillDo, SimDisciplined
<1> QED
  BY <1>6, <1>7, <1>9, <1>10, <1>11, <1>12, <1>13 DEF RenderInv

\* What holds of a state holds after a step that changes nothing.
LEMMA StutterStep ==
  ASSUME RenderInv, UNCHANGED vars
  PROVE  RenderInv'
<1>1. /\ program' = program /\ show' = show /\ machine' = machine /\ cursor' = cursor
      /\ limit' = limit /\ strip' = strip /\ fresh' = fresh /\ history' = history
      /\ before' = before /\ base' = base /\ master' = master /\ elements' = elements
      /\ earlier' = earlier
  BY DEF vars
<1>2. Typed' /\ Ranges'
  BY <1>1 DEF RenderInv, Typed, Ranges, Leds
<1>3. /\ Once' = Once /\ Framed' = Framed /\ OnceKept' = OnceKept /\ FrameKept' = FrameKept
      /\ \A l : Ideal(l)' = Ideal(l)
  BY <1>1 DEF Once, Framed, OnceKept, FrameKept, FromOnce, FromFrame, ShowInputs, Inputs,
              Ideal, Alone, PrevOf
<1>4. Ready => Ready'
  BY <1>1, <1>3 DEF Ready
<1>5. \A l : Shown(l) => Shown(l)'
  BY <1>1, <1>3 DEF Shown
<1>6. \A c \in Cores : Progress(c) => Progress(c)'
  BY <1>1, <1>3 DEF Progress, StoppedAt, First
<1>7. Disciplined' => Disciplined
  BY <1>1 DEF Disciplined, FromOnce, FromFrame, ShowInputs, Inputs
<1>8. AnyMasterWillDo'
  BY <1>1 DEF RenderInv, AnyMasterWillDo, SimDisciplined
<1> QED
  BY <1>1, <1>2, <1>4, <1>5, <1>6, <1>7, <1>8 DEF RenderInv

-----------------------------------------------------------------------------
(* The theorems.                                                            *)

\* The machines, the ranges of the cores and what is fresh stay as RenderInv has
\* them through frames, faults and pixels in any order (lumen-capi,
\* lumen_frame, lumen_machine_clone, lumen_render_range).
THEOREM RenderInvariant == Spec => []RenderInv
<1>1. Init => RenderInv
  BY InitRender
<1>2. RenderInv /\ [Next]_vars => RenderInv'
  <2> SUFFICES ASSUME RenderInv, [Next]_vars PROVE RenderInv'
    OBVIOUS
  <2>1. CASE Next
    BY <2>1, FrameStep, PixelStep DEF Next
  <2>2. CASE UNCHANGED vars
    BY <2>2, StutterStep
  <2> QED
    BY <2>1, <2>2
<1> QED
  BY <1>1, <1>2, PTL DEF Spec

\* Every LED rendered for this frame shows what a device would that had
\* activated the program and rendered nothing before: whatever this one rendered
\* before it, wherever the strip was split, whatever the other core has done,
\* and at any frame rate if the program does not read dt.
THEOREM ShowTimeDecides ==
  ASSUME OnceRuns
  PROVE  Spec => []RendersFromShowTime
<1>1. RenderInv => RendersFromShowTime
  <2> SUFFICES ASSUME RenderInv, Disciplined, OnceRuns, NEW i \in fresh, NEW dt \in FrameRates
               PROVE  LET alone == Alone(i, PrevOf(before, i), dt)
                      IN  strip[i] = alone.out.color /\ history[i] = alone.m.prevOut
    BY DEF RendersFromShowTime
  <2>1. Alone(i, PrevOf(before, i), dt) = Ideal(i)
    <3>1. CASE program.readsDt
      BY <3>1 DEF FrameRates, Ideal
    <3>2. CASE ~program.readsDt
      BY <3>2, RateFree DEF Alone, Ideal
    <3> QED
      BY <3>1, <3>2
  <2>2. Shown(i)
    BY DEF RenderInv
  <2> QED
    BY <2>1, <2>2 DEF Shown
<1> QED
  BY <1>1, RenderInvariant, PTL

\* Once both cores are done, an LED has been rendered exactly if no LED of its
\* core's range up to it faults: a fault costs the rest of that range, and no
\* fault costs an LED of the other core's.
THEOREM FaultsStayInTheirRange ==
  ASSUME OnceRuns
  PROVE  Spec => []FaultsCostOnlyTheRest
<1>1. RenderInv => FaultsCostOnlyTheRest
  <2> SUFFICES ASSUME RenderInv, Disciplined, OnceRuns, ~Rendering, NEW i \in Leds
               PROVE  LET first == IF i < limit[1] THEN 0 ELSE limit[1]
                      IN  i \in fresh <=> i < limit[2] /\ \A j \in first..i : ~Ideal(j).fault
    BY DEF FaultsCostOnlyTheRest, Ideal
  <2>1. Typed /\ Ranges
    BY DEF RenderInv
  <2>2. PICK c \in Cores : c = IF i < limit[1] THEN 1 ELSE 2
    BY DEF Cores
  <2>3. PICK x \in Nat, y \in Nat, v \in Nat, w \in Nat :
          x = cursor[1] /\ y = cursor[2] /\ v = limit[1] /\ w = limit[2]
    BY <2>1 DEF Typed, Cores
  <2>4. x = v /\ y = w /\ v <= w
    BY <2>1, <2>3 DEF Rendering, Ranges, Cores
  <2>5. First(c) = (IF i < limit[1] THEN 0 ELSE limit[1]) /\ cursor[c] = limit[c]
    <3>1. CASE i < limit[1]
      BY <2>2, <2>3, <2>4, <3>1 DEF First
    <3>2. CASE ~(i < limit[1])
      <4>1. c = 2 /\ cursor[2] = limit[2]
        BY <2>2, <2>3, <2>4, <3>2
      <4>2. First(2) = limit[1]
        BY DEF First
      <4> QED
        BY <3>2, <4>1, <4>2
    <3> QED
      BY <3>1, <3>2
  <2>6. i \in Nat /\ First(c) \in Nat /\ First(c) <= i /\ limit[c] \in Nat
    BY <2>2, <2>3, <2>5, CountAssumption DEF Leds
  <2>7. i \in fresh => i < limit[2]
    BY <2>1, <2>3, <2>4, <2>6 DEF Ranges
  <2>8. i < limit[2] => i < limit[c]
    BY <2>2, <2>3, <2>6
  <2>9. CASE \A j \in First(c)..(cursor[c] - 1) : j \in fresh
    <3>1. i < limit[2] => \A j \in First(c)..i : j \in First(c)..(cursor[c] - 1)
      BY <2>5, <2>6, <2>8
    <3>2. i < limit[2] => i \in fresh /\ \A j \in First(c)..i : ~Ideal(j).fault
      BY <2>6, <2>9, <3>1 DEF RenderInv, Shown
    <3> QED
      BY <2>5, <2>7, <3>2
  <2>10. CASE \E j \in First(c)..(limit[c] - 1) : StoppedAt(c, j)
    <3>1. PICK j \in First(c)..(limit[c] - 1) : StoppedAt(c, j)
      BY <2>10
    <3>2. CASE i < j
      <4>1. \A l \in First(c)..i : l \in fresh
        BY <2>6, <3>1, <3>2 DEF StoppedAt
      <4>2. i \in fresh /\ \A l \in First(c)..i : ~Ideal(l).fault
        BY <2>6, <4>1 DEF RenderInv, Shown
      <4> QED
        BY <2>5, <2>7, <4>2
    <3>3. CASE j <= i
      <4>1. j \in First(c)..i /\ Ideal(j).fault
        BY <2>6, <3>1, <3>3 DEF StoppedAt
      <4>2. i < limit[2] => i \notin fresh
        BY <2>6, <2>8, <3>1, <3>3 DEF StoppedAt
      <4> QED
        BY <2>5, <2>7, <4>1, <4>2
    <3> QED
      BY <2>6, <3>1, <3>2, <3>3
  <2> QED
    BY <2>9, <2>10 DEF RenderInv, Progress
<1> QED
  BY <1>1, RenderInvariant, PTL

\* Colours are colours, cursors stay on the strip, and no core passes its limit.
THEOREM TypeCorrect == Spec => []TypeOK
<1>1. RenderInv => TypeOK
  <2> SUFFICES ASSUME RenderInv PROVE TypeOK
    OBVIOUS
  <2>1. Typed /\ Ranges
    BY DEF RenderInv
  <2>2. PICK x \in Nat, y \in Nat, v \in Nat, w \in Nat :
          x = cursor[1] /\ y = cursor[2] /\ v = limit[1] /\ w = limit[2]
    BY <2>1 DEF Typed, Cores
  <2>3. x <= v /\ y <= w /\ v <= y /\ w <= Count
    BY <2>1, <2>2 DEF Ranges, Cores
  <2>4. \A c \in Cores : cursor[c] \in 0..Count /\ limit[c] \in 0..Count
    BY <2>2, <2>3, CountAssumption DEF Cores
  <2>5. cursor \in [Cores -> 0..Count] /\ limit \in [Cores -> 0..Count]
    BY <2>1, <2>4 DEF Typed
  <2> QED
    BY <2>1, <2>5 DEF TypeOK, Typed, Ranges, IsMachine, IsColor
<1> QED
  BY <1>1, RenderInvariant, PTL

\* A device that takes the simulation over, with the elements last broadcast and a
\* machine that has run nothing, goes on exactly as the master it replaces.
THEOREM MastersAreAlike == Spec => []AnyMasterWillDo
<1>1. RenderInv => AnyMasterWillDo
  BY DEF RenderInv
<1> QED
  BY <1>1, RenderInvariant, PTL

-----------------------------------------------------------------------------
(* One core for the whole strip.                                            *)

\* f has the states of a core that renders the first n LEDs.
WholeFor(f, n) ==
  \A k \in 0..(n - 1) :
    f[k] = RunPixel(IF k = 0 THEN base ELSE f[k - 1].m, program, k, PrevOf(before, k), elements)

\* There are such states, as far as one likes.
LEMMA WholeExists ==
  ASSUME NEW len \in Nat
  PROVE  \E f : WholeFor(f, len)
<1> DEFINE Fails == {n \in Nat : ~(\E f : WholeFor(f, n))}
<1> SUFFICES ASSUME Fails # {} PROVE FALSE
  OBVIOUS
<1>1. PICK n \in Fails : \A m \in Fails : n <= m
  <2>1. Fails \in SUBSET Nat
    OBVIOUS
  <2> HIDE DEF Fails
  <2> QED
    BY <2>1, LeastNumber
<1>2. n \in Nat /\ ~(\E f : WholeFor(f, n))
  BY <1>1
<1>3. \A m \in Nat : m < n => \E f : WholeFor(f, m)
  BY <1>1
<1> HIDE DEF Fails
<1>4. n # 0
  BY <1>2 DEF WholeFor
<1>5. n - 1 \in Nat /\ n - 1 < n
  BY <1>2, <1>4
<1>6. PICK f : WholeFor(f, n - 1)
  BY <1>3, <1>5
<1> DEFINE last == RunPixel(IF n - 1 = 0 THEN base ELSE f[n - 1 - 1].m, program, n - 1,
                            PrevOf(before, n - 1), elements)
           g == [k \in 0..(n - 1) |-> IF k = n - 1 THEN last ELSE f[k]]
<1>7. WholeFor(g, n)
  <2>1. \A k \in 0..(n - 1) : g[k] = IF k = n - 1 THEN last ELSE f[k]
    OBVIOUS
  <2>2. \A k \in 0..(n - 1) : k # 0 => k - 1 \in 0..(n - 1) /\ k - 1 # n - 1
    BY <1>2
  <2>3. \A k \in 0..(n - 1) : k # 0 => g[k - 1] = f[k - 1]
    BY <2>1, <2>2
  <2>4. \A k \in 0..(n - 1) : k # n - 1 => k \in 0..(n - 1 - 1)
    BY <1>2
  <2> HIDE DEF g
  <2> QED
    BY <1>6, <2>1, <2>3, <2>4 DEF WholeFor
<1> QED
  BY <1>2, <1>7

\* WholeTo is what it says it is.
LEMMA WholeSteps == WholeFor(WholeTo, Count)
<1>1. PICK g : WholeFor(g, Count)
  BY WholeExists, CountAssumption
<1> DEFINE Next1(f) == [i \in Leds |-> RunPixel(IF i = 0 THEN base ELSE f[i - 1].m, program, i,
                                               PrevOf(before, i), elements)]
           it == CHOOSE f : f = Next1(f)
           h == [i \in Leds |-> g[i]]
<1>2. WholeTo = it
  BY DEF WholeTo
<1>3. \A i \in Leds : h[i] = RunPixel(IF i = 0 THEN base ELSE h[i - 1].m, program, i,
                                      PrevOf(before, i), elements)
  <2>1. \A i \in Leds : i # 0 => i - 1 \in Leds
    BY CountAssumption DEF Leds
  <2>2. \A i \in Leds : i # 0 => h[i - 1] = g[i - 1]
    BY <2>1
  <2>3. \A i \in Leds : h[i] = g[i]
    OBVIOUS
  <2> HIDE DEF h
  <2> QED
    BY <1>1, <2>2, <2>3 DEF WholeFor, Leds
<1>4. h = Next1(h)
  <2>1. h = [i \in Leds |-> h[i]]
    OBVIOUS
  <2> HIDE DEF h
  <2> QED
    BY <1>3, <2>1
<1>5. it = Next1(it)
  BY <1>4
<1>6. WholeFor(it, Count)
  <2> HIDE DEF it
  <2>1. \A i \in Leds : it[i] = RunPixel(IF i = 0 THEN base ELSE it[i - 1].m, program, i,
                                         PrevOf(before, i), elements)
    BY <1>5
  <2> QED
    BY <2>1 DEF WholeFor, Leds
<1> QED
  BY <1>2, <1>6

\* Whatever pixels it has rendered, and whether or not they faulted, that core
\* has what the frame section left, and renders the next one as it would alone.
LEMMA WholeAsIdeal ==
  ASSUME program \in Programs, IsMachine(base), Disciplined, FrameKept \subseteq Agree(base, Framed)
  PROVE  \A i \in Leds : WholeTo[i].out = Ideal(i).out
<1>1. IsMachine(Framed)
  BY OnceMachine, FrameKeeps DEF Framed, Once
<1> DEFINE Good(m) == IsMachine(m) /\ FrameKept \subseteq Agree(m, Framed)
           Before(i) == IF i = 0 THEN base ELSE WholeTo[i - 1].m
           Fails == {i \in Leds : ~Good(WholeTo[i].m)}
<1>2. \A i \in Leds : WholeTo[i] = RunPixel(Before(i), program, i, PrevOf(before, i), elements)
  BY WholeSteps DEF WholeFor, Leds
<1>3. ASSUME NEW i \in Leds, Good(Before(i))
      PROVE  Good(WholeTo[i].m) /\ WholeTo[i].out = Ideal(i).out
  <2>1. PICK m : m = Before(i)
    OBVIOUS
  <2>2. IsMachine(m) /\ FrameKept \subseteq Agree(m, Framed)
    BY <1>3, <2>1
  <2>3. PICK s : s = RunPixel(m, program, i, PrevOf(before, i), elements)
    OBVIOUS
  <2>4. s = WholeTo[i]
    BY <1>2, <2>1, <2>3
  <2>5. IsMachine(s.m) /\ SameOutside(Loaded \cup AllTargets(program.pixel), s.m, m)
    BY <2>2, <2>3, PixelKeeps
  <2>6. FrameKept \subseteq Agree(s.m, Framed)
    BY <2>2, <2>5, KeptApart, AgreeKept
  <2>7. Alike(s, RunPixel(Framed, program, i, PrevOf(before, i), elements))
    BY <1>1, <2>2, <2>3, PixelAlike
  <2>8. Ideal(i) = RunPixel(Framed, program, i, PrevOf(before, i), elements)
    BY DEF Ideal, Alone, Framed, Once
  <2> QED
    BY <2>4, <2>5, <2>6, <2>7, <2>8 DEF Alike
<1> HIDE DEF Before
<1>4. ASSUME Fails # {} PROVE FALSE
  <2>1. PICK i \in Fails : \A j \in Fails : i <= j
    <3>1. Fails \in SUBSET Nat
      BY CountAssumption DEF Leds
    <3> HIDE DEF Fails
    <3> QED
      BY <1>4, <3>1, LeastNumber
  <2>2. i \in Leds /\ ~Good(WholeTo[i].m)
    BY <2>1
  <2>3. CASE i = 0
    <3>1. Before(i) = base
      BY <2>3 DEF Before
    <3> QED
      BY <1>3, <2>2, <3>1
  <2>4. CASE i # 0
    <3>1. i - 1 \in Leds /\ ~(i <= i - 1)
      BY <2>2, <2>4, CountAssumption DEF Leds
    <3>2. Good(WholeTo[i - 1].m)
      BY <2>1, <3>1
    <3>3. Before(i) = WholeTo[i - 1].m
      BY <2>4 DEF Before
    <3> QED
      BY <1>3, <2>2, <3>2, <3>3
  <2> QED
    BY <2>3, <2>4
<1>5. \A i \in Leds : Good(Before(i))
  <2> SUFFICES ASSUME NEW i \in Leds PROVE Good(Before(i))
    OBVIOUS
  <2>1. CASE i = 0
    BY <2>1 DEF Before
  <2>2. CASE i # 0
    <3>1. i - 1 \in Leds
      BY <2>2, CountAssumption DEF Leds
    <3>2. Good(WholeTo[i - 1].m)
      BY <1>4, <3>1
    <3> QED
      BY <2>2, <3>2 DEF Before
  <2> QED
    BY <2>1, <2>2
<1> QED
  BY <1>3, <1>5

\* Two cores rendering parts of the strip produce what one core rendering all of
\* it would (lumen-capi, lumen_render_range), wherever it is split: for every
\* disciplined program.  added_base has one that is not.
THEOREM HalvesAgree ==
  ASSUME OnceRuns
  PROVE  Spec => [](Disciplined => HalvesMatchTheWhole)
<1>1. RenderInv => (Disciplined => HalvesMatchTheWhole)
  <2> SUFFICES ASSUME RenderInv, Disciplined, NEW i \in fresh
               PROVE  strip[i] = WholeTo[i].out.color
    BY DEF HalvesMatchTheWhole
  <2>1. Typed /\ Ranges /\ Ready /\ Shown(i) /\ i \in Leds
    BY DEF RenderInv, Typed
  <2>2. ~(limit[1] = 0 /\ limit[2] = 0)
    BY <2>1, CountAssumption DEF Typed, Ranges, Cores, Leds
  <2>3. program \in Programs /\ IsMachine(base) /\ FrameKept \subseteq Agree(base, Framed)
    BY <2>1, <2>2 DEF Typed, Ready
  <2>4. WholeTo[i].out = Ideal(i).out
    BY <2>1, <2>3, WholeAsIdeal
  <2> QED
    BY <2>1, <2>4 DEF Shown
<1> QED
  BY <1>1, RenderInvariant, PTL
=============================================================================
