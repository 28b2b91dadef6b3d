------------------------------ MODULE Bytecode ------------------------------
(***************************************************************************)
(* One section of a compiled program and the checks Program::parse makes   *)
(* of it (lumen-vm, program.rs and isa.rs).                                *)
(*                                                                         *)
(* Control flow is kept whole.  The forty opcodes that only compute are    *)
(* "LoadK" (a known value) and "ChRead" (a value from outside): all that   *)
(* the flow of control sees of them is which register they write, that     *)
(* they may name one that does not exist or a constant the program does    *)
(* not have, and what they cost.                                           *)
(***************************************************************************)
EXTENDS Integers, Sequences, FiniteSets

CONSTANTS
  RegisterCount,   \* REG_COUNT, 32 in the code
  Cost             \* OpCode::cost, per opcode; at least 8 in the code

Op == {"LoadK", "ChRead", "AStore", "MaskTest", "Repeat", "EndRep",
       "Call", "Ret", "Halt"}

ASSUME RegisterCountAssumption == RegisterCount \in Nat
ASSUME CostAssumption == Cost \in [Op -> Nat \ {0}]

\* a names a register, in range or not; bc is the 16-bit immediate.
Instruction == [op : Op, a : Nat, bc : Nat]

Instr(op, a, bc) == [op |-> op, a |-> a, bc |-> bc]

SimOnly == {"AStore"}

\* Positions are the code's: 0 is the first instruction.
At(code, i) == code[i + 1]
Positions(code) == 0..(Len(code) - 1)

Count(code, op, from, to) == Cardinality({i \in from..to : At(code, i).op = op})

\* REPEAT blocks open after the instruction at i.
OpenRepeats(code, i) == Count(code, "Repeat", 0, i) - Count(code, "EndRep", 0, i)

\* REPEAT and ENDREP balance as they are read.
Balanced(code) ==
  /\ \A i \in Positions(code) : OpenRepeats(code, i) >= 0
  /\ OpenRepeats(code, Len(code) - 1) = 0

\* Every CALL lands on an instruction, and no skip runs past the end.
JumpsLand(code) ==
  \A i \in Positions(code) :
    /\ At(code, i).op = "Call" => At(code, i).bc < Len(code)
    /\ At(code, i).op = "MaskTest" => i + 1 + At(code, i).bc <= Len(code)

\* validate_section: what a section must satisfy to be loaded.
Valid(code, profile) ==
  /\ \A i \in Positions(code) : At(code, i) \in Instruction
  /\ profile = "Pixel" => \A i \in Positions(code) : At(code, i).op \notin SimOnly
  /\ JumpsLand(code)
  /\ Balanced(code)

\* section_cost: the sum over a section of what each instruction costs.
CostSums(code) ==
  LET sum[i \in 0..Len(code)] == IF i = 0 THEN 0 ELSE sum[i - 1] + Cost[code[i].op]
  IN  sum
SectionCost(code) == CostSums(code)[Len(code)]

\* The ENDREPs at which a scan from position `from` has closed one block more
\* than it opened: the first is the one a REPEAT just before `from` matches.
Closers(code, from) ==
  {i \in from..(Len(code) - 1) :
     Count(code, "EndRep", from, i) = Count(code, "Repeat", from, i) + 1}

\* Mistake: nested blocks are not counted.
MatchingEndFlat(code, from) ==
  {i + 1 : i \in {j \in from..(Len(code) - 1) :
                    /\ At(code, j).op = "EndRep"
                    /\ \A k \in from..(j - 1) : At(code, k).op # "EndRep"}}

\* skip_to_endrep: the position after the matching ENDREP, or none.
MatchingEnd(code, from) ==
  {i + 1 : i \in {j \in Closers(code, from) :
                    \A k \in Closers(code, from) : j <= k}}

\* A section with no loop and no subroutine, which is all the compiler emits.
LoopFree(code) == \A i \in Positions(code) : At(code, i).op \notin {"Repeat", "Call"}
CallFree(code) == \A i \in Positions(code) : At(code, i).op # "Call"
=============================================================================
