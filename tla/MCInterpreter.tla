---------------------------- MODULE MCInterpreter ----------------------------
(***************************************************************************)
(* Interpreter on every loadable section of up to ShortLength instructions *)
(* of every kind, and of up to LongLength of control flow alone.           *)
(***************************************************************************)
EXTENDS Interpreter

CONSTANTS ShortLength, LongLength

UnitCost == [op \in Op |-> 1]
MixedCost == [op \in Op |-> IF op \in {"ChRead", "MaskTest"} THEN 2 ELSE 1]

UpTo(n) == 0..n
Loads == {Instr("LoadK", 0, 0), Instr("LoadK", 0, 1)}
Skips(n) == {Instr("MaskTest", 0, k) : k \in UpTo(n)}
Blocks(n) == {Instr("Repeat", 0, k) : k \in UpTo(n)} \cup {Instr("EndRep", 0, 0)}
Calls(n) == {Instr("Call", 0, k) : k \in UpTo(n)} \cup {Instr("Ret", 0, 0)}

Sections(instructions, length) == UNION {[1..n -> instructions] : n \in 0..length}

\* Every kind of instruction.
AllKinds == Sections(
  Loads \cup Skips(1) \cup Blocks(2) \cup Calls(2) \cup
  {Instr("LoadK", 1, 0), Instr("LoadK", 0, 9), Instr("ChRead", 0, 0), Instr("ChRead", 1, 0),
   Instr("AStore", 0, 0), Instr("AStore", 1, 0), Instr("MaskTest", 1, 0),
   Instr("Halt", 0, 0)}, ShortLength)

\* Control flow alone, for longer sections.
ControlFlow == Sections({Instr("ChRead", 0, 0)} \cup Skips(2) \cup Blocks(2) \cup Calls(1), LongLength)

\* A block that calls into its own inner block and is returned from before that
\* block's ENDREP.  The inner block is left open, the outer block's ENDREP finds it
\* on top and goes round it instead, and the outer trips are never counted down.
ReenteredBlock ==
  {<<Instr("Repeat", 0, 5), Instr("Repeat", 0, 2), Instr("MaskTest", 0, 1),
     Instr("Ret", 0, 0), Instr("EndRep", 0, 0), Instr("LoadK", 0, 1),
     Instr("Call", 0, 1), Instr("LoadK", 0, 0), Instr("EndRep", 0, 0)>>}

EverySection == AllKinds \cup ControlFlow \cup ReenteredBlock
=============================================================================
