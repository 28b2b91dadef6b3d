----------------------------- MODULE Interpreter -----------------------------
(***************************************************************************)
(* The bytecode interpreter of lumen-vm (Machine in vm.rs): the fetch,     *)
(* charge and step loop over one section, the REPEAT and CALL stacks, the  *)
(* budget, the faults, and the state that survives from one invocation to  *)
(* the next.                                                               *)
(***************************************************************************)
EXTENDS Bytecode

CONSTANTS
  Programs,      \* the sections considered, valid or not
  Profile,       \* "Pixel" or "Sim"
  Values,        \* register values and the program's constants, each its own
                 \* number in the pool; 0 is the value MASKTEST looks for
  InputCount,    \* registers below this are overwritten by load_inputs
  StackDepth,    \* STACK_DEPTH, 8 in the code
  SpentMax,      \* u32::MAX: spent saturates there, and it is the default limit
  Limits         \* the budgets set_budget is given

ASSUME InterpreterAssumption ==
  /\ Programs \subseteq Seq(Instruction)
  /\ 0 \in Values /\ Values \subseteq Nat
  /\ InputCount \in 0..RegisterCount
  /\ StackDepth \in Nat /\ SpentMax \in Nat
  /\ Limits \subseteq 0..SpentMax
  /\ Profile \in {"Pixel", "Sim"}

VARIABLES
  program,   \* the loaded section
  regs,      \* the register file
  pc,        \* the next instruction
  repeat,    \* (body start, trips left) of each open REPEAT, innermost last
  calls,     \* return positions, innermost last
  spent,     \* budget spent by this invocation
  limit,     \* the budget
  status     \* "Idle" before the first invocation, "Running", or how it ended

vars == <<program, regs, pc, repeat, calls, spent, limit, status>>

Register == 0..(RegisterCount - 1)

Fault == {"BudgetExceeded", "BadProgram", "OutOfBounds", "StackOverflow", "BadRegister"}

Front(stack) == SubSeq(stack, 1, Len(stack) - 1)
Top(stack) == stack[Len(stack)]

\* Machine::new, for any section parse() accepts.
Init ==
  /\ program \in {code \in Programs : Valid(code, Profile)}
  /\ regs = [r \in Register |-> 0]
  /\ pc = 0 /\ repeat = <<>> /\ calls = <<>>
  /\ spent = 0 /\ limit = SpentMax
  /\ status = "Idle"

Running == status = "Running"

\* set_budget, between invocations.
SetBudget ==
  /\ ~Running
  /\ limit' \in Limits
  /\ UNCHANGED <<program, regs, pc, repeat, calls, spent, status>>

\* Mistake: execute() goes on counting from the last invocation.
InvokeKeepsSpent ==
  /\ ~Running
  /\ regs' \in {[r \in Register |-> IF r < InputCount THEN input ELSE regs[r]] :
                  input \in Values}
  /\ pc' = 0 /\ repeat' = <<>> /\ calls' = <<>>
  /\ status' = "Running"
  /\ UNCHANGED <<program, limit, spent>>

\* run_pixel: load_inputs, then execute() from the top with empty stacks.  The
\* scratch registers, the limit and the program stay as they were left.
Invoke ==
  /\ ~Running
  /\ regs' \in {[r \in Register |-> IF r < InputCount THEN input ELSE regs[r]] :
                  input \in Values}
  /\ pc' = 0 /\ repeat' = <<>> /\ calls' = <<>> /\ spent' = 0
  /\ status' = "Running"
  /\ UNCHANGED <<program, limit>>

-----------------------------------------------------------------------------
(* One turn of the loop in execute().                                       *)

\* charge(): saturating_add.
Charged(op) == IF spent + Cost[op] > SpentMax THEN SpentMax ELSE spent + Cost[op]

Current == At(program, pc)

\* The loop's condition, and an instruction the budget covers.
Fetches(op) == /\ Running /\ pc < Len(program)
               /\ Current.op = op
               /\ Charged(op) <= limit
               /\ spent' = Charged(op)

Stop(outcome) == /\ status' = outcome
                 /\ UNCHANGED <<regs, repeat, calls>>

\* An instruction that faults has been counted: pc is past it.
Faults(fault) == Stop(fault) /\ pc' = pc + 1

Continues(next) == pc' = next /\ UNCHANGED status

\* The end of the section.
FallOff == /\ Running /\ pc >= Len(program)
           /\ Stop("Done")
           /\ UNCHANGED <<program, limit, spent, pc>>

\* charge() refuses: the instruction is not executed.
OutOfBudget == /\ Running /\ pc < Len(program)
               /\ Charged(Current.op) > limit
               /\ spent' = Charged(Current.op)
               /\ Stop("BudgetExceeded")
               /\ UNCHANGED <<program, limit, pc>>

\* An instruction that writes a register, or names a constant or a register that
\* does not exist.
Compute(op, results) ==
  /\ Fetches(op)
  /\ \/ results = {} /\ Faults("BadProgram")
     \/ /\ Current.a \in Register
        /\ \E v \in results : regs' = [regs EXCEPT ![Current.a] = v]
        /\ Continues(pc + 1)
        /\ UNCHANGED <<repeat, calls>>
     \/ results # {} /\ Current.a \notin Register /\ Faults("BadRegister")

LoadK == Compute("LoadK", {Current.bc} \cap Values)
ChRead == Compute("ChRead", Values)

\* ASTORE with no array behind it: the store is out of bounds.
AStore == /\ Fetches("AStore")
          /\ Faults(IF Current.a \in Register THEN "OutOfBounds" ELSE "BadRegister")

MaskTest ==
  /\ Fetches("MaskTest")
  /\ \/ /\ Current.a \in Register
        /\ Continues(IF regs[Current.a] = 0 THEN pc + 1 + Current.bc ELSE pc + 1)
        /\ UNCHANGED <<regs, repeat, calls>>
     \/ Current.a \notin Register /\ Faults("BadRegister")

\* Mistake: the bound is tested after the push.
RepeatPushes == Len(repeat) <= StackDepth

HasRoom == Len(repeat) < StackDepth

\* REPEAT pushes its block, or skips it when there is nothing to repeat.
RepeatBlock ==
  /\ Fetches("Repeat")
  /\ \/ ~HasRoom /\ Faults("StackOverflow")
     \/ /\ HasRoom /\ Current.bc = 0
        /\ \/ /\ \E next \in MatchingEnd(program, pc + 1) : Continues(next)
              /\ UNCHANGED <<regs, repeat, calls>>
           \/ MatchingEnd(program, pc + 1) = {} /\ Faults("BadProgram")
     \/ /\ HasRoom /\ Current.bc > 0
        /\ repeat' = Append(repeat, [start |-> pc + 1, left |-> Current.bc])
        /\ Continues(pc + 1)
        /\ UNCHANGED <<regs, calls>>

MoreTrips == Top(repeat).left > 1

\* Mistake: going round again does not count down.
CountedDownNever(stack) == stack

CountedDown(stack) == [stack EXCEPT ![Len(stack)].left = @ - 1]

EndRep ==
  /\ Fetches("EndRep")
  /\ \/ repeat = <<>> /\ Faults("BadProgram")
     \/ /\ repeat # <<>> /\ MoreTrips
        /\ repeat' = CountedDown(repeat)
        /\ Continues(Top(repeat).start)
        /\ UNCHANGED <<regs, calls>>
     \/ /\ repeat # <<>> /\ ~MoreTrips
        /\ repeat' = Front(repeat)
        /\ Continues(pc + 1)
        /\ UNCHANGED <<regs, calls>>

ReturnPosition == pc + 1

Call ==
  /\ Fetches("Call")
  /\ \/ Len(calls) >= StackDepth /\ Faults("StackOverflow")
     \/ /\ Len(calls) < StackDepth
        /\ calls' = Append(calls, ReturnPosition)
        /\ Continues(Current.bc)
        /\ UNCHANGED <<regs, repeat>>

\* RET outside every call ends the invocation.
Ret ==
  /\ Fetches("Ret")
  /\ \/ calls = <<>> /\ Stop("Done") /\ pc' = pc + 1
     \/ /\ calls # <<>>
        /\ calls' = Front(calls)
        /\ Continues(Top(calls))
        /\ UNCHANGED <<regs, repeat>>

Halt == Fetches("Halt") /\ Stop("Done") /\ pc' = pc + 1

Step == \/ FallOff \/ OutOfBudget
        \/ /\ LoadK \/ ChRead \/ AStore \/ MaskTest
              \/ RepeatBlock \/ EndRep \/ Call \/ Ret \/ Halt
           /\ UNCHANGED <<program, limit>>

Next == SetBudget \/ Invoke \/ Step

Spec == Init /\ [][Next]_vars

\* execute() is a loop on one thread: once begun it keeps stepping.
FairSpec == Spec /\ WF_vars(Step)

-----------------------------------------------------------------------------
\* Every variable keeps the type the code gives it, and pc never leaves the
\* section, so a fetch never fails: what validate_section checks the jumps for.
TypeOK ==
  /\ program \in Programs /\ Valid(program, Profile)
  /\ regs \in [Register -> Nat]
  /\ pc \in 0..Len(program)
  /\ repeat \in Seq([start : Nat, left : Nat])
  /\ calls \in Seq(Nat)
  /\ spent \in 0..SpentMax /\ limit \in 0..SpentMax
  /\ status \in {"Idle", "Running", "Done"} \cup Fault

\* The two stacks never outgrow their arrays, and what is on them is what the
\* program put there: each open block starts just after a REPEAT and has between
\* one and all of its trips left, and each return goes to just after a CALL.
StacksWellFormed ==
  /\ Len(repeat) <= StackDepth /\ Len(calls) <= StackDepth
  /\ \A k \in 1..Len(repeat) :
       /\ repeat[k].start \in 1..Len(program)
       /\ At(program, repeat[k].start - 1).op = "Repeat"
       /\ repeat[k].left \in 1..At(program, repeat[k].start - 1).bc
  /\ \A k \in 1..Len(calls) :
       /\ calls[k] \in 1..Len(program)
       /\ At(program, calls[k] - 1).op = "Call"

\* A loop-free section - all the compiler emits - never costs more than
\* section_cost says, so a budget of that much is never exceeded.
LoopFreeWithinCost == LoopFree(program) => spent <= SectionCost(program)

\* A skip stays within the block it starts in.
SkipsStayInBlock(code) ==
  \A i \in Positions(code) : At(code, i).op = "MaskTest" =>
    LET end == i + At(code, i).bc IN
    /\ \A j \in i..end : OpenRepeats(code, j) >= OpenRepeats(code, i)
    /\ OpenRepeats(code, end) = OpenRepeats(code, i)

Structured(code) == CallFree(code) /\ SkipsStayInBlock(code)

\* In a section whose jumps respect its blocks, the open blocks are those the
\* text says: whatever invocation was stopped in the middle before, whatever was
\* skipped, and however often a block goes round.  In any loaded section a REPEAT
\* of no trips finds its ENDREP, so none faults for want of one.
OpenBlocksFollowText ==
  /\ (Running /\ Structured(program)) =>
       Len(repeat) = IF pc = 0 THEN 0 ELSE OpenRepeats(program, pc - 1)
  /\ status = "BadProgram" => At(program, pc - 1).op # "Repeat"

\* Every invocation ends: under a budget whatever the program, and without one
\* if the program makes no CALL.
InvocationsEnd == (Running /\ (limit < SpentMax \/ CallFree(program))) ~> ~Running

\* The crate's documentation: "No pointers, no syscalls, no unbounded loops".
NoUnboundedLoops == Running ~> ~Running

\* The documentation of validate_section: balance is checked "once at load so
\* the interpreter never has to re-check any of it".
NeverUnbalancedAtRunTime ==
  status = "BadProgram" => At(program, pc - 1).op # "EndRep"
=============================================================================
