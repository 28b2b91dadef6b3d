-------------------------- MODULE InterpreterProofs --------------------------
(***************************************************************************)
(* For every section that loads, every register file, budget and depth of  *)
(* the stacks: the interpreter never leaves its section, never outgrows    *)
(* its stacks, and finds on them only what REPEAT and CALL put there.      *)
(***************************************************************************)
EXTENDS Interpreter, FiniteSetTheorems, SequenceTheorems, WellFoundedInduction, TLAPS

-----------------------------------------------------------------------------
(* Sections: how the number of open blocks changes along one, that every     *)
(* REPEAT of a balanced one has its ENDREP, and what section_cost adds up.   *)

\* A set of natural numbers that is not empty has a least element: the form of
\* induction the lemmas below use.
LEMMA LeastNumber ==
  ASSUME NEW S \in SUBSET Nat, S # {}
  PROVE  \E m \in S : \A n \in S : m <= n
  <1>1. PICK m \in S : \A n \in S : ~(<<n, m>> \in OpToRel(<, Nat))
    BY NatLessThanWellFounded, WFMin
  <1>2. \A n \in S : ~(n < m)
    BY <1>1 DEF OpToRel
  <1> QED BY <1>2

\* Counting one position more, and counting across a position.
LEMMA CountStep ==
  ASSUME NEW code, NEW op, NEW from \in Nat, NEW i \in Nat, from <= i
  PROVE  /\ Count(code, op, from, i) \in Nat
         /\ Count(code, op, from, i - 1) \in Nat
         /\ Count(code, op, from, i)
              = Count(code, op, from, i - 1) + (IF At(code, i).op = op THEN 1 ELSE 0)
  <1> DEFINE Before == {j \in from..(i - 1) : At(code, j).op = op}
             Now == {j \in from..i : At(code, j).op = op}
  <1>1. IsFiniteSet(Before) /\ IsFiniteSet(Now)
    <2>1. IsFiniteSet(from..(i - 1)) /\ IsFiniteSet(from..i)
      BY FS_Interval
    <2>2. Before \in SUBSET (from..(i - 1)) /\ Now \in SUBSET (from..i)
      OBVIOUS
    <2> HIDE DEF Before, Now
    <2> QED BY <2>1, <2>2, FS_Subset
  <1>2. Now = IF At(code, i).op = op THEN Before \cup {i} ELSE Before
    OBVIOUS
  <1>3. i \notin Before
    OBVIOUS
  <1>4. Cardinality(Before) \in Nat /\ Cardinality(Now) \in Nat
    BY <1>1, FS_CardinalityType
  <1>5. Cardinality(Now) = Cardinality(Before) + (IF At(code, i).op = op THEN 1 ELSE 0)
    <2>1. CASE At(code, i).op = op
      BY <1>1, <1>2, <1>3, <1>4, <2>1, FS_AddElement
    <2>2. CASE At(code, i).op # op
      <3>1. Now = Before
        BY <1>2, <2>2
      <3> HIDE DEF Now, Before
      <3> QED BY <1>4, <2>2, <3>1
    <2> QED BY <2>1, <2>2
  <1> QED BY <1>4, <1>5 DEF Count

\* Counting from the start is counting up to a position and then behind it.
LEMMA CountSplit ==
  ASSUME NEW code, NEW op, NEW p \in Nat, NEW i \in Nat, p <= i
  PROVE  Count(code, op, 0, i) = Count(code, op, 0, p) + Count(code, op, p + 1, i)
  <1> DEFINE Low == {j \in 0..p : At(code, j).op = op}
             High == {j \in (p + 1)..i : At(code, j).op = op}
             All == {j \in 0..i : At(code, j).op = op}
  <1>1. IsFiniteSet(Low) /\ IsFiniteSet(High)
    <2>1. IsFiniteSet(0..p) /\ IsFiniteSet((p + 1)..i)
      BY FS_Interval
    <2>2. Low \in SUBSET (0..p) /\ High \in SUBSET ((p + 1)..i)
      OBVIOUS
    <2> HIDE DEF Low, High
    <2> QED BY <2>1, <2>2, FS_Subset
  <1>2. All = Low \cup High /\ Low \cap High = {}
    OBVIOUS
  <1>3. Cardinality(Low) \in Nat /\ Cardinality(High) \in Nat
    BY <1>1, FS_CardinalityType
  <1>4. Cardinality(All) = Cardinality(Low) + Cardinality(High)
    <2> HIDE DEF Low, High, All
    <2>1. Cardinality(All) = Cardinality(Low) + Cardinality(High) - Cardinality({})
      BY <1>1, <1>2, FS_Union
    <2> QED BY <1>3, <2>1, FS_EmptySet
  <1> QED BY <1>4 DEF Count

\* A REPEAT opens a block, an ENDREP closes one, nothing else does either.
LEMMA OpenRepeatsStep ==
  ASSUME NEW code, NEW i \in Nat
  PROVE  /\ OpenRepeats(code, i) \in Int /\ OpenRepeats(code, i - 1) \in Int
         /\ At(code, i).op = "Repeat" => OpenRepeats(code, i) = OpenRepeats(code, i - 1) + 1
         /\ At(code, i).op = "EndRep" => OpenRepeats(code, i) = OpenRepeats(code, i - 1) - 1
         /\ At(code, i).op \notin {"Repeat", "EndRep"}
              => OpenRepeats(code, i) = OpenRepeats(code, i - 1)
  <1>1. \A op \in {"Repeat", "EndRep"} :
          /\ Count(code, op, 0, i) \in Nat /\ Count(code, op, 0, i - 1) \in Nat
          /\ Count(code, op, 0, i) = Count(code, op, 0, i - 1) + (IF At(code, i).op = op THEN 1 ELSE 0)
    BY CountStep
  <1> QED BY <1>1 DEF OpenRepeats

\* Before the first instruction no block is open.
LEMMA OpenRepeatsStart ==
  ASSUME NEW code
  PROVE  OpenRepeats(code, -1) = 0
  <1>1. \A op : {j \in 0..(-1) : At(code, j).op = op} = {}
    OBVIOUS
  <1> QED BY <1>1, FS_EmptySet DEF OpenRepeats, Count

\* An instruction closes the block opened before `from` when, counted from the
\* start, one block fewer is open than just before `from`.
LEMMA ClosersClose ==
  ASSUME NEW code, NEW p \in Nat, NEW i \in Nat, p < i
  PROVE  Count(code, "EndRep", p + 1, i) = Count(code, "Repeat", p + 1, i) + 1
           <=> OpenRepeats(code, i) = OpenRepeats(code, p) - 1
  <1>1. \A op \in {"Repeat", "EndRep"} :
          /\ Count(code, op, 0, i) = Count(code, op, 0, p) + Count(code, op, p + 1, i)
          /\ Count(code, op, 0, i) \in Nat /\ Count(code, op, 0, p) \in Nat
          /\ Count(code, op, p + 1, i) \in Nat
    <2>1. p + 1 \in Nat /\ p + 1 <= i /\ p <= i /\ 0 <= p /\ 0 <= i
      OBVIOUS
    <2>2. \A op : Count(code, op, 0, i) = Count(code, op, 0, p) + Count(code, op, p + 1, i)
      BY <2>1, CountSplit
    <2>3. \A op : Count(code, op, 0, i) \in Nat /\ Count(code, op, 0, p) \in Nat
      BY <2>1, CountStep
    <2>4. \A op : Count(code, op, p + 1, i) \in Nat
      BY <2>1, CountStep
    <2> QED BY <2>2, <2>3, <2>4
  <1> QED BY <1>1 DEF OpenRepeats

\* Where skip_to_endrep lands, the block the REPEAT opened is closed.
LEMMA MatchingEndCloses ==
  ASSUME NEW code, Len(code) \in Nat, NEW p \in Nat, NEW next \in MatchingEnd(code, p + 1)
  PROVE  /\ next - 1 \in p + 1..(Len(code) - 1)
         /\ OpenRepeats(code, next - 1) = OpenRepeats(code, p) - 1
  <1>1. PICK i \in Closers(code, p + 1) : next = i + 1
    BY DEF MatchingEnd
  <1>2. i \in p + 1..(Len(code) - 1) /\ next - 1 = i
    BY <1>1 DEF Closers
  <1> QED BY <1>1, <1>2, ClosersClose DEF Closers

\* In a balanced section skip_to_endrep finds an ENDREP for every REPEAT.
LEMMA EveryRepeatEnds ==
  ASSUME NEW code, Len(code) \in Nat, Balanced(code),
         NEW p \in Positions(code), At(code, p).op = "Repeat"
  PROVE  MatchingEnd(code, p + 1) # {}
  <1> DEFINE Lower == {i \in p + 1..(Len(code) - 1) : OpenRepeats(code, i) < OpenRepeats(code, p)}
  <1>0. p \in Nat /\ Len(code) - 1 \in Nat /\ p <= Len(code) - 1
    BY DEF Positions
  <1>1. OpenRepeats(code, p) >= 1 /\ OpenRepeats(code, p) \in Int
    <2>1. OpenRepeats(code, p - 1) >= 0
      <3>1. CASE p = 0
        BY <3>1, OpenRepeatsStart
      <3>2. CASE p # 0
        BY <1>0, <3>2 DEF Balanced, Positions
      <3> QED BY <3>1, <3>2
    <2> QED BY <1>0, <2>1, OpenRepeatsStep
  <1>2. Len(code) - 1 \in Lower
    BY <1>0, <1>1 DEF Balanced
  <1>3. PICK m \in Lower : \A n \in Lower : m <= n
    <2>1. Lower \in SUBSET Nat
      BY <1>0
    <2> HIDE DEF Lower
    <2> QED BY <1>2, <2>1, LeastNumber
  <1>4. m \in Nat /\ p < m /\ m <= Len(code) - 1
    BY <1>0, <1>3
  <1>5. OpenRepeats(code, m - 1) >= OpenRepeats(code, p)
    <2>1. CASE m - 1 = p
      BY <1>1, <2>1
    <2>2. CASE m - 1 # p
      <3>1. m - 1 \in p + 1..(Len(code) - 1)
        BY <1>0, <1>4, <2>2
      <3>2. m - 1 \notin Lower
        BY <1>3, <1>4
      <3>3. OpenRepeats(code, m - 1) \in Int
        BY <1>4, OpenRepeatsStep
      <3> QED BY <1>1, <3>1, <3>2, <3>3
    <2> QED BY <2>1, <2>2
  <1>6. OpenRepeats(code, m) = OpenRepeats(code, p) - 1
    BY <1>1, <1>3, <1>4, <1>5, OpenRepeatsStep
  <1>7. m \in Closers(code, p + 1)
    BY <1>0, <1>4, <1>6, ClosersClose DEF Closers
  <1>8. Closers(code, p + 1) \in SUBSET Nat
    BY <1>0 DEF Closers
  <1>9. \E i \in Closers(code, p + 1) : \A k \in Closers(code, p + 1) : i <= k
    BY <1>7, <1>8, LeastNumber
  <1> QED BY <1>9 DEF MatchingEnd

-----------------------------------------------------------------------------
(* section_cost, which is defined recursively: that there is such a sum at   *)
(* all is shown from the shortest prefix that would not have one.            *)

SumsTo(code, n, f) ==
  f = [i \in 0..n |-> IF i = 0 THEN 0 ELSE f[i - 1] + Cost[code[i].op]]

\* The running sums of the costs exist, so CostSums is the function it says it is.
LEMMA SumsExist ==
  ASSUME NEW code, NEW n \in Nat
  PROVE  \E f : SumsTo(code, n, f)
  <1> DEFINE Without == {k \in Nat : ~\E f : SumsTo(code, k, f)}
  <1> SUFFICES Without = {}
    OBVIOUS
  <1> SUFFICES ASSUME Without # {} PROVE FALSE
    OBVIOUS
  <1>1. PICK k \in Without : \A j \in Without : k <= j
    <2>1. Without \in SUBSET Nat
      OBVIOUS
    <2> HIDE DEF Without
    <2> QED BY <2>1, LeastNumber
  <1>2. k \in Nat /\ ~\E f : SumsTo(code, k, f)
    BY <1>1
  <1>3. CASE k = 0
    <2> DEFINE f == [i \in 0..0 |-> 0]
    <2>1. f = [i \in 0..0 |-> IF i = 0 THEN 0 ELSE f[i - 1] + Cost[code[i].op]]
      OBVIOUS
    <2>2. SumsTo(code, k, f)
      BY <1>3, <2>1 DEF SumsTo
    <2> QED BY <1>2, <2>2
  <1>4. CASE k # 0
    <2>1. k - 1 \in Nat /\ k - 1 \notin Without
      BY <1>1, <1>2, <1>4
    <2>2. PICK g : SumsTo(code, k - 1, g)
      BY <2>1
    <2> DEFINE f == [i \in 0..k |-> IF i = k THEN g[k - 1] + Cost[code[k].op] ELSE g[i]]
    <2>3. g = [i \in 0..(k - 1) |-> IF i = 0 THEN 0 ELSE g[i - 1] + Cost[code[i].op]]
      BY <2>2 DEF SumsTo
    <2>4. ASSUME NEW i \in 0..k
          PROVE  f[i] = IF i = 0 THEN 0 ELSE f[i - 1] + Cost[code[i].op]
      <3>1. CASE i = 0
        <4>1. 0 \in 0..(k - 1) /\ 0 # k
          BY <1>2, <1>4
        <4>2. g[0] = 0
          BY <2>3, <4>1
        <4> QED BY <3>1, <4>1, <4>2
      <3>2. CASE i = k
        <4>1. k - 1 \in 0..k /\ k - 1 # k
          BY <1>2, <1>4
        <4> QED BY <1>4, <3>2, <4>1
      <3>3. CASE i # 0 /\ i # k
        <4>1. i \in 0..(k - 1) /\ i - 1 \in 0..k /\ i - 1 # k
          BY <1>2, <3>3
        <4>2. g[i] = g[i - 1] + Cost[code[i].op]
          BY <2>3, <3>3, <4>1
        <4> QED BY <3>3, <4>1, <4>2
      <3> QED BY <3>1, <3>2, <3>3
    <2>5. f = [i \in 0..k |-> IF i = 0 THEN 0 ELSE f[i - 1] + Cost[code[i].op]]
      BY <2>4
    <2>6. SumsTo(code, k, f)
      BY <2>5 DEF SumsTo
    <2> QED BY <1>2, <2>6
  <1> QED BY <1>3, <1>4

\* The sums over the prefixes of a section.
LEMMA CostSumsAdd ==
  ASSUME NEW code, Len(code) \in Nat
  PROVE  /\ CostSums(code)[0] = 0
         /\ \A i \in 1..Len(code) :
              CostSums(code)[i] = CostSums(code)[i - 1] + Cost[code[i].op]
  <1>1. \E f : SumsTo(code, Len(code), f)
    BY SumsExist
  <1>2. CostSums(code) = CHOOSE f : SumsTo(code, Len(code), f)
    BY DEF CostSums, SumsTo
  <1>3. SumsTo(code, Len(code), CostSums(code))
    BY <1>1, <1>2
  <1>4. CostSums(code) = [i \in 0..Len(code) |->
           IF i = 0 THEN 0 ELSE CostSums(code)[i - 1] + Cost[code[i].op]]
    BY <1>3 DEF SumsTo
  <1>5. 0 \in 0..Len(code) /\ \A i \in 1..Len(code) : i \in 0..Len(code) /\ i # 0
    OBVIOUS
  <1> QED BY <1>4, <1>5

\* Every instruction of a section has a cost.
LEMMA InstructionCost ==
  ASSUME NEW code \in Seq(Instruction), NEW k \in 1..Len(code)
  PROVE  Cost[code[k].op] \in Nat
  <1>1. code[k] \in Instruction
    OBVIOUS
  <1>2. code[k].op \in Op
    BY <1>1 DEF Instruction
  <1> QED BY <1>2, CostAssumption

\* Each of them is a number.
LEMMA CostSumsType ==
  ASSUME NEW code \in Seq(Instruction), NEW n \in 0..Len(code)
  PROVE  CostSums(code)[n] \in Nat
  <1> DEFINE Bad == {i \in 0..Len(code) : CostSums(code)[i] \notin Nat}
  <1> SUFFICES ASSUME Bad # {} PROVE FALSE
    OBVIOUS
  <1>1. PICK k \in Bad : \A j \in Bad : k <= j
    <2>1. Bad \in SUBSET Nat
      OBVIOUS
    <2> HIDE DEF Bad
    <2> QED BY <2>1, LeastNumber
  <1>2. k # 0
    BY CostSumsAdd
  <1>3. k - 1 \in 0..Len(code) /\ k - 1 \notin Bad
    BY <1>1, <1>2
  <1>4. k \in 1..Len(code)
    BY <1>1, <1>2
  <1>5. Cost[code[k].op] \in Nat
    BY <1>4, InstructionCost
  <1>6. CostSums(code)[k] = CostSums(code)[k - 1] + Cost[code[k].op]
    BY <1>4, CostSumsAdd
  <1> QED BY <1>1, <1>3, <1>5, <1>6

\* A longer prefix never costs less.
LEMMA CostSumsGrow ==
  ASSUME NEW code \in Seq(Instruction), NEW m \in 0..Len(code), NEW n \in m..Len(code)
  PROVE  CostSums(code)[m] <= CostSums(code)[n]
  <1> DEFINE Bad == {i \in m..Len(code) : ~(CostSums(code)[m] <= CostSums(code)[i])}
  <1> SUFFICES ASSUME Bad # {} PROVE FALSE
    OBVIOUS
  <1>1. PICK k \in Bad : \A j \in Bad : k <= j
    <2>1. Bad \in SUBSET Nat
      OBVIOUS
    <2> HIDE DEF Bad
    <2> QED BY <2>1, LeastNumber
  <1>2. k # m
    BY CostSumsType
  <1>3. k - 1 \in m..Len(code) /\ k - 1 \notin Bad
    BY <1>1, <1>2
  <1>4. k \in 1..Len(code) /\ k - 1 \in 0..Len(code)
    BY <1>1, <1>2
  <1>5. Cost[code[k].op] \in Nat
    BY <1>4, InstructionCost
  <1>6. CostSums(code)[k] = CostSums(code)[k - 1] + Cost[code[k].op]
    BY <1>4, CostSumsAdd
  <1>7. CostSums(code)[m] \in Nat /\ CostSums(code)[k - 1] \in Nat
    BY <1>4, CostSumsType
  <1>8. CostSums(code)[m] <= CostSums(code)[k - 1]
    BY <1>3
  <1> QED BY <1>1, <1>5, <1>6, <1>7, <1>8

-----------------------------------------------------------------------------
(* The interpreter's invariant.                                              *)

\* pc may be at a return or at the start of a block because of what the stacks
\* hold, and the stacks hold what they do because pc was in the section.
ControlInv == TypeOK /\ StacksWellFormed

\* In a loaded section every position holds an instruction, a CALL lands on one,
\* and a skip does not run past the end.
LEMMA LoadedSection ==
  ASSUME TypeOK, NEW i \in 0..(Len(program) - 1)
  PROVE  /\ program \in Seq(Instruction)
         /\ At(program, i) \in Instruction
         /\ At(program, i).op = "Call" => At(program, i).bc < Len(program)
         /\ At(program, i).op = "MaskTest" => i + 1 + At(program, i).bc <= Len(program)
  BY InterpreterAssumption DEF TypeOK, Valid, JumpsLand, Positions

\* charge() saturates, so what is spent stays a u32.
LEMMA ChargedType ==
  ASSUME TypeOK, NEW op \in Op
  PROVE  Charged(op) \in 0..SpentMax
  BY CostAssumption, InterpreterAssumption DEF Charged, TypeOK

\* A stack that is not empty has a top, and popping it leaves the rest.
LEMMA StackFacts ==
  ASSUME NEW S, NEW stack \in Seq(S), stack # <<>>
  PROVE  /\ Len(stack) \in 1..Len(stack) /\ Top(stack) \in S
         /\ Front(stack) \in Seq(S) /\ Len(Front(stack)) = Len(stack) - 1
         /\ \A k \in 1..(Len(stack) - 1) : Front(stack)[k] = stack[k]
  <1>1. Len(stack) \in Nat /\ Len(stack) >= 1
    BY EmptySeq
  <1>2. \A i \in 1..(Len(stack) - 1) : stack[i] \in S
    BY <1>1, ElementOfSeq
  <1>3. Top(stack) \in S
    BY <1>1, ElementOfSeq DEF Top
  <1>4. /\ Front(stack) \in Seq(S)
        /\ Len(Front(stack)) = IF 1 <= Len(stack) - 1 THEN (Len(stack) - 1) - 1 + 1 ELSE 0
        /\ \A k \in 1..((Len(stack) - 1) - 1 + 1) : Front(stack)[k] = stack[1 + k - 1]
    <2>1. 1 \in Int /\ Len(stack) - 1 \in Int
      BY <1>1
    <2> QED BY <1>2, <2>1, SubSeqProperties DEF Front
  <1>5. Len(Front(stack)) = Len(stack) - 1
    <2> DEFINE n == Len(stack)
    <2>1. n \in Nat /\ n >= 1 /\ Len(Front(stack)) = IF 1 <= n - 1 THEN (n - 1) - 1 + 1 ELSE 0
      BY <1>1, <1>4
    <2> HIDE DEF n
    <2>2. Len(Front(stack)) = n - 1
      BY <2>1
    <2> QED BY <2>2 DEF n
  <1>6. ASSUME NEW k \in 1..(Len(stack) - 1) PROVE Front(stack)[k] = stack[k]
    <2>1. (Len(stack) - 1) - 1 + 1 = Len(stack) - 1 /\ 1 + k - 1 = k
      BY <1>1
    <2> QED BY <1>4, <2>1
  <1> QED BY <1>1, <1>3, <1>4, <1>5, <1>6

\* An instruction is fetched from inside the section, and counted.
LEMMA FetchFacts ==
  ASSUME TypeOK, NEW op \in Op, Fetches(op)
  PROVE  /\ pc \in 0..(Len(program) - 1)
         /\ Current \in Instruction
         /\ spent' \in 0..SpentMax
         /\ pc + 1 \in 0..Len(program)
  <1>1. program \in Seq(Instruction)
    BY InterpreterAssumption DEF TypeOK
  <1>2. pc \in 0..(Len(program) - 1) /\ pc + 1 \in 0..Len(program)
    BY <1>1 DEF TypeOK, Fetches
  <1>3. Current \in Instruction
    BY <1>2, LoadedSection DEF Current
  <1> QED BY <1>2, <1>3, ChargedType DEF Fetches

\* A step that leaves the stacks and the registers alone and moves to a place in
\* the section keeps the invariant.
LEMMA MoveKeepsControl ==
  ASSUME ControlInv, spent' \in 0..SpentMax, pc' \in 0..Len(program),
         status' \in {"Idle", "Running", "Done"} \cup Fault,
         UNCHANGED <<program, limit, repeat, calls>>, regs' \in [Register -> Nat]
  PROVE  ControlInv'
  BY DEF ControlInv, TypeOK, StacksWellFormed

\* The stacks' invariant, and with it the type of every variable.
THEOREM ControlInvariant == Spec => []ControlInv
  <1>1. Init => ControlInv
    BY InterpreterAssumption, RegisterCountAssumption
       DEF Init, ControlInv, TypeOK, StacksWellFormed, Register
  <1>2. ControlInv /\ [Next]_vars => ControlInv'
    <2> SUFFICES ASSUME ControlInv, [Next]_vars PROVE ControlInv'
      OBVIOUS
    <2> USE DEF ControlInv
    <2>0. program \in Seq(Instruction)
      BY InterpreterAssumption DEF TypeOK
    <2>1. CASE SetBudget
      BY <2>1, InterpreterAssumption DEF SetBudget, TypeOK, StacksWellFormed
    <2>2. CASE Invoke
      <3>1. regs' \in [Register -> Nat]
        BY <2>2, InterpreterAssumption DEF Invoke, TypeOK
      <3> QED BY <2>2, <2>0, <3>1, InterpreterAssumption DEF Invoke, TypeOK, StacksWellFormed
    <2>3. CASE FallOff
      BY <2>3, MoveKeepsControl DEF FallOff, Stop, TypeOK
    <2>4. CASE OutOfBudget
      <3>1. Current.op \in Op
        BY <2>4, <2>0, LoadedSection DEF OutOfBudget, Current, TypeOK, Instruction
      <3> QED BY <2>4, <3>1, ChargedType, MoveKeepsControl DEF OutOfBudget, Stop, TypeOK, Fault
    <2>5. ASSUME NEW op \in {"LoadK", "ChRead"}, NEW results \in SUBSET Nat,
                 Compute(op, results), UNCHANGED <<program, limit>>
          PROVE  ControlInv'
      <3>1. op \in Op
        BY DEF Op
      <3>2. CASE Faults("BadProgram") \/ Faults("BadRegister")
        BY <2>5, <3>1, <3>2, FetchFacts, MoveKeepsControl DEF Compute, Faults, Stop, TypeOK, Fault
      <3>3. CASE /\ Current.a \in Register
                 /\ \E v \in results : regs' = [regs EXCEPT ![Current.a] = v]
                 /\ Continues(pc + 1)
                 /\ UNCHANGED <<repeat, calls>>
        BY <2>5, <3>1, <3>3, FetchFacts, MoveKeepsControl DEF Compute, Continues, TypeOK
      <3> QED BY <2>5, <3>2, <3>3 DEF Compute
    <2>6. CASE AStore /\ UNCHANGED <<program, limit>>
      BY <2>6, FetchFacts, MoveKeepsControl DEF AStore, Faults, Stop, TypeOK, Fault, Op
    <2>7. CASE MaskTest /\ UNCHANGED <<program, limit>>
      <3>1. Fetches("MaskTest") /\ pc \in 0..(Len(program) - 1)
        BY <2>7, FetchFacts DEF MaskTest, Op
      <3>2. pc + 1 + Current.bc \in 0..Len(program)
        BY <3>1, <2>0, LoadedSection DEF Fetches, Current, Instruction
      <3> QED BY <2>7, <3>1, <3>2, FetchFacts, MoveKeepsControl
              DEF MaskTest, Continues, Faults, Stop, TypeOK, Fault, Op
    <2>8. CASE RepeatBlock /\ UNCHANGED <<program, limit>>
      <3>1. /\ Fetches("Repeat") /\ pc \in 0..(Len(program) - 1) /\ pc + 1 \in 0..Len(program)
            /\ Current \in Instruction /\ spent' \in 0..SpentMax
        BY <2>8, FetchFacts DEF RepeatBlock, Op
      <3>2. CASE Faults("StackOverflow") \/ Faults("BadProgram")
        BY <2>8, <3>1, <3>2, MoveKeepsControl DEF Faults, Stop, TypeOK, Fault
      <3>3. CASE /\ \E next \in MatchingEnd(program, pc + 1) : Continues(next)
                 /\ UNCHANGED <<regs, repeat, calls>>
        <4>1. MatchingEnd(program, pc + 1) \subseteq 0..Len(program)
          BY <3>1, <2>0 DEF MatchingEnd, Closers
        <4> QED BY <2>8, <3>1, <3>3, <4>1, MoveKeepsControl DEF Continues, TypeOK
      <3>4. CASE /\ HasRoom /\ Current.bc > 0
                 /\ repeat' = Append(repeat, [start |-> pc + 1, left |-> Current.bc])
                 /\ Continues(pc + 1)
                 /\ UNCHANGED <<regs, calls>>
        <4>1. [start |-> pc + 1, left |-> Current.bc] \in [start : Nat, left : Nat]
          BY <3>1 DEF Instruction
        <4>2. TypeOK'
          BY <2>8, <3>1, <3>4, <4>1 DEF Continues, TypeOK
        <4>3. Current.op = "Repeat" /\ Current.bc \in 1..Current.bc
          BY <3>1, <3>4 DEF Fetches, Instruction
        <4>4. \A k \in 1..Len(repeat') :
                /\ repeat'[k].start \in 1..Len(program)
                /\ At(program, repeat'[k].start - 1).op = "Repeat"
                /\ repeat'[k].left \in 1..At(program, repeat'[k].start - 1).bc
          <5> SUFFICES ASSUME NEW k \in 1..Len(repeat')
                       PROVE  /\ repeat'[k].start \in 1..Len(program)
                              /\ At(program, repeat'[k].start - 1).op = "Repeat"
                              /\ repeat'[k].left \in 1..At(program, repeat'[k].start - 1).bc
            OBVIOUS
          <5>1. CASE k \in 1..Len(repeat)
            <6>1. repeat'[k] = repeat[k]
              BY <3>4, <5>1 DEF TypeOK
            <6> QED BY <5>1, <6>1 DEF StacksWellFormed
          <5>2. CASE k = Len(repeat) + 1
            <6>1. repeat'[k] = [start |-> pc + 1, left |-> Current.bc]
              BY <3>4, <5>2 DEF TypeOK
            <6>2. pc + 1 \in 1..Len(program) /\ (pc + 1) - 1 = pc
              BY <3>1, <2>0
            <6> QED BY <6>1, <6>2, <4>3 DEF Current
          <5>3. Len(repeat') = Len(repeat) + 1 /\ Len(repeat) \in Nat
            BY <3>4 DEF TypeOK
          <5> QED BY <5>1, <5>2, <5>3
        <4>5. Len(repeat') <= StackDepth
          BY <3>4, InterpreterAssumption DEF HasRoom, TypeOK
        <4> QED BY <2>8, <3>4, <4>2, <4>4, <4>5 DEF StacksWellFormed
      <3> QED BY <2>8, <3>2, <3>3, <3>4 DEF RepeatBlock
    <2>9. CASE EndRep /\ UNCHANGED <<program, limit>>
      <3>1. Fetches("EndRep") /\ pc + 1 \in 0..Len(program) /\ spent' \in 0..SpentMax
        BY <2>9, FetchFacts DEF EndRep, Op
      <3>2. CASE Faults("BadProgram")
        BY <2>9, <3>1, <3>2, MoveKeepsControl DEF Faults, Stop, TypeOK, Fault
      <3>3. CASE /\ repeat # <<>> /\ MoreTrips
                 /\ repeat' = CountedDown(repeat)
                 /\ Continues(Top(repeat).start)
                 /\ UNCHANGED <<regs, calls>>
        <4> DEFINE n == Len(repeat)
        <4>1. n \in 1..Len(repeat) /\ repeat[n] \in [start : Nat, left : Nat]
              /\ repeat[n].start \in 1..Len(program)
              /\ repeat[n].left \in 1..At(program, repeat[n].start - 1).bc
          BY <3>3, StackFacts DEF TypeOK, StacksWellFormed, Top
        <4>2. repeat' = [repeat EXCEPT ![n] = [start |-> repeat[n].start, left |-> repeat[n].left - 1]]
          <5>1. CountedDown(repeat) = [repeat EXCEPT ![n].left = repeat[n].left - 1]
            BY DEF CountedDown
          <5>2. [repeat[n] EXCEPT !.left = repeat[n].left - 1]
                  = [start |-> repeat[n].start, left |-> repeat[n].left - 1]
            BY <4>1
          <5> QED BY <3>3, <5>1, <5>2
        <4>3. [start |-> repeat[n].start, left |-> repeat[n].left - 1] \in [start : Nat, left : Nat]
          BY <4>1, <3>3 DEF MoreTrips, Top
        <4>4. TypeOK'
          BY <2>9, <3>1, <3>3, <4>1, <4>2, <4>3 DEF Continues, TypeOK, Top
        <4>5. \A k \in 1..Len(repeat) : repeat'[k].start = repeat[k].start
          BY <4>1, <4>2 DEF TypeOK
        <4>6. \A k \in 1..Len(repeat) : k # n => repeat'[k] = repeat[k]
          BY <4>2 DEF TypeOK
        <4>7. repeat'[n].left \in 1..At(program, repeat[n].start - 1).bc
          <5>1. At(program, repeat[n].start - 1) \in Instruction
            BY <4>1, <2>0, LoadedSection
          <5>2. repeat'[n].left = repeat[n].left - 1
            BY <4>1, <4>2 DEF TypeOK
          <5>3. repeat[n].left > 1
            BY <3>3 DEF MoreTrips, Top
          <5> QED BY <4>1, <5>1, <5>2, <5>3 DEF Instruction
        <4>8. Len(repeat') = Len(repeat)
          BY <4>2 DEF TypeOK
        <4> QED BY <2>9, <3>3, <4>4, <4>5, <4>6, <4>7, <4>8 DEF StacksWellFormed
      <3>4. CASE /\ repeat # <<>> /\ ~MoreTrips
                 /\ repeat' = Front(repeat)
                 /\ Continues(pc + 1)
                 /\ UNCHANGED <<regs, calls>>
        <4>1. /\ repeat' \in Seq([start : Nat, left : Nat])
              /\ Len(repeat') = Len(repeat) - 1
              /\ \A k \in 1..Len(repeat') : repeat'[k] = repeat[k]
          BY <3>4, StackFacts DEF TypeOK
        <4>2. TypeOK'
          BY <2>9, <3>1, <3>4, <4>1 DEF Continues, TypeOK
        <4>3. Len(repeat') <= StackDepth /\ 1..Len(repeat') \subseteq 1..Len(repeat)
          BY <3>4, <4>1, InterpreterAssumption DEF TypeOK, StacksWellFormed
        <4> QED BY <2>9, <3>4, <4>1, <4>2, <4>3 DEF StacksWellFormed
      <3> QED BY <2>9, <3>2, <3>3, <3>4 DEF EndRep
    <2>10. CASE Call /\ UNCHANGED <<program, limit>>
      <3>1. /\ Fetches("Call") /\ pc \in 0..(Len(program) - 1) /\ pc + 1 \in 0..Len(program)
            /\ Current \in Instruction /\ spent' \in 0..SpentMax
        BY <2>10, FetchFacts DEF Call, Op
      <3>2. CASE Faults("StackOverflow")
        BY <2>10, <3>1, <3>2, MoveKeepsControl DEF Faults, Stop, TypeOK, Fault
      <3>3. CASE /\ Len(calls) < StackDepth
                 /\ calls' = Append(calls, ReturnPosition)
                 /\ Continues(Current.bc)
                 /\ UNCHANGED <<regs, repeat>>
        <4>1. Current.bc \in 0..Len(program)
          <5>1. Current.op = "Call" /\ Current.bc \in Nat
            BY <3>1 DEF Fetches, Instruction
          <5>2. Current.bc < Len(program)
            BY <3>1, <5>1, LoadedSection DEF Current
          <5> QED BY <5>1, <5>2, <2>0
        <4>2. /\ calls' \in Seq(Nat) /\ Len(calls') = Len(calls) + 1
              /\ \A k \in 1..Len(calls) : calls'[k] = calls[k]
              /\ calls'[Len(calls) + 1] = pc + 1
          BY <3>1, <3>3 DEF ReturnPosition, TypeOK
        <4>3. \A k \in 1..Len(calls') :
                calls'[k] \in 1..Len(program) /\ At(program, calls'[k] - 1).op = "Call"
          <5>1. pc + 1 \in 1..Len(program) /\ (pc + 1) - 1 = pc
            BY <3>1, <2>0
          <5>2. At(program, pc).op = "Call"
            BY <3>1 DEF Fetches, Current
          <5>3. Len(calls) \in Nat
            BY DEF TypeOK
          <5>4. \A k \in 1..Len(calls') : k \in 1..Len(calls) \/ k = Len(calls) + 1
            BY <4>2, <5>3
          <5> QED BY <4>2, <5>1, <5>2, <5>4 DEF StacksWellFormed
        <4>4. Len(calls') <= StackDepth
          BY <3>3, <4>2, InterpreterAssumption DEF TypeOK
        <4> QED BY <2>10, <3>1, <3>3, <4>1, <4>2, <4>3, <4>4 DEF Continues, TypeOK, StacksWellFormed
      <3> QED BY <2>10, <3>2, <3>3 DEF Call
    <2>11. CASE Ret /\ UNCHANGED <<program, limit>>
      <3>1. Fetches("Ret") /\ pc + 1 \in 0..Len(program) /\ spent' \in 0..SpentMax
        BY <2>11, FetchFacts DEF Ret, Op
      <3>2. CASE Stop("Done") /\ pc' = pc + 1
        BY <2>11, <3>1, <3>2, MoveKeepsControl DEF Stop, TypeOK
      <3>3. CASE /\ calls # <<>>
                 /\ calls' = Front(calls)
                 /\ Continues(Top(calls))
                 /\ UNCHANGED <<regs, repeat>>
        <4>1. /\ calls' \in Seq(Nat) /\ Len(calls') = Len(calls) - 1
              /\ \A k \in 1..Len(calls') : calls'[k] = calls[k]
          BY <3>3, StackFacts DEF TypeOK
        <4>2. Top(calls) \in 0..Len(program)
          BY <3>3, StackFacts DEF Top, TypeOK, StacksWellFormed
        <4>3. TypeOK'
          BY <2>11, <3>1, <3>3, <4>1, <4>2 DEF Continues, TypeOK
        <4>4. Len(calls') <= StackDepth /\ 1..Len(calls') \subseteq 1..Len(calls)
          BY <3>3, <4>1, InterpreterAssumption DEF TypeOK, StacksWellFormed
        <4> QED BY <2>11, <3>3, <4>1, <4>3, <4>4 DEF StacksWellFormed
      <3> QED BY <2>11, <3>2, <3>3 DEF Ret
    <2>12. CASE Halt /\ UNCHANGED <<program, limit>>
      BY <2>12, FetchFacts, MoveKeepsControl DEF Halt, Stop, TypeOK, Op
    <2>13. CASE UNCHANGED vars
      BY <2>13 DEF vars, TypeOK, StacksWellFormed
    <2>14. LoadK /\ UNCHANGED <<program, limit>> => ControlInv'
      BY <2>5, InterpreterAssumption DEF LoadK
    <2>15. ChRead /\ UNCHANGED <<program, limit>> => ControlInv'
      BY <2>5, InterpreterAssumption DEF ChRead
    <2> QED BY <2>1, <2>2, <2>3, <2>4, <2>6, <2>7, <2>8, <2>9, <2>10, <2>11, <2>12, <2>13, <2>14, <2>15
            DEF Next, Step
  <1> QED BY <1>1, <1>2, PTL DEF Spec

\* Every variable keeps its type, and pc stays in the section.
THEOREM TypeCorrect == Spec => []TypeOK
  BY ControlInvariant, PTL DEF ControlInv

\* The stacks never outgrow their arrays, and hold only what REPEAT and CALL of
\* the section put there.
THEOREM WellFormedStacks == Spec => []StacksWellFormed
  BY ControlInvariant, PTL DEF ControlInv

-----------------------------------------------------------------------------
(* The open blocks.                                                          *)

\* In a section whose jumps respect its blocks, what is open is what the text says
\* at pc, and each open block is as deep as the text says where it starts: that is
\* where an ENDREP goes back to.
BlocksFollowText ==
  (Running /\ Structured(program)) =>
    /\ calls = <<>>
    /\ Len(repeat) = OpenRepeats(program, pc - 1)
    /\ \A k \in 1..Len(repeat) : OpenRepeats(program, repeat[k].start - 1) = k

NoRepeatIsBad == status = "BadProgram" => At(program, pc - 1).op # "Repeat"

BlockInv == BlocksFollowText /\ NoRepeatIsBad

\* Every step but SetBudget and Invoke is a step of a running invocation.
LEMMA FetchOpen ==
  ASSUME TypeOK, NEW op \in Op, Fetches(op)
  PROVE  /\ pc \in Nat /\ At(program, pc).op = op /\ Running
         /\ OpenRepeats(program, pc) \in Int /\ OpenRepeats(program, pc - 1) \in Int
         /\ op = "Repeat" => OpenRepeats(program, pc) = OpenRepeats(program, pc - 1) + 1
         /\ op = "EndRep" => OpenRepeats(program, pc) = OpenRepeats(program, pc - 1) - 1
         /\ op \notin {"Repeat", "EndRep"}
              => OpenRepeats(program, pc) = OpenRepeats(program, pc - 1)
  <1>1. pc \in Nat /\ At(program, pc).op = op /\ Running
    BY FetchFacts DEF Fetches, Current
  <1> QED BY <1>1, OpenRepeatsStep

\* An instruction that faults has been counted, and was not a REPEAT.
LEMMA FaultKeepsBlocks ==
  ASSUME TypeOK, BlockInv, NEW op \in Op, Fetches(op), NEW fault, Faults(fault), fault # "Running",
         op # "Repeat" \/ fault # "BadProgram", UNCHANGED program
  PROVE  BlockInv'
  <1>1. status' = fault /\ pc' - 1 = pc /\ ~Running'
    BY FetchOpen DEF Faults, Stop, Running
  <1>2. At(program, pc).op = op
    BY FetchOpen
  <1> QED BY <1>1, <1>2 DEF BlockInv, BlocksFollowText, NoRepeatIsBad

\* A running step that leaves the stacks alone and lands where as many blocks are
\* open as before.
LEMMA MoveKeepsBlocks ==
  ASSUME BlockInv, Running, Running', UNCHANGED <<program, repeat, calls>>,
         Structured(program) => OpenRepeats(program, pc' - 1) = OpenRepeats(program, pc - 1)
  PROVE  BlockInv'
  BY DEF BlockInv, BlocksFollowText, NoRepeatIsBad, Running

\* An invocation that is over has no open blocks to speak of.
LEMMA StopKeepsBlocks ==
  ASSUME status' \notin {"Running", "BadProgram"}
  PROVE  BlockInv'
  BY DEF BlockInv, BlocksFollowText, NoRepeatIsBad, Running

\* Before the first invocation nothing runs.
LEMMA BlocksStart == Init => BlockInv
  BY DEF Init, BlockInv, BlocksFollowText, NoRepeatIsBad, Running

\* Every step keeps the open blocks what the text says.
LEMMA BlocksStep ==
  ASSUME ControlInv, BlockInv, [Next]_vars
  PROVE  BlockInv'
  <1> USE DEF ControlInv
  <1>0. program \in Seq(Instruction) /\ Len(program) \in Nat /\ Valid(program, Profile)
    BY InterpreterAssumption DEF TypeOK
  <1>1. CASE SetBudget
    BY <1>1 DEF SetBudget, BlockInv, BlocksFollowText, NoRepeatIsBad, Running
  <1>2. CASE Invoke
    <2>1. pc' - 1 = -1 /\ repeat' = <<>> /\ calls' = <<>> /\ status' = "Running" /\ program' = program
      BY <1>2 DEF Invoke
    <2>2. Len(repeat') = 0
      BY <2>1
    <2> QED BY <2>1, <2>2, OpenRepeatsStart DEF BlockInv, BlocksFollowText, NoRepeatIsBad
  <1>3. CASE FallOff \/ OutOfBudget
    BY <1>3, StopKeepsBlocks DEF FallOff, OutOfBudget, Stop
  <1>4. ASSUME NEW op \in {"LoadK", "ChRead"}, NEW results, Compute(op, results), UNCHANGED <<program, limit>>
        PROVE  BlockInv'
    <2>1. op \in Op /\ Fetches(op)
      BY <1>4 DEF Compute, Op
    <2>2. CASE Faults("BadProgram") \/ Faults("BadRegister")
      BY <1>4, <2>1, <2>2, FaultKeepsBlocks
    <2>3. CASE Continues(pc + 1) /\ UNCHANGED <<repeat, calls>>
      <3>1. pc' - 1 = pc
        BY <2>1, <2>3, FetchOpen DEF Continues
      <3> QED BY <1>4, <2>1, <2>3, <3>1, FetchOpen, MoveKeepsBlocks DEF Continues, Running
    <2> QED BY <1>4, <2>2, <2>3 DEF Compute
  <1>5. CASE AStore /\ UNCHANGED <<program, limit>>
    BY <1>5, FaultKeepsBlocks DEF AStore, Op
  <1>6. CASE MaskTest /\ UNCHANGED <<program, limit>>
    <2>1. "MaskTest" \in Op /\ Fetches("MaskTest")
      BY <1>6 DEF MaskTest, Op
    <2>2. CASE Faults("BadRegister")
      BY <1>6, <2>1, <2>2, FaultKeepsBlocks
    <2>3. CASE /\ Continues(IF regs[Current.a] = 0 THEN pc + 1 + Current.bc ELSE pc + 1)
               /\ UNCHANGED <<regs, repeat, calls>>
      <3>1. /\ pc \in Positions(program) /\ At(program, pc).op = "MaskTest"
            /\ Current = At(program, pc) /\ Current.bc \in Nat /\ pc \in Nat
        BY <2>1, <1>0, FetchFacts, FetchOpen DEF Positions, Current, Instruction
      <3>2. pc' - 1 = pc + Current.bc \/ pc' - 1 = pc
        BY <2>3, <3>1 DEF Continues
      <3>3. Structured(program) =>
              OpenRepeats(program, pc + Current.bc) = OpenRepeats(program, pc)
        BY <3>1 DEF Structured, SkipsStayInBlock
      <3>4. OpenRepeats(program, pc) = OpenRepeats(program, pc - 1)
        BY <2>1, FetchOpen
      <3> QED BY <1>6, <2>1, <2>3, <3>2, <3>3, <3>4, FetchOpen, MoveKeepsBlocks DEF Continues, Running
    <2> QED BY <1>6, <2>2, <2>3 DEF MaskTest
  <1>7. CASE RepeatBlock /\ UNCHANGED <<program, limit>>
    <2>1. "Repeat" \in Op /\ Fetches("Repeat")
      BY <1>7 DEF RepeatBlock, Op
    <2>2. /\ pc \in Positions(program) /\ At(program, pc).op = "Repeat" /\ pc \in Nat /\ Running
          /\ OpenRepeats(program, pc) = OpenRepeats(program, pc - 1) + 1
          /\ OpenRepeats(program, pc - 1) \in Int
      BY <2>1, <1>0, FetchFacts, FetchOpen DEF Positions
    <2>3. CASE Faults("StackOverflow")
      BY <1>7, <2>1, <2>3, FaultKeepsBlocks
    <2>4. CASE MatchingEnd(program, pc + 1) = {}
      BY <1>0, <2>2, <2>4, EveryRepeatEnds DEF Valid
    <2>5. CASE \E next \in MatchingEnd(program, pc + 1) : Continues(next) /\ UNCHANGED <<regs, repeat, calls>>
      <3>1. PICK next \in MatchingEnd(program, pc + 1) : Continues(next)
        BY <2>5
      <3>2. OpenRepeats(program, next - 1) = OpenRepeats(program, pc - 1)
        BY <1>0, <2>2, MatchingEndCloses
      <3> QED BY <1>7, <2>2, <2>5, <3>1, <3>2, MoveKeepsBlocks DEF Continues, Running
    <2>6. CASE /\ repeat' = Append(repeat, [start |-> pc + 1, left |-> Current.bc])
               /\ Continues(pc + 1)
               /\ UNCHANGED <<regs, calls>>
      <3> DEFINE n == Len(repeat)
      <3>1. /\ n \in Nat /\ Len(repeat') = n + 1
            /\ \A k \in 1..n : repeat'[k] = repeat[k]
            /\ repeat'[n + 1].start = pc + 1
        BY <2>6 DEF TypeOK
      <3>2. pc' - 1 = pc /\ status' = status /\ program' = program /\ pc + 1 - 1 = pc
        BY <1>7, <2>2, <2>6 DEF Continues
      <3>3. ASSUME Structured(program) PROVE BlocksFollowText'
        <4>1. /\ calls = <<>> /\ n = OpenRepeats(program, pc - 1)
              /\ \A k \in 1..n : OpenRepeats(program, repeat[k].start - 1) = k
          BY <2>2, <3>3 DEF BlockInv, BlocksFollowText
        <4>2. \A k \in 1..(n + 1) : OpenRepeats(program, repeat'[k].start - 1) = k
          <5>1. \A k \in 1..(n + 1) : k \in 1..n \/ k = n + 1
            BY <3>1
          <5>2. OpenRepeats(program, repeat'[n + 1].start - 1) = n + 1
            BY <2>2, <3>1, <3>2, <4>1
          <5> QED BY <3>1, <4>1, <5>1, <5>2
        <4>3. n + 1 = OpenRepeats(program, pc)
          BY <2>2, <4>1
        <4> HIDE DEF n
        <4> QED BY <2>6, <3>1, <3>2, <4>1, <4>2, <4>3 DEF BlocksFollowText
      <3> QED BY <2>2, <3>2, <3>3 DEF BlockInv, BlocksFollowText, NoRepeatIsBad, Running
    <2> QED BY <1>7, <2>3, <2>4, <2>5, <2>6 DEF RepeatBlock
  <1>8. CASE EndRep /\ UNCHANGED <<program, limit>>
    <2>1. "EndRep" \in Op /\ Fetches("EndRep")
      BY <1>8 DEF EndRep, Op
    <2>2. /\ pc \in Nat /\ Running /\ OpenRepeats(program, pc) = OpenRepeats(program, pc - 1) - 1
          /\ OpenRepeats(program, pc - 1) \in Int
      BY <2>1, FetchOpen
    <2>3. CASE Faults("BadProgram")
      BY <1>8, <2>1, <2>3, FaultKeepsBlocks
    <2>4. CASE /\ repeat # <<>> /\ repeat' = CountedDown(repeat)
               /\ Continues(Top(repeat).start)
               /\ UNCHANGED <<regs, calls>>
      <3> DEFINE n == Len(repeat)
      <3>1. n \in 1..n /\ repeat[n] \in [start : Nat, left : Nat] /\ Top(repeat) = repeat[n]
        BY <2>4, StackFacts DEF TypeOK, Top
      <3>2. repeat' = [repeat EXCEPT ![n].left = repeat[n].left - 1]
        BY <2>4 DEF CountedDown
      <3>3. Len(repeat') = n /\ \A k \in 1..n : repeat'[k].start = repeat[k].start
        BY <3>1, <3>2 DEF TypeOK
      <3>4. pc' = repeat[n].start /\ status' = status /\ program' = program /\ calls' = calls
        BY <1>8, <2>4, <3>1 DEF Continues
      <3> HIDE DEF n
      <3> QED BY <2>2, <3>1, <3>3, <3>4 DEF BlockInv, BlocksFollowText, NoRepeatIsBad, Running, n
    <2>5. CASE /\ repeat # <<>> /\ repeat' = Front(repeat)
               /\ Continues(pc + 1)
               /\ UNCHANGED <<regs, calls>>
      <3> DEFINE n == Len(repeat)
      <3>1. n \in 1..n /\ Len(repeat') = n - 1 /\ \A k \in 1..(n - 1) : repeat'[k] = repeat[k]
        BY <2>5, StackFacts DEF TypeOK
      <3>2. pc' - 1 = pc /\ status' = status /\ program' = program /\ calls' = calls
        BY <1>8, <2>2, <2>5 DEF Continues
      <3>3. ASSUME Structured(program) PROVE BlocksFollowText'
        <4>1. /\ calls = <<>> /\ n = OpenRepeats(program, pc - 1)
              /\ \A k \in 1..n : OpenRepeats(program, repeat[k].start - 1) = k
          BY <2>2, <3>3 DEF BlockInv, BlocksFollowText
        <4>2. n - 1 = OpenRepeats(program, pc) /\ 1..(n - 1) \subseteq 1..n
          BY <2>2, <3>1, <4>1
        <4> HIDE DEF n
        <4> QED BY <3>1, <3>2, <4>1, <4>2 DEF BlocksFollowText
      <3> QED BY <2>2, <3>2, <3>3 DEF BlockInv, BlocksFollowText, NoRepeatIsBad, Running
    <2> QED BY <1>8, <2>3, <2>4, <2>5 DEF EndRep
  <1>9. CASE Call /\ UNCHANGED <<program, limit>>
    <2>1. "Call" \in Op /\ Fetches("Call")
      BY <1>9 DEF Call, Op
    <2>2. pc \in Positions(program) /\ At(program, pc).op = "Call" /\ Running
      BY <2>1, FetchFacts, FetchOpen DEF Positions
    <2>3. ~Structured(program)
      BY <2>2 DEF Structured, CallFree
    <2>4. program' = program
      BY <1>9
    <2>5. CASE Faults("StackOverflow")
      BY <1>9, <2>1, <2>5, FaultKeepsBlocks
    <2>6. CASE Continues(Current.bc)
      BY <2>2, <2>3, <2>4, <2>6 DEF Continues, BlockInv, BlocksFollowText, NoRepeatIsBad, Running
    <2> QED BY <1>9, <2>5, <2>6 DEF Call
  <1>10. CASE Ret /\ UNCHANGED <<program, limit>>
    <2>1. CASE Stop("Done")
      BY <2>1, StopKeepsBlocks DEF Stop
    <2>2. CASE calls # <<>> /\ Continues(Top(calls))
      <3>1. Running /\ ~Structured(program)
        BY <1>10, <2>2 DEF Ret, Fetches, BlockInv, BlocksFollowText
      <3> QED BY <1>10, <2>2, <3>1 DEF Continues, BlockInv, BlocksFollowText, NoRepeatIsBad, Running
    <2> QED BY <1>10, <2>1, <2>2 DEF Ret
  <1>11. CASE Halt
    BY <1>11, StopKeepsBlocks DEF Halt, Stop
  <1>12. CASE UNCHANGED vars
    BY <1>12 DEF vars, BlockInv, BlocksFollowText, NoRepeatIsBad, Running
  <1>13. LoadK /\ UNCHANGED <<program, limit>> => BlockInv'
    BY <1>4 DEF LoadK
  <1>14. ChRead /\ UNCHANGED <<program, limit>> => BlockInv'
    BY <1>4 DEF ChRead
  <1> QED BY <1>1, <1>2, <1>3, <1>5, <1>6, <1>7, <1>8, <1>9, <1>10, <1>11, <1>12, <1>13, <1>14
          DEF Next, Step

\* The open blocks are those the text says, and no REPEAT misses its ENDREP.
THEOREM BlocksAsWritten == Spec => []OpenBlocksFollowText
  <1>1. ControlInv /\ BlockInv => OpenBlocksFollowText
    <2> SUFFICES ASSUME ControlInv, BlockInv PROVE OpenBlocksFollowText
      OBVIOUS
    <2>1. pc = 0 => OpenRepeats(program, pc - 1) = 0
      BY OpenRepeatsStart
    <2> QED BY <2>1 DEF BlockInv, BlocksFollowText, NoRepeatIsBad, OpenBlocksFollowText
  <1>2. ControlInv /\ BlockInv /\ [Next]_vars => BlockInv'
    BY BlocksStep
  <1> QED BY <1>1, <1>2, BlocksStart, ControlInvariant, PTL DEF Spec

-----------------------------------------------------------------------------
(* What a loop-free section costs.                                           *)

\* Without loops and calls the position only moves forward, so what is spent is at
\* most what the instructions before it cost.
CostBound ==
  LoopFree(program) =>
    /\ spent <= SectionCost(program)
    /\ Running => repeat = <<>> /\ calls = <<>> /\ spent <= CostSums(program)[pc]

\* An instruction that is fetched, or refused for want of budget, was still ahead.
LEMMA ChargedWithinCost ==
  ASSUME ControlInv, CostBound, LoopFree(program), Running, pc < Len(program)
  PROVE  /\ pc + 1 \in 1..Len(program)
         /\ Charged(Current.op) <= CostSums(program)[pc + 1]
         /\ Charged(Current.op) <= SectionCost(program)
  <1>1. program \in Seq(Instruction) /\ pc + 1 \in 1..Len(program) /\ pc \in 0..Len(program)
    BY InterpreterAssumption DEF ControlInv, TypeOK
  <1>2. Current = program[pc + 1] /\ Cost[Current.op] \in Nat
    BY <1>1, InstructionCost DEF Current, At
  <1>3. Charged(Current.op) <= spent + Cost[Current.op]
    BY <1>2, InterpreterAssumption DEF Charged, ControlInv, TypeOK
  <1>4. CostSums(program)[pc + 1] = CostSums(program)[pc] + Cost[Current.op]
    <2>1. (pc + 1) - 1 = pc
      BY <1>1
    <2> QED BY <1>1, <1>2, <2>1, CostSumsAdd
  <1>5. /\ CostSums(program)[pc] \in Nat /\ CostSums(program)[pc + 1] \in Nat
        /\ SectionCost(program) \in Nat /\ CostSums(program)[pc + 1] <= SectionCost(program)
    BY <1>1, CostSumsType, CostSumsGrow DEF SectionCost
  <1>6. spent <= CostSums(program)[pc] /\ spent \in Nat
    BY DEF CostBound, ControlInv, TypeOK
  <1>7. Charged(Current.op) \in Nat
    BY <1>2, <1>6, InterpreterAssumption DEF Charged
  <1> QED BY <1>1, <1>2, <1>3, <1>4, <1>5, <1>6, <1>7

\* A fetched instruction that moves forward, or stops, keeps the bound.
LEMMA ForwardKeepsCost ==
  ASSUME ControlInv, CostBound, NEW op \in Op, Fetches(op), UNCHANGED program,
         LoopFree(program) /\ Running' =>
           UNCHANGED <<repeat, calls>> /\ pc' \in pc + 1..Len(program)
  PROVE  CostBound'
  <1> SUFFICES ASSUME LoopFree(program)
               PROVE  /\ spent' <= SectionCost(program)
                      /\ Running' => repeat' = <<>> /\ calls' = <<>> /\ spent' <= CostSums(program)[pc']
    BY DEF CostBound
  <1>1. /\ pc + 1 \in 1..Len(program) /\ spent' <= CostSums(program)[pc + 1]
        /\ spent' <= SectionCost(program)
    BY ChargedWithinCost DEF Fetches
  <1>2. ASSUME Running' PROVE spent' <= CostSums(program)[pc']
    <2>1. pc' \in pc + 1..Len(program) /\ program \in Seq(Instruction)
      BY <1>2, InterpreterAssumption DEF ControlInv, TypeOK
    <2>2. /\ CostSums(program)[pc + 1] <= CostSums(program)[pc']
          /\ CostSums(program)[pc + 1] \in Nat /\ CostSums(program)[pc'] \in Nat
      BY <1>1, <2>1, CostSumsGrow, CostSumsType
    <2>3. spent' \in Nat
      BY FetchFacts DEF ControlInv
    <2> QED BY <1>1, <2>2, <2>3
  <1> QED BY <1>1, <1>2 DEF CostBound, Fetches

\* At the start nothing has been spent.
LEMMA CostStart ==
  ASSUME Init
  PROVE  CostBound
  <1>1. program \in Seq(Instruction)
    BY InterpreterAssumption DEF Init
  <1>2. SectionCost(program) \in Nat
    BY <1>1, CostSumsType DEF SectionCost
  <1> QED BY <1>2 DEF Init, CostBound, Running

\* No step spends more than the instructions passed cost.
LEMMA CostStep ==
  ASSUME ControlInv, CostBound, [Next]_vars
  PROVE  CostBound'
  <1>0. program \in Seq(Instruction) /\ Len(program) \in Nat
    BY InterpreterAssumption DEF ControlInv, TypeOK
  <1>1. CASE SetBudget
    BY <1>1 DEF SetBudget, CostBound, Running
  <1>2. CASE Invoke
    <2>1. /\ pc' = 0 /\ repeat' = <<>> /\ calls' = <<>> /\ spent' = 0 /\ program' = program
      BY <1>2 DEF Invoke
    <2>2. CostSums(program)[0] = 0 /\ SectionCost(program) \in Nat
      BY <1>0, CostSumsAdd, CostSumsType DEF SectionCost
    <2> QED BY <2>1, <2>2 DEF CostBound
  <1>3. CASE FallOff
    BY <1>3 DEF FallOff, Stop, CostBound, Running
  <1>4. CASE OutOfBudget
    BY <1>4, ChargedWithinCost DEF OutOfBudget, Stop, CostBound, Running
  <1>5. ASSUME NEW op \in {"LoadK", "ChRead"}, NEW results, Compute(op, results), UNCHANGED <<program, limit>>
        PROVE  CostBound'
    <2>1. op \in Op /\ Fetches(op) /\ pc + 1 \in pc + 1..Len(program)
      BY <1>0, <1>5, FetchFacts DEF Compute, Op, ControlInv
    <2> QED BY <1>5, <2>1, ForwardKeepsCost DEF Compute, Faults, Stop, Continues, Running
  <1>6. CASE AStore /\ UNCHANGED <<program, limit>>
    BY <1>6, ForwardKeepsCost DEF AStore, Faults, Stop, Running, Op
  <1>7. CASE MaskTest /\ UNCHANGED <<program, limit>>
    <2>1. "MaskTest" \in Op /\ Fetches("MaskTest") /\ pc \in 0..(Len(program) - 1)
      BY <1>7, FetchFacts DEF MaskTest, Op, ControlInv
    <2>2. /\ pc + 1 \in pc + 1..Len(program)
          /\ pc + 1 + Current.bc \in pc + 1..Len(program)
      BY <1>0, <2>1, LoadedSection DEF Fetches, Current, Instruction, ControlInv
    <2> QED BY <1>7, <2>1, <2>2, ForwardKeepsCost DEF MaskTest, Faults, Stop, Continues, Running
  <1>8. CASE (RepeatBlock \/ Call) /\ UNCHANGED <<program, limit>>
    <2>1. PICK op \in {"Repeat", "Call"} : Fetches(op)
      BY <1>8 DEF RepeatBlock, Call
    <2>2. pc \in Positions(program) /\ At(program, pc).op = op /\ op \in Op
      BY <2>1, FetchFacts DEF Fetches, Current, Positions, Op, ControlInv
    <2>3. ~LoopFree(program)
      BY <2>1, <2>2 DEF LoopFree
    <2> QED BY <1>8, <2>3 DEF CostBound
  <1>9. CASE EndRep /\ UNCHANGED <<program, limit>>
    <2>1. "EndRep" \in Op /\ Fetches("EndRep") /\ Running
      BY <1>9 DEF EndRep, Op, Fetches
    <2>2. ASSUME LoopFree(program) PROVE Faults("BadProgram")
      <3>1. repeat = <<>>
        BY <2>1, <2>2 DEF CostBound
      <3> QED BY <1>9, <3>1 DEF EndRep
    <2> QED BY <1>9, <2>1, <2>2, ForwardKeepsCost DEF Faults, Stop, Running
  <1>10. CASE Ret /\ UNCHANGED <<program, limit>>
    <2>1. "Ret" \in Op /\ Fetches("Ret") /\ Running
      BY <1>10 DEF Ret, Op, Fetches
    <2>2. ASSUME LoopFree(program) PROVE Stop("Done")
      <3>1. calls = <<>>
        BY <2>1, <2>2 DEF CostBound
      <3> QED BY <1>10, <3>1 DEF Ret
    <2> QED BY <1>10, <2>1, <2>2, ForwardKeepsCost DEF Stop, Running
  <1>11. CASE Halt /\ UNCHANGED <<program, limit>>
    BY <1>11, ForwardKeepsCost DEF Halt, Stop, Running, Op
  <1>12. CASE UNCHANGED vars
    BY <1>12 DEF vars, CostBound, Running
  <1>13. LoadK /\ UNCHANGED <<program, limit>> => CostBound'
    BY <1>5 DEF LoadK
  <1>14. ChRead /\ UNCHANGED <<program, limit>> => CostBound'
    BY <1>5 DEF ChRead
  <1> QED BY <1>1, <1>2, <1>3, <1>4, <1>6, <1>7, <1>8, <1>9, <1>10, <1>11, <1>12, <1>13, <1>14
          DEF Next, Step

\* A loop-free section never spends more than section_cost says of it.
THEOREM LoopFreeCost == Spec => []LoopFreeWithinCost
  <1>1. CostBound => LoopFreeWithinCost
    BY DEF CostBound, LoopFreeWithinCost
  <1> QED BY <1>1, CostStart, CostStep, ControlInvariant, PTL DEF Spec
-----------------------------------------------------------------------------
(* What lets a budget end every invocation.                                 *)

\* As long as an invocation goes on under a budget, every step of it spends more
\* of it and none passes it: there are never more steps than the budget has units.
BudgetRunsOut ==
  [][Running /\ Running' /\ limit < SpentMax
       => limit' = limit /\ spent < spent' /\ spent' <= limit]_vars

\* An instruction within the budget spends some of it.
LEMMA FetchSpends ==
  ASSUME TypeOK, NEW op \in Op, Fetches(op), limit < SpentMax
  PROVE  spent < spent' /\ spent' <= limit
  <1>1. Cost[op] \in Nat \ {0}
    BY CostAssumption
  <1> QED BY <1>1, InterpreterAssumption DEF Fetches, Charged, TypeOK

\* Under a budget the steps of an invocation are bounded, whatever the program:
\* the reason why one that loops or calls itself for ever is stopped.
THEOREM BudgetsEnd == Spec => BudgetRunsOut
  <1>1. ControlInv /\ [Next]_vars
          => [Running /\ Running' /\ limit < SpentMax
                => limit' = limit /\ spent < spent' /\ spent' <= limit]_vars
    <2> SUFFICES ASSUME ControlInv, Next, Running, Running', limit < SpentMax
                 PROVE  limit' = limit /\ spent < spent' /\ spent' <= limit
      OBVIOUS
    <2>1. Step
      BY DEF Next, SetBudget, Invoke
    <2>2. ~FallOff /\ ~OutOfBudget
      BY DEF FallOff, OutOfBudget, Stop, Running
    <2>3. (\E op \in Op : Fetches(op)) /\ limit' = limit
      BY <2>1, <2>2 DEF Step, Op, LoadK, ChRead, Compute, AStore, MaskTest, RepeatBlock, EndRep, Call, Ret, Halt
    <2> QED BY <2>3, FetchSpends DEF ControlInv
  <1> QED BY <1>1, ControlInvariant, PTL DEF Spec, BudgetRunsOut
=============================================================================
