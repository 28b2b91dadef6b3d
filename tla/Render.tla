------------------------------- MODULE Render -------------------------------
(***************************************************************************)
(* A shell rendering frames on the register machine.                       *)
(*                                                                         *)
(* A frame runs the frame section once on core 1, copies that machine to   *)
(* core 2 (lumen_machine_clone) and gives each core a range of the strip   *)
(* (lumen_render_range).  The cores go pixel by pixel, in any              *)
(* interleaving, each with its own machine, which carries its registers    *)
(* from one pixel to the next.  A fault ends the core's range and leaves   *)
(* what the strip showed before.                                           *)
(*                                                                         *)
(* Shell = "CAbi" is lumen-capi: a new machine, no once section, zeros for *)
(* prev.  Shell = "Device" is the shell lumen-vm is documented for: the    *)
(* once section on activation, and each pixel's history fed back to it.    *)
(***************************************************************************)
EXTENDS PixelMachine, FiniteSets

CONSTANTS
  Programs,   \* [once, frame, pixel, sim : Seq(Ins), readsDt : BOOLEAN, elements]
  Count,      \* LEDs on the strip
  Times,      \* show times a frame may be rendered at, in order
  Dts,        \* time since the previous frame
  Shell       \* "Device" or "CAbi"

ASSUME ShellAssumption == Shell \in {"Device", "CAbi"}
ASSUME CountAssumption == Count \in Nat /\ Times \subseteq Nat \ {0}

ASSUME DtsAssumption == Dts # {}

\* What the loader accepted: no skip runs past the end of its section.
SkipsLand(code) ==
  \A j \in 1..Len(code) : code[j].op = "MaskTest" => code[j].b \in 0..(Len(code) - j)

ASSUME ProgramsAssumption ==
  \A p \in Programs : \A code \in {p.once, p.frame, p.pixel, p.sim} :
    Len(code) \in Nat /\ SkipsLand(code)

VARIABLES
  program,   \* what is active
  show,      \* [t, dt] of the frame being rendered, t = 0 before the first
  base,      \* the machine as the frame section left it
  machine,   \* each core's machine
  cursor,    \* the pixel each core renders next
  limit,     \* where its range ends
  strip,     \* linear_out: the colour of each LED
  fresh,     \* LEDs rendered for this frame
  history,   \* each pixel's prev_out when it was last rendered
  before,    \* history as this frame began
  master,    \* the machine of the sim master
  elements,  \* the simulation's arrays, as last broadcast
  earlier    \* and as they were in the frame before

vars == <<program, show, base, machine, cursor, limit, strip, fresh, history, before,
          master, elements, earlier>>

Cores == {1, 2}
Leds == 0..(Count - 1)

\* What activation leaves: the once section has run, if the shell runs it.
Activated(p) == IF Shell = "Device" THEN RunOnce(New, p).m ELSE New

\* The history a pixel is given.
PrevOf(past, i) == IF Shell = "Device" THEN past[i] ELSE Black

TypeOK ==
  /\ program \in Programs
  /\ show \in [t : Times \cup {0}, dt : Dts]
  /\ \A c \in Cores : DOMAIN machine[c].regs = Registers
  /\ cursor \in [Cores -> 0..Count] /\ limit \in [Cores -> 0..Count]
  /\ \A c \in Cores : cursor[c] <= limit[c]
  /\ \A i \in Leds : Len(strip[i]) = 3 /\ Len(history[i]) = 3
  /\ fresh \subseteq Leds

Init ==
  /\ program \in Programs
  /\ show = [t |-> 0, dt |-> CHOOSE d \in Dts : TRUE]
  /\ base = Activated(program)
  /\ machine = [c \in Cores |-> Activated(program)]
  /\ cursor = [c \in Cores |-> 0] /\ limit = [c \in Cores |-> 0]
  /\ strip = [i \in Leds |-> Black]
  /\ history = [i \in Leds |-> Black] /\ before = history
  /\ fresh = {}
  /\ master = New
  /\ elements = program.elements /\ earlier = elements

Rendering == \E c \in Cores : cursor[c] < limit[c]

\* The sim master's step for a frame, which only a program with a sim has.
Simulated(t) ==
  IF program.sim = <<>> THEN [m |-> master, bank |-> elements]
  ELSE RunSim(master, program, t, elements)

\* The master's broadcast is in before the frame is rendered.  Then lumen_frame,
\* lumen_machine_clone, and the split of the strip at k.  Core 1
\* keeps the machine it rendered its last range with.
Frame(t, dt, k) ==
  LET s == RunFrameAt(machine[1], program, t, dt)
      sim == Simulated(t)
  IN  /\ ~Rendering
      /\ t > show.t
      /\ show' = [t |-> t, dt |-> dt]
      /\ base' = s.m
      /\ machine' = [c \in Cores |-> s.m]
      /\ fresh' = {}
      /\ before' = history
      /\ master' = sim.m /\ elements' = sim.bank /\ earlier' = elements
      /\ cursor' = IF s.fault THEN [c \in Cores |-> 0] ELSE <<0, k>>
      /\ limit' = IF s.fault THEN [c \in Cores |-> 0] ELSE <<k, Count>>
      /\ UNCHANGED <<program, strip, history>>

\* Mistake: a pixel that faults is passed over and the range goes on.
AfterFaultNext(c) == cursor[c] + 1

\* A fault is returned at once: the rest of the range is not rendered.
AfterFault(c) == limit[c]

\* One turn of lumen_render_range's loop on core c.
Pixel(c) ==
  LET i == cursor[c]
      s == RunPixel(machine[c], program, i, PrevOf(history, i), elements)
  IN  /\ i < limit[c]
      /\ machine' = [machine EXCEPT ![c] = s.m]
      /\ IF s.fault
         THEN /\ cursor' = [cursor EXCEPT ![c] = AfterFault(c)]
              /\ UNCHANGED <<strip, fresh, history>>
         ELSE /\ cursor' = [cursor EXCEPT ![c] = i + 1]
              /\ strip' = [strip EXCEPT ![i] = s.out.color]
              /\ fresh' = fresh \cup {i}
              /\ history' = [history EXCEPT ![i] = s.m.prevOut]
      /\ UNCHANGED <<program, show, base, limit, before, master, elements, earlier>>

Next ==
  \/ \E t \in Times, dt \in Dts, k \in 0..Count : Frame(t, dt, k)
  \/ \E c \in Cores : Pixel(c)

Spec == Init /\ [][Next]_vars

-----------------------------------------------------------------------------
(* What a frame should look like. *)

\* A device that has rendered nothing before: it activates the program, runs
\* the frame section at this time and renders this pixel alone.
Alone(i, prev, dt) ==
  RunPixel(RunFrameAt(RunOnce(New, program).m, program, show.t, dt).m, program, i, prev, elements)

\* A program that does not read dt looks the same at any frame rate.
FrameRates == IF program.readsDt THEN {show.dt} ELSE Dts \cup {0}

\* A device that renders the whole strip on one core, up to and including i.
WholeTo[i \in Leds] ==
  RunPixel(IF i = 0 THEN base ELSE WholeTo[i - 1].m, program, i, PrevOf(before, i),
           elements)

-----------------------------------------------------------------------------
(* Programs that use their registers as the compiler hands them out. *)

\* The inputs a frame is given, and a pixel.
ShowInputs == {R_T} \cup (IF program.readsDt THEN {R_DT} ELSE {})
Inputs == ShowInputs \cup {R_I, R_U, R_PREV, R_PREV + 1, R_PREV + 2}
Steps(code) == 1..Len(code)
AllTargets(code) == UNION {Targets(code[j]) : j \in Steps(code)}
SourceSet(ins) == {Sources(ins)[j] : j \in DOMAIN Sources(ins)}

\* Written before the n-th instruction whenever that one is reached: a MASKTEST
\* that skips the write skips the n-th too.
Written(code, n) ==
  UNION {Targets(code[j]) : j \in {j \in 1..(n - 1) : \A l \in 1..(j - 1) :
    code[l].op = "MaskTest" => l + code[l].b \notin j..(n - 1)}}

ReadsOnly(code, given) ==
  \A n \in Steps(code) : SourceSet(code[n]) \subseteq given \cup Written(code, n)

\* A section that always runs to its end.
NeverHalts(code) == \A j \in Steps(code) : code[j].op \notin {"Halt", "Ret"}

\* A register that one section hands to another is written by no later one, nor
\* by the shell: of once and frame those that frame and pixel leave alone.
FromOnce ==
  Written(program.once, Len(program.once) + 1)
    \ (Inputs \cup AllTargets(program.frame) \cup AllTargets(program.pixel))

FromFrame == Written(program.frame, Len(program.frame) + 1) \ AllTargets(program.pixel)

Disciplined ==
  /\ ReadsOnly(program.once, {})
  /\ ReadsOnly(program.frame, ShowInputs \cup FromOnce)
  /\ ReadsOnly(program.pixel, Inputs \cup FromOnce \cup FromFrame)
  /\ ShowInputs \cap (AllTargets(program.once) \cup AllTargets(program.frame)
                        \cup AllTargets(program.pixel)) = {}
  /\ NeverHalts(program.frame)
  /\ \A j \in Steps(program.once) : program.once[j].op # "PrevWrite"

\* A step of a simulation reads the time, and what it has itself computed.
SimDisciplined == ReadsOnly(program.sim, {R_T})

-----------------------------------------------------------------------------
(* Properties *)

\* What a pixel shows, and the history it leaves (its last PREVWRITE, else the
\* colour it emitted, else what it was given), follow from the program, the show
\* time, the elements broadcast and the pixel's own history: not from the frames
\* and pixels this machine rendered before it, from where the strip was split,
\* or from what the other core has done.
RendersFromShowTime ==
  Disciplined => \A i \in fresh, dt \in FrameRates :
    LET alone == Alone(i, PrevOf(before, i), dt)
    IN  strip[i] = alone.out.color /\ history[i] = alone.m.prevOut

\* Two cores rendering halves produce what one core rendering all of the strip
\* would (lumen-capi, lumen_render_range).
HalvesMatchTheWhole ==
  \A i \in fresh : strip[i] = WholeTo[i].out.color

\* A fault costs the LED it happens on and the rest of that core's range, which
\* go on showing the frame before; every other LED is rendered.
FaultsCostOnlyTheRest ==
  (Disciplined /\ ~Rendering) => \A i \in Leds :
    LET first == IF i < limit[1] THEN 0 ELSE limit[1]
    IN  i \in fresh <=>
          /\ i < limit[2]
          /\ \A j \in first..i : ~Alone(j, PrevOf(before, j), show.dt).fault

\* prev is what this pixel showed in the frame before (docs/bytecode-vm.md),
\* also in programs that never write the history themselves.
PrevIsTheLastFrame ==
  Disciplined => \A i \in fresh : strip[i] = Alone(i, before[i], show.dt).out.color

\* Any device may be the simulation's master: the elements broadcast for a frame
\* are those that one which has run nothing before makes of the ones in use.
AnyMasterWillDo ==
  (SimDisciplined /\ show.t > 0) =>
    elements = IF program.sim = <<>> THEN earlier ELSE RunSim(New, program, show.t, earlier).bank
=============================================================================
