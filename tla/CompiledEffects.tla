--------------------------- MODULE CompiledEffects ---------------------------
(***************************************************************************)
(* From source to light: effects through the code generator, and what it   *)
(* makes of them, beside programs that were not compiled at all, through a *)
(* shell's frames, pixels and cores.                                       *)
(***************************************************************************)
EXTENDS Render, Simulations

Compiled == "effect" \in DOMAIN program

\* What the effect itself says this pixel shows, and leaves for the next frame.
Meant(i) ==
  EffectMeaning(program.effect, i, show.t, show.dt, PrevOf(before, i),
                IF elements = <<>> THEN <<>> ELSE elements[1])

\* Every LED shows what its effect means, whichever registers the compiler gave
\* its values, whatever was hoisted into the frame section, and whichever pixels
\* its machine rendered before.
ShowsWhatTheEffectMeans ==
  Compiled => \A i \in fresh : strip[i] = Meant(i).color /\ history[i] = Meant(i).history

\* A frame's step of the simulation moves every element as its sim block says,
\* whichever arms are taken, whatever shares registers with what, and whatever
\* the master's machine did before: another master, given the elements last
\* broadcast, would make the same ones of them.
ElementsMoveAsWritten ==
  (Compiled /\ show.t > 0) => elements = SimMeaning(program.effect, earlier, show.t, show.dt)

\* The compiler keeps to the register discipline: no program reads what an
\* earlier pixel, frame or step of the simulation left behind.
CompilerIsDisciplined ==
  (Compiled /\ show.t = 0) => Disciplined /\ SimDisciplined
=============================================================================
