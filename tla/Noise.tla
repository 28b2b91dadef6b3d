------------------------------- MODULE Noise --------------------------------
(***************************************************************************)
(* What the VM interpolates over a grid: value noise (lumen-vm, noise.rs)  *)
(* and palettes (Program::palette_sample in program.rs).                   *)
(***************************************************************************)
EXTENDS FixedPoint

CONSTANTS
  Hashed(_, _, _),   \* lattice(): the value below one of a lattice point
  Stops              \* PALETTE_STOPS, 16 in the code

ASSUME StopsAssumption == Stops \in 1..MaxWord

\* 3t^2 - 2t^3
Fade(t) == Mul(Mul(t, t), Sub(FromInt(3), Mul(t, FromInt(2))))

\* Mistake: a coordinate below zero is split toward zero.
CellTruncated(v) == Quotient(v, One)

\* split(): the cell a coordinate is in; how far into it is its Fract.
Cell(v) == Shr(v, Shift)

Noise1(x) == Lerp(Hashed(Cell(x), 0, 0), Hashed(Cell(x) + 1, 0, 0), Fade(Fract(x)))

\* Along x, on the edge (y, z) of a cell.
AlongX(x, y, z) == Lerp(Hashed(Cell(x), y, z), Hashed(Cell(x) + 1, y, z), Fade(Fract(x)))

Noise2(x, y) == Lerp(AlongX(x, Cell(y), 0), AlongX(x, Cell(y) + 1, 0), Fade(Fract(y)))

\* Along x and y, on the face z of a cell.
AlongXY(x, y, z) == Lerp(AlongX(x, Cell(y), z), AlongX(x, Cell(y) + 1, z), Fade(Fract(y)))

Noise3(x, y, z) == Lerp(AlongXY(x, y, Cell(z)), AlongXY(x, y, Cell(z) + 1), Fade(Fract(z)))

-----------------------------------------------------------------------------
\* Mistake: the last stop leads to itself and not back to the first.
StopClamped(palette, i) == palette[MinOf(i, Stops - 1) + 1]

Stop(palette, i) == palette[(i % Stops) + 1]

\* One colour component of palette_sample; a palette is a ring of Stops values.
PaletteSample(palette, pos) ==
  LET scaled == Mul(Fract(pos), FromInt(Stops))
  IN  Lerp(Stop(palette, ToInt(scaled)), Stop(palette, ToInt(scaled) + 1), Fract(scaled))
=============================================================================
