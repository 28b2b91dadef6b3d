-------------------------- MODULE FixedPointMachine --------------------------
(***************************************************************************)
(* An accumulator that is taken through any chain of fixed-point           *)
(* operations, from zero: the values a program's registers may come to     *)
(* hold, and the show time beside it.                                      *)
(***************************************************************************)
EXTENDS Noise

CONSTANTS
  Operands,    \* second and third operands
  Palettes,    \* bound: the palettes sampled
  MaxMicros    \* show times end here, past the wrap

VARIABLES acc, micros

vars == <<acc, micros>>

Unary == {Neg(acc), Abs(acc), Floor(acc), Fract(acc), Sqrt(acc), SinTurns(acc), CosTurns(acc),
           Sin(acc), Log2(acc), Exp2(acc), Noise1(acc)}
           \cup {PaletteSample(palette, acc) : palette \in Palettes}

Binary(o) == {Add(acc, o), Sub(acc, o), Mul(acc, o), Div(acc, o), MinOf(acc, o), MaxOf(acc, o),
               Step(acc, o), Pow(acc, o), Atan2(acc, o), Len2(acc, o), Noise2(acc, o)}

Ternary(o, p) == {Madd(acc, o, p), Clamp(acc, o, p), Lerp(acc, o, p), SmoothStep(acc, o, p),
                   Len3(acc, o, p), Noise3(acc, o, p)}

Init == acc = 0 /\ micros = 0

Running == acc # Fault

Compute1 == acc' \in Unary
Compute2 == \E o \in Operands : acc' \in Binary(o)
Compute3 == \E o, p \in Operands : acc' \in Ternary(o, p)

Compute == Running /\ (Compute1 \/ Compute2 \/ Compute3) /\ UNCHANGED micros

Tick == micros < MaxMicros /\ micros' = micros + 1 /\ UNCHANGED acc

\* The two have nothing to do with each other: one moves while the other is at
\* its start.
Next == (micros = 0 /\ Compute) \/ (acc = 0 /\ Tick)

Spec == Init /\ [][Next]_vars

-----------------------------------------------------------------------------

\* Every operation stays in a word.
TypeOK == acc \in Word \cup {Fault} /\ micros \in 0..MaxMicros

Rises(lo, hi) == lo # Fault => lo <= hi

\* Interpolation stays between its ends, and meets each where the difference of
\* the two is a value.
LerpStaysBetween ==
  acc \in 0..One => \A o, p \in Operands :
    /\ Lerp(o, p, acc) \in MinOf(o, p)..MaxOf(o, p)
    /\ p - o \in Word => Lerp(o, p, 0) = o /\ Lerp(o, p, One) = p

NothingFalls ==
  acc < MaxWord =>
    /\ Rises(Exp2(acc), Exp2(acc + 1)) /\ Rises(Log2(acc), Log2(acc + 1))
    /\ Rises(Sqrt(acc), Sqrt(acc + 1)) /\ Floor(acc) <= Floor(acc + 1)
    /\ \A o \in Operands :
         /\ Add(acc, o) <= Add(acc + 1, o) /\ Sub(acc, o) <= Sub(acc + 1, o)
         /\ o >= 0 => Mul(acc, o) <= Mul(acc + 1, o)
         /\ o > 0 => Div(acc, o) <= Div(acc + 1, o)
         /\ \A p \in Operands : o < p => SmoothStep(acc, o, p) <= SmoothStep(acc + 1, o, p) + 1

Near(a, b, step) == AbsOf(a - b) <= step

\* The most a mix changes when its place does by the smallest step: the fade is half
\* as steep again as a line, and every product is rounded.
NoiseStep == 3

Steepest(palette) ==
  CHOOSE d \in 0..MaxWord :
    /\ \A i \in 0..(Stops - 1) : AbsOf(Stop(palette, i + 1) - Stop(palette, i)) <= d
    /\ \E i \in 0..(Stops - 1) : AbsOf(Stop(palette, i + 1) - Stop(palette, i)) = d

\* Noise passes from cell to cell without a jump, in every direction and below zero,
\* lies between nothing and one, and is the lattice's own value at its points; a palette
\* passes from stop to stop, and from the last to the first.
GridHasNoSeams ==
  acc < MaxWord =>
    /\ Near(Noise1(acc), Noise1(acc + 1), NoiseStep)
    /\ Fract(acc) = 0 => Noise1(acc) = Hashed(Cell(acc), 0, 0)
    /\ \A o \in Operands :
         /\ Noise3(o, o, acc) \in 0..One
         /\ Near(Noise2(acc, o), Noise2(acc + 1, o), NoiseStep)
         /\ Near(Noise2(o, acc), Noise2(o, acc + 1), NoiseStep)
         /\ Near(Noise3(o, acc, -o), Noise3(o, acc + 1, -o), NoiseStep)
         /\ Near(Noise3(o, o, acc), Noise3(o, o, acc + 1), NoiseStep)
    /\ \A palette \in Palettes :
         Near(PaletteSample(palette, acc), PaletteSample(palette, acc + 1),
              (Steepest(palette) * Stops) \div One + 2)

\* A value that rises by its smallest step makes nothing computed from it fall, no mix
\* overshoots and no pattern jumps: a slow fade has no flash in it, at the ends of the
\* range or anywhere else.  Only smoothstep, which rounds three times, may fall back by
\* its last bit.
NothingFlashes == Running => NothingFalls /\ LerpStaysBetween /\ GridHasNoSeams

\* The square root is the largest value whose square does not exceed its
\* argument, digit by digit, for everything sqrt and the lengths pass to it.
RootIsExact ==
  Running => \A v \in {AbsOf(acc) * One} \cup {(Squared(acc) + Squared(o)) * One : o \in Operands} :
    Isqrt(v) * Isqrt(v) <= v /\ v < (Isqrt(v) + 1) * (Isqrt(v) + 1)

\* The steepest a sine rises in the smallest step of its angle.
SineStep == ((SinQuarter[1] * 4 * Quarter) \div One) + 2

\* Angles lie in a half turn either way, and mirror with the point in both axes.
AnglesMirror ==
  \A o \in Operands :
    /\ Atan2(acc, o) \in -Pi..Pi
    /\ acc \in 1..MaxWord => Atan2(-acc, o) = -Atan2(acc, o)
    /\ (o \in 1..MaxWord /\ acc > 0) => Atan2(acc, -o) = Pi - Atan2(acc, o)

\* The circle has no seams: the four quadrants of a sine meet without a jump, half
\* a turn negates it, and the angle of a point mirrors with the point.
CircleHasNoSeams ==
  Running =>
    /\ AnglesMirror
    /\ AbsOf(SinTurns(acc)) <= One
    /\ acc < MaxWord => AbsOf(SinTurns(acc + 1) - SinTurns(acc)) <= SineStep
    /\ acc + (One \div 2) \in Word => SinTurns(acc + (One \div 2)) = -SinTurns(acc)

\* The show time every device computes from the mesh's clock: it moves forward
\* by no more than a microsecond's worth, and wraps only where seconds do.
ShowTimeRuns ==
  micros < MaxMicros =>
    LET gained == FromMicros(micros + 1) - FromMicros(micros)
    IN  \/ gained \in 0..((One \div MicrosPerSecond) + 1)
        \/ FromMicros(micros + 1) = 0 /\ FromMicros(micros) = MaxWord - (MaxWord % One) +
             PartOf(MicrosPerSecond - 1)

\* Lengths saturate where they have no value (q16.rs: arithmetic saturates
\* rather than wraps).
LengthsSaturate == Running => \A o \in Operands : Len2(acc, o) >= 0

\* One table covers every octant: the angle grows as the point turns (q16.rs,
\* at atan2).
AnglesGrow ==
  (Running /\ acc \in 0..(MaxWord - 1)) => \A o \in Operands :
    o > 0 => Atan2(acc, o) <= Atan2(acc + 1, o)

\* Products are rounded toward zero (q16.rs, at mul).
ProductsRoundTowardZero ==
  Running => \A o \in Operands : Mul(acc, o) = Saturate(Quotient(acc * o, One))
=============================================================================
