----------------------------- MODULE OutputStage -----------------------------
(***************************************************************************)
(* Linear light in, device codes out (lumen-vm, output.rs): brightness,    *)
(* the supply's budget, and rounding or ordered dither.                    *)
(*                                                                         *)
(* A frame is one value per channel, three channels per LED; a value of    *)
(* One is full scale, and a code of FullCode.  The code has 65536 and 255; *)
(* the arithmetic is the same for other values, which the runs choose so   *)
(* that a whole strip's frames can be enumerated.                          *)
(***************************************************************************)
EXTENDS Integers, Sequences, FiniteSets, FiniteSetsExt

CONSTANTS
  One,           \* Q16::ONE
  FullCode,      \* 255
  Period,        \* frames in the dither sequence, 16
  Phases,        \* 2^32, where the frame number wraps
  Frames,        \* the frames an effect may render
  Brightnesses,  \* a dimmer's or a night mode's
  Supplies,      \* [channel, idle, budget], in microamps
  NoSupply       \* a device that knows of no supply

ASSUME ScaleAssumption == One \in Nat \ {0} /\ FullCode \in Nat \ {0}
ASSUME PeriodAssumption ==
  Period = 16 /\ One % (2 * Period) = 0 /\ Phases \in Nat \ {0} /\ Phases % Period = 0
ASSUME InputsAssumption ==
  /\ Frames \subseteq Seq(Int) /\ Brightnesses \subseteq Int
  /\ Supplies \subseteq [channel : Nat, idle : Nat, budget : Nat]
ASSUME NoSupplyAssumption == NoSupply \notin Supplies

VARIABLES brightness, supply, dither, phase, linear, codes, report

vars == <<brightness, supply, dither, phase, linear, codes, report>>

CHANNELS == 3
Pixel(i) == (i - 1) \div CHANNELS
LedsOf(frame) == Len(frame) \div CHANNELS

Clamped(v, top) == Min({Max({v, 0}), top})

\* threshold_for: the four-bit counter with its bits reversed, half a step in.
Bit(k, b) == (k \div b) % 2

Reversed(k) == (Bit(k, 1) * 8) + (Bit(k, 2) * 4) + (Bit(k, 4) * 2) + Bit(k, 8)

ThresholdFor(led, at) ==
  LET k == ((at + (led * 7)) % Phases) % Period
  IN  ((Reversed(k) * 2) + 1) * (One \div (Period * 2))

\* Mistake: a threshold for each channel.
RoundingPerChannel(dithered, i, at) ==
  IF dithered THEN ThresholdFor(i, at) ELSE One \div 2

\* Mistake: the sequence starts at zero, not half a step in.
RoundingFromZero(dithered, i, at) ==
  IF dithered THEN ThresholdFor(Pixel(i), at) - One \div (Period * 2) ELSE One \div 2

\* What is added to a value in codes before its fraction is dropped.
Rounding(dithered, i, at) ==
  IF dithered THEN ThresholdFor(Pixel(i), at) ELSE One \div 2

\* Scaled light to code: full scale lands on FullCode.
CodeOf(light, rounding) == Clamped(((light * FullCode) + rounding) \div One, FullCode)

Scaled(v, scale) == (Clamped(v, One) * scale) \div One

SumOf(prices) == MapThenSumSet(LAMBDA i : prices[i], DOMAIN prices)

IdleDraw(frame, s) == LedsOf(frame) * s.idle

\* The frame that will be sent, priced before any derating.
ColourDraw(frame, scale, s) ==
  SumOf([i \in DOMAIN frame |-> (Scaled(frame[i], scale) * s.channel) \div One])

\* Mistake: nothing is kept back for the quantiser.
NoReserve(frame, s) == 0

\* What the quantiser can round up by: half a code for each channel.
Reserve(frame, s) == (Len(frame) * s.channel) \div (2 * FullCode)

NonNegative(n) == Max({n, 0})

\* Mistake: the frame is priced at full brightness.
FactorBeforeBrightness(frame, scale, s) ==
  LET colour == ColourDraw(frame, One, s)
      left == NonNegative(NonNegative(s.budget - IdleDraw(frame, s)) - Reserve(frame, s))
  IN  IF colour + IdleDraw(frame, s) <= s.budget THEN One
      ELSE Min({(left * One) \div Max({colour, 1}), One})

\* The factor the whole frame is scaled by so that it fits the supply.
FactorFor(frame, scale, s) ==
  LET colour == ColourDraw(frame, scale, s)
      left == NonNegative(NonNegative(s.budget - IdleDraw(frame, s)) - Reserve(frame, s))
  IN  IF colour + IdleDraw(frame, s) <= s.budget THEN One
      ELSE Min({(left * One) \div Max({colour, 1}), One})

Derated(frame, scale) == IF supply = NoSupply THEN One ELSE FactorFor(frame, scale, supply)

\* The codes encode() writes, with frame number at.
Encode(frame, level, at) ==
  LET scale == Clamped(level, One)
      scaled == (scale * Derated(frame, scale)) \div One
  IN  [i \in DOMAIN frame |-> CodeOf(Scaled(frame[i], scaled), Rounding(dither, i, at))]

\* The current those codes draw.
DrawOf(written) ==
  IF supply = NoSupply THEN 0
  ELSE SumOf([i \in DOMAIN written |-> (written[i] * supply.channel) \div FullCode])
         + IdleDraw(written, supply)

Init ==
  /\ brightness \in Brightnesses
  /\ supply \in Supplies \cup {NoSupply}
  /\ dither \in BOOLEAN
  /\ phase \in 0..(Phases - 1)
  /\ linear = <<>> /\ codes = <<>>
  /\ report = [draw |-> 0, derated |-> One]

\* encode: the next frame of the show, at the brightness the shell passes.
Show(frame, level) ==
  /\ brightness' = level
  /\ linear' = frame
  /\ codes' = Encode(frame, level, phase)
  /\ report' = [draw |-> DrawOf(codes'), derated |-> Derated(frame, Clamped(level, One))]
  /\ phase' = (phase + 1) % Phases
  /\ UNCHANGED <<supply, dither>>

Next == \E frame \in Frames, level \in Brightnesses : Show(frame, level)

Spec == Init /\ [][Next]_vars

-----------------------------------------------------------------------------

TypeOK ==
  /\ brightness \in Brightnesses /\ supply \in Supplies \cup {NoSupply}
  /\ dither \in BOOLEAN /\ phase \in 0..(Phases - 1) /\ linear \in Seq(Int)
  /\ codes \in [DOMAIN linear -> 0..FullCode]
  /\ report.derated \in 0..One /\ report.draw \in Nat

\* A channel is priced and its scaled light rounded down before it is scaled
\* again: the most that can go missing from the price of a frame.
PricingLoss(frame, s) == Len(frame) * ((s.channel \div One) + 2)

SupplyFor(frame) == Max({supply.budget, IdleDraw(frame, supply)})

\* A derated strip draws no more than its supply gives, idle draw and rounding
\* included, except where the idle draw alone is more than that; one that was
\* not derated draws at most the rounding more than it.
WithinSupply ==
  (supply # NoSupply /\ ~dither) =>
    report.draw <= SupplyFor(linear) + PricingLoss(linear, supply)
                     + (IF report.derated = One THEN Reserve(linear, supply) ELSE 0)

\* The reserve for rounding keeps every frame, not the average one, within its
\* supply (output.rs, at the reserve).
PeakWithinSupply ==
  (supply # NoSupply /\ ~dither) =>
    report.draw <= SupplyFor(linear) + PricingLoss(linear, supply)

\* It does so also where the frame is dithered and was derated.
DitheredPeakWithinSupply ==
  (supply # NoSupply /\ dither /\ report.derated < One) =>
    report.draw <= SupplyFor(linear) + PricingLoss(linear, supply)

\* A frame that was too big is made no dimmer than its supply and the reserve
\* for rounding call for.
NoDimmerThanNeeded ==
  (supply # NoSupply /\ report.derated \in 1..(One - 1) /\ ~dither) =>
    report.draw + (2 * Reserve(linear, supply)) + (3 * PricingLoss(linear, supply))
      >= supply.budget

\* Two channels stand in the ratio they were rendered in, to within one rounding
\* of each.
RatioKept(i, j) ==
  LET a == Clamped(linear[i], One)
      b == Clamped(linear[j], One)
  IN  2 * One * ((codes[i] * b) - (codes[j] * a)) <= (a + b) * (One + (2 * FullCode))

\* Dimming, whether the user's or the supply's, keeps colours.  Dithered or not,
\* the channels of a pixel keep their order and those within a code of each other
\* stay within a code: a dim grey never comes out as a hue.
HueHolds ==
  \A i, j \in DOMAIN linear :
    /\ ~dither => RatioKept(i, j)
    /\ (Pixel(i) = Pixel(j) /\ linear[i] <= linear[j]) =>
         /\ codes[i] <= codes[j]
         /\ (linear[j] - linear[i]) * FullCode < One => codes[j] <= codes[i] + 1

\* Over any Period consecutive frames, also where the frame number wraps, a
\* dithered channel gives as much light as was asked for, to half a code.
DitherAverages ==
  (dither /\ linear # <<>> /\ supply = NoSupply) => \A i \in DOMAIN linear :
    LET total == SumOf([k \in 0..(Period - 1) |-> Encode(linear, brightness, (phase + k) % Phases)[i]])
        wanted == Period * Scaled(linear[i], Clamped(brightness, One)) * FullCode
    IN  2 * ((One * total) - wanted) <= One /\ 2 * (wanted - (One * total)) <= One
=============================================================================
