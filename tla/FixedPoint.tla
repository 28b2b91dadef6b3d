------------------------------ MODULE FixedPoint ------------------------------
(***************************************************************************)
(* The fixed-point arithmetic of the VM (lumen-vm, q16.rs) for words of    *)
(* Width bits, Shift of them fractional, with tables of 2^TableBits        *)
(* steps: 32, 16 and 8 in the code.  A value is its raw word.  Wider       *)
(* intermediates have twice the width, as i64 has.                         *)
(***************************************************************************)
EXTENDS Integers, Sequences

CONSTANTS
  Width, Shift, TableBits,
  SinQuarter, Log2Mantissa, Exp2Fraction, AtanTable,   \* tables.rs: 0..2^TableBits
  Pi, Tau,          \* Q16::PI, Q16::TAU
  MicrosPerSecond   \* 1_000_000

ASSUME WidthAssumption == Width \in Nat /\ Shift \in 1..(Width - 2) /\ TableBits \in 1..(Shift - 2)

One == 2^Shift
MaxWord == 2^(Width - 1) - 1
MinWord == -(2^(Width - 1))
Word == MinWord..MaxWord
Fault == MaxWord + 1   \* DivideByZero or DomainError, as a number no word holds

Saturate(v) == IF v > MaxWord THEN MaxWord ELSE IF v < MinWord THEN MinWord ELSE v

\* `as` a signed integer of so many bits.
As(v, bits) == ((v + 2^(bits - 1)) % 2^bits) - 2^(bits - 1)

AbsOf(v) == IF v < 0 THEN -v ELSE v

\* >> on a signed word.
Shr(v, n) == v \div 2^n

\* Division of signed words, which truncates.
Quotient(a, b) ==
  LET q == AbsOf(a) \div AbsOf(b) IN IF (a < 0) # (b < 0) THEN -q ELSE q

Add(x, y) == Saturate(x + y)
Sub(x, y) == Saturate(x - y)
Neg(x) == Saturate(-x)
Abs(x) == Saturate(AbsOf(x))
Mul(x, y) == Saturate(Shr(x * y, Shift))
Div(x, y) == IF y = 0 THEN Fault ELSE Saturate(Quotient(x * One, y))
Madd(x, y, z) == Saturate(Shr(x * y, Shift) + z)

MinOf(x, y) == IF x < y THEN x ELSE y
MaxOf(x, y) == IF x > y THEN x ELSE y
Clamp(x, lo, hi) == MaxOf(MinOf(x, hi), lo)

Fract(x) == x % One
Floor(x) == x - Fract(x)
ToInt(x) == Shr(x, Shift)
FromInt(n) == n * One

Lerp(x, to, t) == Add(Mul(Sub(to, x), t), x)

Step(x, edge) == IF x >= edge THEN One ELSE 0

SmoothStep(x, e0, e1) ==
  IF e0 = e1 THEN Step(x, e0)
  ELSE LET t == Clamp(Div(Sub(x, e0), Sub(e1, e0)), 0, One)
       IN  Mul(Mul(t, t), Sub(FromInt(3), Mul(t, FromInt(2))))

-----------------------------------------------------------------------------
(* Roots and lengths *)

\* Mistake: a digit that leaves nothing is not taken.
DigitStrict(s) ==
  IF s.rem > s.root + s.bit
  THEN [rem |-> s.rem - (s.root + s.bit), root |-> (s.root \div 2) + s.bit, bit |-> s.bit \div 4]
  ELSE [s EXCEPT !.root = @ \div 2, !.bit = @ \div 4]

\* One digit of isqrt64, on [rem, root, bit].
Digit(s) ==
  IF s.rem >= s.root + s.bit
  THEN [rem |-> s.rem - (s.root + s.bit), root |-> (s.root \div 2) + s.bit, bit |-> s.bit \div 4]
  ELSE [s EXCEPT !.root = @ \div 2, !.bit = @ \div 4]

\* The highest power of four not above v.
FirstBit(v) == CHOOSE b \in {4^k : k \in 0..(Width - 1)} : b <= v /\ v < 4 * b

Isqrt(v) ==
  LET s[k \in 0..Width] ==
        IF k = 0 THEN [rem |-> v, root |-> 0, bit |-> FirstBit(v)]
        ELSE LET before == s[k - 1] IN IF before.bit = 0 THEN before ELSE Digit(before)
  IN  IF v <= 0 THEN 0 ELSE s[Width].root

Sqrt(x) == IF x < 0 THEN Fault ELSE As(Isqrt(x * One), Width)

\* Squares are added wide; the root is cut to a word.
Squared(x) == Shr(x * x, Shift)
Len2(x, y) == As(Isqrt(As((Squared(x) + Squared(y)) * One, 2 * Width)), Width)
Len3(x, y, z) == As(Isqrt(As((Squared(x) + Squared(y) + Squared(z)) * One, 2 * Width)), Width)

-----------------------------------------------------------------------------
(* Tables *)

Quarter == 2^TableBits

\* Between two entries of a table, sub of 2^bits of the way.
Between(a, b, sub, bits) == a + Shr((b - a) * sub, bits)

\* Mistake: a mirrored quadrant interpolates toward the next entry.
NeighbourNext(i, descending) == IF i < Quarter THEN i + 1 ELSE i

\* Mirrored quadrants walk the table backwards.
Neighbour(i, descending) == IF ~descending THEN i + 1 ELSE IF i = 0 THEN 0 ELSE i - 1

SinTurns(x) ==
  LET scaled == Fract(x) * 4 * Quarter
      idx == Shr(scaled, Shift)
      sub == scaled % One
      descending == (idx \div Quarter) % 2 = 1
      i == IF descending THEN Quarter - (idx % Quarter) ELSE idx % Quarter
      v == Between(SinQuarter[i], SinQuarter[Neighbour(i, descending)], sub, Shift)
  IN  Saturate(IF idx >= 2 * Quarter THEN -v ELSE v)

CosTurns(x) == SinTurns(Add(x, One \div 4))

Sin(x) == SinTurns(Div(x, Tau))

TopBit(x) == CHOOSE k \in 0..(Width - 2) : 2^k <= x /\ x < 2^(k + 1)

Log2(x) ==
  IF x <= 0 THEN Fault
  ELSE LET top == TopBit(x)
           mantissa == IF top >= Shift THEN x \div 2^(top - Shift) ELSE x * 2^(Shift - top)
           m == mantissa - One
           idx == m \div 2^(Shift - TableBits)
           sub == m % 2^(Shift - TableBits)
       IN  Saturate(((top - Shift) * One)
                      + Between(Log2Mantissa[idx], Log2Mantissa[idx + 1], sub, Shift - TableBits))

\* Mistake: below zero the whole part is dropped instead of floored.
WholePartTruncated(x) == Quotient(x, One)

WholePart(x) == ToInt(Floor(x))

Exp2(x) ==
  LET idx == Fract(x) \div 2^(Shift - TableBits)
      sub == Fract(x) % 2^(Shift - TableBits)
      base == One + Between(Exp2Fraction[idx], Exp2Fraction[idx + 1], sub, Shift - TableBits)
      n == WholePart(x)
  IN  IF x >= (Width - Shift - 1) * One THEN MaxWord
      ELSE IF x <= -(Shift * One) THEN 0
      ELSE Saturate(IF n >= 0 THEN base * 2^n ELSE Shr(base, -n))

Pow(x, y) ==
  CASE x = 0 -> IF y > 0 THEN 0 ELSE One
    [] x < 0 -> Fault
    [] x > 0 -> Exp2(Mul(Log2(x), y))

\* The angle of the first quadrant turned into that of (x, y).
Turned(angle, y, x) ==
  LET half == IF x < 0 THEN Pi - angle ELSE angle
  IN  IF y < 0 THEN -half ELSE half

Atan2(y, x) ==
  LET ay == Abs(y)
      ax == Abs(x)
      small == MinOf(ax, ay)
      large == MaxOf(ax, ay)
      scaled == ((small * One) \div large) * Quarter
      idx == Clamp(Shr(scaled, Shift), 0, Quarter - 1)
      a == Between(AtanTable[idx], AtanTable[idx + 1], scaled % One, Shift)
  IN  IF x = 0 /\ y = 0 THEN 0
      ELSE Saturate(Turned(IF ay <= ax THEN a ELSE (Pi \div 2) - a, y, x))

-----------------------------------------------------------------------------
(* Conversions *)

\* Mistake: the fraction's product is kept in one word, as a copy of this did.
PartInOneWord(fraction) == As(fraction * One, Width) \div MicrosPerSecond

PartOf(fraction) == (fraction * One) \div MicrosPerSecond

\* from_micros: whole seconds wrap where a word has no room for them.
FromMicros(micros) ==
  (((micros \div MicrosPerSecond) % 2^(Width - 1 - Shift)) * One)
    + PartOf(micros % MicrosPerSecond)
=============================================================================
