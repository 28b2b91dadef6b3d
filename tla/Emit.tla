-------------------------------- MODULE Emit --------------------------------
(***************************************************************************)
(* The code generator (lumen-lang, emit.rs): registers handed out from a   *)
(* stack, effect-level lets into frame or pixel, layers into pixel.        *)
(*                                                                         *)
(* An emitter is [frame, pixel, perm, floor, temp, bound, count, dt,       *)
(* failed], count being the simulation's elements; the operators that      *)
(* lower something return [e, v], the emitter and where the value is.  A   *)
(* failed emitter (out of registers) goes on, to no effect.                *)
(***************************************************************************)
EXTENDS EffectLanguage

Val(base, width) == [base |-> base, width |-> width]
Lane(v, k) == v.base + Min({k, v.width - 1})
Bases(vals) == [j \in DOMAIN vals |-> vals[j].base]

With2(e, v) == [e |-> e, v |-> v]

\* The({f(y) : y \in {x}}) is f(x), with x worked out before f is.
The(values) == CHOOSE v \in values : TRUE

Push(e, rate, code) ==
  IF rate = "pixel" THEN [e EXCEPT !.pixel = @ \o code] ELSE [e EXCEPT !.frame = @ \o code]

\* temp and permanent: the next registers, if there are that many.
Temp(e, width) ==
  IF e.temp + width > RegisterCount THEN With2([e EXCEPT !.failed = TRUE], Val(0, width))
  ELSE With2([e EXCEPT !.temp = @ + width], Val(e.temp, width))

Permanent(e, width) ==
  IF e.perm + width > RegisterCount THEN With2([e EXCEPT !.failed = TRUE], Val(0, width))
  ELSE With2([e EXCEPT !.perm = @ + width], Val(e.perm, width))

ReleaseTo(e, mark) == IF mark >= e.floor THEN [e EXCEPT !.temp = mark] ELSE e

\* Ascending, so that a destination may overlap a source above it.
MoveInto(e, rate, dst, src) ==
  Push(e, rate, SelectSeq([k \in 1..dst.width |-> Ins("Mov", dst.base + k - 1, Lane(src, k - 1), 0)],
                             LAMBDA ins : ins.a # ins.b))

\* May base..base+width-1 be written, descending, before vals are all read?
CollapseIsSafe(e, base, width, vals) ==
  \A j \in DOMAIN vals :
    \/ vals[j].base < e.floor
    \/ vals[j].base = base + j - 1
    \/ vals[j].base >= base + width

\* t, with code that leaves a value in it.
Give(t, rate, code) == With2(Push(t.e, rate, code), t.v)

Pack(e, rate, mark, vals) ==
  LET width == Len(vals)
      moves(d) == [k \in 1..width |-> Ins("Mov", d + k - 1, vals[k].base, 0)]
      fill(t) == Give(t, rate, SelectSeq(Reverse(moves(t.v.base)), LAMBDA ins : ins.a # ins.b))
  IN  fill(Temp(IF CollapseIsSafe(e, mark, width, vals) THEN ReleaseTo(e, mark) ELSE e, width))

Constant(e, rate, k) ==
  LET load(t) == Give(t, rate, <<Ins("LoadK", t.v.base, k, 0)>>) IN load(Temp(e, 1))

-----------------------------------------------------------------------------
(* Expressions *)

Builtin(name) ==
  CASE name = "i" -> Val(R_I, 1) [] name = "u" -> Val(R_U, 1) [] name = "t" -> Val(R_T, 1)
    [] name = "dt" -> Val(R_DT, 1) [] name = "prev" -> Val(R_PREV, 3)

\* The latest binding of a name; the state lives in the history registers.
Bound(e, name) ==
  LET at == {j \in DOMAIN e.bound : e.bound[j].name = name}
  IN  IF at # {} THEN e.bound[Max(at)].val ELSE Val(R_PREV, 3)

\* The first: an element's field, or what a simulation assigns to.
FirstBound(e, name) ==
  LET at == {j \in DOMAIN e.bound : e.bound[j].name = name}
  IN  e.bound[Min(at)].val

\* One lane of a binary operator; t is scratch for the forms that need it.
BinCode(op, d, x, y, t) ==
  CASE op = "Rem" -> <<Ins("Div", t, x, y), Ins("Floor", t, t, 0),
                       Ins("Mul", t + 1, t, y), Ins("Sub", d, x, t + 1)>>
    [] op = "Ne" -> <<Ins("Eq", d, x, y), Ins("LoadK", t, 2, 0), Ins("Sub", d, t, d)>>
    [] OTHER -> <<Ins(op, d, x, y)>>

BinScratch(op) == CASE op = "Rem" -> 2 [] op = "Ne" -> 1 [] OTHER -> 0

SharesOperands(op, a, b) == a.width = 1 /\ b.width = 1 /\ op # "Rem"

Binary2(e, rate, op, mark, a, b) ==
  LET width == Max({a.width, b.width})
      need == BinScratch(op)
      lanes(t, d) ==
        Give(t, rate, FlattenSeq([k \in 1..width |->
               BinCode(op, d.base + k - 1, Lane(a, k - 1), Lane(b, k - 1), t.v.base + need * (k - 1))]))
      into(t) == With2(lanes(Temp(t.e, need * width), t.v).e, t.v)
  IN  into(Temp(IF SharesOperands(op, a, b) THEN ReleaseTo(e, mark) ELSE e, width))

\* The two arguments an accumulating form reads after moving the third.
ReadsAfterMove(f, vals) ==
  CASE f = "smoothstep" -> {vals[1].base, vals[2].base}
    [] f \in {"clamp", "mix"} -> {vals[2].base, vals[3].base}
    [] OTHER -> {}

\* Mistake: arguments read after the move may be where the result goes.
ReusesScratchAlways(f, mark, vals) ==
  f \notin {"round", "mod"} /\ \A j \in DOMAIN vals : vals[j].width = 1

ReusesScratch(f, mark, vals) ==
  /\ f \notin {"round", "mod"}
  /\ \A j \in DOMAIN vals : vals[j].width = 1
  /\ mark \notin ReadsAfterMove(f, vals)

\* Calls that give one number from numbers.
ScalarCode(f, d, r, t) ==
  CASE f = "floor" -> <<Ins("Floor", d, r[1], 0)>>
    [] f = "round" -> <<Ins("LoadK", t, 1, 0), Ins("Add", d, r[1], t), Ins("Floor", d, d, 0)>>
    [] f = "mod" -> BinCode("Rem", d, r[1], r[2], t)
    [] f = "min" -> <<Ins("Min", d, r[1], r[2])>>
    [] f = "step" -> <<Ins("Step", d, r[2], r[1])>>
    [] f = "clamp" -> <<Ins("Mov", d, r[1], 0), Ins("Clamp", d, r[2], r[3])>>
    [] f = "mix" -> <<Ins("Mov", d, r[1], 0), Ins("Lerp", d, r[2], r[3])>>
    [] f = "smoothstep" -> <<Ins("Mov", d, r[3], 0), Ins("SmoothStep", d, r[1], r[2])>>

ScalarScratch(f) == CASE f = "round" -> 1 [] f = "mod" -> 2 [] OTHER -> 0

ScalarCall(e, rate, f, mark, vals) ==
  LET code(v, scratch) ==
        With2(Push(scratch.e, rate, ScalarCode(f, v.base, Bases(vals), scratch.v.base)), v)
      give(t) == code(t.v, Temp(t.e, ScalarScratch(f)))
  IN  give(Temp(IF ReusesScratch(f, mark, vals) THEN ReleaseTo(e, mark) ELSE e, 1))

\* Lanes 0..2 of an instruction, one after another.
PerLane(op, d, x(_), y(_)) == [k \in 1..3 |-> Ins(op, d + k - 1, x(k - 1), y(k - 1))]

VectorCall(e, rate, f, mark, vals) ==
  LET one(t, op, from) == Give(t, rate, <<Ins(op, t.v.base, from, 0)>>)
      inPlace(p) == With2(Push(p.e, rate, <<Ins("Hsv2Rgb", p.v.base, p.v.base, 0)>>), p.v)
      noise(p) == one(Temp(ReleaseTo(p.e, mark), 1), "Noise3", p.v.base)
      scaled(t) ==
        Give(t, rate, <<Ins("Temp2Rgb", t.v.base, vals[1].base, 0)>> \o
                      PerLane("Mul", t.v.base, LAMBDA k : t.v.base + k, LAMBDA k : vals[2].base))
      divided(n, t) ==
        Give(t, rate, <<Ins("Len3", n.base, vals[1].base, 0)>> \o
                      PerLane("Div", t.v.base, LAMBDA k : Lane(vals[1], k), LAMBDA k : n.base))
      unit(n) == divided(n.v, Temp(n.e, 3))
      length(gap) == one(Temp(gap.e, 1), IF gap.v.width = 3 THEN "Len3" ELSE "Abs", gap.v.base)
  IN  CASE f = "rgb" -> Pack(e, rate, mark, vals)
        [] f = "hsv" -> inPlace(Pack(e, rate, mark, vals))
        [] f = "noise3" -> noise(Pack(e, rate, mark, vals))
        [] f = "palette" ->
             one(Temp(IF CollapseIsSafe(e, mark, 3, vals) THEN ReleaseTo(e, mark) ELSE e, 3),
                 "Palette", vals[1].base)
        [] f = "temp" -> scaled(Temp(ReleaseTo(e, mark), 3))
        [] f = "normalize" -> unit(Temp(e, 1))
        [] f = "distance" -> length(Binary2(e, rate, "Sub", e.temp, vals[1], vals[2]))

VectorCalls == {"rgb", "hsv", "noise3", "palette", "temp", "normalize", "distance"}

-----------------------------------------------------------------------------
(* Accessors: unrolled over the elements, whose positions are array 0. *)

\* emit_offset: the way from element k to the point, into off and the two after
\* it, by way of one index register.
Offset(off, idx, point, k) ==
  FlattenSeq([lane \in 1..3 |->
    LET to == off + lane - 1
    IN  <<Ins("LoadK", idx, 2 * (3 * k + lane - 1), 0), Ins("ALoad", to, 0, idx),
          Ins("Sub", to, Lane(point, lane - 1), to)>>])

\* What is done with it; d and t are scratch.
AskStep(method, out, off, d, t, v, k) ==
  CASE method = "nearest" ->
         <<Ins("Len3", d, off, 0), IF k = 0 THEN Ins("Mov", out, d, 0) ELSE Ins("Min", out, out, d)>>
    [] method = "influence" ->
         <<Ins("Len3", d, off, 0), Ins("Div", d, d, v[2].base), Ins("LoadK", t, 2, 0),
           Ins("Sub", d, t, d), Ins("LoadK", t, 0, 0), Ins("Max", d, d, t), Ins("Add", out, out, d)>>
    [] method = "field" -> [lane \in 1..3 |-> Ins("Add", out + lane - 1, out + lane - 1, off + lane - 1)]

AskWidth(method) == IF method = "field" THEN 3 ELSE 1
AskScratch(method) == CASE method = "field" -> 4 [] method = "nearest" -> 5 [] OTHER -> 6
AskStart(method, out) ==
  IF method = "nearest" THEN <<>>
  ELSE [lane \in 1..AskWidth(method) |-> Ins("LoadK", out + lane - 1, 0, 0)]

\* The result first, then for each element the same scratch, given back.
AskCode(e, rate, method, v) ==
  LET step(r, off, k) == Offset(off, off + 3, v[1], k) \o
                         AskStep(method, r.base, off, off + 4, off + 5, v, k)
      code(r, s) == AskStart(method, r.v.base) \o
                    FlattenSeq([k \in 1..e.count |-> step(r.v, s.v.base, k - 1)])
      give(r, s) == With2(ReleaseTo(Push(s.e, rate, code(r, s)), r.e.temp), r.v)
      result(r) == give(r, Temp(r.e, AskScratch(method)))
  IN  result(Temp(e, AskWidth(method)))

RECURSIVE Lower(_, _, _, _)
RECURSIVE LowerAll(_, _, _, _)

Added(front, last) == With2(last.e, Append(front, last.v))

\* The arguments in order: [e, v] with v the sequence of where they are.
LowerAll(e, rate, xs, fns) ==
  IF xs = <<>> THEN With2(e, <<>>)
  ELSE The({Added(s.v, Lower(s.e, rate, Last(xs), fns)) : s \in {LowerAll(e, rate, Front(xs), fns)}})

\* A function is inlined: its arguments once each, then its body under them.
Under(a, fn) ==
  [a.e EXCEPT !.bound = @ \o [j \in DOMAIN fn.params |-> [name |-> fn.params[j], val |-> a.v[j]]]]

Unbound(s, e) == With2([s.e EXCEPT !.bound = e.bound], s.v)

\* An operation on lowered operands: s is after them, e before.
Operate(s, e, rate, x) ==
  CASE x.kind = "field" -> With2(s.e, Val(Lane(s.v[1], x.lane), 1))
    [] x.kind = "bin" -> Binary2(s.e, rate, x.op, e.temp, s.v[1], s.v[2])
    [] x.kind = "ask" -> AskCode(s.e, rate, x.method, s.v)
    [] x.kind = "call" -> IF x.f \in VectorCalls THEN VectorCall(s.e, rate, x.f, e.temp, s.v)
                          ELSE ScalarCall(s.e, rate, x.f, e.temp, s.v)

Operands(x) ==
  CASE x.kind = "field" -> <<x.arg>> [] x.kind = "bin" -> <<x.l, x.r>> [] x.kind \in {"call", "ask"} -> x.args

Lower(e, rate, x, fns) ==
  CASE x.kind = "num" -> Constant(e, rate, x.val)
    [] x.kind = "in" -> With2([e EXCEPT !.dt = @ \/ x.name = "dt"], Builtin(x.name))
    [] x.kind = "ref" -> With2(e, Bound(e, x.name))
    [] x.kind = "elem" -> With2(e, FirstBound(e, FieldName(x.of, x.field)))
    [] x.kind = "apply" ->
         Unbound(Lower(Under(LowerAll(e, rate, x.args, fns), fns[x.f]), rate, fns[x.f].body, fns), e)
    [] OTHER -> Operate(LowerAll(e, rate, Operands(x), fns), e, rate, x)

-----------------------------------------------------------------------------
(* Lets and layers *)

Bind(e, name, val) == [e EXCEPT !.bound = Append(@, [name |-> name, val |-> val])]

Keep(s, rate, name, v) == Bind(MoveInto(s.e, rate, v, s.v), name, v)

\* An effect-level let in a register that lasts the frame, or the pixel.  Its
\* register is taken before its value's scratch, which starts above it.
LowerLet(p, rate, l, fns) ==
  Keep(Lower([p.e EXCEPT !.temp = p.e.perm], rate, l.value, fns), rate, l.name, p.v)

\* How many lanes each effect-level let has.
LetWidth(effect, name) ==
  LET unknown == [n \in {"i", "u", "t", "dt", "prev", "elements"} |->
                   IF n \in {"prev", "elements"} THEN Black ELSE <<Num(0)>>]
      env == FoldLeft(LAMBDA v, l : With(v, l.name, Meaning(l.value, v, effect.fns)),
                      unknown, effect.lets)
  IN  Len(env[name])

RECURSIVE LowerLets(_, _, _, _)
LowerLets(e, effect, lets, rate) ==
  IF lets = <<>> THEN e
  ELSE LET after == {LowerLet(p, rate, Head(lets), effect.fns) :
                       p \in {Permanent(e, LetWidth(effect, Head(lets).name))}}
       IN  The({LowerLets(s, effect, Tail(lets), rate) : s \in after})

LetsOf(effect, wanted) ==
  LET rates == LetRates(effect)
  IN  SelectSeq(effect.lets, LAMBDA l : rates[l.name] \in wanted /\ Used(effect, l.name))

\* The last let of the layer to read the j-th, or one past them all.
LastUse(layer, j) ==
  IF MentionsAny(layer.trail \o layer.opacity \o <<layer.color>>, layer.lets[j].name)
  THEN Len(layer.lets) + 1
  ELSE Max({j} \cup {n \in DOMAIN layer.lets :
                       n > j /\ Mentions(layer.lets[n].value, layer.lets[j].name)})

\* The registers of the layer's lets that are dead after the j-th, from the top.
RECURSIVE PopDead(_, _)
PopDead(s, j) ==
  IF s.held = <<>> \/ Last(s.held).until > j THEN s
  ELSE PopDead([e |-> [s.e EXCEPT !.floor = Last(s.held).base], held |-> Front(s.held)], j)

\* A let's value v, moved to t: above the registers still held, and held itself.
Park(s, t, v, name, until) ==
  [e |-> Bind([MoveInto(t.e, "pixel", t.v, v) EXCEPT !.floor = t.v.base + t.v.width], name, t.v),
   held |-> Append(s.held, [base |-> t.v.base, until |-> until])]

\* The j-th let of a layer, its value worked out, where the dead ones were.
LowerLocal(s, v, layer, j) ==
  Park(s, Temp([s.e EXCEPT !.temp = s.e.floor], v.width), v, layer.lets[j].name, LastUse(layer, j))

Release(s, held, layer, j) == LowerLocal(PopDead([e |-> s.e, held |-> held], j), s.v, layer, j)

RECURSIVE LowerLocals(_, _, _, _)
LowerLocals(s, layer, j, fns) ==
  IF j > Len(layer.lets) THEN s.e
  ELSE LET value == Lower([s.e EXCEPT !.temp = s.e.floor], "pixel", layer.lets[j].value, fns)
       IN  The({LowerLocals(r, layer, j + 1, fns) : r \in {Release(value, s.held, layer, j)}})

\* The state is assigned in the history registers themselves.
Assign(s) ==
  Push(s.e, "pixel",
       Append(SelectSeq([k \in 1..3 |-> Ins("Mov", R_PREV + 3 - k, Lane(s.v, 3 - k), 0)],
                        LAMBDA ins : ins.a # ins.b),
              Ins("PrevWrite", R_PREV, 0, 0)))

LowerTrail(e, layer, fns) ==
  IF layer.trail = <<>> THEN e
  ELSE Assign(Lower([e EXCEPT !.temp = e.floor], "pixel", layer.trail[1], fns))

BlendCode(mode, d, s, t) ==
  CASE mode = "normal" -> <<Ins("Mov", d, s, 0)>>
    [] mode = "add" -> <<Ins("Add", d, d, s)>>
    [] mode = "multiply" -> <<Ins("Mul", d, d, s)>>
    [] mode = "max" -> <<Ins("Max", d, d, s)>>
    [] mode = "min" -> <<Ins("Min", d, d, s)>>
    [] mode = "difference" -> <<Ins("Sub", d, d, s), Ins("Abs", d, d, 0)>>
    [] mode = "screen" -> <<Ins("LoadK", t, 2, 0), Ins("Sub", t + 1, t, d), Ins("Sub", t + 2, t, s),
                            Ins("Mul", t + 1, t + 1, t + 2), Ins("Sub", d, t, t + 1)>>
    [] mode = "overlay" -> <<Ins("LoadK", t, 4, 0), Ins("Mul", d, d, s), Ins("Mul", d, d, t),
                             Ins("LoadK", t, 0, 0), Ins("LoadK", t + 1, 2, 0), Ins("Clamp", d, t, t + 1)>>

BlendScratch(mode) == CASE mode = "screen" -> 3 [] mode = "overlay" -> 2 [] OTHER -> 0

Blend(e, mode, dst, src) ==
  LET need == BlendScratch(mode)
      code(t) == Push(t.e, "pixel", FlattenSeq([k \in 1..3 |->
                   BlendCode(mode, dst.base + k - 1, Lane(src, k - 1), t.v.base + need * (k - 1))]))
  IN  code(Temp(e, 3 * need))

\* The first layer replaces the accumulator; what it does where the layer is
\* masked off, or blends, is what the register file held.
Replaces(layer, first) == first /\ layer.blend = "normal"

\* The skip is patched to the length of the layer's body.
SkipLength(body) == Len(body)

Gated(e, mask, body) ==
  IF mask = <<>> THEN e.pixel \o body
  ELSE e.pixel \o <<Ins("MaskTest", mask[1], SkipLength(body), 0)>> \o body

Scale(c, o) ==
  LET times(t) ==
        Give(t, "pixel", PerLane("Mul", t.v.base, LAMBDA k : Lane(c.v, k), LAMBDA k : o.v.base))
  IN  times(Temp(o.e, 3))

\* What is in c, times the layer's opacity if it has one.
Fade(c, layer, fns) ==
  IF layer.opacity = <<>> THEN c ELSE Scale(c, Lower(c.e, "pixel", layer.opacity[1], fns))

Put(c, layer, accum, first) ==
  IF Replaces(layer, first) THEN MoveInto(c.e, "pixel", accum, c.v)
  ELSE Blend(c.e, layer.blend, accum, c.v)

Mask(e, layer, fns) ==
  IF layer.mask = <<>> THEN With2(e, Val(0, 1))
  ELSE Lower([e EXCEPT !.temp = e.floor], "pixel", layer.mask[1], fns)

Color(e, layer, fns) ==
  Fade(Lower([e EXCEPT !.temp = e.floor], "pixel", layer.color, fns), layer, fns)

\* What the mask skips: lets, then trail, then the color into the accumulator.
Body(e, layer, accum, first, fns) ==
  LET empty == [e |-> [e EXCEPT !.pixel = <<>>], held |-> <<>>]
      lets == {LowerLocals(s, layer, 1, fns) : s \in {empty}}
      trail == {LowerTrail(s, layer, fns) : s \in lets}
      colored == {Color(s, layer, fns) : s \in trail}
  IN  The({Put(c, layer, accum, first) : c \in colored})

\* Afterwards the layer's names and registers are free again.
Closed(done, m, layer, e) ==
  [done EXCEPT
    !.pixel = Gated(m.e, IF layer.mask = <<>> THEN <<>> ELSE <<m.v.base>>, @),
    !.bound = e.bound, !.floor = e.floor, !.temp = e.floor]

LowerLayer(e, layer, accum, first, fns) ==
  The({Closed(Body(m.e, layer, accum, first, fns), m, layer, e) : m \in {Mask(e, layer, fns)}})

-----------------------------------------------------------------------------
(* A whole effect *)

Start(base, effect) ==
  [frame |-> <<>>, pixel |-> <<>>, perm |-> base, floor |-> base, temp |-> base, bound |-> <<>>,
   count |-> IF effect.sim = <<>> THEN 0 ELSE effect.sim[1].count, dt |-> FALSE, failed |-> FALSE]

RECURSIVE LowerLayers(_, _, _, _)
LowerLayers(e, effect, accum, n) ==
  IF n > Len(effect.layers) THEN e
  ELSE LET after == {LowerLayer(e, effect.layers[n], accum, n = 1, effect.fns)}
       IN  The({LowerLayers(s, effect, accum, n + 1) : s \in after})

\* Scratch starts above the registers that last.
Scratch(e) == [e EXCEPT !.floor = e.perm, !.temp = e.perm]

EmitPixel(a, effect) ==
  Push(LowerLayers(Scratch(LowerLets(a.e, effect, LetsOf(effect, {"pixel"}), "pixel")), effect, a.v, 1),
       "pixel", <<Ins("EmitRgb", a.v.base, a.v.base + 1, a.v.base + 2)>>)

EmitFrom(effect, base) ==
  EmitPixel(Permanent(LowerLets(Start(base, effect), effect, LetsOf(effect, {"once", "frame"}), "frame"), 3),
            effect)
=============================================================================
