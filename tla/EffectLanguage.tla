--------------------------- MODULE EffectLanguage ---------------------------
(***************************************************************************)
(* Effects as the parser leaves them (lumen-lang, ast.rs), the rate the    *)
(* resolver gives an expression (resolve.rs), and what an effect means,    *)
(* said without registers or sections.                                     *)
(*                                                                         *)
(* Left out of the expressions: parameters (constants by now), channels,   *)
(* strings, and the built-ins that differ from u only in register.  An     *)
(* effect has one simulation at most, whose fields hold three words each.  *)
(***************************************************************************)
EXTENDS PixelMachine

\* Expressions.  Constants are counted in halves, so Num(1) is 0.5.
Lit(k) == [kind |-> "num", val |-> k]
In(name) == [kind |-> "in", name |-> name]
Ref(name) == [kind |-> "ref", name |-> name]
Field(x, k) == [kind |-> "field", arg |-> x, lane |-> k]
Bin(op, l, r) == [kind |-> "bin", op |-> op, l |-> l, r |-> r]
Call(f, args) == [kind |-> "call", f |-> f, args |-> args]
Apply(f, args) == [kind |-> "apply", f |-> f, args |-> args]
Elem(of, field) == [kind |-> "elem", of |-> of, field |-> field]
Ask(method, args) == [kind |-> "ask", method |-> method, args |-> args]

Let(name, x) == [name |-> name, value |-> x]
Fn(params, body) == [params |-> params, body |-> body]

\* mask, opacity and trail hold one expression or none; trail is what the layer
\* assigns to the effect's state.
Layer(lets, mask, blend, opacity, trail, color) ==
  [lets |-> lets, mask |-> mask, blend |-> blend, opacity |-> opacity,
   trail |-> trail, color |-> color]
Effect(fns, lets, layers) == [fns |-> fns, lets |-> lets, layers |-> layers, sim |-> <<>>]

\* A simulation of count elements, and its statements.
Sim(count, body) == [count |-> count, body |-> body]
WithSim(effect, sim) == [effect EXCEPT !.sim = <<sim>>]
Local(name, x) == [kind |-> "let", name |-> name, value |-> x]
SetLocal(name, x) == [kind |-> "assign", name |-> name, value |-> x]
SetField(of, field, x) == [kind |-> "set", of |-> of, field |-> field, value |-> x]
If(cond, then, otherwise) == [kind |-> "if", cond |-> cond, then |-> then, otherwise |-> otherwise]
ForEach(binding, body) == [kind |-> "each", binding |-> binding, body |-> body]

State == "trail"
FrameInputs == {"t", "dt"}
PixelInputs == {"i", "u", "prev"}

Rates == <<"once", "frame", "pixel">>
Rank(rate) == CHOOSE n \in 1..3 : Rates[n] = rate
Slowest(rates) == Rates[Max({1} \cup {Rank(r) : r \in rates})]

Elems(s) == {s[j] : j \in DOMAIN s}

\* check: the section an expression can be computed in.  known gives the names
\* declared so far; what a function's body reads is not looked at.
RECURSIVE RateOf(_, _)
RateOf(x, known) ==
  CASE x.kind = "num" -> "once"
    [] x.kind = "in" -> IF x.name \in FrameInputs THEN "frame" ELSE "pixel"
    [] x.kind = "ref" -> IF x.name = State THEN "pixel" ELSE known[x.name]
    [] x.kind = "field" -> RateOf(x.arg, known)
    [] x.kind = "ask" -> "pixel"
    [] x.kind = "elem" -> "frame"
    [] x.kind = "bin" -> Slowest({RateOf(x.l, known), RateOf(x.r, known)})
    [] x.kind \in {"call", "apply"} -> Slowest({RateOf(a, known) : a \in Elems(x.args)})

\* The rate of each of the effect's own lets, by name.
LetRates(effect) ==
  FoldLeft(LAMBDA known, l : [n \in DOMAIN known \cup {l.name} |->
             IF n = l.name THEN RateOf(l.value, known) ELSE known[n]],
           [n \in {} |-> "once"], effect.lets)

RECURSIVE Mentions(_, _)
Mentions(x, name) ==
  CASE x.kind = "ref" -> x.name = name
    [] x.kind \in {"num", "in"} -> FALSE
    [] x.kind = "field" -> Mentions(x.arg, name)
    [] x.kind = "bin" -> Mentions(x.l, name) \/ Mentions(x.r, name)
    [] x.kind \in {"call", "apply", "ask"} -> \E a \in Elems(x.args) : Mentions(a, name)
    [] x.kind = "elem" -> x.of = name

MentionsAny(xs, name) == \E x \in Elems(xs) : Mentions(x, name)

\* The expressions of a simulation: what it assigns, and what it branches on.
RECURSIVE Values(_)
Values(body) ==
  UNION {CASE st.kind = "if" -> Values(st.then) \cup Values(st.otherwise)
           [] st.kind = "each" -> Values(st.body)
           [] OTHER -> {st.value} : st \in Elems(body)}

RECURSIVE Conditions(_)
Conditions(body) ==
  UNION {CASE st.kind = "if" -> {st.cond} \cup Conditions(st.then) \cup Conditions(st.otherwise)
           [] st.kind = "each" -> Conditions(st.body)
           [] OTHER -> {} : st \in Elems(body)}

\* An effect-level let that nothing reads is not emitted.
Used(effect, name) ==
  \/ \E sim \in Elems(effect.sim) :
       \E x \in Values(sim.body) \cup Conditions(sim.body) : Mentions(x, name)
  \/ \E l \in Elems(effect.lets) : Mentions(l.value, name)
  \/ \E y \in Elems(effect.layers) :
       \/ MentionsAny(y.mask \o y.opacity \o y.trail \o <<y.color>>, name)
       \/ \E l \in Elems(y.lets) : Mentions(l.value, name)

-----------------------------------------------------------------------------
(* Meanings.  A value is a sequence of one term or three. *)

Pick(v, k) == IF k <= Len(v) THEN v[k] ELSE v[Len(v)]
Lanes(a, b) == 1..Max({Len(a), Len(b)})

BinTerm(op, x, y) ==
  CASE op = "Rem" -> <<"Sub", x, <<"Mul", <<"Floor", <<"Div", x, y>>>>, y>>>>
    [] op = "Ne" -> <<"Sub", Num(2), <<"Eq", x, y>>>>
    [] OTHER -> <<op, x, y>>

\* A function of three scalars, by the order its instruction takes them in.
CallMeaning(f, v) ==
  LET s == [j \in DOMAIN v |-> v[j][1]]
  IN  CASE f = "rgb" -> s
        [] f = "hsv" -> [k \in 1..3 |-> <<"Hsv2Rgb", k - 1>> \o s]
        [] f = "palette" -> [k \in 1..3 |-> <<"Palette", k - 1, s[1]>>]
        [] f = "temp" -> [k \in 1..3 |-> <<"Mul", <<"Temp2Rgb", k - 1, s[1]>>, s[2]>>]
        [] f = "noise3" -> <<<<"Noise3">> \o s>>
        [] f = "normalize" ->
             [k \in 1..3 |-> <<"Div", v[1][k], <<"Len3">> \o v[1]>>]
        [] f = "distance" ->
             LET gap == [k \in Lanes(v[1], v[2]) |-> <<"Sub", Pick(v[1], k), Pick(v[2], k)>>]
             IN  IF Len(gap) = 3 THEN <<<<"Len3">> \o gap>> ELSE <<<<"Abs", gap[1]>>>>
        [] f = "floor" -> <<<<"Floor", s[1]>>>>
        [] f = "round" -> <<<<"Floor", <<"Add", s[1], Num(1)>>>>>>
        [] f = "mod" -> <<BinTerm("Rem", s[1], s[2])>>
        [] f = "min" -> <<<<"Min", s[1], s[2]>>>>
        [] f = "step" -> <<<<"Step", s[2], s[1]>>>>
        [] f = "clamp" -> <<<<"Clamp", s[1], s[2], s[3]>>>>
        [] f = "mix" -> <<<<"Lerp", s[1], s[2], s[3]>>>>
        [] f = "smoothstep" -> <<<<"SmoothStep", s[3], s[1], s[2]>>>>

\* What an accessor finds at v[1]: words are the positions of all elements.
AskMeaning(method, v, words) ==
  LET away(k) == [lane \in 1..3 |-> <<"Sub", v[1][lane], words[3 * (k - 1) + lane]>>]
      elems == 1..(Len(words) \div 3)
      gaps == [k \in elems |-> away(k)]
      far == [k \in elems |-> <<"Len3">> \o gaps[k]]
      falloff(d) == <<"Max", <<"Sub", Num(2), <<"Div", d, v[2][1]>>>>, Num(0)>>
  IN  CASE method = "nearest" -> <<FoldLeft(LAMBDA d, e : <<"Min", d, e>>, Head(far), Tail(far))>>
        [] method = "influence" -> <<FoldLeft(LAMBDA sum, d : <<"Add", sum, falloff(d)>>, Num(0), far)>>
        [] method = "field" ->
             [lane \in 1..3 |-> FoldLeft(LAMBDA sum, g : <<"Add", sum, g[lane]>>, Num(0), gaps)]

With(env, name, v) == [n \in DOMAIN env \cup {name} |-> IF n = name THEN v ELSE env[n]]

\* The fields of a foreach's element are bound to p.pos, p.vel...
FieldName(of, field) == of \o "." \o field

\* env gives inputs, lets, parameters and element fields their values, and
\* "elements" the positions broadcast.
RECURSIVE Meaning(_, _, _)
Meaning(x, env, fns) ==
  CASE x.kind = "num" -> <<Num(x.val)>>
    [] x.kind = "in" -> env[x.name]
    [] x.kind = "ref" -> IF x.name = State THEN env["prev"] ELSE env[x.name]
    [] x.kind = "field" -> <<Meaning(x.arg, env, fns)[x.lane + 1]>>
    [] x.kind = "bin" ->
         LET l == Meaning(x.l, env, fns)
             r == Meaning(x.r, env, fns)
         IN  [k \in Lanes(l, r) |-> BinTerm(x.op, Pick(l, k), Pick(r, k))]
    [] x.kind = "elem" -> env[FieldName(x.of, x.field)]
    [] x.kind = "ask" ->
         AskMeaning(x.method, [j \in DOMAIN x.args |-> Meaning(x.args[j], env, fns)], env["elements"])
    [] x.kind = "call" -> CallMeaning(x.f, [j \in DOMAIN x.args |-> Meaning(x.args[j], env, fns)])
    [] x.kind = "apply" ->
         LET fn == fns[x.f]
             inner == [n \in DOMAIN env \cup Elems(fn.params) |->
                         IF \E j \in DOMAIN fn.params : fn.params[j] = n
                         THEN Meaning(x.args[CHOOSE j \in DOMAIN fn.params : fn.params[j] = n],
                                      env, fns)
                         ELSE env[n]]
         IN  Meaning(fn.body, inner, fns)

BlendTerm(mode, below, c) ==
  CASE mode = "normal" -> c
    [] mode = "add" -> <<"Add", below, c>>
    [] mode = "multiply" -> <<"Mul", below, c>>
    [] mode = "max" -> <<"Max", below, c>>
    [] mode = "min" -> <<"Min", below, c>>
    [] mode = "difference" -> <<"Abs", <<"Sub", below, c>>>>
    [] mode = "screen" ->
         <<"Sub", Num(2), <<"Mul", <<"Sub", Num(2), below>>, <<"Sub", Num(2), c>>>>>>
    [] mode = "overlay" -> <<"Clamp", <<"Mul", <<"Mul", below, c>>, Num(4)>>, Num(0), Num(2)>>

\* A layer over what is below it.  Where its mask is zero it does nothing;
\* otherwise what it assigns to the state is what the state, and prev, then are.
LayerMeaning(s, layer, fns) ==
  LET wide(v) == [k \in 1..3 |-> Pick(v, k)]
      lets == FoldLeft(LAMBDA env, l : With(env, l.name, Meaning(l.value, env, fns)),
                       s.env, layer.lets)
      after == IF layer.trail = <<>> THEN lets
               ELSE With(lets, "prev", wide(Meaning(layer.trail[1], lets, fns)))
      plain == Meaning(layer.color, after, fns)
      scaled == IF layer.opacity = <<>> THEN plain
                ELSE LET o == Meaning(layer.opacity[1], after, fns)
                     IN  [k \in 1..3 |-> <<"Mul", Pick(plain, k), o[1]>>]
  IN  IF layer.mask # <<>> /\ IsZero(Meaning(layer.mask[1], s.env, fns)[1]) THEN s
      ELSE [env |-> With(s.env, "prev", after["prev"]),
            color |-> [k \in 1..3 |-> BlendTerm(layer.blend, s.color[k], Pick(scaled, k))],
            wrote |-> s.wrote \/ layer.trail # <<>>]

\* The layers over black, in order, and the history they leave.
EffectMeaning(effect, i, t, dt, prev, positions) ==
  LET inputs == [n \in {"i", "u", "t", "dt", "prev", "elements"} |->
                   CASE n = "i" -> <<<<"I", i>>>> [] n = "u" -> <<<<"U", i>>>>
                     [] n = "t" -> <<<<"T", t>>>> [] n = "dt" -> <<<<"DT", dt>>>>
                     [] n = "prev" -> prev [] n = "elements" -> positions]
      env == FoldLeft(LAMBDA e, l : With(e, l.name, Meaning(l.value, e, effect.fns)),
                      inputs, effect.lets)
      s == FoldLeft(LAMBDA b, y : LayerMeaning(b, y, effect.fns),
                    [env |-> env, color |-> Black, wrote |-> FALSE], effect.layers)
  IN  [color |-> s.color, history |-> IF s.wrote THEN s.env["prev"] ELSE s.color]
=============================================================================
